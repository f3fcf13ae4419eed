----------------------------- MODULE TaskEngine -----------------------------
(***************************************************************************)
(* The prefetch engine of the KV cache manager (kvcm/kvcm/task_engine.py). *)
(*                                                                         *)
(* RPC threads call submit_intent, which claims the slot of its key in     *)
(* _records and posts _admit to the event loop.  Consumer coroutines take  *)
(* records off a queue, check outside the transfer gate whether the prefix *)
(* exists and fits, transfer it inside the gate and settle the record.     *)
(* Coroutines interleave at their awaits only; RPC threads (submit_intent  *)
(* and intent_status) interleave with everything, also with the middle of  *)
(* _finish, which is therefore two steps here: the receipt is written, and *)
(* then the slot is freed.                                                 *)
(***************************************************************************)
EXTENDS Integers, Sequences, FiniteSets

CONSTANTS
  Intents,       \* keys: a prefix and a target instance
  Consumers,     \* consumer coroutines
  MaxConcurrent, \* places in the transfer gate
  QueueSize,     \* capacity of the queue, 0 for none
  FinishedMax,   \* how many receipts are kept
  MaxSubmits     \* bound: calls of submit_intent

ASSUME GateAssumption == MaxConcurrent \in Nat \ {0} /\ FinishedMax \in Nat \ {0}
ASSUME QueueAssumption == QueueSize \in Nat /\ MaxSubmits \in Nat
ASSUME ConsumersAssumption == IsFiniteSet(Consumers)

(* A record is named after the call of submit_intent that created it. *)
Records == 1 .. MaxSubmits
NoRecord == 0

VARIABLES
  accepting,  \* TaskEngine._accepting
  slot,       \* TaskEngine._records, the record in flight for each key
  receipts,   \* TaskEngine._finished, oldest first
  queue,      \* TaskEngine._queue
  free,       \* free places of TaskEngine._gate
  errors,     \* TaskEngine._programming_errors, no higher than 3
  thread,     \* where each call of submit_intent is
  keyOf,      \* _IntentRecord.intent_id
  status,     \* _IntentRecord.status
  queued,     \* records with _IntentRecord.queued
  pc,         \* where each consumer is
  cur,        \* the record each consumer works on
  late,       \* consumers whose deadline has passed
  settling,   \* the record in the middle of _finish
  mode,       \* what the event loop is doing without interruption
  sweep,      \* the records shutdown has yet to look at
  shut,       \* how far shutdown has come
  deaf,       \* consumers whose cancellation was lost in the transfer
  asked,      \* the key of an intent_status call that found no slot
  evicted     \* history: keys one of whose receipts was dropped

tables    == <<slot, receipts, status, settling, evicted>>
recVars   == <<thread, keyOf, queued>>
conVars   == <<pc, cur, late, free, errors>>
shutVars  == <<accepting, mode, sweep, shut, deaf>>
vars == <<tables, recVars, conVars, shutVars, queue, asked>>

Init ==
  /\ accepting = TRUE
  /\ slot = [k \in Intents |-> NoRecord]
  /\ receipts = <<>> /\ queue = <<>>
  /\ free = MaxConcurrent /\ errors = 0
  /\ thread = [i \in Records |-> "idle"]
  /\ keyOf \in [Records -> Intents]
  /\ status = [i \in Records |-> "none"]
  /\ queued = {}
  /\ pc = [c \in Consumers |-> "get"]
  /\ cur = [c \in Consumers |-> NoRecord]
  /\ late = {}
  /\ settling = NoRecord
  /\ mode = "free" /\ sweep = {} /\ shut = "no" /\ deaf = {}
  /\ asked = {} /\ evicted = {}

-----------------------------------------------------------------------------
(* _finish *)

ReceiptKeys == {receipts[i].key : i \in 1 .. Len(receipts)}

(* The receipts without the one of k. *)
ReceiptsBut(k) ==
  LET p == CHOOSE i \in 1 .. Len(receipts) : receipts[i].key = k
  IN IF k \in ReceiptKeys
       THEN SubSeq(receipts, 1, p - 1) \o SubSeq(receipts, p + 1, Len(receipts))
       ELSE receipts

(* The receipt of k moves to the newest end of the ring; the oldest goes    *)
(* when there are too many.                                                 *)
WithReceipt(k, v) == Append(ReceiptsBut(k), [key |-> k, status |-> v])
Trimmed(q) == IF Len(q) > FinishedMax THEN Tail(q) ELSE q
Dropped(q) == IF Len(q) > FinishedMax THEN {q[1].key} ELSE {}

Finish_SlotFirst(r, v) ==
  IF slot[keyOf[r]] = r /\ status[r] = "pending"
    THEN /\ status' = [status EXCEPT ![r] = v]
         /\ slot' = [slot EXCEPT ![keyOf[r]] = NoRecord]
         /\ settling' = r
         /\ UNCHANGED <<receipts, evicted>>
    ELSE UNCHANGED tables

(* _finish up to the removal from _records: only the record in the slot,    *)
(* and only once.                                                           *)
Finish(r, v) ==
  IF slot[keyOf[r]] = r /\ status[r] = "pending"
    THEN /\ status' = [status EXCEPT ![r] = v]
         /\ receipts' = Trimmed(WithReceipt(keyOf[r], v))
         /\ evicted' = evicted \cup Dropped(WithReceipt(keyOf[r], v))
         /\ settling' = r
         /\ UNCHANGED slot
    ELSE UNCHANGED tables

(* The last statement of _finish. *)
FreeSlot ==
  /\ settling # NoRecord
  /\ slot' = [slot EXCEPT ![keyOf[settling]] = NoRecord]
  /\ settling' = NoRecord
  /\ UNCHANGED <<receipts, status, evicted, recVars, conVars, shutVars, queue, asked>>

(* The event loop may start another callback or coroutine step. *)
LoopFree == settling = NoRecord /\ mode = "free"

-----------------------------------------------------------------------------
(* RPC threads *)

(* submit_intent: the check of _accepting. *)
SubmitCheck(i) ==
  /\ thread[i] = "idle"
  /\ accepting
  /\ thread' = [thread EXCEPT ![i] = "checked"]
  /\ UNCHANGED <<tables, keyOf, queued, conVars, shutVars, queue, asked>>

Claims_LastWins(i) == TRUE

(* setdefault installs the new record. *)
Claims(i) == slot[keyOf[i]] = NoRecord

(* submit_intent: _records.setdefault.  Whoever finds the slot taken        *)
(* returns the key of the intent in flight.                                 *)
SubmitClaim(i) ==
  /\ thread[i] = "checked"
  /\ IF Claims(i)
       THEN /\ slot' = [slot EXCEPT ![keyOf[i]] = i]
            /\ status' = [status EXCEPT ![i] = "pending"]
            /\ thread' = [thread EXCEPT ![i] = "claimed"]
       ELSE /\ thread' = [thread EXCEPT ![i] = "returned"]
            /\ UNCHANGED <<slot, status>>
  /\ UNCHANGED <<receipts, settling, evicted, keyOf, queued, conVars, shutVars, queue, asked>>

(* submit_intent: call_soon_threadsafe(_admit). *)
SubmitPost(i) ==
  /\ thread[i] = "claimed"
  /\ thread' = [thread EXCEPT ![i] = "posted"]
  /\ UNCHANGED <<tables, keyOf, queued, conVars, shutVars, queue, asked>>

(* intent_status of a key somebody was given, and _records has nothing. *)
AskMisses(k) ==
  /\ asked = {}
  /\ \E i \in Records : keyOf[i] = k /\ thread[i] \in {"posted", "returned", "admitted"}
  /\ slot[k] = NoRecord
  /\ asked' = {k}
  /\ UNCHANGED <<tables, recVars, conVars, shutVars, queue>>

(* The look into _finished that follows. *)
AskAgain ==
  /\ asked # {}
  /\ asked' = {}
  /\ UNCHANGED <<tables, recVars, conVars, shutVars, queue>>

-----------------------------------------------------------------------------
(* The event loop: admission *)

Full == QueueSize # 0 /\ Len(queue) >= QueueSize

(* _admit while accepting: the record goes into the queue, or is refused. *)
Admit(i) ==
  /\ LoopFree
  /\ thread[i] = "posted"
  /\ accepting
  /\ thread' = [thread EXCEPT ![i] = "admitted"]
  /\ queued' = queued \cup {i}
  /\ IF Full
       THEN Finish(i, "failed") /\ UNCHANGED queue
       ELSE queue' = Append(queue, i) /\ UNCHANGED tables
  /\ UNCHANGED <<keyOf, conVars, shutVars, asked>>

AdmitRefused_Ignores(i) ==
  /\ LoopFree
  /\ thread[i] = "posted"
  /\ ~accepting
  /\ thread' = [thread EXCEPT ![i] = "admitted"]
  /\ UNCHANGED <<tables, keyOf, queued, conVars, shutVars, queue, asked>>

(* _admit after acceptance has ended: whatever waits in the slot without    *)
(* having been queued fails; when the slot is empty a fresh record is       *)
(* failed in its place, which leaves one more receipt.                      *)
AdmitRefused(i) ==
  /\ LoopFree
  /\ thread[i] = "posted"
  /\ ~accepting
  /\ thread' = [thread EXCEPT ![i] = "admitted"]
  /\ LET k == keyOf[i]
         r == slot[k]
     IN  CASE r = NoRecord ->
                /\ receipts' = Trimmed(WithReceipt(k, "failed"))
                /\ evicted' = evicted \cup Dropped(WithReceipt(k, "failed"))
                /\ UNCHANGED <<slot, status, settling>>
           [] r # NoRecord /\ r \in queued -> UNCHANGED tables
           [] r # NoRecord /\ r \notin queued -> Finish(r, "failed")
  /\ UNCHANGED <<keyOf, queued, conVars, shutVars, queue, asked>>

-----------------------------------------------------------------------------
(* The event loop: consumers *)

Busy(c) == cur[c] # NoRecord

(* No cancellation is on its way to c, or it has come and gone. *)
Undisturbed(c) == shut = "no" \/ c \in deaf

Running(c) == LoopFree /\ Undisturbed(c) /\ Busy(c)

Goes(c, to) == pc' = [pc EXCEPT ![c] = to]

Get(c) ==
  /\ LoopFree /\ Undisturbed(c)
  /\ pc[c] = "get" /\ queue # <<>>
  /\ cur' = [cur EXCEPT ![c] = Head(queue)]
  /\ queue' = Tail(queue)
  /\ Goes(c, "exists")
  /\ UNCHANGED <<tables, recVars, late, free, errors, shutVars, asked>>

(* exists answered yes; the budget of _wait_then_run starts. *)
Found(c) ==
  /\ Running(c) /\ pc[c] = "exists"
  /\ Goes(c, "room")
  /\ late' = late \ {c}
  /\ UNCHANGED <<tables, recVars, cur, free, errors, shutVars, queue, asked>>

(* check_segment_room passed in time; now wait for the gate. *)
Fits(c) ==
  /\ Running(c) /\ pc[c] = "room" /\ c \notin late
  /\ Goes(c, "gate")
  /\ UNCHANGED <<tables, recVars, cur, late, free, errors, shutVars, queue, asked>>

Acquire(c) ==
  /\ Running(c) /\ pc[c] = "gate" /\ free > 0
  /\ free' = free - 1
  /\ Goes(c, "flow")
  /\ UNCHANGED <<tables, recVars, cur, late, errors, shutVars, queue, asked>>

DeadlinePasses(c) ==
  /\ pc[c] \in {"room", "gate", "flow"} /\ c \notin late
  /\ late' = late \cup {c}
  /\ UNCHANGED <<tables, recVars, pc, cur, free, errors, shutVars, queue, asked>>

Release_Forgotten(c) == free

(* The finally of the gate: whoever is inside gives its place back. *)
Release(c) == IF pc[c] = "flow" THEN free + 1 ELSE free

(* run_after_exists raised AdmissionWait: out of the gate, wait again. *)
NoRoomAfterAll(c) ==
  /\ Running(c) /\ pc[c] = "flow"
  /\ free' = Release(c)
  /\ Goes(c, "room")
  /\ UNCHANGED <<tables, recVars, cur, late, errors, shutVars, queue, asked>>

(* run_after_exists returned: the replica is in place. *)
Transferred(c) ==
  /\ Running(c) /\ pc[c] = "flow"
  /\ free' = Release(c)
  /\ Goes(c, "onready")
  /\ UNCHANGED <<tables, recVars, cur, late, errors, shutVars, queue, asked>>

(* _on_ready is done, whether or not the keepalive row was written. *)
Succeed(c) ==
  /\ Running(c) /\ pc[c] = "onready"
  /\ Finish(cur[c], "ready")
  /\ errors' = 0
  /\ Goes(c, "get")
  /\ cur' = [cur EXCEPT ![c] = NoRecord]
  /\ UNCHANGED <<recVars, late, free, shutVars, queue, asked>>

(* PrefetchError, QueryError or IntentInputError, from any of the steps     *)
(* that can raise them: not in the pool, no room in time, no place in the   *)
(* gate in time, the transfer failed.                                       *)
Fail(c) ==
  /\ Running(c) /\ pc[c] \in {"exists", "room", "gate", "flow"}
  /\ Finish(cur[c], "failed")
  /\ errors' = 0
  /\ free' = Release(c)
  /\ Goes(c, "get")
  /\ cur' = [cur EXCEPT ![c] = NoRecord]
  /\ UNCHANGED <<recVars, late, shutVars, queue, asked>>

OthersDone(c) == \A d \in Consumers \ {c} : pc[d] = "dead"

StopsAccepting(c) == errors + 1 >= 3 \/ OthersDone(c)

(* Any other exception, at any step: the consumer ends.  After the third in *)
(* a row, or with no consumer left, the queue is drained as well.           *)
Crash(c) ==
  /\ LoopFree /\ Busy(c)
  /\ Finish(cur[c], "failed")
  /\ errors' = IF errors < 3 THEN errors + 1 ELSE errors
  /\ free' = Release(c)
  /\ Goes(c, "dead")
  /\ cur' = [cur EXCEPT ![c] = NoRecord]
  /\ IF StopsAccepting(c)
       THEN accepting' = FALSE /\ mode' = "drain"
       ELSE UNCHANGED <<accepting, mode>>
  /\ UNCHANGED <<recVars, late, sweep, shut, deaf, queue, asked>>

(* _fail_never_started, called by a consumer that ends or by shutdown. *)
DrainOne ==
  /\ settling = NoRecord /\ mode \in {"drain", "clear"} /\ queue # <<>>
  /\ Finish(Head(queue), "failed")
  /\ queue' = Tail(queue)
  /\ UNCHANGED <<recVars, conVars, shutVars, asked>>

(* ... and, in shutdown, the list of the records left. *)
DrainEnd ==
  /\ settling = NoRecord /\ mode \in {"drain", "clear"} /\ queue = <<>>
  /\ IF mode = "clear"
       THEN mode' = "sweep" /\ sweep' = {slot[k] : k \in Intents} \ {NoRecord}
       ELSE mode' = "free" /\ UNCHANGED sweep
  /\ UNCHANGED <<tables, recVars, conVars, accepting, shut, deaf, queue, asked>>

-----------------------------------------------------------------------------
(* The event loop: shutdown *)

ShutdownStart ==
  /\ LoopFree /\ shut = "no"
  /\ shut' = "waiting" /\ accepting' = FALSE
  /\ UNCHANGED <<tables, recVars, conVars, mode, sweep, deaf, queue, asked>>

(* The deadline of run_after_exists has passed and _drain_copy may wait for *)
(* the submission it has cancelled.                                         *)
Draining(c) == pc[c] = "flow" /\ c \in late

(* CancelledError reaches a consumer: the record fails, its transfer is     *)
(* abandoned by the flow.  Whoever has missed it once meets it in the next  *)
(* _drain_copy, which asks cancelling(), or when the event loop is closed   *)
(* after shutdown and cancels what is left.                                 *)
Cancelled(c) ==
  /\ LoopFree /\ shut # "no" /\ pc[c] # "dead"
  /\ c \in deaf => shut = "done" \/ Draining(c)
  /\ IF Busy(c) THEN Finish(cur[c], "failed") ELSE UNCHANGED tables
  /\ free' = Release(c)
  /\ Goes(c, "dead")
  /\ cur' = [cur EXCEPT ![c] = NoRecord]
  /\ UNCHANGED <<recVars, late, errors, shutVars, queue, asked>>

(* The cancellation comes while _drain_copy waits: it goes to the           *)
(* submission, and when that answers nevertheless, with a handle or with    *)
(* SubmitError, the flow raises PrefetchError.  The consumer outlives the   *)
(* shutdown and takes what it finds in the queue.                           *)
CancelLost(c) ==
  /\ LoopFree /\ shut # "no" /\ c \notin deaf /\ Draining(c) /\ Busy(c)
  /\ Finish(cur[c], "failed")
  /\ errors' = 0
  /\ free' = Release(c)
  /\ Goes(c, "get")
  /\ cur' = [cur EXCEPT ![c] = NoRecord]
  /\ deaf' = deaf \cup {c}
  /\ UNCHANGED <<recVars, late, accepting, mode, sweep, shut, queue, asked>>

(* The bounded wait is over, with all consumers gone or without. *)
ShutdownDrain ==
  /\ LoopFree /\ shut = "waiting"
  /\ mode' = "clear"
  /\ UNCHANGED <<tables, recVars, conVars, accepting, sweep, shut, deaf, queue, asked>>

(* One of the records left; the one no queue ever saw is failed. *)
SweepOne(r) ==
  /\ settling = NoRecord /\ mode = "sweep" /\ r \in sweep
  /\ sweep' = sweep \ {r}
  /\ IF r \notin queued THEN Finish(r, "failed") ELSE UNCHANGED tables
  /\ UNCHANGED <<recVars, conVars, accepting, mode, shut, deaf, queue, asked>>

SweepEnd ==
  /\ settling = NoRecord /\ mode = "sweep" /\ sweep = {}
  /\ mode' = "free" /\ shut' = "done"
  /\ UNCHANGED <<tables, recVars, conVars, accepting, sweep, deaf, queue, asked>>

-----------------------------------------------------------------------------

Step(c) ==
  \/ Found(c) \/ Fits(c) \/ Acquire(c) \/ NoRoomAfterAll(c) \/ Transferred(c)
  \/ Succeed(c) \/ Fail(c)

Next ==
  \/ FreeSlot \/ AskAgain \/ DrainOne \/ DrainEnd
  \/ ShutdownStart \/ ShutdownDrain \/ SweepEnd
  \/ \E k \in Intents : AskMisses(k)
  \/ \E i \in Records :
       \/ SubmitCheck(i) \/ SubmitClaim(i) \/ SubmitPost(i) \/ Admit(i) \/ AdmitRefused(i)
       \/ SweepOne(i)
  \/ \E c \in Consumers :
       \/ Get(c) \/ Step(c) \/ DeadlinePasses(c) \/ Crash(c)
       \/ Cancelled(c) \/ CancelLost(c)

Spec == Init /\ [][Next]_vars

(* Threads that have begun go on, the event loop runs what is ready, the    *)
(* calls a consumer awaits return, time passes, and a cancellation arrives, *)
(* unless it is lost.                                                       *)
Fairness ==
  /\ WF_vars(FreeSlot) /\ WF_vars(DrainOne) /\ WF_vars(DrainEnd)
  /\ WF_vars(ShutdownDrain) /\ WF_vars(SweepEnd)
  /\ \A i \in Records :
       /\ WF_vars(SubmitClaim(i)) /\ WF_vars(SubmitPost(i))
       /\ WF_vars(Admit(i)) /\ WF_vars(AdmitRefused(i)) /\ WF_vars(SweepOne(i))
  /\ \A c \in Consumers :
       WF_vars(Get(c)) /\ WF_vars(Step(c)) /\ WF_vars(DeadlinePasses(c)) /\ WF_vars(Cancelled(c))

FairSpec == Spec /\ Fairness

-----------------------------------------------------------------------------
(* Properties *)

(* Every variable has its type. *)
TypeOK ==
  /\ accepting \in BOOLEAN
  /\ slot \in [Intents -> Records \cup {NoRecord}]
  /\ receipts \in Seq([key : Intents, status : {"ready", "failed"}])
  /\ Len(receipts) <= FinishedMax
  /\ queue \in Seq(Records)
  /\ free \in 0 .. MaxConcurrent /\ errors \in 0 .. 3
  /\ thread \in [Records -> {"idle", "checked", "claimed", "posted", "admitted", "returned"}]
  /\ keyOf \in [Records -> Intents]
  /\ status \in [Records -> {"none", "pending", "ready", "failed"}]
  /\ queued \subseteq Records
  /\ pc \in [Consumers -> {"get", "exists", "room", "gate", "flow", "onready", "dead"}]
  /\ cur \in [Consumers -> Records \cup {NoRecord}]
  /\ late \subseteq Consumers
  /\ settling \in Records \cup {NoRecord}
  /\ mode \in {"free", "drain", "clear", "sweep"} /\ sweep \subseteq Records
  /\ shut \in {"no", "waiting", "done"} /\ deaf \subseteq Consumers
  /\ asked \subseteq Intents /\ evicted \subseteq Intents

(* The same key is never prefetched twice at a time (submit_intent,         *)
(* _records as the table against duplicates): no two consumers hold records *)
(* of one key, and no record is taken that is queued again.                 *)
NoDoubleRun ==
  /\ \A c, d \in Consumers :
       c # d /\ Busy(c) /\ Busy(d) => keyOf[cur[c]] # keyOf[cur[d]]
  /\ \A c \in Consumers, i \in 1 .. Len(queue) :
       Busy(c) => keyOf[queue[i]] # keyOf[cur[c]]

(* The places of the transfer gate are exactly those of the consumers       *)
(* inside it: no failure, cancellation, crash or second thought about room  *)
(* loses a place or gives one back twice.                                   *)
GateBalanced ==
  free + Cardinality({c \in Consumers : pc[c] = "flow"}) = MaxConcurrent

(* A caller that was given a key never gets the answer "unknown" from       *)
(* intent_status, however _finish interleaves with its two look-ups, unless *)
(* the receipt was dropped from the ring.                                   *)
NeverUnknown == asked \subseteq ReceiptKeys \cup evicted

(* Every intent that was accepted is settled: consumers that die of errors, *)
(* a full queue and a shutdown at any moment leave none pending for ever.   *)
EveryIntentSettles ==
  \A i \in Records : status[i] = "pending" ~> status[i] # "pending"
=============================================================================
