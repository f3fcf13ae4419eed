---------------------------- MODULE PrefetchFlow ----------------------------
(***************************************************************************)
(* One prefetch: the flow (kvcm/kvcm/flows/prefetch.py), the copy task it  *)
(* awaits (kvcm/kvcm/backends/mooncake/backend.py) and the ledger that is  *)
(* to know of every transfer handed to the store.                          *)
(*                                                                         *)
(* Both are asyncio tasks.  A cancellation is a request that takes effect  *)
(* at the await the task is suspended in; cancelling a gather cancels its  *)
(* children, whose calls go on in their threads with nobody to take the    *)
(* task number; cancelling a shield leaves what it shields running; and    *)
(* cancelling a task that awaits another task passes the request on.       *)
(*                                                                         *)
(* The flow is interrupted by its time budget and, once, by the shutdown   *)
(* of the process.                                                         *)
(***************************************************************************)
EXTENDS Integers, Sequences

CONSTANTS
  Keys      \* the keys of the plan, each with its target segment

ASSUME KeysAssumption == Keys # {}

VARIABLES
  sub,        \* per key: its create_copy_task call, then its task in the store
  copy,       \* where the copy task is, or how it ended
  cancelled,  \* a cancellation of the copy task has not taken effect yet
  error,      \* the exception copy is handling
  plans,      \* the handle is in MooncakeBackend._plans
  ids,        \* TaskHandle.task_ids: the keys of the handle's tasks
  watch,      \* MooncakeBackend._watch: keys another transfer is copying
  writes,     \* ledger writes the single ledger thread has yet to do
  row,        \* per key: the status of its task in the ledger ("deleted": none any more)
  flow,       \* where the flow is ("gone": its process died)
  why,        \* what interrupted it ("late stop": shutdown, in a write that settles the handle)
  stopped,    \* shutdown has cancelled the flow's task
  verdict     \* how the flow ended

copyVars == <<sub, copy, error>>
flowVars == <<flow, why, stopped, verdict>>
handle == <<plans, ids>>
vars == <<copyVars, flowVars, cancelled, handle, watch, writes, row>>

Init ==
  /\ sub = [k \in Keys |-> "queued"]
  /\ copy = "admission" /\ cancelled = FALSE /\ error = "none"
  /\ plans = FALSE /\ ids = {} /\ watch = {} /\ writes = <<>>
  /\ row = [k \in Keys |-> "none"]
  /\ flow = "copy" /\ why = "none" /\ stopped = FALSE /\ verdict = "none"

CopyOver == copy \in {"handle", "submit error", "refused", "gave up"}

(* The keys whose task number copy has. *)
Issued(s) == {k \in Keys : s[k] \in {"issued", "conflict"}}

(* _record hands a write to the ledger's thread. *)
Record(ks, status) == writes' = Append(writes, [keys |-> ks, status |-> status])

(* Every write the caller waits for has been done. *)
Recorded == writes = <<>>

LedgerWrites ==
  /\ writes # <<>>
  /\ row' = [k \in Keys |-> IF k \in Head(writes).keys THEN Head(writes).status ELSE row[k]]
  /\ writes' = Tail(writes)
  /\ UNCHANGED <<copyVars, flowVars, cancelled, handle, watch>>

-----------------------------------------------------------------------------
(* The copy task *)

(* _admit_new_bytes: go on, or AdmissionWait, AdmissionStop, QueryError. *)
Admission ==
  /\ copy = "admission"
  /\ IF cancelled
       THEN copy' = "gave up"
       ELSE copy' \in {"gather", "refused"}
  /\ cancelled' = FALSE
  /\ UNCHANGED <<sub, error, flowVars, handle, watch, writes, row>>

(* A child gets its place in the submit semaphore; once copy is draining    *)
(* it returns without a call.                                               *)
Issue(k) ==
  /\ copy \in {"gather", "drain"}
  /\ sub[k] = "queued"
  /\ sub' = [sub EXCEPT ![k] = IF copy = "drain" THEN "dropped" ELSE "flying"]
  /\ UNCHANGED <<copy, error, flowVars, cancelled, handle, watch, writes, row>>

(* create_copy_task answers with a task number, or fails. *)
Answer(k) ==
  /\ sub[k] = "flying"
  /\ \E a \in {"issued", "failed"} : sub' = [sub EXCEPT ![k] = a]
  /\ UNCHANGED <<copy, error, flowVars, cancelled, handle, watch, writes, row>>

(* gather is cancelled, and its unfinished children with it. *)
ChildrenCancelled ==
  [k \in Keys |-> CASE sub[k] = "flying" -> "lost"
                    [] sub[k] = "queued" -> "dropped"
                    [] OTHER -> sub[k]]

(* The first gather ends: with all numbers, with a failure, or cancelled. *)
Gather ==
  /\ copy = "gather"
  /\ \/ /\ ~cancelled
        /\ \A k \in Keys : sub[k] = "issued"
        /\ copy' = "record"
        /\ plans' = TRUE /\ ids' = Keys
        /\ Record(Keys, "running")
        /\ UNCHANGED <<sub, error, cancelled>>
     \/ /\ ~cancelled
        /\ \E k \in Keys : sub[k] = "failed"
        /\ copy' = "drain" /\ error' = "failure"
        /\ UNCHANGED <<sub, cancelled, handle, writes>>
     \/ /\ cancelled
        /\ cancelled' = FALSE
        /\ sub' = ChildrenCancelled
        /\ copy' = "drain" /\ error' = "cancelled"
        /\ UNCHANGED <<handle, writes>>
  /\ UNCHANGED <<flowVars, watch, row>>

(* How copy ends when no number was issued. *)
EmptyHanded(e) == IF e = "cancelled" THEN "gave up" ELSE "submit error"

DrainEnds_DropsOnCancel(s, e) ==
  IF Issued(s) # {} /\ e # "cancelled"
    THEN copy' = "partial" /\ plans' = TRUE /\ ids' = Issued(s) /\ Record(ids', "running")
    ELSE copy' = EmptyHanded(e) /\ UNCHANGED <<handle, writes>>

(* After the second gather: whatever was issued is recorded. *)
DrainEnds(s, e) ==
  IF Issued(s) # {}
    THEN copy' = "partial" /\ plans' = TRUE /\ ids' = Issued(s) /\ Record(ids', "running")
    ELSE copy' = EmptyHanded(e) /\ UNCHANGED <<handle, writes>>

(* The second gather, over children that end soon; a cancellation here is   *)
(* swallowed and becomes the exception to handle.                           *)
Drain ==
  /\ copy = "drain"
  /\ IF cancelled
       THEN /\ sub' = ChildrenCancelled
            /\ error' = "cancelled"
       ELSE /\ \A k \in Keys : sub[k] \notin {"queued", "flying"}
            /\ UNCHANGED <<sub, error>>
  /\ DrainEnds(sub', error')
  /\ cancelled' = FALSE
  /\ UNCHANGED <<flowVars, watch, row>>

(* The shielded write of a full handle is done, or the wait for it is       *)
(* cancelled, and then the handle is not returned.                          *)
RecordFull ==
  /\ copy = "record"
  /\ IF cancelled
       THEN copy' = "gave up"
       ELSE Recorded /\ copy' = "handle"
  /\ cancelled' = FALSE
  /\ UNCHANGED <<sub, error, flowVars, handle, watch, writes, row>>

(* The same for a partial handle: returned to a caller that cancelled, and  *)
(* otherwise carried by SubmitError.                                        *)
RecordPartial ==
  /\ copy = "partial"
  /\ IF cancelled
       THEN copy' = "gave up"
       ELSE Recorded /\ copy' = IF error = "cancelled" THEN "handle" ELSE "submit error"
  /\ cancelled' = FALSE
  /\ UNCHANGED <<sub, error, flowVars, handle, watch, writes, row>>

-----------------------------------------------------------------------------
(* The flow: run_after_exists *)

Ends(v) == flow' = "ended" /\ verdict' = v

(* _abandon of the handle before the flow ends with v; without a handle in  *)
(* _plans the flow just ends.                                               *)
AbandonThen(v) ==
  IF plans
    THEN flow' = "abandon" /\ verdict' = v /\ Record(ids, "abandoned")
    ELSE Ends(v) /\ UNCHANGED writes

(* The copy task is done and the flow resumes with its result. *)
CopyReturns ==
  /\ flow = "copy" /\ CopyOver
  /\ CASE copy = "handle" -> flow' = "poll" /\ UNCHANGED <<verdict, writes>>
       [] copy = "submit error" -> AbandonThen("failed")
       [] copy = "refused" -> Ends("refused") /\ UNCHANGED writes
  /\ UNCHANGED <<copyVars, why, stopped, cancelled, handle, watch, row>>

(* The budget runs out, or shutdown cancels, while the flow awaits the copy *)
(* task: _drain_copy cancels the copy task and waits for it.                *)
Interrupt(reason) ==
  /\ flow = "copy"
  /\ flow' = "drain" /\ why' = reason
  /\ stopped' = (reason = "stop")
  /\ cancelled' = ~CopyOver
  /\ UNCHANGED <<copyVars, verdict, handle, watch, writes, row>>

(* _drain_copy returns or raises. *)
DrainCopy ==
  /\ flow = "drain" /\ CopyOver
  /\ CASE copy = "handle" -> AbandonThen(IF why = "stop" THEN "cancelled" ELSE "failed")
       [] copy = "gave up" ->
            Ends(IF stopped THEN "cancelled" ELSE "failed") /\ UNCHANGED writes
       [] copy = "submit error" ->
            IF why = "stop" THEN Ends("error") /\ UNCHANGED writes ELSE AbandonThen("failed")
       [] copy = "refused" -> Ends("refused") /\ UNCHANGED writes
  /\ UNCHANGED <<copyVars, why, stopped, cancelled, handle, watch, row>>

(* Shutdown cancels the flow while it waits in _drain_copy after a timeout: *)
(* the request goes to the copy task if that still runs; if it has just     *)
(* ended, the flow itself is cancelled and abandons what was handed back.   *)
StopInDrain ==
  /\ flow = "drain" /\ ~stopped
  /\ stopped' = TRUE
  /\ IF CopyOver
       THEN /\ IF copy = "handle"
                 THEN AbandonThen("cancelled")
                 ELSE Ends("cancelled") /\ UNCHANGED writes
            /\ UNCHANGED cancelled
       ELSE cancelled' = TRUE /\ UNCHANGED <<flow, verdict, writes>>
  /\ UNCHANGED <<copyVars, why, handle, watch, row>>

-----------------------------------------------------------------------------
(* Polling: query_task.  RUNNING and QueryError change nothing. *)

(* All tasks that failed did so because their keys are being copied for     *)
(* someone else: these are recorded as failed and the handle is watched.    *)
Conflict(C) ==
  /\ flow = "poll" /\ watch = {}
  /\ watch' = C
  /\ sub' = [k \in Keys |-> IF k \in C THEN "conflict" ELSE sub[k]]
  /\ Record(C, "failed")
  /\ flow' = "conflict"
  /\ UNCHANGED <<copy, error, why, stopped, verdict, cancelled, handle, row>>

ConflictRecorded ==
  /\ flow = "conflict" /\ Recorded
  /\ flow' = "poll"
  /\ UNCHANGED <<copyVars, why, stopped, verdict, cancelled, handle, watch, writes, row>>

(* Every task has a final state, and the replicas were verified or not. *)
Settle(status) ==
  /\ flow = "poll" /\ watch = {}
  /\ flow' = "settle" /\ verdict' = status
  /\ Record(ids, status)
  /\ UNCHANGED <<copyVars, why, stopped, cancelled, handle, watch, row>>

(* _verify_watch finds all replicas: the other tasks are ready. *)
SettleWatched ==
  /\ flow = "poll" /\ watch # {}
  /\ watch' = {}
  /\ verdict' = "ready"
  /\ IF ids \subseteq watch
       THEN flow' = "ended" /\ plans' = FALSE /\ UNCHANGED writes
       ELSE flow' = "settle" /\ Record(ids \ watch, "ready") /\ UNCHANGED plans
  /\ UNCHANGED <<copyVars, why, stopped, cancelled, ids, row>>

(* The write of the final state is done; the handle leaves _plans. *)
Settled ==
  /\ flow = "settle" /\ Recorded
  /\ plans' = FALSE
  /\ flow' = "ended"
  /\ UNCHANGED <<copyVars, why, stopped, verdict, cancelled, ids, watch, writes, row>>

AbandonPolled_Rewrites(v, w) ==
  /\ verdict' = v
  /\ watch' = {}
  /\ flow' = "abandon poll" /\ UNCHANGED handle
  /\ writes' = Append(w, [keys |-> ids \cup watch, status |-> "abandoned"])

(* abandon of the polled handle, with pending writes w: tasks in conflict   *)
(* keep their rows.                                                         *)
AbandonPolled(v, w) ==
  /\ verdict' = v
  /\ watch' = {}
  /\ UNCHANGED ids
  /\ IF ids \subseteq watch
       THEN flow' = "ended" /\ plans' = FALSE /\ writes' = w
       ELSE /\ flow' = "abandon poll" /\ UNCHANGED plans
            /\ writes' = Append(w, [keys |-> ids \ watch, status |-> "abandoned"])

PollTimeout_NotWatched ==
  /\ flow = "poll" /\ watch = {}
  /\ why' = "timeout"
  /\ AbandonPolled("failed", writes)
  /\ UNCHANGED <<copyVars, stopped, cancelled, row>>

PollTimeout ==
  /\ flow = "poll"
  /\ why' = "timeout"
  /\ AbandonPolled("failed", writes)
  /\ UNCHANGED <<copyVars, stopped, cancelled, row>>

StopInPoll_NoAbandon ==
  /\ flow \in {"poll", "conflict", "settle", "abandon poll"} /\ ~stopped
  /\ stopped' = TRUE /\ why' = "stop"
  /\ Ends("cancelled")
  /\ UNCHANGED <<copyVars, cancelled, handle, watch, writes, row>>

(* Shutdown cancels the flow while it polls: abandon, and cancelled.  A     *)
(* write it was waiting for is dropped if the ledger's thread has not begun *)
(* it, unless it is the shielded one of an abandon.                         *)
StopInPoll ==
  /\ flow \in {"poll", "conflict", "settle", "abandon poll"} /\ ~stopped
  /\ stopped' = TRUE
  /\ why' = IF flow \in {"settle", "abandon poll"} THEN "late stop" ELSE "stop"
  /\ \E w \in {writes} \cup (IF flow = "abandon poll" THEN {} ELSE {<<>>}) :
       AbandonPolled("cancelled", w)
  /\ UNCHANGED <<copyVars, cancelled, row>>

(* The shielded write of abandon is done. *)
Abandoned ==
  /\ flow \in {"abandon", "abandon poll"} /\ Recorded
  /\ plans' = FALSE
  /\ flow' = "ended"
  /\ UNCHANGED <<copyVars, why, stopped, verdict, cancelled, ids, watch, writes, row>>

(* Shutdown cancels the wait for that write, which goes on. *)
StopInAbandon ==
  /\ flow = "abandon" /\ ~stopped
  /\ stopped' = TRUE
  /\ Ends("cancelled")
  /\ UNCHANGED <<copyVars, why, cancelled, handle, watch, writes, row>>

Next ==
  \/ LedgerWrites
  \/ Admission \/ Gather \/ Drain \/ RecordFull \/ RecordPartial
  \/ \E k \in Keys : Issue(k) \/ Answer(k)
  \/ CopyReturns \/ DrainCopy \/ Settled \/ Abandoned
  \/ \E reason \in {"timeout", "stop"} : Interrupt(reason)
  \/ \E status \in {"ready", "failed"} : Settle(status)
  \/ \E C \in SUBSET ids \ {{}} : Conflict(C)
  \/ ConflictRecorded \/ SettleWatched
  \/ PollTimeout
  \/ StopInDrain \/ StopInPoll \/ StopInAbandon

Spec == Init /\ [][Next]_vars

(* The ledger's thread and the event loop run, calls of the store return    *)
(* (their wait is bounded), and the budget ends the polling.                *)
Fairness ==
  /\ WF_vars(LedgerWrites)
  /\ WF_vars(Admission) /\ WF_vars(Gather) /\ WF_vars(Drain)
  /\ WF_vars(RecordFull) /\ WF_vars(RecordPartial)
  /\ \A k \in Keys : WF_vars(Issue(k)) /\ WF_vars(Answer(k))
  /\ WF_vars(CopyReturns) /\ WF_vars(DrainCopy) /\ WF_vars(Settled) /\ WF_vars(Abandoned)
  /\ WF_vars(ConflictRecorded) /\ WF_vars(PollTimeout)

FairSpec == Spec /\ Fairness

-----------------------------------------------------------------------------
(* Properties *)

Statuses == {"running", "ready", "failed", "abandoned"}

(* Every variable has its type. *)
TypeOK ==
  /\ sub \in [Keys -> {"queued", "flying", "issued", "failed", "lost", "dropped", "conflict"}]
  /\ copy \in {"admission", "gather", "drain", "record", "partial",
               "handle", "submit error", "refused", "gave up"}
  /\ cancelled \in BOOLEAN /\ plans \in BOOLEAN /\ stopped \in BOOLEAN
  /\ error \in {"none", "failure", "cancelled"}
  /\ watch \subseteq Keys /\ ids \subseteq Keys
  /\ writes \in Seq([keys : SUBSET Keys, status : Statuses])
  /\ row \in [Keys -> Statuses \cup {"none", "deleted"}]
  /\ flow \in {"copy", "drain", "poll", "conflict", "settle", "abandon", "abandon poll",
               "ended", "gone"}
  /\ why \in {"none", "timeout", "stop", "late stop"}
  /\ verdict \in {"none", "ready", "failed", "cancelled", "refused", "error"}

Over == flow = "ended" /\ CopyOver /\ Recorded

(* Every task number that create_copy_task returned to copy is in the       *)
(* ledger in the end, whatever failed or was cancelled, and when (copy:     *)
(* what was issued must be recorded, or a restart cannot find it).          *)
IssuedIsRecorded ==
  Over => \A k \in Issued(sub) : row[k] # "none"

(* The tasks of a handle that the copy task returned to the flow, other     *)
(* than those in conflict, have final rows in the end, so that a restart    *)
(* does not track them again (run_after_exists, abandon).                   *)
HandleIsSettled ==
  Over /\ copy = "handle" =>
    \A k \in Keys : sub[k] = "issued" => row[k] \in {"ready", "failed", "abandoned", "deleted"}

(* READY is reported only when all keys were handed to the store, and with  *)
(* each task of the handle recorded as ready, or as failed where another    *)
(* transfer copied the key (query_task, _verify_watch).                     *)
ReadyIsWhole ==
  Over /\ verdict = "ready" =>
    /\ \A k \in Keys : sub[k] \in {"issued", "conflict"}
    /\ \A k \in ids : row[k] \in {IF sub[k] = "issued" THEN "ready" ELSE "failed", "deleted"}

(* The flow ends, with a verdict or with its process, however the copy task *)
(* is interrupted.                                                          *)
FlowEnds == <>(flow = "gone" \/ (flow = "ended" /\ verdict # "none"))

(* A flow that only its own timeout interrupted leaves no row "running": if *)
(* task numbers exist, copy hands the handle back and it is abandoned       *)
(* (prefetch.py:116-117).                                                   *)
NothingLeftRunning ==
  Over /\ ~stopped => \A k \in Keys : row[k] # "running"
=============================================================================
