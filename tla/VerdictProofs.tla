--------------------------- MODULE VerdictProofs ---------------------------
(***************************************************************************)
(* What the ledger says of a prefix is true, and what it says of a handle  *)
(* is final in the end, through crashes, restarts and shutdowns, for any   *)
(* keys and any number of faults.                                          *)
(*                                                                         *)
(* The inductive invariant relates four things that no step changes        *)
(* together: the tasks of the store, the rows of the ledger, the writes    *)
(* that wait for the ledger's thread, and where the flow is.               *)
(***************************************************************************)
EXTENDS RecoveryProofs

(* The writes that wait for the ledger's thread, as a set. *)
QueuedIn(w) == {w[i] : i \in 1 .. Len(w)}
Queued == QueuedIn(writes)

(* The write of status t for the rows of S. *)
Hand(S, t) == [keys |-> S, status |-> t]

(* The states in which a row is left alone by a restart. *)
Final == {"ready", "failed", "abandoned", "deleted"}

(***************************************************************************)
(* A key has a task only when its call has been made; a conflict is known  *)
(* only of a task that ended so; and a task that is done left a replica.   *)
(***************************************************************************)
StoreInv ==
  /\ task \in [Keys -> {"none", "running", "done", "failed", "conflict"}]
  /\ \A k \in Keys : sub[k] = "queued" => task[k] = "none"
  /\ \A k \in Keys : sub[k] = "flying" => task[k] = "none" \/ phase \in {"draining", "closed"}
  /\ \A k \in Keys : sub[k] = "conflict" => task[k] = "conflict"
  /\ \A k \in Keys : k \in rpc => task[k] = "none" /\ sub[k] # "queued"
  /\ \A k \in Keys : task[k] = "done" => lost = TRUE \/ k \in replica

(* The flow waits for the copy task first, polls afterwards, and ends       *)
(* without READY once it abandons.                                          *)
StageInv ==
  /\ flow \notin {"copy", "drain", "gone"} => CopyOver
  /\ flow \notin {"poll", "conflict"} => watch = {}
  /\ flow \in {"copy", "drain", "abandon"} => \A k \in Keys : sub[k] # "conflict"
  /\ flow \in {"abandon", "abandon poll"} => verdict # "ready"

(* The rows of a handle are "running" when copy returns it, and the handle  *)
(* that is polled has all keys.                                             *)
HandleInv ==
  /\ flow # "gone" /\ copy \in {"record", "partial"} =>
       /\ plans = TRUE /\ ids = Issued(sub)
       /\ \/ Queued = {} /\ \A k \in ids : row[k] = "running"
          \/ Queued # {} /\ \A w \in Queued : w.keys = ids /\ w.status = "running"
  /\ copy = "record" => ids = Keys
  /\ flow \in {"copy", "drain"} /\ copy = "handle" =>
       plans = TRUE /\ ids = Issued(sub) /\ \A k \in ids : row[k] = "running"
  /\ flow = "copy" /\ copy = "handle" => ids = Keys

(* Who waits for the ledger leaves its queue empty; only shutdown puts a    *)
(* second write behind one that waits.                                      *)
QuietInv ==
  /\ copy \in {"admission", "gather", "drain"} => Queued = {} /\ \A k \in Keys : row[k] = "none"
  /\ flow \in {"copy", "drain"} /\ copy \in {"handle", "submit error", "refused"} => Queued = {}
  /\ flow = "poll" \/ phase \in Starting => Queued = {}
  /\ Len(writes) <= 1 \/ stopped = TRUE
  /\ flow \in {"copy", "drain"} => Len(writes) <= 1

(* Rows, and writes that wait, are about tasks of the handle; a row is      *)
(* "running" before anything else.                                          *)
RowInv ==
  /\ ids \subseteq Issued(sub)
  /\ \A k \in Keys : row[k] # "none" => k \in Issued(sub)
  /\ \A k \in Keys : row[k] = "running" => k \in ids
  /\ \A w \in Queued : w.keys \subseteq ids
  /\ \A w \in Queued : w.status = "running" =>
       /\ Len(writes) = 1 /\ copy \in {"record", "partial", "gave up"}
       /\ \A k \in Keys : row[k] = "none"

(* The four together. *)
SInv == StageInv /\ HandleInv /\ QuietInv /\ RowInv

(***************************************************************************)
(* While a handle is polled, the watched keys are those in conflict, whose *)
(* rows have failed, and the others run.  A handle without watched keys    *)
(* has all keys, or a rebuild found it with a conflict not yet recorded:   *)
(* so a plan is never verified with keys that were not submitted.          *)
(***************************************************************************)
WatchInv ==
  /\ flow \in {"poll", "conflict"} =>
       /\ watch \subseteq Keys
       /\ \A k \in ids \ watch : row[k] = "running"
       /\ watch # {} => \A k \in ids : sub[k] = IF k \in watch THEN "conflict" ELSE "issued"
  /\ flow = "poll" =>
       /\ \A k \in watch : row[k] \in {"failed", "deleted"}
       /\ watch = {} => /\ \A k \in Keys : row[k] # "failed"
                        /\ ids = Keys \/ \E k \in ids : task[k] = "conflict"
  /\ flow = "conflict" => watch # {}
  /\ flow = "conflict" =>
       \/ Queued = {} /\ \A k \in watch : row[k] \in {"failed", "deleted"}
       \/ Queued # {} /\ \A w \in Queued : w.keys = watch /\ w.status = "failed"
  /\ flow \in Tracking => Issued(sub) = Keys

(***************************************************************************)
(* What rebuild may conclude from the rows it finds: beside failed rows,   *)
(* running ones have no recorded conflict, and beside ready or abandoned   *)
(* rows, running ones are of tasks in conflict.                            *)
(***************************************************************************)
MixInv ==
  /\ (\E k \in Keys : row[k] = "failed") => \A k \in Keys : row[k] = "running" => sub[k] = "issued"
  /\ \A w \in Queued : w.status = "failed" =>
       \A k \in Keys \ w.keys : row[k] = "running" => sub[k] = "issued"
  /\ (\E k \in Keys : row[k] \in {"ready", "abandoned"}) =>
       \A k \in Keys : row[k] = "running" => task[k] = "conflict"
  /\ \A w \in Queued : w.status \in {"ready", "abandoned"} =>
       \A k \in Keys \ w.keys : row[k] = "running" => task[k] = "conflict"

(* The store has failed a task, or has lost a replica. *)
Excused == lost = TRUE \/ \E k \in Keys : task[k] = "failed"

(* Without such an excuse, only a conflict makes a row fail. *)
FailureInv ==
  \/ Excused
  \/ /\ \A k \in Keys : row[k] = "failed" => task[k] = "conflict"
     /\ \A w \in Queued : w.status = "failed" => \A k \in w.keys : task[k] = "conflict"

(* The row of k has failed for a conflict, or is about to. *)
Conflicts(k) ==
  /\ sub[k] = "conflict"
  /\ row[k] = "failed" \/ \E v \in Queued : v.status = "failed" /\ k \in v.keys

(* A write that waits is about tasks whose end it may record. *)
WaitInv ==
  /\ \A w \in Queued : w.status = "ready" => \A k \in w.keys : sub[k] = "issued"
  /\ \A w \in Queued : w.status = "abandoned" =>
       why = "late stop" \/ \A k \in w.keys : ~Conflicts(k)

(* A flow that ends with READY has, or is about to have, the rows for it. *)
EndInv ==
  flow \in {"settle", "ended"} /\ verdict = "ready" =>
    /\ Issued(sub) = Keys
    /\ \A w \in Queued : w.status = "ready"
    /\ \A k \in ids : IF sub[k] = "issued"
                        THEN row[k] \in {"ready", "deleted"} \/ \E w \in Queued : k \in w.keys
                        ELSE row[k] \in {"failed", "deleted"}

(* The tasks of a returned handle are final, or in the hands of the flow. *)
RestInv ==
  /\ copy = "handle" /\ flow # "gone" =>
       \A k \in Issued(sub) \ ids : row[k] \in Final
  /\ copy = "handle" /\ flow \in {"settle", "abandon", "abandon poll", "ended"} =>
       \A k \in ids : sub[k] = "issued" => row[k] \in Final \/ \E w \in Queued : k \in w.keys

-----------------------------------------------------------------------------
(* The steps, by what they change *)

(* copy and its children. *)
CopySteps ==
  \/ Admission \/ RecordFull \/ RecordPartial \/ Gather \/ Drain
  \/ \E k \in Keys : Issue(k) \/ Answer(k)

(* The flow, without an answer of the store. *)
Moves ==
  \/ CopyReturns \/ DrainCopy \/ ConflictRecorded \/ Settled \/ Abandoned
  \/ Interrupt("timeout") \/ Interrupt("stop") \/ PollTimeout
  \/ StopInDrain \/ StopInPoll \/ StopInAbandon

(* The steps of the flow that leave the children's calls alone. *)
FlowMoves == Moves \/ Settle("failed") \/ Settle("ready") \/ SettleWatched

(* The answers of query_task that end or change the polling. *)
Queries ==
  \/ Finds("conflict") # {} /\ Conflict(Finds("conflict"))
  \/ Finds("failed") # {} /\ Settle("failed")
  \/ Finds("done") = ids /\ ~Verified /\ Settle("failed")
  \/ Finds("done") = ids /\ Verified /\ Settle("ready")
  \/ Verified /\ SettleWatched

-----------------------------------------------------------------------------
(* The queue of the ledger's thread *)

(* The queue at the start of a process. *)
LEMMA QueueEmpty == QueuedIn(<<>>) = {}
BY DEF QueuedIn

(* _record puts a write behind those that wait. *)
LEMMA QueueAppend ==
  ASSUME NEW w \in Seq(Writes), NEW e \in Writes
  PROVE  /\ QueuedIn(Append(w, e)) = QueuedIn(w) \cup {e}
         /\ Len(Append(w, e)) = Len(w) + 1
<1>1. \A i \in 1 .. Len(Append(w, e)) : (i \in 1 .. Len(w) /\ Append(w, e)[i] = w[i]) \/ Append(w, e)[i] = e
  BY AppendWrites
<1>2. \A i \in 1 .. Len(w) : i \in 1 .. Len(Append(w, e)) /\ Append(w, e)[i] = w[i]
  BY AppendWrites
<1>3. Len(w) + 1 \in 1 .. Len(Append(w, e)) /\ Append(w, e)[Len(w) + 1] = e
  BY AppendWrites
<1>4. QueuedIn(Append(w, e)) \subseteq QueuedIn(w) \cup {e}
  BY <1>1 DEF QueuedIn
<1>5. QueuedIn(w) \cup {e} \subseteq QueuedIn(Append(w, e))
  BY <1>2, <1>3 DEF QueuedIn
<1>6. Len(Append(w, e)) = Len(w) + 1
  OBVIOUS
<1> QED
  BY <1>4, <1>5, <1>6

(* The thread takes the first. *)
LEMMA QueueTail ==
  ASSUME NEW w \in Seq(Writes), w # <<>>
  PROVE  /\ Head(w) \in Writes /\ Tail(w) \in Seq(Writes)
         /\ QueuedIn(w) = {Head(w)} \cup QueuedIn(Tail(w))
         /\ Len(Tail(w)) = Len(w) - 1
<1>1. /\ Head(w) = w[1] /\ Tail(w) \in Seq(Writes) /\ Len(w) \in Nat \ {0}
      /\ Head(w) \in Writes /\ Len(Tail(w)) = Len(w) - 1
      /\ \A i \in 1 .. Len(Tail(w)) : i + 1 \in 1 .. Len(w) /\ Tail(w)[i] = w[i + 1]
  OBVIOUS
<1>2. QueuedIn(w) \subseteq {Head(w)} \cup QueuedIn(Tail(w))
  <2> SUFFICES ASSUME NEW i \in 1 .. Len(w) PROVE w[i] = Head(w) \/ w[i] \in QueuedIn(Tail(w))
    BY DEF QueuedIn
  <2>1. CASE i = 1
    BY <1>1, <2>1
  <2>2. CASE i # 1
    <3>1. i - 1 \in 1 .. Len(Tail(w)) /\ Tail(w)[i - 1] = w[i]
      BY <1>1, <2>2
    <3> QED
      BY Zenon, <3>1 DEF QueuedIn
  <2> QED
    BY <2>1, <2>2
<1>3. {Head(w)} \cup QueuedIn(Tail(w)) \subseteq QueuedIn(w)
  <2>1. 1 \in 1 .. Len(w)
    BY <1>1
  <2> QED
    BY <1>1, <2>1 DEF QueuedIn
<1> QED
  BY <1>1, <1>2, <1>3

(* The queue is empty when nothing waits. *)
LEMMA QueueLen ==
  ASSUME NEW w \in Seq(Writes)
  PROVE  /\ Len(w) \in Nat /\ QueuedIn(w) \subseteq Writes
         /\ (w = <<>>) = (QueuedIn(w) = {})
         /\ QueuedIn(w) = {} => Len(w) = 0
         /\ Len(w) = 0 => QueuedIn(w) = {}
<1>1. Len(w) \in Nat /\ \A i \in 1 .. Len(w) : w[i] \in Writes
  OBVIOUS
<1>2. CASE w = <<>>
  BY <1>2 DEF QueuedIn
<1>3. CASE w # <<>>
  <2>1. Len(w) # 0 /\ 1 \in 1 .. Len(w)
    BY <1>3
  <2> QED
    BY Zenon, <1>1, <1>3, <2>1 DEF QueuedIn
<1> QED
  BY <1>2, <1>3

-----------------------------------------------------------------------------
(* Calls and the tasks of the store *)

(* Only the gathers and a conflict touch the children's calls. *)
LEMMA FlowKeepsSub ==
  ASSUME FlowMoves \/ Admission \/ Gather \/ Drain \/ RecordFull \/ RecordPartial
  PROVE  sub' = sub \/ (copy \in {"gather", "drain"} /\ sub' = ChildrenCancelled)
BY Zenon DEF FlowMoves, Moves, Admission, Gather, Drain, RecordFull, RecordPartial, CopyReturns, DrainCopy,
   ConflictRecorded, Settled, Abandoned, Interrupt, PollTimeout, StopInDrain, StopInPoll,
   StopInAbandon, Settle, SettleWatched, copyVars

(* Cancelled children: none is queued or flying, and conflicts stay. *)
LEMMA ChildrenAfter ==
  ASSUME Types
  PROVE  \A k \in Keys : /\ ChildrenCancelled[k] \notin {"queued", "flying"}
                         /\ sub[k] \notin {"queued", "flying"} => ChildrenCancelled[k] = sub[k]
                         /\ (ChildrenCancelled[k] = "conflict") = (sub[k] = "conflict")
                         /\ (ChildrenCancelled[k] = "issued") = (sub[k] = "issued")
BY DEF Types, ChildrenCancelled

(* A task is created once, by a call that was made once, and its end is     *)
(* final.                                                                   *)
LEMMA NextStoreInv ==
  RInv /\ StoreInv /\ [RecoveryNext]_allVars => StoreInv'
<1> SUFFICES ASSUME RInv, StoreInv, [RecoveryNext]_allVars PROVE StoreInv'
  OBVIOUS
<1> USE DEF RInv
<1>1. CASE Crash \/ HardExit \/ DrainTimeout \/ Exit
  <2>1. sub' = ChildrenCancelled /\ rpc' = {} /\ task' = task /\ replica' = replica /\ lost' = lost
    BY <1>1 DEF Crash, HardExit, DrainTimeout, Exit, Vanish, storeVars
  <2> QED
    BY <2>1, ChildrenAfter DEF StoreInv
<1>2. CASE \/ Boot \/ Connected \/ Checked \/ StartFails \/ ServeFails \/ StopSignal
           \/ EngineStopped \/ KeepaliveStopped \/ Close \/ Rebuilt \/ Collected
           \/ SweepCalls \/ QueryCalls \/ OnReady \/ PublishBlockStored
  <2>1. /\ sub' = sub /\ task' = task /\ replica' = replica /\ lost' = lost
        /\ rpc' \subseteq rpc \cup {"connect", "check", "rebuild", "collect", "query", "renew"}
        /\ phase \in {"draining", "closed"} => phase' \in {"draining", "closed"}
    BY Zenon, <1>2 DEF Boot, Connected, Checked, StartFails, ServeFails, StopSignal, EngineStopped,
       KeepaliveStopped, Close, Rebuilt, Collected, SweepCalls, QueryCalls, OnReady,
       PublishBlockStored, Goto, vars, copyVars, storeVars, daemonVars
  <2>2. \A k \in Keys : k \in rpc' => k \in rpc
    BY <2>1, CallsAssumption
  <2> QED
    BY <2>1, <2>2 DEF StoreInv
<1>3. CASE \E c \in rpc : ThreadReturns(c)
  <2>1. PICK c \in rpc : ThreadReturns(c)
    BY <1>3
  <2>2. /\ sub' = sub /\ phase' = phase /\ replica' = replica /\ lost' = lost /\ rpc' = rpc \ {c}
        /\ c \in Keys => sub[c] \in {"lost", "failed"} \/ phase = "draining"
        /\ task' = task \/ (c \in Keys /\ task' = [task EXCEPT ![c] = "running"])
    BY <2>1 DEF ThreadReturns, vars, copyVars, daemonVars
  <2> QED
    BY <2>2 DEF StoreInv
<1>4. CASE \E k \in Keys : TaskEnds(k) \/ OtherTransfer(k) \/ ReplicaLost(k)
  BY <1>4 DEF TaskEnds, OtherTransfer, ReplicaLost, vars, copyVars, daemonVars, StoreInv
<1>5. CASE LedgerThread
  BY <1>5 DEF LedgerThread, LedgerWrites, Around, copyVars, daemonVars, storeVars, StoreInv
<1>6. CASE \E k \in Keys : Issues(k)
  <2>1. PICK k \in Keys : Issues(k)
    BY <1>6
  <2>2. /\ sub[k] = "queued" /\ sub' \in {[sub EXCEPT ![k] = "dropped"], [sub EXCEPT ![k] = "flying"]}
        /\ phase' = phase /\ task' = task /\ replica' = replica /\ lost' = lost
        /\ rpc' \subseteq rpc \cup {k}
    BY Zenon, <2>1 DEF Issues, Issue, Around, daemonVars, storeVars
  <2> QED
    BY <2>2 DEF StoreInv, Types
<1>7. CASE \E k \in Keys : Answers(k)
  <2>1. PICK k \in Keys : Answers(k)
    BY <1>7
  <2>2. /\ sub[k] = "flying" /\ phase' = phase /\ replica' = replica /\ lost' = lost
        /\ phase \notin {"draining", "closed"}
        /\ \/ /\ sub' = [sub EXCEPT ![k] = "issued"]
              /\ rpc' = rpc \ {k} /\ task' = [task EXCEPT ![k] = "running"]
           \/ /\ sub' = [sub EXCEPT ![k] = "failed"]
              /\ rpc' \subseteq rpc /\ task' = task
    <3>1. /\ sub[k] = "flying" /\ phase' = phase /\ replica' = replica /\ lost' = lost
          /\ phase \notin {"draining", "closed"}
          /\ sub' \in {[sub EXCEPT ![k] = "issued"], [sub EXCEPT ![k] = "failed"]}
      BY Zenon, <2>1 DEF Answers, Answer, daemonVars, Alive
    <3>2. /\ rpc' \in {rpc \ {k}} \cup (IF sub'[k] = "failed" THEN {rpc} ELSE {})
          /\ task' = [task EXCEPT ![k] = IF sub'[k] = "issued" THEN "running" ELSE @]
      BY Zenon, <2>1 DEF Answers
    <3>3. sub \in [Keys -> {"queued", "flying", "issued", "failed", "lost", "dropped", "conflict"}]
      BY DEF Types
    <3>4. CASE sub' = [sub EXCEPT ![k] = "issued"]
      BY <3>1, <3>2, <3>3, <3>4
    <3>5. CASE sub' = [sub EXCEPT ![k] = "failed"]
      BY <3>1, <3>2, <3>3, <3>5 DEF StoreInv
    <3> QED
      BY <3>1, <3>4, <3>5
  <2>3. task[k] = "none"
    BY <2>2 DEF StoreInv
  <2> QED
    BY <2>2, <2>3 DEF StoreInv, Types
<1>8. CASE Advances \/ TimesOut \/ Cancelled \/ QueryAnswered
  <2>1. /\ task' = task /\ replica' = replica /\ lost' = lost /\ phase' = phase
        /\ rpc' \subseteq rpc
    BY <1>8 DEF Advances, TimesOut, Cancelled, QueryAnswered, Around, storeVars, daemonVars
  <2>2. \/ FlowMoves \/ Admission \/ Gather \/ Drain \/ RecordFull \/ RecordPartial
        \/ Conflict(Finds("conflict"))
    BY <1>8 DEF Advances, TimesOut, Cancelled, QueryAnswered, FlowMoves, Moves
  <2>3. CASE FlowMoves \/ Admission \/ Gather \/ Drain \/ RecordFull \/ RecordPartial
    <3>1. CASE sub' = sub
      BY <2>1, <3>1 DEF StoreInv
    <3>2. CASE sub' = ChildrenCancelled
      BY <2>1, <3>2, ChildrenAfter DEF StoreInv
    <3> QED
      BY <2>3, <3>1, <3>2, FlowKeepsSub
  <2>4. CASE Conflict(Finds("conflict"))
    <3>1. /\ sub' = [k \in Keys |-> IF k \in Finds("conflict") THEN "conflict" ELSE sub[k]]
          /\ \A k \in Keys : k \in Finds("conflict") => task[k] = "conflict"
      BY <2>4 DEF Conflict, Finds
    <3> QED
      BY <2>1, <3>1 DEF StoreInv
  <2> QED
    BY <2>2, <2>3, <2>4
<1>9. CASE UNCHANGED allVars
  BY <1>9 DEF allVars, vars, copyVars, storeVars, daemonVars, StoreInv
<1> QED
  BY <1>1, <1>2, <1>3, <1>4, <1>5, <1>6, <1>7, <1>8, <1>9 DEF RecoveryNext, Progress, Otherwise

-----------------------------------------------------------------------------
(* The stages of the flow, and whose rows the ledger holds *)

(* What _record does to the set of the writes that wait. *)
LEMMA Handed ==
  ASSUME Types, NEW S \in SUBSET Keys, NEW t \in Statuses, writes' = Append(writes, Hand(S, t))
  PROVE  Queued' = Queued \cup {Hand(S, t)} /\ Len(writes') = Len(writes) + 1
<1>1. Hand(S, t) \in Writes
  BY DEF Hand, Writes
<1> QED
  BY <1>1, QueueAppend DEF Types, Queued

(* QueueLen, of the state. *)
LEMMA QueueFacts ==
  ASSUME Types
  PROVE  /\ Len(writes) \in Nat /\ Queued \subseteq Writes
         /\ (writes = <<>>) = (Queued = {})
         /\ Queued = {} => Len(writes) = 0
         /\ Len(writes) = 0 => Queued = {}
BY QueueLen DEF Types, Queued

(* Copy and its children. *)
LEMMA CopyStage ==
  ASSUME RInv, RInv', Uncancelled, SInv, flow # "gone", phase' = phase,
         phase \notin Starting,
         \/ Admission \/ RecordFull \/ RecordPartial
         \/ \E k \in Keys : Issue(k) \/ Answer(k)
  PROVE  SInv'
<1> USE DEF RInv, SInv
<1>0. /\ Queued' = Queued /\ Len(writes') = Len(writes) /\ ids' = ids /\ row' = row /\ flow' = flow
      /\ watch' = watch /\ verdict' = verdict /\ stopped' = stopped /\ plans' = plans
  BY Zenon DEF Admission, RecordFull, RecordPartial, Issue, Answer, Queued, flowVars, handle
<1>1. CASE \E k \in Keys : Issue(k) \/ Answer(k)
  <2>1. PICK k \in Keys : Issue(k) \/ Answer(k)
    BY <1>1
  <2>2. copy' = copy /\ copy \in {"gather", "drain"}
    BY <2>1 DEF Issue, Answer, Calls
  <2>3. sub' \in {[sub EXCEPT ![k] = v] : v \in {"dropped", "flying", "issued", "failed"}}
    BY <2>1 DEF Issue, Answer
  <2>4. sub[k] \in {"queued", "flying"}
    BY <2>1 DEF Issue, Answer
  <2>5. Issued(sub) \subseteq Issued(sub')
    BY <2>3, <2>4 DEF Types, Issued
  <2>6. \A j \in Keys : sub[j] # "conflict" => sub'[j] # "conflict"
    BY <2>3 DEF Types
  <2>7. StageInv' /\ HandleInv' /\ QuietInv'
    BY Zenon, <1>0, <2>2, <2>6 DEF StageInv, HandleInv, QuietInv, Starting, CopyOver
  <2>8. RowInv'
    BY Zenon, <1>0, <2>2, <2>5 DEF RowInv, QuietInv
  <2> QED
    BY <2>7, <2>8
<1>2. CASE Admission \/ RecordFull \/ RecordPartial
  <2>1. sub' = sub /\ Issued(sub') = Issued(sub)
    BY Zenon, <1>2 DEF Admission, RecordFull, RecordPartial, Issued
  <2>2. \/ copy = "admission" /\ copy' \in {"gather", "refused", "gave up"}
        \/ copy \in {"record", "partial"} /\ copy' = "gave up"
        \/ copy = "record" /\ Queued = {} /\ copy' = "handle"
        \/ copy = "partial" /\ Queued = {} /\ copy' = "handle" /\ error = "cancelled"
        \/ copy = "partial" /\ Queued = {} /\ copy' = "submit error"
    BY Zenon, <1>2, QueueFacts DEF Admission, RecordFull, RecordPartial, Recorded
  <2>3. flow \in {"copy", "drain"}
    BY Zenon, <2>2 DEF StageInv, CopyOver
  <2>4. flow = "copy" => error # "cancelled"
    BY Zenon DEF Uncancelled
  <2>5. copy' = "handle" => ids = Issued(sub) /\ plans = TRUE /\ \A k \in ids : row[k] = "running"
    BY <2>2 DEF HandleInv
  <2>6. StageInv'
    BY Zenon, <1>0, <2>1, <2>2, <2>3 DEF StageInv
  <2>7. HandleInv'
    BY Zenon, <1>0, <2>1, <2>2, <2>3, <2>4, <2>5 DEF HandleInv
  <2>8. QuietInv'
    BY Zenon, <1>0, <2>2, <2>3 DEF QuietInv
  <2>9. RowInv'
    BY Zenon, <1>0, <2>1, <2>2 DEF RowInv, QuietInv
  <2> QED
    BY <2>6, <2>7, <2>8, <2>9
<1> QED
  BY <1>1, <1>2

(* The gathers end. *)
LEMMA GatherStage ==
  ASSUME RInv, RInv', SInv, flow # "gone", phase' = phase, phase \notin Starting,
         Gather \/ Drain
  PROVE  SInv'
<1> USE DEF RInv, SInv
<1>0. /\ row' = row /\ flow' = flow /\ watch' = watch /\ verdict' = verdict /\ stopped' = stopped
      /\ copy \in {"gather", "drain"} /\ flow \in {"copy", "drain"}
  BY Zenon DEF Gather, Drain, flowVars, StageInv, CopyOver
<1>1. /\ Queued = {} /\ Len(writes) = 0 /\ \A k \in Keys : row[k] = "none"
  BY Zenon, <1>0, QueueFacts DEF QuietInv
<1>2. /\ Issued(sub') = Issued(sub)
      /\ \A k \in Keys : sub[k] # "conflict" => sub'[k] # "conflict"
  BY CancelledChildren, ChildrenAfter DEF Gather, Drain
<1>3. \/ copy' = "drain" /\ ids' = ids /\ writes' = writes
      \/ copy' \in {"gave up", "submit error"} /\ ids' = ids /\ writes' = writes
      \/ /\ copy' \in {"record", "partial"} /\ plans' = TRUE /\ ids' = Issued(sub)
         /\ copy' = "record" => ids' = Keys
         /\ writes' = Append(writes, Hand(ids', "running"))
  BY Zenon, <1>2 DEF Gather, Drain, DrainEnds, EmptyHanded, Record, Issued, Hand, handle
<1>4. StageInv'
  BY Zenon, <1>0, <1>2 DEF StageInv
<1>5. CASE writes' = writes /\ copy' \in {"drain", "gave up", "submit error"} /\ ids' = ids
  <2>1. Queued' = {} /\ Len(writes') = 0
    BY Zenon, <1>1, <1>5 DEF Queued
  <2>2. HandleInv' /\ QuietInv'
    BY Zenon, <1>0, <1>1, <1>5, <2>1 DEF HandleInv, QuietInv
  <2>3. RowInv'
    BY Zenon, <1>0, <1>1, <1>2, <1>5, <2>1 DEF RowInv
  <2> QED
    BY <1>4, <2>2, <2>3
<1>6. CASE /\ copy' \in {"record", "partial"} /\ plans' = TRUE /\ ids' = Issued(sub)
           /\ copy' = "record" => ids' = Keys
           /\ writes' = Append(writes, Hand(ids', "running"))
  <2>1. ids' \in SUBSET Keys /\ "running" \in Statuses
    BY <1>6 DEF Issued, Statuses
  <2>2. Queued' = {Hand(ids', "running")} /\ Len(writes') = 1
    BY <1>1, <1>6, <2>1, Handed
  <2>3. /\ copy' \in {"record", "partial"} /\ plans' = TRUE /\ ids' = Issued(sub)
        /\ copy' = "record" => ids' = Keys
    BY <1>6
  <2>4. Queued' # {} /\ Len(writes') = 1 /\ \A w \in Queued' : w.keys = ids' /\ w.status = "running"
    BY <2>2 DEF Hand
  <2>5. HandleInv'
    BY <1>0, <1>2, <2>3, <2>4 DEF HandleInv
  <2>6. QuietInv'
    <3>1. copy' \in {"record", "partial"} /\ Len(writes') <= 1
      BY <2>3, <2>4
    <3> QED
      BY Zenon, <1>0, <3>1 DEF QuietInv
  <2>7. RowInv'
    BY Zenon, <1>0, <1>1, <1>2, <2>3, <2>4 DEF RowInv
  <2> QED
    BY <1>4, <2>5, <2>6, <2>7
<1> QED
  BY Zenon, <1>3, <1>5, <1>6

(* The flow goes through its stages. *)
LEMMA FlowStage ==
  ASSUME RInv, Uncancelled, StageInv, flow # "gone",
         FlowMoves \/ \E C \in SUBSET ids : Conflict(C)
  PROVE  StageInv'
<1> USE DEF RInv
<1>1. flow \in Tracking => copy = "handle"
  BY DEF Traced
<1>2. CASE CopyReturns \/ DrainCopy \/ Interrupt("timeout") \/ Interrupt("stop") \/ StopInDrain
  BY Zenon, <1>2 DEF CopyReturns, DrainCopy, Interrupt, StopInDrain, AbandonThen, Ends, CopyOver, copyVars,
     StageInv, Uncancelled
<1>3. CASE \/ ConflictRecorded \/ Settled \/ Abandoned \/ StopInAbandon
           \/ Settle("failed") \/ Settle("ready") \/ SettleWatched
  BY Zenon, <1>1, <1>3 DEF ConflictRecorded, Settled, Abandoned, StopInAbandon, Settle, SettleWatched, Ends,
     CopyOver, copyVars, StageInv, Tracking
<1>4. CASE PollTimeout \/ StopInPoll
  <2>1. /\ flow \in Tracking /\ flow' \in {"ended", "abandon poll"} /\ watch' = {}
        /\ verdict' \in {"failed", "cancelled"} /\ copy' = copy
    BY Zenon, <1>4 DEF PollTimeout, StopInPoll, AbandonPolled, copyVars, Tracking
  <2> QED
    BY Zenon, <1>1, <2>1 DEF StageInv, CopyOver
<1>5. CASE \E C \in SUBSET ids : Conflict(C)
  BY <1>1, <1>5 DEF Conflict, StageInv, CopyOver, Tracking
<1> QED
  BY <1>2, <1>3, <1>4, <1>5 DEF FlowMoves, Moves

(* What a step of the flow does to rows, handle and queue: nothing; one     *)
(* write, into an empty queue; or, when shutdown cancels a poll, one write  *)
(* behind those that wait or in place of them.                              *)
Still == Queued' = Queued /\ Len(writes') = Len(writes)
Gives(S, t) == Queued = {} /\ Queued' = {Hand(S, t)} /\ Len(writes') = 1

(* The flow while copy runs: it goes on, ends without a handle, or abandons *)
(* the one that was returned.                                               *)
LEMMA MoveEffect ==
  ASSUME RInv, Uncancelled, SInv, flow # "gone",
         \/ CopyReturns \/ DrainCopy \/ Interrupt("timeout") \/ Interrupt("stop") \/ StopInDrain
  PROVE  /\ UNCHANGED <<sub, copy, row, ids, plans, watch>>
         /\ flow \in {"copy", "drain"}
         /\ \/ Still /\ flow' = "drain"
            \/ Still /\ flow' = "ended" /\ copy # "handle" /\ verdict' # "ready"
            \/ Still /\ flow' = "poll" /\ flow = "copy" /\ copy = "handle"
            \/ Gives(ids, "abandoned") /\ flow' = "abandon"
<1> USE DEF RInv, SInv
<1>1. UNCHANGED <<sub, copy, row, ids, plans, watch>> /\ flow \in {"copy", "drain"}
  BY Zenon DEF CopyReturns, DrainCopy, Interrupt, StopInDrain, copyVars, handle
<1>2. \/ writes' = writes /\ flow' = "drain"
      \/ writes' = writes /\ flow' = "ended" /\ copy # "handle" /\ verdict' # "ready"
      \/ writes' = writes /\ flow' = "poll" /\ flow = "copy" /\ copy = "handle"
      \/ /\ writes' = Append(writes, Hand(ids, "abandoned")) /\ flow' = "abandon"
         /\ copy \in {"handle", "submit error"}
  BY Zenon DEF CopyReturns, DrainCopy, Interrupt, StopInDrain, AbandonThen, Ends, CopyOver, Record, Hand,
     Uncancelled, HandleInv
<1>3. writes' = writes => Still
  BY DEF Still, Queued
<1>4. CASE /\ writes' = Append(writes, Hand(ids, "abandoned")) /\ flow' = "abandon"
           /\ copy \in {"handle", "submit error"}
  <2>1. ids \in SUBSET Keys /\ "abandoned" \in Statuses
    BY DEF Types, Statuses
  <2>2. Queued' = Queued \cup {Hand(ids, "abandoned")} /\ Len(writes') = Len(writes) + 1
    BY Zenon, <1>4, <2>1, Handed
  <2>3. Queued = {} /\ Len(writes) = 0
    BY Zenon, <1>1, <1>4, QueueFacts DEF QuietInv
  <2>4. Len(writes') = 1
    BY <2>2, <2>3
  <2>5. Gives(ids, "abandoned")
    BY <2>2, <2>3, <2>4 DEF Gives
  <2> QED
    BY Zenon, <1>1, <1>4, <2>5
<1> QED
  BY Zenon, <1>1, <1>2, <1>3, <1>4

(* A write handed to an empty queue is the only one there. *)
LEMMA GivesOne ==
  ASSUME RInv, NEW S \in SUBSET Keys, NEW t \in Statuses, Queued = {},
         writes' = Append(writes, Hand(S, t))
  PROVE  Gives(S, t)
<1>1. Types
  BY DEF RInv
<1>2. Queued' = Queued \cup {Hand(S, t)} /\ Len(writes') = Len(writes) + 1
  BY <1>1, Handed
<1>3. Len(writes) = 0
  BY <1>1, QueueFacts
<1>4. Len(writes') = 1
  BY <1>2, <1>3
<1> QED
  BY <1>2, <1>4 DEF Gives

(* The flow polls, settles or abandons. *)
LEMMA PollEffect ==
  ASSUME RInv, SInv,
         \/ ConflictRecorded \/ Settled \/ Abandoned \/ StopInAbandon
         \/ Settle("failed") \/ Settle("ready") \/ SettleWatched \/ PollTimeout
  PROVE  /\ UNCHANGED <<sub, copy, row, ids>>
         /\ \/ Still /\ flow = "conflict" /\ flow' = "poll" /\ Queued = {} /\ watch' = watch
            \/ /\ Still /\ flow \in {"settle", "abandon", "abandon poll"} /\ flow' = "ended"
               /\ watch' = watch /\ (verdict' = verdict \/ verdict' = "cancelled")
            \/ /\ flow = "poll" /\ flow' = "settle" /\ watch = {} /\ watch' = watch
               /\ \E t \in {"failed", "ready"} : Gives(ids, t) /\ verdict' = t
            \/ /\ flow = "poll" /\ flow' = "settle" /\ watch # {} /\ watch' = {}
               /\ Gives(ids \ watch, "ready") /\ verdict' = "ready"
            \/ /\ Still /\ flow = "poll" /\ flow' = "ended" /\ ids \subseteq watch /\ watch' = {}
               /\ watch # {} \/ verdict' = "failed"
            \/ /\ flow = "poll" /\ flow' = "abandon poll" /\ watch' = {}
               /\ Gives(ids \ watch, "abandoned") /\ verdict' = "failed"
<1> USE DEF RInv, SInv
<1>1. UNCHANGED <<sub, copy, row, ids>>
  BY Zenon DEF ConflictRecorded, Settled, Abandoned, StopInAbandon, Settle, SettleWatched, PollTimeout,
     AbandonPolled, copyVars, handle
<1>2. /\ ids \in SUBSET Keys /\ ids \ watch \in SUBSET Keys
      /\ {"failed", "ready", "abandoned"} \subseteq Statuses
  BY DEF Types, Statuses
<1>3. writes' = writes => Still
  BY DEF Still, Queued
<1>4. flow = "poll" => Queued = {}
  BY DEF QuietInv
<1>5. CASE ConflictRecorded
  <2>1. writes' = writes /\ writes = <<>> /\ flow = "conflict" /\ flow' = "poll" /\ watch' = watch
    BY <1>5 DEF ConflictRecorded, Recorded
  <2> QED
    BY <1>1, <1>3, <2>1, QueueFacts
<1>6. CASE Settled \/ Abandoned \/ StopInAbandon
  <2>1. /\ writes' = writes /\ flow \in {"settle", "abandon", "abandon poll"} /\ flow' = "ended"
        /\ watch' = watch /\ (verdict' = verdict \/ verdict' = "cancelled")
    BY Zenon, <1>6 DEF Settled, Abandoned, StopInAbandon, Ends
  <2> QED
    BY Zenon, <1>1, <1>3, <2>1
<1>7. ASSUME NEW t \in {"failed", "ready"}, Settle(t)
      PROVE  /\ flow = "poll" /\ flow' = "settle" /\ watch = {} /\ watch' = watch
             /\ Gives(ids, t) /\ verdict' = t
  <2>1. /\ flow = "poll" /\ flow' = "settle" /\ watch = {} /\ watch' = watch /\ verdict' = t
        /\ writes' = Append(writes, Hand(ids, t))
    BY <1>7 DEF Settle, Record, Hand
  <2> QED
    BY <1>2, <1>4, <2>1, GivesOne
<1>8. CASE SettleWatched
  <2>1. /\ flow = "poll" /\ watch # {} /\ watch' = {} /\ verdict' = "ready"
        /\ \/ ids \subseteq watch /\ flow' = "ended" /\ writes' = writes
           \/ flow' = "settle" /\ writes' = Append(writes, Hand(ids \ watch, "ready"))
    BY <1>8 DEF SettleWatched, Record, Hand
  <2>2. writes' = Append(writes, Hand(ids \ watch, "ready")) => Gives(ids \ watch, "ready")
    BY Zenon, <1>2, <1>4, <2>1, GivesOne
  <2> QED
    BY <1>1, <1>3, <2>1, <2>2
<1>9. CASE PollTimeout
  <2>1. /\ flow = "poll" /\ watch' = {} /\ verdict' = "failed"
        /\ \/ ids \subseteq watch /\ flow' = "ended" /\ writes' = writes
           \/ flow' = "abandon poll" /\ writes' = Append(writes, Hand(ids \ watch, "abandoned"))
    BY Zenon, <1>9 DEF PollTimeout, AbandonPolled, Hand
  <2>2. writes' = Append(writes, Hand(ids \ watch, "abandoned")) => Gives(ids \ watch, "abandoned")
    BY Zenon, <1>2, <1>4, <2>1, GivesOne
  <2> QED
    BY Zenon, <1>1, <1>3, <2>1, <2>2
<1> QED
  BY Zenon, <1>1, <1>5, <1>6, <1>7, <1>8, <1>9

(* Tasks in conflict. *)
LEMMA ConflictEffect ==
  ASSUME RInv, SInv, NEW C \in SUBSET ids, Conflict(C)
  PROVE  /\ UNCHANGED <<copy, row, ids>> /\ flow = "poll" /\ flow' = "conflict"
         /\ watch = {} /\ watch' = C /\ Gives(C, "failed")
         /\ sub' = [k \in Keys |-> IF k \in C THEN "conflict" ELSE sub[k]]
<1>1. /\ UNCHANGED <<copy, row, ids>> /\ flow = "poll" /\ flow' = "conflict"
      /\ watch = {} /\ watch' = C
      /\ sub' = [k \in Keys |-> IF k \in C THEN "conflict" ELSE sub[k]]
      /\ writes' = Append(writes, Hand(C, "failed"))
  BY DEF Conflict, Record, Hand, handle
<1>2. Queued = {} /\ C \in SUBSET Keys /\ "failed" \in Statuses
  BY <1>1 DEF SInv, QuietInv, RInv, Types, Statuses
<1> QED
  BY <1>1, <1>2, GivesOne

(* Shutdown cancels a poll. *)
LEMMA StopEffect ==
  ASSUME RInv, StopInPoll
  PROVE  /\ UNCHANGED <<sub, copy, row, ids>>
         /\ flow \in Tracking /\ watch' = {} /\ verdict' = "cancelled" /\ stopped' = TRUE
         /\ \/ ids \subseteq watch /\ flow' = "ended"
            \/ flow' = "abandon poll" /\ Hand(ids \ watch, "abandoned") \in Queued'
         /\ Queued' \subseteq Queued \cup {Hand(ids \ watch, "abandoned")}
<1> USE DEF RInv
<1>1. PICK w \in {writes, <<>>} : AbandonPolled("cancelled", w)
  BY Zenon DEF StopInPoll
<1>2. /\ UNCHANGED <<sub, copy, row, ids>>
      /\ flow \in Tracking /\ watch' = {} /\ verdict' = "cancelled" /\ stopped' = TRUE
      /\ \/ ids \subseteq watch /\ flow' = "ended" /\ writes' = w
         \/ flow' = "abandon poll" /\ writes' = Append(w, Hand(ids \ watch, "abandoned"))
  BY Zenon, <1>1 DEF StopInPoll, AbandonPolled, copyVars, Tracking, Hand
<1>3. QueuedIn(w) \in {Queued, {}}
  BY QueueEmpty DEF Queued
<1>4. w \in Seq(Writes)
  <2>1. writes \in Seq(Writes) /\ <<>> \in Seq(Writes)
    BY DEF Types
  <2> QED
    BY Zenon, <2>1
<1>5. Hand(ids \ watch, "abandoned") \in Writes
  BY DEF Types, Hand, Writes, Statuses
<1>6. QueuedIn(Append(w, Hand(ids \ watch, "abandoned"))) = QueuedIn(w) \cup {Hand(ids \ watch, "abandoned")}
  BY <1>4, <1>5, QueueAppend
<1>7. writes' = w => Queued' = QueuedIn(w)
  BY DEF Queued
<1>8. writes' = Append(w, Hand(ids \ watch, "abandoned")) =>
        Queued' = QueuedIn(w) \cup {Hand(ids \ watch, "abandoned")}
  BY Zenon, <1>6 DEF Queued
<1> QED
  BY Zenon, <1>2, <1>3, <1>7, <1>8

(* The same, for the fields of the write. *)
LEMMA GivesFacts ==
  ASSUME NEW S, NEW t, Gives(S, t)
  PROVE  /\ Queued = {} /\ Queued' # {} /\ Len(writes') <= 1
         /\ \A w \in Queued' : w.keys = S /\ w.status = t
BY DEF Gives, Hand

(* A step of the flow keeps the handle's rows and the queue in order. *)
LEMMA MoveSInv ==
  ASSUME RInv, Uncancelled, SInv, flow # "gone", phase' = phase, phase \notin Starting,
         FlowMoves \/ \E C \in SUBSET ids : Conflict(C)
  PROVE  SInv'
<1> USE DEF RInv, SInv
<1>0. StageInv'
  BY FlowStage
<1>1. CASE \/ CopyReturns \/ DrainCopy \/ Interrupt("timeout") \/ Interrupt("stop") \/ StopInDrain
  <2>1. /\ sub' = sub /\ copy' = copy /\ row' = row /\ ids' = ids /\ plans' = plans
        /\ flow \in {"copy", "drain"} /\ Issued(sub') = Issued(sub)
        /\ flow' \in {"drain", "ended", "poll", "abandon"}
    BY <1>1, MoveEffect DEF Issued
  <2>2. CASE Still
    <3>1. Queued' = Queued /\ Len(writes') = Len(writes)
      BY <2>2 DEF Still
    <3>2. flow' = "poll" => copy = "handle"
      BY <1>1, <2>2, MoveEffect DEF Gives
    <3>3. HandleInv'
      BY <2>1, <3>1 DEF HandleInv
    <3>4. QuietInv'
      BY Zenon, <2>1, <3>1, <3>2 DEF QuietInv
    <3>5. RowInv'
      BY Zenon, <2>1, <3>1 DEF RowInv
    <3> QED
      BY <1>0, <3>3, <3>4, <3>5
  <2>3. CASE Gives(ids, "abandoned") /\ flow' = "abandon"
    <3>1. /\ Queued = {} /\ Queued' # {} /\ Len(writes') <= 1
          /\ \A w \in Queued' : w.keys = ids /\ w.status = "abandoned"
      BY <2>3, GivesFacts
    <3>2. CopyOver
      BY Zenon, <2>1, <2>3, <1>0 DEF StageInv, CopyOver
    <3>3. HandleInv'
      BY Zenon, <2>1, <2>3, <3>2 DEF HandleInv, CopyOver
    <3>4. QuietInv'
      BY Zenon, <2>1, <2>3, <3>1, <3>2 DEF QuietInv, CopyOver
    <3>5. RowInv'
      BY Zenon, <2>1, <3>1 DEF RowInv
    <3> QED
      BY <1>0, <3>3, <3>4, <3>5
  <2> QED
    BY <1>1, <2>2, <2>3, MoveEffect
<1>2. ASSUME copy' = copy, row' = row, ids' = ids, Issued(sub) \subseteq Issued(sub'),
             flow \in {"poll", "conflict", "settle", "abandon", "abandon poll"},
             flow' \in {"poll", "conflict", "settle", "abandon poll", "ended"},
             Len(writes') <= 1 \/ stopped' = TRUE,
             flow' = "poll" => Queued' = {},
             Len(writes') = Len(writes) \/ copy = "handle",
             \A w \in Queued' : w \in Queued \/ (w.keys \subseteq ids /\ w.status # "running")
      PROVE  SInv'
  <2>1. copy \in {"handle", "submit error", "refused", "gave up"}
    BY Zenon, <1>2 DEF StageInv, CopyOver
  <2>2. HandleInv'
    BY Zenon, <1>2, <2>1 DEF HandleInv
  <2>3. QuietInv'
    BY Zenon, <1>2, <2>1 DEF QuietInv
  <2>4. RowInv'
    BY Zenon, <1>2, <2>1 DEF RowInv
  <2> QED
    BY <1>0, <2>2, <2>3, <2>4
<1>3. flow \in Tracking => copy = "handle"
  BY DEF Traced
<1>4. CASE \/ ConflictRecorded \/ Settled \/ Abandoned \/ StopInAbandon
           \/ Settle("failed") \/ Settle("ready") \/ SettleWatched \/ PollTimeout
  <2>1. /\ sub' = sub /\ copy' = copy /\ row' = row /\ ids' = ids
        /\ Issued(sub) \subseteq Issued(sub')
        /\ flow \in {"poll", "conflict", "settle", "abandon", "abandon poll"}
        /\ flow' \in {"poll", "conflict", "settle", "abandon poll", "ended"}
    BY Zenon, <1>4, PollEffect DEF Issued
  <2>2. stopped' = stopped \/ stopped' = TRUE
    BY Zenon, <1>4 DEF ConflictRecorded, Settled, Abandoned, StopInAbandon, Settle, SettleWatched, PollTimeout
  <2>3. CASE Still
    <3>1. Queued' = Queued /\ Len(writes') = Len(writes)
      BY <2>3 DEF Still
    <3>2. flow' = "poll" => Queued = {}
      BY <1>4, PollEffect
    <3>3. Len(writes') <= 1 \/ stopped' = TRUE
      BY Zenon, <2>2, <3>1 DEF QuietInv
    <3> QED
      BY Zenon, <1>2, <2>1, <3>1, <3>2, <3>3
  <2>4. ASSUME NEW S \in SUBSET ids, NEW t \in {"failed", "ready", "abandoned"}, Gives(S, t),
               flow = "poll", flow' # "poll"
        PROVE  SInv'
    <3>1. /\ Len(writes') <= 1
          /\ \A w \in Queued' : w.keys \subseteq ids /\ w.status # "running"
      BY <2>4, GivesFacts
    <3>2. copy = "handle"
      BY <1>3, <2>4 DEF Tracking
    <3> QED
      BY Zenon, <1>2, <2>1, <2>4, <3>1, <3>2
  <2>5. ids \in SUBSET ids /\ ids \ watch \in SUBSET ids
    OBVIOUS
  <2> QED
    BY Zenon, <1>4, <2>3, <2>4, <2>5, PollEffect
<1>5. ASSUME NEW C \in SUBSET ids, Conflict(C) PROVE SInv'
  <2>1. /\ copy' = copy /\ row' = row /\ ids' = ids /\ flow = "poll" /\ flow' = "conflict"
        /\ sub' = [k \in Keys |-> IF k \in C THEN "conflict" ELSE sub[k]]
        /\ Gives(C, "failed")
    BY <1>5, ConflictEffect
  <2>2. Issued(sub) \subseteq Issued(sub')
    BY <2>1 DEF Issued
  <2>3. /\ Len(writes') <= 1
        /\ \A w \in Queued' : w.keys \subseteq ids /\ w.status # "running"
    BY <2>1, GivesFacts
  <2>4. copy = "handle"
    BY <1>3, <2>1 DEF Tracking
  <2> QED
    BY <1>2, <2>1, <2>2, <2>3, <2>4
<1>6. CASE StopInPoll
  <2>1. /\ sub' = sub /\ copy' = copy /\ row' = row /\ ids' = ids /\ stopped' = TRUE
        /\ flow \in {"poll", "conflict", "settle", "abandon poll"}
        /\ flow' \in {"ended", "abandon poll"}
    BY Zenon, <1>6, StopEffect DEF Tracking
  <2>2. \A w \in Queued' : w \in Queued \/ w = Hand(ids \ watch, "abandoned")
    BY Zenon, <1>6, StopEffect
  <2>3. \A w \in Queued' : w \in Queued \/ (w.keys \subseteq ids /\ w.status # "running")
    BY <2>2 DEF Hand
  <2>4. copy = "handle" /\ Issued(sub) \subseteq Issued(sub')
    BY Zenon, <1>3, <2>1 DEF Tracking, Issued
  <2> QED
    BY Zenon, <1>2, <2>1, <2>3, <2>4
<1> QED
  BY <1>1, <1>4, <1>5, <1>6 DEF FlowMoves, Moves

(* The ledger's thread does a write. *)
LEMMA LedgerEffect ==
  ASSUME RInv, LedgerWrites
  PROVE  /\ UNCHANGED <<copyVars, flowVars, cancelled, handle, watch>>
         /\ Queued' \subseteq Queued
         /\ Len(writes) <= 1 => Queued' = {} /\ Len(writes') <= 1
         /\ \E e \in Queued :
              /\ e.keys \subseteq Keys /\ e.status \in Statuses
              /\ \A w \in Queued : w = e \/ w \in Queued'
              /\ row' = [k \in Keys |-> IF k \in e.keys THEN e.status ELSE row[k]]
<1> USE DEF RInv
<1>1. /\ writes # <<>> /\ writes' = Tail(writes)
      /\ row' = [k \in Keys |-> IF k \in Head(writes).keys THEN Head(writes).status ELSE row[k]]
      /\ UNCHANGED <<copyVars, flowVars, cancelled, handle, watch>>
  BY DEF LedgerWrites
<1>2. writes \in Seq(Writes)
  BY DEF Types
<1>3. /\ Head(writes) \in Writes /\ writes' \in Seq(Writes)
      /\ Queued = {Head(writes)} \cup Queued' /\ Len(writes') = Len(writes) - 1
  BY <1>1, <1>2, QueueTail DEF Queued
<1>4. Head(writes).keys \subseteq Keys /\ Head(writes).status \in Statuses
  BY <1>3 DEF Writes
<1>5. Len(writes) \in Nat /\ Len(writes') \in Nat /\ (Len(writes') = 0 => Queued' = {})
  BY <1>2, <1>3, QueueLen DEF Queued
<1>6. Len(writes) <= 1 => Queued' = {} /\ Len(writes') <= 1
  BY <1>3, <1>5
<1> QED
  BY <1>1, <1>3, <1>4, <1>6

(* The write of the ledger's thread. *)
LEMMA LedgerSInv ==
  ASSUME RInv, SInv, LedgerWrites, phase' = phase
  PROVE  SInv'
<1> USE DEF RInv, SInv
<1>1. /\ sub' = sub /\ copy' = copy /\ flow' = flow /\ stopped' = stopped /\ verdict' = verdict
      /\ plans' = plans /\ ids' = ids /\ watch' = watch /\ Issued(sub') = Issued(sub)
  BY LedgerEffect DEF copyVars, flowVars, handle, Issued
<1>2. PICK e \in Queued :
         /\ e.keys \subseteq Keys /\ e.status \in Statuses
         /\ row' = [k \in Keys |-> IF k \in e.keys THEN e.status ELSE row[k]]
  BY LedgerEffect
<1>3. Queued' \subseteq Queued /\ (Len(writes) <= 1 => Queued' = {} /\ Len(writes') <= 1)
  BY LedgerEffect
<1>4. ids \subseteq Keys /\ Len(writes) \in Nat
  BY QueueFacts DEF Types
<1>5. StageInv'
  BY Zenon, <1>1 DEF StageInv, CopyOver
<1>6. copy \in {"record", "partial"} /\ flow # "gone" => Queued' = {} /\ \A k \in ids : row'[k] = "running"
  <2> SUFFICES ASSUME copy \in {"record", "partial"}, flow # "gone"
               PROVE  Queued' = {} /\ \A k \in ids : row'[k] = "running"
    OBVIOUS
  <2>1. e.keys = ids /\ e.status = "running"
    BY <1>2 DEF HandleInv
  <2>2. Len(writes) = 1
    BY Zenon, <1>2, <2>1 DEF RowInv
  <2>3. Queued' = {}
    BY <1>3, <2>2
  <2> QED
    BY <1>2, <1>4, <2>1, <2>3
<1>7. HandleInv'
  <2>1. flow \in {"copy", "drain"} => copy # "handle"
    BY Zenon, <1>2 DEF QuietInv
  <2> QED
    BY <1>1, <1>6, <2>1 DEF HandleInv
<1>8. QuietInv'
  <2>1. copy \notin {"admission", "gather", "drain"}
    BY Zenon, <1>2 DEF QuietInv
  <2>2. Len(writes') <= 1 \/ stopped' = TRUE
    BY Zenon, <1>1, <1>3 DEF QuietInv
  <2>3. flow \in {"copy", "drain"} => Len(writes') <= 1
    BY Zenon, <1>3 DEF QuietInv
  <2> QED
    BY Zenon, <1>1, <1>3, <2>1, <2>2, <2>3 DEF QuietInv
<1>9. RowInv'
  <2>1. e.keys \subseteq ids /\ ids \subseteq Issued(sub)
    BY Zenon, <1>2 DEF RowInv
  <2>2. \A w \in Queued' : w.status # "running"
    <3> SUFFICES ASSUME NEW w \in Queued', w.status = "running" PROVE FALSE
      OBVIOUS
    <3>1. Len(writes) = 1
      BY Zenon, <1>3 DEF RowInv
    <3> QED
      BY <1>3, <3>1
  <2> QED
    BY Zenon, <1>1, <1>2, <1>3, <2>1, <2>2 DEF RowInv
<1> QED
  BY <1>5, <1>7, <1>8, <1>9

(* The process ends, starts again or is stopped. *)
LEMMA ProcessSInv ==
  ASSUME RInv, SInv, Vanish \/ Rebuilt \/ Collected
  PROVE  SInv'
<1> USE DEF RInv, SInv
<1>1. CASE Vanish
  <2>1. /\ copy' = copy /\ ids' = ids /\ row' = row /\ watch' = {} /\ verdict' = verdict
        /\ flow' = "gone" \/ (flow' = "ended" /\ flow = "ended")
        /\ writes' = <<>> /\ sub' = ChildrenCancelled
    BY <1>1 DEF Vanish, Over
  <2>2. Queued' = {} /\ Len(writes') <= 1
    <3>1. Len(<<>>) <= 1
      OBVIOUS
    <3> QED
      BY <2>1, <3>1, QueueEmpty DEF Queued
  <2>3. Issued(sub') = Issued(sub)
    BY <2>1, CancelledChildren
  <2>4. StageInv'
    BY Zenon, <2>1 DEF StageInv, CopyOver
  <2>5. HandleInv'
    BY Zenon, <2>1 DEF HandleInv, StageInv, CopyOver
  <2>6. QuietInv'
    BY Zenon, <2>1, <2>2 DEF QuietInv
  <2>7. RowInv'
    BY Zenon, <2>1, <2>2, <2>3 DEF RowInv
  <2> QED
    BY <2>4, <2>5, <2>6, <2>7
<1>2. CASE Rebuilt /\ Restorable
  <2>1. /\ sub' = sub /\ row' = row /\ ids' = Rows("running") /\ flow' = "poll" /\ copy' = "handle"
        /\ Queued' = Queued /\ Len(writes') = Len(writes) /\ phase \in Starting
    BY <1>2 DEF Rebuilt, Queued, Starting
  <2>2. Queued = {} /\ Len(writes) = 0
    BY Zenon, <2>1, QueueFacts DEF QuietInv
  <2>3. ids' \subseteq Issued(sub') /\ Issued(sub') = Issued(sub)
    BY Zenon, <2>1 DEF RowInv, Rows, Issued
  <2>4. StageInv'
    BY Zenon, <2>1 DEF StageInv, CopyOver
  <2>5. HandleInv'
    BY <2>1 DEF HandleInv
  <2>6. QuietInv'
    BY <2>1, <2>2 DEF QuietInv
  <2>7. RowInv'
    BY <2>1, <2>2, <2>3 DEF RowInv, Rows
  <2> QED
    BY <2>4, <2>5, <2>6, <2>7
<1>3. CASE (Rebuilt /\ ~Restorable) \/ Collected
  <2>1. /\ sub' = sub /\ ids' = ids /\ flow' = flow /\ copy' = copy /\ watch' = watch
        /\ verdict' = verdict /\ stopped' = stopped /\ plans' = plans
        /\ Queued' = Queued /\ Len(writes') = Len(writes) /\ phase' \notin Starting
    BY <1>3 DEF Rebuilt, Collected, Queued, Starting, copyVars, flowVars, handle
  <2>2. \A k \in Keys : /\ (row'[k] = "none") = (row[k] = "none")
                        /\ (row'[k] = "running") = (row[k] = "running")
    BY <1>3 DEF Rebuilt, Collected, Collectable, Rows
  <2>3. Issued(sub') = Issued(sub) /\ ids \subseteq Keys
    BY <2>1 DEF Issued, Types
  <2>4. StageInv'
    BY Zenon, <2>1 DEF StageInv, CopyOver
  <2>5. HandleInv'
    BY Zenon, <2>1, <2>2, <2>3 DEF HandleInv
  <2>6. QuietInv'
    BY Zenon, <2>1, <2>2 DEF QuietInv, Starting
  <2>7. RowInv'
    BY Zenon, <2>1, <2>2, <2>3 DEF RowInv
  <2> QED
    BY <2>4, <2>5, <2>6, <2>7
<1> QED
  BY <1>1, <1>2, <1>3

(* Steps of the process that leave the flow alone. *)
LEMMA AroundSInv ==
  ASSUME SInv, UNCHANGED vars, phase' \in Starting => phase \in Starting
  PROVE  SInv'
<1> USE DEF SInv
<1>1. /\ sub' = sub /\ ids' = ids /\ flow' = flow /\ copy' = copy /\ watch' = watch /\ row' = row
      /\ verdict' = verdict /\ stopped' = stopped /\ plans' = plans
      /\ Queued' = Queued /\ Len(writes') = Len(writes) /\ Issued(sub') = Issued(sub)
  BY DEF vars, copyVars, flowVars, handle, Queued, Issued
<1>2. StageInv'
  BY Zenon, <1>1 DEF StageInv, CopyOver
<1>3. HandleInv'
  BY <1>1 DEF HandleInv
<1>4. QuietInv'
  BY Zenon, <1>1 DEF QuietInv, Starting
<1>5. RowInv'
  BY Zenon, <1>1 DEF RowInv
<1> QED
  BY <1>2, <1>3, <1>4, <1>5

(* Every step is one of the process, the store, the ledger or the flow. *)
LEMMA Cases ==
  ASSUME [RecoveryNext]_allVars
  PROVE  \/ Vanish
         \/ Rebuilt
         \/ Collected
         \/ UNCHANGED vars /\ (phase' \in Starting => phase \in Starting)
         \/ phase' = phase /\ LedgerWrites
         \/ /\ phase' = phase /\ phase \notin Starting /\ flow # "gone"
            /\ CopySteps \/ Moves \/ Queries
<1>1. CASE Crash \/ HardExit \/ DrainTimeout \/ Exit
  BY <1>1 DEF Crash, HardExit, DrainTimeout, Exit
<1>2. CASE \/ Boot \/ Connected \/ Checked \/ StartFails \/ ServeFails \/ StopSignal
           \/ EngineStopped \/ KeepaliveStopped \/ Close
           \/ SweepCalls \/ QueryCalls \/ OnReady \/ PublishBlockStored
           \/ \E c \in rpc : ThreadReturns(c)
           \/ \E k \in Keys : TaskEnds(k) \/ OtherTransfer(k) \/ ReplicaLost(k)
           \/ UNCHANGED allVars
  <2>1. UNCHANGED vars /\ (phase' \in Starting => phase \in Starting)
    BY <1>2 DEF Boot, Connected, Checked, StartFails, ServeFails, StopSignal, EngineStopped,
       KeepaliveStopped, Close, Goto, SweepCalls, QueryCalls, OnReady, PublishBlockStored,
       ThreadReturns, TaskEnds, OtherTransfer, ReplicaLost, allVars, daemonVars, Starting
  <2> QED
    BY <2>1
<1>3. CASE LedgerThread
  BY <1>3 DEF LedgerThread, Around, daemonVars
<1>4. CASE Advances \/ TimesOut \/ Cancelled \/ QueryAnswered \/ \E k \in Keys : Issues(k) \/ Answers(k)
  <2>1. phase' = phase /\ phase \notin Starting
    BY <1>4 DEF Advances, TimesOut, Cancelled, QueryAnswered, Issues, Answers, Around, daemonVars,
       Alive, Starting
  <2>2. flow # "gone"
    BY Zenon, <1>4 DEF Advances, TimesOut, Cancelled, QueryAnswered, Issues, Answers, Alive, Interrupt,
       StopInDrain, StopInPoll, StopInAbandon
  <2>3. CopySteps \/ Moves \/ Queries
    BY <1>4 DEF Advances, TimesOut, Cancelled, QueryAnswered, Issues, Answers, CopySteps, Moves, Queries
  <2> QED
    BY <2>1, <2>2, <2>3
<1> QED
  BY <1>1, <1>2, <1>3, <1>4 DEF RecoveryNext, Progress, Otherwise

(* The stages and the rows of the handle, through every step. *)
LEMMA NextSInv ==
  RInv /\ RInv' /\ Uncancelled /\ SInv /\ [RecoveryNext]_allVars => SInv'
<1> SUFFICES ASSUME RInv, RInv', Uncancelled, SInv, [RecoveryNext]_allVars PROVE SInv'
  OBVIOUS
<1>1. CASE /\ phase' = phase /\ phase \notin Starting /\ flow # "gone"
           /\ CopySteps \/ Moves \/ Queries
  <2>1. CASE CopySteps
    BY <1>1, <2>1, CopyStage, GatherStage DEF CopySteps
  <2>2. CASE Moves \/ Queries
    <3>1. FlowMoves \/ Conflict(Finds("conflict"))
      BY <2>2 DEF Moves, Queries, FlowMoves
    <3>2. Finds("conflict") \in SUBSET ids
      BY DEF Finds
    <3> QED
      BY <1>1, <3>1, <3>2, MoveSInv
  <2> QED
    BY <1>1, <2>1, <2>2
<1> QED
  BY <1>1, Cases, ProcessSInv, AroundSInv, LedgerSInv

-----------------------------------------------------------------------------
(* What the rows say together *)

(* What has ended in the store stays as it ended, and a loss is not undone. *)
Steady ==
  /\ \A k \in Keys : task[k] \in {"conflict", "failed"} => task'[k] = task[k]
  /\ lost = TRUE => lost' = TRUE

(* No step brings a task that ended back. *)
LEMMA StoreSteady ==
  ASSUME RInv, StoreInv, [RecoveryNext]_allVars
  PROVE  Steady
<1>1. CASE \E c \in rpc : ThreadReturns(c)
  <2>1. PICK c \in rpc : ThreadReturns(c)
    BY <1>1
  <2>2. lost' = lost /\ (task' = task \/ (c \in Keys /\ task' = [task EXCEPT ![c] = "running"]))
    BY <2>1 DEF ThreadReturns
  <2>3. c \in Keys => task[c] = "none"
    BY <2>1 DEF StoreInv
  <2> QED
    BY <2>2, <2>3 DEF Steady, StoreInv
<1>2. CASE \E k \in Keys : TaskEnds(k) \/ OtherTransfer(k) \/ ReplicaLost(k)
  BY <1>2 DEF TaskEnds, OtherTransfer, ReplicaLost, StoreInv, Steady
<1>3. CASE \E k \in Keys : Answers(k)
  <2>1. PICK k \in Keys : Answers(k)
    BY <1>3
  <2>2. /\ sub[k] = "flying" /\ lost' = lost /\ phase \notin {"draining", "closed"}
        /\ task' \in {task, [task EXCEPT ![k] = "running"]}
    BY Zenon, <2>1 DEF Answers, Answer, StoreInv, Alive
  <2>3. task[k] = "none"
    BY <2>2 DEF StoreInv
  <2> QED
    BY <2>2, <2>3 DEF Steady, StoreInv
<1>4. CASE \/ Crash \/ HardExit \/ DrainTimeout \/ Exit \/ Rebuilt \/ Collected
           \/ Boot \/ Connected \/ Checked \/ StartFails \/ ServeFails \/ StopSignal
           \/ EngineStopped \/ KeepaliveStopped \/ Close
           \/ SweepCalls \/ QueryCalls \/ OnReady \/ PublishBlockStored \/ LedgerThread
           \/ Advances \/ TimesOut \/ Cancelled \/ QueryAnswered \/ \E k \in Keys : Issues(k)
           \/ UNCHANGED allVars
  <2>1. task' = task /\ lost' = lost
    BY Zenon, <1>4 DEF Crash, HardExit, DrainTimeout, Exit, Vanish, Rebuilt, Collected, Boot, Connected,
       Checked, StartFails, ServeFails, StopSignal, EngineStopped, KeepaliveStopped, Close, Goto,
       SweepCalls, QueryCalls, OnReady, PublishBlockStored, LedgerThread, Advances, TimesOut,
       Cancelled, QueryAnswered, Issues, Around, storeVars, allVars
  <2> QED
    BY <2>1 DEF Steady
<1> QED
  BY <1>1, <1>2, <1>3, <1>4 DEF RecoveryNext, Progress, Otherwise

(* A step that is not part of the polling leaves the watching alone. *)
LEMMA NotWatching ==
  ASSUME flow' \notin Tracking
  PROVE  WatchInv'
BY Zenon DEF WatchInv, Tracking

(* The polling starts with a returned handle or with a rebuilt one. *)
LEMMA RebuiltWatch ==
  ASSUME RInv, SInv, MixInv, Rebuilt, Restorable
  PROVE  WatchInv'
<1>1. /\ sub' = sub /\ row' = row /\ ids' = Rows("running") /\ flow' = "poll" /\ task' = task
      /\ watch' = Rows("failed")
  BY DEF Rebuilt, Rewatched, storeVars
<1>2. row \in [Keys -> Statuses \cup {"none", "deleted"}]
  BY DEF RInv, Types
<1>3. Rows("running") # {} /\ \A k \in Keys : row[k] \in {"running", "ready", "failed", "abandoned"}
  BY <1>2 DEF Restorable, Rows, Statuses
<1>4. Issued(sub) = Keys
  BY Zenon, <1>3 DEF SInv, RowInv, Issued
<1>5. watch' # {} => \A k \in ids' : k \notin watch' /\ sub[k] = "issued"
  BY <1>1 DEF MixInv, Rows
<1>6. watch' = {} => /\ \A k \in Keys : row[k] # "failed"
                     /\ ids' = Keys \/ \E k \in ids' : task[k] = "conflict"
  <2>1. CASE \E k \in Keys : row[k] \in {"ready", "abandoned"}
    BY <1>1, <1>3, <2>1 DEF MixInv, Rows
  <2>2. CASE \A k \in Keys : row[k] \notin {"ready", "abandoned"}
    BY <1>1, <1>3, <2>2 DEF Rows
  <2> QED
    BY <2>1, <2>2
<1>7. Issued(sub') = Keys
  BY <1>1, <1>4
<1>8. /\ watch' \subseteq Keys /\ \A k \in ids' : row'[k] = "running"
      /\ \A k \in watch' : row'[k] = "failed"
  BY <1>1 DEF Rows
<1> QED
  BY <1>1, <1>5, <1>6, <1>7, <1>8 DEF WatchInv

(* A step that leaves the handle and what is watched. *)
LEMMA SameWatch ==
  ASSUME WatchInv, Steady, UNCHANGED <<sub, ids, flow, watch>>, Queued' = Queued,
         \A k \in Keys : /\ (row'[k] = "running") = (row[k] = "running")
                         /\ row[k] \in {"failed", "deleted"} => row'[k] \in {"failed", "deleted"}
                         /\ row[k] # "failed" => row'[k] # "failed",
         ids \subseteq Keys
  PROVE  WatchInv'
<1>1. Issued(sub') = Issued(sub)
  BY DEF Issued
<1>2. \A k \in ids : task[k] = "conflict" => task'[k] = "conflict"
  BY DEF Steady
<1> QED
  BY <1>1, <1>2 DEF WatchInv

(* The write of the tasks in conflict is done. *)
LEMMA LedgerWatch ==
  ASSUME RInv, SInv, WatchInv, Steady, LedgerWrites
  PROVE  WatchInv'
<1>1. /\ sub' = sub /\ flow' = flow /\ ids' = ids /\ watch' = watch /\ Issued(sub') = Issued(sub)
  BY LedgerEffect DEF copyVars, flowVars, handle, Issued
<1>2. PICK e \in Queued :
         /\ e.keys \subseteq Keys /\ e.status \in Statuses
         /\ row' = [k \in Keys |-> IF k \in e.keys THEN e.status ELSE row[k]]
  BY LedgerEffect
<1>3. Queued' \subseteq Queued
  BY LedgerEffect
<1>4. flow # "poll"
  BY Zenon, <1>2 DEF SInv, QuietInv
<1>5. CASE flow = "conflict"
  <2>1. e.keys = watch /\ e.status = "failed" /\ \A w \in Queued : w.keys = watch /\ w.status = "failed"
    BY <1>2, <1>5 DEF WatchInv
  <2>2. watch \subseteq Keys /\ ids \subseteq Keys
    BY <1>5 DEF WatchInv, RInv, Types
  <2>3. \A k \in watch : row'[k] = "failed"
    BY <1>2, <2>1, <2>2
  <2>4. \A k \in ids \ watch : row'[k] = "running"
    BY <1>2, <1>5, <2>1, <2>2 DEF WatchInv
  <2> QED
    BY <1>1, <1>3, <1>5, <2>1, <2>2, <2>3, <2>4 DEF WatchInv
<1>6. CASE flow # "conflict"
  BY <1>1, <1>4, <1>6 DEF WatchInv
<1> QED
  BY <1>5, <1>6

(* query_task finds tasks in conflict: they are watched from now on. *)
LEMMA ConflictWatch ==
  ASSUME RInv, SInv, StoreInv, WatchInv, Finds("conflict") # {}, Conflict(Finds("conflict"))
  PROVE  WatchInv'
<1> DEFINE C == Finds("conflict")
<1>1. C \in SUBSET ids /\ \A k \in ids : k \notin C => task[k] # "conflict"
  BY DEF Finds
<1>2. /\ copy' = copy /\ row' = row /\ ids' = ids /\ flow = "poll" /\ flow' = "conflict"
      /\ watch = {} /\ watch' = C /\ Gives(C, "failed")
      /\ sub' = [k \in Keys |-> IF k \in C THEN "conflict" ELSE sub[k]]
  BY <1>1, ConflictEffect
<1>3. ids \subseteq Keys /\ \A k \in ids : sub[k] \in {"issued", "conflict"}
  BY Zenon DEF SInv, RowInv, Issued, RInv, Types
<1>4. \A k \in ids : sub'[k] = IF k \in C THEN "conflict" ELSE "issued"
  BY <1>1, <1>2, <1>3 DEF StoreInv
<1>5. \A k \in ids \ C : row'[k] = "running"
  BY Zenon, <1>2 DEF WatchInv
<1>6. Issued(sub') = Keys
  <2>1. Issued(sub) = Keys
    BY <1>2 DEF WatchInv, Tracking
  <2> QED
    BY <1>2, <2>1 DEF Issued
<1>7. Queued' # {} /\ \A w \in Queued' : w.keys = C /\ w.status = "failed"
  BY <1>2, GivesFacts
<1>8. C # {} /\ C \subseteq Keys
  BY <1>1, <1>3
<1> HIDE DEF C
<1>9. /\ flow' = "conflict" /\ watch' # {} /\ watch' \subseteq Keys
      /\ \A k \in ids' \ watch' : row'[k] = "running"
      /\ \A k \in ids' : sub'[k] = IF k \in watch' THEN "conflict" ELSE "issued"
  BY <1>2, <1>4, <1>5, <1>8
<1>10. Queued' # {} /\ \A w \in Queued' : w.keys = watch' /\ w.status = "failed"
  BY <1>2, <1>7
<1> QED
  BY <1>6, <1>9, <1>10 DEF WatchInv

(* The watched keys are those in conflict, and the others still run. *)
LEMMA NextWatchInv ==
  RInv /\ Uncancelled /\ SInv /\ StoreInv /\ MixInv /\ WatchInv /\ [RecoveryNext]_allVars => WatchInv'
<1> SUFFICES ASSUME RInv, Uncancelled, SInv, StoreInv, MixInv, WatchInv, [RecoveryNext]_allVars
             PROVE  WatchInv'
  OBVIOUS
<1>0. Steady /\ ids \subseteq Keys
  BY StoreSteady DEF RInv, Types
<1>1. CASE Vanish
  <2>1. flow' \notin Tracking
    BY Zenon, <1>1 DEF Vanish, Over, Tracking
  <2> QED
    BY <2>1, NotWatching
<1>2. CASE (Rebuilt /\ ~Restorable) \/ Collected
  <2>1. sub' = sub /\ ids' = ids /\ flow' = flow /\ watch' = watch /\ Queued' = Queued
    BY <1>2 DEF Rebuilt, Collected, Queued, copyVars, flowVars, handle
  <2>2. \A k \in Keys : /\ (row'[k] = "running") = (row[k] = "running")
                        /\ row[k] \in {"failed", "deleted"} => row'[k] \in {"failed", "deleted"}
                        /\ row[k] # "failed" => row'[k] # "failed"
    BY <1>2 DEF Rebuilt, Collected, Collectable, Rows
  <2> QED
    BY <1>0, <2>1, <2>2, SameWatch
<1>3. CASE UNCHANGED vars
  <2>1. sub' = sub /\ ids' = ids /\ flow' = flow /\ watch' = watch /\ Queued' = Queued /\ row' = row
    BY <1>3 DEF vars, copyVars, flowVars, handle, Queued
  <2> QED
    BY <1>0, <2>1, SameWatch
<1>4. CASE CopySteps
  <2>1. flow' = flow /\ ~CopyOver
    BY Zenon, <1>4 DEF CopySteps, Admission, RecordFull, RecordPartial, Gather, Drain, Issue, Answer, flowVars,
       CopyOver, RInv, Calls
  <2>2. flow' \notin Tracking
    BY Zenon, <2>1 DEF SInv, StageInv, Tracking
  <2> QED
    BY <2>2, NotWatching
<1>5. CASE flow # "gone" /\ (CopyReturns \/ DrainCopy \/ Interrupt("timeout") \/ Interrupt("stop") \/ StopInDrain)
  <2>1. /\ sub' = sub /\ row' = row /\ ids' = ids /\ watch' = watch /\ flow \in {"copy", "drain"}
        /\ flow' \in {"drain", "ended", "abandon"} \/ (flow' = "poll" /\ flow = "copy" /\ copy = "handle")
    BY <1>5, MoveEffect
  <2>2. CASE flow' = "poll"
    <3>1. ids = Keys /\ ids = Issued(sub) /\ watch = {} /\ \A k \in ids : row[k] = "running"
      BY <2>1, <2>2 DEF SInv, HandleInv, StageInv
    <3>2. Issued(sub') = Keys
      BY <2>1, <3>1
    <3> QED
      BY Zenon, <2>1, <2>2, <3>1, <3>2 DEF WatchInv
  <2>3. CASE flow' # "poll"
    <3>1. flow' \notin Tracking
      BY Zenon, <2>1, <2>3 DEF Tracking
    <3> QED
      BY <3>1, NotWatching
  <2> QED
    BY <2>2, <2>3
<1>6. CASE \/ ConflictRecorded \/ Settled \/ Abandoned \/ StopInAbandon
           \/ Settle("failed") \/ Settle("ready") \/ SettleWatched \/ PollTimeout \/ StopInPoll
  <2>1. /\ sub' = sub /\ row' = row /\ ids' = ids
        /\ \/ flow = "conflict" /\ flow' = "poll" /\ Queued = {} /\ watch' = watch
           \/ flow = "poll" /\ flow' \in {"settle", "abandon poll"}
           \/ flow \in Tracking /\ flow' = "abandon poll"
           \/ flow' = "ended"
    BY Zenon, <1>6, PollEffect, StopEffect
  <2>2. Issued(sub') = Issued(sub)
    BY Zenon, <2>1 DEF Issued
  <2>3. CASE flow' = "ended"
    BY <2>3, NotWatching DEF Tracking
  <2>4. CASE flow' \in {"settle", "abandon poll"}
    <3>1. flow \in Tracking
      BY Zenon, <2>1, <2>4 DEF Tracking
    <3> QED
      BY Zenon, <2>2, <2>4, <3>1 DEF WatchInv
  <2>5. CASE flow = "conflict" /\ flow' = "poll" /\ Queued = {} /\ watch' = watch
    BY <2>1, <2>2, <2>5 DEF WatchInv, Tracking
  <2> QED
    BY Zenon, <2>1, <2>3, <2>4, <2>5
<1> QED
  BY <1>0, <1>1, <1>2, <1>3, <1>4, <1>5, <1>6, Cases, RebuiltWatch, LedgerWatch, ConflictWatch
     DEF Moves, Queries

(* Copy and its children write no row but a running one, and no child that  *)
(* has its number loses it.                                                 *)
LEMMA CopyEffect ==
  ASSUME RInv, SInv, flow # "gone", CopySteps
  PROVE  /\ UNCHANGED <<row, flow, watch, verdict, why>>
         /\ flow \in {"copy", "drain"}
         /\ \A w \in Queued' : w \in Queued \/ w.status = "running"
         /\ \A k \in Keys : sub[k] = "issued" => sub'[k] = "issued"
         /\ \A k \in Keys : sub'[k] = "conflict" => sub[k] = "conflict"
         /\ copy' = "handle" => Issued(sub') = ids'
<1> USE DEF RInv, SInv
<1>1. /\ row' = row /\ flow' = flow /\ watch' = watch /\ verdict' = verdict /\ why' = why
      /\ ~CopyOver
  BY Zenon DEF CopySteps, Admission, RecordFull, RecordPartial, Gather, Drain, Issue, Answer, flowVars,
     CopyOver, Calls
<1>2. flow \in {"copy", "drain"}
  BY Zenon, <1>1 DEF StageInv
<1>3. CASE Admission \/ RecordFull \/ RecordPartial
  <2>1. /\ sub' = sub /\ writes' = writes /\ ids' = ids
        /\ copy' = "handle" => copy \in {"record", "partial"}
    BY Zenon, <1>3 DEF Admission, RecordFull, RecordPartial, handle
  <2>2. Queued' = Queued /\ Issued(sub') = Issued(sub)
    BY <2>1 DEF Queued, Issued
  <2>3. copy' = "handle" => Issued(sub') = ids'
    BY <2>1, <2>2 DEF HandleInv
  <2> QED
    BY <1>1, <1>2, <2>1, <2>2, <2>3
<1>4. CASE \E k \in Keys : Issue(k) \/ Answer(k)
  <2>1. /\ writes' = writes /\ copy' # "handle"
        /\ \A k \in Keys : sub[k] = "issued" => sub'[k] = "issued"
        /\ \A k \in Keys : sub'[k] = "conflict" => sub[k] = "conflict"
    BY Zenon, <1>1, <1>4 DEF Issue, Answer, Types, CopyOver
  <2> QED
    BY <1>1, <1>2, <2>1 DEF Queued
<1>5. CASE Gather \/ Drain
  <2>1. /\ copy' # "handle" /\ Queued = {}
        /\ \A k \in Keys : sub[k] = "issued" => sub'[k] = "issued"
        /\ \A k \in Keys : sub'[k] = "conflict" => sub[k] = "conflict"
    BY Zenon, <1>5, ChildrenAfter DEF Gather, Drain, DrainEnds, EmptyHanded, QuietInv
  <2>2. CASE writes' = writes
    BY Zenon, <1>1, <1>2, <2>1, <2>2 DEF Queued
  <2>3. CASE writes' # writes
    <3>1. \E S \in SUBSET Keys : writes' = Append(writes, Hand(S, "running"))
      BY Zenon, <1>5, <2>3 DEF Gather, Drain, DrainEnds, Record, Hand, Issued
    <3>2. PICK S \in SUBSET Keys : writes' = Append(writes, Hand(S, "running"))
      BY <3>1
    <3>3. Queued' = {Hand(S, "running")}
      BY <2>1, <3>2, Handed DEF Statuses
    <3>4. \A w \in Queued' : w.status = "running"
      BY <3>3 DEF Hand
    <3> QED
      BY Zenon, <1>1, <1>2, <2>1, <3>4
  <2> QED
    BY <2>2, <2>3
<1> QED
  BY Zenon, <1>3, <1>4, <1>5 DEF CopySteps

(* A step that writes no row but deletes some. *)
LEMMA SameMix ==
  ASSUME MixInv, Steady, Types,
         \A w \in Queued' : w \in Queued \/ w.status = "running",
         \A k \in Keys : sub[k] = "issued" => sub'[k] = "issued",
         \A k \in Keys : row'[k] = row[k] \/ row'[k] = "deleted"
  PROVE  MixInv'
<1>1. /\ \A k \in Keys : row'[k] = "running" => row[k] = "running"
      /\ \A k \in Keys : row'[k] \in {"failed", "ready", "abandoned"} => row'[k] = row[k]
      /\ \A w \in Queued' : w.status \in {"failed", "ready", "abandoned"} => w \in Queued
      /\ \A k \in Keys : task[k] = "conflict" => task'[k] = "conflict"
  BY DEF Steady
<1>2. (\E k \in Keys : row'[k] = "failed") => \A k \in Keys : row'[k] = "running" => sub'[k] = "issued"
  BY <1>1 DEF MixInv
<1>3. \A w \in Queued' : w.status = "failed" =>
        \A k \in Keys \ w.keys : row'[k] = "running" => sub'[k] = "issued"
  BY <1>1 DEF MixInv
<1>4. (\E k \in Keys : row'[k] \in {"ready", "abandoned"}) =>
        \A k \in Keys : row'[k] = "running" => task'[k] = "conflict"
  BY <1>1 DEF MixInv
<1>5. \A w \in Queued' : w.status \in {"ready", "abandoned"} =>
        \A k \in Keys \ w.keys : row'[k] = "running" => task'[k] = "conflict"
  BY <1>1 DEF MixInv
<1> QED
  BY Zenon, <1>2, <1>3, <1>4, <1>5 DEF MixInv

(* A step that hands one write over. *)
LEMMA GivesMix ==
  ASSUME MixInv, SInv, Steady, UNCHANGED <<sub, row, ids>>, NEW S \in SUBSET ids, NEW t,
         \A w \in Queued' : w \in Queued \/ (w.keys = S /\ w.status = t),
         S = ids \/ ((t = "abandoned" \/ t = "ready") /\ \A k \in ids \ S : task[k] = "conflict")
  PROVE  MixInv'
<1>1. \A k \in Keys : row[k] = "running" => k \in ids
  BY Zenon DEF SInv, RowInv
<1> QED
  BY <1>1 DEF MixInv, Steady

(* The ledger's thread writes what was handed over. *)
LEMMA LedgerMix ==
  ASSUME RInv, SInv, MixInv, Steady, LedgerWrites
  PROVE  MixInv'
<1>1. sub' = sub /\ Queued' \subseteq Queued
  BY LedgerEffect DEF copyVars
<1>2. PICK e \in Queued :
         /\ e.keys \subseteq Keys /\ e.status \in Statuses
         /\ row' = [k \in Keys |-> IF k \in e.keys THEN e.status ELSE row[k]]
  BY LedgerEffect
<1>3. CASE e.status = "running"
  <2>1. Queued' = {} /\ \A k \in Keys : row[k] = "none"
    <3>1. Len(writes) = 1 /\ \A k \in Keys : row[k] = "none"
      BY Zenon, <1>2, <1>3 DEF SInv, RowInv
    <3>2. Len(writes) <= 1
      BY <3>1
    <3> QED
      BY Zenon, <3>1, <3>2, LedgerEffect
  <2>2. \A k \in Keys : row'[k] \in {"running", "none"}
    BY <1>2, <1>3, <2>1
  <2> QED
    BY Zenon, <2>1, <2>2 DEF MixInv
<1>4. CASE e.status # "running"
  <2>1. \A k \in Keys : row'[k] = "running" => row[k] = "running" /\ k \notin e.keys
    BY <1>2, <1>4
  <2>2. \A k \in Keys : row'[k] = row[k] \/ row'[k] = e.status
    BY <1>2
  <2> QED
    BY <1>1, <1>2, <2>1, <2>2 DEF MixInv, Steady
<1> QED
  BY <1>3, <1>4

(* The rows of the tasks in conflict are about to fail beside running ones. *)
LEMMA ConflictMix ==
  ASSUME RInv, SInv, StoreInv, WatchInv, MixInv, Steady, Conflict(Finds("conflict"))
  PROVE  MixInv'
<1> DEFINE C == Finds("conflict")
<1>1. C \in SUBSET ids /\ \A k \in ids : k \notin C => task[k] # "conflict"
  BY DEF Finds
<1>2. /\ row' = row /\ flow = "poll" /\ watch = {} /\ Gives(C, "failed")
      /\ sub' = [k \in Keys |-> IF k \in C THEN "conflict" ELSE sub[k]]
  BY <1>1, ConflictEffect
<1>3. \A w \in Queued' : w.keys = C /\ w.status = "failed"
  BY <1>2, GivesFacts
<1>4. \A k \in Keys \ C : row[k] = "running" => sub[k] = "issued"
  BY Zenon, <1>1 DEF SInv, RowInv, Issued, StoreInv
<1>5. \A k \in Keys : row[k] # "failed"
  BY Zenon, <1>2 DEF WatchInv
<1> HIDE DEF C
<1> QED
  BY <1>2, <1>3, <1>4, <1>5 DEF MixInv, Steady

(* The steps of the flow that hand at most one write over, of the whole     *)
(* handle or of what is not watched.                                        *)
LEMMA FlowGives ==
  ASSUME RInv, Uncancelled, SInv, StoreInv, WatchInv, flow # "gone", FlowMoves
  PROVE  /\ UNCHANGED <<sub, copy, row, ids>>
         /\ \E S \in SUBSET ids, t \in {"abandoned", "ready", "failed"} :
              /\ \A w \in Queued' : w \in Queued \/ (w.keys = S /\ w.status = t)
              /\ \/ S = ids
                 \/ (t = "abandoned" \/ t = "ready") /\ \A k \in ids \ S : task[k] = "conflict"
              /\ t = "failed" => Settle("failed")
<1>1. watch # {} => \A k \in ids \ (ids \ watch) : task[k] = "conflict"
  <2>1. watch # {} => flow \in {"poll", "conflict"} /\ ids \subseteq Keys
    BY Zenon DEF SInv, StageInv, RInv, Types
  <2> QED
    BY Zenon, <2>1 DEF WatchInv, StoreInv
<1>2. watch = {} => ids \ watch = ids
  OBVIOUS
<1>3. ids \ watch \in SUBSET ids /\ ids \in SUBSET ids
  OBVIOUS
<1>4. CASE CopyReturns \/ DrainCopy \/ Interrupt("timeout") \/ Interrupt("stop") \/ StopInDrain
  <2>1. sub' = sub /\ copy' = copy /\ row' = row /\ ids' = ids /\ (Still \/ Gives(ids, "abandoned"))
    BY <1>4, MoveEffect
  <2>2. \A w \in Queued' : w \in Queued \/ (w.keys = ids /\ w.status = "abandoned")
    BY <2>1, GivesFacts DEF Still
  <2> QED
    BY Zenon, <1>3, <2>1, <2>2
<1>5. CASE \/ ConflictRecorded \/ Settled \/ Abandoned \/ StopInAbandon
           \/ Settle("failed") \/ Settle("ready") \/ SettleWatched \/ PollTimeout
  <2>1. sub' = sub /\ copy' = copy /\ row' = row /\ ids' = ids
    BY Zenon, <1>5, PollEffect
  <2>2. \/ Still
        \/ \E t \in {"failed", "ready"} :
             Gives(ids, t) /\ verdict' = t /\ flow = "poll" /\ flow' = "settle"
        \/ Gives(ids \ watch, "ready")
        \/ Gives(ids \ watch, "abandoned")
    BY Zenon, <1>5, PollEffect
  <2>3. CASE Still
    <3>1. \A w \in Queued' : w \in Queued
      BY <2>3 DEF Still
    <3> QED
      BY <1>3, <2>1, <3>1
  <2>4. CASE \E t \in {"failed", "ready"} :
               Gives(ids, t) /\ verdict' = t /\ flow = "poll" /\ flow' = "settle"
    <3>1. PICK t \in {"failed", "ready"} :
               Gives(ids, t) /\ verdict' = t /\ flow = "poll" /\ flow' = "settle"
      BY <2>4
    <3>2. \A w \in Queued' : w.keys = ids /\ w.status = t
      BY <3>1, GivesFacts
    <3>3. t = "failed" => Settle("failed")
      BY <1>5, <3>1 DEF ConflictRecorded, Settled, Abandoned, StopInAbandon, Settle, SettleWatched,
         PollTimeout, AbandonPolled, Ends
    <3> QED
      BY <1>3, <2>1, <3>1, <3>2, <3>3
  <2>5. ASSUME NEW t \in {"ready", "abandoned"}, Gives(ids \ watch, t)
        PROVE  \A w \in Queued' : w.keys = ids \ watch /\ w.status = t
    BY <2>5, GivesFacts
  <2>6. CASE Gives(ids \ watch, "ready")
    <3>1. \A w \in Queued' : w.keys = ids \ watch /\ w.status = "ready"
      BY <2>5, <2>6
    <3> QED
      BY Zenon, <1>1, <1>2, <1>3, <2>1, <3>1
  <2>7. CASE Gives(ids \ watch, "abandoned")
    <3>1. \A w \in Queued' : w.keys = ids \ watch /\ w.status = "abandoned"
      BY <2>5, <2>7
    <3> QED
      BY Zenon, <1>1, <1>2, <1>3, <2>1, <3>1
  <2> QED
    BY Zenon, <2>2, <2>3, <2>4, <2>6, <2>7
<1>6. CASE StopInPoll
  <2>1. /\ sub' = sub /\ copy' = copy /\ row' = row /\ ids' = ids
        /\ Queued' \subseteq Queued \cup {Hand(ids \ watch, "abandoned")}
    BY Zenon, <1>6, StopEffect
  <2>2. \A w \in Queued' : w \in Queued \/ (w.keys = ids \ watch /\ w.status = "abandoned")
    BY <2>1 DEF Hand
  <2> QED
    BY <1>1, <1>2, <1>3, <2>1, <2>2
<1> QED
  BY <1>4, <1>5, <1>6 DEF FlowMoves, Moves

(* Failed rows lie beside running ones only after a conflict, and ready or  *)
(* abandoned ones beside running ones only when these are about to fail.    *)
LEMMA NextMixInv ==
  /\ RInv /\ Uncancelled /\ SInv /\ StoreInv /\ WatchInv /\ MixInv
  /\ [RecoveryNext]_allVars
  => MixInv'
<1> SUFFICES ASSUME RInv, Uncancelled, SInv, StoreInv, WatchInv, MixInv, [RecoveryNext]_allVars
             PROVE  MixInv'
  OBVIOUS
<1>0. Steady /\ Types
  BY StoreSteady DEF RInv
<1>1. CASE Vanish
  <2>1. Queued' = {} /\ row' = row /\ \A k \in Keys : sub[k] = "issued" => sub'[k] = "issued"
    BY <1>0, <1>1, QueueEmpty, ChildrenAfter DEF Vanish, Queued
  <2> QED
    BY <1>0, <2>1, SameMix
<1>2. CASE Rebuilt \/ Collected \/ UNCHANGED vars
  <2>1. sub' = sub /\ Queued' = Queued
    BY <1>2 DEF Rebuilt, Collected, vars, copyVars, Queued
  <2>2. \A k \in Keys : row'[k] = row[k] \/ row'[k] = "deleted"
    BY <1>2 DEF Rebuilt, Collected, vars
  <2> QED
    BY <1>0, <2>1, <2>2, SameMix
<1>3. CASE CopySteps /\ flow # "gone"
  <2>1. /\ row' = row
        /\ \A w \in Queued' : w \in Queued \/ w.status = "running"
        /\ \A k \in Keys : sub[k] = "issued" => sub'[k] = "issued"
    BY <1>3, CopyEffect
  <2> QED
    BY <1>0, <2>1, SameMix
<1>4. CASE FlowMoves /\ flow # "gone"
  <2>1. sub' = sub /\ row' = row /\ ids' = ids
    BY <1>4, FlowGives
  <2>2. PICK S \in SUBSET ids, t \in {"abandoned", "ready", "failed"} :
              /\ \A w \in Queued' : w \in Queued \/ (w.keys = S /\ w.status = t)
              /\ \/ S = ids
                 \/ (t = "abandoned" \/ t = "ready") /\ \A k \in ids \ S : task[k] = "conflict"
    BY <1>4, FlowGives
  <2> QED
    BY <1>0, <2>1, <2>2, GivesMix
<1> QED
  BY <1>0, <1>1, <1>2, <1>3, <1>4, Cases, LedgerMix, ConflictMix DEF Moves, FlowMoves, Queries

-----------------------------------------------------------------------------
(* Why a row failed *)

(* Every write that waits, or that a step adds, leaves the reason in place. *)
LEMMA SameFailure ==
  ASSUME RInv, RInv', FailureInv, Steady,
         \A w \in Queued' : \/ w \in Queued \/ w.status # "failed"
                            \/ \A k \in w.keys : task[k] = "conflict",
         \A k \in Keys : row'[k] = "failed" => row[k] = "failed" \/ task[k] = "conflict" \/ Excused
  PROVE  FailureInv'
<1>1. CASE Excused
  <2>1. Excused'
    BY <1>1 DEF Steady, Excused
  <2> QED
    BY Zenon, <2>1 DEF FailureInv
<1>2. CASE ~Excused
  <2>1. \A w \in Queued' : w.keys \subseteq Keys
    <3>1. writes' \in Seq(Writes)
      BY DEF RInv, Types
    <3>2. Queued' \subseteq Writes
      BY <3>1, QueueLen DEF Queued
    <3> QED
      BY <3>2 DEF Writes
  <2>2. \A k \in Keys : row'[k] = "failed" => task'[k] = "conflict"
    BY <1>2 DEF FailureInv, Steady
  <2>3. \A w \in Queued' : w.status = "failed" => \A k \in w.keys : task'[k] = "conflict"
    BY <1>2, <2>1 DEF FailureInv, Steady
  <2> QED
    BY <2>2, <2>3 DEF FailureInv
<1> QED
  BY <1>1, <1>2

(* query_task reports a failure for a task that failed, or for a replica    *)
(* that is missing although the tasks of all keys are done.                 *)
LEMMA SettleExcused ==
  ASSUME RInv, StoreInv, WatchInv, flow = "poll", watch = {},
         Finds("failed") # {} \/ (Finds("done") = ids /\ ~Verified)
  PROVE  Excused
<1>1. ids \subseteq Keys
  BY DEF RInv, Types
<1>2. CASE Finds("failed") # {}
  BY <1>1, <1>2 DEF Finds, Excused
<1>3. CASE Finds("done") = ids /\ ~Verified
  <2>1. \A k \in ids : task[k] = "done"
    BY <1>3 DEF Finds
  <2>2. ids = Keys
    BY <2>1 DEF WatchInv
  <2> QED
    BY <1>3, <2>1, <2>2 DEF StoreInv, Verified, Excused
<1> QED
  BY <1>2, <1>3

(* A row fails because of a conflict, a failed task or a lost replica. *)
LEMMA NextFailureInv ==
  /\ RInv /\ RInv' /\ Uncancelled /\ SInv /\ StoreInv /\ WatchInv /\ FailureInv
  /\ [RecoveryNext]_allVars
  => FailureInv'
<1> SUFFICES ASSUME RInv, RInv', Uncancelled, SInv, StoreInv, WatchInv, FailureInv,
                    [RecoveryNext]_allVars
             PROVE  FailureInv'
  OBVIOUS
<1>0. Steady
  BY StoreSteady
<1>1. CASE Vanish \/ Rebuilt \/ Collected \/ UNCHANGED vars
  <2>1. Queued' = {} \/ Queued' = Queued
    BY <1>1, QueueEmpty DEF Vanish, Rebuilt, Collected, vars, Queued
  <2>2. \A k \in Keys : row'[k] = row[k] \/ row'[k] = "deleted"
    BY <1>1 DEF Vanish, Rebuilt, Collected, vars
  <2> QED
    BY <1>0, <2>1, <2>2, SameFailure
<1>2. CASE LedgerWrites
  <2>1. Queued' \subseteq Queued
    BY <1>2, LedgerEffect
  <2>2. PICK e \in Queued : row' = [k \in Keys |-> IF k \in e.keys THEN e.status ELSE row[k]]
    BY <1>2, LedgerEffect
  <2>3. \A k \in Keys : row'[k] = "failed" => row[k] = "failed" \/ task[k] = "conflict" \/ Excused
    BY <2>2 DEF FailureInv
  <2> QED
    BY <1>0, <2>1, <2>3, SameFailure
<1>3. CASE CopySteps /\ flow # "gone"
  <2>1. row' = row /\ \A w \in Queued' : w \in Queued \/ w.status = "running"
    BY <1>3, CopyEffect
  <2>2. "running" # "failed"
    OBVIOUS
  <2> QED
    BY <1>0, <2>1, <2>2, SameFailure
<1>4. CASE FlowMoves /\ flow # "gone" /\ ~Settle("failed")
  <2>1. row' = row
    BY <1>4, FlowGives
  <2>2. PICK S \in SUBSET ids, t \in {"abandoned", "ready", "failed"} :
              /\ \A w \in Queued' : w \in Queued \/ (w.keys = S /\ w.status = t)
              /\ t # "failed"
    BY <1>4, FlowGives
  <2> QED
    BY <1>0, <2>1, <2>2, SameFailure
<1>5. CASE Settle("failed") /\ (Finds("failed") # {} \/ (Finds("done") = ids /\ ~Verified))
  <2>1. Excused
    BY <1>5, SettleExcused DEF Settle
  <2>2. Excused'
    BY <1>0, <2>1 DEF Steady, Excused
  <2> QED
    BY <2>2 DEF FailureInv
<1>6. CASE Conflict(Finds("conflict"))
  <2>1. Finds("conflict") \in SUBSET ids /\ \A k \in Finds("conflict") : task[k] = "conflict"
    BY DEF Finds
  <2>2. row' = row /\ Gives(Finds("conflict"), "failed")
    BY Zenon, <1>6, <2>1, ConflictEffect
  <2>3. \A w \in Queued' : w.keys = Finds("conflict")
    BY <2>2, GivesFacts
  <2> QED
    BY <1>0, <2>1, <2>2, <2>3, SameFailure
<1>7. Moves => FlowMoves /\ ~Settle("failed")
  BY Zenon DEF Moves, FlowMoves, CopyReturns, DrainCopy, ConflictRecorded, Settled, Abandoned, Interrupt,
     PollTimeout, StopInDrain, StopInPoll, StopInAbandon, Settle, AbandonPolled, AbandonThen, Ends
<1>8. Settle("ready") \/ SettleWatched => FlowMoves /\ ~Settle("failed")
  BY Zenon DEF FlowMoves, Settle, SettleWatched
<1> QED
  BY <1>1, <1>2, <1>3, <1>4, <1>5, <1>6, <1>7, <1>8, Cases DEF Queries

-----------------------------------------------------------------------------
(* How a handle ends *)

(* Outside the polling nothing is watched, and inside it the watched keys   *)
(* are those in conflict.                                                   *)
LEMMA Watched ==
  ASSUME RInv, SInv, WatchInv
  PROVE  /\ \A k \in ids : sub[k] = "issued" => k \notin watch
         /\ watch # {} => \A k \in ids : k \notin watch => sub[k] = "issued"
         /\ watch # {} => \A k \in ids : k \in watch => sub[k] = "conflict"
<1>1. watch # {} => flow \in {"poll", "conflict"}
  BY Zenon DEF SInv, StageInv
<1>2. watch # {} => \A k \in ids : sub[k] = IF k \in watch THEN "conflict" ELSE "issued"
  BY Zenon, <1>1 DEF WatchInv
<1> QED
  BY <1>2

(* The tasks that _verify or _verify_watch calls ready have their numbers   *)
(* and no conflict.                                                         *)
LEMMA ReadyKeys ==
  ASSUME RInv, SInv, StoreInv, WatchInv,
         (Finds("done") = ids /\ Settle("ready")) \/ SettleWatched
  PROVE  \A k \in ids \ watch : sub[k] = "issued"
<1>1. CASE Finds("done") = ids
  <2>1. \A k \in ids : k \in Keys /\ task[k] = "done" /\ sub[k] \in {"issued", "conflict"}
    BY Zenon, <1>1 DEF Finds, SInv, RowInv, Issued, RInv, Types
  <2> QED
    BY Zenon, <2>1 DEF StoreInv
<1>2. CASE SettleWatched
  BY <1>2, Watched DEF SettleWatched
<1> QED
  BY <1>1, <1>2

(* A step that adds no write of a final state. *)
LEMMA SameWait ==
  ASSUME WaitInv, RInv, SInv,
         \A w \in Queued' : w \in Queued \/ w.status = "running",
         \A k \in Keys : sub[k] = "issued" => sub'[k] = "issued",
         \A k \in Keys : sub'[k] = "conflict" => sub[k] = "conflict",
         \A k \in Keys : row'[k] = "failed" => row[k] = "failed",
         why = "late stop" => why' = "late stop"
  PROVE  WaitInv'
<1>1. \A w \in Queued : w.keys \subseteq Keys
  BY QueueFacts DEF RInv, Writes
<1>2. \A k \in Keys : Conflicts(k)' => Conflicts(k)
  BY DEF Conflicts
<1> QED
  BY <1>1, <1>2 DEF WaitInv

(* A step of the flow hands over READY or "abandoned" only for tasks that   *)
(* are not in conflict, unless shutdown lands in the write of a final state.*)
LEMMA FlowWait ==
  ASSUME RInv, Uncancelled, SInv, StoreInv, WatchInv, WaitInv, flow # "gone",
         Moves \/ Settle("failed") \/ (Finds("done") = ids /\ Settle("ready")) \/ SettleWatched
  PROVE  WaitInv'
<1>0. ids \subseteq Keys /\ \A w \in Queued : w.keys \subseteq Keys
  BY QueueFacts DEF RInv, Writes, Types
<1>1. CASE CopyReturns \/ DrainCopy \/ Interrupt("timeout") \/ Interrupt("stop") \/ StopInDrain
  <2>1. sub' = sub /\ flow \in {"copy", "drain"} /\ (Still \/ Gives(ids, "abandoned"))
    BY <1>1, MoveEffect
  <2>2. \A k \in Keys : sub'[k] # "conflict" /\ ~Conflicts(k)'
    BY Zenon, <2>1 DEF SInv, StageInv, Conflicts
  <2>3. CASE Still
    BY <1>0, <2>1, <2>2, <2>3 DEF WaitInv, Still
  <2>4. CASE Gives(ids, "abandoned")
    <3>1. \A w \in Queued' : w.keys = ids /\ w.status = "abandoned"
      BY <2>4, GivesFacts
    <3> QED
      BY <1>0, <2>2, <3>1 DEF WaitInv
  <2> QED
    BY <2>1, <2>3, <2>4
<1>2. CASE ConflictRecorded \/ Settled \/ Abandoned \/ StopInAbandon \/ (SettleWatched /\ ids \subseteq watch)
  <2>1. sub' = sub /\ row' = row /\ writes' = writes /\ why' = why
    BY Zenon, <1>2 DEF ConflictRecorded, Settled, Abandoned, StopInAbandon, SettleWatched, Ends, copyVars
  <2>2. Queued' = Queued
    BY <2>1 DEF Queued
  <2> QED
    BY Zenon, <2>1, <2>2, SameWait
<1>3. CASE Settle("failed")
  <2>1. Queued = {} /\ writes' = Append(writes, Hand(ids, "failed"))
    BY <1>3 DEF Settle, Record, Hand, SInv, QuietInv
  <2>2. Queued' = Queued \cup {Hand(ids, "failed")}
    BY <1>0, <2>1, Handed DEF RInv, Statuses
  <2>3. \A w \in Queued' : w.status = "failed"
    BY <2>1, <2>2 DEF Hand
  <2> QED
    BY <2>3 DEF WaitInv
<1>4. CASE (Finds("done") = ids /\ Settle("ready")) \/ (SettleWatched /\ ~(ids \subseteq watch))
  <2>1. /\ sub' = sub /\ ids \ watch \in SUBSET Keys /\ Queued = {}
        /\ writes' = Append(writes, Hand(ids \ watch, "ready"))
    <3>1. Settle("ready") => ids = ids \ watch
      BY DEF Settle
    <3> QED
      BY Zenon, <1>0, <1>4, <3>1 DEF Settle, SettleWatched, Record, Hand, copyVars, SInv, QuietInv
  <2>2. Gives(ids \ watch, "ready")
    BY Zenon, <2>1, GivesOne DEF Statuses
  <2>3. \A w \in Queued' : w.keys = ids \ watch /\ w.status = "ready"
    BY <2>2, GivesFacts
  <2>4. \A k \in ids \ watch : sub'[k] = "issued"
    BY <1>4, <2>1, ReadyKeys
  <2> QED
    BY Zenon, <2>3, <2>4 DEF WaitInv
<1>5. CASE PollTimeout
  <2>1. row' = row /\ flow = "poll" /\ Queued = {}
    BY <1>5 DEF PollTimeout, SInv, QuietInv
  <2>2. \A k \in ids \ watch : row'[k] = "running"
    BY <2>1 DEF WatchInv
  <2>3. writes' = writes \/ writes' = Append(writes, Hand(ids \ watch, "abandoned"))
    BY Zenon, <1>5 DEF PollTimeout, AbandonPolled, Hand
  <2>4. CASE writes' = writes
    BY <2>1, <2>4 DEF WaitInv, Queued
  <2>5. CASE writes' = Append(writes, Hand(ids \ watch, "abandoned"))
    <3>1. Gives(ids \ watch, "abandoned")
      BY <1>0, <2>1, <2>5, GivesOne DEF Statuses
    <3>2. \A w \in Queued' : w.keys = ids \ watch /\ w.status = "abandoned"
      BY <3>1, GivesFacts
    <3>3. \A k \in ids \ watch : ~Conflicts(k)'
      BY <2>2, <3>2 DEF Conflicts
    <3> QED
      BY <3>2, <3>3 DEF WaitInv
  <2> QED
    BY <2>3, <2>4, <2>5
<1>6. CASE StopInPoll
  <2>1. /\ sub' = sub /\ row' = row /\ flow \in Tracking
        /\ Queued' \subseteq Queued \cup {Hand(ids \ watch, "abandoned")}
    BY Zenon, <1>6, StopEffect
  <2>2. \A w \in Queued' : w \in Queued \/ (w.status = "abandoned" /\ w.keys = ids \ watch)
    BY <2>1 DEF Hand
  <2>3. CASE flow \in {"settle", "abandon poll"}
    <3>1. why' = "late stop"
      BY <1>6, <2>3 DEF StopInPoll
    <3> QED
      BY <2>1, <2>2, <3>1 DEF WaitInv
  <2>4. CASE flow \in {"poll", "conflict"}
    <3>1. \A w \in Queued : w.status = "failed" /\ w.keys = watch
      BY <2>4 DEF WatchInv, SInv, QuietInv
    <3>2. \A k \in ids \ watch : row'[k] = "running"
      BY <2>1, <2>4 DEF WatchInv
    <3>3. \A k \in ids \ watch : ~Conflicts(k)'
      BY <2>2, <3>1, <3>2 DEF Conflicts
    <3>4. \A w \in Queued' : w.status = "failed" \/ (w.status = "abandoned" /\ w.keys = ids \ watch)
      BY <2>2, <3>1
    <3> QED
      BY <3>3, <3>4 DEF WaitInv
  <2> QED
    BY <2>1, <2>3, <2>4 DEF Tracking
<1> QED
  BY <1>1, <1>2, <1>3, <1>4, <1>5, <1>6 DEF Moves

(* READY and "abandoned" wait only for rows that may be written so. *)
LEMMA NextWaitInv ==
  /\ RInv /\ Uncancelled /\ SInv /\ StoreInv /\ WatchInv /\ WaitInv
  /\ [RecoveryNext]_allVars
  => WaitInv'
<1> SUFFICES ASSUME RInv, Uncancelled, SInv, StoreInv, WatchInv, WaitInv, [RecoveryNext]_allVars
             PROVE  WaitInv'
  OBVIOUS
<1>1. CASE Vanish
  <2>1. Queued' = {}
    BY <1>1, QueueEmpty DEF Vanish, Queued
  <2> QED
    BY <2>1 DEF WaitInv
<1>2. CASE Rebuilt
  <2>1. Queued' = {}
    BY Zenon, <1>2 DEF Rebuilt, Queued, SInv, QuietInv, Starting
  <2> QED
    BY <2>1 DEF WaitInv
<1>3. CASE Collected \/ UNCHANGED vars
  <2>1. sub' = sub /\ Queued' = Queued /\ why' = why
    BY <1>3 DEF Collected, vars, copyVars, flowVars, Queued
  <2>2. \A k \in Keys : row'[k] = "failed" => row[k] = "failed"
    BY <1>3 DEF Collected, vars
  <2> QED
    BY Zenon, <2>1, <2>2, SameWait
<1>4. CASE LedgerWrites
  <2>1. sub' = sub /\ why' = why /\ Queued' \subseteq Queued
    BY Zenon, <1>4, LedgerEffect DEF copyVars, flowVars
  <2>2. PICK e \in Queued : row' = [k \in Keys |-> IF k \in e.keys THEN e.status ELSE row[k]]
    BY Zenon, <1>4, LedgerEffect
  <2>3. \A k \in Keys : Conflicts(k)' => Conflicts(k)
    BY <2>1, <2>2 DEF Conflicts
  <2>4. \A w \in Queued : w.keys \subseteq Keys
    BY QueueFacts DEF RInv, Writes
  <2> QED
    BY <2>1, <2>3, <2>4 DEF WaitInv
<1>5. CASE CopySteps /\ flow # "gone"
  <2>1. /\ row' = row /\ why' = why
        /\ \A w \in Queued' : w \in Queued \/ w.status = "running"
        /\ \A k \in Keys : sub[k] = "issued" => sub'[k] = "issued"
        /\ \A k \in Keys : sub'[k] = "conflict" => sub[k] = "conflict"
    BY <1>5, CopyEffect
  <2> QED
    BY Zenon, <2>1, SameWait
<1>6. CASE Conflict(Finds("conflict"))
  <2>1. Finds("conflict") \in SUBSET ids
    BY DEF Finds
  <2>2. Gives(Finds("conflict"), "failed")
    BY <1>6, <2>1, ConflictEffect
  <2>3. \A w \in Queued' : w.status = "failed"
    BY <2>2, GivesFacts
  <2> QED
    BY <2>3 DEF WaitInv
<1> QED
  BY <1>1, <1>2, <1>3, <1>4, <1>5, <1>6, Cases, FlowWait DEF Queries

(* A write of READY is done. *)
LEMMA LedgerEnd ==
  ASSUME RInv, SInv, WaitInv, EndInv, LedgerWrites, flow \in {"settle", "ended"}, verdict = "ready"
  PROVE  EndInv'
<1>1. sub' = sub /\ flow' = flow /\ verdict' = verdict /\ ids' = ids /\ Queued' \subseteq Queued
  BY LedgerEffect DEF copyVars, flowVars, handle
<1>2. PICK e \in Queued :
         /\ \A w \in Queued : w = e \/ w \in Queued'
         /\ row' = [k \in Keys |-> IF k \in e.keys THEN e.status ELSE row[k]]
  BY LedgerEffect
<1>3. /\ ids \subseteq Keys /\ e.status = "ready" /\ \A k \in e.keys : sub[k] = "issued"
  BY <1>2 DEF EndInv, WaitInv, RInv, Types
<1>4. Issued(sub') = Keys /\ \A w \in Queued' : w.status = "ready"
  BY <1>1 DEF EndInv, Issued
<1>5. ASSUME NEW k \in ids, sub[k] = "issued"
      PROVE  row'[k] \in {"ready", "deleted"} \/ \E w \in Queued' : k \in w.keys
  <2>1. row[k] \in {"ready", "deleted"} \/ \E w \in Queued : k \in w.keys
    BY <1>5 DEF EndInv
  <2>2. k \in e.keys => row'[k] = "ready"
    BY <1>2, <1>3
  <2>3. k \notin e.keys => row'[k] = row[k]
    BY <1>2, <1>3
  <2> QED
    BY <1>2, <2>1, <2>2, <2>3
<1>6. ASSUME NEW k \in ids, sub[k] # "issued"
      PROVE  row'[k] \in {"failed", "deleted"}
  <2>1. row'[k] = row[k]
    BY <1>2, <1>3, <1>6
  <2> QED
    BY <1>6, <2>1 DEF EndInv
<1> QED
  BY <1>1, <1>4, <1>5, <1>6 DEF EndInv

(* The polling ends with READY. *)
LEMMA PollEnd ==
  ASSUME RInv, SInv, StoreInv, WatchInv,
         (Finds("done") = ids /\ Settle("ready")) \/ SettleWatched
  PROVE  EndInv'
<1>1. flow = "poll" /\ sub' = sub /\ row' = row /\ ids' = ids
  BY DEF Settle, SettleWatched, copyVars, handle
<1>2. /\ Queued = {} /\ ids \subseteq Keys /\ Issued(sub) = Keys
      /\ \A k \in ids \ watch : sub[k] = "issued"
      /\ \A k \in ids : k \in watch => sub[k] = "conflict" /\ row[k] \in {"failed", "deleted"}
  BY Zenon, <1>1, ReadyKeys, Watched DEF SInv, QuietInv, RInv, Types, WatchInv, Tracking
<1>3. Issued(sub') = Keys
  BY <1>1, <1>2 DEF Issued
<1>4. CASE ids \subseteq watch /\ writes' = writes
  <2>1. Queued' = {}
    BY Zenon, <1>2, <1>4 DEF Queued
  <2> QED
    BY Zenon, <1>1, <1>2, <1>3, <1>4, <2>1 DEF EndInv
<1>5. CASE writes' = Append(writes, Hand(ids \ watch, "ready"))
  <2>1. ids \ watch \in SUBSET Keys
    BY <1>2
  <2>2. Gives(ids \ watch, "ready")
    BY Zenon, <1>2, <1>5, <2>1, GivesOne DEF Statuses
  <2>3. Queued' # {} /\ \A w \in Queued' : w.keys = ids \ watch /\ w.status = "ready"
    BY <2>2, GivesFacts
  <2> QED
    BY <1>1, <1>2, <1>3, <2>3 DEF EndInv
<1>6. Settle("ready") => ids = ids \ watch
  BY DEF Settle
<1> QED
  BY Zenon, <1>4, <1>5, <1>6 DEF Settle, SettleWatched, Record, Hand

(* READY ends a flow whose keys all have a task, with the rows to match. *)
LEMMA NextEndInv ==
  /\ RInv /\ Uncancelled /\ SInv /\ StoreInv /\ WatchInv /\ WaitInv /\ EndInv
  /\ [RecoveryNext]_allVars
  => EndInv'
<1> SUFFICES ASSUME RInv, Uncancelled, SInv, StoreInv, WatchInv, WaitInv, EndInv,
                    [RecoveryNext]_allVars
             PROVE  EndInv'
  OBVIOUS
<1>0. Types /\ ids \subseteq Keys
  BY DEF RInv, Types
<1>1. CASE Vanish
  <2>1. CASE flow' = "gone"
    BY <2>1 DEF EndInv
  <2>2. CASE flow' # "gone"
    <3>1. /\ flow' = flow /\ verdict' = verdict /\ ids' = ids /\ row' = row /\ writes' = writes
          /\ sub' = ChildrenCancelled
      BY <1>1, <2>2 DEF Vanish, Over, Recorded
    <3>2. Queued' = Queued /\ Issued(sub') = Issued(sub)
      BY <1>0, <3>1, CancelledChildren DEF Queued
    <3>3. \A k \in ids : (sub'[k] = "issued") = (sub[k] = "issued")
      BY <1>0, <3>1, ChildrenAfter
    <3> QED
      BY Zenon, <3>1, <3>2, <3>3 DEF EndInv
  <2> QED
    BY <2>1, <2>2
<1>2. CASE Rebuilt /\ Restorable
  BY <1>2 DEF Rebuilt, EndInv
<1>3. CASE (Rebuilt /\ ~Restorable) \/ Collected \/ UNCHANGED vars
  <2>1. sub' = sub /\ ids' = ids /\ flow' = flow /\ verdict' = verdict /\ Queued' = Queued
    BY <1>3 DEF Rebuilt, Collected, vars, Queued, copyVars, flowVars, handle
  <2>2. \A k \in Keys : row'[k] = row[k] \/ row'[k] = "deleted"
    BY <1>3 DEF Rebuilt, Collected, vars
  <2>3. Issued(sub') = Issued(sub)
    BY <2>1 DEF Issued
  <2> QED
    BY <1>0, <2>1, <2>2, <2>3 DEF EndInv
<1>4. CASE LedgerWrites
  <2>1. CASE flow \in {"settle", "ended"} /\ verdict = "ready"
    BY <1>4, <2>1, LedgerEnd
  <2>2. CASE ~(flow \in {"settle", "ended"} /\ verdict = "ready")
    BY <1>4, <2>2 DEF LedgerWrites, flowVars, EndInv
  <2> QED
    BY <2>1, <2>2
<1>5. CASE CopySteps /\ flow # "gone"
  <2>1. flow' \in {"copy", "drain"}
    BY <1>5, CopyEffect
  <2> QED
    BY <2>1 DEF EndInv
<1>6. CASE flow # "gone" /\ (CopyReturns \/ DrainCopy \/ Interrupt("timeout") \/ Interrupt("stop") \/ StopInDrain)
  <2>1. flow' \in {"drain", "poll", "abandon"} \/ (flow' = "ended" /\ verdict' # "ready")
    BY <1>6, MoveEffect
  <2> QED
    BY <2>1 DEF EndInv
<1>7. CASE \/ ConflictRecorded \/ PollTimeout \/ StopInPoll \/ StopInAbandon \/ Settle("failed")
           \/ Conflict(Finds("conflict"))
  BY Zenon, <1>7 DEF ConflictRecorded, PollTimeout, StopInPoll, StopInAbandon, Settle, Conflict,
     AbandonPolled, Ends, EndInv
<1>8. CASE Settled \/ Abandoned
  <2>1. /\ sub' = sub /\ ids' = ids /\ row' = row /\ verdict' = verdict /\ writes' = writes
        /\ flow = "settle" \/ verdict # "ready"
    BY Zenon, <1>8 DEF Settled, Abandoned, copyVars, SInv, StageInv
  <2>2. Queued' = Queued /\ Issued(sub') = Issued(sub)
    BY <2>1 DEF Queued, Issued
  <2> QED
    BY Zenon, <2>1, <2>2 DEF EndInv
<1> QED
  BY <1>1, <1>2, <1>3, <1>4, <1>5, <1>6, <1>7, <1>8, Cases, PollEnd DEF Queries, Moves

(* A step that leaves the handle alone, or deletes final rows. *)
LEMMA SameRest ==
  ASSUME RestInv, RInv, UNCHANGED <<copy, ids>>,
         flow' # "gone" => flow # "gone",
         flow' \in {"settle", "abandon", "abandon poll", "ended"} =>
           flow \in {"settle", "abandon", "abandon poll", "ended"} /\ Queued' = Queued,
         Issued(sub') = Issued(sub),
         \A k \in Keys : sub'[k] = "issued" => sub[k] = "issued",
         \A k \in Keys : row'[k] = row[k] \/ row'[k] = "deleted"
  PROVE  RestInv'
<1>1. ids \subseteq Keys /\ Issued(sub) \subseteq Keys
  BY Zenon DEF RInv, Types, Issued
<1> QED
  BY Zenon, <1>1 DEF RestInv, Final

(* The flow leaves a returned handle by handing over the write that settles *)
(* or abandons it.                                                          *)
LEMMA FlowRest ==
  ASSUME RInv, Uncancelled, SInv, StoreInv, WatchInv, RestInv, flow # "gone", FlowMoves
  PROVE  RestInv'
<1>0. sub' = sub /\ copy' = copy /\ row' = row /\ ids' = ids /\ ids \subseteq Keys
  BY FlowGives DEF RInv, Types
<1>1. Issued(sub') = Issued(sub)
  BY <1>0 DEF Issued
<1>2. ASSUME \/ flow' \notin {"settle", "abandon", "abandon poll", "ended"}
             \/ copy # "handle"
             \/ \A k \in ids : sub[k] = "issued" => \E w \in Queued' : k \in w.keys
             \/ \A k \in ids : sub[k] # "issued"
      PROVE  RestInv'
  BY Zenon, <1>0, <1>1, <1>2 DEF RestInv
<1>3. ASSUME NEW t, Gives(ids, t) \/ Gives(ids \ watch, t)
      PROVE  \A k \in ids : sub[k] = "issued" => \E w \in Queued' : k \in w.keys
  <2>1. Queued' # {} /\ \A w \in Queued' : w.keys = ids \/ w.keys = ids \ watch
    BY <1>3, GivesFacts
  <2> QED
    BY <2>1, Watched
<1>4. CASE CopyReturns \/ DrainCopy \/ Interrupt("timeout") \/ Interrupt("stop") \/ StopInDrain
  <2>1. \/ flow' \in {"drain", "poll"} \/ (flow' = "ended" /\ copy # "handle")
        \/ Gives(ids, "abandoned")
    BY <1>4, MoveEffect
  <2> QED
    BY Zenon, <1>2, <1>3, <2>1
<1>5. CASE \/ ConflictRecorded \/ Settled \/ Abandoned \/ StopInAbandon
           \/ Settle("failed") \/ Settle("ready") \/ SettleWatched \/ PollTimeout
  <2>1. \/ flow' = "poll"
        \/ Still /\ flow \in {"settle", "abandon", "abandon poll"}
        \/ \E t \in {"failed", "ready", "abandoned"} : Gives(ids, t) \/ Gives(ids \ watch, t)
        \/ ids \subseteq watch
    BY Zenon, <1>5, PollEffect
  <2>2. CASE Still /\ flow \in {"settle", "abandon", "abandon poll"}
    <3>1. Queued' = Queued
      BY Zenon, <2>2 DEF Still
    <3> QED
      BY Zenon, <1>0, <1>1, <2>2, <3>1 DEF RestInv
  <2>3. CASE ids \subseteq watch
    BY Zenon, <1>2, <2>3, Watched
  <2> QED
    BY Zenon, <1>2, <1>3, <2>1, <2>2, <2>3
<1>6. CASE StopInPoll
  <2>1. ids \subseteq watch \/ Hand(ids \ watch, "abandoned") \in Queued'
    BY Zenon, <1>6, StopEffect
  <2>2. CASE ids \subseteq watch
    BY Zenon, <1>2, <2>2, Watched
  <2>3. CASE Hand(ids \ watch, "abandoned") \in Queued'
    <3>1. \E w \in Queued' : w.keys = ids \ watch
      BY <2>3 DEF Hand
    <3>2. \A k \in ids : sub[k] = "issued" => \E w \in Queued' : k \in w.keys
      BY <3>1, Watched
    <3> QED
      BY Zenon, <1>2, <3>2
  <2> QED
    BY <2>1, <2>2, <2>3
<1> QED
  BY <1>4, <1>5, <1>6 DEF FlowMoves, Moves

(* A write for the handle makes rows final. *)
LEMMA LedgerRest ==
  ASSUME RInv, SInv, RestInv, LedgerWrites
  PROVE  RestInv'
<1>1. sub' = sub /\ copy' = copy /\ flow' = flow /\ ids' = ids
  BY LedgerEffect DEF copyVars, flowVars, handle
<1>2. PICK e \in Queued :
         /\ e.status \in Statuses
         /\ \A w \in Queued : w = e \/ w \in Queued'
         /\ row' = [k \in Keys |-> IF k \in e.keys THEN e.status ELSE row[k]]
  BY LedgerEffect
<1>3. /\ ids \subseteq Keys /\ e.keys \subseteq ids /\ Issued(sub) \subseteq Keys
      /\ copy = "handle" => e.status \in Final
  BY Zenon, <1>2 DEF SInv, RowInv, RInv, Types, Statuses, Final, Issued
<1>4. Issued(sub') = Issued(sub)
  BY <1>1 DEF Issued
<1>5. \A k \in Keys : IF k \in e.keys THEN row'[k] = e.status ELSE row'[k] = row[k]
  BY <1>2
<1>6. copy = "handle" /\ flow # "gone" => \A k \in Issued(sub) \ ids : row'[k] \in Final
  BY Zenon, <1>3, <1>5 DEF RestInv
<1>7. copy = "handle" /\ flow \in {"settle", "abandon", "abandon poll", "ended"} =>
        \A k \in ids : sub[k] = "issued" => row'[k] \in Final \/ \E w \in Queued' : k \in w.keys
  BY Zenon, <1>2, <1>3, <1>5 DEF RestInv
<1> QED
  BY Zenon, <1>1, <1>4, <1>6, <1>7 DEF RestInv

(* The tasks of a returned handle are final, or the flow has them in hand. *)
LEMMA NextRestInv ==
  /\ RInv /\ Uncancelled /\ SInv /\ StoreInv /\ WatchInv /\ RestInv
  /\ [RecoveryNext]_allVars
  => RestInv'
<1> SUFFICES ASSUME RInv, Uncancelled, SInv, StoreInv, WatchInv, RestInv, [RecoveryNext]_allVars
             PROVE  RestInv'
  OBVIOUS
<1>0. Types
  BY DEF RInv
<1>1. CASE Vanish
  <2>1. /\ copy' = copy /\ ids' = ids /\ row' = row /\ sub' = ChildrenCancelled
        /\ flow' = "gone" \/ (flow' = flow /\ writes' = writes)
        /\ flow' # "gone" => flow # "gone"
    BY <1>1 DEF Vanish, Over, Recorded
  <2>2. Issued(sub') = Issued(sub) /\ \A k \in Keys : sub'[k] = "issued" => sub[k] = "issued"
    BY <1>0, <2>1, CancelledChildren, ChildrenAfter
  <2>3. flow' # "gone" => flow' = flow /\ Queued' = Queued
    BY <2>1 DEF Queued
  <2> QED
    BY Zenon, <2>1, <2>2, <2>3, SameRest
<1>2. CASE Rebuilt /\ Restorable
  <2>1. row' = row /\ sub' = sub /\ ids' = Rows("running") /\ flow' = "poll"
    BY <1>2 DEF Rebuilt
  <2>2. \A k \in Keys : row[k] \in Statuses
    BY <1>0, <1>2 DEF Types, Restorable, Rows
  <2>3. \A k \in Keys : k \notin ids' => row'[k] \in Final
    BY <2>1, <2>2 DEF Rows, Final, Statuses
  <2> QED
    BY Zenon, <2>1, <2>3 DEF RestInv, Issued
<1>3. CASE (Rebuilt /\ ~Restorable) \/ Collected \/ UNCHANGED vars
  <2>1. sub' = sub /\ copy' = copy /\ ids' = ids /\ flow' = flow /\ Queued' = Queued
    BY <1>3 DEF Rebuilt, Collected, vars, Queued, copyVars, flowVars, handle
  <2>2. \A k \in Keys : row'[k] = row[k] \/ row'[k] = "deleted"
    BY <1>3 DEF Rebuilt, Collected, vars
  <2>3. Issued(sub') = Issued(sub)
    BY <2>1 DEF Issued
  <2> QED
    BY Zenon, <2>1, <2>2, <2>3, SameRest
<1>4. CASE CopySteps /\ flow # "gone"
  <2>1. flow' \in {"copy", "drain"} /\ (copy' = "handle" => Issued(sub') = ids')
    BY <1>4, CopyEffect
  <2> QED
    BY Zenon, <2>1 DEF RestInv
<1>5. CASE Conflict(Finds("conflict"))
  <2>1. Finds("conflict") \in SUBSET ids
    BY DEF Finds
  <2>2. /\ copy' = copy /\ row' = row /\ ids' = ids /\ flow = "poll" /\ flow' = "conflict"
        /\ sub' = [k \in Keys |-> IF k \in Finds("conflict") THEN "conflict" ELSE sub[k]]
    BY <1>5, <2>1, ConflictEffect
  <2>3. Issued(sub') = Issued(sub) /\ \A k \in Keys : sub'[k] = "issued" => sub[k] = "issued"
    BY Zenon, <2>1, <2>2 DEF Issued, SInv, RowInv
  <2> QED
    BY <2>2, <2>3, SameRest
<1> QED
  BY <1>1, <1>2, <1>3, <1>4, <1>5, Cases, LedgerRest, FlowRest DEF Queries, Moves, FlowMoves

-----------------------------------------------------------------------------
(* The theorems *)

(* What every reachable state satisfies. *)
VInv ==
  /\ RInv /\ Uncancelled /\ StoreInv /\ SInv
  /\ WatchInv /\ MixInv /\ FailureInv /\ WaitInv /\ EndInv /\ RestInv

(* Nothing is submitted, recorded or queued. *)
LEMMA InitVInv == RecoveryInit /\ RInv /\ Uncancelled => VInv
<1> SUFFICES ASSUME RecoveryInit, RInv, Uncancelled PROVE VInv
  OBVIOUS
<1>1. /\ sub = [k \in Keys |-> "queued"] /\ row = [k \in Keys |-> "none"]
      /\ task = [k \in Keys |-> "none"] /\ ids = {} /\ watch = {} /\ rpc = {}
      /\ copy = "admission" /\ flow = "copy" /\ writes = <<>>
  BY DEF RecoveryInit, Init
<1>2. Queued = {} /\ Len(writes) = 0
  BY <1>1, QueueEmpty DEF Queued
<1>3. StoreInv
  BY <1>1 DEF StoreInv
<1>4. SInv
  <2>1. StageInv /\ HandleInv
    BY <1>1 DEF StageInv, HandleInv
  <2>2. QuietInv
    BY <1>1, <1>2 DEF QuietInv
  <2>3. RowInv
    BY <1>1, <1>2 DEF RowInv
  <2> QED
    BY <2>1, <2>2, <2>3 DEF SInv
<1>5. WatchInv /\ MixInv /\ FailureInv
  BY <1>1, <1>2 DEF WatchInv, MixInv, FailureInv, Tracking
<1>6. WaitInv /\ EndInv /\ RestInv
  BY Zenon, <1>1, <1>2 DEF WaitInv, EndInv, RestInv
<1> QED
  BY <1>3, <1>4, <1>5, <1>6 DEF VInv

(* Every reachable state satisfies it. *)
LEMMA AlwaysVInv == RecoverySpec => []VInv
<1>1. /\ VInv /\ RInv' /\ Uncancelled' /\ [RecoveryNext]_allVars => VInv'
  BY NextStoreInv, NextSInv, NextWatchInv, NextMixInv, NextFailureInv, NextWaitInv, NextEndInv,
     NextRestInv DEF VInv
<1> QED
  BY <1>1, InitVInv, AlwaysRInv, PTL DEF RecoverySpec

(* What the ledger and the flow say of a prefix is true through crashes,    *)
(* restarts and shutdowns: a row failed for a conflict, for a task that     *)
(* failed or for a replica that was lost; READY stands in a row only when   *)
(* every key got its replica; and a flow reports READY only for a prefix    *)
(* all of whose keys were submitted, with the rows to match (query_task,    *)
(* _verify_missing, _verify_watch, rebuild).                                *)
THEOREM VerdictsHold == RecoverySpec => []VerdictsAreTrue
<1>1. VInv => NoFalseFailure
  BY DEF VInv, FailureInv, Excused, NoFalseFailure
<1>2. VInv => ReadyIsWhole
  <2> SUFFICES ASSUME VInv, Over, verdict = "ready" PROVE ReadyIsWhole
    BY DEF ReadyIsWhole
  <2>1. flow = "ended" /\ Queued = {}
    BY QueueEmpty DEF Over, Recorded, Queued
  <2>2. /\ Issued(sub) = Keys
        /\ \A k \in ids : IF sub[k] = "issued" THEN row[k] \in {"ready", "deleted"}
                                               ELSE row[k] \in {"failed", "deleted"}
    BY <2>1 DEF VInv, EndInv
  <2> QED
    BY <2>2 DEF ReadyIsWhole, Issued
<1> QED
  BY <1>1, <1>2, AlwaysVInv, ReadyIsTrue, PTL DEF VerdictsAreTrue

(* When a flow is over, every task of the handle that copy returned to it,  *)
(* but those in conflict, has a final row: whatever interrupted the flow    *)
(* and whichever process polled it, a restart does not track it again       *)
(* (run_after_exists, abandon, rebuild).                                    *)
THEOREM HandlesAreSettled == RecoverySpec => []HandleIsSettled
<1>1. VInv => HandleIsSettled
  <2> SUFFICES ASSUME VInv, Over, copy = "handle", NEW k \in Keys, sub[k] = "issued"
               PROVE  row[k] \in Final
    BY DEF HandleIsSettled, Final
  <2>1. flow = "ended" /\ Queued = {} /\ k \in Issued(sub)
    BY QueueEmpty DEF Over, Recorded, Queued, Issued
  <2> QED
    BY <2>1 DEF VInv, RestInv
<1> QED
  BY <1>1, AlwaysVInv, PTL

(* The row of a task that failed for a conflict is never rewritten, for any *)
(* keys, faults and restarts, but by a shutdown that lands in the wait for  *)
(* the write of a final state, when _watch has been emptied (abandon,       *)
(* _verify_watch, rebuild).                                                 *)
THEOREM ConflictRowsStay == RecoverySpec => ConflictStaysFailed
<1>1. VInv /\ [RecoveryNext]_allVars =>
        [\A k \in Keys : row[k] = "failed" /\ sub[k] = "conflict" =>
           \/ row'[k] \in {"failed", "deleted"}
           \/ row'[k] = "abandoned" /\ why = "late stop"]_allVars
  <2> SUFFICES ASSUME VInv, [RecoveryNext]_allVars,
                      NEW k \in Keys, row[k] = "failed", sub[k] = "conflict"
               PROVE  row'[k] \in {"failed", "deleted"} \/ (row'[k] = "abandoned" /\ why = "late stop")
    BY Zenon
  <2> USE DEF VInv
  <2>1. CASE Vanish \/ Rebuilt \/ Collected \/ UNCHANGED vars
    BY <2>1 DEF Vanish, Rebuilt, Collected, vars
  <2>2. CASE LedgerWrites
    <3>1. PICK e \in Queued :
             /\ e.status \in Statuses
             /\ row' = [j \in Keys |-> IF j \in e.keys THEN e.status ELSE row[j]]
      BY <2>2, LedgerEffect
    <3>2. CASE k \notin e.keys
      BY <3>1, <3>2
    <3>3. CASE k \in e.keys
      <4>1. row'[k] = e.status
        BY <3>1, <3>3
      <4>2. e.status # "running"
        BY Zenon, <3>1 DEF SInv, RowInv
      <4>3. e.status # "ready" /\ (e.status = "abandoned" => why = "late stop")
        BY <3>1, <3>3 DEF WaitInv, Conflicts
      <4> QED
        BY <3>1, <4>1, <4>2, <4>3 DEF Statuses
    <3> QED
      BY Zenon, <3>2, <3>3
  <2>3. CASE (CopySteps \/ FlowMoves \/ Conflict(Finds("conflict"))) /\ flow # "gone"
    <3>1. Finds("conflict") \in SUBSET ids
      BY DEF Finds
    <3>2. row' = row
      BY Zenon, <2>3, <3>1, CopyEffect, FlowGives, ConflictEffect
    <3> QED
      BY <3>2
  <2> QED
    BY Zenon, <2>1, <2>2, <2>3, Cases DEF Moves, Queries, FlowMoves
<1> QED
  BY <1>1, AlwaysVInv, PTL DEF RecoverySpec, ConflictStaysFailed
=============================================================================
