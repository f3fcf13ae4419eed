--------------------------- MODULE RecoveryProofs ---------------------------
(***************************************************************************)
(* No task number is lost and no READY is false, through crashes, restarts *)
(* and shutdowns, for any keys and any number of faults.                   *)
(***************************************************************************)
EXTENDS Recovery, TLAPS

Writes == [keys : SUBSET Keys, status : Statuses]
Tracking == {"poll", "conflict", "settle", "abandon poll"}
Starting == {"down", "connect", "check", "rebuild"}

Types ==
  /\ sub \in [Keys -> {"queued", "flying", "issued", "failed", "lost", "dropped", "conflict"}]
  /\ row \in [Keys -> Statuses \cup {"none", "deleted"}]
  /\ writes \in Seq(Writes)
  /\ ids \subseteq Keys

(* A write of the row of k waits for the ledger's thread. *)
Pending(k) == \E i \in 1 .. Len(writes) : k \in writes[i].keys

(***************************************************************************)
(* Once the gathers of copy are over, what it has a number for is in the   *)
(* ledger or on its way there, unless the process died first; the rows of  *)
(* a handle that was returned are there already, because a cancelled poll  *)
(* drops the write it waits for.  Nothing is called for before copy has    *)
(* its admission, or after its gathers.                                    *)
(***************************************************************************)
Traced ==
  /\ flow # "gone" /\ copy \notin {"gather", "drain"} =>
       \A k \in Issued(sub) : row[k] # "none" \/ Pending(k)
  /\ flow # "gone" /\ copy = "handle" =>
       \A k \in ids \cup Issued(sub) : row[k] # "none"
  /\ copy \in {"record", "partial"} => ids \subseteq Issued(sub)
  /\ flow \in Tracking => copy = "handle"

Calls ==
  /\ copy = "admission" => Issued(sub) = {}
  /\ copy \notin {"gather", "drain"} \/ phase \in Starting => \A k \in Keys : sub[k] # "flying"

RInv == Types /\ Traced /\ Calls

(* As long as the flow awaits the copy task, nobody has cancelled it. *)
Uncancelled == flow = "copy" => ~cancelled /\ error # "cancelled" /\ copy # "gave up"

(* The ledger is empty and copy has not begun. *)
LEMMA InitRInv == RecoveryInit => RInv
<1> SUFFICES ASSUME RecoveryInit PROVE RInv
  OBVIOUS
<1>1. Types
  BY DEF RecoveryInit, Init, Types
<1>2. Issued(sub) = {}
  BY DEF RecoveryInit, Init, Issued
<1>3. Traced
  BY <1>2 DEF RecoveryInit, Init, Traced, Tracking
<1>4. Calls
  BY <1>2 DEF RecoveryInit, Init, Calls
<1> QED
  BY <1>1, <1>3, <1>4 DEF RInv

(* _record adds a write behind those that wait. *)
LEMMA AppendWrites ==
  ASSUME NEW w \in Seq(Writes), NEW e \in Writes
  PROVE  /\ Append(w, e) \in Seq(Writes)
         /\ \A i \in 1 .. Len(w) : i \in 1 .. Len(Append(w, e)) /\ Append(w, e)[i] = w[i]
         /\ Len(w) + 1 \in 1 .. Len(Append(w, e)) /\ Append(w, e)[Len(w) + 1] = e
         /\ \A i \in 1 .. Len(Append(w, e)) : i \in 1 .. Len(w) \/ Append(w, e)[i] = e
OBVIOUS

(* A step of the flow that leaves the copy task and the rows alone, and     *)
(* hands the ledger one write at most.                                      *)
LEMMA FlowStep ==
  ASSUME RInv, UNCHANGED <<sub, copy, row, ids, phase>>,
         flow # "gone", flow' \in Tracking => copy = "handle",
         \/ writes' = writes
         \/ \E e \in Writes : writes' = Append(writes, e)
  PROVE  RInv'
<1> USE DEF RInv
<1>1. writes' \in Seq(Writes) /\ \A k \in Keys : Pending(k) => Pending(k)'
  <2>1. CASE writes' = writes
    BY <2>1 DEF Types, Pending
  <2>2. ASSUME NEW e \in Writes, writes' = Append(writes, e)
        PROVE  writes' \in Seq(Writes) /\ \A k \in Keys : Pending(k) => Pending(k)'
    <3>1. /\ writes' \in Seq(Writes)
          /\ \A i \in 1 .. Len(writes) : i \in 1 .. Len(writes') /\ writes'[i] = writes[i]
      BY <2>2, AppendWrites DEF Types
    <3> QED
      BY <3>1 DEF Pending
  <2> QED
    BY <2>1, <2>2
<1>2. Types'
  BY <1>1 DEF Types
<1>3. Issued(sub') = Issued(sub) /\ Issued(sub) \subseteq Keys
  BY DEF Issued
<1>4. Traced'
  BY <1>1, <1>3 DEF Traced
<1>5. Calls'
  BY <1>3 DEF Calls
<1> QED
  BY <1>2, <1>4, <1>5

(* A cancelled poll may drop the write it waits for. *)
LEMMA StopInPollStep ==
  ASSUME RInv, StopInPoll, phase' = phase
  PROVE  RInv'
<1> USE DEF RInv
<1>1. PICK w \in {writes, <<>>} : AbandonPolled("cancelled", w)
  BY DEF StopInPoll
<1>2. /\ sub' = sub /\ copy' = copy /\ row' = row /\ ids' = ids
      /\ flow \in Tracking /\ flow' \in {"ended", "abandon poll"}
  BY <1>1 DEF StopInPoll, AbandonPolled, copyVars, Tracking
<1> DEFINE e == [keys |-> ids \ watch, status |-> "abandoned"]
<1>3. w \in Seq(Writes) /\ e \in Writes
  <2>1. e \in Writes
    BY DEF Types, Writes, Statuses
  <2>2. w \in Seq(Writes)
    <3>1. writes \in Seq(Writes) /\ <<>> \in Seq(Writes)
      BY DEF Types
    <3> QED
      BY <3>1
  <2> QED
    BY <2>1, <2>2
<1>4. writes' \in Seq(Writes)
  <2>1. writes' = w \/ writes' = Append(w, e)
    BY <1>1 DEF AbandonPolled
  <2>2. Append(w, e) \in Seq(Writes)
    BY <1>3, AppendWrites
  <2> QED
    BY <1>3, <2>1, <2>2
<1>5. Types'
  BY <1>2, <1>4 DEF Types
<1>6. copy = "handle" /\ flow # "gone"
  BY <1>2 DEF Traced, Tracking
<1>7. Traced'
  BY <1>2, <1>6 DEF Traced, Tracking
<1>8. Calls'
  BY <1>2 DEF Calls
<1> QED
  BY <1>5, <1>7, <1>8

(* The ledger's thread does the oldest write. *)
LEMMA LedgerStep ==
  ASSUME RInv, LedgerWrites, phase' = phase
  PROVE  RInv'
<1> USE DEF RInv
<1>1. /\ sub' = sub /\ copy' = copy /\ ids' = ids /\ flow' = flow
      /\ writes # <<>> /\ writes' = Tail(writes)
      /\ row' = [k \in Keys |-> IF k \in Head(writes).keys THEN Head(writes).status ELSE row[k]]
  BY DEF LedgerWrites, copyVars, flowVars, handle
<1>2. /\ Head(writes) = writes[1] /\ Head(writes) \in Writes
      /\ writes' \in Seq(Writes) /\ Len(writes) \in Nat \ {0} /\ Len(writes') = Len(writes) - 1
      /\ \A i \in 1 .. Len(writes') : writes'[i] = writes[i + 1]
  BY <1>1 DEF Types
<1>3. Head(writes).status \in Statuses
  BY <1>2 DEF Writes
<1>4. Types'
  BY <1>1, <1>2, <1>3 DEF Types
<1>5. \A k \in Keys : row[k] # "none" => row'[k] # "none"
  BY <1>1, <1>3 DEF Statuses
<1>6. \A k \in Keys : Pending(k) => row'[k] # "none" \/ Pending(k)'
  <2> SUFFICES ASSUME NEW k \in Keys, NEW i \in 1 .. Len(writes), k \in writes[i].keys
               PROVE  row'[k] # "none" \/ Pending(k)'
    BY DEF Pending
  <2>1. CASE i = 1
    BY <1>1, <1>2, <1>3, <2>1 DEF Statuses
  <2>2. CASE i # 1
    <3>1. i - 1 \in 1 .. Len(writes') /\ writes'[i - 1] = writes[i]
      BY <1>2, <2>2
    <3> QED
      BY <3>1 DEF Pending
  <2> QED
    BY <2>1, <2>2
<1>7. Issued(sub') = Issued(sub) /\ Issued(sub) \subseteq Keys
  BY <1>1 DEF Issued
<1>8. Traced'
  BY <1>1, <1>5, <1>6, <1>7 DEF Types, Traced
<1>9. Calls'
  BY <1>1, <1>7 DEF Calls
<1> QED
  BY <1>4, <1>8, <1>9

(* The children of the gathers: a call begins or is answered. *)
LEMMA ChildStep ==
  ASSUME RInv, NEW k \in Keys, Issue(k) \/ Answer(k), flow # "gone", phase \notin Starting,
         phase' = phase
  PROVE  RInv'
<1> USE DEF RInv
<1>1. copy \in {"gather", "drain"}
  BY DEF Issue, Answer, Calls
<1>2. /\ copy' = copy /\ row' = row /\ ids' = ids /\ flow' = flow /\ writes' = writes
      /\ sub' \in [Keys -> {"queued", "flying", "issued", "failed", "lost", "dropped", "conflict"}]
  BY DEF Issue, Answer, flowVars, handle, Types
<1>3. Types'
  BY <1>2 DEF Types
<1>4. Traced'
  BY <1>1, <1>2 DEF Traced
<1>5. Calls'
  BY <1>1, <1>2 DEF Calls
<1> QED
  BY <1>3, <1>4, <1>5

(* Cancelling the children leaves none flying and takes no number away. *)
LEMMA CancelledChildren ==
  ASSUME Types
  PROVE  /\ ChildrenCancelled \in
              [Keys -> {"queued", "flying", "issued", "failed", "lost", "dropped", "conflict"}]
         /\ Issued(ChildrenCancelled) = Issued(sub)
         /\ \A k \in Keys : ChildrenCancelled[k] # "flying"
BY DEF Types, ChildrenCancelled, Issued

(* Copy is done with its gathers and hands what it has to the ledger. *)
LEMMA HandOver ==
  ASSUME RInv, flow # "gone", flow' = flow, row' = row, copy \in {"gather", "drain"},
         sub' \in [Keys -> {"queued", "flying", "issued", "failed", "lost", "dropped", "conflict"}],
         \A k \in Keys : sub'[k] # "flying",
         copy' \in {"record", "partial"}, ids' = Issued(sub'),
         writes' = Append(writes, [keys |-> ids', status |-> "running"])
  PROVE  RInv'
<1> USE DEF RInv
<1>1. Issued(sub') \subseteq Keys
  BY DEF Issued
<1> DEFINE e == [keys |-> ids', status |-> "running"]
<1>2. e \in Writes
  BY <1>1 DEF Writes, Statuses
<1>3. /\ writes' \in Seq(Writes)
      /\ Len(writes) + 1 \in 1 .. Len(writes') /\ writes'[Len(writes) + 1] = e
  BY <1>2, AppendWrites DEF Types
<1>4. \A k \in ids' : Pending(k)'
  BY <1>3 DEF Pending
<1>5. Types'
  BY <1>1, <1>3 DEF Types
<1>6. flow \notin Tracking
  BY DEF Traced
<1>7. Traced'
  BY <1>4, <1>6 DEF Traced
<1>8. Calls'
  BY DEF Calls
<1> QED
  BY <1>5, <1>7, <1>8

(* Copy ends without a handle, or goes on to its second gather. *)
LEMMA GatherStep ==
  ASSUME RInv, Gather, flow # "gone", phase \notin Starting, phase' = phase
  PROVE  RInv'
<1> USE DEF RInv
<1>1. /\ flow' = flow /\ row' = row /\ copy = "gather"
  BY DEF Gather, flowVars
<1>2. CASE copy' = "record"
  <2>1. /\ sub' = sub /\ ids' = Keys /\ \A k \in Keys : sub[k] = "issued"
        /\ writes' = Append(writes, [keys |-> Keys, status |-> "running"])
    BY <1>2 DEF Gather, Record
  <2>2. Issued(sub') = Keys
    BY <2>1 DEF Issued
  <2>3. /\ \A k \in Keys : sub'[k] # "flying"
        /\ sub' \in [Keys -> {"queued", "flying", "issued", "failed", "lost", "dropped", "conflict"}]
    BY <2>1 DEF Types
  <2> QED
    BY <1>1, <1>2, <2>1, <2>2, <2>3, HandOver
<1>3. CASE copy' # "record"
  <2>1. copy' = "drain" /\ ids' = ids /\ writes' = writes /\ sub' \in {sub, ChildrenCancelled}
    BY <1>3 DEF Gather, handle
  <2>2. Types'
    BY <1>1, <2>1, CancelledChildren DEF Types
  <2>3. flow \notin Tracking
    BY <1>1 DEF Traced
  <2>4. Traced'
    BY <1>1, <2>1, <2>3 DEF Traced
  <2>5. Calls'
    BY <2>1 DEF Calls
  <2> QED
    BY <2>2, <2>4, <2>5
<1> QED
  BY <1>2, <1>3

(* The second gather ends. *)
LEMMA DrainStep ==
  ASSUME RInv, Drain, flow # "gone", phase \notin Starting, phase' = phase
  PROVE  RInv'
<1> USE DEF RInv
<1>1. flow' = flow /\ row' = row /\ copy = "drain" /\ DrainEnds(sub', error')
  BY DEF Drain, flowVars
<1>2. /\ sub' \in [Keys -> {"queued", "flying", "issued", "failed", "lost", "dropped", "conflict"}]
      /\ \A k \in Keys : sub'[k] # "flying"
  BY CancelledChildren DEF Drain, Types
<1>3. CASE Issued(sub') # {}
  BY <1>1, <1>2, <1>3, HandOver DEF DrainEnds, Record
<1>4. CASE Issued(sub') = {}
  <2>1. copy' \in {"gave up", "submit error"} /\ ids' = ids /\ writes' = writes
    BY <1>1, <1>4 DEF DrainEnds, EmptyHanded, handle
  <2>2. Types'
    BY <1>1, <1>2, <2>1 DEF Types
  <2>3. flow \notin Tracking
    BY <1>1 DEF Traced
  <2>4. Traced'
    BY <1>1, <1>4, <2>1, <2>3 DEF Traced
  <2>5. Calls'
    BY <1>2, <2>1 DEF Calls
  <2> QED
    BY <2>2, <2>4, <2>5
<1> QED
  BY <1>3, <1>4

(* Copy gets its admission, or its write is done or no longer waited for. *)
LEMMA CopyStep ==
  ASSUME RInv, Admission \/ RecordFull \/ RecordPartial, flow # "gone", phase \notin Starting,
         phase' = phase
  PROVE  RInv'
<1> USE DEF RInv
<1>1. /\ sub' = sub /\ row' = row /\ ids' = ids /\ writes' = writes /\ flow' = flow
      /\ copy \in {"admission", "record", "partial"}
  BY DEF Admission, RecordFull, RecordPartial, flowVars, handle
<1>2. /\ copy = "admission" => copy' \in {"gather", "refused", "gave up"}
      /\ copy # "admission" => copy' \in {"gave up", "handle", "submit error"}
      /\ copy' = "handle" => writes = <<>>
  BY DEF Admission, RecordFull, RecordPartial, Recorded
<1>3. Types'
  BY <1>1 DEF Types
<1>4. Issued(sub') = Issued(sub) /\ flow \notin Tracking
  BY <1>1 DEF Issued, Traced
<1>5. \A k \in Keys : Pending(k)' = Pending(k)
  BY <1>1 DEF Pending
<1>6. \A k \in Issued(sub) : k \in Keys /\ (row[k] # "none" \/ Pending(k))
  BY <1>1 DEF Traced, Calls, Issued
<1>7. copy' = "handle" => \A k \in ids \cup Issued(sub) : row[k] # "none"
  BY <1>1, <1>2, <1>6 DEF Traced, Pending
<1>8. Traced'
  BY <1>1, <1>2, <1>4, <1>5, <1>6, <1>7 DEF Traced
<1>9. Calls'
  BY <1>1, <1>2, <1>4 DEF Calls
<1> QED
  BY <1>3, <1>8, <1>9

(* The flow resumes, settles, abandons or is interrupted. *)
LEMMA ResumeStep ==
  ASSUME RInv, Uncancelled, flow # "gone", phase' = phase,
         \/ CopyReturns \/ DrainCopy \/ ConflictRecorded \/ Settled \/ Abandoned
         \/ Interrupt("timeout") \/ Interrupt("stop") \/ PollTimeout \/ StopInDrain \/ StopInAbandon
         \/ Settle("failed") \/ Settle("ready") \/ SettleWatched
  PROVE  RInv'
<1>1. sub' = sub /\ copy' = copy /\ row' = row
  BY DEF CopyReturns, DrainCopy, ConflictRecorded, Settled, Abandoned, Interrupt, PollTimeout,
     StopInDrain, StopInAbandon, Settle, SettleWatched, copyVars
<1>2. ids' = ids
  BY DEF CopyReturns, DrainCopy, ConflictRecorded, Settled, Abandoned, Interrupt, PollTimeout,
     AbandonPolled, StopInDrain, StopInAbandon, Settle, SettleWatched, handle
<1>3. flow' \in Tracking => flow \in Tracking \/ copy = "handle"
  BY DEF Uncancelled, CopyReturns, CopyOver, AbandonThen, Ends, DrainCopy, ConflictRecorded, Settled, Abandoned,
     Interrupt, PollTimeout, StopInDrain, StopInAbandon, Settle, SettleWatched, Tracking
<1>4. flow' \in Tracking => copy = "handle"
  BY <1>3 DEF RInv, Traced
<1>5. \A S \in SUBSET ids, t \in Statuses : [keys |-> S, status |-> t] \in Writes
  BY DEF RInv, Types, Writes
<1>6. \/ writes' = writes
      \/ \E S \in SUBSET ids, t \in Statuses : writes' = Append(writes, [keys |-> S, status |-> t])
  <2>1. {"failed", "ready", "abandoned"} \subseteq Statuses
    BY DEF Statuses
  <2>2. CASE CopyReturns
    BY <2>1, <2>2 DEF Uncancelled, CopyReturns, CopyOver, AbandonThen, Record
  <2>3. CASE DrainCopy
    BY <2>1, <2>3 DEF DrainCopy, CopyOver, AbandonThen, Record
  <2>4. CASE StopInDrain
    BY <2>1, <2>4 DEF StopInDrain, AbandonThen, Record
  <2>5. CASE PollTimeout
    BY <2>1, <2>5 DEF PollTimeout, AbandonPolled
  <2>6. CASE Settle("failed") \/ Settle("ready")
    BY <2>1, <2>6 DEF Settle, Record
  <2>7. CASE SettleWatched
    BY <2>1, <2>7 DEF SettleWatched, Record
  <2>8. CASE ConflictRecorded \/ Settled \/ Abandoned \/ Interrupt("timeout") \/ Interrupt("stop") \/ StopInAbandon
    BY <2>8 DEF ConflictRecorded, Settled, Abandoned, Interrupt, StopInAbandon
  <2> QED
    BY <2>2, <2>3, <2>4, <2>5, <2>6, <2>7, <2>8
<1>7. \/ writes' = writes
      \/ \E e \in Writes : writes' = Append(writes, e)
  BY <1>5, <1>6
<1> QED
  BY <1>1, <1>2, <1>4, <1>7, FlowStep

(* Tasks in conflict are recorded as failed. *)
LEMMA ConflictStep ==
  ASSUME RInv, NEW C \in SUBSET ids, Conflict(C), phase' = phase
  PROVE  RInv'
<1> USE DEF RInv
<1>1. /\ flow = "poll" /\ flow' = "conflict" /\ copy' = copy /\ row' = row /\ ids' = ids
      /\ sub' = [k \in Keys |-> IF k \in C THEN "conflict" ELSE sub[k]]
      /\ writes' = Append(writes, [keys |-> C, status |-> "failed"])
  BY DEF Conflict, Record, handle
<1>2. copy = "handle"
  BY <1>1 DEF Traced, Tracking
<1>3. [keys |-> C, status |-> "failed"] \in Writes
  BY DEF Types, Writes, Statuses
<1>4. writes' \in Seq(Writes)
  BY <1>1, <1>3, AppendWrites DEF Types
<1>5. Types'
  BY <1>1, <1>4 DEF Types
<1>6. Issued(sub') \subseteq Issued(sub) \cup ids
  BY <1>1 DEF Types, Issued
<1>7. \A k \in ids \cup Issued(sub') : row[k] # "none"
  BY <1>1, <1>2, <1>6 DEF Traced
<1>8. Traced'
  BY <1>1, <1>2, <1>7 DEF Traced
<1>9. Calls'
  BY <1>1, <1>2 DEF Calls
<1> QED
  BY <1>5, <1>8, <1>9

(* The process ends: nothing of an ended flow is lost with it. *)
LEMMA VanishStep ==
  ASSUME RInv, Vanish
  PROVE  RInv'
<1> USE DEF RInv
<1>1. /\ copy' = copy /\ ids' = ids /\ row' = row /\ writes' = <<>> /\ sub' = ChildrenCancelled
      /\ flow' = "gone" \/ (flow' = flow /\ flow = "ended" /\ CopyOver /\ writes = <<>>)
  BY DEF Vanish, Over, Recorded
<1>2. Types' /\ Issued(sub') = Issued(sub) /\ \A k \in Keys : sub'[k] # "flying"
  BY <1>1, CancelledChildren DEF Types
<1>3. \A k \in Keys : writes = <<>> => Pending(k)' = Pending(k)
  BY <1>1 DEF Pending
<1>4. Traced'
  <2>1. CASE flow' = "gone"
    BY <1>1, <1>2, <2>1 DEF Traced, Tracking
  <2>2. CASE flow' # "gone"
    <3>1. Issued(sub) \subseteq Keys
      BY DEF Issued
    <3> QED
      BY <1>1, <1>2, <1>3, <2>2, <3>1 DEF Traced
  <2> QED
    BY <2>1, <2>2
<1>5. Calls'
  BY <1>1, <1>2 DEF Calls
<1> QED
  BY <1>2, <1>4, <1>5

(* A restart tracks a handle only if every row is there, and gc_tasks       *)
(* deletes rows without a trace of "none".                                  *)
LEMMA StartStep ==
  ASSUME RInv, Rebuilt \/ Collected
  PROVE  RInv'
<1> USE DEF RInv
<1>1. CASE Rebuilt /\ Restorable
  <2>1. /\ sub' = sub /\ row' = row /\ writes' = writes /\ ids' = Rows("running")
        /\ flow' = "poll" /\ copy' = "handle" /\ phase \in Starting
    BY <1>1 DEF Rebuilt, Starting
  <2>2. \A k \in Keys : row[k] # "none"
    BY <1>1 DEF Restorable, Rows
  <2>3. Types'
    BY <2>1 DEF Types, Rows
  <2>4. Issued(sub') \subseteq Keys /\ ids' \subseteq Keys
    BY <2>1 DEF Issued, Rows
  <2>5. Traced'
    BY <2>1, <2>2, <2>4 DEF Traced
  <2>6. Calls'
    BY <2>1 DEF Calls
  <2> QED
    BY <2>3, <2>5, <2>6
<1>2. CASE Rebuilt /\ ~Restorable
  <2>1. /\ sub' = sub /\ row' = row /\ writes' = writes /\ ids' = ids
        /\ flow' = flow /\ copy' = copy /\ phase' \notin Starting
    BY <1>2 DEF Rebuilt, Starting, handle
  <2>2. Types'
    BY <2>1 DEF Types
  <2>3. Traced'
    BY <2>1 DEF Traced, Pending
  <2>4. Calls'
    BY <2>1 DEF Calls
  <2> QED
    BY <2>2, <2>3, <2>4
<1>3. CASE Collected
  <2>1. /\ sub' = sub /\ writes' = writes /\ ids' = ids /\ flow' = flow /\ copy' = copy
        /\ phase' \notin Starting
    BY <1>3 DEF Collected, Starting, copyVars, flowVars, handle
  <2>2. /\ row' \in [Keys -> Statuses \cup {"none", "deleted"}]
        /\ \A k \in Keys : row[k] # "none" => row'[k] # "none"
    BY <1>3 DEF Collected, Types
  <2>3. Types'
    BY <2>1, <2>2 DEF Types
  <2>4. Issued(sub) \subseteq Keys /\ ids \subseteq Keys
    BY DEF Issued, Types
  <2>5. Traced'
    BY <2>1, <2>2, <2>4 DEF Traced, Pending
  <2>6. Calls'
    BY <2>1 DEF Calls
  <2> QED
    BY <2>3, <2>5, <2>6
<1> QED
  BY <1>1, <1>2, <1>3

(* A step of the store, of a call or of the process around the flow. *)
LEMMA AroundStep ==
  ASSUME RInv, Uncancelled, UNCHANGED vars, phase' \in Starting => phase \in Starting
  PROVE  RInv' /\ Uncancelled'
<1> USE DEF RInv
<1>1. /\ sub' = sub /\ copy' = copy /\ error' = error /\ row' = row /\ ids' = ids
      /\ writes' = writes /\ flow' = flow /\ cancelled' = cancelled
  BY DEF vars, copyVars, flowVars, handle
<1>2. Types' /\ Issued(sub') = Issued(sub)
  BY <1>1 DEF Types, Issued
<1>3. Traced'
  BY <1>1, <1>2 DEF Traced, Pending
<1>4. Calls'
  BY <1>1, <1>2 DEF Calls
<1> QED
  BY <1>1, <1>2, <1>3, <1>4 DEF Uncancelled

(* Only the flow that gives up on the copy task cancels it. *)
LEMMA UncancelledStep ==
  ASSUME Uncancelled, flow # "gone",
         \/ LedgerWrites \/ Admission \/ Gather \/ Drain \/ RecordFull \/ RecordPartial
         \/ \E k \in Keys : Issue(k) \/ Answer(k)
         \/ CopyReturns \/ DrainCopy \/ ConflictRecorded \/ Settled \/ Abandoned
         \/ Interrupt("timeout") \/ Interrupt("stop") \/ PollTimeout \/ StopInDrain \/ StopInPoll
         \/ StopInAbandon \/ Settle("failed") \/ Settle("ready") \/ SettleWatched
         \/ \E C \in SUBSET ids : Conflict(C)
  PROVE  Uncancelled'
<1>1. CASE \/ LedgerWrites \/ Admission \/ RecordFull \/ RecordPartial
           \/ \E k \in Keys : Issue(k) \/ Answer(k)
  BY <1>1 DEF Uncancelled, LedgerWrites, Admission, RecordFull, RecordPartial, Issue, Answer,
     copyVars, flowVars
<1>2. CASE Gather
  BY <1>2 DEF Uncancelled, Gather, flowVars
<1>3. CASE Drain
  BY <1>3 DEF Uncancelled, Drain, DrainEnds, EmptyHanded, flowVars
<1>4. CASE \/ CopyReturns \/ DrainCopy \/ ConflictRecorded \/ Settled \/ Abandoned
           \/ Interrupt("timeout") \/ Interrupt("stop") \/ PollTimeout \/ StopInDrain \/ StopInPoll
           \/ StopInAbandon \/ Settle("failed") \/ Settle("ready") \/ SettleWatched
           \/ \E C \in SUBSET ids : Conflict(C)
  <2>1. flow' # "copy"
    BY <1>4 DEF Uncancelled, CopyReturns, CopyOver, AbandonThen, Ends, DrainCopy, ConflictRecorded,
       Settled, Abandoned, Interrupt, PollTimeout, AbandonPolled, StopInDrain, StopInPoll,
       StopInAbandon, Settle, SettleWatched, Conflict
  <2> QED
    BY <2>1 DEF Uncancelled
<1> QED
  BY <1>1, <1>2, <1>3, <1>4

(* The invariant is inductive. *)
LEMMA NextRInv == RInv /\ Uncancelled /\ [RecoveryNext]_allVars => RInv' /\ Uncancelled'
<1> SUFFICES ASSUME RInv, Uncancelled, [RecoveryNext]_allVars PROVE RInv' /\ Uncancelled'
  OBVIOUS
<1>1. ASSUME Vanish PROVE RInv' /\ Uncancelled'
  BY <1>1, VanishStep DEF Vanish, Uncancelled, Over
<1>2. CASE Crash \/ HardExit \/ DrainTimeout \/ Exit
  BY <1>1, <1>2 DEF Crash, HardExit, DrainTimeout, Exit
<1>3. CASE Rebuilt \/ Collected
  <2>1. \/ flow' = "poll"
        \/ flow' = flow /\ cancelled' = cancelled /\ error' = error /\ copy' = copy
    BY <1>3 DEF Rebuilt, Collected, copyVars, flowVars
  <2>2. Uncancelled'
    BY <2>1 DEF Uncancelled
  <2> QED
    BY <1>3, <2>2, StartStep
<1>4. CASE \/ Boot \/ Connected \/ Checked \/ StartFails \/ ServeFails \/ StopSignal
           \/ EngineStopped \/ KeepaliveStopped \/ Close
  <2>1. UNCHANGED vars /\ (phase' \in Starting => phase \in Starting)
    BY <1>4 DEF Boot, Connected, Checked, StartFails, ServeFails, StopSignal, EngineStopped,
       KeepaliveStopped, Close, Goto, Starting
  <2> QED
    BY <2>1, AroundStep
<1>5. CASE \/ SweepCalls \/ QueryCalls \/ OnReady \/ PublishBlockStored
           \/ \E c \in rpc : ThreadReturns(c)
           \/ \E k \in Keys : TaskEnds(k) \/ OtherTransfer(k) \/ ReplicaLost(k)
  <2>1. UNCHANGED vars /\ phase' = phase
    BY <1>5 DEF SweepCalls, QueryCalls, OnReady, PublishBlockStored, ThreadReturns, TaskEnds,
       OtherTransfer, ReplicaLost, daemonVars
  <2> QED
    BY <2>1, AroundStep
<1>6. CASE LedgerThread
  <2>1. LedgerWrites /\ phase' = phase /\ flow' = flow
    BY <1>6 DEF LedgerThread, Around, daemonVars, LedgerWrites, flowVars
  <2>2. Uncancelled'
    BY <2>1 DEF Uncancelled, LedgerWrites, copyVars
  <2> QED
    BY <2>1, <2>2, LedgerStep
<1>7. CASE \E k \in Keys : Issues(k) \/ Answers(k)
  <2>1. PICK k \in Keys : Issues(k) \/ Answers(k)
    BY <1>7
  <2>2. (Issue(k) \/ Answer(k)) /\ flow # "gone" /\ phase \notin Starting /\ phase' = phase
    BY <2>1 DEF Issues, Answers, Around, daemonVars, Alive, Starting
  <2> QED
    BY <2>2, ChildStep, UncancelledStep
<1>8. CASE Advances
  <2>1. flow # "gone" /\ phase \notin Starting /\ phase' = phase
    BY <1>8 DEF Advances, Around, daemonVars, Alive, Starting
  <2> QED
    BY <1>8, <2>1, CopyStep, GatherStep, DrainStep, ResumeStep, UncancelledStep DEF Advances
<1>9. CASE TimesOut
  <2>1. flow # "gone" /\ phase' = phase
    BY <1>9 DEF TimesOut, Around, daemonVars, Alive
  <2> QED
    BY <1>9, <2>1, ResumeStep, UncancelledStep DEF TimesOut
<1>10. CASE Cancelled
  <2>1. flow # "gone" /\ phase' = phase
    BY <1>10 DEF Cancelled, Around, daemonVars, Interrupt, StopInDrain, StopInPoll, StopInAbandon
  <2> QED
    BY <1>10, <2>1, ResumeStep, StopInPollStep, UncancelledStep DEF Cancelled
<1>11. CASE QueryAnswered
  <2>1. flow # "gone" /\ phase' = phase /\ Finds("conflict") \in SUBSET ids
    BY <1>11 DEF QueryAnswered, Around, daemonVars, Alive, Finds
  <2>2. \/ Conflict(Finds("conflict")) \/ Settle("failed") \/ Settle("ready") \/ SettleWatched
    BY <1>11 DEF QueryAnswered
  <2> QED
    BY <2>1, <2>2, ResumeStep, ConflictStep, UncancelledStep
<1>12. CASE UNCHANGED allVars
  BY <1>12, AroundStep DEF allVars, daemonVars
<1> QED
  BY <1>2, <1>3, <1>4, <1>5, <1>6, <1>7, <1>8, <1>9, <1>10, <1>11, <1>12
     DEF RecoveryNext, Progress, Otherwise

(* The ledger knows, or is about to be told, what the store was handed. *)
LEMMA AlwaysRInv == RecoverySpec => [](RInv /\ Uncancelled)
<1>1. RecoveryInit => RInv /\ Uncancelled
  BY InitRInv DEF RecoveryInit, Init, Uncancelled
<1> QED
  BY <1>1, NextRInv, PTL DEF RecoverySpec

(* When a flow is over, every task number the store gave to copy is in the  *)
(* ledger: no failure of a sibling, timeout, cancellation at any await or   *)
(* crash of an earlier process leaves a transfer that a restart cannot      *)
(* find, for any number of keys.                                            *)
THEOREM EveryIssueRecorded == RecoverySpec => []IssuedIsRecorded
<1>1. RInv /\ Uncancelled => IssuedIsRecorded
  <2> SUFFICES ASSUME RInv, Over, NEW k \in Issued(sub) PROVE row[k] # "none"
    BY DEF IssuedIsRecorded
  <2>1. flow # "gone" /\ copy \notin {"gather", "drain"} /\ writes = <<>>
    BY DEF Over, CopyOver, Recorded
  <2> QED
    BY <2>1 DEF RInv, Traced, Pending
<1> QED
  BY <1>1, AlwaysRInv, PTL

-----------------------------------------------------------------------------
(* READY is true *)

NoReadyWaits == \A i \in 1 .. Len(writes) : writes[i].status # "ready"

(* Before a replica is lost, READY is neither in the ledger nor on its way  *)
(* there unless all replicas are.                                           *)
ReadyInv ==
  /\ replica \subseteq Keys
  /\ lost = TRUE \/ replica = Keys \/ ((\A k \in Keys : row[k] # "ready") /\ NoReadyWaits)

(* What a step of the flow hands to the ledger: nothing, or one write; a    *)
(* cancelled poll may drop those that wait.                                 *)
Hands(S, t) ==
  \E w \in {writes, <<>>} :
    writes' = w \/ writes' = Append(w, [keys |-> S, status |-> t])

(* Any other verdict is no READY. *)
LEMMA HandsOther ==
  ASSUME Types, NEW S \in SUBSET Keys, NEW t \in Statuses \ {"ready"}, Hands(S, t), NoReadyWaits
  PROVE  NoReadyWaits'
<1>1. PICK w \in {writes, <<>>} :
        writes' = w \/ writes' = Append(w, [keys |-> S, status |-> t])
  BY DEF Hands
<1> DEFINE e == [keys |-> S, status |-> t]
<1>2. e \in Writes
  BY DEF Writes
<1>3. w \in Seq(Writes) /\ \A i \in 1 .. Len(w) : w[i].status # "ready"
  <2>1. CASE w = writes
    BY <2>1 DEF Types, NoReadyWaits
  <2>2. CASE w = <<>>
    BY <2>2
  <2> QED
    BY <2>1, <2>2
<1>4. CASE writes' = w
  BY <1>3, <1>4 DEF NoReadyWaits
<1>5. CASE writes' = Append(w, e)
  <2>1. \A i \in 1 .. Len(writes') : (i \in 1 .. Len(w) /\ writes'[i] = w[i]) \/ writes'[i] = e
    BY <1>2, <1>3, <1>5, AppendWrites
  <2>2. e.status # "ready"
    OBVIOUS
  <2> QED
    BY <1>3, <2>1, <2>2 DEF NoReadyWaits
<1> QED
  BY <1>1, <1>4, <1>5

(* A step that leaves the store alone and hands over anything but READY. *)
LEMMA OtherStep ==
  ASSUME Types, ReadyInv, row' = row, replica' = replica, lost' = lost,
         NEW S \in SUBSET Keys, NEW t \in Statuses \ {"ready"}, Hands(S, t)
  PROVE  ReadyInv'
<1>1. NoReadyWaits => NoReadyWaits'
  BY HandsOther
<1> QED
  BY <1>1 DEF ReadyInv

(* A step that changes neither rows nor writes. *)
LEMMA SilentStep ==
  ASSUME ReadyInv, UNCHANGED <<row, writes>>, replica' \subseteq Keys,
         lost' = TRUE \/ (lost' = lost /\ replica \subseteq replica')
  PROVE  ReadyInv'
BY DEF ReadyInv, NoReadyWaits

(* The flow and its copy task. *)
LEMMA FlowReady ==
  ASSUME Types, Uncancelled, ReadyInv, replica' = replica, lost' = lost,
         \/ Admission \/ Gather \/ Drain \/ RecordFull \/ RecordPartial
         \/ \E k \in Keys : Issue(k) \/ Answer(k)
         \/ CopyReturns \/ DrainCopy \/ ConflictRecorded \/ Settled \/ Abandoned
         \/ Interrupt("timeout") \/ Interrupt("stop") \/ PollTimeout \/ StopInDrain \/ StopInPoll
         \/ StopInAbandon \/ Settle("failed")
         \/ \E C \in SUBSET ids : Conflict(C)
  PROVE  ReadyInv'
<1>1. row' = row
  BY DEF Admission, Gather, Drain, RecordFull, RecordPartial, Issue, Answer, CopyReturns, DrainCopy,
     ConflictRecorded, Settled, Abandoned, Interrupt, PollTimeout, StopInDrain, StopInPoll,
     StopInAbandon, Settle, Conflict
<1>2. {"running", "failed", "abandoned"} \subseteq Statuses \ {"ready"} /\ ids \in SUBSET Keys
  BY DEF Statuses, Types
<1>3. CASE \/ Admission \/ RecordFull \/ RecordPartial \/ ConflictRecorded \/ Settled \/ Abandoned
           \/ Interrupt("timeout") \/ Interrupt("stop") \/ StopInAbandon
           \/ \E k \in Keys : Issue(k) \/ Answer(k)
  <2>1. writes' = writes
    BY <1>3 DEF Admission, RecordFull, RecordPartial, ConflictRecorded, Settled, Abandoned,
       Interrupt, StopInAbandon, Issue, Answer
  <2> QED
    BY <1>1, <2>1, SilentStep DEF ReadyInv
<1>4. CASE Gather
  <2>1. Hands(Keys, "running")
    BY <1>4 DEF Gather, Record, Hands
  <2> QED
    BY <1>1, <1>2, <2>1, OtherStep
<1>5. CASE Drain
  <2>1. Issued(sub') \in SUBSET Keys
    BY DEF Issued
  <2>2. Hands(Issued(sub'), "running")
    BY <1>5 DEF Drain, DrainEnds, Record, Hands
  <2> QED
    BY <1>1, <1>2, <2>1, <2>2, OtherStep
<1>6. CASE CopyReturns \/ DrainCopy \/ StopInDrain
  <2>1. Hands(ids, "abandoned")
    BY <1>6 DEF Uncancelled, CopyReturns, CopyOver, DrainCopy, StopInDrain, AbandonThen, Record, Hands
  <2> QED
    BY <1>1, <1>2, <2>1, OtherStep
<1>7. CASE PollTimeout \/ StopInPoll
  <2>1. Hands(ids \ watch, "abandoned")
    BY <1>7 DEF PollTimeout, StopInPoll, AbandonPolled, Hands
  <2> QED
    BY <1>1, <1>2, <2>1, OtherStep
<1>8. CASE Settle("failed")
  <2>1. Hands(ids, "failed")
    BY <1>8 DEF Settle, Record, Hands
  <2> QED
    BY <1>1, <1>2, <2>1, OtherStep
<1>9. ASSUME NEW C \in SUBSET ids, Conflict(C) PROVE ReadyInv'
  <2>1. Hands(C, "failed")
    BY <1>9 DEF Conflict, Record, Hands
  <2> QED
    BY <1>1, <1>2, <2>1, OtherStep
<1> QED
  BY <1>3, <1>4, <1>5, <1>6, <1>7, <1>8, <1>9

(* The ledger's thread writes what was handed to it. *)
LEMMA LedgerReady ==
  ASSUME Types, ReadyInv, LedgerWrites, replica' = replica, lost' = lost
  PROVE  ReadyInv'
<1>1. /\ writes # <<>> /\ writes' = Tail(writes)
      /\ row' = [k \in Keys |-> IF k \in Head(writes).keys THEN Head(writes).status ELSE row[k]]
  BY DEF LedgerWrites
<1>2. /\ Head(writes) = writes[1] /\ 1 \in 1 .. Len(writes)
      /\ \A i \in 1 .. Len(writes') : i + 1 \in 1 .. Len(writes) /\ writes'[i] = writes[i + 1]
  BY <1>1 DEF Types
<1>3. NoReadyWaits /\ (\A k \in Keys : row[k] # "ready") =>
        NoReadyWaits' /\ \A k \in Keys : row'[k] # "ready"
  BY <1>1, <1>2 DEF NoReadyWaits
<1> QED
  BY <1>3 DEF ReadyInv

(* The steps of the process, the store and the ledger. *)
LEMMA NextReadyInv ==
  RInv /\ Uncancelled /\ ReadyInv /\ [RecoveryNext]_allVars => ReadyInv'
<1> SUFFICES ASSUME RInv, Uncancelled, ReadyInv, [RecoveryNext]_allVars PROVE ReadyInv'
  OBVIOUS
<1> USE DEF RInv
<1>0. replica \subseteq Keys
  BY DEF ReadyInv
<1>1. CASE Crash \/ HardExit \/ DrainTimeout \/ Exit
  <2>1. row' = row /\ writes' = <<>> /\ replica' = replica /\ lost' = lost
    BY <1>1 DEF Crash, HardExit, DrainTimeout, Exit, Vanish, storeVars
  <2>2. NoReadyWaits'
    BY <2>1 DEF NoReadyWaits
  <2> QED
    BY <2>1, <2>2 DEF ReadyInv
<1>2. CASE Collected
  <2>1. writes' = writes /\ replica' = replica /\ lost' = lost
    BY <1>2 DEF Collected, storeVars
  <2>2. \A k \in Keys : row[k] # "ready" => row'[k] # "ready"
    BY <1>2 DEF Collected
  <2> QED
    BY <2>1, <2>2 DEF ReadyInv, NoReadyWaits
<1>3. CASE \/ Boot \/ Connected \/ Checked \/ Rebuilt \/ StartFails \/ ServeFails \/ StopSignal
           \/ EngineStopped \/ KeepaliveStopped \/ Close
           \/ SweepCalls \/ QueryCalls \/ OnReady \/ PublishBlockStored
           \/ \E c \in rpc : ThreadReturns(c)
  <2>1. row' = row /\ writes' = writes /\ replica' = replica /\ lost' = lost
    BY <1>3 DEF Boot, Connected, Checked, Rebuilt, StartFails, ServeFails, StopSignal,
       EngineStopped, KeepaliveStopped, Close, Goto, SweepCalls, QueryCalls, OnReady,
       PublishBlockStored, ThreadReturns, vars, storeVars
  <2> QED
    BY <1>0, <2>1, SilentStep
<1>4. CASE \E k \in Keys : TaskEnds(k) \/ OtherTransfer(k) \/ ReplicaLost(k)
  <2>1. /\ row' = row /\ writes' = writes /\ replica' \subseteq Keys
        /\ lost' = TRUE \/ (lost' = lost /\ replica \subseteq replica')
    BY <1>0, <1>4 DEF TaskEnds, OtherTransfer, ReplicaLost, vars
  <2> QED
    BY <2>1, SilentStep
<1>5. CASE LedgerThread
  BY <1>5, LedgerReady DEF LedgerThread, Around, storeVars
<1>6. CASE Advances \/ TimesOut \/ Cancelled \/ \E k \in Keys : Issues(k) \/ Answers(k)
  BY <1>6, FlowReady DEF Advances, TimesOut, Cancelled, Issues, Answers, Around, storeVars
<1>7. CASE QueryAnswered
  <2>1. replica' = replica /\ lost' = lost /\ Finds("conflict") \in SUBSET ids
    BY <1>7 DEF QueryAnswered, Around, storeVars, Finds
  <2>2. Conflict(Finds("conflict")) \/ Settle("failed") \/ Verified
    BY <1>7 DEF QueryAnswered
  <2>3. CASE Verified
    BY <1>0, <2>1, <2>3 DEF Verified, ReadyInv
  <2> QED
    BY <2>1, <2>2, <2>3, FlowReady
<1>8. CASE UNCHANGED allVars
  BY <1>0, <1>8, SilentStep DEF allVars, vars, storeVars
<1> QED
  BY <1>1, <1>2, <1>3, <1>4, <1>5, <1>6, <1>7, <1>8 DEF RecoveryNext, Progress, Otherwise

(* READY is in the ledger only for a prefix all of whose keys have their    *)
(* replica, unless the store has lost one since: whichever process polled,  *)
(* whatever was rebuilt, and whoever made the transfer.                     *)
THEOREM ReadyIsTrue == RecoverySpec => []NoFalseReady
<1>1. RecoveryInit => ReadyInv
  BY DEF RecoveryInit, Init, ReadyInv, NoReadyWaits
<1>2. ReadyInv => NoFalseReady
  BY DEF ReadyInv, NoFalseReady
<1> QED
  BY <1>1, <1>2, NextReadyInv, AlwaysRInv, PTL DEF RecoverySpec
=============================================================================
