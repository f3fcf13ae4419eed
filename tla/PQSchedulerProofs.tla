------------------------- MODULE PQSchedulerProofs -------------------------
(***************************************************************************)
(* Proofs about the priority scheduler, for any set of requests, any       *)
(* priorities, any limits and any number of backpressure signals.          *)
(*                                                                         *)
(* OnePlace and SuccessIsFinal are not inductive: Submit must know that a  *)
(* new request is nowhere yet, finishOne that an abandoned request has no  *)
(* waiter, and the requeue that a success carries no error.                *)
(***************************************************************************)
EXTENDS PQScheduler, FiniteSetTheorems, TLAPS

NewIsNowhere ==
  \A r \in Requests :
    client[r] = "new" => r \notin queue \cup inFlight \cup done \cup succeeded \cup {cur}

AbandonedIsGone == \A r \in abandoned : client[r] = "gone"

SuccessHasNoError == \A r \in succeeded : ~err[r]

IInv ==
  /\ TypeOK
  /\ OnePlace
  /\ SuccessIsFinal
  /\ NewIsNowhere
  /\ AbandonedIsGone
  /\ SuccessHasNoError

-----------------------------------------------------------------------------

(* The variables have their types at the start. *)
LEMMA InitType == Init => TypeOK
<1> SUFFICES ASSUME Init PROVE TypeOK
  OBVIOUS
<1>1. maxInFlight \in 1 .. MaxCap /\ nextSeq \in Nat /\ signals \in 0 .. MaxSignals
  BY CapAssumption DEF Init, Limits
<1>2. err \in [Requests -> BOOLEAN] /\ notify \in BOOLEAN
  BY Zenon DEF Init
<1>3. /\ seq \in [Requests -> Nat]
      /\ cause \in [Requests -> {"none", "preempted", "abandoned", "ended"}]
      /\ client \in [Requests -> {"new", "inserted", "waiting", "returned", "gone"}]
      /\ exec \in [Requests -> {"none", "running", "reporting"}]
  BY DEF Init
<1>4. loop \in {"start", "arm", "select", "finish"} /\ (loop = "finish" <=> cur # NoRequest)
  BY DEF Init
<1> QED
  BY <1>1, <1>2, <1>3, <1>4 DEF Init, TypeOK

(* Every step keeps the types. *)
LEMMA NextType == TypeOK /\ [Next]_vars => TypeOK'
<1> SUFFICES ASSUME TypeOK, [Next]_vars PROVE TypeOK'
  OBVIOUS
<1> USE DEF TypeOK
<1>1. ASSUME NEW r \in Requests, Submit(r) PROVE TypeOK'
  BY <1>1 DEF Submit, reqVars, bpVars, runVars, insertLocked
<1>2. ASSUME NEW r \in Requests, MaybePreempt(r) PROVE TypeOK'
  BY <1>2 DEF MaybePreempt, schedVars, bpVars, runVars, Signal, Cancelled
<1>3. ASSUME NEW r \in Requests, Receive(r) PROVE TypeOK'
  BY <1>3 DEF Receive, schedVars, bpVars, runVars
<1>4. ASSUME NEW r \in Requests, GiveUp(r) PROVE TypeOK'
  BY <1>4 DEF GiveUp, bpVars, runVars, Cancelled
<1>5. ASSUME NEW r \in Requests, ExecReturns(r) PROVE TypeOK'
  BY <1>5 DEF ExecReturns, schedVars, bpVars, runVars, Cancelled
<1>6. ASSUME NEW r \in Requests, FinishOne(r) PROVE TypeOK'
  BY <1>6, NoneAssumption DEF FinishOne, reqVars, bpVars
<1>7. CASE StartEligible
  BY <1>7 DEF StartEligible, bpVars
<1>8. CASE ArmTimer
  BY <1>8 DEF ArmTimer, HeldBack, schedVars, reqVars, bpVars
<1>9. CASE WakeByNotify
  BY <1>9 DEF WakeByNotify, schedVars, reqVars, bpVars
<1>10. CASE WakeByTimer
  BY <1>10 DEF WakeByTimer, schedVars, reqVars, bpVars
<1>11. CASE Requeue
  BY <1>11 DEF Requeue, insertLocked, Signal, reqVars, bpVars
<1>12. CASE Deliver
  BY <1>12 DEF Deliver, schedVars, bpVars
<1>13. ASSUME NEW n \in Limits, SetMaxInFlight(n) PROVE TypeOK'
  BY <1>13 DEF SetMaxInFlight, Limits, Signal, reqVars, bpVars, runVars
<1>14. ASSUME NEW m \in Models, SetBackpressure(m) PROVE TypeOK'
  BY <1>14, CapAssumption DEF SetBackpressure, Signal, schedVars, reqVars, runVars
<1>15. ASSUME NEW m \in Models, Expire(m) PROVE TypeOK'
  BY <1>15 DEF Expire, schedVars, reqVars, runVars
<1>16. CASE UNCHANGED vars
  BY <1>16 DEF vars, schedVars, reqVars, bpVars, runVars
<1> QED
  BY <1>1, <1>2, <1>3, <1>4, <1>5, <1>6, <1>7, <1>8, <1>9, <1>10, <1>11, <1>12,
     <1>13, <1>14, <1>15, <1>16 DEF Next

(* TypeOK is an invariant of the scheduler. *)
THEOREM TypeCorrect == Spec => []TypeOK
BY InitType, NextType, PTL DEF Spec

-----------------------------------------------------------------------------

(* The inductive invariant holds at the start. *)
LEMMA InitInv == Init => IInv
<1> SUFFICES ASSUME Init PROVE IInv
  OBVIOUS
<1>1. TypeOK
  BY InitType
<1>2. OnePlace
  BY NoneAssumption DEF Init, OnePlace, Awaited
<1>3. SuccessIsFinal /\ NewIsNowhere /\ AbandonedIsGone /\ SuccessHasNoError
  BY NoneAssumption DEF Init, SuccessIsFinal, NewIsNowhere, AbandonedIsGone, SuccessHasNoError
<1> QED
  BY <1>1, <1>2, <1>3 DEF IInv

(* Every step preserves the places of the requests. *)
LEMMA NextOnePlace == IInv /\ [Next]_vars => OnePlace'
<1> SUFFICES ASSUME IInv, [Next]_vars PROVE OnePlace'
  OBVIOUS
<1> USE NoneAssumption DEF IInv, TypeOK, OnePlace, Awaited
<1>1. ASSUME NEW r \in Requests, Submit(r) PROVE OnePlace'
  BY <1>1 DEF Submit, reqVars, runVars, insertLocked, NewIsNowhere
<1>2. ASSUME NEW r \in Requests, MaybePreempt(r) PROVE OnePlace'
  BY <1>2 DEF MaybePreempt, schedVars, runVars
<1>3. ASSUME NEW r \in Requests, Receive(r) PROVE OnePlace'
  BY <1>3 DEF Receive, schedVars, runVars
<1>4. ASSUME NEW r \in Requests, GiveUp(r) PROVE OnePlace'
  BY <1>4 DEF GiveUp, runVars
<1>5. ASSUME NEW r \in Requests, ExecReturns(r) PROVE OnePlace'
  BY <1>5 DEF ExecReturns, schedVars, runVars
<1>6. ASSUME NEW r \in Requests, FinishOne(r) PROVE OnePlace'
  BY <1>6 DEF FinishOne, reqVars, AbandonedIsGone
<1>7. CASE StartEligible
  BY <1>7 DEF StartEligible
<1>8. CASE ArmTimer
  BY <1>8 DEF ArmTimer, schedVars, reqVars
<1>9. CASE WakeByNotify
  BY <1>9 DEF WakeByNotify, schedVars, reqVars
<1>10. CASE WakeByTimer
  BY <1>10 DEF WakeByTimer, schedVars, reqVars
<1>11. CASE Requeue
  BY <1>11 DEF Requeue, insertLocked, reqVars
<1>12. CASE Deliver
  BY <1>12 DEF Deliver, schedVars
<1>13. ASSUME NEW n \in Limits, SetMaxInFlight(n) PROVE OnePlace'
  BY <1>13 DEF SetMaxInFlight, reqVars, runVars
<1>14. ASSUME NEW m \in Models, SetBackpressure(m) PROVE OnePlace'
  BY <1>14 DEF SetBackpressure, schedVars, reqVars, runVars
<1>15. ASSUME NEW m \in Models, Expire(m) PROVE OnePlace'
  BY <1>15 DEF Expire, schedVars, reqVars, runVars
<1>16. CASE UNCHANGED vars
  BY <1>16 DEF vars, schedVars, reqVars, runVars
<1> QED
  BY <1>1, <1>2, <1>3, <1>4, <1>5, <1>6, <1>7, <1>8, <1>9, <1>10, <1>11, <1>12,
     <1>13, <1>14, <1>15, <1>16 DEF Next

(* Every step preserves what the invariant says of successes, of abandoned  *)
(* and of new requests.                                                     *)
LEMMA NextRest ==
  IInv /\ [Next]_vars =>
    SuccessIsFinal' /\ NewIsNowhere' /\ AbandonedIsGone' /\ SuccessHasNoError'
<1> DEFINE Rest == SuccessIsFinal /\ NewIsNowhere /\ AbandonedIsGone /\ SuccessHasNoError
<1> SUFFICES ASSUME IInv, [Next]_vars PROVE Rest'
  OBVIOUS
<1> USE NoneAssumption DEF IInv, TypeOK, SuccessIsFinal, NewIsNowhere, AbandonedIsGone,
        SuccessHasNoError
<1>1. ASSUME NEW r \in Requests, Submit(r) PROVE Rest'
  BY <1>1 DEF Submit, reqVars, runVars, insertLocked
<1>2. ASSUME NEW r \in Requests, MaybePreempt(r) PROVE Rest'
  BY <1>2 DEF MaybePreempt, schedVars, runVars
<1>3. ASSUME NEW r \in Requests, Receive(r) PROVE Rest'
  BY <1>3 DEF Receive, schedVars, runVars
<1>4. ASSUME NEW r \in Requests, GiveUp(r) PROVE Rest'
  BY <1>4 DEF GiveUp, runVars
<1>5. ASSUME NEW r \in Requests, ExecReturns(r) PROVE Rest'
  BY <1>5 DEF ExecReturns, schedVars, runVars, OnePlace
<1>6. ASSUME NEW r \in Requests, FinishOne(r) PROVE Rest'
  BY <1>6 DEF FinishOne, reqVars, OnePlace
<1>7. CASE StartEligible
  BY <1>7 DEF StartEligible
<1>8. CASE ArmTimer
  BY <1>8 DEF ArmTimer, schedVars, reqVars
<1>9. CASE WakeByNotify
  BY <1>9 DEF WakeByNotify, schedVars, reqVars
<1>10. CASE WakeByTimer
  BY <1>10 DEF WakeByTimer, schedVars, reqVars
<1>11. CASE Requeue
  BY <1>11 DEF Requeue, insertLocked, reqVars, WasPreempted
<1>12. CASE Deliver
  BY <1>12 DEF Deliver, schedVars
<1>13. ASSUME NEW n \in Limits, SetMaxInFlight(n) PROVE Rest'
  BY <1>13 DEF SetMaxInFlight, reqVars, runVars
<1>14. ASSUME NEW m \in Models, SetBackpressure(m) PROVE Rest'
  BY <1>14 DEF SetBackpressure, schedVars, reqVars, runVars
<1>15. ASSUME NEW m \in Models, Expire(m) PROVE Rest'
  BY <1>15 DEF Expire, schedVars, reqVars, runVars
<1>16. CASE UNCHANGED vars
  BY <1>16 DEF vars, schedVars, reqVars, runVars
<1> QED
  BY <1>1, <1>2, <1>3, <1>4, <1>5, <1>6, <1>7, <1>8, <1>9, <1>10, <1>11, <1>12,
     <1>13, <1>14, <1>15, <1>16 DEF Next

(* The inductive invariant is preserved. *)
LEMMA NextInv == IInv /\ [Next]_vars => IInv'
BY NextType, NextOnePlace, NextRest DEF IInv

(* The inductive invariant holds throughout. *)
THEOREM Inductive == Spec => []IInv
BY InitInv, NextInv, PTL DEF Spec

(* No request of Submit is ever lost or in two places at once, whatever     *)
(* the interleaving of preemption, cancellation and finishOne.              *)
THEOREM NothingLost == Spec => []OnePlace
<1>1. IInv => OnePlace
  BY DEF IInv
<1> QED
  BY <1>1, Inductive, PTL

(* A request that has succeeded is never executed again, even when a        *)
(* preemption races with its completion.                                    *)
THEOREM NoSecondExecution == Spec => []SuccessIsFinal
<1>1. IInv => SuccessIsFinal
  BY DEF IInv
<1> QED
  BY <1>1, Inductive, PTL

-----------------------------------------------------------------------------
(* The limit.  The slots and the queue are finite since each step adds one  *)
(* request or moves some.                                                   *)

FiniteSlots == IsFiniteSet(queue) /\ IsFiniteSet(inFlight)

(* What a step other than startEligible can do to the queue and the slots. *)
LEMMA SlotSteps ==
  ASSUME TypeOK, [Next]_vars
  PROVE  \/ StartEligible
         \/ /\ \E r : queue' = queue \/ queue' = queue \cup {r} \/ queue' = queue \ {r}
            /\ \E r : inFlight' = inFlight \/ inFlight' = inFlight \ {r}
<1>1. ASSUME NEW r \in Requests, Submit(r)
      PROVE  queue' = queue \cup {r} /\ inFlight' = inFlight
  BY <1>1 DEF Submit, insertLocked
<1>2. ASSUME NEW r \in Requests, MaybePreempt(r) \/ Receive(r) \/ ExecReturns(r)
      PROVE  queue' = queue /\ inFlight' = inFlight
  BY <1>2 DEF MaybePreempt, Receive, ExecReturns, schedVars
<1>3. ASSUME NEW r \in Requests, GiveUp(r)
      PROVE  (queue' = queue \/ queue' = queue \ {r}) /\ inFlight' = inFlight
  BY <1>3 DEF GiveUp
<1>4. ASSUME NEW r \in Requests, FinishOne(r)
      PROVE  queue' = queue /\ inFlight' = inFlight \ {r}
  BY <1>4 DEF FinishOne
<1>5. ASSUME ArmTimer \/ WakeByNotify \/ WakeByTimer \/ Deliver
      PROVE  queue' = queue /\ inFlight' = inFlight
  BY <1>5 DEF ArmTimer, WakeByNotify, WakeByTimer, Deliver, schedVars
<1>6. ASSUME Requeue
      PROVE  queue' = queue \cup {cur} /\ inFlight' = inFlight
  BY <1>6 DEF Requeue, insertLocked
<1>7. ASSUME NEW n \in Limits, SetMaxInFlight(n)
      PROVE  queue' = queue /\ inFlight' = inFlight
  BY <1>7 DEF SetMaxInFlight
<1>8. ASSUME NEW m \in Models, SetBackpressure(m) \/ Expire(m)
      PROVE  queue' = queue /\ inFlight' = inFlight
  BY <1>8 DEF SetBackpressure, Expire, schedVars
<1>9. ASSUME UNCHANGED vars
      PROVE  queue' = queue /\ inFlight' = inFlight
  BY <1>9 DEF vars, schedVars
<1> QED
  BY <1>1, <1>2, <1>3, <1>4, <1>5, <1>6, <1>7, <1>8, <1>9 DEF Next

(* Queue and slots stay finite. *)
LEMMA NextFinite == TypeOK /\ FiniteSlots /\ [Next]_vars => FiniteSlots'
<1> SUFFICES ASSUME TypeOK, FiniteSlots, [Next]_vars PROVE FiniteSlots'
  OBVIOUS
<1>1. CASE StartEligible
  <2>1. PICK S \in SUBSET queue : queue' = queue \ S /\ inFlight' = inFlight \cup S
    BY <1>1 DEF StartEligible
  <2>2. IsFiniteSet(S) /\ IsFiniteSet(queue \ S)
    BY FS_Subset DEF FiniteSlots
  <2> QED
    BY <2>1, <2>2, FS_Union DEF FiniteSlots
<1>2. CASE /\ \E r : queue' = queue \/ queue' = queue \cup {r} \/ queue' = queue \ {r}
           /\ \E r : inFlight' = inFlight \/ inFlight' = inFlight \ {r}
  BY <1>2, FS_AddElement, FS_RemoveElement DEF FiniteSlots
<1> QED
  BY <1>1, <1>2, SlotSteps

(* The requests that are started take a slot each. *)
LEMMA SlotsAdd ==
  ASSUME OnePlace, FiniteSlots, NEW S \in SUBSET queue
  PROVE  /\ Cardinality(S) \in Nat /\ Cardinality(inFlight) \in Nat
         /\ S # {} => Cardinality(S) # 0
         /\ Cardinality(inFlight \cup S) = Cardinality(inFlight) + Cardinality(S)
<1>1. IsFiniteSet(S) /\ IsFiniteSet(inFlight)
  BY FS_Subset DEF FiniteSlots
<1>2. Cardinality(S) \in Nat /\ Cardinality(inFlight) \in Nat
  BY <1>1, FS_CardinalityType
<1>3. S # {} => Cardinality(S) # 0
  BY <1>1, FS_EmptySet
<1>4. inFlight \cap S = {} /\ Cardinality({}) = 0
  BY FS_EmptySet DEF OnePlace
<1>5. Cardinality(inFlight \cup S)
        = Cardinality(inFlight) + Cardinality(S) - Cardinality(inFlight \cap S)
  BY <1>1, FS_Union
<1> QED
  BY <1>2, <1>3, <1>4, <1>5

(* A step of startEligible stays within the limit or starts nothing. *)
LEMMA StartWithinLimit ==
  ASSUME TypeOK, OnePlace, FiniteSlots, StartEligible
  PROVE  inFlight' \subseteq inFlight \/ Cardinality(inFlight') <= maxInFlight'
<1>1. PICK S \in SUBSET queue : Starts(S) /\ inFlight' = inFlight \cup S
  BY DEF StartEligible
<1>2. maxInFlight' = maxInFlight /\ maxInFlight \in Nat
  BY DEF StartEligible, TypeOK
<1>3. /\ Cardinality(S) \in Nat /\ Cardinality(inFlight) \in Nat
      /\ S # {} => Cardinality(S) # 0
  BY SlotsAdd
<1>4. Cardinality(inFlight \cup S) = Cardinality(inFlight) + Cardinality(S)
  BY SlotsAdd
<1>5. CASE Cardinality(inFlight) < maxInFlight
  BY <1>1, <1>2, <1>3, <1>4, <1>5 DEF Starts, Room
<1>6. CASE ~(Cardinality(inFlight) < maxInFlight)
  <2>1. S = {}
    BY <1>1, <1>3, <1>6 DEF Starts, Room
  <2> QED
    BY <1>1, <2>1
<1> QED
  BY <1>5, <1>6

(* However often the limit is lowered and requests are preempted, starting  *)
(* requests never takes the live executions above the limit.                *)
THEOREM LimitHeld == Spec => NeverOverCommits
<1> DEFINE J == IInv /\ FiniteSlots
           A == LiveExecs' \subseteq LiveExecs \/ Cardinality(LiveExecs') <= maxInFlight'
<1>1. Init => J
  BY InitInv, FS_EmptySet DEF Init, FiniteSlots
<1>2. J /\ [Next]_vars => J'
  BY NextInv, NextFinite DEF IInv
<1>3. J /\ J' /\ [Next]_vars => A
  <2> SUFFICES ASSUME J, J', [Next]_vars PROVE A
    OBVIOUS
  <2>1. LiveExecs = inFlight
    BY DEF LiveExecs, IInv, OnePlace, TypeOK
  <2>2. LiveExecs' = inFlight'
    BY DEF LiveExecs, IInv, OnePlace, TypeOK
  <2> QED
    BY <2>1, <2>2, SlotSteps, StartWithinLimit DEF IInv
<1>4. J /\ J' /\ [Next]_vars => [A]_vars
  BY <1>3
<1> QED
  BY <1>1, <1>2, <1>4, PTL DEF Spec, NeverOverCommits

-----------------------------------------------------------------------------
(* Waking up.  The token of notify and the signals that set it are enough:  *)
(* what startEligible leaves over, after it has filled the slots, waits for *)
(* a slot, and whatever makes room or adds a request afterwards signals.    *)

(* Once no goroutine is still to signal, a loop that is about to wait, with *)
(* no token set, has left nothing startable behind: the slots are taken, or *)
(* the queued requests are ones whose insert has yet to signal.             *)
AwakeInv ==
  signals = 0 =>
    /\ bp = {}
    /\ loop \in {"arm", "select"} /\ notify = FALSE =>
         Room = 0 \/ \A r \in queue : client[r] = "inserted"

(* startEligible fills the slots or empties the queue. *)
LEMMA StartFills ==
  ASSUME TypeOK, OnePlace, FiniteSlots, StartEligible, bp = {}
  PROVE  Room' = 0 \/ queue' = {}
<1>1. PICK S \in SUBSET queue :
         Starts(S) /\ inFlight' = inFlight \cup S /\ queue' = queue \ S
  BY DEF StartEligible
<1>2. Eligible = queue
  BY DEF Eligible, Backpressured
<1>3. CASE S = Eligible
  BY <1>1, <1>2, <1>3
<1>4. CASE Cardinality(S) = Room
  <2>1. maxInFlight' = maxInFlight /\ maxInFlight \in Nat
    BY DEF StartEligible, TypeOK
  <2>2. Cardinality(S) \in Nat /\ Cardinality(inFlight) \in Nat
    BY SlotsAdd
  <2>3. Cardinality(inFlight \cup S) = Cardinality(inFlight) + Cardinality(S)
    BY SlotsAdd
  <2>4. Cardinality(inFlight') = Cardinality(inFlight) + Room
    BY <1>1, <1>4, <2>3
  <2> QED
    BY <2>1, <2>2, <2>4 DEF Room
<1> QED
  BY <1>1, <1>3, <1>4 DEF Starts

(* Every step keeps Run awake while there is something to start. *)
LEMMA NextAwake == IInv /\ FiniteSlots /\ AwakeInv /\ [Next]_vars => AwakeInv'
<1> SUFFICES ASSUME IInv, FiniteSlots, AwakeInv, [Next]_vars, signals' = 0
             PROVE  /\ bp' = {}
                    /\ loop' \in {"arm", "select"} /\ notify' = FALSE =>
                         Room' = 0 \/ \A r \in queue' : client'[r] = "inserted"
  BY DEF AwakeInv
<1> USE DEF IInv
<1>1. ASSUME UNCHANGED <<inFlight, maxInFlight, bp, loop, notify>>, signals = 0,
             \A r \in queue' : client'[r] = "inserted" \/ (r \in queue /\ client'[r] = client[r])
      PROVE  /\ bp' = {}
             /\ loop' \in {"arm", "select"} /\ notify' = FALSE =>
                  Room' = 0 \/ \A r \in queue' : client'[r] = "inserted"
  <2>1. Room' = Room
    BY <1>1 DEF Room
  <2> QED
    BY <1>1, <2>1 DEF AwakeInv
<1>2. ASSUME NEW q \in Requests, Submit(q)
      PROVE  /\ UNCHANGED <<inFlight, maxInFlight, bp, loop, notify, signals>>
             /\ \A r \in queue' : client'[r] = "inserted" \/ (r \in queue /\ client'[r] = client[r])
  BY <1>2 DEF Submit, bpVars, runVars, insertLocked, TypeOK
<1>3. CASE \E r \in Requests : MaybePreempt(r)
  BY <1>3 DEF MaybePreempt, Signal, bpVars, AwakeInv
<1>4. ASSUME NEW q \in Requests, Receive(q)
      PROVE  /\ UNCHANGED <<inFlight, maxInFlight, bp, loop, notify, signals>>
             /\ \A r \in queue' : r \in queue /\ client'[r] = client[r]
  BY <1>4 DEF Receive, schedVars, bpVars, runVars, OnePlace, TypeOK
<1>5. ASSUME NEW q \in Requests, GiveUp(q)
      PROVE  /\ UNCHANGED <<inFlight, maxInFlight, bp, loop, notify, signals>>
             /\ \A r \in queue' : r \in queue /\ client'[r] = client[r]
  BY <1>5 DEF GiveUp, bpVars, runVars, TypeOK
<1>6. ASSUME NEW q \in Requests, ExecReturns(q)
      PROVE  /\ UNCHANGED <<inFlight, maxInFlight, bp, loop, notify, signals>>
             /\ \A r \in queue' : r \in queue /\ client'[r] = client[r]
  BY <1>6 DEF ExecReturns, schedVars, bpVars, runVars
<1>7. CASE \E r \in Requests : FinishOne(r)
  BY <1>7 DEF FinishOne, bpVars, AwakeInv
<1>8. CASE StartEligible
  <2>1. bp = {} /\ bp' = {}
    BY <1>8 DEF StartEligible, bpVars, AwakeInv
  <2> QED
    BY <1>8, <2>1, StartFills
<1>9. CASE ArmTimer
  <2>1. /\ UNCHANGED <<inFlight, maxInFlight, queue, bp, notify, client, signals>>
        /\ loop = "arm"
    BY <1>9 DEF ArmTimer, schedVars, bpVars
  <2>2. Room' = Room
    BY <2>1 DEF Room
  <2> QED
    BY <2>1, <2>2 DEF AwakeInv
<1>10. CASE WakeByNotify \/ WakeByTimer \/ Requeue \/ Deliver
  BY <1>10 DEF WakeByNotify, WakeByTimer, Requeue, Deliver, bpVars, AwakeInv
<1>11. CASE \E n \in Limits : SetMaxInFlight(n)
  BY <1>11 DEF SetMaxInFlight, Signal, bpVars, AwakeInv
<1>12. CASE \E m \in Models : SetBackpressure(m)
  BY <1>12 DEF SetBackpressure, TypeOK
<1>13. CASE \E m \in Models : Expire(m)
  BY <1>13 DEF Expire, AwakeInv
<1>14. CASE UNCHANGED vars
  BY <1>1, <1>14 DEF vars, schedVars, bpVars, runVars
<1>15. CASE \E r \in Requests : Submit(r) \/ Receive(r) \/ GiveUp(r) \/ ExecReturns(r)
  BY <1>1, <1>2, <1>4, <1>5, <1>6, <1>15
<1> QED
  BY <1>3, <1>7, <1>8, <1>9, <1>10, <1>11, <1>12, <1>13, <1>14, <1>15 DEF Next

(* Run never sleeps on a free slot and a request that could take it, for    *)
(* any requests and limits and any interleaving of Submit, preemption,      *)
(* finishOne and SetMaxInFlight, as long as no model was put under          *)
(* backpressure.                                                            *)
THEOREM NoLostWakeup == Spec => []NeverSleepsOnWork
<1> DEFINE J == IInv /\ FiniteSlots /\ AwakeInv
<1>1. Init => J
  BY InitInv, FS_EmptySet DEF Init, FiniteSlots, AwakeInv
<1>2. J /\ [Next]_vars => J'
  BY NextInv, NextFinite, NextAwake DEF IInv
<1>3. J => NeverSleepsOnWork
  BY DEF AwakeInv, NeverSleepsOnWork, Asleep, Eligible, IInv, TypeOK
<1> QED
  BY <1>1, <1>2, <1>3, PTL DEF Spec
=============================================================================
