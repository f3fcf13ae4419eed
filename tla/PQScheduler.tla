---------------------------- MODULE PQScheduler ----------------------------
(***************************************************************************)
(* The router's priority scheduler (go/router/pq.go).                      *)
(*                                                                         *)
(* Client goroutines call Submit: they insert a request, may preempt a     *)
(* request in flight, and then wait for the result or for their context.   *)
(* One goroutine runs the scheduling loop Run.  Each started request has   *)
(* an execution goroutine, which reports to Run over an unbuffered         *)
(* channel.  One action is one critical section of the mutex, or one step  *)
(* that needs none; the loop's and Submit's sections are separate steps.   *)
(*                                                                         *)
(* The waiting queue is kept sorted by insertLocked, so it is a set here   *)
(* and Before is its order.  Run also returns when the context of the      *)
(* process is done; nothing of the scheduler is used after that, and the   *)
(* end of the process is left out.                                         *)
(***************************************************************************)
EXTENDS Integers, FiniteSets

CONSTANTS
  Requests,     \* calls of Submit, each with its own pqRequest
  Models,       \* model names
  NoRequest,    \* no request
  NoModel,      \* no model
  Priority,     \* the priority of each request
  ModelOf,      \* the model of each request
  MaxCap,       \* bound: the largest value given to SetMaxInFlight
  MaxSignals    \* bound: how many backpressure signals arrive

ASSUME NoneAssumption == NoRequest \notin Requests /\ NoModel \notin Models
ASSUME PriorityAssumption == Priority \in [Requests -> Int]
ASSUME ModelOfAssumption == ModelOf \in [Requests -> Models]
ASSUME CapAssumption == MaxCap \in Nat \ {0} /\ MaxSignals \in Nat

VARIABLES
  queue,        \* PQScheduler.queue
  inFlight,     \* PQScheduler.inFlight
  maxInFlight,  \* PQScheduler.maxInFlight
  nextSeq,      \* PQScheduler.seq
  bp,           \* models whose backpressure deadline lies ahead
  signals,      \* how many backpressure signals have arrived
  notify,       \* PQScheduler.notify holds a token
  seq,          \* pqRequest.seq, 0 before Submit
  abandoned,    \* requests with pqRequest.abandoned set
  cause,        \* the cause the execution context was cancelled with
  err,          \* pqRequest.err: exec returned an error
  done,         \* requests with a result in pqRequest.done
  client,       \* where the goroutine in Submit is
  exec,         \* where the execution goroutine is
  loop,         \* where the goroutine in Run is
  cur,          \* the request finishOne is working on
  timer,        \* the model whose deadline the timer of Run waits for
  succeeded     \* history: requests whose exec has returned nil

schedVars == <<queue, inFlight, maxInFlight, nextSeq, seq>>
reqVars   == <<abandoned, cause, err, done>>
bpVars    == <<bp, signals>>
runVars   == <<loop, cur, timer>>
vars == <<schedVars, reqVars, bpVars, runVars, notify, client, exec, succeeded>>

(* The order insertLocked sorts by. *)
Before(a, b) ==
  \/ Priority[a] > Priority[b]
  \/ Priority[a] = Priority[b] /\ seq[a] < seq[b]

Backpressured(r) == ModelOf[r] \in bp

(* context.CancelCauseFunc: the first cause stays. *)
Cancelled(r, why) == [cause EXCEPT ![r] = IF @ = "none" THEN why ELSE @]

(* The limits that reach the scheduler: values below 1 are raised to 1. *)
Limits == 1 .. MaxCap

Init ==
  /\ queue = {} /\ inFlight = {}
  /\ maxInFlight \in Limits
  /\ nextSeq = 1 /\ seq = [r \in Requests |-> 0]
  /\ bp = {} /\ signals = 0
  /\ notify = FALSE
  /\ abandoned = {} /\ done = {}
  /\ cause = [r \in Requests |-> "none"]
  /\ err = [r \in Requests |-> FALSE]
  /\ client = [r \in Requests |-> "new"]
  /\ exec = [r \in Requests |-> "none"]
  /\ loop = "start" /\ cur = NoRequest /\ timer = NoModel
  /\ succeeded = {}

insertLocked_Sheds(r) == IF Cardinality(queue) < maxInFlight THEN queue \cup {r} ELSE queue

(* The queue with r in its place: its bound is the memory, nothing is shed. *)
insertLocked(r) == queue \cup {r}

Signal_Dropped == UNCHANGED notify

(* A non-blocking send on a channel of capacity 1. *)
Signal == notify' = TRUE

-----------------------------------------------------------------------------
(* The clients *)

(* Submit, its first critical section. *)
Submit(r) ==
  /\ client[r] = "new"
  /\ seq' = [seq EXCEPT ![r] = nextSeq]
  /\ nextSeq' = nextSeq + 1
  /\ queue' = insertLocked(r)
  /\ client' = [client EXCEPT ![r] = "inserted"]
  /\ UNCHANGED <<inFlight, maxInFlight, reqVars, bpVars, runVars, notify, exec, succeeded>>

(* The request maybePreempt picks: lowest priority, youngest among equals. *)
IsVictim(v) ==
  /\ v \in inFlight
  /\ \A r \in inFlight \ {v} : Before(r, v)

MayPreempt(r, v) ==
  /\ Cardinality(inFlight) >= maxInFlight
  /\ ~Backpressured(r)
  /\ IsVictim(v)
  /\ Priority[r] > Priority[v]

(* maybePreempt, and then the signal. *)
MaybePreempt(r) ==
  /\ client[r] = "inserted"
  /\ client' = [client EXCEPT ![r] = "waiting"]
  /\ \/ \E v \in inFlight : MayPreempt(r, v) /\ cause' = Cancelled(v, "preempted")
     \/ (\A v \in inFlight : ~MayPreempt(r, v)) /\ UNCHANGED cause
  /\ Signal
  /\ UNCHANGED <<schedVars, abandoned, err, done, bpVars, runVars, exec, succeeded>>

(* Submit returns with the result. *)
Receive(r) ==
  /\ client[r] = "waiting"
  /\ r \in done
  /\ client' = [client EXCEPT ![r] = "returned"]
  /\ done' = done \ {r}
  /\ UNCHANGED <<schedVars, abandoned, cause, err, bpVars, runVars, notify, exec, succeeded>>

(* Submit sees its context done: a waiting request is taken out of the      *)
(* queue, one that has been started is marked and cancelled.                *)
GiveUp(r) ==
  /\ client[r] = "waiting"
  /\ client' = [client EXCEPT ![r] = "gone"]
  /\ IF r \in queue
       THEN /\ queue' = queue \ {r}
            /\ UNCHANGED <<abandoned, cause>>
       ELSE /\ abandoned' = abandoned \cup {r}
            /\ cause' = Cancelled(r, "abandoned")
            /\ UNCHANGED queue
  /\ UNCHANGED <<inFlight, maxInFlight, nextSeq, seq, err, done, bpVars, runVars,
                 notify, exec, succeeded>>

-----------------------------------------------------------------------------
(* The execution goroutine of a request *)

(* exec returns, with an error or without (a cancelled one may still        *)
(* finish); the goroutine cancels its own context and offers itself to Run. *)
ExecReturns(r) ==
  /\ exec[r] = "running"
  /\ exec' = [exec EXCEPT ![r] = "reporting"]
  /\ \E e \in BOOLEAN :
       /\ err' = [err EXCEPT ![r] = e]
       /\ succeeded' = IF e THEN succeeded ELSE succeeded \cup {r}
  /\ cause' = Cancelled(r, "ended")
  /\ UNCHANGED <<schedVars, abandoned, done, bpVars, runVars, notify, client>>

-----------------------------------------------------------------------------
(* The loop Run *)

Eligible == {r \in queue : ~Backpressured(r)}

Room_ForgetsCancelled ==
  IF Cardinality({r \in inFlight : cause[r] = "none"}) < maxInFlight
    THEN maxInFlight - Cardinality({r \in inFlight : cause[r] = "none"})
    ELSE 0

Room_OffByOne ==
  IF Cardinality(inFlight) + 1 < maxInFlight
    THEN maxInFlight - Cardinality(inFlight) - 1
    ELSE 0

(* The free slots. *)
Room == IF Cardinality(inFlight) < maxInFlight
          THEN maxInFlight - Cardinality(inFlight)
          ELSE 0

(* The requests startEligible starts: the first ones in the queue's order,  *)
(* as many as there is room for.                                            *)
Starts(S) ==
  /\ S \subseteq Eligible
  /\ Cardinality(S) <= Room
  /\ Cardinality(S) = Room \/ S = Eligible
  /\ \A r \in S, q \in Eligible \ S : Before(r, q)

StartEligible ==
  /\ loop = "start"
  /\ loop' = "arm"
  /\ \E S \in SUBSET queue :
       /\ Starts(S)
       /\ queue' = queue \ S
       /\ inFlight' = inFlight \cup S
       /\ exec' = [r \in Requests |-> IF r \in S THEN "running" ELSE exec[r]]
       /\ cause' = [r \in Requests |-> IF r \in S THEN "none" ELSE cause[r]]
  /\ UNCHANGED <<maxInFlight, nextSeq, seq, abandoned, err, done, bpVars, cur, timer,
                 notify, client, succeeded>>

(* The models that hold a queued request back, as seen at this moment. *)
HeldBack == {ModelOf[r] : r \in queue} \cap bp

(* Run sets the timer to the earliest of their deadlines, or to none. *)
ArmTimer ==
  /\ loop = "arm"
  /\ loop' = "select"
  /\ \/ HeldBack = {} /\ timer' = NoModel
     \/ timer' \in HeldBack
  /\ UNCHANGED <<schedVars, reqVars, bpVars, cur, notify, client, exec, succeeded>>

WakeByNotify ==
  /\ loop = "select"
  /\ notify
  /\ notify' = FALSE
  /\ loop' = "start" /\ timer' = NoModel
  /\ UNCHANGED <<schedVars, reqVars, bpVars, cur, client, exec, succeeded>>

WakeByTimer ==
  /\ loop = "select"
  /\ timer # NoModel
  /\ timer \notin bp
  /\ loop' = "start" /\ timer' = NoModel
  /\ UNCHANGED <<schedVars, reqVars, bpVars, cur, notify, client, exec, succeeded>>

(* Run receives a finished request; finishOne frees its slot and reads      *)
(* whether it was abandoned, all it does in its first critical section.     *)
FinishOne(r) ==
  /\ loop = "select"
  /\ exec[r] = "reporting"
  /\ exec' = [exec EXCEPT ![r] = "none"]
  /\ inFlight' = inFlight \ {r}
  /\ timer' = NoModel
  /\ IF r \in abandoned
       THEN loop' = "start" /\ UNCHANGED cur
       ELSE loop' = "finish" /\ cur' = r
  /\ UNCHANGED <<queue, maxInFlight, nextSeq, seq, reqVars, bpVars, notify, client,
                 succeeded>>

WasPreempted_EvenIfDone(r) == cause[r] = "preempted"

(* A nil result is delivered even when a preemption raced with it. *)
WasPreempted(r) == err[r] /\ cause[r] = "preempted"

(* The rest of finishOne for a preempted request: back into the queue with  *)
(* its old number, and a signal.                                            *)
Requeue ==
  /\ loop = "finish"
  /\ WasPreempted(cur)
  /\ queue' = insertLocked(cur)
  /\ Signal
  /\ loop' = "start" /\ cur' = NoRequest
  /\ UNCHANGED <<inFlight, maxInFlight, nextSeq, seq, reqVars, bpVars, timer, client,
                 exec, succeeded>>

(* The rest of finishOne for any other request: the result goes into the    *)
(* channel of capacity 1; Run would block there for ever if it were full.   *)
Deliver ==
  /\ loop = "finish"
  /\ ~WasPreempted(cur)
  /\ cur \notin done
  /\ done' = done \cup {cur}
  /\ loop' = "start" /\ cur' = NoRequest
  /\ UNCHANGED <<schedVars, abandoned, cause, err, bpVars, timer, notify, client, exec,
                 succeeded>>

-----------------------------------------------------------------------------
(* The rest of the router *)

SetMaxInFlight(n) ==
  /\ maxInFlight' = n
  /\ Signal
  /\ UNCHANGED <<queue, inFlight, nextSeq, seq, reqVars, bpVars, runVars, client, exec,
                 succeeded>>

SetBackpressure(m) ==
  /\ signals < MaxSignals
  /\ signals' = signals + 1
  /\ bp' = bp \cup {m}
  /\ Signal
  /\ UNCHANGED <<schedVars, reqVars, runVars, client, exec, succeeded>>

(* The deadline of a model's backpressure passes. *)
Expire(m) ==
  /\ m \in bp
  /\ bp' = bp \ {m}
  /\ UNCHANGED <<schedVars, reqVars, signals, runVars, notify, client, exec, succeeded>>

Next ==
  \/ \E r \in Requests :
       \/ Submit(r) \/ MaybePreempt(r) \/ Receive(r) \/ GiveUp(r)
       \/ ExecReturns(r) \/ FinishOne(r)
  \/ StartEligible \/ ArmTimer \/ WakeByNotify \/ WakeByTimer
  \/ Requeue \/ Deliver
  \/ \E n \in Limits : SetMaxInFlight(n)
  \/ \E m \in Models : SetBackpressure(m) \/ Expire(m)

Spec == Init /\ [][Next]_vars

(* Goroutines that can run do run, executions end, deadlines pass, and Go's *)
(* select does not ignore a ready case for ever.  Clients need not give up, *)
(* and the limits need not change.                                          *)
Fairness ==
  /\ \A r \in Requests :
       /\ WF_vars(MaybePreempt(r))
       /\ WF_vars(Receive(r))
       /\ WF_vars(ExecReturns(r))
       /\ SF_vars(FinishOne(r))
  /\ WF_vars(StartEligible) /\ WF_vars(ArmTimer)
  /\ SF_vars(WakeByNotify) /\ SF_vars(WakeByTimer)
  /\ WF_vars(Requeue) /\ WF_vars(Deliver)
  /\ \A m \in Models : WF_vars(Expire(m))

FairSpec == Spec /\ Fairness
-----------------------------------------------------------------------------
(* Properties *)

(* Every variable has its type. *)
TypeOK ==
  /\ queue \subseteq Requests /\ inFlight \subseteq Requests
  /\ maxInFlight \in 1 .. MaxCap
  /\ nextSeq \in Nat /\ seq \in [Requests -> Nat]
  /\ bp \subseteq Models /\ signals \in 0 .. MaxSignals
  /\ notify \in BOOLEAN
  /\ abandoned \subseteq Requests /\ done \subseteq Requests
  /\ cause \in [Requests -> {"none", "preempted", "abandoned", "ended"}]
  /\ err \in [Requests -> BOOLEAN]
  /\ client \in [Requests -> {"new", "inserted", "waiting", "returned", "gone"}]
  /\ exec \in [Requests -> {"none", "running", "reporting"}]
  /\ loop \in {"start", "arm", "select", "finish"}
  /\ cur \in Requests \cup {NoRequest}
  /\ loop = "finish" <=> cur # NoRequest
  /\ timer \in Models \cup {NoModel}
  /\ succeeded \subseteq Requests

Awaited(r) == client[r] \in {"inserted", "waiting"}

(* No request is lost and none is in two places: a request somebody waits   *)
(* for is queued, or in flight, or in the hands of finishOne, or has its    *)
(* result, and only one of these; and a request has an execution goroutine  *)
(* exactly while it holds a slot.  Submit, startEligible, maybePreempt and  *)
(* the two critical sections of finishOne move requests between these.      *)
OnePlace ==
  /\ \A r \in Requests :
       /\ Awaited(r) => r \in queue \cup inFlight \cup {cur} \cup done
       /\ r \in inFlight <=> exec[r] # "none"
  /\ queue \cap inFlight = {}
  /\ cur \notin queue \cup inFlight \cup done
  /\ done \cap (queue \cup inFlight) = {}

(* A request whose execution returned nil is never queued or executed again *)
(* (finishOne: a preemption that arrives while exec completes must not run  *)
(* the same request_id twice).                                              *)
SuccessIsFinal ==
  \A r \in succeeded : r \notin queue /\ exec[r] # "running"

(* A step that starts requests leaves no more live executions than the      *)
(* limit: a preempted or abandoned request keeps its slot until its         *)
(* goroutine has really ended, and lowering the limit starts nothing.       *)
LiveExecs == {r \in Requests : exec[r] # "none"}
NeverOverCommits ==
  [][LiveExecs' \subseteq LiveExecs \/ Cardinality(LiveExecs') <= maxInFlight']_vars

(* Run never sleeps with nothing to wake it while a slot is free and a      *)
(* request could start, as long as no model was put under backpressure (the *)
(* timer of startEligible's pause can be missed).  A request whose Submit   *)
(* has yet to signal does not count.                                        *)
Asleep ==
  /\ loop = "select" /\ ~notify /\ timer = NoModel
  /\ \A r \in Requests : exec[r] # "reporting"
NeverSleepsOnWork ==
  signals = 0 /\ Asleep => Room = 0 \/ \A r \in Eligible : client[r] = "inserted"

(* Every caller of Submit that does not give up gets its result: requests   *)
(* are delayed by preemption and by the limit, never dropped.               *)
EveryWaiterServed ==
  \A r \in Requests : client[r] = "waiting" ~> client[r] \in {"returned", "gone"}

(* The same without backpressure: Submit returns unless the client gives up.*)
ServedUnlessPaused == [](signals = 0) => EveryWaiterServed
=============================================================================
