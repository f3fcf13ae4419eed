---------------------------- MODULE WorkerEngine ----------------------------
(***************************************************************************)
(* The worker process (python/lake/runtime/worker_engine.py with worker.py *)
(* and lifecycle.py): threads that call submit and wait, one step thread   *)
(* that moves their requests from a queue into the node scheduler and runs *)
(* its event loop, and callers of start and stop.                          *)
(*                                                                         *)
(* The step thread is a program counter, loop; a place where it takes the  *)
(* lock or looks at the queue or the stop flag is a step of its own, what  *)
(* it does to its scheduler in between is one step.  The critical section  *)
(* of submit is two steps, because the step thread empties the queue and   *)
(* sets the stop flag without the lock.  The short wait for more requests  *)
(* (coalesce) is the queue being drained for a little longer.              *)
(***************************************************************************)
EXTENDS NodeScheduler, FiniteSets

CONSTANTS NoItem, Sentinel

VARIABLES
  role,     \* the RoleConfig of this process
  sched,    \* the node scheduler and the pool behind it
  plan,     \* the batch being built and run
  loop,     \* where the step thread is
  inbound,  \* _inbound: calls, or the Sentinel of stop
  live,     \* _inflight: per request id, the call being served
  lock,     \* the call inside submit's critical section
  stop,     \* _stop
  life,     \* _life
  started,  \* _started
  stopper,  \* a thread inside stop
  failure,  \* what ended the step thread early
  call,     \* per call of submit: where it is
  reply     \* per call: the tokens it returned with

vars == <<role, sched, plan, loop, inbound, live, lock, stop, life, started,
          stopper, failure, call, reply>>
callVars == <<call, reply>>
engVars == <<stop, life, started, stopper>>
stepVars == <<role, sched, plan, loop, live, failure>>

Init ==
  /\ role \in Roles
  /\ sched = NewSched /\ plan = <<>>
  /\ loop = "off" /\ inbound = <<>> /\ live = [d \in Ids |-> NoItem]
  /\ lock = NoItem /\ stop = FALSE /\ life = "idle" /\ started = FALSE
  /\ stopper = "idle" /\ failure = "none"
  /\ call = [i \in Items |-> "new"] /\ reply = [i \in Items |-> 0]

Answered(S, what) == call' = [i \in Items |-> IF i \in S THEN what ELSE call[i]]
Free(D) == live' = [d \in Ids |-> IF d \in D THEN NoItem ELSE live[d]]
LiveItems == {live[d] : d \in Ids} \ {NoItem}

-----------------------------------------------------------------------------
(* start and stop *)

(* start: the model is loaded and warmed up before anything is accepted. *)
Start ==
  /\ lock = NoItem /\ ~started /\ life = "idle" /\ WarmupFits(role)
  /\ life' = "serving" /\ started' = TRUE
  /\ UNCHANGED <<stepVars, inbound, lock, stop, stopper, callVars>>

(* load_model or warmup raises: the lifecycle has moved on and cannot come  *)
(* back, so a second start raises as well.                                  *)
StartFails ==
  /\ lock = NoItem /\ ~started /\ life = "idle"
  /\ life' = "warm"
  /\ UNCHANGED <<stepVars, inbound, lock, stop, started, stopper, callVars>>

(* _thread.start(), after the lock is released *)
ThreadStarts ==
  /\ started /\ loop = "off"
  /\ loop' = "top"
  /\ UNCHANGED <<role, sched, plan, live, failure, inbound, lock, engVars, callVars>>

(* stop before start *)
StopUnstarted ==
  /\ lock = NoItem /\ stopper = "idle" /\ life # "terminate" /\ ~started
  /\ life' = "terminate"
  /\ UNCHANGED <<stepVars, inbound, lock, stop, started, stopper, callVars>>

(* stop: the first call sets the flag and queues the sentinel; every call   *)
(* goes on to join the step thread.                                         *)
Stop ==
  /\ lock = NoItem /\ stopper = "idle" /\ life # "terminate" /\ started
  /\ stopper' = "joining" /\ stop' = TRUE
  /\ IF stop
       THEN UNCHANGED <<life, inbound>>
       ELSE life' = "drain" /\ inbound' = Append(inbound, Sentinel)
  /\ UNCHANGED <<stepVars, lock, started, callVars>>

(* The join returns, or gives up while the step thread is still at work;    *)
(* before _thread.start() it raises, which also leaves the lifecycle alone. *)
Joined ==
  /\ stopper = "joining"
  /\ stopper' = "idle"
  /\ \/ loop = "dead" /\ life' = "terminate"
     \/ loop # "dead" /\ UNCHANGED life
  /\ UNCHANGED <<stepVars, inbound, lock, stop, started, callVars>>

-----------------------------------------------------------------------------
(* submit, called by Generate *)

SubmitRefused(i) ==
  /\ lock = NoItem /\ call[i] = "new"
  /\ stop \/ ~started \/ life # "serving"
  /\ Answered({i}, "refused")
  /\ UNCHANGED <<stepVars, inbound, lock, engVars, reply>>

SubmitCheck(i) ==
  /\ lock = NoItem /\ call[i] = "new"
  /\ ~stop /\ started /\ life = "serving"
  /\ lock' = i /\ Answered({i}, "locked")
  /\ UNCHANGED <<stepVars, inbound, engVars, reply>>

SubmitPut(i) ==
  /\ lock = i
  /\ lock' = NoItem /\ Answered({i}, "wait")
  /\ inbound' = Append(inbound, i)
  /\ UNCHANGED <<stepVars, engVars, reply>>

-----------------------------------------------------------------------------
(* _drain_inbound, in three places of the step thread: what follows it      *)
(* depends on the place.                                                    *)

AfterDrain(s) ==
  CASE loop = "drain"    -> IF HasWork(s) THEN "iter" ELSE "get"
    [] loop = "sentinel" -> IF stop /\ ~HasWork(s) THEN "final" ELSE "top"
    [] loop = "inner"    -> "plan"

Draining == loop \in {"drain", "sentinel", "inner"}

DrainEnds ==
  /\ Draining
  /\ \/ inbound = <<>> /\ UNCHANGED inbound
     \/ inbound # <<>> /\ Head(inbound) = Sentinel /\ stop /\ inbound' = Tail(inbound)
  /\ loop' = AfterDrain(sched)
  /\ UNCHANGED <<role, sched, plan, live, failure, lock, engVars, callVars>>

Duplicate_Missing(i) == FALSE

Duplicate(i) == live[IdOf[i]] # NoItem \/ HasReq(sched, IdOf[i])

(* One queued call is registered and added to the scheduler, or answered    *)
(* with an error.                                                           *)
DrainOne ==
  /\ Draining /\ inbound # <<>> /\ Head(inbound) # Sentinel /\ lock = NoItem
  /\ inbound' = Tail(inbound)
  /\ LET i == Head(inbound)
     IN  IF Duplicate(i) \/ TooLong(role, i)
           THEN Answered({i}, "rejected") /\ UNCHANGED <<sched, live>>
           ELSE /\ live' = [live EXCEPT ![IdOf[i]] = i]
                /\ sched' = AddRequest(sched, i)
                /\ UNCHANGED call
  /\ UNCHANGED <<role, plan, loop, failure, lock, engVars, reply>>

-----------------------------------------------------------------------------
(* _loop *)

LoopTop ==
  /\ loop = "top"
  /\ loop' = IF stop THEN "final" ELSE "drain"
  /\ UNCHANGED <<role, sched, plan, live, failure, inbound, lock, engVars, callVars>>

(* _inbound.get with a timeout: a call is put back, at the end, to be       *)
(* drained; a timeout matters only once the flag is set.                    *)
LoopGet ==
  /\ loop = "get"
  /\ \/ inbound = <<>> /\ stop /\ loop' = "top" /\ UNCHANGED inbound
     \/ inbound # <<>> /\ Head(inbound) = Sentinel /\ loop' = "sentinel" /\ inbound' = Tail(inbound)
     \/ inbound # <<>> /\ Head(inbound) # Sentinel /\ loop' = "top"
          /\ inbound' = Append(Tail(inbound), Head(inbound))
  /\ UNCHANGED <<role, sched, plan, live, failure, lock, engVars, callVars>>

(* Calls complete when a result is processed. *)
Processed(p, next) ==
  LET ended == {r.item : r \in p.finished}
  IN  /\ ended # {} => lock = NoItem
      /\ sched' = p.sched /\ loop' = next
      /\ Free({IdOf[i] : i \in ended})
      /\ Answered(ended, "done")
      /\ reply' = [i \in Items |-> IF i \in ended
                                     THEN (CHOOSE r \in p.finished : r.item = i).out
                                     ELSE reply[i]]

(* The head of the event loop.  Told to stop, the overlapped loop processes *)
(* what it has queued; the other one just leaves.                           *)
EventLoop ==
  /\ loop = "iter"
  /\ IF stop \/ (~role.overlap /\ ~HasWork(sched))
       THEN Processed(IF role.overlap THEN DrainResults(sched)
                                      ELSE [sched |-> sched, finished |-> {}], "top")
       ELSE loop' = "inner" /\ UNCHANGED <<sched, live, callVars>>
  /\ UNCHANGED <<role, plan, failure, inbound, lock, engVars>>

(* schedule; with nothing to run, the queued results are processed and the  *)
(* event loop ends unless there is work left.                               *)
MakePlan ==
  /\ loop = "plan"
  /\ LET p == Schedule(sched, role)
         q == DrainResults(p.sched)
         ends == IF role.overlap THEN ~HasWork(q.sched)
                                 ELSE q.sched.waiting = <<>> /\ q.sched.running = <<>>
     IN  IF p.plan = <<>>
           THEN /\ Processed(q, IF ends \/ stop THEN "top" ELSE "iter")
                /\ plan' = <<>>
           ELSE /\ sched' = p.sched /\ plan' = p.plan /\ loop' = "prepare"
                /\ UNCHANGED <<live, callVars>>
  /\ UNCHANGED <<role, failure, inbound, lock, engVars>>

(* Whatever raises in the event loop ends the step thread.  The pool raises *)
(* on its own terms, or DOWNSTREAM for any exception of the agent.          *)
Failing(s, error, next) ==
  /\ sched' = s
  /\ IF error = "none"
       THEN loop' = next /\ UNCHANGED failure
       ELSE loop' = "fail" /\ failure' = error

(* pool.prepare_step *)
Prepare ==
  /\ loop = "prepare"
  /\ \E p \in PrepareBatch(sched, plan, role) :
       Failing(p.sched, p.error, "execute") /\ plan' = p.plan
  /\ UNCHANGED <<role, live, inbound, lock, engVars, callVars>>

(* execute_model and pool.done *)
Execute ==
  /\ loop = "execute"
  /\ \E p \in ExecuteBatch(sched, plan) :
       Failing(p.sched, p.error, "process") /\ plan' = <<>>
  /\ UNCHANGED <<role, live, inbound, lock, engVars, callVars>>

(* How many results are processed after a batch: overlapped, a result waits *)
(* until the next batch has run.                                            *)
Due == IF role.overlap /\ Len(sched.results) <= 1 THEN 0 ELSE 1

Process ==
  /\ loop = "process"
  /\ Processed(ProcessResults(sched, Due), "iter")
  /\ UNCHANGED <<role, plan, failure, inbound, lock, engVars>>

(* The pool raises in one of the results that EventLoop, MakePlan or        *)
(* Process would process.                                                   *)
ProcessRaises ==
  /\ LET s == IF loop = "plan" THEN Schedule(sched, role).sched ELSE sched
     IN  \E n \in 1 .. Len(s.results) :
           /\ \/ loop = "process" /\ n <= Due
              \/ loop = "iter" /\ stop /\ role.overlap
              \/ loop = "plan" /\ Schedule(sched, role).plan = <<>>
           /\ \E p \in ResultRaises(s, n) : Processed(p, "fail")
  /\ failure' = "pool"
  /\ UNCHANGED <<role, plan, inbound, lock, engVars>>

-----------------------------------------------------------------------------
(* The end of the step thread. *)

(* The slots of an abandoned request are given back unless the pool raises, *)
(* which is only logged.                                                    *)
Abandon(s, d, raises) ==
  IF raises THEN AbandonReq(s, d)
            ELSE [AbandonReq(s, d) EXCEPT !.agent = OnRequestFinished(@, d)]

FailInflight_AnswersNobody(next) ==
  /\ lock = NoItem
  /\ sched' = FoldLeft(AbandonReq, sched, SetToSeq({d \in Ids : live[d] # NoItem}))
  /\ Free(Ids)
  /\ loop' = next
  /\ UNCHANGED <<role, plan, failure, inbound, lock, engVars, callVars>>

(* _fail_inflight: every call being served gets the error, and its slots    *)
(* are given back.  A pool that has raised before may do so again.          *)
FailInflight(next) ==
  /\ lock = NoItem
  /\ \E raises \in BOOLEAN :
       /\ raises => failure = "pool"
       /\ sched' = FoldLeft(LAMBDA s, d : Abandon(s, d, raises), sched,
                            SetToSeq({d \in Ids : live[d] # NoItem}))
  /\ Answered(LiveItems, "error") /\ Free(Ids)
  /\ loop' = next
  /\ UNCHANGED <<role, plan, failure, inbound, lock, engVars, reply>>

(* _reject_inbound: so does every call still in the queue. *)
RejectInbound(next) ==
  /\ Answered(Range(inbound) \ {Sentinel}, "rejected")
  /\ inbound' = <<>>
  /\ loop' = next
  /\ UNCHANGED <<role, sched, plan, live, failure, lock, engVars, reply>>

LoopFails == loop = "fail" /\ FailInflight("reject")
LoopRejects == loop = "reject" /\ RejectInbound("flag")

(* _stop.set(), without the lock *)
LoopFlags ==
  /\ loop = "flag" /\ loop' = "final" /\ stop' = TRUE
  /\ UNCHANGED <<role, sched, plan, live, failure, inbound, lock, life, started, stopper, callVars>>

LoopFinal_ForgetsQueue ==
  /\ loop = "final" /\ loop' = IF LiveItems = {} THEN "dead" ELSE "orphans"
  /\ UNCHANGED <<role, sched, plan, live, failure, inbound, lock, engVars, callVars>>

LoopFinal == loop = "final" /\ RejectInbound(IF LiveItems = {} THEN "dead" ELSE "orphans")
LoopOrphans == loop = "orphans" /\ FailInflight("dead")

-----------------------------------------------------------------------------
StepThread ==
  \/ DrainEnds \/ DrainOne \/ LoopTop \/ LoopGet \/ EventLoop \/ MakePlan \/ Prepare
  \/ Execute \/ Process \/ ProcessRaises \/ LoopFails \/ LoopRejects \/ LoopFlags \/ LoopFinal \/ LoopOrphans

Next ==
  \/ Start \/ StartFails \/ ThreadStarts \/ StopUnstarted \/ Stop \/ Joined
  \/ \E i \in Items : SubmitRefused(i) \/ SubmitCheck(i) \/ SubmitPut(i)
  \/ StepThread

(* The step thread has something to do and nobody is in submit's critical   *)
(* section.                                                                 *)
CanStep ==
  /\ lock = NoItem /\ loop # "dead"
  /\ loop = "off" => started
  /\ loop = "get" => inbound # <<>> \/ stop

(* The threads of the interpreter run: weak fairness of the step thread,    *)
(* with its enabling condition written out, and of the end of submit's      *)
(* critical section.  Whether anybody calls start, stop or submit is open.  *)
Fairness ==
  /\ []<>(~CanStep) \/ []<><<ThreadStarts \/ StepThread>>_vars
  /\ WF_vars(\E i \in Items : SubmitPut(i))

Spec == Init /\ [][Next]_vars
FairSpec == Spec /\ Fairness
-----------------------------------------------------------------------------
(* Properties *)

(* The batches that are not processed, the one being run last. *)
Flying == Append(sched.results, plan)
Entries == UNION {Range(b) : b \in Range(Flying)}
Of(d) == {n \in DOMAIN Flying : \E e \in Range(Flying[n]) : e.id = d}
Stepping == loop \in {"iter", "inner", "plan", "prepare", "execute", "process"}

TypeOK ==
  /\ role \in Roles /\ sched.agent \in Agents
  /\ sched.inflight \in [Ids -> Nat]
  /\ Range(sched.waiting) \cap Range(sched.running) = {}
  /\ Range(sched.waiting) \cup Range(sched.running) \subseteq {d \in Ids : HasReq(sched, d)}
  /\ live \in [Ids -> Items \cup {NoItem}] /\ lock \in Items \cup {NoItem}
  /\ Range(inbound) \subseteq Items \cup {Sentinel}
  /\ life \in {"idle", "warm", "serving", "drain", "terminate"}
  /\ stop \in BOOLEAN /\ started \in BOOLEAN /\ stopper \in {"idle", "joining"}
  /\ failure \in {"none", "pool", "forward"}
  /\ call \in [Items -> {"new", "refused", "locked", "wait", "done", "error", "rejected"}]

(* Two batches that run ahead of their results never write one position of  *)
(* a request, be it with the same chunk planned again: the in-flight count  *)
(* and _has_unprocessed_prompt keep unprocessed batches apart.              *)
NoDoubleWrite ==
  \A m, n \in DOMAIN Flying : m # n =>
    \A e \in Range(Flying[m]), f \in Range(Flying[n]) :
      e.id = f.id => e.end <= f.start \/ f.end <= e.start

(* _inflight_decode is exactly what was scheduled and not processed, also   *)
(* after the pool has dropped requests from a batch.                        *)
InflightExact ==
  Stepping =>
    \A d \in Ids : HasReq(sched, d) =>
      sched.inflight[d] =
        Cardinality({n \in Of(d) : \E e \in Range(Flying[n]) :
                                     e.id = d /\ e.at >= Prompt(sched, d)})

(* D10: the pool's count of prepared writes is exactly the number of        *)
(* batches of the request that are not processed, so that committing an     *)
(* older step never takes away slots a newer prepared step writes to.       *)
SlotsCoverWrites ==
  Stepping =>
    \A d \in Ids : HasReq(sched, d) =>
      LET prepared == {n \in Of(d) : n = Len(Flying) => loop = "execute"}
      IN  /\ sched.agent.prepares[d] = Cardinality(prepared)
          /\ \A n \in prepared : \A e \in Range(Flying[n]) :
               e.id = d => sched.agent.l0[d] >= e.end

(* The scheduler's count and the pool's: what is in flight is known to both *)
(* sides, so that neither schedules nor takes back too much.                *)
CountsExact == InflightExact /\ SlotsCoverWrites

(* A result waiting to be processed belongs to a request that is still      *)
(* there: nothing is computed for a request that has ended, and a new       *)
(* request with the same id never gets a token of the old one.              *)
NoStaleResult ==
  Stepping => \A e \in Entries : HasReq(sched, e.id) /\ Contains(sched.running, e.id)

(* The pool holds slots only for requests the scheduler has, also after a   *)
(* forward pass that raised and after a stop.  Two cases are left out: an   *)
(* id that was served twice, whose second end PoolIface takes for a         *)
(* duplicate, and a pool that has itself raised, which was not told of the  *)
(* end or keeps the requests of a broken prepare frozen.                    *)
Reused(d) ==
  \E i, j \in Items : i # j /\ IdOf[i] = d /\ IdOf[j] = d
                      /\ {call[i], call[j]} \subseteq {"done", "error"}
SlotsAreReturned ==
  failure # "pool" =>
    \A d \in Ids : sched.agent.l0[d] > 0 => HasReq(sched, d) \/ Reused(d)

(* When the step thread is gone, for whatever reason, everybody it knew of  *)
(* has an answer (_fail_inflight, _reject_inbound): after a stop nobody is  *)
(* left, after a failure at most the one call that was between its check    *)
(* and its put.                                                             *)
StrandedAtMostOne ==
  loop = "dead" =>
    /\ LiveItems = {}
    /\ Cardinality({i \in Items : call[i] \in {"locked", "wait"}}) <= 1
    /\ failure = "none" => \A i \in Items : call[i] \notin {"locked", "wait"}

(* submit keeps the promises of RequestService. *)
Status(i) ==
  CASE call[i] = "locked" -> "queued"
    [] call[i] = "wait"   -> IF live[IdOf[i]] = i THEN "serving" ELSE "queued"
    [] call[i] \in {"error", "rejected"} -> "failed"
    [] OTHER -> call[i]
Gate ==
  IF stop \/ life = "terminate" THEN "closed" ELSE IF started THEN "open" ELSE "shut"
Service == INSTANCE RequestService
  WITH status <- [i \in Items |-> Status(i)], answer <- reply, gate <- Gate
ImplementsService == Service!ServiceSpec

(* Every call that got past submit's check is answered, except one that was *)
(* put into the queue after the step thread had failed and emptied it.  (A  *)
(* pool that drops a request from every batch, because one pull is over the *)
(* budget, also keeps it waiting; the roles leave that out.)                *)
Stranded(i) == failure # "none" /\ loop = "dead" /\ call[i] = "wait" /\ Contains(inbound, i)
EveryRequestAnswered ==
  \A i \in Items :
    call[i] = "locked" ~> call[i] \in {"done", "error", "rejected"} \/ Stranded(i)
=============================================================================
