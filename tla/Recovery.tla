------------------------------ MODULE Recovery ------------------------------
(***************************************************************************)
(* The kvcm process around a prefetch: start, crash, restart and shutdown  *)
(* (kvcm/kvcm/daemon.py, _serve), and what a restart makes of the rows the *)
(* ledger kept (MooncakeBackend.rebuild, TaskEngine.track_in_background,   *)
(* Ledger.gc_tasks).                                                       *)
(*                                                                         *)
(* PrefetchFlow is the flow and its copy task; here each of its steps runs *)
(* in an event loop that the process may lose at any moment.  The polling  *)
(* half of the flow is also the model of TaskEngine._track_loop, which     *)
(* polls a rebuilt handle the same way: the flow of a rebuilt handle       *)
(* starts at "poll".  The store is modelled as far as polling sees it:     *)
(* tasks with a state and keys with a replica.                             *)
(***************************************************************************)
EXTENDS PrefetchFlow

CONSTANTS
  MaxFaults   \* bound: crashes, stop signals and failed starts

ASSUME FaultsAssumption == MaxFaults \in Nat

(* A call of create_copy_task is named by its key, other calls by what they do. *)
ASSUME CallsAssumption ==
  \A c \in {"connect", "check", "rebuild", "collect", "query", "renew"} : c \notin Keys

VARIABLES
  phase,    \* how far _serve has come
  rpc,      \* calls in the threads of the RPC pool
  task,     \* per key: its copy task in the store
  replica,  \* keys with a replica on the target
  lost,     \* history: a replica has disappeared
  kept,     \* the prefix is on the keepalive list
  told,     \* publish_block_stored has been called
  faults    \* crashes, stop signals and failed starts so far

storeVars == <<task, replica, lost>>
daemonVars == <<phase, faults>>
readyVars == <<kept, told>>
allVars == <<vars, storeVars, daemonVars, readyVars, rpc>>

RecoveryInit ==
  /\ Init
  /\ phase = "down" /\ rpc = {} /\ faults = 0
  /\ task = [k \in Keys |-> "none"] /\ replica = {} /\ lost = FALSE
  /\ kept = FALSE /\ told = FALSE

(* The coroutines of the flow can take a step: they are not gone with an    *)
(* earlier process, _wait_executor does not block the event loop, and       *)
(* before "serve" only rebuilt handles have a coroutine.                    *)
Polling == flow \in {"poll", "conflict", "settle", "abandon poll"}
Alive ==
  /\ flow # "gone"
  /\ \/ phase \in {"serve", "stopping", "halting"}
     \/ phase = "collect" /\ Polling

Fault == faults < MaxFaults /\ faults' = faults + 1

-----------------------------------------------------------------------------
(* The process ends *)

(* What is lost with the process.  A flow that was not over is gone; what   *)
(* its calls did in the store, and the ledger, stay.                        *)
Vanish ==
  /\ phase' = "down" /\ rpc' = {}
  /\ plans' = FALSE /\ watch' = {} /\ writes' = <<>> /\ cancelled' = FALSE
  /\ sub' = ChildrenCancelled
  /\ flow' = IF Over /\ (verdict = "ready" => told) THEN flow ELSE "gone"
  /\ UNCHANGED <<copy, error, ids, why, stopped, verdict, row, storeVars, readyVars>>

Crash == phase # "down" /\ Fault /\ Vanish

(* _hard_exit: connect or rebuild takes too long or meets the stop signal. *)
HardExit == phase \in {"connect", "rebuild"} /\ Fault /\ Vanish

DrainTimeout_Unbounded == FALSE

(* _hard_exit: calls are still in the pool when the bounded wait ends. *)
DrainTimeout == phase = "draining" /\ rpc # {} /\ Vanish /\ UNCHANGED faults

(* _wait_executor finds the pool without a call; then client.close, and     *)
(* ledger.close, which does the writes still queued.                        *)
Close ==
  /\ phase = "draining" /\ rpc = {} /\ Recorded
  /\ phase' = "closed"
  /\ UNCHANGED <<vars, storeVars, readyVars, rpc, faults>>

Exit == phase = "closed" /\ Vanish /\ UNCHANGED faults

-----------------------------------------------------------------------------
(* Start *)

Goto(p) == phase' = p /\ UNCHANGED <<vars, storeVars, readyVars>>

Boot == phase = "down" /\ Goto("connect") /\ rpc' = {"connect"} /\ UNCHANGED faults

Connected == phase = "connect" /\ Goto("check") /\ rpc' = {"check"} /\ UNCHANGED faults

(* _check_instance_segs_against_admin passes. *)
Checked == phase = "check" /\ Goto("rebuild") /\ rpc' = {"rebuild"} /\ UNCHANGED faults

(* connect, the check or rebuild raises: nothing was started, the pool is   *)
(* drained.                                                                 *)
StartFails ==
  /\ phase \in {"connect", "check", "rebuild"} /\ Fault
  /\ Goto("draining") /\ rpc' = {}

Rows(s) == {k \in Keys : row[k] = s}

Restorable_Partial == Rows("running") # {}

(* rebuild tracks a handle again when it has running rows, and as many rows *)
(* as the plan computed anew has keys.                                      *)
Restorable ==
  /\ Rows("running") # {}
  /\ Rows("none") \cup Rows("deleted") = {}

(* Failed rows beside running ones can only come from a conflict. *)
Rewatched == Rows("failed")

(* rebuild, and track_in_background for the handle it restored. *)
Rebuilt ==
  /\ phase = "rebuild"
  /\ phase' = "collect" /\ rpc' = {"collect"}
  /\ IF Restorable
       THEN /\ plans' = TRUE
            /\ ids' = Rows("running")
            /\ watch' = Rewatched
            /\ flow' = "poll" /\ copy' = "handle"
            /\ why' = "none" /\ stopped' = FALSE /\ verdict' = "none"
       ELSE UNCHANGED <<handle, watch, flow, copy, why, stopped, verdict>>
  /\ UNCHANGED <<sub, error, cancelled, writes, row, storeVars, readyVars, faults>>

(* gc_tasks deletes rows in a final state that are old enough. *)
Collectable == Rows("ready") \cup Rows("failed") \cup Rows("abandoned")

(* gc_tasks; then the keepalive loop, the engine and the server start. *)
Collected ==
  /\ phase = "collect"
  /\ phase' = "serve" /\ rpc' = rpc \ {"collect"}
  /\ \E S \in SUBSET Collectable :
       row' = [k \in Keys |-> IF k \in S THEN "deleted" ELSE row[k]]
  /\ UNCHANGED <<copyVars, flowVars, cancelled, handle, watch, writes, storeVars, readyVars, faults>>

(* gc_tasks or one of the starts raises: the finally block stops the        *)
(* engine, which cancels the coroutine that tracks a handle.                *)
ServeFails ==
  /\ phase = "collect" /\ Fault
  /\ Goto("stopping") /\ rpc' = rpc \ {"collect"}

-----------------------------------------------------------------------------
(* Stop *)

StopSignal == phase = "serve" /\ Fault /\ Goto("stopping") /\ UNCHANGED rpc

FlowDone == flow \in {"ended", "gone"} \/ (flow = "copy" /\ copy = "admission")

(* TaskEngine.shutdown: the cancelled coroutines are done, or the bounded   *)
(* wait for them is over.                                                   *)
EngineStopped ==
  /\ phase = "stopping"
  /\ FlowDone \/ stopped
  /\ Goto("halting") /\ UNCHANGED <<rpc, faults>>

(* KeepaliveLoop.stop; then the event loop blocks in _wait_executor. *)
KeepaliveStopped == phase = "halting" /\ Goto("draining") /\ UNCHANGED <<rpc, faults>>

-----------------------------------------------------------------------------
(* The store, and calls that nobody waits for *)

TaskEnds(k) ==
  /\ task[k] = "running"
  /\ \E s \in {"done", "failed", "conflict"} :
       /\ task' = [task EXCEPT ![k] = s]
       /\ replica' = IF s = "done" THEN replica \cup {k} ELSE replica
  /\ UNCHANGED <<vars, daemonVars, readyVars, rpc, lost>>

(* The transfer that was in the way of k puts the replica there. *)
OtherTransfer(k) ==
  /\ task[k] = "conflict" /\ k \notin replica
  /\ replica' = replica \cup {k}
  /\ UNCHANGED <<vars, daemonVars, readyVars, rpc, task, lost>>

ReplicaLost(k) ==
  /\ k \in replica
  /\ replica' = replica \ {k} /\ lost' = TRUE
  /\ UNCHANGED <<vars, daemonVars, readyVars, rpc, task>>

(* Any call may be under way when its coroutine no longer waits for it: it  *)
(* was cancelled, or the call has timed out.                                *)
ThreadReturns(c) ==
  /\ c \in rpc \ {"connect", "check", "rebuild", "collect"}
  /\ c \in Keys => sub[c] \in {"lost", "failed"} \/ phase = "draining"
  /\ rpc' = rpc \ {c}
  /\ task' \in {task} \cup {[task EXCEPT ![k] = "running"] : k \in {c} \cap Keys}
  /\ UNCHANGED <<vars, replica, lost, daemonVars, readyVars>>

(* The keepalive loop renews a lease, or the flow asks for its task. *)
SweepCalls ==
  /\ phase = "serve" /\ kept /\ "renew" \notin rpc
  /\ rpc' = rpc \cup {"renew"}
  /\ UNCHANGED <<vars, storeVars, daemonVars, readyVars>>

QueryCalls ==
  /\ Alive /\ flow = "poll" /\ "query" \notin rpc
  /\ rpc' = rpc \cup {"query"}
  /\ UNCHANGED <<vars, storeVars, daemonVars, readyVars>>

-----------------------------------------------------------------------------
(* The flow inside the process *)

Around == UNCHANGED <<storeVars, daemonVars, readyVars>>

LedgerThread == phase \notin {"down", "closed"} /\ LedgerWrites /\ Around /\ UNCHANGED rpc

Issues(k) ==
  /\ Alive /\ Issue(k)
  /\ rpc' = IF sub'[k] = "flying" THEN rpc \cup {k} ELSE rpc
  /\ Around

(* A call that failed has raised, or _rpc stopped waiting for it and its    *)
(* thread stays in the pool.                                                *)
Answers(k) ==
  /\ Alive /\ Answer(k)
  /\ rpc' \in {rpc \ {k}} \cup (IF sub'[k] = "failed" THEN {rpc} ELSE {})
  /\ task' = [task EXCEPT ![k] = IF sub'[k] = "issued" THEN "running" ELSE @]
  /\ UNCHANGED <<replica, lost, daemonVars, readyVars>>

(* The steps of the two coroutines that need no answer from the store. *)
Advances ==
  /\ Alive
  /\ \/ Admission \/ Gather \/ Drain \/ RecordFull \/ RecordPartial
     \/ CopyReturns \/ DrainCopy \/ ConflictRecorded \/ Settled \/ Abandoned
  /\ Around /\ UNCHANGED rpc

TimesOut ==
  /\ Alive
  /\ Interrupt("timeout") \/ PollTimeout
  /\ Around /\ UNCHANGED rpc

(* Shutdown's cancellation reaches the coroutine. *)
Cancelled ==
  /\ phase = "stopping"
  /\ Interrupt("stop") \/ StopInDrain \/ StopInPoll \/ StopInAbandon
  /\ Around /\ UNCHANGED rpc

(* query_task has the states of the handle's tasks. *)
Finds(s) == {k \in ids : task[k] = s}

(* _verify_missing: every key of the plan has a replica on the target. *)
Verified == Keys \subseteq replica

QueryAnswered ==
  /\ Alive /\ "query" \in rpc
  /\ \/ Finds("failed") = {} /\ Finds("conflict") # {} /\ Conflict(Finds("conflict"))
     \/ Finds("failed") # {} /\ Settle("failed")
     \/ Finds("done") = ids /\ ~Verified /\ Settle("failed")
     \/ Finds("done") = ids /\ Verified /\ Settle("ready")
     \/ Verified /\ SettleWatched
  /\ rpc' = rpc \ {"query"}
  /\ Around

(* TaskEngine._on_ready: the keepalive row is written. *)
OnReady ==
  /\ Alive /\ flow = "ended" /\ verdict = "ready" /\ ~told
  /\ ~kept /\ kept' = TRUE
  /\ UNCHANGED <<vars, storeVars, daemonVars, rpc, told>>

(* And the event is handed to the publisher of the target, if it has one;   *)
(* no failure of either reaches the flow.                                   *)
PublishBlockStored ==
  /\ Alive /\ flow = "ended" /\ verdict = "ready" /\ kept
  /\ ~told /\ told' = TRUE
  /\ UNCHANGED <<vars, storeVars, daemonVars, rpc, kept>>

-----------------------------------------------------------------------------
Progress ==
  \/ Boot \/ Connected \/ Checked \/ Rebuilt \/ Collected
  \/ EngineStopped \/ KeepaliveStopped \/ DrainTimeout \/ Close \/ Exit
  \/ LedgerThread \/ Advances \/ TimesOut \/ Cancelled \/ OnReady \/ PublishBlockStored
  \/ \E k \in Keys : Issues(k) \/ Answers(k)

Otherwise ==
  \/ Crash \/ HardExit \/ StartFails \/ ServeFails \/ StopSignal
  \/ SweepCalls \/ QueryCalls \/ QueryAnswered
  \/ \E c \in rpc : ThreadReturns(c)
  \/ \E k \in Keys : TaskEnds(k) \/ OtherTransfer(k) \/ ReplicaLost(k)

RecoveryNext == Progress \/ Otherwise

RecoverySpec == RecoveryInit /\ [][RecoveryNext]_allVars

(* The process is started again, its threads run, calls of the store        *)
(* return, and the deadlines of the flow and of _track pass.                *)
RecoveryFairSpec == RecoverySpec /\ WF_allVars(Progress)

-----------------------------------------------------------------------------
(* Properties *)

(* Every variable has its type. *)
RecoveryTypeOK ==
  /\ TypeOK
  /\ phase \in {"down", "connect", "check", "rebuild", "collect", "serve",
                "stopping", "halting", "draining", "closed"}
  /\ rpc \subseteq Keys \cup {"connect", "check", "rebuild", "collect", "query", "renew"}
  /\ task \in [Keys -> {"none", "running", "done", "failed", "conflict"}]
  /\ replica \subseteq Keys
  /\ {lost, kept, told} \subseteq BOOLEAN
  /\ faults \in 0 .. MaxFaults

(* A row is "failed" without a conflict only because a task of the store    *)
(* failed or a replica that was there is gone: a restart never verifies a   *)
(* plan with keys that were not submitted (rebuild, partial handles).       *)
NoFalseFailure ==
  (\E k \in Keys : row[k] = "failed" /\ task[k] # "conflict") =>
    lost \/ \E k \in Keys : task[k] = "failed"

(* READY is recorded only for a prefix all of whose keys got a replica, by  *)
(* whichever process polled and whoever made the transfer (rebuild: on no   *)
(* path is success reported for a replica that did not arrive).             *)
NoFalseReady ==
  (\E k \in Keys : row[k] = "ready") => lost \/ replica = Keys

(* What the ledger says of a prefix is true, through restarts (query_task,  *)
(* _verify_missing, _verify_watch, rebuild).                                *)
VerdictsAreTrue == NoFalseFailure /\ NoFalseReady /\ ReadyIsWhole

(* The row of a task that failed for a conflict stays failed, whatever the  *)
(* flow, a timeout, a shutdown or a later process does with the handle      *)
(* (abandon, _verify_watch, rebuild).  Two rewritings remain, both by a     *)
(* shutdown that lands in the wait for a write made after _watch was        *)
(* emptied, and then abandons all tasks of the handle: the write of a       *)
(* timeout's abandon, and the one of _verify_watch for the tasks that are   *)
(* ready.  A shutdown that lands in a poll or in the write of the conflict  *)
(* itself rewrites nothing.                                                 *)
ConflictStaysFailed ==
  [][\A k \in Keys : row[k] = "failed" /\ sub[k] = "conflict" =>
       \/ row'[k] \in {"failed", "deleted"}
       \/ row'[k] = "abandoned" /\ why = "late stop"]_allVars

(* A handle that a starting process finds "running" with all its rows is    *)
(* settled by it or by a process after it: it is tracked until its tasks    *)
(* have ended or the time is up (rebuild, _track_loop).  Only when gc_tasks *)
(* deletes the row of a conflict beside running ones, and the process then  *)
(* ends and starts again, is the handle given up as partial.                *)
RestartSettles ==
  (phase = "rebuild" /\ Rows("running") # {} /\ Rows("none") \cup Rows("deleted") = {})
    ~> (Rows("running") = {} \/ (phase = "rebuild" /\ Rows("deleted") # {}))

(* A shutdown, and a start that fails, end with the end of the process,     *)
(* whatever the coroutines do with their cancellation and although calls of *)
(* the store may never return: the ones cancelled or timed out, whose       *)
(* threads stay in the pool (_wait_executor, _hard_exit; _rpc: a timeout    *)
(* does not interrupt the thread).                                          *)
ShutdownEnds == phase \in {"stopping", "halting", "draining"} ~> phase = "down"
=============================================================================
