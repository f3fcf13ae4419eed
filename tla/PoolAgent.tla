------------------------------ MODULE PoolAgent ------------------------------
(***************************************************************************)
(* The worker's side of the KV pool: PoolIface (python/lake/engine/        *)
(* pool_iface.py) over the in-process agent (agents/memory.py).  Both are  *)
(* used by the engine's one step thread only, so their calls are operators *)
(* on a record:                                                            *)
(*   l0        tokens of the request that have slots, from 0 (exclusive)   *)
(*   prepares  writes prepared since the last commit                       *)
(*   ready     a step is prepared and not done                             *)
(*   frozen    requests the prepared step uses                             *)
(*   deferred  finished requests whose slots are given back later          *)
(*   seen      PoolIface._finished_req_ids                                 *)
(***************************************************************************)
EXTENDS Integers, Sequences, SequencesExt

CONSTANTS
  Ids,       \* request ids
  PullCost   \* what pulling one request's missing blocks costs

ASSUME PullCostAssumption == PullCost \in Nat

NewAgent ==
  [l0 |-> [d \in Ids |-> 0], prepares |-> [d \in Ids |-> 0],
   ready |-> FALSE, frozen |-> {}, deferred |-> {}, seen |-> {}]

Agents ==
  [l0 : [Ids -> Nat], prepares : [Ids -> Nat],
   ready : BOOLEAN, frozen : SUBSET Ids, deferred : SUBSET Ids, seen : SUBSET Ids]

(* _apply_finish, for a set of requests: their slots are free again. *)
Freed(a, D) ==
  [a EXCEPT !.l0 = [d \in Ids |-> IF d \in D THEN 0 ELSE @[d]],
            !.prepares = [d \in Ids |-> IF d \in D THEN 0 ELSE @[d]]]

(* _flush_deferred_finish *)
Flush(a) ==
  IF a.ready \/ a.frozen # {}
    THEN a
    ELSE [Freed(a, a.deferred) EXCEPT !.deferred = {}]

OnRequestFinished_Forgets(a, d) ==
  IF d \in a.seen THEN a ELSE [a EXCEPT !.seen = @ \cup {d}]

(* on_request_finished: an id is finished once and for all; slots a         *)
(* prepared step uses are given back when that step is done.                *)
OnRequestFinished(a, d) ==
  IF d \in a.seen
    THEN a
    ELSE IF d \in a.frozen \/ a.ready
           THEN [a EXCEPT !.deferred = @ \cup {d}, !.seen = @ \cup {d}]
           ELSE [Freed(a, {d}) EXCEPT !.seen = @ \cup {d}]

CommitWriteExtent_Absolute(a, d, end) ==
  [a EXCEPT !.l0[d] = Min({@, end}), !.prepares[d] = 0]

(* commit_write_extent: the high-water mark comes down to what was really   *)
(* written, unless a later step has prepared more in the meantime.          *)
CommitWriteExtent(a, d, end) ==
  IF a.prepares[d] > 1
    THEN [a EXCEPT !.prepares[d] = @ - 1]
    ELSE [a EXCEPT !.l0[d] = Min({@, end}), !.prepares[d] = 0]

-----------------------------------------------------------------------------
(* prepare_step.  An io is [id, read, start, end]: the step reads the       *)
(* tokens below read, none when it is NoRead, and writes those from start   *)
(* up to end.                                                               *)

NoRead == -1

(* One read: a hit, a pull within the budget, a request dropped from the    *)
(* step, or TIMEOUT, which leaves what the earlier reads have done.         *)
Read(p, io, budget, partial) ==
  LET a     == p.agent
      miss  == a.l0[io.id] < io.read
      cost  == p.cost + IF miss THEN PullCost ELSE 0
      over  == miss /\ budget > 0 /\ cost > budget
  IN  CASE p.timeout \/ io.read = NoRead -> p
        [] ~p.timeout /\ over /\ partial  -> [p EXCEPT !.cost = cost, !.dropped = @ \cup {io.id}]
        [] ~p.timeout /\ over /\ ~partial -> [p EXCEPT !.timeout = TRUE]
        [] ~p.timeout /\ ~over /\ io.read # NoRead ->
             [p EXCEPT !.cost = cost,
                       !.agent = [a EXCEPT !.l0[io.id] = Max({@, io.read}),
                                           !.frozen = @ \cup {io.id}]]

(* One write that was not dropped: slots up to its end. *)
Write(p, io) ==
  IF io.id \in p.dropped
    THEN p
    ELSE [p EXCEPT !.agent =
           [p.agent EXCEPT !.l0[io.id] = Max({@, io.end}),
                           !.prepares[io.id] = @ + 1,
                           !.frozen = @ \cup {io.id}]]

(* The agent after prepare_step, the requests it dropped, and whether it    *)
(* raised PROTOCOL_ERROR or TIMEOUT.                                        *)
PrepareStep(a, ios, budget, partial) ==
  LET start == [agent |-> Flush(a), cost |-> 0, dropped |-> {}, timeout |-> FALSE]
      read  == FoldLeft(LAMBDA p, io : Read(p, io, budget, partial), start, ios)
      wrote == FoldLeft(Write, read, ios)
  IN  CASE a.ready -> [agent |-> a, dropped |-> {}, error |-> "protocol"]
        [] ~a.ready /\ read.timeout ->
             [agent |-> read.agent, dropped |-> {}, error |-> "timeout"]
        [] ~a.ready /\ ~read.timeout ->
             [agent |-> [wrote.agent EXCEPT !.ready = TRUE],
              dropped |-> wrote.dropped, error |-> "none"]

(* done *)
Done(a) == Flush([a EXCEPT !.ready = FALSE, !.frozen = {}])
=============================================================================
