---------------------------- MODULE NodeScheduler ----------------------------
(***************************************************************************)
(* The node scheduler (python/lake/runtime/node_scheduler.py): continuous  *)
(* batching under a token budget, decoding ahead of results that have not  *)
(* been processed (overlap), and what it does to the pool's slots.         *)
(*                                                                         *)
(* It belongs to the engine's step thread, so its methods are operators on *)
(* a record with the fields of NodeScheduler:                              *)
(*   req       per id, the host request [item, computed, out], or NoReq    *)
(*   waiting, running   sequences of ids                                   *)
(*   inflight  per id, decode tokens scheduled and not processed           *)
(*   results   batches executed and not processed, oldest first            *)
(*   staged, buf   ids with a token in FutureMap                           *)
(*   agent     the pool, see PoolAgent                                     *)
(* Speculative decoding is switched off in the code (_spec_enabled) and    *)
(* grammar masks change no state; both are left out.  A token is counted,  *)
(* not named.                                                              *)
(***************************************************************************)
EXTENDS PoolAgent

CONSTANTS
  Items,      \* calls of Generate
  IdOf,       \* the request id each call carries
  PromptLen,  \* the length of its prompt
  MaxNew,     \* the tokens it asks for
  Hint,       \* the prefix the router believes to be on this node
  Roles,      \* configurations: RoleConfig
  BufReqs,    \* InputBuffers.max_num_reqs
  BufTokens,  \* InputBuffers.max_num_tokens
  NoReq

(* RoleConfig.__post_init__ refuses a budget, a number of places or a       *)
(* warmup of zero; the other numbers switch something off at zero, and      *)
(* below zero, which it lets pass, do the same as at zero.                  *)
RoleOK(r) ==
  /\ r.overlap \in BOOLEAN /\ r.partial \in BOOLEAN
  /\ r.budget \in Nat \ {0} /\ r.maxRunning \in Nat \ {0} /\ r.warm \in Nat \ {0}
  /\ r.chunk \in Nat /\ r.maxLen \in Nat /\ r.pull \in Nat

ASSUME RolesAssumption == \A r \in Roles : RoleOK(r)
ASSUME ItemsAssumption ==
  /\ IdOf \in [Items -> Ids] /\ Hint \in [Items -> Nat]
  /\ PromptLen \in [Items -> Nat \ {0}]
  /\ MaxNew \in [Items -> Nat \ {0}]   \* build_req_from_generate: max_new or 4
ASSUME BufAssumption == BufReqs \in Nat \ {0} /\ BufTokens \in Nat \ {0}

NewSched ==
  [req |-> [d \in Ids |-> NoReq], waiting |-> <<>>, running |-> <<>>,
   inflight |-> [d \in Ids |-> 0], results |-> <<>>,
   staged |-> {}, buf |-> {}, agent |-> NewAgent]

HasReq(s, d) == s.req[d] # NoReq
HasWork(s) == s.waiting # <<>> \/ s.running # <<>> \/ s.results # <<>>
Prompt(s, d) == PromptLen[s.req[d].item]
Left(s, d) == MaxNew[s.req[d].item] - s.req[d].out

(* add_request refuses what can outgrow max_model_length. *)
TooLong(role, i) == role.maxLen > 0 /\ PromptLen[i] + MaxNew[i] > role.maxLen

(* add_request: the hint, cut to the prompt, counts as computed. *)
AddRequest(s, i) ==
  [s EXCEPT !.req[IdOf[i]] =
              [item |-> i, computed |-> Min({Hint[i], PromptLen[i]}), out |-> 0],
            !.waiting = Append(@, IdOf[i])]

(* FutureMap.clear *)
Cleared(s, d) == [s EXCEPT !.staged = @ \ {d}, !.buf = @ \ {d}]

(* abandon_req *)
AbandonReq(s, d) ==
  [Cleared(s, d) EXCEPT !.waiting = Remove(@, d), !.running = Remove(@, d),
                        !.inflight[d] = 0, !.req[d] = NoReq]

-----------------------------------------------------------------------------
(* schedule.  An entry of a batch is [id, n, at, read, start, end]: n       *)
(* tokens of id, whose computed count was at; it reads below read and       *)
(* writes from start up to end.                                             *)

(* Free places in running are filled from waiting, in order. *)
Filled(s, role) ==
  LET k == Min({Len(s.waiting), Max({0, role.maxRunning - Len(s.running)})})
  IN  [s EXCEPT !.running = @ \o SubSeq(s.waiting, 1, k),
                !.waiting = SubSeq(@, k + 1, Len(@))]

(* Pass A: one decode token behind everything already scheduled. *)
DecodeEntry(s, d) ==
  LET qs == Max({0, Prompt(s, d) + s.req[d].out + s.inflight[d] - 1})
  IN  [id |-> d, n |-> 1, at |-> s.req[d].computed, read |-> qs, start |-> qs, end |-> qs + 1]

CanDecode_IgnoresInflight(s, d, role) ==
  /\ s.req[d].computed >= Prompt(s, d)
  /\ Left(s, d) > 0
  /\ role.maxLen > 0 => role.maxLen - (s.req[d].computed + s.inflight[d]) > 0

CanDecode(s, d, role) ==
  /\ s.req[d].computed >= Prompt(s, d)
  /\ Left(s, d) - s.inflight[d] > 0
  /\ role.maxLen > 0 => role.maxLen - (s.req[d].computed + s.inflight[d]) > 0

DecodeOne(p, d, role) ==
  IF p.budget > 0 /\ CanDecode(p.sched, d, role)
    THEN [budget |-> p.budget - 1,
          plan   |-> Append(p.plan, DecodeEntry(p.sched, d)),
          sched  |-> [p.sched EXCEPT !.inflight[d] = @ + 1]]
    ELSE p

HasUnprocessedPrompt_Never(s, d) == FALSE

(* _has_unprocessed_prompt *)
HasUnprocessedPrompt(s, d) ==
  \E b \in Range(s.results) : \E e \in Range(b) : e.id = d /\ e.at < Prompt(s, d)

(* Pass B: a chunk of a prompt with no earlier chunk under way. *)
ExtendOne(p, d, role) ==
  LET s   == p.sched
      c   == s.req[d].computed
      n   == Min({Prompt(s, d) - c, p.budget}
                 \cup (IF role.chunk > 0 THEN {role.chunk} ELSE {})
                 \cup (IF role.maxLen > 0 THEN {role.maxLen - c} ELSE {}))
  IN  IF /\ p.budget > 0
         /\ \A e \in Range(p.plan) : e.id # d
         /\ c < Prompt(s, d)
         /\ ~HasUnprocessedPrompt(s, d)
         /\ n > 0
        THEN [p EXCEPT !.budget = @ - n,
                       !.plan = Append(@, [id |-> d, n |-> n, at |-> c,
                                           read |-> IF c > 0 THEN c ELSE NoRead,
                                           start |-> c, end |-> c + n])]
        ELSE p

(* Both passes share one token budget; decodes come first. *)
Passes(s, role) ==
  LET full    == Filled(s, role)
      start   == [sched |-> full, plan |-> <<>>, budget |-> role.budget]
      decodes == FoldLeft(LAMBDA p, d : DecodeOne(p, d, role), start, full.running)
  IN  FoldLeft(LAMBDA p, d : ExtendOne(p, d, role), decodes, full.running)

(* schedule: the scheduler afterwards and the batch, empty when idle. *)
Schedule(s, role) ==
  LET p == Passes(s, role) IN [sched |-> p.sched, plan |-> p.plan]

-----------------------------------------------------------------------------
(* _run_batch *)

(* _respect_effective_sets: what the pool dropped is not in flight; it is   *)
(* scheduled again later.                                                   *)
RespectEffectiveSets(s, plan, dropped) ==
  [s EXCEPT !.inflight =
     [d \in Ids |-> IF d \in dropped
                      THEN Max({0, @[d] - (CHOOSE e \in Range(plan) : e.id = d).n})
                      ELSE @[d]]]

(* prepare_inputs: the query of an entry, cut at the end of the prompt      *)
(* while the prompt is computed.                                            *)
QueryLen(s, e) ==
  (IF e.at < Prompt(s, e.id) THEN Min({Prompt(s, e.id), e.end}) ELSE e.end) - e.start

(* InputBuffers.materialize refuses a batch larger than the buffers, whose  *)
(* size is fixed in ModelRunner, and slots that do not match the query.     *)
Materializes(s, batch) ==
  /\ Len(batch) <= BufReqs
  /\ FoldLeft(LAMBDA t, e : t + QueryLen(s, e), 0, batch) <= BufTokens
  /\ \A e \in Range(batch) : QueryLen(s, e) = e.end - e.start

(* warmup runs one token of each dummy request through the same buffers. *)
WarmupFits(role) == role.warm <= BufReqs /\ role.warm <= BufTokens

(* PoolIface._validate_ready: what the pool kept is part of the plan, and   *)
(* all of it unless it may drop requests.                                   *)
ValidReady(plan, kept, role) ==
  /\ \A e \in Range(kept) : e \in Range(plan) /\ e.start <= e.end
  /\ role.partial \/ {e.id : e \in Range(kept)} = {e.id : e \in Range(plan)}

(* _run_batch up to the forward pass, as the set of its outcomes: the pool  *)
(* raises DOWNSTREAM, which leaves the agent alone; or it prepares the      *)
(* batch, which shrinks to what the pool kept, or raises on its own terms.  *)
PrepareBatch(s, plan, role) ==
  LET p    == PrepareStep(s.agent, plan, role.pull, role.partial)
      t    == [s EXCEPT !.agent = p.agent]
      kept == SelectSeq(plan, LAMBDA e : e.id \notin p.dropped)
  IN  {[sched |-> s, plan |-> plan, error |-> "pool"],
       IF p.error = "none" /\ ValidReady(plan, kept, role)
         THEN [sched |-> RespectEffectiveSets(t, plan, p.dropped), plan |-> kept,
               error |-> "none"]
         ELSE [sched |-> t, plan |-> plan, error |-> "pool"]}

(* _run_batch from there, as the set of its outcomes: the forward pass may  *)
(* raise, and does on a batch it has no buffers for; done comes in any case *)
(* and may raise itself; the result is queued only if nothing raised.       *)
ExecuteBatch(s, batch) ==
  LET t == [s EXCEPT !.agent = Done(@)]
  IN  {[sched |-> t, error |-> "forward"], [sched |-> s, error |-> "pool"]}
      \cup IF Materializes(s, batch)
             THEN {[sched |-> [t EXCEPT !.results = Append(@, batch)], error |-> "none"]}
             ELSE {}

-----------------------------------------------------------------------------
(* _process_batch_result.  p is [sched, finished]: finished are the         *)
(* requests that leave, with the number of tokens they got.                 *)

(* _finish_req up to its call of the pool *)
Leaves(s, d) ==
  [Cleared(s, d) EXCEPT !.running = Remove(@, d), !.inflight[d] = 0]

(* _finish_req with the callback that releases the host request. *)
FinishReq(p, d) ==
  LET s == p.sched
  IN  [sched |-> [Leaves(s, d) EXCEPT !.agent = OnRequestFinished(@, d), !.req[d] = NoReq],
       finished |-> p.finished \cup {[item |-> s.req[d].item, out |-> s.req[d].out]}]

(* A chunk of the prompt is computed. *)
ExtendDone(s, e) ==
  LET c == Min({Prompt(s, e.id), e.at + e.n})
  IN  [s EXCEPT !.req[e.id].computed = c, !.agent = CommitWriteExtent(@, e.id, c)]

(* A decode step has produced its token. *)
DecodeDone(s, e) ==
  [s EXCEPT !.inflight[e.id] = Max({0, @ - e.n}),
            !.req[e.id] = [@ EXCEPT !.out = @ + 1, !.computed = @ + 1],
            !.staged = @ \cup {e.id},
            !.agent = CommitWriteExtent(@, e.id, Prompt(s, e.id) + s.req[e.id].out + 1)]

ProcessEntry(p, e) ==
  LET s == p.sched
      t == DecodeDone(s, e)
  IN  CASE ~HasReq(s, e.id) -> p
        [] HasReq(s, e.id) /\ e.at < Prompt(s, e.id) -> [p EXCEPT !.sched = ExtendDone(s, e)]
        [] HasReq(s, e.id) /\ e.at >= Prompt(s, e.id) ->
             IF Left(t, e.id) <= 0
               THEN FinishReq([p EXCEPT !.sched = t], e.id)
               ELSE [p EXCEPT !.sched = t]

(* What is left of an entry when the pool raises in commit_write_extent or  *)
(* in on_request_finished: everything done before the call.                 *)
EntryRaises(p, e) ==
  LET s == p.sched
      t == DecodeDone(s, e)
  IN  CASE ~HasReq(s, e.id) -> {}
        [] HasReq(s, e.id) /\ e.at < Prompt(s, e.id) ->
             {[p EXCEPT !.sched = [ExtendDone(s, e) EXCEPT !.agent = s.agent]]}
        [] HasReq(s, e.id) /\ e.at >= Prompt(s, e.id) ->
             {[p EXCEPT !.sched = [t EXCEPT !.agent = s.agent]]}
             \cup IF Left(t, e.id) <= 0 THEN {[p EXCEPT !.sched = Leaves(t, e.id)]} ELSE {}

(* FutureMap.publish *)
Publish(s) == [s EXCEPT !.buf = @ \cup s.staged, !.staged = {}]

(* _pop_and_process: the oldest result, if there is one. *)
PopAndProcess(p) ==
  IF p.sched.results = <<>>
    THEN p
    ELSE LET q == FoldLeft(ProcessEntry, [p EXCEPT !.sched.results = Tail(@)],
                           Head(p.sched.results))
         IN  [q EXCEPT !.sched = Publish(@)]

(* The n oldest results, one after the other. *)
ProcessResults(s, n) ==
  FoldLeft(LAMBDA p, b : PopAndProcess(p), [sched |-> s, finished |-> {}],
           SubSeq(s.results, 1, n))

(* The ways in which the pool can raise in the n-th of them: the result is  *)
(* gone, its entries up to some point are processed, nothing is published.  *)
ResultRaises(s, n) ==
  LET p == ProcessResults(s, n - 1)
      b == Head(p.sched.results)
      q == [p EXCEPT !.sched.results = Tail(@)]
  IN  UNION {EntryRaises(FoldLeft(ProcessEntry, q, SubSeq(b, 1, k - 1)), b[k]) : k \in DOMAIN b}

(* _drain_results *)
DrainResults(s) == ProcessResults(s, Len(s.results))
=============================================================================
