------------------------------ MODULE CopyPath ------------------------------
(***************************************************************************)
(* One prefetch intent of the KV cache manager against the store, from the *)
(* start of the process to the verdict: connect, register the segments and *)
(* check their names (kvcm/daemon.py); compute the keys and their plan     *)
(* (KeyPlan); measure the new bytes, ask for the room of the first segment *)
(* outside the transfer gate and again inside it (backend.py,              *)
(* task_engine.py); copy; verify the replicas batch by batch (MasterAdmin).*)
(*                                                                         *)
(* TaskEngine models the gate among several intents, PrefetchFlow and      *)
(* Recovery the submission, the ledger and crashes; here the numbers, the  *)
(* names and the answers of the store are the subject.                     *)
(***************************************************************************)
EXTENDS MasterAdmin

CONSTANTS Jobs,        \* the arguments of the process and the intent
          Segs,        \* the segments' names, and their transport endpoints
          Cap,         \* the capacity of a segment, in bytes
          KeyBytes,    \* the size of a key's replica
          MaxTrouble   \* bound: failed answers, lost replicas, unmounts

ASSUME CopyAssumption ==
  Cap \in Nat /\ KeyBytes \in Nat \ {0} /\ MaxTrouble \in Nat

(***************************************************************************)
(* A job: specs, inst (the --instance-segs and the target), details (the   *)
(* master's segments), tokens, block, seeded, tp, peer, put (the key       *)
(* arguments), attr, hidden (the attribute that holds a replica's size,    *)
(* and the ranks whose replicas have none), cold (the ranks that were      *)
(* never warmed), nof (a replica of every key is already on that segment,  *)
(* not in DRAM).                                                           *)
(***************************************************************************)
VARIABLES job,
          keys,     \* KeysForTokens and CopyPlan of the job: the code computes
          plan,     \* them at each use, from arguments that never change
          stage,    \* where the intent is; "end" with a reason in why
          why,
          slot,     \* the _AdmissionSlot: key, need
          store,    \* the replicas: [key, ep, kind]
          others,   \* bytes other prefixes use, per segment
          mounted,  \* the segments whose worker is up
          copied,   \* the pairs whose copy task has succeeded
          left,     \* the batches still to fetch
          got,      \* the rows merged so far
          seen,     \* history: pairs in DRAM when their row was answered
          lost,     \* history: [key, ep] of DRAM replicas lost since slot was filled
          trouble

args == <<job, keys, plan>>
envVars == <<store, others, mounted>>
vars == <<job, keys, plan, stage, why, slot, store, others, mounted, copied, left, got, seen, lost, trouble>>

NoSlot == [key |-> <<>>, need |-> 0]

(* _copy_plan: nothing is located for a prefix without keys.               *)
CopyPlan(j, ks) ==
  LET dir == DirectoryFromSpecs(j.specs)
      targets == Locate(dir.val, j.inst)
  IN CASE ~ks.ok -> ks
       [] ks.val = <<>> -> Ok(<<>>)
       [] ~dir.ok -> dir
       [] ~targets.ok -> targets
       [] OTHER -> BuildPlan(ks.val, targets.val, j.tp, j.peer)

Keys == keys.val
Plan == plan.val
Probe == Plan[1][2]
SlotKey == <<Probe, {Plan[i][1] : i \in DOMAIN Plan}>>

(***************************************************************************)
(* The store.                                                              *)
(***************************************************************************)
EndpointsOf(key, kind) == {r.ep : r \in {x \in store : x.key = key /\ x.kind = kind}}

InDram(key, ep) == ep \in EndpointsOf(key, "memory")

UsedOf(ep) == others[ep] + KeyBytes * Cardinality({r \in store : r.ep = ep /\ r.kind = "memory"})

(* A copy is addressed by name; what the master reports is the endpoint.   *)
EndpointOf(seg) == ParseSegmentsDetail(job.details).val[seg]

Replica(key, ep, kind) == [key |-> key, ep |-> ep, kind |-> kind]

Init ==
  /\ job \in Jobs
  /\ keys = KeysForTokens(job.tokens, job)
  /\ plan = CopyPlan(job, keys)
  /\ stage = "start" /\ why = ""
  /\ slot = NoSlot
  /\ store = IF ~keys.ok THEN {}
             ELSE {Replica(k, "src", "memory") : k \in {x \in Range(Keys) : x.rank \notin job.cold}}
                    \cup {Replica(k, job.nof, "nof") : k \in {x \in Range(Keys) : job.nof # ""}}
  /\ others = [s \in Segs |-> 0]
  /\ mounted = Segs
  /\ copied = {} /\ left = <<>> /\ got = <<>>
  /\ seen = {} /\ lost = {}
  /\ trouble = 0

Troubled == trouble < MaxTrouble /\ trouble' = trouble + 1

End(reason) == stage' = "end" /\ why' = reason
Go(next) == stage' = next /\ UNCHANGED why

(***************************************************************************)
(* _serve: connect, build_backend, the check of the segments' names.       *)
(***************************************************************************)
Connect ==
  /\ stage = "start"
  /\ \/ Go("boot") /\ UNCHANGED trouble
     \/ Troubled /\ End("setup")
  /\ UNCHANGED <<args, slot, envVars, copied, left, got, seen, lost>>

Configured == ForEach(job.specs, LAMBDA spec : ParseSpec(spec).val.segs)

Boot ==
  /\ stage = "boot"
  /\ \/ /\ IF ~DirectoryFromSpecs(job.specs).ok THEN End("specs")
           ELSE IF ~ValidateConfiguredSegs(Configured, job.details).ok THEN End("segs")
           ELSE Go("exists")
        /\ UNCHANGED trouble
     \/ DirectoryFromSpecs(job.specs).ok /\ Troubled /\ End("segs")   \* the admin port is down
  /\ UNCHANGED <<args, slot, envVars, copied, left, got, seen, lost>>

(***************************************************************************)
(* exists and is_exist: one code per key, 1 or 0; any other code, or a     *)
(* short answer, is a failed query and not an absence.                     *)
(***************************************************************************)
EntryExists(code) == code = 1

IsExist(codes) ==
  IF Len(codes) # Len(Keys) \/ \E i \in DOMAIN codes : codes[i] \notin {0, 1}
    THEN Raise("query")
    ELSE Ok([i \in DOMAIN codes |-> EntryExists(codes[i])])

CodeOf(key) == IF \E r \in store : r.key = key THEN 1 ELSE 0

(* What batch_is_exist may answer: the codes; an error code among them, or *)
(* one code less.                                                          *)
TrueCodes == [i \in DOMAIN Keys |-> CodeOf(Keys[i])]
BadCodes == {[TrueCodes EXCEPT ![i] = -900] : i \in DOMAIN Keys} \cup {Front(TrueCodes)}

Exists ==
  /\ stage = "exists"
  /\ IF ~keys.ok THEN End("seed") /\ UNCHANGED trouble
     ELSE IF Keys = <<>> THEN End("not in pool") /\ UNCHANGED trouble
     ELSE \E codes \in {TrueCodes} \cup BadCodes :
            LET found == IsExist(codes)
            IN /\ IF codes = TrueCodes THEN UNCHANGED trouble ELSE Troubled
               /\ IF ~found.ok THEN End("query")
                  ELSE IF \E i \in DOMAIN codes : ~found.val[i] THEN End("not in pool")
                  ELSE Go("outside")
  /\ UNCHANGED <<args, slot, envVars, copied, left, got, seen, lost>>

(***************************************************************************)
(* _new_bytes_by_segment: the bytes the plan adds to its first segment.    *)
(* A key already there adds nothing; one whose size cannot be read counts  *)
(* as much as the first one that can.                                      *)
(***************************************************************************)
Buf(key) ==
  LET n == IF key.rank \in job.hidden THEN NoSize ELSE KeyBytes
  IN [size |-> IF job.attr = "size" THEN n ELSE NoSize,
      size_ |-> IF job.attr = "size_" THEN n ELSE NoSize]

SizeOf(key) == IF EndpointsOf(key, "memory") = {} THEN NoSize ELSE BufferSize(Buf(key))

Counted_Anywhere(key, seg) == EndpointsOf(key, "memory") = {}

Counted(key, seg) == ~InDram(key, seg)

NewBytesBySegment ==
  LET known == SelectSeq(Keys, LAMBDA k : SizeOf(k) # NoSize)
      fresh == SelectSeq(Keys, LAMBDA k : <<k, Probe>> \in Range(Plan) /\ Counted(k, Probe))
      Bytes(k) == IF SizeOf(k) # NoSize THEN SizeOf(k) ELSE SizeOf(known[1])
  IN IF known = <<>> /\ fresh # <<>>
       THEN Raise("query")
       ELSE Ok(FoldLeft(LAMBDA n, k : n + Bytes(k), 0, fresh))

(***************************************************************************)
(* _admit_new_bytes, outside the gate (check_segment_room) or inside it    *)
(* (copy).  The need is measured once for the wait, and the room is asked  *)
(* for on every turn; another process runs between the two.                *)
(***************************************************************************)
Measure ==
  /\ stage \in {"outside", "gate"}
  /\ \/ /\ ~plan.ok
        /\ End("plan") /\ UNCHANGED <<slot, lost, trouble>>
     \/ /\ plan.ok /\ slot.key # SlotKey
        /\ LET need == NewBytesBySegment
           IN IF need.ok
                THEN slot' = [key |-> SlotKey, need |-> need.val] /\ Go(stage) /\ lost' = {}
                ELSE End("query") /\ UNCHANGED <<slot, lost>>
        /\ UNCHANGED trouble
     \/ /\ plan.ok /\ slot.key # SlotKey
        /\ Troubled /\ End("query") /\ UNCHANGED <<slot, lost>>
  /\ UNCHANGED <<args, envVars, copied, left, got, seen>>

(* _check_segment: what one answer of the admin port means for the wait.   *)
CheckSegment(a, need) ==
  LET q == QuerySegment(a)
  IN CASE ~q.ok /\ q.why = "gone" -> "stop"
       [] ~q.ok /\ q.why = "404" -> "stop at 404"
       [] ~q.ok /\ q.why = "temporary" -> "wait"
       [] ~q.ok -> "query"
       [] q.val.cap = 0 -> "stop"
       [] need > q.val.cap - q.val.used -> "wait"
       [] OTHER -> "pass"

Numbers(used, cap) == [status |-> 200, body |-> "numbers", used |-> used, cap |-> cap]
Refusal(status, body) == [status |-> status, body |-> body, used |-> 0, cap |-> 0]

TrueAnswer(seg) ==
  IF seg \in mounted THEN Numbers(UsedOf(seg), Cap) ELSE Refusal(500, "not found")

(* The master's port is down, a gateway answers for it, or the body is not *)
(* the one that was asked for.                                             *)
BadAnswers == {Refusal(0, "")} \cup {Refusal(status, "html") : status \in {503, 404, 200}}

Follow(verdict) ==
  CASE verdict = "pass" -> Go(IF stage = "outside" THEN "gate" ELSE "submit")
    [] verdict = "wait" -> Go("outside")
    [] OTHER -> End(verdict)

Ask ==
  /\ stage \in {"outside", "gate"}
  /\ plan.ok /\ slot.key = SlotKey
  /\ IF slot.need = 0
       THEN Follow("pass") /\ UNCHANGED trouble
       ELSE \/ Follow(CheckSegment(TrueAnswer(Probe), slot.need)) /\ UNCHANGED trouble
            \/ \E a \in BadAnswers : Troubled /\ Follow(CheckSegment(a, slot.need))
  /\ UNCHANGED <<args, slot, envVars, copied, left, got, seen, lost>>

(* The tasks are created, a moment after the answer: nothing is reserved.  *)
Submit ==
  /\ stage = "submit"
  /\ \/ Go("copying") /\ UNCHANGED trouble
     \/ Troubled /\ End("copy")      \* create_copy_task is refused
  /\ UNCHANGED <<args, slot, envVars, copied, left, got, seen, lost>>

(* The budget of the intent is used up before the copy, or while polling.  *)
TimesOut ==
  /\ stage \in {"outside", "gate", "submit", "copying"}
  /\ End("timeout")
  /\ UNCHANGED <<args, slot, envVars, copied, left, got, seen, lost, trouble>>

(***************************************************************************)
(* The copy tasks, run by the master and the workers.  A key already on    *)
(* the segment is skipped, and succeeds.                                   *)
(***************************************************************************)
CopyLands ==
  /\ stage = "copying"
  /\ \E i \in DOMAIN Plan :
    LET ep == EndpointOf(Plan[i][2]) IN
    /\ Plan[i] \notin copied
    /\ ep \in mounted
    /\ EndpointsOf(Plan[i][1], "memory") # {}
    /\ InDram(Plan[i][1], ep) \/ UsedOf(ep) + KeyBytes <= Cap
    /\ store' = store \cup {Replica(Plan[i][1], ep, "memory")}
    /\ copied' = copied \cup {Plan[i]}
    /\ UNCHANGED <<args, stage, why, slot, others, mounted, left, got, seen, lost, trouble>>

(* query_task says FAILED.                                                 *)
CopyFails ==
  /\ stage = "copying" /\ copied # Range(Plan)
  /\ Troubled /\ End("copy")
  /\ UNCHANGED <<args, slot, envVars, copied, left, got, seen, lost>>

(***************************************************************************)
(* query_task once every task succeeded: _verify_missing.                  *)
(***************************************************************************)
List(eps) == [form |-> "list", eps |-> SetToSeq(eps)]

TrueRow(key) ==
  [form |-> "object", ok |-> TRUE, values |-> List(EndpointsOf(key, "memory")),
   nof |-> List(EndpointsOf(key, "nof")), disk |-> [form |-> "absent", eps |-> <<>>],
   local |-> [form |-> "absent", eps |-> <<>>]]

TrueReply(batch) == [form |-> "object", rows |-> [k \in Range(batch) |-> TrueRow(k)]]

(* No answer or no JSON; a row left out; a key not answered; a descriptor  *)
(* without an endpoint.                                                    *)
BadReplies(batch) ==
  LET true == TrueReply(batch)
      With(k, row) == [true EXCEPT !.rows[k] = row]
  IN {[form |-> "junk", rows |-> <<>>]}
       \cup {[true EXCEPT !.rows = [j \in Range(batch) \ {k} |-> TrueRow(j)]] : k \in Range(batch)}
       \cup {With(k, [TrueRow(k) EXCEPT !.ok = FALSE]) : k \in Range(batch)}
       \cup {With(k, [TrueRow(k) EXCEPT !.values.eps = <<"">>]) : k \in Range(batch)}

StartVerify ==
  /\ stage = "copying" /\ copied = Range(Plan)
  /\ Go("verify")
  /\ left' = Batches(Keys)
  /\ got' = <<>> /\ seen' = {}
  /\ UNCHANGED <<args, slot, envVars, copied, lost, trouble>>

(* A pair is missing when no DRAM replica has the segment as its endpoint. *)
Missing(parsed) ==
  {p \in Range(Plan) : p[2] \notin Range(parsed[p[1]].memory)}

(* A failed query ends this poll, not the intent.                          *)
PollAgain == Go("copying") /\ left' = <<>> /\ got' = <<>> /\ seen' = {}

Fetch ==
  /\ stage = "verify" /\ left # <<>>
  /\ \/ /\ got' = ParseBatchQueryKeys(TrueReply(left[1])).val @@ got
        /\ left' = Tail(left)
        /\ seen' = seen \cup {p \in Range(Plan) : p[1] \in Range(left[1]) /\ InDram(p[1], p[2])}
        /\ Go("verify") /\ UNCHANGED trouble
     \/ \E reply \in BadReplies(left[1]) :
          /\ Troubled
          /\ LET parsed == ParseBatchQueryKeys(reply)
             IN IF parsed.ok
                  THEN /\ got' = parsed.val @@ got /\ left' = Tail(left)
                       /\ Go("verify") /\ UNCHANGED seen
                  ELSE PollAgain
  /\ UNCHANGED <<args, slot, envVars, copied, lost>>

Conclude ==
  /\ stage = "verify" /\ left = <<>>
  /\ IF ~RequireRows(Keys, got) THEN PollAgain
     ELSE /\ End(IF Missing(got) = {} THEN "ready" ELSE "missing")
          /\ UNCHANGED <<left, got, seen>>
  /\ UNCHANGED <<args, slot, envVars, copied, lost, trouble>>

(***************************************************************************)
(* The other tenants of the store.                                         *)
(***************************************************************************)
Running == stage \notin {"start", "boot", "end"}

OthersUse ==
  \E s \in Segs, n \in {-KeyBytes, KeyBytes} :
    /\ Running /\ s \in mounted
    /\ others[s] + n >= 0 /\ UsedOf(s) + n <= Cap
    /\ others' = [others EXCEPT ![s] = @ + n]
    /\ UNCHANGED <<args, stage, why, slot, store, mounted, copied, left, got, seen, lost, trouble>>

(* The same key is copied to its segment for somebody else.                *)
OthersCopy ==
  /\ stage \in {"outside", "gate"} /\ plan.ok
  /\ \E i \in DOMAIN Plan :
    LET ep == EndpointOf(Plan[i][2]) IN
    /\ ep \in mounted /\ ~InDram(Plan[i][1], ep) /\ UsedOf(ep) + KeyBytes <= Cap
    /\ EndpointsOf(Plan[i][1], "memory") # {}
    /\ store' = store \cup {Replica(Plan[i][1], ep, "memory")}
    /\ UNCHANGED <<args, stage, why, slot, others, mounted, copied, left, got, seen, lost, trouble>>

Drop(replicas) ==
  /\ store' = store \ replicas
  /\ lost' = lost \cup {<<r.key, r.ep>> : r \in {x \in replicas : x.kind = "memory"}}

Evict ==
  /\ Running /\ Troubled
  /\ \E r \in store : r.kind = "memory" /\ Drop({r})
  /\ UNCHANGED <<args, stage, why, slot, others, mounted, copied, left, got, seen>>

Unmount ==
  \E s \in mounted :
    /\ Running /\ Troubled
    /\ mounted' = mounted \ {s}
    /\ Drop({r \in store : r.ep = s})
    /\ others' = [others EXCEPT ![s] = 0]
    /\ UNCHANGED <<args, stage, why, slot, copied, left, got, seen>>

IntentStep ==
  Connect \/ Boot \/ Exists \/ Measure \/ Ask \/ Submit \/ TimesOut \/ StartVerify \/ Fetch \/ Conclude

StoreStep == CopyLands \/ CopyFails \/ OthersUse \/ OthersCopy \/ Evict \/ Unmount

Next == IntentStep \/ StoreStep

Spec == Init /\ [][Next]_vars

-----------------------------------------------------------------------------
(***************************************************************************)
(* The types.  The store never holds more on a segment than its capacity.  *)
(***************************************************************************)
TypeOK ==
  /\ job \in Jobs
  /\ stage \in {"start", "boot", "exists", "outside", "gate", "submit", "copying", "verify", "end"}
  /\ (stage = "end") <=> (why # "")
  /\ why \in {"", "setup", "specs", "segs", "seed", "not in pool", "plan", "query", "stop",
             "stop at 404", "timeout", "copy", "missing", "ready"}
  /\ slot.need \in Nat
  /\ \A r \in store : r.kind \in {"memory", "nof"} /\ r.ep \in Segs \cup {"src"}
  /\ \A s \in Segs : UsedOf(s) \in 0..Cap /\ (s \notin mounted => UsedOf(s) = 0)
  /\ copied # {} => copied \subseteq Range(Plan)

(***************************************************************************)
(* keys.py build_plan: an accepted plan has every key once, in order, and  *)
(* the ranks are dealt to the instance's segments in equal runs, so that   *)
(* no segment goes without.                                                *)
(***************************************************************************)
PlanFollowsRanks ==
  stage \in {"outside", "gate", "submit", "copying", "verify"} /\ plan.ok =>
    LET targets == Locate(DirectoryFromSpecs(job.specs).val, job.inst).val
        ranks == MaxRank(Keys) + 1
        n == Len(targets)
    IN /\ [i \in DOMAIN Plan |-> Plan[i][1]] = Keys
       /\ \A i \in DOMAIN Plan : Plan[i][2] = targets[((Plan[i][1].rank * n) \div ranks) + 1]
       /\ {Plan[i][2] : i \in DOMAIN Plan} = Range(targets)

(***************************************************************************)
(* admin_main.py batch_query_keys: together the requests ask for the keys  *)
(* of the plan, each once and in order; a request line is within the bound *)
(* unless it holds a single key; and no request could have taken the first *)
(* key of the next.                                                        *)
(***************************************************************************)
BatchesExact ==
  [][stage = "copying" /\ stage' = "verify" =>
       LET Fits(batch) == LineLen(batch) <= LineMax
       IN /\ FlattenSeq(left') = Keys
          /\ \A i \in DOMAIN left' : Len(left'[i]) = 1 \/ (left'[i] # <<>> /\ Fits(left'[i]))
          /\ \A i \in 1..(Len(left') - 1) : ~Fits(Append(left'[i], left'[i + 1][1]))]_vars

(***************************************************************************)
(* backend.py _verify_missing: READY is said only when every key of the    *)
(* plan had a replica in DRAM on its own segment when its request was      *)
(* answered: never on a NoF replica, on another segment, or on no answer.  *)
(***************************************************************************)
ReadyWasSeen == why = "ready" => Range(Plan) \subseteq seen

(***************************************************************************)
(* daemon.py _check_instance_segs_against_admin: past the start-up check,  *)
(* copies that succeeded and that nobody took away are found: the terminal *)
(* "replica verify failed" is never said of them, whatever the master      *)
(* fails to answer on the way.                                             *)
(***************************************************************************)
NoFalseMissing == why = "missing" => \E p \in Range(Plan) : p \in lost

(***************************************************************************)
(* backend.py _check_segment: the intent is stopped for a missing segment  *)
(* only when the segment is missing; an admin port that is down, or a      *)
(* gateway in front of it that answers 5xx, makes the intent wait.  (A 404 *)
(* stops it as well, and a gateway may say that of a segment that is       *)
(* there: kept apart as "stop at 404".)                                    *)
(***************************************************************************)
StopMeansGone == why = "stop" => Probe \notin mounted

(***************************************************************************)
(* backend.py _admit_new_bytes: when the room is found to suffice, inside  *)
(* the gate, what the copy adds to its first segment fits there, though    *)
(* the need was measured at the start of the wait: copies by others since  *)
(* only lower it.  (Not counted are the replicas lost on that segment      *)
(* since the measure, which the code does not see either.)                 *)
(***************************************************************************)
AdmittedFits ==
  [][stage = "gate" /\ stage' = "submit" =>
       LET new == {k \in Range(Keys) : <<k, Probe>> \in Range(Plan) \ lost /\ ~InDram(k, Probe)}
       IN new # {} => Probe \in mounted /\ UsedOf(Probe) + KeyBytes * Cardinality(new) <= Cap]_vars
=============================================================================
