------------------------------- MODULE Precopy -------------------------------
(***************************************************************************)
(* The command-line tools of kvcm/demo/precopy against the same store:     *)
(*   precopy.py   resolve the worker's segments, compute the keys, copy    *)
(*                them one after the other, verify each on its segment     *)
(*   keys.py      compute keys and count those the store has               *)
(*   resolve.py   the first version of RankTopology, without time limits   *)
(* They hold their own copies of the product's functions; a definition     *)
(* here that only names one of RankTopology's or KeyPlan's says that the   *)
(* two texts agree.                                                        *)
(***************************************************************************)
EXTENDS CopyPath, RankTopology

CONSTANTS ToolJobs, \* the arguments of the tools
          Hosts,    \* the hosts a worker may be found on
          NoHost

(***************************************************************************)
(* A job of the tools has more fields: by ("precopy" or "keys"), mode      *)
(* ("prompt", "file" or "both"), file (the keys of --keys-file), given     *)
(* (--targets), listed (the answer of /get_all_segments), ip, where (see   *)
(* ResolveSegments), skip (--skip-exist-check), x (the sizes of keys.py).  *)
(***************************************************************************)
VARIABLES host,     \* until the segments are resolved
          targets,
          pos,      \* the pair of the plan at work
          task,     \* the copy task of that pair
          client    \* the store client: "none", "open" or "closed"

toolVars == <<host, targets, pos, task, client>>
allVars == <<vars, toolVars>>

(***************************************************************************)
(* resolve.py.                                                             *)
(***************************************************************************)
FetchSegments(listed) == IF listed = <<>> THEN Raise("empty") ELSE Ok(listed)

(* _pid_children_map, _process_tree: ps failing is not caught.             *)
DemoChildren(h) == IF PidChildren(h).ok THEN PidChildren(h) ELSE Raise("crash")

DemoPorts(h) ==
  CASE h.ss = "ok" -> Ok(PortsSs(h))
    [] h.ss = "missing" /\ h.net /\ h.socks # {} -> Ok(PortsProc(h))
    [] OTHER -> Raise("no_ss")

DemoProbeLocal(h) ==
  CASE h.pidfile = NoPid -> Raise("missing")
    [] h.pidfile \notin h.alive \cup {NoPid} -> Raise("stale")
    [] OTHER ->
         LET edges == DemoChildren(h)
             ports == DemoPorts(h)
         IN CASE ~edges.ok -> edges
              [] edges.ok /\ ~ports.ok -> ports
              [] OTHER -> Ok(Rows(h, edges.val, ports.val))

(* probe_ssh: what the remote probe dies of comes back as an exit code.    *)
DemoProbeSsh(h) ==
  LET rows == DemoProbeLocal(h)
  IN IF h.link # "ok" \/ (~rows.ok /\ rows.why = "crash") THEN Raise("ssh") ELSE rows

DemoIntersect(segs, rows, tp, ip) == IntersectRankSeg(segs, rows, tp, ip)

DemoResolve(h, listed, tp, ip, where) ==
  LET segs == FetchSegments(listed)
      rows == IF where = "there" THEN DemoProbeSsh(h) ELSE DemoProbeLocal(h)
      solo == SelectSeq(listed, LAMBDA s : OnTarget(s, ip))
  IN CASE where = "nowhere" -> Raise("pidfile")
       [] where # "nowhere" /\ ~segs.ok -> segs
       [] where # "nowhere" /\ segs.ok /\ ~rows.ok ->
            IF tp = 1 /\ rows.why # "crash" /\ MayGuess(rows.why) /\ Len(solo) = 1
              THEN Ok(solo) ELSE rows
       [] OTHER -> IF rows.val = <<>> THEN Raise("no ports")
                   ELSE DemoIntersect(listed, rows.val, tp, ip)

(* ss and ssh are waited for without a limit, once they are reached.       *)
Hangs(h, listed, where) ==
  /\ where # "nowhere" /\ FetchSegments(listed).ok
  /\ \/ where = "there" /\ h.link = "slow"
     \/ /\ where = "there" => h.link = "ok"
        /\ h.pidfile \in h.alive /\ DemoChildren(h).ok /\ h.ss = "slow"

(***************************************************************************)
(* keys.py and precopy.py: the keys and the plan.  Segments beyond the     *)
(* ranks of the keys are left out without a word.                          *)
(***************************************************************************)
LoadKeys(raw) == FoldLeft(LAMBDA s, k : IF Contains(s, k) THEN s ELSE Append(s, k), <<>>, raw)

CollectKeys(j) == KeysForTokens(j.tokens, j)

DemoPlan_Modulo(ks, segs, tp, peer) ==
  Ok([i \in DOMAIN ks |-> <<ks[i], segs[(ks[i].rank % Len(segs)) + 1]>>])

DemoPlan(ks, segs, tp, peer) ==
  LET top == MaxRank(ks)
      spread == IF top < Len(segs) THEN segs
                ELSE IF Reversed(top, segs, tp, peer) THEN SubSegs(segs, tp, peer)
                ELSE <<>>
  IN IF spread = <<>> THEN Raise("short")
     ELSE Ok([i \in DOMAIN ks |-> <<ks[i], spread[ks[i].rank + 1]>>])

DemoExpand(hashes, x) == ExpandStoreKeys(hashes, x)

ToolKeys(j) ==
  CASE j.by = "keys" -> DemoExpand(j.file, j.x)
    [] j.by = "precopy" /\ j.mode = "prompt" -> CollectKeys(j)
    [] OTHER -> Ok(LoadKeys(j.file))

ToolInit ==
  /\ job \in ToolJobs
  /\ keys = ToolKeys(job)
  /\ plan = Raise("later")
  /\ stage = "args" /\ why = ""
  /\ slot = NoSlot
  /\ store = IF ~keys.ok THEN {}
             ELSE {Replica(k, "src", "memory") : k \in {x \in Range(Keys) : x.rank \notin job.cold}}
  /\ others = [s \in Segs |-> 0] /\ mounted = Segs
  /\ copied = {} /\ left = <<>> /\ got = <<>> /\ seen = {} /\ lost = {} /\ trouble = 0
  /\ host \in IF job.by = "precopy" /\ job.given = <<>> THEN Hosts ELSE {NoHost}
  /\ targets = <<>> /\ pos = 0 /\ task = "none" /\ client = "none"

(* Every return and every exception after setup passes the finally.        *)
Finish(reason) ==
  /\ End(reason)
  /\ client' = IF client = "open" THEN "closed" ELSE client

Args ==
  /\ stage = "args"
  /\ IF job.mode = "both" \/ (job.by = "keys" /\ ~keys.ok) THEN Finish("usage")
     ELSE Go(IF job.by = "precopy" THEN "resolve" ELSE "setup") /\ UNCHANGED client
  /\ UNCHANGED <<args, slot, envVars, copied, left, got, seen, lost, trouble, host, targets, pos, task>>

(* _parse_targets.                                                         *)
Resolve ==
  /\ stage = "resolve"
  /\ \/ /\ job.given # <<>>
        /\ targets' = job.given /\ Go("plan") /\ UNCHANGED <<client, trouble>>
     \/ /\ job.given = <<>> /\ ~Hangs(host, job.listed, job.where)
        /\ LET r == DemoResolve(host, job.listed, job.tp, job.ip, job.where)
           IN IF r.ok THEN targets' = r.val /\ Go("plan") /\ UNCHANGED client
              ELSE Finish("resolve") /\ UNCHANGED targets
        /\ UNCHANGED trouble
     \/ /\ job.given = <<>> /\ Troubled     \* the admin port is down
        /\ Finish("resolve") /\ UNCHANGED targets
  /\ host' = NoHost
  /\ UNCHANGED <<args, slot, envVars, copied, left, got, seen, lost, pos, task>>

MakePlan ==
  /\ stage = "plan"
  /\ LET p == DemoPlan(Keys, targets, job.tp, job.peer)
     IN CASE ~keys.ok -> Finish("seed") /\ UNCHANGED plan
          [] keys.ok /\ Keys = <<>> -> Finish("usage") /\ UNCHANGED plan
          [] keys.ok /\ Keys # <<>> /\ ~p.ok -> Finish("plan") /\ UNCHANGED plan
          [] OTHER -> plan' = p /\ Go("setup") /\ UNCHANGED client
  /\ UNCHANGED <<job, keys, slot, envVars, copied, left, got, seen, lost, trouble, host, targets, pos, task>>

(* setup_store: a store whose setup failed is not closed.                  *)
Setup ==
  /\ stage = "setup"
  /\ \/ client' = "open" /\ Go("check") /\ UNCHANGED trouble
     \/ Troubled /\ Finish("setup")
  /\ UNCHANGED <<args, slot, envVars, copied, left, got, seen, lost, host, targets, pos, task>>

(***************************************************************************)
(* batch_is_exist: in the tools an error code counts as an absent key.     *)
(* Precopy wants every computed key; keys.py --check-master ends here.     *)
(***************************************************************************)
DemoEntryExists(code) == code > 0

AllPresent(codes) == Len(SelectSeq(codes, DemoEntryExists)) = Len(Keys)

CheckExist ==
  /\ stage = "check" /\ job.by = "precopy"
  /\ IF job.mode = "file" \/ job.skip
       THEN Go("copy") /\ UNCHANGED <<client, trouble>>
       ELSE \E codes \in {TrueCodes} \cup BadCodes :
              /\ IF codes = TrueCodes THEN UNCHANGED trouble ELSE Troubled
              /\ IF AllPresent(codes) THEN Go("copy") /\ UNCHANGED client
                 ELSE Finish("not in pool")
  /\ pos' = 1
  /\ UNCHANGED <<args, slot, envVars, copied, left, got, seen, lost, host, targets, task>>

CheckMaster ==
  /\ stage = "check" /\ job.by = "keys"
  /\ \E codes \in {TrueCodes} \cup BadCodes :
       /\ IF codes = TrueCodes THEN UNCHANGED trouble ELSE Troubled
       /\ Finish(IF AllPresent(codes) THEN "present" ELSE "not in pool")
  /\ UNCHANGED <<args, slot, envVars, copied, left, got, seen, lost, host, targets, pos, task>>

(***************************************************************************)
(* create_copy_and_wait: one key at a time.                                *)
(***************************************************************************)
CreateCopy ==
  /\ stage = "copy" /\ pos <= Len(Plan) /\ task = "none"
  /\ \/ task' = "running" /\ Go("copy") /\ UNCHANGED <<client, trouble>>
     \/ Troubled /\ Finish("copy") /\ UNCHANGED task
  /\ UNCHANGED <<args, slot, envVars, copied, left, got, seen, lost, host, targets, pos>>

TaskLands ==
  /\ stage = "copy" /\ task = "running"
  /\ Plan[pos][2] \in mounted /\ EndpointsOf(Plan[pos][1], "memory") # {}
  /\ InDram(Plan[pos][1], Plan[pos][2]) \/ UsedOf(Plan[pos][2]) + KeyBytes <= Cap
  /\ store' = store \cup {Replica(Plan[pos][1], Plan[pos][2], "memory")}
  /\ task' = "success"
  /\ UNCHANGED <<args, stage, why, slot, others, mounted, copied, left, got, seen, lost, trouble,
                 host, targets, pos, client>>

TaskFails ==
  /\ stage = "copy" /\ task = "running" /\ Troubled
  /\ task' = "failed"
  /\ UNCHANGED <<args, stage, why, slot, envVars, copied, left, got, seen, lost,
                 host, targets, pos, client>>

(* query_task_until_complete: the deadline counts from the task's start.   *)
PollTask ==
  /\ stage = "copy" /\ pos <= Len(Plan) /\ task # "none"
  /\ \/ task = "success" /\ pos' = pos + 1 /\ Go("copy") /\ UNCHANGED <<client, trouble>>
     \/ task = "failed" /\ Finish("copy") /\ UNCHANGED <<pos, trouble>>
     \/ task = "running" /\ Finish("timeout") /\ UNCHANGED <<pos, trouble>>
     \/ Troubled /\ Finish("query") /\ UNCHANGED pos
  /\ task' = "none"
  /\ UNCHANGED <<args, slot, envVars, copied, left, got, seen, lost, host, targets>>

AllCopied ==
  /\ stage = "copy" /\ pos > Len(Plan)
  /\ Go("recheck") /\ pos' = 1
  /\ UNCHANGED <<args, slot, envVars, copied, left, got, seen, lost, trouble, host, targets, task, client>>

(* assert_targets_have_replicas.                                           *)
HasReplica(key, seg) == InDram(key, seg)

VerifyPair ==
  /\ stage = "recheck"
  /\ \/ /\ pos <= Len(Plan)
        /\ IF HasReplica(Plan[pos][1], Plan[pos][2])
             THEN /\ seen' = seen \cup {Plan[pos]}
                  /\ pos' = pos + 1 /\ Go("recheck") /\ UNCHANGED client
             ELSE Finish("missing") /\ UNCHANGED <<seen, pos>>
     \/ pos > Len(Plan) /\ Finish("ready") /\ UNCHANGED <<seen, pos>>
  /\ UNCHANGED <<args, slot, envVars, copied, left, got, lost, trouble, host, targets, task>>

ToolEnv ==
  /\ stage \in {"copy", "recheck"}
  /\ OthersUse \/ Evict \/ Unmount
  /\ UNCHANGED toolVars

ToolNext ==
  \/ Args \/ Resolve \/ MakePlan \/ Setup \/ CheckExist \/ CheckMaster
  \/ CreateCopy \/ TaskLands \/ TaskFails \/ PollTask \/ AllCopied \/ VerifyPair
  \/ ToolEnv

(***************************************************************************)
(* The daemon or one of the tools.                                         *)
(***************************************************************************)
AllInit ==
  \/ /\ Init
     /\ host = NoHost /\ targets = <<>> /\ pos = 0 /\ task = "none" /\ client = "none"
  \/ ToolInit

AllNext ==
  \/ job.by = "daemon" /\ Next /\ UNCHANGED toolVars
  \/ job.by # "daemon" /\ ToolNext

AllSpec == AllInit /\ [][AllNext]_allVars

-----------------------------------------------------------------------------
(***************************************************************************)
(* The types; and a tool that has ended has closed the client it had open. *)
(***************************************************************************)
ToolTypeOK ==
  /\ job.by = "daemon" => TypeOK
  /\ job.by # "daemon" =>
       /\ job \in ToolJobs
       /\ stage \in {"args", "resolve", "plan", "setup", "check", "copy", "recheck", "end"}
       /\ stage = "end" => why # "" /\ client # "open"
       /\ Range(targets) \subseteq Range(job.given) \cup Range(job.listed)
       /\ stage \in {"copy", "recheck"} => client = "open" /\ pos \in 1..(Len(Plan) + 1)
       /\ \A s \in Segs : UsedOf(s) \in 0..Cap

(***************************************************************************)
(* resolve.py _intersect, topology.py intersect_rank_seg: a segment found  *)
(* for rank i is on the worker's host, at a port that a process listens on *)
(* which descends from the pidfile's and bears rank i (no rank, for a      *)
(* worker of one); it is the only such segment, unless a socket is shared  *)
(* or hidden from the probe.  Without an ip the code goes by the port: it  *)
(* may take the segment of another host, but only when the worker's own    *)
(* at that port is not listed.  A segment taken without evidence is the    *)
(* only one the ip leaves, for a worker of one rank whose host could not   *)
(* be looked into.                                                         *)
(***************************************************************************)
Under(h, p) ==
  LET up[n \in 0..Cardinality(h.alive)] ==
        IF n = 0 THEN {p} ELSE up[n - 1] \cup {h.parent[q] : q \in up[n - 1] \cap h.alive}
  IN h.pidfile \in up[Cardinality(h.alive)]

Listens(h, rank) ==
  {k.port : k \in {x \in h.socks : \E p \in Range(x.owners) \cap h.alive :
                                     Under(h, p) /\ h.title[p] = rank}}

OwnedBy(h, rank) ==
  {s \in Range(job.listed) : IpOf(s) = h.ip /\ PortOf(s) \in Listens(h, rank)}

(* Segments of other hosts that only their port speaks for.                *)
Mistakable(h, rank) ==
  {s \in Range(job.listed) :
     /\ job.ip = AnyIp /\ PortOf(s) \in Listens(h, rank)
     /\ ~\E t \in Range(job.listed) : IpOf(t) = h.ip /\ PortOf(t) = PortOf(s)}

InSight(h) == (h.ss = "ok" \/ h.fds = h.alive) /\ \A k \in h.socks : Len(k.owners) = 1

IsOf(seg, h, rank) ==
  LET candidates == OwnedBy(h, rank) \cup Mistakable(h, rank)
  IN seg \in candidates /\ (InSight(h) => candidates = {seg})

Blind(h, where) ==
  \/ where = "there" /\ h.link # "ok"
  \/ h.pidfile = NoPid
  \/ h.stats = {} /\ ~h.ps
  \/ h.ss = "missing" /\ (h.socks = {} \/ ~h.net)

ResolvedIsOwned ==
  [][stage = "resolve" /\ stage' = "plan" /\ host # NoHost =>
       \/ \A i \in 1..job.tp : IsOf(targets'[i], host, i - 1)
       \/ job.tp = 1 /\ IsOf(targets'[1], host, NoRank)
       \/ job.tp = 1 /\ Blind(host, job.where) /\ {s \in Range(job.listed) : OnTarget(s, job.ip)} = {targets'[1]}]_allVars

(***************************************************************************)
(* resolve.py and topology.py resolve_segments: no segment is resolved for *)
(* a worker whose process is seen to be dead, not even by guessing: the    *)
(* segment is about to vanish.                                             *)
(***************************************************************************)
DeadWorkerRefused ==
  [][stage = "resolve" /\ stage' = "plan" /\ host # NoHost /\ (job.where = "here" \/ host.link = "ok") =>
       host.pidfile \in host.alive \cup {NoPid}]_allVars

(***************************************************************************)
(* precopy.py against the product's topology.py and keys.py build_plan:    *)
(* segments the tool resolves are those the product resolves; where the    *)
(* product accepts them, the tool has the same plan; what only the tool    *)
(* accepts is a target list with segments to spare.                        *)
(***************************************************************************)
ToolsAgree ==
  [][/\ stage = "resolve" /\ stage' = "plan" /\ host # NoHost =>
          ResolveSegments(host, job.listed, job.tp, job.ip, job.where) = Ok(targets')
     /\ stage = "plan" /\ stage' # "plan" /\ keys.ok /\ Keys # <<>> =>
          LET product == BuildPlan(Keys, targets, job.tp, job.peer)
          IN IF product.ok THEN plan' = product
             ELSE (stage' = "setup") <=> (product.why = "extra")]_allVars

(***************************************************************************)
(* keys.py expand_store_keys: the keys are those of every combination of   *)
(* block and ranks, and no two are the same string, unless layers are      *)
(* split under pipeline parallelism (a layer's key has no pp rank).        *)
(***************************************************************************)
KeysAreProduct ==
  job.by = "keys" =>
    LET x == job.x
        heads == {n \in 0..(x.tp - 1) : (n + 1) * x.put <= x.tp} \cup {0}
        layers == IF x.split THEN 0..(x.layers - 1) ELSE {NoLayer}
    IN keys.ok =>
       /\ Range(Keys) = {PoolKey(h, c, d, r, p, l) : h \in Range(job.file), c \in 0..(x.pcp - 1),
                            d \in 0..(x.dcp - 1), r \in heads, p \in 0..(x.pp - 1), l \in layers}
       /\ ~x.split \/ x.pp = 1 => Cardinality(Range(Keys)) = Len(Keys)

(***************************************************************************)
(* common.py entry_exists: the tools report the keys as present only if    *)
(* the store has every key; a query that failed is no presence.            *)
(***************************************************************************)
PresentIsTrue == why = "present" => \A k \in Range(Keys) : CodeOf(k) = 1
(***************************************************************************)
(* topology.py and resolve.py: what resolve_segments returns belongs to    *)
(* the ranks of a worker that is alive.                                    *)
(***************************************************************************)
ResolutionIsSound == ResolvedIsOwned /\ DeadWorkerRefused

(***************************************************************************)
(* keys.py: the keys of a prefix are complete, and its plan sends each to  *)
(* the segment of its rank.                                                *)
(***************************************************************************)
KeysAndPlan == KeysAreProduct /\ PlanFollowsRanks

(***************************************************************************)
(* backend.py and precopy.py: the verdict of an intent, or of a tool, is   *)
(* what the store was seen to hold, whatever failed on the way.            *)
(***************************************************************************)
VerdictsAreTrue == ReadyWasSeen /\ NoFalseMissing /\ StopMeansGone /\ PresentIsTrue
=============================================================================
