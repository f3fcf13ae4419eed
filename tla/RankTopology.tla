----------------------------- MODULE RankTopology -----------------------------
(***************************************************************************)
(* Which segment belongs to which rank of a worker: the processes under    *)
(* the worker's pidfile, the TCP ports they listen on, and the segments    *)
(* the master knows are matched by port                                    *)
(* (kvcm/engines/vllm/topology.py; demo/precopy/resolve.py is its first    *)
(* version).                                                               *)
(*                                                                         *)
(* A host is a record:                                                     *)
(*   ip        its address                                                 *)
(*   pidfile   the pid it names, NoPid if missing, empty or not a number   *)
(*   alive     the processes that exist; parent, title: of each            *)
(*   socks     the listening sockets, [port, owners]: one opened before a  *)
(*             fork has several owners, in the order the kernel lists them *)
(*   stats     the processes whose /proc/<pid>/stat is readable; fds: whose*)
(*             /proc/<pid>/fd is                                           *)
(*   ps, net   ps works; /proc/net/tcp can be read                         *)
(*   ss        "ok", "missing" or "slow"                                   *)
(*   link      how ssh to it goes: "ok", "slow" or "broken"                *)
(* A segment is named <IpOf>:<PortOf>.                                     *)
(***************************************************************************)
EXTENDS KeyPlan, Graphs

CONSTANTS IpOf(_), PortOf(_)

NoPid == 0
NoRank == -1
AnyIp == "any"

(* _pid_children_map: parent-child pairs, from /proc or else from ps.      *)
PidChildren(h) ==
  LET from == IF h.stats \cap h.alive # {} THEN h.stats \cap h.alive ELSE h.alive
  IN IF h.stats \cap h.alive = {} /\ ~h.ps
       THEN Raise("no_ps")
       ELSE Ok({<<h.parent[p], p>> : p \in from})

(* _process_tree: the root and all that descends from it.                  *)
ProcessTree(root, edges) ==
  LET nodes == {root} \cup {e[1] : e \in edges} \cup {e[2] : e \in edges}
      reached == ConnectionsIn([node |-> nodes, edge |-> edges])
  IN {p \in nodes : reached[root, p]}

(* _listen_ports_by_pid: ss names the first owner of a socket.             *)
PortsSs(h) == [p \in h.alive |-> {s.port : s \in {t \in h.socks : Head(t.owners) = p}}]

(* _listen_ports_by_pid_proc: the fd directories name every owner.         *)
PortsProc(h) ==
  [p \in h.alive |-> {s.port : s \in {t \in h.socks : p \in Range(t.owners) \cap h.fds}}]

ListenPorts(h) ==
  CASE h.ss = "ok" -> Ok(PortsSs(h))
    [] h.ss = "slow" -> Raise("no_ss")
    [] h.ss = "missing" /\ h.net /\ h.socks # {} -> Ok(PortsProc(h))
    [] OTHER -> Raise("no_ss")

(* probe_local: a row per process of the tree that listens, by pid.        *)
Rows(h, edges, ports) ==
  LET tree == ProcessTree(h.pidfile, edges) \cap h.alive
      pids == SetToSortSeq({p \in tree : ports[p] # {}}, <)
  IN [i \in DOMAIN pids |->
       [rank |-> h.title[pids[i]], ports |-> SetToSortSeq(ports[pids[i]], <)]]

ProbeLocal(h) ==
  CASE h.pidfile = NoPid -> Raise("missing")
    [] h.pidfile \notin h.alive \cup {NoPid} -> Raise("stale")
    [] OTHER ->
         LET edges == PidChildren(h)
             ports == ListenPorts(h)
         IN CASE ~edges.ok -> edges
              [] edges.ok /\ ~ports.ok -> ports
              [] OTHER -> Ok(Rows(h, edges.val, ports.val))

(* probe_ssh: the same probe on the other host, its exit code passed on;   *)
(* ssh failing is a code of its own.                                       *)
ProbeSsh(h) == IF h.link = "ok" THEN ProbeLocal(h) ELSE Raise("ssh")

OnTarget(s, ip) == ip = AnyIp \/ IpOf(s) = ip

(***************************************************************************)
(* intersect_rank_seg.  One match of the loop: the port of a row against   *)
(* the segment list; m is what is known so far.                            *)
(***************************************************************************)
Claim_LastWins(m, rank, port, segs, ip) ==
  LET matches == SelectSeq(segs, LAMBDA s : PortOf(s) = port /\ OnTarget(s, ip))
  IN CASE m.err # "" \/ matches = <<>> -> m
       [] Len(matches) > 1 -> [m EXCEPT !.err = "ambiguous"]
       [] rank = NoRank -> [m EXCEPT !.unknown = Append(@, matches[1])]
       [] OTHER -> [m EXCEPT !.seg = (rank :> matches[1]) @@ @]

Claim(m, rank, port, segs, ip) ==
  LET matches == SelectSeq(segs, LAMBDA s : PortOf(s) = port /\ OnTarget(s, ip))
  IN CASE m.err # "" \/ matches = <<>> -> m
       [] Len(matches) > 1 -> [m EXCEPT !.err = "ambiguous"]
       [] rank = NoRank -> [m EXCEPT !.unknown = Append(@, matches[1])]
       [] rank \in DOMAIN m.seg /\ m.seg[rank] # matches[1] -> [m EXCEPT !.err = "two segments"]
       [] OTHER -> [m EXCEPT !.seg = (rank :> matches[1]) @@ @]

Claims(rows, segs, ip) ==
  LET pairs == ForEach(rows, LAMBDA r : [i \in DOMAIN r.ports |-> <<r.rank, r.ports[i]>>])
      none == [err |-> "", seg |-> <<>>, unknown |-> <<>>]
  IN FoldLeft(LAMBDA m, p : Claim(m, p[1], p[2], segs, ip), none, pairs)

IntersectRankSeg(segs, rows, tp, ip) ==
  LET m == Claims(rows, segs, ip)
      solo == tp = 1 /\ 0 \notin DOMAIN m.seg
      seg == IF solo /\ Len(m.unknown) = 1 THEN (0 :> m.unknown[1]) @@ m.seg ELSE m.seg
  IN CASE m.err # "" -> Raise(m.err)
       [] solo /\ Len(m.unknown) # 1 -> Raise("not one")
       [] tp > 1 /\ m.unknown # <<>> -> Raise("no rank")
       [] \E i \in 0..(tp - 1) : i \notin DOMAIN seg -> Raise("unresolved")
       [] OTHER -> Ok([i \in 1..tp |-> seg[i - 1]])

(***************************************************************************)
(* resolve_segments.  When the probe could not look, a worker of one rank  *)
(* is taken to own the only segment on its host; a dead root process is    *)
(* no reason to guess.  where is "here", "there" (over ssh), or "nowhere": *)
(* over ssh, without the path of the pidfile on that host.                 *)
(***************************************************************************)
MayGuess(why) == why # "stale"

ResolveSegments(h, segs, tp, ip, where) ==
  LET rows == IF where = "there" THEN ProbeSsh(h) ELSE ProbeLocal(h)
      solo == SelectSeq(segs, LAMBDA s : OnTarget(s, ip))
  IN CASE where = "nowhere" -> Raise("pidfile")
       [] ~rows.ok /\ tp = 1 /\ MayGuess(rows.why) /\ Len(solo) = 1 -> Ok(solo)
       [] ~rows.ok -> rows
       [] rows.val = <<>> -> Raise("no ports")
       [] OTHER -> IntersectRankSeg(segs, rows.val, tp, ip)
=============================================================================
