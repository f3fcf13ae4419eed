----------------------------- MODULE MCCopyPath -----------------------------
EXTENDS Precopy

MCSegs == {"s1", "s2"}

(* The keys of the higher ranks do not fit in a request line together.     *)
MCQuotedLen(key) == IF key.rank = 0 THEN 3 ELSE 9

Detail(name, ep) == [name |-> name, endpoint |-> ep]
Same == <<Detail("s1", "s1"), Detail("s2", "s2")>>

Job0 ==
  [by |-> "daemon", specs |-> <<[inst |-> "i", segs |-> <<"s1">>]>>, inst |-> "i", details |-> Same,
   tokens |-> <<7, 7>>, block |-> 1, seeded |-> TRUE, tp |-> 1, peer |-> 0, put |-> 1,
   attr |-> "size", hidden |-> {}, cold |-> {}, nof |-> ""]

Two == <<[inst |-> "i", segs |-> <<"s1", "s2">>]>>

MCJobs ==
  {Job0,
   [Job0 EXCEPT !.nof = "s1", !.attr = "size_"],
   [Job0 EXCEPT !.specs = Two, !.tp = 2, !.tokens = <<7>>],
   [Job0 EXCEPT !.peer = 2, !.tokens = <<7>>, !.hidden = {1}],
   [Job0 EXCEPT !.specs = Two, !.tp = 2, !.peer = 4, !.tokens = <<7>>],
   [Job0 EXCEPT !.hidden = {0}],
   [Job0 EXCEPT !.tp = 2, !.cold = {1}],
   [Job0 EXCEPT !.details = <<Detail("s1", "s2")>>],
   [Job0 EXCEPT !.details = <<Detail("s1", "s2"), Detail("s1", "s1")>>, !.tokens = <<7>>],
   [Job0 EXCEPT !.details = <<Detail("s1", "")>>],
   [Job0 EXCEPT !.details = <<Detail("s2", "s2")>>],
   [Job0 EXCEPT !.seeded = FALSE],
   [Job0 EXCEPT !.block = 3],
   [Job0 EXCEPT !.inst = "j"],
   [Job0 EXCEPT !.specs = Two],
   [Job0 EXCEPT !.specs = Two, !.tp = 2, !.peer = 3],
   [Job0 EXCEPT !.tp = 2],
   [Job0 EXCEPT !.specs = Two, !.tp = 2, !.put = 2],
   [Job0 EXCEPT !.specs = <<>>],
   [Job0 EXCEPT !.specs = <<[inst |-> "i", segs |-> <<"">>]>>],
   [Job0 EXCEPT !.specs = Job0.specs \o Job0.specs]}

(* s1 and s2 are segments of the worker's host h; t1 is one of host g, at  *)
(* the same port as s1, listed beside it or without it, and not mounted.   *)
MCIpOf(s) == IF s = "t1" THEN "g" ELSE "h"
MCPortOf(s) == IF s = "s2" THEN 2 ELSE 1

Pids == 1..4

Sock(port, owners) == [port |-> port, owners |-> owners]

(* Process 1 is the worker's; 4 is never of its tree.                      *)
Host(root, parent, title, socks) ==
  [ip |-> "h", pidfile |-> root, alive |-> Pids, parent |-> parent, title |-> title, socks |-> socks,
   stats |-> Pids, fds |-> Pids, ps |-> TRUE, net |-> TRUE, ss |-> "ok", link |-> "ok"]

Parents == {<<0, 1, 1, 0>>, <<0, 1, 2, 0>>}
Titles == {<<-1, 0, 1, 0>>, <<-1, 0, 0, 1>>, <<-1, -1, 1, 0>>, <<-1, -1, -1, -1>>}
OneEach == {Sock(1, <<2>>), Sock(2, <<3>>)}
Socks == {{}, OneEach, {Sock(1, <<2, 3>>), Sock(2, <<3>>)},
          {Sock(1, <<2>>), Sock(2, <<2>>)}, {Sock(1, <<2>>), Sock(2, <<4>>)}}

Base ==
  {Host(1, parent, title, socks) : parent \in Parents, title \in Titles, socks \in Socks}
  \cup {Host(root, <<0, 1, 1, 0>>, <<-1, 0, 1, 0>>, OneEach) : root \in {NoPid, 9}}

(* At most one thing out of order with the host's tools.                   *)
MCHosts ==
  UNION {{h, [h EXCEPT !.ss = "missing"], [h EXCEPT !.ss = "missing", !.fds = {2}],
          [h EXCEPT !.ss = "missing", !.net = FALSE], [h EXCEPT !.ss = "slow"],
          [h EXCEPT !.stats = {}], [h EXCEPT !.stats = {}, !.ps = FALSE],
          [h EXCEPT !.link = "slow"], [h EXCEPT !.link = "broken"]} : h \in Base}

Tool0 ==
  [by |-> "precopy", mode |-> "prompt", file |-> <<>>, given |-> <<>>, listed |-> <<"s1", "s2">>,
   ip |-> AnyIp, where |-> "here", skip |-> FALSE, x |-> <<>>, cold |-> {},
   tokens |-> <<7>>, block |-> 1, seeded |-> TRUE, tp |-> 1, peer |-> 0, put |-> 1]

KeyOfRank(r) == PoolKey(<<NoHash, <<7>>>>, 0, 0, r, 0, NoLayer)

Sizes(tp, put, pcp, dcp, pp, layers) ==
  [tp |-> tp, put |-> put, pcp |-> pcp, dcp |-> dcp, pp |-> pp,
   split |-> layers # 0, layers |-> layers]

MCToolJobs ==
  {[Tool0 EXCEPT !.tp = tp, !.listed = l, !.ip = ip, !.where = w] :
     tp \in {1, 2}, l \in {<<"s1", "s2">>, <<"t1", "s1">>, <<"t1", "s2">>}, ip \in {AnyIp, "h"}, w \in {"here", "there"}}
  \cup {[Tool0 EXCEPT !.given = g, !.tp = tp, !.peer = peer] :
          g \in {<<"s1">>, <<"s2", "s1">>}, tp \in {1, 2}, peer \in {0, 2, 3, 4}}
  \cup {[Tool0 EXCEPT !.where = "nowhere"], [Tool0 EXCEPT !.listed = <<>>],
        [Tool0 EXCEPT !.mode = "both"],
        [Tool0 EXCEPT !.given = <<"s1">>, !.seeded = FALSE],
        [Tool0 EXCEPT !.given = <<"s1">>, !.block = 3],
        [Tool0 EXCEPT !.given = <<"s1", "s2">>, !.tp = 2, !.cold = {1}],
        [Tool0 EXCEPT !.given = <<"s1">>, !.cold = {0}, !.skip = TRUE],
        [Tool0 EXCEPT !.given = <<"s1", "s2">>, !.mode = "file",
                      !.file = <<KeyOfRank(1), KeyOfRank(0), KeyOfRank(1)>>]}
  \cup {[Tool0 EXCEPT !.by = "keys", !.file = <<1>>, !.cold = {1},
                      !.x = Sizes(tp, put, pcp, dcp, pp, layers)] :
          tp \in 2..3, put \in 1..2, pcp \in 1..2, dcp \in 1..2, pp \in 1..2, layers \in {0, 2}}
  \cup {[Tool0 EXCEPT !.by = "keys", !.file = <<1>>, !.x = Sizes(1, 1, 1, 1, 1, -1)]}
  \cup {[Tool0 EXCEPT !.by = "keys", !.file = <<1, 2>>, !.x = Sizes(1, put, 1, 1, pp, 0)] :
          put \in 1..2, pp \in 1..2}
=============================================================================
