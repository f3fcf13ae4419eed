------------------------------ MODULE ViewLog ------------------------------
(***************************************************************************)
(* The control plane's replay buffer (rust/controlplane/src/view.rs).      *)
(*                                                                         *)
(* Every write handler of the location authority turns the events it       *)
(* caused into one numbered ViewUpdate and appends it to a bounded buffer. *)
(* A subscriber that reconnects names the last number it has applied; the  *)
(* buffer either replays everything after it or says that it cannot.       *)
(*                                                                         *)
(* The content of the view is a function from blocks to places.  A batch   *)
(* of events is a function too: its domain is the set of blocks the batch  *)
(* speaks of (REGISTERED and MOVED carry the full new place, INVALIDATED   *)
(* is NoPlace), since the last event about a block decides.                *)
(***************************************************************************)
EXTENDS Integers, Sequences

CONSTANTS
  Blocks,     \* block identities: model, revision, pool and hash
  Places,     \* what an upsert carries: the locations and the L3 flag
  NoPlace,    \* the block is not in the view
  LogCap      \* capacity of the replay buffer (1024 in the code)

ASSUME NoPlaceAssumption == NoPlace \notin Places
ASSUME LogCapAssumption == LogCap \in Nat \ {0}

VARIABLES
  updates,    \* ViewLog.updates, the retained batches, oldest first
  nextSeq     \* ViewLog.next_seq

logVars == <<updates, nextSeq>>

Content == [Blocks -> Places \cup {NoPlace}]

(* The content of a view with nothing registered. *)
NoContent == [b \in Blocks |-> NoPlace]

Present(c) == {b \in Blocks : c[b] # NoPlace}

(* A batch of events: what the blocks it speaks of become. *)
Batch == UNION {[S -> Places \cup {NoPlace}] : S \in SUBSET Blocks}

Update == [seq : Nat, events : Batch]

LogInit ==
  /\ updates = <<>>
  /\ nextSeq = 1

(* The update that ViewLog.commit would number now. *)
NewUpdate(evs) == [seq |-> nextSeq, events |-> evs]

Bounded_DropsNewest(q) == IF Len(q) > LogCap THEN SubSeq(q, 1, LogCap) ELSE q

(* Drop the oldest batches until no more than LogCap are left. *)
Bounded(q) ==
  SubSeq(q, IF Len(q) > LogCap THEN Len(q) - LogCap + 1 ELSE 1, Len(q))

LogCommit(evs) ==
  /\ updates' = Bounded(Append(updates, NewUpdate(evs)))
  /\ nextSeq' = nextSeq + 1

(* Called when the authority is rebuilt: the numbering goes on. *)
LogReset ==
  /\ updates' = <<>>
  /\ UNCHANGED nextSeq

LastSeq == nextSeq - 1

Floor == IF updates = <<>> THEN nextSeq ELSE updates[1].seq

(* replay_after answers Some(..) rather than None. *)
CanReplay(from) ==
  /\ from # 0
  /\ from < nextSeq
  /\ from + 1 >= Floor

(* The batches that replay_after hands out when it can. *)
ReplayAfter(from) == SelectSeq(updates, LAMBDA u : u.seq > from)

-----------------------------------------------------------------------------

(* The buffer holds the latest batches without a hole, and no more of them  *)
(* than it may (ViewLog.commit, reset).                                     *)
LogContiguous ==
  /\ Len(updates) <= LogCap
  /\ Len(updates) < nextSeq
  /\ \A i \in 1 .. Len(updates) : updates[i].seq = nextSeq - 1 - Len(updates) + i

(* Whatever point replay_after accepts, what it hands out is every batch    *)
(* after that point, in order and once (view.rs:86-104): the subscriber     *)
(* misses nothing that was evicted from the buffer.                         *)
ReplayExact ==
  \A from \in 0 .. nextSeq :
    CanReplay(from) =>
      LET ups == ReplayAfter(from)
      IN  /\ Len(ups) = LastSeq - from
          /\ \A i \in 1 .. Len(ups) : ups[i].seq = from + i
=============================================================================
