--------------------------- MODULE ViewSyncProofs ---------------------------
(***************************************************************************)
(* Proofs about the replay buffer of the control plane, within the whole   *)
(* subscription protocol, for any capacity and any number of blocks.       *)
(***************************************************************************)
EXTENDS ViewSync, SequenceTheorems, TLAPS

(* The part of the type invariant the replay buffer needs. *)
LogType == updates \in Seq(Update) /\ nextSeq \in Nat \ {0}

LogInv == LogType /\ LogContiguous

-----------------------------------------------------------------------------

(* How many of n elements Bounded keeps. *)
Kept(n) == IF n > LogCap THEN LogCap ELSE n

(* What Bounded keeps of a sequence: the last LogCap elements, or all. *)
LEMMA BoundedProperties ==
  ASSUME NEW q \in Seq(Update)
  PROVE  /\ Bounded(q) \in Seq(Update)
         /\ Len(Bounded(q)) = Kept(Len(q))
         /\ \A i \in 1 .. Kept(Len(q)) : Bounded(q)[i] = q[Len(q) - Kept(Len(q)) + i]
<1> DEFINE n == Len(q)
           m == IF n > LogCap THEN n - LogCap + 1 ELSE 1
<1>1. n \in Nat /\ LogCap \in Nat \ {0}
  BY LogCapAssumption, LenProperties
<1>2. m \in Nat /\ m >= 1 /\ m <= n + 1 /\ n - m + 1 = Kept(n)
  BY <1>1 DEF Kept
<1>3. Bounded(q) = SubSeq(q, m, n)
  BY DEF Bounded
<1>4. \A i \in m .. n : q[i] \in Update
  BY <1>1, <1>2, ElementOfSeq
<1> HIDE DEF m, n
<1>5. /\ SubSeq(q, m, n) \in Seq(Update)
      /\ Len(SubSeq(q, m, n)) = IF m <= n THEN n - m + 1 ELSE 0
      /\ \A i \in 1 .. n - m + 1 : SubSeq(q, m, n)[i] = q[m + i - 1]
  BY <1>1, <1>2, <1>4, SubSeqProperties
<1>6. Len(Bounded(q)) = Kept(n)
  BY <1>1, <1>2, <1>3, <1>5
<1>7. \A i \in 1 .. Kept(n) : Bounded(q)[i] = q[n - Kept(n) + i]
  <2> TAKE i \in 1 .. Kept(n)
  <2>1. Kept(n) \in Nat /\ i \in 1 .. n - m + 1
    BY <1>1, <1>2
  <2>2. m + i - 1 = n - Kept(n) + i
    BY <1>1, <1>2, <2>1
  <2> QED
    BY <1>3, <1>5, <2>1, <2>2
<1> QED
  BY <1>3, <1>5, <1>6, <1>7 DEF n

(* A commit appends the next number and evicts from the front only. *)
LEMMA CommitKeepsLog ==
  ASSUME LogInv, NEW evs \in Batch, LogCommit(evs)
  PROVE  LogInv'
<1> DEFINE u == NewUpdate(evs)
           q == Append(updates, u)
           n == Len(updates)
           k == Kept(Len(q))
<1>1. u \in Update /\ u.seq = nextSeq
  BY DEF NewUpdate, Update, LogInv, LogType
<1>2. n \in Nat /\ nextSeq \in Nat /\ LogCap \in Nat \ {0} /\ n < nextSeq
  BY LogCapAssumption, LenProperties DEF LogInv, LogType, LogContiguous
<1>3. q \in Seq(Update) /\ Len(q) = n + 1
  BY <1>1, AppendProperties DEF LogInv, LogType
<1>4. \A i \in 1 .. n + 1 : q[i].seq = nextSeq - 1 - n + i
  <2> TAKE i \in 1 .. n + 1
  <2>1. CASE i = n + 1
    <3>1. q[i] = u
      BY <1>1, <2>1, AppendProperties DEF LogInv, LogType
    <3> QED
      BY <1>1, <1>2, <2>1, <3>1
  <2>2. CASE i # n + 1
    <3>1. i \in 1 .. n
      BY <1>2, <2>2
    <3>2. q[i] = updates[i]
      BY <1>1, <3>1, AppendProperties DEF LogInv, LogType
    <3> QED
      BY <3>1, <3>2 DEF LogInv, LogContiguous
  <2> QED
    BY <2>1, <2>2
<1>5. updates' = Bounded(q) /\ nextSeq' = nextSeq + 1
  BY DEF LogCommit
<1>6. /\ Bounded(q) \in Seq(Update)
      /\ Len(Bounded(q)) = k
      /\ \A i \in 1 .. k : Bounded(q)[i] = q[Len(q) - k + i]
  <2> HIDE DEF q
  <2> QED
    BY <1>3, BoundedProperties
<1> k \in Nat /\ k <= LogCap /\ k <= n + 1 /\ k > 0
  BY <1>2, <1>3 DEF Kept
<1> HIDE DEF k, q
<1>7. LogType'
  BY <1>2, <1>5, <1>6 DEF LogType
<1>8. \A i \in 1 .. k : updates'[i].seq = nextSeq' - 1 - k + i
  <2> TAKE i \in 1 .. k
  <2> DEFINE j == n + 1 - k + i
  <2>1. j \in 1 .. n + 1
    BY <1>2
  <2>2. updates'[i] = q[j]
    BY <1>3, <1>5, <1>6
  <2>3. q[j].seq = nextSeq - 1 - n + j
    <3> HIDE DEF j
    <3> QED
      BY <1>4, <2>1
  <2>4. updates'[i].seq = nextSeq - 1 - n + j
    <3> HIDE DEF j
    <3> QED
      BY <2>2, <2>3
  <2> QED
    BY <1>2, <1>5, <2>4
<1>9. Len(updates') <= LogCap /\ Len(updates') < nextSeq' /\ Len(updates') = k
  BY <1>2, <1>5, <1>6
<1> QED
  BY <1>7, <1>8, <1>9 DEF LogInv, LogContiguous

(* An emptied buffer has no hole. *)
LEMMA ResetKeepsLog ==
  ASSUME updates' = <<>>, nextSeq' \in Nat \ {0}
  PROVE  LogInv'
<1>1. Len(updates') = 0 /\ updates' \in Seq(Update)
  BY EmptySeq
<1> QED
  BY <1>1, LogCapAssumption DEF LogInv, LogType, LogContiguous

-----------------------------------------------------------------------------

(* The content of the authority has its type, which makes every committed   *)
(* batch a batch.                                                           *)
AuthType == auth \in Content /\ pending \subseteq Blocks

(* Every step keeps the buffer without a hole. *)
LEMMA NextLog == LogInv /\ AuthType /\ [Next]_vars => LogInv' /\ AuthType'
<1> SUFFICES ASSUME LogInv, AuthType, [Next]_vars PROVE LogInv' /\ AuthType'
  OBVIOUS
<1>1. ASSUME NEW evs \in Batch, Write(evs) PROVE LogInv' /\ AuthType'
  <2>1. auth' = Overlay(auth, evs) /\ pending' = {}
    BY <1>1 DEF Write
  <2>2. PICK S \in SUBSET Blocks : evs \in [S -> Places \cup {NoPlace}]
    BY DEF Batch
  <2>3. auth' \in Content
    BY <2>1, <2>2 DEF Overlay, Content, AuthType
  <2> DEFINE batch == [b \in DOMAIN evs \cup pending |-> auth'[b]]
  <2>4. DOMAIN evs \cup pending \in SUBSET Blocks
    BY <2>2 DEF AuthType
  <2>5. batch \in [DOMAIN evs \cup pending -> Places \cup {NoPlace}]
    BY <2>3, <2>4 DEF Content
  <2>6. batch \in Batch
    BY <2>4, <2>5 DEF Batch
  <2>7. LogCommit(batch)
    BY <1>1 DEF Write
  <2> HIDE DEF batch
  <2> QED
    BY <2>1, <2>3, <2>6, <2>7, CommitKeepsLog DEF AuthType
<1>2. ASSUME NEW c \in Content, ImportSnapshot(c) PROVE LogInv' /\ AuthType'
  <2>1. updates' = <<>> /\ nextSeq' = nextSeq /\ auth' = c /\ pending' = Present(c)
    BY <1>2 DEF ImportSnapshot, LogReset
  <2> QED
    BY <2>1, ResetKeepsLog DEF LogInv, LogType, AuthType, Present
<1>3. CASE Restart
  <2>1. updates' = <<>> /\ nextSeq' = 1 /\ auth' = NoContent /\ pending' = {}
    BY <1>3 DEF Restart
  <2> QED
    BY <2>1, ResetKeepsLog DEF AuthType, Content, NoContent
<1>4. CASE UNCHANGED <<logVars, authVars>>
  BY <1>4 DEF logVars, authVars, LogInv, LogType, LogContiguous, AuthType
<1>5. ASSUME Connect \/ ReadInitial \/ Send \/ Forward \/ Resync \/ Recv \/ Break \/ StreamEnd
      PROVE  UNCHANGED <<logVars, authVars>>
  BY <1>5 DEF Connect, ReadInitial, Send, Forward, Resync, Recv, Break, StreamEnd, Disconnect
<1>6. ASSUME NEW c \in Content, Restore(c) \/ RestoreFails(c) PROVE ImportSnapshot(c)
  BY <1>6 DEF Restore, RestoreFails
<1> QED
  BY <1>1, <1>2, <1>3, <1>4, <1>5, <1>6 DEF Next, vars

(* The buffer is empty at the start. *)
LEMMA InitLog == Init => LogInv /\ AuthType
<1> SUFFICES ASSUME Init PROVE LogInv /\ AuthType
  OBVIOUS
<1>1. Len(updates) = 0 /\ updates \in Seq(Update) /\ nextSeq = 1
  BY EmptySeq DEF Init, LogInit
<1> QED
  BY <1>1, LogCapAssumption
     DEF LogInv, LogType, LogContiguous, Init, AuthType, Content, NoContent

(* The buffer of the control plane never has a hole and never grows beyond  *)
(* its capacity, through commits, restores and restarts.                    *)
THEOREM LogHasNoHole == Spec => []LogContiguous
<1>1. LogInv => LogContiguous
  BY DEF LogInv
<1> QED
  BY <1>1, InitLog, NextLog, PTL DEF Spec

(* Every batch after the point that replay_after accepts is in the buffer. *)
ReplayMissesNothing ==
  \A from \in Nat :
    CanReplay(from) =>
      \A n \in from + 1 .. LastSeq :
        \E i \in 1 .. Len(updates) : updates[i].seq = n

(* Whenever replay_after agrees to replay from a point, the buffer still    *)
(* holds every later batch: eviction never makes a resumed subscriber miss  *)
(* one, whatever the capacity.                                              *)
THEOREM ReplayComplete == Spec => []ReplayMissesNothing
<1>1. LogInv => ReplayMissesNothing
  <2> SUFFICES ASSUME LogInv, NEW from \in Nat, CanReplay(from),
                      NEW n \in from + 1 .. LastSeq
               PROVE  \E i \in 1 .. Len(updates) : updates[i].seq = n
    BY DEF ReplayMissesNothing
  <2>1. Len(updates) \in Nat /\ nextSeq \in Nat /\ n \in Nat /\ n < nextSeq /\ from < n
    BY LenProperties DEF LogInv, LogType, LastSeq
  <2>2. from + 1 >= Floor
    BY DEF CanReplay
  <2>3. updates # <<>>
    BY <2>1, <2>2 DEF Floor
  <2>4. Len(updates) > 0
    BY <2>1, <2>3, EmptySeq DEF LogInv, LogType
  <2>5. Floor = nextSeq - Len(updates)
    BY <2>1, <2>3, <2>4 DEF Floor, LogInv, LogContiguous
  <2> DEFINE i == n - nextSeq + 1 + Len(updates)
  <2>6. i \in 1 .. Len(updates)
    BY <2>1, <2>2, <2>5
  <2>7. updates[i].seq = n
    BY <2>1, <2>6 DEF LogInv, LogContiguous
  <2> QED
    BY <2>6, <2>7
<1> QED
  BY <1>1, InitLog, NextLog, PTL DEF Spec
=============================================================================
