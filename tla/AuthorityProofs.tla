-------------------------- MODULE AuthorityProofs --------------------------
(***************************************************************************)
(* What may be evicted is not in use and what is in use stays; charges and *)
(* counts of references are exact; and admission takes from others only    *)
(* what they borrowed: for any namespaces, chains, nodes, kinds of         *)
(* references, quotas and sizes.                                           *)
(*                                                                         *)
(* The first inductive invariant is about the eviction index alone: bytes  *)
(* and quotas decide how many blocks an admission evicts, never whether    *)
(* one of them is referenced.  The others build on it.                     *)
(***************************************************************************)
EXTENDS Authority, FiniteSetTheorems, WellFoundedInduction, TLAPS

(* References are counts; the index holds registered blocks that nobody     *)
(* references.  The counts are needed because a dead node's rows are        *)
(* subtracted from the global ones.                                         *)
IndexInv ==
  /\ view \subseteq Blocks
  /\ inactive \subseteq view
  /\ refs \in [Blocks -> [Kinds -> Nat]]
  /\ held \in [Nodes -> [Blocks -> [Kinds -> Nat]]]
  /\ InactiveIsFree

(* Nobody references a block without references. *)
LEMMA NoRefsIsFree ==
  ASSUME NEW r, NEW b, r[b] = NoRefs
  PROVE  Unreferenced(r, b)
BY DEF Unreferenced, NoRefs

(* A block without references has a count for every kind. *)
LEMMA NoRefsType == NoRefs \in [Kinds -> Nat]
BY DEF NoRefs

(* The authority starts with an empty index. *)
LEMMA InitIndexInv == Init => IndexInv
<1> SUFFICES ASSUME Init PROVE IndexInv
  OBVIOUS
<1>1. refs \in [Blocks -> [Kinds -> Nat]]
  BY NoRefsType DEF Init
<1>2. held \in [Nodes -> [Blocks -> [Kinds -> Nat]]]
  BY NoRefsType DEF Init
<1> QED
  BY <1>1, <1>2 DEF Init, IndexInv, InactiveIsFree

(* Resetting the references of some blocks, and removing blocks from the    *)
(* index, keeps the index free (commit_admit, gc_cold, deregister_model).   *)
LEMMA ResetKeepsFree ==
  ASSUME NEW D, NEW I,
         IndexInv, I \subseteq inactive,
         refs' = [b \in Blocks |-> IF b \in D THEN NoRefs ELSE refs[b]],
         inactive' = I
  PROVE  InactiveIsFree' /\ refs' \in [Blocks -> [Kinds -> Nat]]
<1>1. refs' \in [Blocks -> [Kinds -> Nat]]
  BY NoRefsType DEF IndexInv
<1>2. ASSUME NEW b \in inactive'
      PROVE  Unreferenced(refs', b)
  <2>1. b \in Blocks /\ Unreferenced(refs, b)
    BY <1>2 DEF IndexInv, InactiveIsFree
  <2>2. refs'[b] = NoRefs \/ refs'[b] = refs[b]
    BY <2>1
  <2> QED
    BY <2>1, <2>2, NoRefsIsFree DEF Unreferenced
<1> QED
  BY <1>1, <1>2 DEF InactiveIsFree

(* Giving references back to counts r, none above the present ones, keeps   *)
(* the index free: what enters it has lost its last reference.              *)
LEMMA ReleaseKeepsFree ==
  ASSUME NEW r \in [Blocks -> [Kinds -> Nat]],
         IndexInv, Release(r),
         \A b \in Blocks : \A k \in Kinds : r[b][k] <= refs[b][k]
  PROVE  InactiveIsFree' /\ inactive' \subseteq view /\ refs' = r
<1>1. PICK T \in SUBSET Blocks :
        /\ Entering({b \in view : ~Unreferenced(refs, b) /\ Unreferenced(r, b)}, T)
        /\ inactive' = inactive \cup T
  BY Zenon DEF Release
<1>2. T \subseteq {b \in view : ~Unreferenced(refs, b) /\ Unreferenced(r, b)}
  BY <1>1 DEF Entering
<1>3. refs' = r
  BY DEF Release
<1>4. ASSUME NEW b \in inactive
      PROVE  Unreferenced(r, b)
  <2>1. b \in Blocks /\ Unreferenced(refs, b)
    BY DEF IndexInv, InactiveIsFree
  <2>2. ASSUME NEW k \in Kinds
        PROVE  r[b][k] = 0
    <3>1. r[b][k] \in Nat /\ r[b][k] <= refs[b][k] /\ refs[b][k] = 0
      BY <2>1 DEF Unreferenced
    <3> QED
      BY <3>1
  <2> QED
    BY <2>2 DEF Unreferenced
<1>5. ASSUME NEW b \in inactive'
      PROVE  Unreferenced(refs', b)
  BY <1>1, <1>2, <1>3, <1>4
<1> QED
  BY <1>1, <1>2, <1>3, <1>5 DEF InactiveIsFree, IndexInv

-----------------------------------------------------------------------------
(* RegisterBlocks, whether it succeeds or fails after the admission. *)
LEMMA RegisterKeeps ==
  ASSUME NEW n \in Namespaces, NEW S \in Segments[n], IndexInv,
         RegisterBlocks(n, S) \/ RegisterUnsettled(n, S)
  PROVE  IndexInv'
<1>1. PICK V \in SUBSET inactive :
        /\ CommitAdmit(n, Admitted(n, S), V)
        /\ view' = (view \ Dropped(V)) \cup S \/ view' = view \ Dropped(V)
  BY Zenon DEF RegisterBlocks, RegisterUnsettled
<1>2. S \subseteq Blocks
  BY DEF Segments, Of
<1>3. /\ inactive' = inactive \ V
      /\ refs' = [b \in Blocks |-> IF b \in Dropped(V) THEN NoRefs ELSE refs[b]]
  BY <1>1 DEF CommitAdmit
<1>4. InactiveIsFree' /\ refs' \in [Blocks -> [Kinds -> Nat]]
  BY Zenon, <1>3, ResetKeepsFree
<1>5. view' \subseteq Blocks /\ inactive' \subseteq view'
  BY <1>1, <1>2, <1>3 DEF IndexInv, Dropped
<1>6. UNCHANGED held
  BY DEF RegisterBlocks, RegisterUnsettled
<1> QED
  BY <1>4, <1>5, <1>6 DEF IndexInv

(* Counts stay counts when one is added, or one taken from what is positive. *)
LEMMA AddedType ==
  ASSUME NEW r \in [Blocks -> [Kinds -> Nat]], NEW S, NEW k \in Kinds,
         NEW delta \in {-1, 1},
         delta = 1 \/ \A b \in S \cap Blocks : r[b][k] > 0
  PROVE  Added(r, S, k, delta) \in [Blocks -> [Kinds -> Nat]]
<1>1. ASSUME NEW b \in Blocks, b \in S
      PROVE  [r[b] EXCEPT ![k] = @ + delta] \in [Kinds -> Nat]
  <2>1. r[b] \in [Kinds -> Nat] /\ r[b][k] + delta \in Nat
    BY <1>1
  <2> QED
    BY <2>1
<1> QED
  BY <1>1 DEF Added

(* report_refs that adds: what is referenced leaves the index. *)
LEMMA TakeRefsKeeps ==
  ASSUME NEW d \in Nodes, NEW k \in Kinds, NEW S, IndexInv, TakeRefs(d, k, S)
  PROVE  IndexInv'
<1>1. refs' \in [Blocks -> [Kinds -> Nat]]
  BY AddedType DEF TakeRefs, IndexInv
<1>2. Added(held[d], S, k, 1) \in [Blocks -> [Kinds -> Nat]]
  BY AddedType DEF IndexInv
<1>3. held' \in [Nodes -> [Blocks -> [Kinds -> Nat]]]
  BY <1>2 DEF TakeRefs, IndexInv
<1>4. ASSUME NEW b \in inactive'
      PROVE  Unreferenced(refs', b)
  <2>1. b \in inactive /\ b \in Blocks /\ b \notin S
    BY DEF TakeRefs, IndexInv
  <2>2. refs'[b] = refs[b]
    BY <2>1 DEF TakeRefs, Added
  <2> QED
    BY <2>1, <2>2 DEF IndexInv, InactiveIsFree, Unreferenced
<1>5. view' = view /\ inactive' \subseteq inactive
  BY DEF TakeRefs
<1> QED
  BY <1>1, <1>3, <1>4, <1>5 DEF IndexInv, InactiveIsFree

(* report_refs that takes back. *)
LEMMA ReleaseRefsKeeps ==
  ASSUME NEW d \in Nodes, NEW k \in Kinds, NEW S, IndexInv, ReleaseRefs(d, k, S)
  PROVE  IndexInv'
<1> DEFINE r == Added(refs, S, k, -1)
<1>1. ASSUME NEW b \in Blocks, NEW j \in Kinds
      PROVE  r[b][j] <= refs[b][j]
  <2>1. refs[b] \in [Kinds -> Nat]
    BY DEF IndexInv
  <2>2. r[b] = refs[b] \/ r[b] = [refs[b] EXCEPT ![k] = @ + (-1)]
    BY DEF Added
  <2> QED
    BY <2>1, <2>2
<1>2. r \in [Blocks -> [Kinds -> Nat]]
  BY AddedType DEF ReleaseRefs, IndexInv
<1>3. Release(r)
  BY DEF ReleaseRefs
<1> HIDE DEF r
<1>4. InactiveIsFree' /\ inactive' \subseteq view /\ refs' = r
  BY <1>1, <1>2, <1>3, ReleaseKeepsFree
<1>5. Added(held[d], S, k, -1) \in [Blocks -> [Kinds -> Nat]]
  BY AddedType DEF ReleaseRefs, IndexInv
<1>6. held' \in [Nodes -> [Blocks -> [Kinds -> Nat]]]
  BY <1>5 DEF ReleaseRefs, IndexInv
<1>7. view' = view
  BY DEF ReleaseRefs
<1> QED
  BY <1>2, <1>4, <1>6, <1>7 DEF IndexInv

(* reconcile_dead_node takes back at most what is there. *)
LEMMA ReconcileKeeps ==
  ASSUME NEW d \in Nodes, IndexInv, ReconcileDeadNode(d)
  PROVE  IndexInv'
<1> DEFINE r == [b \in Blocks |-> [k \in Kinds |->
                   IF b \in view /\ refs[b][k] >= held[d][b][k]
                     THEN refs[b][k] - held[d][b][k]
                     ELSE refs[b][k]]]
<1>1. ASSUME NEW b \in Blocks, NEW k \in Kinds
      PROVE  r[b][k] \in Nat /\ r[b][k] <= refs[b][k]
  <2>1. refs[b][k] \in Nat /\ held[d][b][k] \in Nat
    BY DEF IndexInv
  <2> QED
    BY <2>1
<1>2. r \in [Blocks -> [Kinds -> Nat]]
  <2>1. ASSUME NEW b \in Blocks
        PROVE  [k \in Kinds |->
                   IF b \in view /\ refs[b][k] >= held[d][b][k]
                     THEN refs[b][k] - held[d][b][k]
                     ELSE refs[b][k]] \in [Kinds -> Nat]
    BY <1>1
  <2> QED
    BY <2>1
<1>3. Release(r)
  BY DEF ReconcileDeadNode
<1> HIDE DEF r
<1>4. InactiveIsFree' /\ inactive' \subseteq view /\ refs' = r
  BY <1>1, <1>2, <1>3, ReleaseKeepsFree
<1>5. held' \in [Nodes -> [Blocks -> [Kinds -> Nat]]]
  BY NoRefsType DEF ReconcileDeadNode, IndexInv
<1>6. view' = view
  BY DEF ReconcileDeadNode
<1> QED
  BY <1>2, <1>4, <1>5, <1>6 DEF IndexInv

(* discard_one takes the block out of the index too. *)
LEMMA DiscardKeeps ==
  ASSUME NEW b \in Blocks, IndexInv, Discard(b)
  PROVE  IndexInv'
<1>1. refs' \in [Blocks -> [Kinds -> Nat]]
  BY NoRefsType DEF Discard, Forget, IndexInv
<1>2. held' \in [Nodes -> [Blocks -> [Kinds -> Nat]]]
  BY NoRefsType DEF Discard, Forget, IndexInv
<1>3. ASSUME NEW c \in inactive'
      PROVE  Unreferenced(refs', c)
  <2>1. c \in inactive /\ c # b
    BY DEF Discard, Forget
  <2>2. refs'[c] = refs[c]
    BY <2>1 DEF Discard, Forget, IndexInv
  <2> QED
    BY <2>1, <2>2 DEF IndexInv, InactiveIsFree, Unreferenced
<1>4. view' \subseteq Blocks /\ inactive' \subseteq view'
  BY DEF Discard, Forget, IndexInv
<1> QED
  BY <1>1, <1>2, <1>3, <1>4 DEF IndexInv, InactiveIsFree

(* gc_cold: what returns to the index was found unreferenced. *)
LEMMA GcColdKeeps ==
  ASSUME NEW V \in SUBSET Blocks, NEW durable \in SUBSET V, IndexInv,
         GcCold(V, durable)
  PROVE  IndexInv'
<1> DEFINE gone == Dropped(V) \ durable
<1>1. /\ view' = view \ gone
      /\ refs' = [b \in Blocks |-> IF b \in gone THEN NoRefs ELSE refs[b]]
      /\ inactive' = (inactive \ V) \cup (Dropped(V) \cap durable)
      /\ V \subseteq inactive
      /\ held' = held
  BY DEF GcCold
<1>2. Dropped(V) \subseteq V
  BY DEF Dropped
<1>3. inactive' \subseteq inactive /\ inactive' \subseteq view' /\ view' \subseteq Blocks
  BY <1>1, <1>2 DEF IndexInv
<1> HIDE DEF gone
<1>4. InactiveIsFree' /\ refs' \in [Blocks -> [Kinds -> Nat]]
  BY <1>1, <1>3, ResetKeepsFree
<1> QED
  BY <1>1, <1>3, <1>4 DEF IndexInv

(* deregister_model takes the whole pool out of the index. *)
LEMMA DeregisterKeeps ==
  ASSUME NEW n \in Namespaces, IndexInv, DeregisterModel(n)
  PROVE  IndexInv'
<1>1. /\ view' = view \ Of(n)
      /\ refs' = [b \in Blocks |-> IF b \in Of(n) THEN NoRefs ELSE refs[b]]
      /\ inactive' = inactive \ Of(n)
      /\ held' = held
  BY DEF DeregisterModel
<1>2. InactiveIsFree' /\ refs' \in [Blocks -> [Kinds -> Nat]]
  BY Zenon, <1>1, ResetKeepsFree
<1> QED
  BY <1>1, <1>2 DEF IndexInv

(* import_snapshot empties the index. *)
LEMMA RestoreKeeps ==
  ASSUME NEW last \in 0 .. NumBlocks, IndexInv, RestoreCheckpoint(last)
  PROVE  IndexInv'
<1>1. refs' \in [Blocks -> [Kinds -> Nat]]
  BY NoRefsType DEF RestoreCheckpoint
<1>2. held' \in [Nodes -> [Blocks -> [Kinds -> Nat]]]
  BY NoRefsType DEF RestoreCheckpoint
<1> QED
  BY <1>1, <1>2 DEF RestoreCheckpoint, IndexInv, InactiveIsFree

(* Every step keeps the index free. *)
LEMMA NextIndexInv == IndexInv /\ [Next]_vars => IndexInv'
<1> SUFFICES ASSUME IndexInv, [Next]_vars PROVE IndexInv'
  OBVIOUS
<1>1. CASE \E n \in Namespaces, q \in Quotas : RegisterModel(n, q) \/ SetModelQuota(n, q)
  BY <1>1 DEF RegisterModel, SetModelQuota, IndexInv, InactiveIsFree, Unreferenced
<1>2. CASE \E n \in Namespaces : DeregisterModel(n)
  BY <1>2, DeregisterKeeps
<1>3. CASE \E n \in Namespaces : \E S \in Segments[n] :
             RegisterBlocks(n, S) \/ RegisterUnsettled(n, S)
  BY <1>3, RegisterKeeps
<1>4. CASE \E d \in Nodes, k \in Kinds, n \in Namespaces : \E S \in Segments[n] :
             TakeRefs(d, k, S) \/ ReleaseRefs(d, k, S)
  BY <1>4, TakeRefsKeeps, ReleaseRefsKeeps
<1>5. CASE \E d \in Nodes : ReconcileDeadNode(d)
  BY <1>5, ReconcileKeeps
<1>6. CASE \E b \in Blocks : Discard(b)
  BY <1>6, DiscardKeeps
<1>7. CASE \E V \in SUBSET Blocks : \E durable \in SUBSET V : GcCold(V, durable)
  BY <1>7, GcColdKeeps
<1>8. CASE \E last \in 0 .. NumBlocks : RestoreCheckpoint(last)
  BY <1>8, RestoreKeeps
<1>9. CASE UNCHANGED vars
  BY <1>9 DEF vars, IndexInv, InactiveIsFree, Unreferenced
<1> QED
  BY <1>1, <1>2, <1>3, <1>4, <1>5, <1>6, <1>7, <1>8, <1>9 DEF Next

(* The eviction index never holds a block that some node or request          *)
(* references, whatever the order of reports, evictions, collections and     *)
(* dead nodes.                                                               *)
THEOREM IndexIsFree == Spec => []InactiveIsFree
<1>1. IndexInv => InactiveIsFree
  BY DEF IndexInv
<1> QED
  BY <1>1, InitIndexInv, NextIndexInv, PTL DEF Spec

(* One step never takes a referenced block out of the view, but for the end  *)
(* of its namespace and a restore.                                           *)
LEMMA StepFreezes ==
  ASSUME IndexInv, Next, NEW b \in view, ~Unreferenced(refs, b), b \notin view'
  PROVE  \/ NsOf[b] \notin models'
         \/ \E last \in 0 .. NumBlocks : RestoreCheckpoint(last)
<1>1. ASSUME NEW n \in Namespaces, DeregisterModel(n)
      PROVE  NsOf[b] \notin models'
  BY <1>1 DEF DeregisterModel, Of, IndexInv
<1>2. ASSUME NEW n \in Namespaces, NEW S,
             RegisterBlocks(n, S) \/ RegisterUnsettled(n, S)
      PROVE  FALSE
  <2>1. PICK V : view' = (view \ Dropped(V)) \cup S \/ view' = view \ Dropped(V)
    BY Zenon, <1>2 DEF RegisterBlocks, RegisterUnsettled
  <2> QED
    BY <2>1 DEF Dropped
<1>3. ASSUME NEW c, Discard(c)
      PROVE  FALSE
  BY <1>3 DEF Discard, Forget
<1>4. ASSUME NEW V, NEW durable, GcCold(V, durable)
      PROVE  FALSE
  BY <1>4 DEF GcCold, Dropped
<1>5. ASSUME view' = view
      PROVE  FALSE
  BY <1>5
<1>6. CASE \E n \in Namespaces, q \in Quotas : RegisterModel(n, q) \/ SetModelQuota(n, q)
  BY <1>5, <1>6 DEF RegisterModel, SetModelQuota
<1>7. CASE \E d \in Nodes, k \in Kinds, n \in Namespaces : \E S \in Segments[n] :
             TakeRefs(d, k, S) \/ ReleaseRefs(d, k, S)
  BY <1>5, <1>7 DEF TakeRefs, ReleaseRefs
<1>8. CASE \E d \in Nodes : ReconcileDeadNode(d)
  BY <1>5, <1>8 DEF ReconcileDeadNode
<1> QED
  BY <1>1, <1>2, <1>3, <1>4, <1>6, <1>7, <1>8 DEF Next

(* A referenced block is frozen: neither admission for any namespace, nor    *)
(* gc_cold, nor a dead node, nor DiscardBlocks takes it out of the view.     *)
THEOREM ReferencedIsFrozen == Spec => Frozen
<1>1. ASSUME IndexInv, [Next]_vars
      PROVE  [\A b \in view :
                ~Unreferenced(refs, b) /\ b \notin view'
                  => \/ NsOf[b] \notin models'
                     \/ \E last \in 0 .. NumBlocks : RestoreCheckpoint(last)]_vars
  BY <1>1, StepFreezes
<1> QED
  BY <1>1, InitIndexInv, NextIndexInv, PTL DEF Spec, Frozen

-----------------------------------------------------------------------------
(* Bytes.  The charge of a namespace is exactly what its blocks occupy.      *)

UsedInv == used = Charge(view)

(* What max(0) does to the results of subtractions. *)
LEMMA MaxWithZero ==
  ASSUME NEW x \in Nat
  PROVE  Max({x, 0}) = x
<1>1. \A y \in {x, 0} : x >= y
  OBVIOUS
<1>2. ASSUME NEW z \in {x, 0}, \A y \in {x, 0} : z >= y
      PROVE  z = x
  BY <1>2
<1> QED
  BY <1>1, <1>2 DEF Max

(* Sets of blocks are finite, so they can be counted. *)
LEMMA BlocksFinite ==
  ASSUME NEW P \in SUBSET Blocks, NEW m \in Namespaces
  PROVE  IsFiniteSet(P \cap Of(m)) /\ Cardinality(P \cap Of(m)) \in Nat
<1>1. IsFiniteSet(Blocks)
  BY SizeAssumption, FS_Interval DEF Blocks
<1>2. IsFiniteSet(P \cap Of(m))
  BY <1>1, FS_Subset
<1> QED
  BY <1>2, FS_CardinalityType

(* Removing registered blocks and subtracting their bytes. *)
LEMMA DischargeExact ==
  ASSUME NEW D \in SUBSET view, view \subseteq Blocks, UsedInv
  PROVE  Discharged(D) = Charge(view \ D)
<1>1. ASSUME NEW m \in Namespaces
      PROVE  Discharged(D)[m] = Charge(view \ D)[m]
  <2> DEFINE a == Cardinality(view \cap Of(m))
             c == Cardinality(D \cap Of(m))
             rest == Cardinality((view \ D) \cap Of(m))
  <2>1. a \in Nat /\ c \in Nat /\ rest \in Nat
    BY BlocksFinite
  <2>2. rest = a - c
    <3>1. (view \ D) \cap Of(m) = (view \cap Of(m)) \ D
      OBVIOUS
    <3>2. (view \cap Of(m)) \cap D = D \cap Of(m)
      OBVIOUS
    <3>3. IsFiniteSet(view \cap Of(m))
      BY BlocksFinite
    <3>4. Cardinality((view \cap Of(m)) \ D)
            = Cardinality(view \cap Of(m)) - Cardinality((view \cap Of(m)) \cap D)
      BY Zenon, <3>3, FS_Difference
    <3> QED
      BY <3>1, <3>2, <3>4
  <2>3. used[m] = Bpb[m] * a /\ Charge(D)[m] = Bpb[m] * c
    BY DEF UsedInv, Charge
  <2>4. Bpb[m] \in Nat
    BY BytesAssumption
  <2> HIDE DEF a, c, rest
  <2>5. used[m] - Charge(D)[m] = Bpb[m] * rest
    BY <2>1, <2>2, <2>3, <2>4
  <2>6. Bpb[m] * rest \in Nat
    BY <2>1, <2>4
  <2>7. Discharged(D)[m] = Max({Bpb[m] * rest, 0})
    BY <2>5 DEF Discharged
  <2>8. Discharged(D)[m] = Bpb[m] * rest
    BY <2>6, <2>7, MaxWithZero
  <2> QED
    BY <2>8 DEF Charge, rest
<1>2. /\ Discharged(D) = [m \in Namespaces |-> Discharged(D)[m]]
      /\ Charge(view \ D) = [m \in Namespaces |-> Charge(view \ D)[m]]
  BY DEF Discharged, Charge
<1> QED
  BY <1>1, <1>2

(* Adding blocks and charging those that were not there. *)
LEMMA ChargeExact ==
  ASSUME NEW left \in SUBSET Blocks, NEW S \in SUBSET Blocks
  PROVE  [m \in Namespaces |-> Charge(left)[m] + Charge(S \ left)[m]]
           = Charge(left \cup S)
<1>1. ASSUME NEW m \in Namespaces
      PROVE  Charge(left)[m] + Charge(S \ left)[m] = Charge(left \cup S)[m]
  <2> DEFINE a == Cardinality(left \cap Of(m))
             c == Cardinality((S \ left) \cap Of(m))
             both == Cardinality((left \cup S) \cap Of(m))
  <2>1. a \in Nat /\ c \in Nat /\ both \in Nat
    BY Zenon, BlocksFinite
  <2>2. both = a + c
    <3>1. (left \cup S) \cap Of(m) = (left \cap Of(m)) \cup ((S \ left) \cap Of(m))
      OBVIOUS
    <3>2. (left \cap Of(m)) \cap ((S \ left) \cap Of(m)) = {}
      OBVIOUS
    <3>3. IsFiniteSet(left \cap Of(m)) /\ IsFiniteSet((S \ left) \cap Of(m))
      BY BlocksFinite
    <3>4. both = a + c - Cardinality({})
      BY <3>1, <3>2, <3>3, FS_Union
    <3> QED
      BY <2>1, <3>4, FS_EmptySet
  <2>3. /\ Charge(left)[m] = Bpb[m] * a
        /\ Charge(S \ left)[m] = Bpb[m] * c
        /\ Charge(left \cup S)[m] = Bpb[m] * both
    BY DEF Charge
  <2>4. Bpb[m] \in Nat
    BY BytesAssumption
  <2> HIDE DEF a, c, both
  <2> QED
    BY <2>1, <2>2, <2>3, <2>4
<1> QED
  BY Zenon, <1>1 DEF Charge

(* A deregistered namespace leaves the other charges alone. *)
LEMMA DeregisterExact ==
  ASSUME NEW n \in Namespaces, UsedInv, view \subseteq Blocks
  PROVE  [used EXCEPT ![n] = 0] = Charge(view \ Of(n))
<1>1. ASSUME NEW m \in Namespaces
      PROVE  [used EXCEPT ![n] = 0][m] = Charge(view \ Of(n))[m]
  <2>1. CASE m = n
    <3>1. (view \ Of(n)) \cap Of(m) = {}
      BY <2>1
    <3>2. Charge(view \ Of(n))[m] = Bpb[m] * 0
      BY <3>1, FS_EmptySet DEF Charge
    <3>3. Bpb[m] \in Nat
      BY BytesAssumption
    <3> QED
      BY <2>1, <3>2, <3>3 DEF UsedInv, Charge
  <2>2. CASE m # n
    <3>1. (view \ Of(n)) \cap Of(m) = view \cap Of(m)
      BY <2>2 DEF Of
    <3> QED
      BY <2>2, <3>1 DEF UsedInv, Charge
  <2> QED
    BY <2>1, <2>2
<1>2. [used EXCEPT ![n] = 0] = [m \in Namespaces |-> [used EXCEPT ![n] = 0][m]]
  BY DEF UsedInv, Charge
<1> QED
  BY Zenon, <1>1, <1>2 DEF Charge

(* Every step keeps the charges exact. *)
LEMMA NextUsedInv == IndexInv /\ UsedInv /\ [Next]_vars => UsedInv'
<1> SUFFICES ASSUME IndexInv, UsedInv, [Next]_vars PROVE UsedInv'
  OBVIOUS
<1>1. ASSUME view' = view, used' = used
      PROVE  UsedInv'
  BY <1>1 DEF UsedInv, Charge
<1>2. ASSUME NEW D \in SUBSET view, view' = view \ D, used' = Discharged(D)
      PROVE  UsedInv'
  BY Zenon, <1>2, DischargeExact DEF UsedInv, IndexInv, Charge
<1>3. ASSUME NEW n \in Namespaces, DeregisterModel(n)
      PROVE  UsedInv'
  BY Zenon, <1>3, DeregisterExact DEF DeregisterModel, UsedInv, IndexInv, Charge
<1>4. ASSUME NEW n \in Namespaces, NEW S \in Segments[n], RegisterBlocks(n, S)
      PROVE  UsedInv'
  <2>1. PICK V \in SUBSET inactive :
          /\ view' = (view \ Dropped(V)) \cup S
          /\ used' = [m \in Namespaces |->
                Discharged(Dropped(V))[m] + Charge(S \ (view \ Dropped(V)))[m]]
    BY Zenon, <1>4 DEF RegisterBlocks
  <2>2. Dropped(V) \in SUBSET view
    BY DEF Dropped, IndexInv
  <2>3. Discharged(Dropped(V)) = Charge(view \ Dropped(V))
    BY <2>2, DischargeExact DEF IndexInv
  <2>4. S \subseteq Blocks
    BY DEF Segments, Of
  <2>5. used' = Charge((view \ Dropped(V)) \cup S)
    BY Zenon, <2>1, <2>3, <2>4, ChargeExact DEF IndexInv
  <2> QED
    BY <2>1, <2>5 DEF UsedInv, Charge
<1>5. ASSUME NEW n \in Namespaces, NEW S, RegisterUnsettled(n, S)
      PROVE  UsedInv'
  <2>1. PICK V \in SUBSET inactive :
          view' = view \ Dropped(V) /\ used' = Discharged(Dropped(V))
    BY <1>5 DEF RegisterUnsettled
  <2>2. Dropped(V) \in SUBSET view
    BY DEF Dropped, IndexInv
  <2> QED
    BY <2>1, <2>2, <1>2
<1>6. ASSUME NEW b \in Blocks, Discard(b)
      PROVE  UsedInv'
  <2>1. {b} \in SUBSET view /\ view' = view \ {b} /\ used' = Discharged({b})
    BY <1>6 DEF Discard, Forget
  <2> QED
    BY <2>1, <1>2
<1>7. ASSUME NEW V, NEW durable, GcCold(V, durable)
      PROVE  UsedInv'
  <2> DEFINE gone == Dropped(V) \ durable
  <2>1. view' = view \ gone /\ used' = Discharged(gone)
    BY <1>7 DEF GcCold
  <2>2. gone \in SUBSET view
    BY <1>7 DEF GcCold, Dropped, IndexInv
  <2> HIDE DEF gone
  <2> QED
    BY <2>1, <2>2, <1>2
<1>8. ASSUME NEW last, RestoreCheckpoint(last)
      PROVE  UsedInv'
  BY <1>8 DEF RestoreCheckpoint, UsedInv, Charge
<1>9. CASE \E n \in Namespaces, q \in Quotas : RegisterModel(n, q) \/ SetModelQuota(n, q)
  BY <1>1, <1>9 DEF RegisterModel, SetModelQuota
<1>10. CASE \E d \in Nodes, k \in Kinds, n \in Namespaces : \E S \in Segments[n] :
              TakeRefs(d, k, S) \/ ReleaseRefs(d, k, S)
  BY <1>1, <1>10 DEF TakeRefs, ReleaseRefs
<1>11. CASE \E d \in Nodes : ReconcileDeadNode(d)
  BY <1>1, <1>11 DEF ReconcileDeadNode
<1>12. CASE UNCHANGED vars
  BY <1>1, <1>12 DEF vars
<1> QED
  BY <1>3, <1>4, <1>5, <1>6, <1>7, <1>8, <1>9, <1>10, <1>11, <1>12 DEF Next

(* Nothing is charged at the start. *)
LEMMA InitUsedInv == Init => UsedInv
<1> SUFFICES ASSUME Init PROVE UsedInv
  OBVIOUS
<1>1. ASSUME NEW m \in Namespaces
      PROVE  Charge(view)[m] = 0
  <2>1. view \cap Of(m) = {} /\ Bpb[m] \in Nat
    BY BytesAssumption DEF Init
  <2> QED
    BY <2>1, FS_EmptySet DEF Charge
<1> QED
  BY <1>1 DEF Init, UsedInv, Charge

(* used_bytes is exact for every namespace: no order of evictions, failed    *)
(* registrations, reclaims and collections lets a charge drift from what     *)
(* the registered blocks occupy.                                             *)
THEOREM ChargesAreExact == Spec => []UsedExact
<1>1. UsedInv => UsedExact
  BY DEF UsedInv, UsedExact, Charge
<1> QED
  BY <1>1, InitUsedInv, InitIndexInv, NextIndexInv, NextUsedInv, PTL DEF Spec

-----------------------------------------------------------------------------
(* Sums.  SumFunction takes the values of a function one by one, in an order *)
(* that CHOOSE fixes.  What it returns is found by induction, with a set in  *)
(* the place of the predicate.                                               *)

(* A set of numbers has a least one. *)
LEMMA LeastNat ==
  ASSUME NEW T \in SUBSET Nat, T # {}
  PROVE  \E x \in T : \A y \in T : x <= y
<1> DEFINE R == OpToRel(<, Nat)
<1>1. IsWellFoundedOn(R, Nat)
  BY Zenon, NatLessThanWellFounded
<1>2. R = {p \in Nat \X Nat : p[1] < p[2]}
  BY DEF OpToRel
<1> HIDE DEF R
<1>3. PICK x \in T : \A y \in T : ~(<<y, x>> \in R)
  BY Zenon, <1>1, WFMin
<1>4. ASSUME NEW y \in T
      PROVE  x <= y
  <2>1. x \in Nat /\ y \in Nat /\ <<y, x>> \in Nat \X Nat
    OBVIOUS
  <2>2. ~(<<y, x>> \in {p \in Nat \X Nat : p[1] < p[2]})
    BY <1>2, <1>3
  <2>3. ~(y < x)
    BY <2>1, <2>2
  <2> QED
    BY <2>1, <2>3
<1> QED
  BY <1>4

(* Induction, for a set of numbers in the place of a predicate. *)
LEMMA Upward ==
  ASSUME NEW Q, 0 \in Q, \A n \in Nat : n \in Q => n + 1 \in Q
  PROVE  Nat \subseteq Q
<1> SUFFICES ASSUME Nat \ Q # {} PROVE FALSE
  OBVIOUS
<1>1. PICK n \in Nat \ Q : \A m \in Nat \ Q : n <= m
  BY Zenon, LeastNat
<1>2. n # 0 /\ n - 1 \in Nat
  OBVIOUS
<1>3. n - 1 \in Q
  BY <1>1, <1>2
<1>4. (n - 1) + 1 \in Q
  BY <1>2, <1>3
<1> QED
  BY <1>1, <1>4

(* The element of s that a sum takes first. *)
One(s) == CHOOSE x \in s : TRUE

(* It is an element of s. *)
LEMMA OneIn ==
  ASSUME NEW s, s # {}
  PROVE  One(s) \in s
BY DEF One

(* Induction over the subsets of a finite set, taking one element at a time. *)
LEMMA SubsetInduction ==
  ASSUME NEW D, IsFiniteSet(D), NEW Q, {} \in Q,
         \A s \in SUBSET D : s # {} /\ s \ {One(s)} \in Q => s \in Q
  PROVE  SUBSET D \subseteq Q
<1> DEFINE N == {n \in Nat : \A s \in SUBSET D : Cardinality(s) = n => s \in Q}
<1>1. \A s \in SUBSET D : IsFiniteSet(s) /\ Cardinality(s) \in Nat
  BY FS_Subset, FS_CardinalityType
<1>2. 0 \in N
  BY <1>1, FS_EmptySet
<1>3. ASSUME NEW n \in Nat, n \in N
      PROVE  n + 1 \in N
  <2> SUFFICES ASSUME NEW s \in SUBSET D, Cardinality(s) = n + 1 PROVE s \in Q
    OBVIOUS
  <2>1. s # {}
    BY FS_EmptySet
  <2>2. One(s) \in s
    BY <2>1, OneIn
  <2>3. Cardinality(s \ {One(s)}) = n
    BY <1>1, <2>2, FS_RemoveElement
  <2> QED
    BY <1>3, <2>1, <2>3
<1> HIDE DEF N
<1>4. Nat \subseteq N
  BY <1>2, <1>3, Upward
<1> QED
  BY <1>1, <1>4 DEF N

(* it is the function that a sum of h over D computes along the way. *)
SumStep(it, h, s) == IF s = {} THEN 0 ELSE h[One(s)] + it[s \ {One(s)}]
IsSum(it, h, D) == it = [s \in SUBSET D |-> SumStep(it, h, s)]

(* It is an integer at every point. *)
LEMMA IterType ==
  ASSUME NEW D, IsFiniteSet(D), NEW h \in [D -> Int], NEW it, IsSum(it, h, D)
  PROVE  it \in [SUBSET D -> Int]
<1> DEFINE Q == {s \in SUBSET D : it[s] \in Int}
<1>1. \A s \in SUBSET D : it[s] = SumStep(it, h, s)
  BY DEF IsSum
<1>2. {} \in Q
  BY <1>1 DEF SumStep
<1>3. ASSUME NEW s \in SUBSET D, s # {}, s \ {One(s)} \in Q
      PROVE  s \in Q
  <2>1. One(s) \in D
    BY <1>3, OneIn
  <2>2. it[s] = h[One(s)] + it[s \ {One(s)}]
    BY Zenon, <1>1, <1>3 DEF SumStep
  <2> QED
    BY <1>3, <2>1, <2>2
<1> HIDE DEF Q
<1>4. SUBSET D \subseteq Q
  BY <1>2, <1>3, SubsetInduction
<1>5. \A s \in SUBSET D : it[s] \in Int
  BY <1>4 DEF Q
<1>6. it = [s \in SUBSET D |-> it[s]]
  BY DEF IsSum
<1> QED
  BY <1>5, <1>6

(* There is one: it is built for the sets of at most n elements, for every n. *)
LEMMA IterExists ==
  ASSUME NEW D, IsFiniteSet(D), NEW h \in [D -> Int]
  PROVE  \E it : IsSum(it, h, D)
<1> DEFINE Small(n) == {s \in SUBSET D : Cardinality(s) <= n}
           Good(it, n) == it = [s \in Small(n) |-> SumStep(it, h, s)]
           Q == {n \in Nat : \E it : Good(it, n)}
<1>1. \A s \in SUBSET D : IsFiniteSet(s) /\ Cardinality(s) \in Nat
  BY FS_Subset, FS_CardinalityType
<1>2. 0 \in Q
  <2> DEFINE it == [s \in Small(0) |-> 0]
  <2>1. \A s \in Small(0) : s = {}
    BY <1>1, FS_EmptySet
  <2>2. Good(it, 0)
    BY <2>1 DEF SumStep
  <2> QED
    BY Zenon, <2>2
<1>3. ASSUME NEW n \in Nat, n \in Q
      PROVE  n + 1 \in Q
  <2>1. PICK f : Good(f, n)
    BY Zenon, <1>3
  <2> DEFINE g == [s \in Small(n + 1) |-> SumStep(f, h, s)]
  <2>2. \A s \in Small(n) : s \in Small(n + 1) /\ g[s] = f[s]
    BY <1>1, <2>1
  <2>3. ASSUME NEW s \in Small(n + 1)
        PROVE  SumStep(f, h, s) = SumStep(g, h, s)
    <3>1. CASE s = {}
      BY <3>1 DEF SumStep
    <3>2. CASE s # {}
      <4>1. Cardinality(s \ {One(s)}) = Cardinality(s) - 1
        BY <1>1, <3>2, OneIn, FS_RemoveElement
      <4>2. s \ {One(s)} \in Small(n)
        BY <1>1, <4>1
      <4> QED
        BY Zenon, <2>2, <3>2, <4>2 DEF SumStep
    <3> QED
      BY <3>1, <3>2
  <2>4. g = [s \in Small(n + 1) |-> SumStep(f, h, s)]
    OBVIOUS
  <2> HIDE DEF g, Small
  <2>5. Good(g, n + 1)
    BY <2>3, <2>4
  <2> QED
    BY <2>5
<1> HIDE DEF Q
<1>4. Nat \subseteq Q
  BY <1>2, <1>3, Upward
<1>5. Cardinality(D) \in Q
  BY <1>1, <1>4
<1>6. Small(Cardinality(D)) = SUBSET D
  BY <1>1, FS_Subset
<1> QED
  BY <1>5, <1>6 DEF Q, IsSum

(* It is zero if the terms are. *)
LEMMA IterZero ==
  ASSUME NEW D, IsFiniteSet(D), NEW h \in [D -> Int], NEW it, IsSum(it, h, D),
         \A d \in D : h[d] = 0
  PROVE  it[D] = 0
<1> DEFINE Q == {s \in SUBSET D : it[s] = 0}
<1>1. \A s \in SUBSET D : it[s] = SumStep(it, h, s)
  BY DEF IsSum
<1>2. {} \in Q
  BY Zenon, <1>1 DEF SumStep
<1>3. ASSUME NEW s \in SUBSET D, s # {}, s \ {One(s)} \in Q
      PROVE  s \in Q
  <2>1. One(s) \in D
    BY <1>3, OneIn
  <2>2. it[s] = h[One(s)] + it[s \ {One(s)}]
    BY <1>1, <1>3 DEF SumStep
  <2> QED
    BY <1>3, <2>1, <2>2
<1> HIDE DEF Q
<1>4. SUBSET D \subseteq Q
  BY <1>2, <1>3, SubsetInduction
<1> QED
  BY <1>4 DEF Q

(* It is a count if the terms are. *)
LEMMA IterNat ==
  ASSUME NEW D, IsFiniteSet(D), NEW h \in [D -> Nat], NEW it, IsSum(it, h, D)
  PROVE  it[D] \in Nat
<1> DEFINE Q == {s \in SUBSET D : it[s] \in Nat}
<1>1. \A s \in SUBSET D : it[s] = SumStep(it, h, s)
  BY DEF IsSum
<1>2. {} \in Q
  BY <1>1 DEF SumStep
<1>3. ASSUME NEW s \in SUBSET D, s # {}, s \ {One(s)} \in Q
      PROVE  s \in Q
  <2>1. One(s) \in D
    BY <1>3, OneIn
  <2>2. it[s] = h[One(s)] + it[s \ {One(s)}]
    BY <1>1, <1>3 DEF SumStep
  <2> QED
    BY <1>3, <2>1, <2>2
<1> HIDE DEF Q
<1>4. SUBSET D \subseteq Q
  BY <1>2, <1>3, SubsetInduction
<1> QED
  BY <1>4 DEF Q

(* It follows a change of one of the terms. *)
LEMMA IterChange ==
  ASSUME NEW D, IsFiniteSet(D), NEW d \in D,
         NEW h \in [D -> Int], NEW it, IsSum(it, h, D),
         NEW g \in [D -> Int], NEW jt, IsSum(jt, g, D),
         \A e \in D : e # d => g[e] = h[e]
  PROVE  jt[D] = it[D] + (g[d] - h[d])
<1> DEFINE Q == {s \in SUBSET D : jt[s] = it[s] + (IF d \in s THEN g[d] - h[d] ELSE 0)}
<1>1. \A s \in SUBSET D : it[s] = SumStep(it, h, s) /\ jt[s] = SumStep(jt, g, s)
  BY DEF IsSum
<1>2. it \in [SUBSET D -> Int] /\ jt \in [SUBSET D -> Int]
  BY IterType
<1>3. {} \in Q
  BY <1>1 DEF SumStep
<1>4. ASSUME NEW s \in SUBSET D, s # {}, s \ {One(s)} \in Q
      PROVE  s \in Q
  <2> DEFINE x == One(s)
             r == s \ {x}
  <2>1. x \in s /\ x \in D
    BY <1>4, OneIn
  <2>2. it[s] = h[x] + it[r] /\ jt[s] = g[x] + jt[r]
    BY <1>1, <1>4 DEF SumStep
  <2>3. jt[r] = it[r] + (IF d \in r THEN g[d] - h[d] ELSE 0)
    BY <1>4
  <2>4. it[r] \in Int /\ jt[r] \in Int /\ it[s] \in Int /\ jt[s] \in Int
    BY <1>2
  <2>5. x = d => d \notin r /\ d \in s
    BY <2>1
  <2>6. x # d => (d \in r <=> d \in s) /\ g[x] = h[x]
    BY <2>1
  <2>7. g[x] \in Int /\ h[x] \in Int /\ g[d] \in Int /\ h[d] \in Int
    BY <2>1
  <2> HIDE DEF x, r
  <2>8. jt[s] = it[s] + (IF d \in s THEN g[d] - h[d] ELSE 0)
    BY <2>2, <2>3, <2>4, <2>5, <2>6, <2>7
  <2> QED
    BY <2>8
<1> HIDE DEF Q
<1>5. SUBSET D \subseteq Q
  BY <1>3, <1>4, SubsetInduction
<1> QED
  BY <1>5 DEF Q

(* SumFunction computes such a function. *)
LEMMA SumIsIter ==
  ASSUME NEW D, IsFiniteSet(D), NEW h \in [D -> Int]
  PROVE  \E it : IsSum(it, h, D) /\ SumFunction(h) = it[D]
<1> DEFINE P(it) == it = [s \in SUBSET D |->
                            IF s = {} THEN 0
                            ELSE h[CHOOSE x \in s : TRUE] + it[s \ {CHOOSE x \in s : TRUE}]]
<1>1. \A it : P(it) <=> IsSum(it, h, D)
  BY DEF IsSum, SumStep, One
<1>2. DOMAIN h = D
  OBVIOUS
<1>3. SumFunction(h) = (CHOOSE it : P(it))[D]
  BY <1>2 DEF SumFunction, SumFunctionOnSet, FoldFunctionOnSet, MapThenFoldSet
<1> HIDE DEF P
<1>4. \E it : P(it)
  BY <1>1, IterExists
<1>5. P(CHOOSE it : P(it))
  BY <1>4
<1> QED
  BY Zenon, <1>1, <1>3, <1>5

(* A sum of integers is an integer. *)
LEMMA SumType ==
  ASSUME NEW D, IsFiniteSet(D), NEW h \in [D -> Int]
  PROVE  SumFunction(h) \in Int
<1>1. PICK it : IsSum(it, h, D) /\ SumFunction(h) = it[D]
  BY SumIsIter
<1>2. it \in [SUBSET D -> Int]
  BY Zenon, <1>1, IterType
<1> QED
  BY <1>1, <1>2

(* A sum of counts is a count. *)
LEMMA SumNat ==
  ASSUME NEW D, IsFiniteSet(D), NEW h \in [D -> Nat]
  PROVE  SumFunction(h) \in Nat
<1>1. h \in [D -> Int]
  OBVIOUS
<1>2. PICK it : IsSum(it, h, D) /\ SumFunction(h) = it[D]
  BY <1>1, SumIsIter
<1> QED
  BY <1>2, IterNat

(* A sum of zeros is zero. *)
LEMMA SumZero ==
  ASSUME NEW D, IsFiniteSet(D), NEW h \in [D -> Int], \A d \in D : h[d] = 0
  PROVE  SumFunction(h) = 0
<1>1. PICK it : IsSum(it, h, D) /\ SumFunction(h) = it[D]
  BY SumIsIter
<1> QED
  BY <1>1, IterZero

(* A sum follows a change of one of its terms. *)
LEMMA SumChange ==
  ASSUME NEW D, IsFiniteSet(D), NEW d \in D, NEW h \in [D -> Int], NEW g \in [D -> Int],
         \A e \in D : e # d => g[e] = h[e]
  PROVE  SumFunction(g) = SumFunction(h) + (g[d] - h[d])
<1>1. PICK it : IsSum(it, h, D) /\ SumFunction(h) = it[D]
  BY SumIsIter
<1>2. PICK jt : IsSum(jt, g, D) /\ SumFunction(g) = jt[D]
  BY SumIsIter
<1>3. jt[D] = it[D] + (g[d] - h[d])
  BY <1>1, <1>2, IterChange
<1> QED
  BY <1>1, <1>2, <1>3

(* A sum of counts is at least each of them. *)
LEMMA SumBound ==
  ASSUME NEW D, IsFiniteSet(D), NEW h \in [D -> Nat], NEW d \in D
  PROVE  h[d] <= SumFunction(h)
<1> DEFINE g == [h EXCEPT ![d] = 0]
<1>1. g \in [D -> Nat] /\ g \in [D -> Int] /\ h \in [D -> Int]
  OBVIOUS
<1>2. g[d] = 0 /\ h[d] \in Nat /\ \A e \in D : e # d => g[e] = h[e]
  OBVIOUS
<1> HIDE DEF g
<1>3. SumFunction(g) = SumFunction(h) + (g[d] - h[d])
  BY <1>1, <1>2, SumChange
<1>4. SumFunction(g) \in Nat /\ SumFunction(h) \in Nat
  BY <1>1, SumNat
<1> QED
  BY <1>2, <1>3, <1>4

-----------------------------------------------------------------------------
(* References.  The counts of a block are the sums of the rows of the nodes. *)

(* The rows of all nodes for one block and kind. *)
Row(h, b, k) == [d \in Nodes |-> h[d][b][k]]
Rows == [Nodes -> [Blocks -> [Kinds -> Nat]]]

(* Such rows are counts. *)
LEMMA RowType ==
  ASSUME NEW h \in Rows, NEW b \in Blocks, NEW k \in Kinds
  PROVE  Row(h, b, k) \in [Nodes -> Nat] /\ Row(h, b, k) \in [Nodes -> Int]
<1>1. \A d \in Nodes : h[d][b][k] \in Nat
  BY DEF Rows
<1> QED
  BY <1>1 DEF Row

(* Their sum is zero if they are, *)
LEMMA RowZero ==
  ASSUME NEW h \in Rows, NEW b \in Blocks, NEW k \in Kinds, \A d \in Nodes : h[d][b][k] = 0
  PROVE  SumFunction(Row(h, b, k)) = 0
<1>1. \A d \in Nodes : Row(h, b, k)[d] = 0
  BY DEF Row
<1> QED
  BY <1>1, RowType, SumZero, NodesAssumption

(* follows a change of the rows of one node, *)
LEMMA RowChange ==
  ASSUME NEW h \in Rows, NEW g \in Rows, NEW b \in Blocks, NEW k \in Kinds, NEW d \in Nodes,
         \A e \in Nodes : e # d => g[e][b][k] = h[e][b][k]
  PROVE  SumFunction(Row(g, b, k)) = SumFunction(Row(h, b, k)) + (g[d][b][k] - h[d][b][k])
<1>1. \A e \in Nodes : e # d => Row(g, b, k)[e] = Row(h, b, k)[e]
  BY DEF Row
<1>2. Row(h, b, k)[d] = h[d][b][k] /\ Row(g, b, k)[d] = g[d][b][k]
  BY DEF Row
<1>3. Row(h, b, k) \in [Nodes -> Int] /\ Row(g, b, k) \in [Nodes -> Int]
  BY RowType
<1> HIDE DEF Row
<1>4. SumFunction(Row(g, b, k))
        = SumFunction(Row(h, b, k)) + (Row(g, b, k)[d] - Row(h, b, k)[d])
  BY <1>1, <1>3, SumChange, NodesAssumption
<1> QED
  BY <1>2, <1>4

(* and is at least each of them. *)
LEMMA RowBound ==
  ASSUME NEW h \in Rows, NEW b \in Blocks, NEW k \in Kinds, NEW d \in Nodes
  PROVE  h[d][b][k] <= SumFunction(Row(h, b, k))
<1>1. Row(h, b, k)[d] = h[d][b][k] /\ Row(h, b, k) \in [Nodes -> Nat]
  BY RowType DEF Row
<1> QED
  BY <1>1, SumBound, NodesAssumption

(* References exist only to registered blocks, and the counts agree. *)
RefsInv ==
  /\ RefsAgree
  /\ \A b \in Blocks \ view : Unreferenced(refs, b)

(* No references of any kind. *)
LEMMA NoRefsIsZero == \A k \in Kinds : NoRefs[k] = 0
BY DEF NoRefs

(* A count that is reset was zero. *)
LEMMA FreeIsNoRefs ==
  ASSUME NEW b \in Blocks, IndexInv, Unreferenced(refs, b)
  PROVE  refs[b] = NoRefs
<1>1. refs[b] \in [Kinds -> Nat]
  BY DEF IndexInv
<1>2. \A k \in Kinds : refs[b][k] = 0
  BY DEF Unreferenced
<1> QED
  BY <1>1, <1>2 DEF NoRefs

(* Steps that only forget blocks nobody references, or add some. *)
LEMMA ForgetKeepsRefs ==
  ASSUME IndexInv, RefsInv, NEW D \in SUBSET view, \A b \in D : Unreferenced(refs, b),
         refs' = [b \in Blocks |-> IF b \in D THEN NoRefs ELSE refs[b]],
         view \ D \subseteq view', held' = held, stale' = stale
  PROVE  RefsInv'
<1>1. refs' = refs
  <2>1. \A b \in D : refs[b] = NoRefs
    BY FreeIsNoRefs DEF IndexInv
  <2>2. refs = [b \in Blocks |-> refs[b]]
    BY DEF IndexInv
  <2> QED
    BY <2>1, <2>2
<1>2. RefsAgree'
  BY <1>1 DEF RefsInv, RefsAgree, Row
<1>3. ASSUME NEW b \in Blocks \ view'
      PROVE  Unreferenced(refs', b)
  <2>1. b \in D \/ b \in Blocks \ view
    OBVIOUS
  <2>2. Unreferenced(refs, b)
    BY <2>1 DEF RefsInv
  <2> QED
    BY <1>1, <2>2 DEF Unreferenced
<1> QED
  BY <1>2, <1>3 DEF RefsInv

(* deregister_model: a block whose rows stay behind becomes stale. *)
LEMMA DeregisterKeepsRefs ==
  ASSUME NEW n \in Namespaces, IndexInv, RefsInv, DeregisterModel(n)
  PROVE  RefsInv'
<1>1. /\ refs' = [b \in Blocks |-> IF b \in Of(n) THEN NoRefs ELSE refs[b]]
      /\ view' = view \ Of(n) /\ held' = held
      /\ stale' = stale \cup {b \in Of(n) : \E d \in Nodes : held[d][b] # NoRefs}
  BY DEF DeregisterModel
<1>2. held \in Rows
  BY DEF IndexInv, Rows
<1>3. ASSUME NEW b \in Blocks \ stale', NEW k \in Kinds
      PROVE  refs'[b][k] = SumFunction(Row(held, b, k))
  <2>1. CASE b \in Of(n)
    <3>1. \A d \in Nodes : held[d][b] = NoRefs
      BY <1>1, <2>1
    <3>2. SumFunction(Row(held, b, k)) = 0
      BY <1>2, <3>1, RowZero, NoRefsIsZero
    <3> QED
      BY <1>1, <2>1, <3>2, NoRefsIsZero
  <2>2. CASE b \notin Of(n)
    BY <1>1, <2>2 DEF RefsInv, RefsAgree, Row
  <2> QED
    BY <2>1, <2>2
<1>4. RefsAgree'
  <2>1. ASSUME NEW b \in Blocks \ stale', NEW k \in Kinds
        PROVE  refs'[b][k] = SumFunction(Row(held', b, k))
    BY <1>1, <1>3
  <2> QED
    BY <2>1 DEF RefsAgree, Row
<1>5. ASSUME NEW b \in Blocks \ view'
      PROVE  Unreferenced(refs', b)
  <2>1. CASE b \in Of(n)
    BY <1>1, <2>1, NoRefsIsZero DEF Unreferenced
  <2>2. CASE b \notin Of(n)
    BY <1>1, <2>2 DEF RefsInv, Unreferenced
  <2> QED
    BY <2>1, <2>2
<1> QED
  BY <1>4, <1>5 DEF RefsInv

(* What report_refs does to the count of a block and to the row of the node. *)
Reported(d, k, S, delta) ==
  /\ refs' = Added(refs, S, k, delta)
  /\ held' = [held EXCEPT ![d] = Added(held[d], S, k, delta)]

(* report_refs moves the count of a block and the row of the node alike. *)
LEMMA ReportKeepsRefs ==
  ASSUME NEW d \in Nodes, NEW k \in Kinds, NEW S \in SUBSET view, NEW delta \in {-1, 1},
         IndexInv, IndexInv', RefsInv, Reported(d, k, S, delta),
         view' = view, stale' = stale
  PROVE  RefsInv'
<1>1. held \in Rows /\ held' \in Rows /\ S \subseteq Blocks
  BY DEF IndexInv, Rows
<1>2. ASSUME NEW b \in Blocks, NEW j \in Kinds
      PROVE  /\ refs'[b][j] = IF b \in S /\ j = k THEN refs[b][j] + delta ELSE refs[b][j]
             /\ held'[d][b][j] = IF b \in S /\ j = k THEN held[d][b][j] + delta ELSE held[d][b][j]
             /\ \A e \in Nodes : e # d => held'[e][b][j] = held[e][b][j]
  <2>1. refs[b] \in [Kinds -> Nat] /\ held[d][b] \in [Kinds -> Nat]
    BY DEF IndexInv
  <2>2. /\ refs'[b] = IF b \in S THEN [refs[b] EXCEPT ![k] = @ + delta] ELSE refs[b]
        /\ held'[d] = Added(held[d], S, k, delta)
    BY DEF Reported, Added, IndexInv
  <2>3. held'[d][b] = IF b \in S THEN [held[d][b] EXCEPT ![k] = @ + delta] ELSE held[d][b]
    BY <2>2 DEF Added
  <2>4. \A e \in Nodes : e # d => held'[e] = held[e]
    BY DEF Reported, IndexInv
  <2> QED
    BY <2>1, <2>2, <2>3, <2>4
<1>3. ASSUME NEW b \in Blocks \ stale', NEW j \in Kinds
      PROVE  refs'[b][j] = SumFunction(Row(held', b, j))
  <2> \A e \in Nodes : e # d => held'[e][b][j] = held[e][b][j]
    BY <1>2
  <2>1. SumFunction(Row(held', b, j)) = SumFunction(Row(held, b, j)) + (held'[d][b][j] - held[d][b][j])
    BY <1>1, RowChange
  <2>2. refs[b][j] = SumFunction(Row(held, b, j))
    BY DEF RefsInv, RefsAgree, Row
  <2>3. refs[b][j] \in Nat /\ held[d][b][j] \in Nat
    BY DEF IndexInv
  <2>4. \/ refs'[b][j] = refs[b][j] + delta /\ held'[d][b][j] = held[d][b][j] + delta
        \/ refs'[b][j] = refs[b][j] /\ held'[d][b][j] = held[d][b][j]
    BY <1>2
  <2>5. refs'[b][j] = refs[b][j] + (held'[d][b][j] - held[d][b][j])
    BY <2>3, <2>4
  <2> QED
    BY <2>1, <2>2, <2>5
<1>4. RefsAgree'
  BY <1>3 DEF RefsAgree, Row
<1>5. ASSUME NEW b \in Blocks \ view'
      PROVE  Unreferenced(refs', b)
  <2>1. b \notin S /\ Unreferenced(refs, b)
    BY DEF RefsInv
  <2>2. \A j \in Kinds : refs'[b][j] = refs[b][j]
    BY <1>2, <2>1
  <2> QED
    BY <2>1, <2>2 DEF Unreferenced
<1> QED
  BY <1>4, <1>5 DEF RefsInv

(* reconcile_dead_node: for a block that is not stale the check against an   *)
(* underflow never fails, so exactly the rows of the node are taken back.    *)
LEMMA ReconcileKeepsRefs ==
  ASSUME NEW d \in Nodes, IndexInv, IndexInv', RefsInv, ReconcileDeadNode(d)
  PROVE  RefsInv'
<1>1. /\ held' = [held EXCEPT ![d] = [b \in Blocks |-> NoRefs]]
      /\ view' = view /\ stale' = stale
      /\ refs' = [b \in Blocks |-> [k \in Kinds |->
                    IF b \in view /\ refs[b][k] >= held[d][b][k]
                      THEN refs[b][k] - held[d][b][k]
                      ELSE refs[b][k]]]
  BY DEF ReconcileDeadNode, Release
<1>2. held \in Rows /\ held' \in Rows
  BY DEF IndexInv, Rows
<1>3. ASSUME NEW b \in Blocks, NEW k \in Kinds
      PROVE  /\ held'[d][b][k] = 0
             /\ \A e \in Nodes : e # d => held'[e][b][k] = held[e][b][k]
             /\ refs[b][k] \in Nat /\ held[d][b][k] \in Nat
  BY <1>1, NoRefsIsZero DEF IndexInv
<1>4. ASSUME NEW b \in Blocks \ stale', NEW k \in Kinds
      PROVE  refs'[b][k] = SumFunction(Row(held', b, k))
  <2> \A e \in Nodes : e # d => held'[e][b][k] = held[e][b][k]
    BY <1>3
  <2>1. SumFunction(Row(held', b, k)) = SumFunction(Row(held, b, k)) + (held'[d][b][k] - held[d][b][k])
    BY <1>2, RowChange
  <2>2. refs[b][k] = SumFunction(Row(held, b, k))
    BY <1>1 DEF RefsInv, RefsAgree, Row
  <2>3. held[d][b][k] <= refs[b][k]
    BY <1>2, <2>2, RowBound
  <2>4. b \notin view => refs[b][k] = 0
    BY DEF RefsInv, Unreferenced
  <2>5. refs'[b][k] = IF b \in view /\ refs[b][k] >= held[d][b][k]
                        THEN refs[b][k] - held[d][b][k] ELSE refs[b][k]
    BY <1>1
  <2>6. held'[d][b][k] = 0 /\ refs[b][k] \in Nat /\ held[d][b][k] \in Nat
    BY <1>3
  <2>7. refs'[b][k] = refs[b][k] - held[d][b][k]
    BY <2>3, <2>4, <2>5, <2>6
  <2>8. SumFunction(Row(held', b, k)) = refs[b][k] + (0 - held[d][b][k])
    BY <2>1, <2>2, <2>6, Zenon
  <2>9. refs[b][k] + (0 - held[d][b][k]) = refs[b][k] - held[d][b][k]
    BY <2>6
  <2> QED
    BY <2>7, <2>8, <2>9, Zenon
<1>5. RefsAgree'
  BY <1>4 DEF RefsAgree, Row
<1>6. ASSUME NEW b \in Blocks \ view'
      PROVE  Unreferenced(refs', b)
  BY <1>1 DEF RefsInv, Unreferenced
<1> QED
  BY <1>5, <1>6 DEF RefsInv

(* discard_one clears the rows of all nodes with the count. *)
LEMMA DiscardKeepsRefs ==
  ASSUME NEW b \in Blocks, IndexInv, IndexInv', RefsInv, Discard(b)
  PROVE  RefsInv'
<1>1. /\ held' = [d \in Nodes |-> [held[d] EXCEPT ![b] = NoRefs]]
      /\ view' = view \ {b} /\ stale' = stale \ {b}
      /\ refs' = [refs EXCEPT ![b] = NoRefs]
  BY DEF Discard, Forget
<1>2. held \in Rows /\ held' \in Rows
  BY DEF IndexInv, Rows
<1>3. ASSUME NEW c \in Blocks \ stale', NEW k \in Kinds
      PROVE  refs'[c][k] = SumFunction(Row(held', c, k))
  <2>1. CASE c = b
    <3>1. refs'[c][k] = 0 /\ \A d \in Nodes : held'[d][c][k] = 0
      BY <1>1, <2>1, NoRefsIsZero DEF IndexInv
    <3> QED
      BY <1>2, <3>1, RowZero
  <2>2. CASE c # b
    <3>1. refs'[c] = refs[c] /\ \A d \in Nodes : held'[d][c] = held[d][c]
      BY <1>1, <2>2 DEF IndexInv
    <3>2. Row(held', c, k) = Row(held, c, k)
      BY <3>1 DEF Row
    <3>3. refs[c][k] = SumFunction(Row(held, c, k))
      BY <1>1, <2>2 DEF RefsInv, RefsAgree, Row
    <3> QED
      BY <3>1, <3>2, <3>3
  <2> QED
    BY <2>1, <2>2
<1>4. RefsAgree'
  BY <1>3 DEF RefsAgree, Row
<1>5. ASSUME NEW c \in Blocks \ view'
      PROVE  Unreferenced(refs', c)
  BY <1>1, NoRefsIsZero DEF RefsInv, Unreferenced, IndexInv
<1> QED
  BY <1>4, <1>5 DEF RefsInv

(* import_snapshot starts from no references at all, as the authority does. *)
LEMMA EmptyIsRefsInv ==
  ASSUME NEW r, NEW h, r = [b \in Blocks |-> NoRefs],
         h = [d \in Nodes |-> [b \in Blocks |-> NoRefs]]
  PROVE  /\ \A b \in Blocks : Unreferenced(r, b)
         /\ \A b \in Blocks, k \in Kinds : r[b][k] = SumFunction(Row(h, b, k))
<1>1. h \in Rows
  BY NoRefsType DEF Rows
<1>2. \A b \in Blocks, k \in Kinds : r[b][k] = 0 /\ \A d \in Nodes : h[d][b][k] = 0
  BY NoRefsIsZero
<1>3. \A b \in Blocks, k \in Kinds : SumFunction(Row(h, b, k)) = 0
  BY <1>1, <1>2, RowZero
<1> QED
  BY <1>2, <1>3 DEF Unreferenced

(* The counts agree at the start. *)
LEMMA InitRefsInv == Init => RefsInv
BY EmptyIsRefsInv DEF Init, RefsInv, RefsAgree, Row

(* Every step keeps the counts and the rows in agreement. *)
LEMMA NextRefsInv == IndexInv /\ IndexInv' /\ RefsInv /\ [Next]_vars => RefsInv'
<1> SUFFICES ASSUME IndexInv, IndexInv', RefsInv, [Next]_vars PROVE RefsInv'
  OBVIOUS
<1>1. ASSUME refs' = refs, held' = held, stale' = stale, view' = view
      PROVE  RefsInv'
  BY <1>1 DEF RefsInv, RefsAgree, Row, Unreferenced
<1>2. CASE \E n \in Namespaces, q \in Quotas : RegisterModel(n, q) \/ SetModelQuota(n, q)
  BY <1>1, <1>2 DEF RegisterModel, SetModelQuota
<1>3. CASE \E n \in Namespaces : DeregisterModel(n)
  BY <1>3, DeregisterKeepsRefs
<1>4. ASSUME NEW n \in Namespaces, NEW S \in Segments[n],
             RegisterBlocks(n, S) \/ RegisterUnsettled(n, S)
      PROVE  RefsInv'
  <2>1. PICK V \in SUBSET inactive :
          /\ refs' = [b \in Blocks |-> IF b \in Dropped(V) THEN NoRefs ELSE refs[b]]
          /\ view \ Dropped(V) \subseteq view'
    BY Zenon, <1>4 DEF RegisterBlocks, RegisterUnsettled, CommitAdmit
  <2>2. Dropped(V) \in SUBSET view /\ \A b \in Dropped(V) : Unreferenced(refs, b)
    BY DEF Dropped, IndexInv
  <2>3. held' = held /\ stale' = stale
    BY <1>4 DEF RegisterBlocks, RegisterUnsettled
  <2> QED
    BY <2>1, <2>2, <2>3, ForgetKeepsRefs
<1>5. ASSUME NEW d \in Nodes, NEW k \in Kinds, NEW S, TakeRefs(d, k, S)
      PROVE  RefsInv'
  <2>1. /\ S \in SUBSET view /\ view' = view /\ stale' = stale
        /\ Reported(d, k, S, 1)
    BY <1>5 DEF TakeRefs, Reported
  <2> QED
    BY <2>1, ReportKeepsRefs
<1>6. ASSUME NEW d \in Nodes, NEW k \in Kinds, NEW S, ReleaseRefs(d, k, S)
      PROVE  RefsInv'
  <2>1. /\ S \in SUBSET view /\ view' = view /\ stale' = stale
        /\ Reported(d, k, S, -1)
    BY <1>6 DEF ReleaseRefs, Release, Reported
  <2> QED
    BY <2>1, ReportKeepsRefs
<1>7. CASE \E d \in Nodes : ReconcileDeadNode(d)
  BY <1>7, ReconcileKeepsRefs
<1>8. CASE \E b \in Blocks : Discard(b)
  BY <1>8, DiscardKeepsRefs
<1>9. ASSUME NEW V, NEW durable, GcCold(V, durable)
      PROVE  RefsInv'
  <2> DEFINE gone == Dropped(V) \ durable
  <2>1. /\ view' = view \ gone /\ held' = held /\ stale' = stale
        /\ refs' = [b \in Blocks |-> IF b \in gone THEN NoRefs ELSE refs[b]]
    BY <1>9 DEF GcCold
  <2>2. gone \in SUBSET view /\ \A b \in gone : Unreferenced(refs, b)
    BY <1>9 DEF GcCold, Dropped, IndexInv
  <2> HIDE DEF gone
  <2> QED
    BY <2>1, <2>2, ForgetKeepsRefs
<1>10. CASE \E last \in 0 .. NumBlocks : RestoreCheckpoint(last)
  <2>1. /\ refs' = [b \in Blocks |-> NoRefs]
        /\ held' = [d \in Nodes |-> [b \in Blocks |-> NoRefs]]
    BY <1>10 DEF RestoreCheckpoint
  <2>2. /\ \A b \in Blocks : Unreferenced(refs', b)
        /\ \A b \in Blocks, k \in Kinds : refs'[b][k] = SumFunction(Row(held', b, k))
    BY <2>1, EmptyIsRefsInv
  <2> QED
    BY <2>2 DEF RefsInv, RefsAgree, Row
<1>11. CASE UNCHANGED vars
  BY <1>1, <1>11 DEF vars
<1> QED
  BY <1>2, <1>3, <1>4, <1>5, <1>6, <1>7, <1>8, <1>9, <1>10, <1>11 DEF Next

(* The global counts are the sums of the rows of the nodes, kind by kind,    *)
(* for every block that was not deregistered under its holders: whatever     *)
(* nodes report, die or come back, reconcile_dead_node takes back what that  *)
(* node took and nothing else.                                               *)
THEOREM CountsAgree == Spec => []RefsAgree
<1>1. RefsInv => RefsAgree
  BY DEF RefsInv
<1> QED
  BY <1>1, InitIndexInv, NextIndexInv, InitRefsInv, NextRefsInv, PTL DEF Spec

-----------------------------------------------------------------------------
(* Reclaiming.  What a namespace gives up for another is bounded by what it  *)
(* borrowed, rounded up to whole blocks.                                     *)

(* The smaller of two. *)
LEMMA MinOfTwo ==
  ASSUME NEW x \in Int, NEW y \in Int
  PROVE  Min({x, y}) \in {x, y} /\ Min({x, y}) <= x /\ Min({x, y}) <= y
<1>1. \E z \in {x, y} : \A w \in {x, y} : z <= w
  <2>1. CASE x <= y
    BY <2>1
  <2>2. CASE y <= x
    BY <2>2
  <2> QED
    BY <2>1, <2>2
<1> QED
  BY <1>1 DEF Min

(* The larger of two. *)
LEMMA MaxOfTwo ==
  ASSUME NEW x \in Int, NEW y \in Int
  PROVE  Max({x, y}) \in {x, y} /\ x <= Max({x, y}) /\ y <= Max({x, y})
<1>1. \E z \in {x, y} : \A w \in {x, y} : z >= w
  <2>1. CASE x <= y
    BY <2>1
  <2>2. CASE y <= x
    BY <2>2
  <2> QED
    BY <2>1, <2>2
<1> QED
  BY <1>1 DEF Max

(* Both are counts for counts. *)
LEMMA MinMaxCounts ==
  ASSUME NEW x \in Nat, NEW y \in Nat
  PROVE  Min({x, y}) \in Nat /\ Max({x, y}) \in Nat
<1>1. x \in Int /\ y \in Int
  OBVIOUS
<1>2. Min({x, y}) \in {x, y} /\ Max({x, y}) \in {x, y}
  BY <1>1, MinOfTwo, MaxOfTwo
<1> QED
  BY <1>2

(* What is cut at zero is a count. *)
LEMMA CutAtZero ==
  ASSUME NEW x \in Int
  PROVE  Max({x, 0}) \in Nat
<1>1. 0 \in Int
  OBVIOUS
<1>2. Max({x, 0}) \in {x, 0} /\ 0 <= Max({x, 0})
  BY <1>1, MaxOfTwo
<1> QED
  BY <1>2

(* Blocks for x bytes take less than a block more. *)
LEMMA CeilBound ==
  ASSUME NEW x \in Nat, NEW y \in Nat \ {0}
  PROVE  CeilDiv(x, y) \in Nat /\ y * CeilDiv(x, y) < x + y
<1>1. x + y - 1 \in Nat
  OBVIOUS
<1> QED
  BY <1>1 DEF CeilDiv

(* Quotas are quotas. *)
QuotaInv == quota \in [Namespaces -> Quota]

(* What the admission computes with are counts. *)
LEMMA Amounts ==
  ASSUME IndexInv, UsedInv, QuotaInv, NEW m \in Namespaces
  PROVE  /\ used[m] \in Nat /\ Idle[m] \in Nat /\ Bpb[m] \in Nat \ {0}
         /\ quota[m].soft \in Nat
         /\ Borrowed(quota, used, m) \in Nat
         /\ Borrowed(quota, used, m) > 0
              => quota[m].soft > 0 /\ Borrowed(quota, used, m) = used[m] - quota[m].soft
<1>1. Bpb[m] \in Nat \ {0}
  BY BytesAssumption
<1>2. Cardinality(view \cap Of(m)) \in Nat /\ Cardinality(inactive \cap Of(m)) \in Nat
  BY Zenon, BlocksFinite DEF IndexInv
<1>3. used[m] \in Nat
  BY <1>1, <1>2 DEF UsedInv, Charge
<1>4. Idle[m] \in Nat
  BY <1>2 DEF Idle
<1>5. quota[m].soft \in Nat
  BY DEF QuotaInv, Quota
<1> DEFINE x == used[m] - quota[m].soft
<1>6. x \in Int /\ Borrowed(quota, used, m) = IF quota[m].soft = 0 THEN 0 ELSE Max({x, 0})
  BY <1>3, <1>5 DEF Borrowed
<1>7. x \in Int => Max({x, 0}) \in {x, 0} /\ 0 <= Max({x, 0})
  <2> HIDE DEF x
  <2> QED
    BY MaxOfTwo
<1> QED
  BY <1>1, <1>3, <1>4, <1>5, <1>6, <1>7

(* What a borrower gives up. *)
LEMMA ShareBound ==
  ASSUME IndexInv, UsedInv, QuotaInv, NEW n \in Namespaces, NEW m \in Namespaces,
         NEW still \in Int
  PROVE  /\ Share(n, m, still) \in Nat
         /\ Share(n, m, still) > 0
              => /\ Borrowed(quota, used, m) > 0
                 /\ Bpb[m] * Share(n, m, still) < Borrowed(quota, used, m) + Bpb[m]
<1> DEFINE lent == Borrowed(quota, used, m)
           x == Min({still, lent})
           c == CeilDiv(x, Bpb[m])
<1>1. lent \in Nat /\ Idle[m] \in Nat /\ Bpb[m] \in Nat \ {0}
  BY Amounts
<1>2. CASE m = n \/ still <= 0
  BY <1>2 DEF Share
<1>3. CASE ~(m = n \/ still <= 0)
  <2>1. Share(n, m, still) = Min({Idle[m], c})
    BY <1>3 DEF Share
  <2> HIDE DEF lent
  <2>2. x \in {still, lent} /\ x <= lent /\ x <= still
    BY <1>1, MinOfTwo
  <2>3. x \in Nat
    BY <1>1, <1>3, <2>2
  <2> HIDE DEF x
  <2>4. c \in Nat /\ Bpb[m] * c < x + Bpb[m]
    BY Zenon, <1>1, <2>3, CeilBound
  <2> HIDE DEF c
  <2> DEFINE i == Idle[m]
             s == Min({i, c})
  <2> HIDE DEF i
  <2>5. i \in Int /\ c \in Int => s \in {i, c} /\ s <= c
    BY MinOfTwo
  <2>6. s \in Nat /\ s <= c
    BY <1>1, <2>4, <2>5 DEF i
  <2> HIDE DEF s
  <2>7. Bpb[m] * s <= Bpb[m] * c
    BY <1>1, <2>4, <2>6
  <2>8. Bpb[m] * s \in Nat /\ Bpb[m] * c \in Nat
    BY <1>1, <2>4, <2>6
  <2>9. s > 0 => Bpb[m] * s >= Bpb[m]
    BY <1>1, <2>6
  <2>10. Bpb[m] * s < lent + Bpb[m]
    BY <1>1, <2>2, <2>3, <2>4, <2>7, <2>8
  <2>11. s > 0 => lent > 0
    BY <1>1, <2>2, <2>3, <2>4, <2>7, <2>8, <2>9
  <2> QED
    BY <2>1, <2>6, <2>10, <2>11 DEF s, i, lent
<1> QED
  BY <1>2, <1>3

(* A function defined by recursion over 0 .. N, from a table of what each    *)
(* step adds.                                                                *)
LEMMA Accumulates ==
  ASSUME NEW N \in Nat, NEW F \in [(1 .. N) \X Int -> Int]
  PROVE  \E f \in [0 .. N -> Int] :
           /\ f[0] = 0
           /\ \A i \in 1 .. N : f[i] = f[i - 1] + F[<<i, f[i - 1]>>]
<1> DEFINE Good(f, k) == /\ f[0] = 0
                         /\ \A i \in 1 .. k : f[i] = f[i - 1] + F[<<i, f[i - 1]>>]
           Q == {k \in Nat : k <= N => \E f \in [0 .. k -> Int] : Good(f, k)}
<1>1. 0 \in Q
  <2> DEFINE z == [i \in 0 .. 0 |-> 0]
  <2>1. z \in [0 .. 0 -> Int] /\ Good(z, 0)
    OBVIOUS
  <2> QED
    BY Zenon, <2>1
<1>2. ASSUME NEW k \in Nat, k \in Q
      PROVE  k + 1 \in Q
  <2> SUFFICES ASSUME k + 1 <= N PROVE \E f \in [0 .. k + 1 -> Int] : Good(f, k + 1)
    OBVIOUS
  <2>1. PICK f \in [0 .. k -> Int] : Good(f, k)
    BY <1>2
  <2> DEFINE v == f[k] + F[<<k + 1, f[k]>>]
             g == [i \in 0 .. k + 1 |-> IF i <= k THEN f[i] ELSE v]
  <2>2. f[k] \in Int /\ <<k + 1, f[k]>> \in (1 .. N) \X Int
    OBVIOUS
  <2>3. v \in Int
    BY <2>2
  <2> HIDE DEF v
  <2>4. g \in [0 .. k + 1 -> Int]
    BY <2>3
  <2>5. \A i \in 0 .. k : g[i] = f[i]
    OBVIOUS
  <2>6. g[k + 1] = v
    OBVIOUS
  <2> HIDE DEF g
  <2>7. g[0] = 0
    BY <2>1, <2>5
  <2>8. ASSUME NEW i \in 1 .. k + 1
        PROVE  g[i] = g[i - 1] + F[<<i, g[i - 1]>>]
    <3>1. CASE i <= k
      <4>1. i \in 1 .. k /\ i \in 0 .. k /\ i - 1 \in 0 .. k
        BY <3>1
      <4> QED
        BY <2>1, <2>5, <4>1
    <3>2. CASE i = k + 1
      <4>1. i - 1 = k /\ k \in 0 .. k
        BY <3>2
      <4> QED
        BY Zenon, <2>5, <2>6, <3>2, <4>1 DEF v
    <3> QED
      BY <3>1, <3>2
  <2> QED
    BY Zenon, <2>4, <2>7, <2>8
<1> HIDE DEF Q
<1>3. N \in Q
  BY <1>1, <1>2, Upward
<1> QED
  BY <1>3 DEF Q

(* The parts of the plan are counts: what is over a limit, *)
LEMMA ExcessType ==
  ASSUME NEW limit \in Nat, NEW bytes \in Int
  PROVE  Excess(limit, bytes) \in Nat
<1> DEFINE x == bytes - limit
<1>1. x \in Int
  OBVIOUS
<1>2. Excess(limit, bytes) = IF limit > 0 THEN Max({x, 0}) ELSE 0
  BY DEF Excess
<1> HIDE DEF x
<1>3. Max({x, 0}) \in Nat
  BY <1>1, CutAtZero
<1> QED
  BY <1>2, <1>3

(* how many of its own blocks a namespace evicts, *)
LEMMA OwnType ==
  ASSUME IndexInv, UsedInv, QuotaInv, NEW n \in Namespaces, NEW fresh \in Nat
  PROVE  OwnEvictions(quota, used, Idle, n, fresh) \in Nat
<1> DEFINE asked == used[n] + fresh * Bpb[n]
           h == CeilDiv(Excess(quota[n].hard, asked), Bpb[n])
           s == CeilDiv(Excess(quota[n].soft, asked), Bpb[n])
           i == Idle[n]
           m == Max({h, s})
<1>1. used[n] \in Nat /\ i \in Nat /\ Bpb[n] \in Nat \ {0} /\ quota[n].soft \in Nat
  BY Amounts
<1>2. quota[n].hard \in Nat
  BY DEF QuotaInv, Quota
<1>3. OwnEvictions(quota, used, Idle, n, fresh) = Min({i, m})
  BY DEF OwnEvictions
<1>4. asked \in Int
  BY <1>1
<1> HIDE DEF asked
<1>5. Excess(quota[n].hard, asked) \in Nat /\ Excess(quota[n].soft, asked) \in Nat
  BY Zenon, <1>1, <1>2, <1>4, ExcessType
<1>6. h \in Nat /\ s \in Nat
  BY Zenon, <1>1, <1>5, CeilBound
<1> HIDE DEF h, s, i
<1>7. m \in Nat
  BY <1>6, MinMaxCounts
<1> HIDE DEF m
<1>8. Min({i, m}) \in Nat
  BY <1>1, <1>7, MinMaxCounts
<1> QED
  BY <1>3, <1>8

(* (there are finitely many namespaces) *)
LEMMA SpacesFinite ==
  ASSUME NEW n
  PROVE  IsFiniteSet(Namespaces) /\ IsFiniteSet(Namespaces \ {n})
<1>1. IsFiniteSet(Namespaces)
  BY SizeAssumption, FS_Interval DEF Namespaces
<1> QED
  BY <1>1, FS_Subset

(* what it must borrow beyond the free space, *)
LEMMA LackingType ==
  ASSUME IndexInv, UsedInv, QuotaInv, NEW n \in Namespaces, NEW own \in Nat,
         NEW projected \in Int
  PROVE  Lacking(quota, used, own, projected, n) \in Nat
<1> DEFINE total == SumFunction(used)
           room == PoolCapacity - total
           free == Max({room, 0}) + own * Bpb[n]
           want == Excess(quota[n].soft, projected) - free
<1>1. Bpb[n] \in Nat /\ quota[n].soft \in Nat
  BY Amounts
<1>2. used \in [Namespaces -> Int]
  <2>1. \A m \in Namespaces : used[m] \in Int
    BY Amounts
  <2>2. used = [m \in Namespaces |-> used[m]]
    BY DEF UsedInv, Charge
  <2> QED
    BY <2>1, <2>2
<1>3. total \in Int
  BY Zenon, <1>2, SpacesFinite, SumType
<1>4. Lacking(quota, used, own, projected, n)
        = IF quota[n].borrow /\ PoolCapacity > 0 THEN Max({want, 0}) ELSE 0
  BY DEF Lacking
<1> HIDE DEF total
<1>5. room \in Int
  BY <1>3, BoundAssumption
<1> HIDE DEF room
<1>6. Max({room, 0}) \in Nat
  BY <1>5, CutAtZero
<1>7. free \in Int
  BY <1>1, <1>6
<1> HIDE DEF free
<1>8. Excess(quota[n].soft, projected) \in Nat
  BY Zenon, <1>1, ExcessType
<1>9. want \in Int
  BY <1>7, <1>8
<1> HIDE DEF want
<1>10. Max({want, 0}) \in Nat
  BY <1>9, CutAtZero
<1> QED
  BY <1>4, <1>10

(* and what the others could give back. *)
LEMMA ReclaimableType ==
  ASSUME IndexInv, UsedInv, QuotaInv, NEW n \in Namespaces
  PROVE  Reclaimable(quota, used, Idle, n) \in Int
<1> DEFINE give == [m \in Namespaces \ {n} |->
                      Min({Borrowed(quota, used, m), Idle[m] * Bpb[m]})]
<1>1. ASSUME NEW m \in Namespaces \ {n}
      PROVE  Min({Borrowed(quota, used, m), Idle[m] * Bpb[m]}) \in Int
  <2> DEFINE x == Borrowed(quota, used, m)
             y == Idle[m] * Bpb[m]
  <2>1. x \in Int /\ y \in Int
    BY Amounts
  <2> HIDE DEF x, y
  <2>2. Min({x, y}) \in {x, y}
    BY <2>1, MinOfTwo
  <2>3. Min({x, y}) \in Int
    BY <2>1, <2>2
  <2> QED
    BY <2>3 DEF x, y
<1>2. give \in [Namespaces \ {n} -> Int]
  BY <1>1
<1>3. Reclaimable(quota, used, Idle, n) = SumFunction(give)
  BY DEF Reclaimable
<1> HIDE DEF give
<1> QED
  BY Zenon, <1>2, <1>3, SpacesFinite, SumType

(* What an admission asks of others is a number. *)
LEMMA ReclaimType ==
  ASSUME IndexInv, UsedInv, QuotaInv, NEW n \in Namespaces, NEW fresh \in Nat
  PROVE  Plan(quota, used, Idle, n, fresh).reclaim \in Int
<1> DEFINE own == OwnEvictions(quota, used, Idle, n, fresh)
           projected == used[n] - own * Bpb[n] + fresh * Bpb[n]
           want == Lacking(quota, used, own, projected, n)
           avail == Reclaimable(quota, used, Idle, n)
<1>1. Plan(quota, used, Idle, n, fresh).reclaim
        = IF fresh = 0 THEN 0 ELSE Min({want, avail})
  BY DEF Plan
<1>2. own \in Nat
  BY OwnType
<1> HIDE DEF own
<1>3. projected \in Int
  BY <1>2, Amounts
<1> HIDE DEF projected
<1>4. want \in Int
  BY <1>2, <1>3, LackingType
<1>5. avail \in Int
  BY ReclaimableType
<1> HIDE DEF want, avail
<1>6. Min({want, avail}) \in {want, avail}
  BY <1>4, <1>5, MinOfTwo
<1> QED
  BY <1>1, <1>4, <1>5, <1>6

(* How many blocks of another namespace an admission for n evicts. *)
LEMMA EvictionsAreShares ==
  ASSUME IndexInv, UsedInv, QuotaInv, NEW n \in Namespaces, NEW m \in Namespaces, m # n,
         NEW plan, plan.reclaim \in Int
  PROVE  \E still \in Int : Evictions(n, plan)[m] = Share(n, m, still)
<1> DEFINE R == plan.reclaim
           P(f) == f = [i \in 0 .. NumNs |->
                          IF i = 0 THEN 0
                          ELSE f[i - 1] + Bpb[i] * Share(n, i, R - f[i - 1])]
           F == [p \in (1 .. NumNs) \X Int |-> Bpb[p[1]] * Share(n, p[1], R - p[2])]
<1>1. \A i \in 1 .. NumNs, x \in Int :
        Bpb[i] * Share(n, i, R - x) \in Int
  <2> SUFFICES ASSUME NEW i \in 1 .. NumNs, NEW x \in Int
               PROVE  Bpb[i] * Share(n, i, R - x) \in Int
    OBVIOUS
  <2>1. i \in Namespaces /\ R - x \in Int
    BY DEF Namespaces
  <2> HIDE DEF R
  <2>2. Bpb[i] \in Nat /\ Share(n, i, R - x) \in Nat
    BY Zenon, <2>1, Amounts, ShareBound
  <2> QED
    BY <2>2
<1>2. Evictions(n, plan)[m] = Share(n, m, R - (CHOOSE f : P(f))[m - 1])
  BY DEF Evictions
<1>3. \E f : P(f)
  <2>1. F \in [(1 .. NumNs) \X Int -> Int]
    BY <1>1
  <2>2. \A i \in 1 .. NumNs, x \in Int : F[<<i, x>>] = Bpb[i] * Share(n, i, R - x)
    OBVIOUS
  <2> HIDE DEF F
  <2>3. PICK f \in [0 .. NumNs -> Int] :
          /\ f[0] = 0
          /\ \A i \in 1 .. NumNs : f[i] = f[i - 1] + F[<<i, f[i - 1]>>]
    BY Zenon, <2>1, Accumulates, SizeAssumption
  <2>4. ASSUME NEW i \in 0 .. NumNs
        PROVE  f[i] = IF i = 0 THEN 0 ELSE f[i - 1] + Bpb[i] * Share(n, i, R - f[i - 1])
    <3>1. CASE i = 0
      BY <2>3, <3>1
    <3>2. CASE i # 0
      <4>1. i \in 1 .. NumNs /\ i - 1 \in 0 .. NumNs
        BY <3>2, SizeAssumption
      <4>2. f[i - 1] \in Int
        BY <4>1
      <4> QED
        BY Zenon, <2>2, <2>3, <3>2, <4>1, <4>2
    <3> QED
      BY <3>1, <3>2
  <2>5. P(f)
    BY <2>4
  <2> QED
    BY Zenon, <2>5
<1> DEFINE freed == CHOOSE f : P(f)
<1>4. P(freed)
  BY Zenon, <1>3
<1> HIDE DEF freed
<1> DEFINE Q == {k \in Nat : k <= NumNs => freed[k] \in Int}
<1>5. 0 \in Q
  BY <1>4, SizeAssumption
<1>6. ASSUME NEW k \in Nat, k \in Q
      PROVE  k + 1 \in Q
  <2> SUFFICES ASSUME k + 1 <= NumNs PROVE freed[k + 1] \in Int
    OBVIOUS
  <2>1. freed[k] \in Int /\ k + 1 \in 1 .. NumNs /\ k + 1 \in 0 .. NumNs /\ (k + 1) - 1 = k
    BY <1>6, SizeAssumption
  <2>2. freed[k + 1] = freed[k] + Bpb[k + 1] * Share(n, k + 1, R - freed[k])
    <3>1. \A i \in 0 .. NumNs :
            freed[i] = IF i = 0 THEN 0 ELSE freed[i - 1] + Bpb[i] * Share(n, i, R - freed[i - 1])
      BY Zenon, <1>4
    <3>2. k + 1 # 0
      OBVIOUS
    <3>3. freed[k + 1] = freed[(k + 1) - 1] + Bpb[k + 1] * Share(n, k + 1, R - freed[(k + 1) - 1])
      BY <2>1, <3>1, <3>2
    <3> QED
      BY <2>1, <3>3
  <2>3. Bpb[k + 1] * Share(n, k + 1, R - freed[k]) \in Int
    BY <1>1, <2>1
  <2> QED
    BY <2>1, <2>2, <2>3
<1> HIDE DEF Q
<1>7. Nat \subseteq Q
  BY <1>5, <1>6, Upward
<1>8. m - 1 \in Nat /\ m - 1 <= NumNs
  BY SizeAssumption DEF Namespaces
<1>9. freed[m - 1] \in Int
  BY <1>7, <1>8 DEF Q
<1>10. R - freed[m - 1] \in Int
  BY <1>9
<1> QED
  BY Zenon, <1>2, <1>10 DEF freed

(* A registration for n takes from another namespace m at most what leaves   *)
(* it a block short of its soft quota.                                       *)
LEMMA RegisterReclaims ==
  ASSUME IndexInv, UsedInv, QuotaInv, NEW n \in Namespaces, NEW S \in Segments[n],
         RegisterBlocks(n, S), NEW m \in Namespaces, m # n, used'[m] < used[m]
  PROVE  quota[m].soft > 0 /\ used'[m] > quota[m].soft - Bpb[m]
<1>1. PICK V \in SUBSET inactive :
        /\ CommitAdmit(n, Admitted(n, S), V)
        /\ used' = [k \in Namespaces |->
             Discharged(Dropped(V))[k] + Charge(S \ (view \ Dropped(V)))[k]]
  BY Zenon DEF RegisterBlocks
<1> DEFINE D == Dropped(V)
           c == Cardinality(D \cap Of(m))
           v == Cardinality(V \cap Of(m))
           a == Cardinality(view \cap Of(m))
           e == Evictions(n, Admitted(n, S))[m]
<1>2. S \subseteq Of(n) /\ S \subseteq Blocks
  BY DEF Segments, Of
<1>3. D \subseteq V /\ D \in SUBSET view /\ V \in SUBSET Blocks /\ D \in SUBSET Blocks
  BY DEF Dropped, IndexInv
<1>4. /\ IsFiniteSet(V \cap Of(m)) /\ IsFiniteSet(view \cap Of(m))
      /\ c \in Nat /\ v \in Nat /\ a \in Nat
  BY Zenon, <1>3, BlocksFinite DEF IndexInv
<1>5. c <= v
  <2>1. D \cap Of(m) \subseteq V \cap Of(m)
    BY <1>3
  <2> QED
    BY <1>4, <2>1, FS_Subset
<1>6. PICK still \in Int : e = Share(n, m, still)
  <2>1. Cardinality(S \ view) \in Nat
    <3>1. (S \ view) \cap Of(n) = S \ view
      BY <1>2
    <3> QED
      BY Zenon, <1>2, <3>1, BlocksFinite
  <2>2. Admitted(n, S).reclaim \in Int
    BY <2>1, ReclaimType DEF Admitted
  <2> QED
    BY <2>2, EvictionsAreShares
<1>7. e \in Nat
  BY <1>6, ShareBound
<1>8. v <= e
  <2>1. V \cap Of(m) \in Victims(m, e)
    BY <1>1 DEF CommitAdmit
  <2> DEFINE i == Cardinality(inactive \cap Of(m))
  <2>2. v = Min({e, i})
    BY <2>1 DEF Victims
  <2>3. i \in Nat
    BY Zenon, BlocksFinite DEF IndexInv
  <2> HIDE DEF D, c, v, a, e, i
  <2>4. e \in Int /\ i \in Int
    BY <1>7, <2>3
  <2>5. Min({e, i}) <= e
    BY Zenon, <2>4, MinOfTwo
  <2> QED
    BY <2>2, <2>5
<1>9. /\ used[m] = Bpb[m] * a /\ Bpb[m] \in Nat \ {0}
      /\ used'[m] = Bpb[m] * (a - c)
  <2>1. Discharged(D) = Charge(view \ D)
    BY <1>3, DischargeExact DEF IndexInv
  <2>2. Cardinality((view \ D) \cap Of(m)) = a - c
    <3>1. (view \ D) \cap Of(m) = (view \cap Of(m)) \ D
      OBVIOUS
    <3>2. (view \cap Of(m)) \cap D = D \cap Of(m)
      BY <1>3
    <3>3. Cardinality((view \cap Of(m)) \ D)
            = Cardinality(view \cap Of(m)) - Cardinality((view \cap Of(m)) \cap D)
      BY Zenon, <1>4, FS_Difference
    <3> QED
      BY <3>1, <3>2, <3>3
  <2>3. Charge(view \ D)[m] = Bpb[m] * (a - c)
    BY <2>2 DEF Charge
  <2>4. Charge(S \ (view \ D))[m] = 0
    <3>1. (S \ (view \ D)) \cap Of(m) = {}
      BY <1>2 DEF Of
    <3>2. Charge(S \ (view \ D))[m] = Bpb[m] * 0
      BY <3>1, FS_EmptySet DEF Charge
    <3> QED
      BY <3>2, BytesAssumption
  <2>5. used'[m] = Discharged(D)[m] + Charge(S \ (view \ D))[m]
    BY Zenon, <1>1
  <2>6. Bpb[m] \in Nat \ {0}
    BY BytesAssumption
  <2>7. used[m] = Bpb[m] * a
    BY DEF UsedInv, Charge
  <2>8. Bpb[m] * (a - c) \in Int
    BY <1>4, <2>6
  <2> HIDE DEF a, c, D
  <2> QED
    BY <2>1, <2>3, <2>4, <2>5, <2>6, <2>7, <2>8
<1> HIDE DEF D, c, v, a, e
<1>10. c # 0
  BY <1>4, <1>9
<1>11. e > 0 /\ c <= e
  BY <1>4, <1>5, <1>7, <1>8, <1>10
<1> DEFINE lent == Borrowed(quota, used, m)
<1>12. lent > 0 /\ Bpb[m] * e < lent + Bpb[m]
  BY <1>6, <1>11, ShareBound
<1>13. lent \in Nat /\ quota[m].soft \in Nat /\ quota[m].soft > 0 /\ lent = used[m] - quota[m].soft
  BY <1>12, Amounts
<1> HIDE DEF lent
<1>14. Bpb[m] * c <= Bpb[m] * e /\ Bpb[m] * c \in Nat /\ Bpb[m] * e \in Nat /\ Bpb[m] * a \in Nat
  BY <1>4, <1>7, <1>9, <1>11
<1>15. used'[m] = used[m] - Bpb[m] * c
  <2>1. \A x, y, z \in Int : x * (y - z) = x * y - x * z
    OBVIOUS
  <2>2. Bpb[m] * (a - c) = Bpb[m] * a - Bpb[m] * c
    BY <1>4, <1>9, <2>1
  <2> QED
    BY <1>9, <2>2
<1> QED
  BY <1>9, <1>12, <1>13, <1>14, <1>15

(* Quotas keep their type. *)
LEMMA NextQuotaInv == QuotaInv /\ [Next]_vars => QuotaInv'
<1> SUFFICES ASSUME QuotaInv, [Next]_vars PROVE QuotaInv'
  OBVIOUS
<1>1. Unlimited \in Quota /\ \A q \in Quotas : q \in Quota
  BY QuotaAssumption DEF Unlimited, Quota
<1>2. ASSUME NEW n \in Namespaces, NEW q \in Quota, quota' = [quota EXCEPT ![n] = q]
      PROVE  QuotaInv'
  BY <1>2 DEF QuotaInv
<1>3. CASE \E n \in Namespaces, q \in Quotas : RegisterModel(n, q) \/ SetModelQuota(n, q)
  BY <1>1, <1>2, <1>3 DEF RegisterModel, SetModelQuota
<1>4. CASE \E n \in Namespaces : DeregisterModel(n)
  BY Zenon, <1>1, <1>2, <1>4 DEF DeregisterModel
<1>5. ASSUME quota' = quota
      PROVE  QuotaInv'
  BY <1>5 DEF QuotaInv
<1>6. CASE \E n \in Namespaces : \E S \in Segments[n] :
             RegisterBlocks(n, S) \/ RegisterUnsettled(n, S)
  BY Zenon, <1>5, <1>6 DEF RegisterBlocks, RegisterUnsettled
<1>7. CASE \E d \in Nodes, k \in Kinds, n \in Namespaces : \E S \in Segments[n] :
             TakeRefs(d, k, S) \/ ReleaseRefs(d, k, S)
  BY Zenon, <1>5, <1>7 DEF TakeRefs, ReleaseRefs
<1>8. CASE \E d \in Nodes : ReconcileDeadNode(d)
  BY <1>5, <1>8 DEF ReconcileDeadNode
<1>9. CASE \E b \in Blocks : Discard(b)
  BY <1>5, <1>9 DEF Discard, Forget
<1>10. CASE \E V \in SUBSET Blocks : \E durable \in SUBSET V : GcCold(V, durable)
  BY <1>5, <1>10 DEF GcCold
<1>11. CASE \E last \in 0 .. NumBlocks : RestoreCheckpoint(last)
  BY <1>5, <1>11 DEF RestoreCheckpoint
<1>12. CASE UNCHANGED vars
  BY <1>5, <1>12 DEF vars
<1> QED
  BY <1>3, <1>4, <1>6, <1>7, <1>8, <1>9, <1>10, <1>11, <1>12 DEF Next

(* Only RegisterBlocks adds blocks to the view, of its own namespace. *)
LEMMA OnlyRegisterAdds ==
  ASSUME Next, NEW b \in view' \ view
  PROVE  \E n \in Namespaces : \E S \in Segments[n] : RegisterBlocks(n, S) /\ b \in S
<1>1. ASSUME view' \subseteq view
      PROVE  FALSE
  BY <1>1
<1>2. ASSUME NEW n \in Namespaces, NEW S \in Segments[n], RegisterBlocks(n, S)
      PROVE  b \in S
  BY Zenon, <1>2 DEF RegisterBlocks
<1>3. ~\E n \in Namespaces, q \in Quotas : RegisterModel(n, q) \/ SetModelQuota(n, q)
  BY <1>1 DEF RegisterModel, SetModelQuota
<1>4. ~\E n \in Namespaces : DeregisterModel(n)
  BY <1>1 DEF DeregisterModel
<1>5. ~\E n \in Namespaces : \E S \in Segments[n] : RegisterUnsettled(n, S)
  BY <1>1 DEF RegisterUnsettled
<1>6. ~\E d \in Nodes, k \in Kinds, n \in Namespaces : \E S \in Segments[n] :
          TakeRefs(d, k, S) \/ ReleaseRefs(d, k, S)
  BY <1>1 DEF TakeRefs, ReleaseRefs
<1>7. ~\E d \in Nodes : ReconcileDeadNode(d)
  BY Zenon, <1>1 DEF ReconcileDeadNode
<1>8. ~\E c \in Blocks : Discard(c)
  BY Zenon, <1>1 DEF Discard, Forget
<1>9. ~\E V \in SUBSET Blocks : \E durable \in SUBSET V : GcCold(V, durable)
  BY Zenon, <1>1 DEF GcCold
<1>10. ~\E last \in 0 .. NumBlocks : RestoreCheckpoint(last)
  BY Zenon, <1>1 DEF RestoreCheckpoint
<1> QED
  BY Zenon, <1>2, <1>3, <1>4, <1>5, <1>6, <1>7, <1>8, <1>9, <1>10 DEF Next

(* Admission takes bytes from another namespace only while that one borrows, *)
(* and leaves it at most one block short of its soft quota: for any number   *)
(* of namespaces, sizes of blocks, quotas and capacity, whatever the order   *)
(* in which the borrowers are asked.                                         *)
THEOREM ReclaimIsBounded == Spec => ReclaimOnlyBorrowed
<1> DEFINE A == \A m \in Namespaces :
                  used'[m] < used[m] /\ (\E b \in view' \ view : NsOf[b] # m)
                    => quota[m].soft > 0 /\ used'[m] > quota[m].soft - Bpb[m]
<1>1. Init => UsedInv
  BY InitUsedInv
<1>2. Init => QuotaInv
  BY DEF Init, QuotaInv, Unlimited, Quota
<1>3. ASSUME IndexInv, UsedInv, QuotaInv, [Next]_vars
      PROVE  [A]_vars
  <2> SUFFICES ASSUME Next, NEW m \in Namespaces, used'[m] < used[m],
                      NEW b \in view' \ view, NsOf[b] # m
               PROVE  quota[m].soft > 0 /\ used'[m] > quota[m].soft - Bpb[m]
    BY <1>3
  <2>1. PICK n \in Namespaces : \E S \in Segments[n] : RegisterBlocks(n, S) /\ b \in S
    BY OnlyRegisterAdds
  <2>2. PICK S \in Segments[n] : RegisterBlocks(n, S) /\ b \in S
    BY <2>1
  <2>3. m # n
    BY <2>2 DEF Segments, Of
  <2> QED
    BY Zenon, <1>3, <2>2, <2>3, RegisterReclaims
<1> QED
  BY <1>1, <1>2, <1>3, InitIndexInv, NextIndexInv, NextUsedInv, NextQuotaInv, PTL
     DEF Spec, ReclaimOnlyBorrowed
=============================================================================
