----------------------------- MODULE Authority -----------------------------
(***************************************************************************)
(* The control plane's authority (rust/controlplane/src: authority.rs,     *)
(* quota.rs, reconcile.rs): which blocks are registered, who references    *)
(* them, what they are charged to, and which of them may be evicted.       *)
(*                                                                         *)
(* Every handler holds the authority's write lock from its first read to   *)
(* its last write, so a handler is one action.  A request that is refused  *)
(* changes nothing and is no step, except where a refused request has      *)
(* already evicted (RegisterUnsettled).  ReconcileOrphans does up to three *)
(* things, each only if asked for: it drops marks of orphans, which touch  *)
(* no registered block and are left out, and does ReconcileDeadNode and    *)
(* GcCold, which are actions here.                                         *)
(*                                                                         *)
(* A block stands for its namespace, pool kind and content hash; the hash  *)
(* fixes the block before it in its chain.  Namespaces and blocks are      *)
(* numbers, in the order in which the code sorts them.                     *)
(***************************************************************************)
EXTENDS Integers, FiniteSets, FiniteSetsExt

CONSTANTS
  NumNs,         \* namespaces are 1 .. NumNs, in the order of their keys
  NumBlocks,     \* blocks are 1 .. NumBlocks, in the order of a checkpoint
  NsOf,          \* the namespace of a block
  Drafts,        \* the blocks of the DRAFT pools, the others are TARGET
  Prev,          \* the block before a block in its chain, 0 for a first block
  Nodes,         \* node ids of storage agents
  Kinds,         \* the kinds of references, RefKind
  Quotas,        \* the quotas an operator may set
  Bpb,           \* bytes_per_block of a namespace
  InactiveCap,   \* PoolView.inactive_cap
  PoolCapacity,  \* Authority.pool_capacity_bytes, 0 for no limit
  MaxRefs        \* bound: references outstanding at a time

Namespaces == 1 .. NumNs
Blocks == 1 .. NumBlocks
Quota == [soft : Nat, hard : Nat, borrow : BOOLEAN]

ASSUME SizeAssumption == NumNs \in Nat /\ NumBlocks \in Nat
ASSUME BlockAssumption ==
  /\ NsOf \in [Blocks -> Namespaces]
  /\ Drafts \subseteq Blocks
  /\ Prev \in [Blocks -> 0 .. NumBlocks]
  /\ \A b \in Blocks : Prev[b] # 0 =>
       /\ Prev[b] < b /\ NsOf[Prev[b]] = NsOf[b]
       /\ Prev[b] \in Drafts <=> b \in Drafts
ASSUME NodesAssumption == IsFiniteSet(Nodes)
ASSUME QuotaAssumption == Quotas \subseteq Quota
ASSUME BytesAssumption == Bpb \in [Namespaces -> Nat \ {0}]
ASSUME BoundAssumption ==
  InactiveCap \in Nat \ {0} /\ PoolCapacity \in Nat /\ MaxRefs \in Nat

VARIABLES
  models,    \* the keys of Authority.namespaces
  quota,     \* the quota of each namespace
  view,      \* the blocks in by_flat
  refs,      \* global_refs: references of a block by kind
  held,      \* node_refs: references of a node on a block by kind
  inactive,  \* the blocks in the eviction index
  used,      \* used_bytes of each namespace
  stale      \* history: blocks deregistered while nodes had rows for them

vars == <<models, quota, view, refs, held, inactive, used, stale>>

NoRefs == [k \in Kinds |-> 0]
Unlimited == [soft |-> 0, hard |-> 0, borrow |-> FALSE]

Of(n) == {b \in Blocks : NsOf[b] = n}
PoolOf(b) == {c \in Of(NsOf[b]) : c \in Drafts <=> b \in Drafts}
Unreferenced(r, b) == \A k \in Kinds : r[b][k] = 0
CeilDiv(x, y) == (x + y - 1) \div y

-----------------------------------------------------------------------------
(* The eviction index: a forest of the idle blocks, each hanging on the one *)
(* before it.  (The index also remembers, by placeholders, some longer      *)
(* links across blocks that have left it.  They only narrow the choice of   *)
(* victims, and are left out.)                                              *)

(* Leaves go first: what hangs on a victim is a victim too. *)
LeavesFirst(V) == \A d \in inactive : Prev[d] \in V => d \in V

(* The possible victims when c blocks of namespace n are evicted: TARGET    *)
(* before DRAFT, and in a pool any leaf, as the frequencies of use are not  *)
(* modelled.                                                                *)
Victims(n, c) ==
  LET idle == inactive \cap Of(n)
  IN {V \in SUBSET idle :
        /\ Cardinality(V) = Min({c, Cardinality(idle)})
        /\ LeavesFirst(V)
        /\ V \cap Drafts # {} => idle \ Drafts \subseteq V}

(* Victims that are referenced after all are passed over. *)
Dropped(V) == {b \in V : Unreferenced(refs, b)}

(* Idle blocks enter the index of their pool as long as it has room. *)
Entering(Z, T) ==
  /\ T \subseteq Z \ inactive
  /\ \A b \in Z \ inactive :
       LET room == InactiveCap - Cardinality(inactive \cap PoolOf(b))
           come == Cardinality((Z \ inactive) \cap PoolOf(b))
       IN Cardinality(T \cap PoolOf(b)) = Min({Max({room, 0}), come})

-----------------------------------------------------------------------------
(* Admission (plan_admit), for quotas q, charges u and idle blocks per      *)
(* namespace: whether fresh new blocks of n are accepted, how many of its   *)
(* own idle blocks go, and how many bytes others must give back.            *)

(* All that a namespace has counts as borrowed. *)
Borrowed_All(q, u, m) == u[m]

Borrowed(q, u, m) == IF q[m].soft = 0 THEN 0 ELSE Max({u[m] - q[m].soft, 0})

Reclaimable(q, u, idle, n) ==
  SumFunction([m \in Namespaces \ {n} |-> Min({Borrowed(q, u, m), idle[m] * Bpb[m]})])

Excess(limit, bytes) == IF limit > 0 THEN Max({bytes - limit, 0}) ELSE 0

OwnEvictions(q, u, idle, n, fresh) ==
  LET asked == u[n] + fresh * Bpb[n]
  IN Min({idle[n], Max({CeilDiv(Excess(q[n].hard, asked), Bpb[n]),
                        CeilDiv(Excess(q[n].soft, asked), Bpb[n])})})

(* What the namespace must borrow beyond the free space of the pool. *)
Lacking(q, u, own, projected, n) ==
  LET free == Max({PoolCapacity - SumFunction(u), 0}) + own * Bpb[n]
  IN IF q[n].borrow /\ PoolCapacity > 0
       THEN Max({Excess(q[n].soft, projected) - free, 0})
       ELSE 0

Plan(q, u, idle, n, fresh) ==
  LET own       == OwnEvictions(q, u, idle, n, fresh)
      projected == u[n] - own * Bpb[n] + fresh * Bpb[n]
      want      == Lacking(q, u, own, projected, n)
      avail     == Reclaimable(q, u, idle, n)
  IN IF fresh = 0
       THEN [accept |-> TRUE, own |-> 0, reclaim |-> 0]
       ELSE [accept  |-> Excess(q[n].hard, projected) = 0 /\ want <= avail,
             own     |-> own,
             reclaim |-> Min({want, avail})]

Idle == [m \in Namespaces |-> Cardinality(inactive \cap Of(m))]

(* How many blocks each namespace gives up under a plan for n: the borrowers *)
(* in their order, until enough is reclaimed.                                *)
Share(n, m, still) ==
  IF m = n \/ still <= 0
    THEN 0
    ELSE Min({Idle[m], CeilDiv(Min({still, Borrowed(quota, used, m)}), Bpb[m])})

Evictions(n, plan) ==
  LET freed[i \in 0 .. NumNs] ==
        IF i = 0
          THEN 0
          ELSE freed[i - 1] + Bpb[i] * Share(n, i, plan.reclaim - freed[i - 1])
  IN [m \in Namespaces |->
        IF m = n THEN plan.own ELSE Share(n, m, plan.reclaim - freed[m - 1])]

(* The bytes the blocks P occupy, by namespace. *)
Charge(P) == [m \in Namespaces |-> Bpb[m] * Cardinality(P \cap Of(m))]

(* Evicted blocks stay charged. *)
Discharged_Kept(D) == used

Discharged(D) == [m \in Namespaces |-> Max({used[m] - Charge(D)[m], 0})]

(* commit_admit: the victims V leave the index, and their counts go. *)
CommitAdmit(n, plan, V) ==
  /\ V \subseteq inactive
  /\ \A m \in Namespaces : V \cap Of(m) \in Victims(m, Evictions(n, plan)[m])
  /\ inactive' = inactive \ V
  /\ refs' = [b \in Blocks |-> IF b \in Dropped(V) THEN NoRefs ELSE refs[b]]

-----------------------------------------------------------------------------
Init ==
  /\ models = {}
  /\ quota = [n \in Namespaces |-> Unlimited]
  /\ view = {}
  /\ refs = [b \in Blocks |-> NoRefs]
  /\ held = [d \in Nodes |-> [b \in Blocks |-> NoRefs]]
  /\ inactive = {}
  /\ used = [n \in Namespaces |-> 0]
  /\ stale = {}

ValidQuota(q) == q.hard > 0 => q.soft <= q.hard

(* RegisterModel: a new namespace, or a new quota for a known one. *)
RegisterModel(n, q) ==
  /\ ValidQuota(q)
  /\ models' = models \cup {n}
  /\ quota' = [quota EXCEPT ![n] = q]
  /\ UNCHANGED <<view, refs, held, inactive, used, stale>>

SetModelQuota(n, q) ==
  /\ ValidQuota(q)
  /\ n \in models
  /\ quota' = [quota EXCEPT ![n] = q]
  /\ UNCHANGED <<models, view, refs, held, inactive, used, stale>>

(* DeregisterModel drops the namespace with its pools.  The rows of          *)
(* node_refs stay.                                                           *)
DeregisterModel(n) ==
  /\ n \in models
  /\ models' = models \ {n}
  /\ quota' = [quota EXCEPT ![n] = Unlimited]
  /\ view' = view \ Of(n)
  /\ refs' = [b \in Blocks |-> IF b \in Of(n) THEN NoRefs ELSE refs[b]]
  /\ inactive' = inactive \ Of(n)
  /\ used' = [used EXCEPT ![n] = 0]
  /\ stale' = stale \cup {b \in Of(n) : \E d \in Nodes : held[d][b] # NoRefs}
  /\ UNCHANGED held

(* The blocks of one RegisterBlocks call are a contiguous piece of a chain. *)
Segment(S) ==
  /\ Cardinality({b \in S : Prev[b] \notin S}) = 1
  /\ \A b, c \in S : Prev[b] = Prev[c] => b = c

Segments == [n \in Namespaces |-> {S \in SUBSET Of(n) : Segment(S)}]

Admitted(n, S) == Plan(quota, used, Idle, n, Cardinality(S \ view))

(* RegisterBlocks for blocks that are settled in L2 or L3.  The bytes are    *)
(* planned for the blocks that are new before the evictions, and charged     *)
(* for those that are new after them.                                        *)
RegisterBlocks(n, S) ==
  /\ n \in models
  /\ Admitted(n, S).accept
  /\ \E V \in SUBSET inactive :
       /\ CommitAdmit(n, Admitted(n, S), V)
       /\ LET left == view \ Dropped(V)
          IN /\ view' = left \cup S
             /\ used' = [m \in Namespaces |->
                           Discharged(Dropped(V))[m] + Charge(S \ left)[m]]
  /\ UNCHANGED <<models, quota, held, stale>>

(* The same for a block with neither location nor l3_present: the call fails *)
(* after the admission has been committed.                                   *)
RegisterUnsettled(n, S) ==
  /\ n \in models
  /\ Admitted(n, S).accept
  /\ \E V \in SUBSET inactive :
       /\ CommitAdmit(n, Admitted(n, S), V)
       /\ view' = view \ Dropped(V)
       /\ used' = Discharged(Dropped(V))
  /\ UNCHANGED <<models, quota, held, stale>>

Outstanding ==
  MapThenSumSet(LAMBDA r : held[r[1]][r[2]][r[3]], Nodes \X Blocks \X Kinds)

Added(r, S, k, delta) ==
  [b \in Blocks |-> IF b \in S THEN [r[b] EXCEPT ![k] = @ + delta] ELSE r[b]]

(* ReportRef with one delta for each block of S, all with the same sign, as  *)
(* the storage agents send them.  All are checked before one is applied.     *)
TakeRefs(d, k, S) ==
  /\ S \subseteq view
  /\ Outstanding + Cardinality(S) <= MaxRefs
  /\ refs' = Added(refs, S, k, 1)
  /\ held' = [held EXCEPT ![d] = Added(held[d], S, k, 1)]
  /\ inactive' = inactive \ S
  /\ UNCHANGED <<models, quota, view, used, stale>>

(* Blocks whose last reference goes enter the eviction index. *)
Release(r) ==
  /\ refs' = r
  /\ \E T \in SUBSET Blocks :
       /\ Entering({b \in view : ~Unreferenced(refs, b) /\ Unreferenced(r, b)}, T)
       /\ inactive' = inactive \cup T

ReleaseRefs(d, k, S) ==
  /\ S \subseteq view
  /\ \A b \in S : refs[b][k] > 0 /\ held[d][b][k] > 0
  /\ Release(Added(refs, S, k, -1))
  /\ held' = [held EXCEPT ![d] = Added(held[d], S, k, -1)]
  /\ UNCHANGED <<models, quota, view, used, stale>>

(* The references are taken back and the rows stay. *)
ReconcileDeadNode_KeepsRows(d) ==
  /\ Release([b \in Blocks |-> [k \in Kinds |->
                IF b \in view /\ refs[b][k] >= held[d][b][k]
                  THEN refs[b][k] - held[d][b][k]
                  ELSE refs[b][k]]])
  /\ UNCHANGED <<models, quota, view, held, used, stale>>

(* reconcile_dead_node takes back what the node's rows say, kind by kind; a  *)
(* correction that would underflow, or is for a block no longer in the view, *)
(* is skipped.                                                               *)
ReconcileDeadNode(d) ==
  /\ held' = [held EXCEPT ![d] = [b \in Blocks |-> NoRefs]]
  /\ Release([b \in Blocks |-> [k \in Kinds |->
                IF b \in view /\ refs[b][k] >= held[d][b][k]
                  THEN refs[b][k] - held[d][b][k]
                  ELSE refs[b][k]]])
  /\ UNCHANGED <<models, quota, view, used, stale>>

Forget(b, index) ==
  /\ b \in view
  /\ view' = view \ {b}
  /\ refs' = [refs EXCEPT ![b] = NoRefs]
  /\ inactive' = index
  /\ used' = Discharged({b})
  /\ held' = [d \in Nodes |-> [held[d] EXCEPT ![b] = NoRefs]]
  /\ stale' = stale \ {b}
  /\ UNCHANGED <<models, quota>>

(* A block in use is discarded. *)
Discard_InUse(b) == Forget(b, inactive \ {b})

(* DiscardBlocks for one block; a request for several discards one after the *)
(* other and stops at the first that is in use.                              *)
Discard(b) == Unreferenced(refs, b) /\ Forget(b, inactive \ {b})

(* gc_cold: leaves of one pool lose their L0 and L1 locations.  A victim     *)
(* that is durable (in L2 or L3) returns to the index, the others are        *)
(* dropped.  Which are durable is not modelled: any may be.                  *)
GcCold(V, durable) ==
  /\ V # {} /\ V \subseteq inactive
  /\ \A b \in V : V \subseteq PoolOf(b)
  /\ LeavesFirst(V)
  /\ LET gone == Dropped(V) \ durable
     IN /\ view' = view \ gone
        /\ refs' = [b \in Blocks |-> IF b \in gone THEN NoRefs ELSE refs[b]]
        /\ used' = Discharged(gone)
        /\ inactive' = (inactive \ V) \cup (Dropped(V) \cap durable)
  /\ UNCHANGED <<models, quota, held, stale>>

(* import_snapshot: the blocks of the checkpoint are registered one by one,  *)
(* in their order, into an authority without references or idle blocks.      *)
Importable(b) ==
  Plan(quota, Charge(view \cap 1 .. b - 1), [m \in Namespaces |-> 0],
       NsOf[b], 1).accept

(* The checkpoint restored is one of the present content: the restored state *)
(* depends on nothing else, so one of any earlier content leads to no other  *)
(* states.  The import stops for good at the first block it cannot register: *)
(* one that the quota refuses, or one that has no location left.             *)
RestoreCheckpoint(last) ==
  /\ \A b \in view \cap 1 .. last : Importable(b)
  /\ last = NumBlocks \/ last + 1 \in view
  /\ view' = view \cap 1 .. last
  /\ used' = Charge(view \cap 1 .. last)
  /\ refs' = [b \in Blocks |-> NoRefs]
  /\ held' = [d \in Nodes |-> [b \in Blocks |-> NoRefs]]
  /\ inactive' = {}
  /\ stale' = {}
  /\ UNCHANGED <<models, quota>>

Next ==
  \/ \E n \in Namespaces, q \in Quotas : RegisterModel(n, q) \/ SetModelQuota(n, q)
  \/ \E n \in Namespaces : DeregisterModel(n)
  \/ \E n \in Namespaces : \E S \in Segments[n] :
       RegisterBlocks(n, S) \/ RegisterUnsettled(n, S)
  \/ \E d \in Nodes, k \in Kinds, n \in Namespaces : \E S \in Segments[n] :
       TakeRefs(d, k, S) \/ ReleaseRefs(d, k, S)
  \/ \E d \in Nodes : ReconcileDeadNode(d)
  \/ \E b \in Blocks : Discard(b)
  \/ \E V \in SUBSET Blocks : \E durable \in SUBSET V : GcCold(V, durable)
  \/ \E last \in 0 .. NumBlocks : RestoreCheckpoint(last)

Spec == Init /\ [][Next]_vars

-----------------------------------------------------------------------------
TypeOK ==
  /\ models \subseteq Namespaces
  /\ quota \in [Namespaces -> Quota]
  /\ view \subseteq Blocks
  /\ refs \in [Blocks -> [Kinds -> Nat]]
  /\ held \in [Nodes -> [Blocks -> [Kinds -> Nat]]]
  /\ inactive \subseteq view
  /\ used \in [Namespaces -> Nat]
  /\ stale \subseteq Blocks

(* used_bytes of a namespace is what its registered blocks occupy, through   *)
(* every eviction, discard, collection and failed registration: the charge   *)
(* is kept by adding and subtracting, never recomputed.                      *)
UsedExact == \A n \in Namespaces : used[n] = Bpb[n] * Cardinality(view \cap Of(n))

(* Nobody references what may be evicted: the eviction index, which          *)
(* report_ref, gc_cold and the evictions keep by hand while references of    *)
(* two kinds come and go, never holds a block that is in use.                *)
InactiveIsFree == \A b \in inactive : Unreferenced(refs, b)

(* The global count of a block is the sum of what the nodes hold, kind by    *)
(* kind, so that clearing a dead node's rows releases what that node took    *)
(* and nothing else.  Blocks deregistered under their holders are excepted:  *)
(* DeregisterModel leaves the rows of node_refs behind.                      *)
RefsAgree ==
  \A b \in Blocks \ stale : \A k \in Kinds :
    refs[b][k] = SumFunction([d \in Nodes |-> held[d][b][k]])

(* A referenced block is frozen: it leaves the view only with its whole      *)
(* namespace or in a restore.  No admission, for whatever namespace, no      *)
(* gc_cold, dead node or DiscardBlocks takes it.                             *)
Frozen ==
  [][\A b \in view :
       ~Unreferenced(refs, b) /\ b \notin view'
         => \/ NsOf[b] \notin models'
            \/ \E last \in 0 .. NumBlocks : RestoreCheckpoint(last)]_vars

(* Admission takes bytes from another namespace only while that one borrows: *)
(* a registration for one namespace leaves every other at most one block     *)
(* short of its soft quota.                                                  *)
ReclaimOnlyBorrowed ==
  [][\A m \in Namespaces :
       used'[m] < used[m] /\ (\E b \in view' \ view : NsOf[b] # m)
         => quota[m].soft > 0 /\ used'[m] > quota[m].soft - Bpb[m]]_vars

(* What register's comment promises: a registration is refused rather than   *)
(* leave its namespace above the hard quota.                                 *)
HardCeiling ==
  [][\A n \in Namespaces :
       used'[n] > used[n] => quota[n].hard = 0 \/ used'[n] <= quota[n].hard]_vars
=============================================================================
