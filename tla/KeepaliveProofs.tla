--------------------------- MODULE KeepaliveProofs ---------------------------
(***************************************************************************)
(* A removal is refused only for a lease somebody else has renewed, a      *)
(* window is not stretched and nothing is dropped early, for any prefixes, *)
(* windows, leases and number of faults.                                   *)
(***************************************************************************)
EXTENDS Keepalive, TLAPS

Types ==
  /\ clock \in Nat /\ now \in Nat
  /\ rows \in [Prefixes -> Int] /\ opened = rows
  /\ lease \in [Prefixes -> Nat] /\ until \in [Prefixes -> Nat]
  /\ removal \in [Prefixes -> {"no", "wait", "refused"}]
  /\ todo \subseteq [prefix : Prefixes, at : Int]
  /\ cur \in [prefix : Prefixes, at : Int]

(***************************************************************************)
(* No lease ends later than one taken out now, and while a removal waits   *)
(* without a foreign renewal, nothing is left that could renew: no row the *)
(* sweep could find, no registration, no check under way.                  *)
(***************************************************************************)
Lapsing(p) ==
  /\ rows[p] = NoRow /\ p \notin writes /\ p \notin late
  /\ loop = "renew" => cur.prefix # p
  /\ lease[p] <= until[p]

LeaseInv ==
  /\ \A p \in Prefixes : lease[p] <= clock + LeaseTtl
  /\ \A p \in Prefixes : removal[p] = "wait" /\ p \notin renewed => Lapsing(p)
  /\ LeaseLapses

(***************************************************************************)
(* A row is younger than its window at the start of the sweep, or the      *)
(* sweep has yet to look at it, or is about to drop it; and it drops only  *)
(* what is too old or absent.                                              *)
(***************************************************************************)
InSweep == loop \in {"next", "check", "renew", "drop"}

Accounted(p) ==
  \/ now - rows[p] < Window
  \/ [prefix |-> p, at |-> rows[p]] \in todo
  \/ loop = "drop" /\ cur.prefix = p

SweepInv ==
  /\ now <= clock
  /\ InSweep => \A p \in Prefixes : rows[p] # NoRow => Accounted(p)
  /\ loop = "drop" => Expired(cur) \/ cur.prefix \in absent

KInv == Types /\ LeaseInv /\ SweepInv

(* A ledger and a store that are empty. *)
LEMMA InitKInv == Init => KInv
<1> SUFFICES ASSUME Init PROVE KInv
  OBVIOUS
<1>1. Types
  BY DEF Init, Types, NoRow
<1>2. LeaseInv
  BY TimesAssumption DEF Init, LeaseInv, LeaseLapses
<1>3. SweepInv
  BY DEF Init, SweepInv, InSweep
<1> QED
  BY <1>1, <1>2, <1>3 DEF KInv

(* Every step of the store, the clock and the flows. *)
LEMMA StoreStep ==
  ASSUME KInv,
         Tick \/ \E p \in Prefixes : Evict(p) \/ Touch(p) \/ Ready(p) \/ LateCall(p)
  PROVE  KInv'
<1> USE TimesAssumption DEF KInv
<1>1. CASE Tick
  <2>1. Types'
    BY <1>1 DEF Tick, Types, list, storeVars, sweepVars, removeVars
  <2>2. LeaseInv'
    BY <1>1 DEF Tick, Types, LeaseInv, LeaseLapses, Lapsing, list, storeVars, sweepVars, removeVars, history
  <2>3. SweepInv'
    BY <1>1 DEF Tick, Types, SweepInv, InSweep, Accounted, Expired, list, sweepVars, history
  <2> QED
    BY <2>1, <2>2, <2>3
<1>2. ASSUME NEW p \in Prefixes, Evict(p)
      PROVE  KInv'
  <2>1. Types'
    BY <1>2 DEF Evict, Types, list, sweepVars, removeVars
  <2>2. LeaseInv'
    BY <1>2 DEF Evict, Types, LeaseInv, LeaseLapses, Lapsing, list, sweepVars, removeVars, history
  <2>3. SweepInv'
    BY <1>2 DEF Evict, SweepInv, InSweep, Accounted, Expired, list, sweepVars, history
  <2> QED
    BY <2>1, <2>2, <2>3
<1>3. ASSUME NEW p \in Prefixes, Touch(p)
      PROVE  KInv'
  <2>1. Types'
    BY <1>3 DEF Touch, Renewed, Types, list, sweepVars, removeVars
  <2>2. LeaseInv'
    BY <1>3 DEF Touch, Renewed, Types, LeaseInv, LeaseLapses, Lapsing, list, sweepVars, removeVars
  <2>3. SweepInv'
    BY <1>3 DEF Touch, SweepInv, InSweep, Accounted, Expired, list, sweepVars
  <2> QED
    BY <2>1, <2>2, <2>3
<1>4. ASSUME NEW p \in Prefixes, Ready(p)
      PROVE  KInv'
  <2>1. Types'
    BY <1>4 DEF Ready, Types, list, sweepVars, removeVars
  <2>2. LeaseInv'
    BY <1>4 DEF Ready, Types, LeaseInv, LeaseLapses, Lapsing, list, sweepVars, removeVars
  <2>3. SweepInv'
    BY <1>4 DEF Ready, SweepInv, InSweep, Accounted, Expired, list, sweepVars
  <2> QED
    BY <2>1, <2>2, <2>3
<1>5. ASSUME NEW p \in Prefixes, LateCall(p)
      PROVE  KInv'
  <2>1. Types'
    BY <1>5 DEF LateCall, Renewed, Types, list, sweepVars, removeVars
  <2>2. LeaseInv'
    BY <1>5 DEF LateCall, Renewed, Types, LeaseInv, LeaseLapses, Lapsing, list, sweepVars, removeVars, history
  <2>3. SweepInv'
    BY <1>5 DEF LateCall, SweepInv, InSweep, Accounted, Expired, list, sweepVars, history
  <2> QED
    BY <2>1, <2>2, <2>3
<1> QED
  BY <1>1, <1>2, <1>3, <1>4, <1>5

(* A registration and the steps of a removal. *)
LEMMA ListStep ==
  ASSUME KInv, NEW p \in Prefixes,
         RegisterWrite(p) \/ Remove(p) \/ RemoveKeys(p) \/ ForceRemove(p) \/ RemoveRaises(p)
  PROVE  KInv'
<1> USE TimesAssumption DEF KInv
<1>1. CASE RegisterWrite(p)
  <2>1. Types'
    BY <1>1 DEF RegisterWrite, Registered, Types, list, storeVars, sweepVars, removeVars
  <2>2. LeaseInv'
    BY <1>1 DEF RegisterWrite, Types, LeaseInv, LeaseLapses, Lapsing, list, storeVars, sweepVars, removeVars, history
  <2>3. \A q \in Prefixes : rows'[q] = rows[q] \/ rows'[q] = clock
    BY <1>1 DEF RegisterWrite, Registered, Types, list
  <2>4. SweepInv'
    BY <1>1, <2>3 DEF RegisterWrite, Types, SweepInv, InSweep, Accounted, Expired, sweepVars, history
  <2> QED
    BY <2>1, <2>2, <2>4
<1>2. CASE Remove(p)
  <2>1. Types'
    BY <1>2 DEF Remove, Unregister, NoRow, Types, storeVars, sweepVars
  <2>2. LeaseInv'
    BY <1>2 DEF Remove, Unregister, InOtherHands, Types, LeaseInv, LeaseLapses, Lapsing, storeVars, sweepVars
  <2>3. \A q \in Prefixes : rows'[q] = rows[q] \/ rows'[q] = NoRow
    BY <1>2 DEF Remove, Unregister, Types
  <2>4. SweepInv'
    BY <1>2, <2>3 DEF Remove, Types, SweepInv, InSweep, Accounted, Expired, sweepVars
  <2> QED
    BY <2>1, <2>2, <2>4
<1>3. CASE RemoveKeys(p)
  <2>1. Types'
    BY <1>3 DEF RemoveKeys, Types, list, sweepVars
  <2>2. LeaseInv'
    BY <1>3 DEF RemoveKeys, Waited, Types, LeaseInv, LeaseLapses, Lapsing, list, sweepVars, history
  <2>3. SweepInv'
    BY <1>3 DEF RemoveKeys, SweepInv, InSweep, Accounted, Expired, list, sweepVars, history
  <2> QED
    BY <2>1, <2>2, <2>3
<1>4. CASE ForceRemove(p)
  <2>1. Types'
    BY <1>4 DEF ForceRemove, Types, list, sweepVars
  <2>2. LeaseInv'
    BY <1>4 DEF ForceRemove, Types, LeaseInv, LeaseLapses, Lapsing, list, sweepVars, history
  <2>3. SweepInv'
    BY <1>4 DEF ForceRemove, SweepInv, InSweep, Accounted, Expired, list, sweepVars, history
  <2> QED
    BY <2>1, <2>2, <2>3
<1>5. CASE RemoveRaises(p)
  <2>1. Types'
    BY <1>5 DEF RemoveRaises, Types, list, storeVars, sweepVars
  <2>2. LeaseInv'
    BY <1>5 DEF RemoveRaises, Types, LeaseInv, LeaseLapses, Lapsing, list, storeVars, sweepVars, history
  <2>3. SweepInv'
    BY <1>5 DEF RemoveRaises, SweepInv, InSweep, Accounted, Expired, list, sweepVars, history
  <2> QED
    BY <2>1, <2>2, <2>3
<1> QED
  BY <1>1, <1>2, <1>3, <1>4, <1>5

(* The loop starts, ends or fails, or the process dies: no sweep is left.   *)
LEMMA EndStep ==
  ASSUME KInv, Start \/ SweepFails \/ Stop \/ Crash
  PROVE  KInv'
<1> USE TimesAssumption DEF KInv
<1>1. Types'
  BY DEF Start, SweepFails, Stop, Crash, Types, list, storeVars, removeVars
<1>2. LeaseInv'
  <2>1. CASE Start
    BY <2>1 DEF Start, Types, LeaseInv, LeaseLapses, Lapsing, list, storeVars, removeVars, history
  <2>2. CASE SweepFails
    BY <2>2 DEF SweepFails, AfterSweepFails, Types, LeaseInv, LeaseLapses, Lapsing, list, storeVars, removeVars
  <2>3. CASE Stop
    BY <2>3 DEF Stop, Types, LeaseInv, LeaseLapses, Lapsing, list, storeVars, removeVars
  <2>4. CASE Crash
    BY <2>4 DEF Crash, Types, LeaseInv, LeaseLapses, list, storeVars
  <2> QED
    BY <2>1, <2>2, <2>3, <2>4
<1>3. clock' = clock /\ (now' = now \/ now' = 0) /\ loop' \in {"sleep", "off"}
  BY DEF Start, SweepFails, AfterSweepFails, Stop, Crash
<1>4. SweepInv'
  BY <1>3 DEF Types, SweepInv, InSweep
<1> QED
  BY <1>1, <1>2, <1>4

(* A step of the sweep. *)
LEMMA SweepStep ==
  ASSUME KInv, Sweep
  PROVE  KInv'
<1> USE TimesAssumption DEF KInv
<1>1. CASE SweepBegins \/ SweepEnds
  <2>1. Types'
    BY <1>1 DEF SweepBegins, SweepEnds, Types, list, storeVars, removeVars
  <2>2. LeaseInv'
    BY <1>1 DEF SweepBegins, SweepEnds, Types, LeaseInv, LeaseLapses, Lapsing, list, storeVars, removeVars, history
  <2>3. clock' = clock /\ now' \in {0, clock} /\ loop' \in {"list", "sleep"}
    BY <1>1 DEF SweepBegins, SweepEnds
  <2>4. SweepInv'
    BY <2>3 DEF Types, SweepInv, InSweep
  <2> QED
    BY <2>1, <2>2, <2>4
<1>2. CASE List
  <2>1. Types'
    BY <1>2 DEF List, Types, list, storeVars, removeVars
  <2>2. LeaseInv'
    BY <1>2 DEF List, Types, LeaseInv, LeaseLapses, Lapsing, list, storeVars, removeVars, history
  <2>3. SweepInv'
    BY <1>2 DEF List, Types, SweepInv, InSweep, Accounted, list
  <2> QED
    BY <2>1, <2>2, <2>3
<1>3. ASSUME NEW r \in todo, Look(r)
      PROVE  KInv'
  <2>1. Types'
    BY <1>3 DEF Look, Types, list, storeVars, removeVars
  <2>2. LeaseInv'
    BY <1>3 DEF Look, Types, LeaseInv, LeaseLapses, Lapsing, list, storeVars, removeVars, history
  <2>3. ASSUME NEW p \in Prefixes, rows[p] # NoRow
        PROVE  Accounted(p)'
    <3>1. now - rows[p] < Window \/ [prefix |-> p, at |-> rows[p]] \in todo
      BY <1>3, <2>3 DEF Look, SweepInv, InSweep, Accounted
    <3>2. CASE r # [prefix |-> p, at |-> rows[p]]
      BY <1>3, <3>1, <3>2 DEF Look, Accounted, list
    <3>3. CASE r = [prefix |-> p, at |-> rows[p]]
      BY <1>3, <3>3 DEF Look, Accounted, Expired, Types, list
    <3> QED
      BY <3>2, <3>3
  <2>4. SweepInv'
    BY <1>3, <2>3 DEF Look, SweepInv, Expired, list
  <2> QED
    BY <2>1, <2>2, <2>4
<1>4. CASE Check
  <2>1. Types'
    BY <1>4 DEF Check, Types, list, storeVars, removeVars
  <2>2. LeaseInv'
    BY <1>4 DEF Check, StillListed, Types, LeaseInv, LeaseLapses, Lapsing, list, storeVars, removeVars, history
  <2>3. SweepInv'
    BY <1>4 DEF Check, Types, SweepInv, InSweep, Accounted, list
  <2> QED
    BY <2>1, <2>2, <2>3
<1>5. CASE Renew
  <2>1. Types'
    BY <1>5 DEF Renew, Renewed, Types, list, removeVars
  <2>2. LeaseInv'
    BY <1>5 DEF Renew, Renewed, Types, LeaseInv, LeaseLapses, Lapsing, list, removeVars
  <2>3. SweepInv'
    BY <1>5 DEF Renew, Types, SweepInv, InSweep, Accounted, list
  <2> QED
    BY <2>1, <2>2, <2>3
<1>6. CASE RenewFails
  <2>1. Types'
    BY <1>6 DEF RenewFails, Types, list, storeVars, removeVars
  <2>2. LeaseInv'
    BY <1>6 DEF RenewFails, AfterQueryError, Types, LeaseInv, LeaseLapses, Lapsing, list, storeVars, removeVars, history
  <2>3. SweepInv'
    BY <1>6 DEF RenewFails, AfterQueryError, SweepInv, InSweep, Accounted, list
  <2> QED
    BY <2>1, <2>2, <2>3
<1>7. CASE Drop
  <2>1. Types'
    BY <1>7 DEF Drop, Unregister, NoRow, Types, storeVars, removeVars
  <2>2. LeaseInv'
    BY <1>7 DEF Drop, Unregister, Types, LeaseInv, LeaseLapses, Lapsing, storeVars, removeVars
  <2>3. SweepInv'
    BY <1>7 DEF Drop, Unregister, Types, SweepInv, InSweep, Accounted
  <2> QED
    BY <2>1, <2>2, <2>3
<1> QED
  BY <1>1, <1>2, <1>3, <1>4, <1>5, <1>6, <1>7 DEF Sweep

(* The invariant is inductive. *)
LEMMA NextKInv == KInv /\ [Next]_vars => KInv'
<1> SUFFICES ASSUME KInv, [Next]_vars PROVE KInv'
  OBVIOUS
<1>1. CASE UNCHANGED vars
  <2>1. Types'
    BY <1>1 DEF KInv, vars, Types, list, storeVars, sweepVars, removeVars
  <2>2. LeaseInv'
    BY <1>1 DEF KInv, vars, LeaseInv, LeaseLapses, Lapsing, list, storeVars, sweepVars, removeVars, history
  <2>3. SweepInv'
    BY <1>1 DEF KInv, vars, SweepInv, InSweep, Accounted, Expired, list, sweepVars, history
  <2> QED
    BY <2>1, <2>2, <2>3 DEF KInv
<1> QED
  BY <1>1, StoreStep, ListStep, EndStep, SweepStep DEF Next

(* The list, the leases and the sweep stay in order. *)
LEMMA AlwaysKInv == Spec => []KInv
BY InitKInv, NextKInv, PTL DEF Spec

(* A removal that waited out a lease is refused only if somebody else has   *)
(* used the prefix, or a renewal was under way when it began: the second    *)
(* look at the list, just before the renewal, is enough, for any number of  *)
(* prefixes in the sweep.                                                   *)
THEOREM LeasesLapse == Spec => []LeaseLapses
<1>1. KInv => LeaseLapses
  BY DEF KInv, LeaseInv
<1> QED
  BY <1>1, AlwaysKInv, PTL

(* No row outlives the first sweep that starts after its window, however    *)
(* often it is registered again.                                            *)
THEOREM WindowsHold == Spec => []WindowHolds
<1>1. KInv => WindowHolds
  BY DEF KInv, Types, SweepInv, InSweep, Accounted, WindowHolds
<1> QED
  BY <1>1, AlwaysKInv, PTL

(* The sweep drops a row before its time only for an absent prefix: a       *)
(* failed query never counts as an absence.                                 *)
THEOREM DropsAreDue == Spec => OnlyAbsentDropped
<1> DEFINE Due ==
      \A p \in Prefixes :
        rows[p] # NoRow /\ rows'[p] = NoRow /\ loop = "drop" /\ loop' = "next" =>
          clock - rows[p] >= Window \/ p \in absent \/ cur.at # rows[p]
<1>1. KInv /\ [Next]_vars => [Due]_vars
  <2> SUFFICES ASSUME KInv, NEW p \in Prefixes,
                      rows[p] # NoRow, rows'[p] = NoRow, loop = "drop", loop' = "next",
                      Next
               PROVE  clock - rows[p] >= Window \/ p \in absent \/ cur.at # rows[p]
    OBVIOUS
  <2>1. Drop
    BY DEF Next, Sweep, Tick, Start, SweepBegins, List, SweepEnds, Look, Check, Renew, RenewFails,
       SweepFails, AfterSweepFails, Stop, Crash, Evict, Touch, Ready, RegisterWrite, LateCall,
       Remove, RemoveKeys, ForceRemove, RemoveRaises, sweepVars
  <2>2. p = cur.prefix
    BY <2>1 DEF Drop, Unregister, KInv, Types
  <2>3. Expired(cur) \/ p \in absent
    BY <2>2 DEF KInv, SweepInv
  <2> QED
    BY <2>3, TimesAssumption DEF Expired, KInv, Types, SweepInv
<1> QED
  BY <1>1, AlwaysKInv, PTL DEF Spec, OnlyAbsentDropped
=============================================================================
