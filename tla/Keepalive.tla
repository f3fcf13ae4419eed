------------------------------ MODULE Keepalive ------------------------------
(***************************************************************************)
(* The keepalive list of the ledger, the loop that renews the leases of    *)
(* the prefixes on it (kvcm/kvcm/loops.py, KeepaliveLoop) and the removal  *)
(* that takes a prefix off the list, lets its lease lapse and deletes it   *)
(* (MooncakeBackend.remove).                                               *)
(*                                                                         *)
(* All three are coroutines that interleave at their awaits.  The ledger   *)
(* executes one call at a time; an existence check is a call in a thread   *)
(* of the RPC pool, goes on when nobody waits for it any more, and renews  *)
(* the lease in the store whenever it is executed.  The list survives a    *)
(* crash.                                                                  *)
(***************************************************************************)
EXTENDS Integers

CONSTANTS
  Prefixes,
  Window,    \* how long a prefix is kept, from its first registration
  LeaseTtl,  \* how long a lease lasts
  Horizon,   \* bound: the clock stops here; no window opens that ends later
  MaxFaults  \* bound: crashes and stops of the process

ASSUME TimesAssumption ==
  /\ Window \in Nat \ {0} /\ LeaseTtl \in Nat \ {0}
  /\ Horizon \in Nat /\ Horizon >= Window /\ MaxFaults \in Nat

NoRow == -1

VARIABLES
  clock,
  rows,     \* the keepalive table: registered_at of each prefix, or NoRow
  stored,   \* prefixes all of whose keys are in the store
  lease,    \* when the lease of each prefix ends
  writes,   \* prefixes with a registration the ledger has yet to do
  loop,     \* where KeepaliveLoop._run is
  now,      \* the time sweep_once started
  todo,     \* the records of the listing the sweep has yet to look at
  cur,      \* the record it looks at
  late,     \* prefixes with an existence check nobody waits for
  removal,  \* where MooncakeBackend.remove is, for each prefix
  until,    \* when it has waited a lease
  faults,
  opened,   \* history: when each prefix was put on the list
  renewed,  \* history: prefixes used, or their lease in other hands, since their removal began
  absent    \* history: prefixes the store did not have when this sweep asked

list == <<rows, opened>>
storeVars == <<stored, lease>>
sweepVars == <<loop, now, todo, cur>>
removeVars == <<removal, until>>
history == <<renewed, absent>>
vars == <<clock, list, storeVars, writes, sweepVars, late, removeVars, faults, history>>

Records == [prefix : Prefixes, at : 0 .. Horizon]

Init ==
  /\ clock = 0
  /\ rows = [p \in Prefixes |-> NoRow] /\ opened = rows
  /\ stored = {} /\ lease = [p \in Prefixes |-> 0]
  /\ writes = {}
  /\ loop = "off" /\ now = 0 /\ todo = {} /\ cur \in {[prefix |-> p, at |-> 0] : p \in Prefixes}
  /\ late = {}
  /\ removal = [p \in Prefixes |-> "no"] /\ until = [p \in Prefixes |-> 0]
  /\ faults = 0
  /\ renewed = {} /\ absent = {}

-----------------------------------------------------------------------------
(* Store and ledger *)

Tick ==
  /\ clock < Horizon
  /\ clock' = clock + 1
  /\ UNCHANGED <<list, storeVars, writes, sweepVars, late, removeVars, faults, history>>

(* The leases after a batch_is_exist of p: reading renews. *)
Renewed(p) == IF p \in stored THEN [lease EXCEPT ![p] = clock + LeaseTtl] ELSE lease

(* The store evicts what has no lease. *)
Evict(p) ==
  /\ p \in stored /\ lease[p] <= clock
  /\ stored' = stored \ {p} /\ lease' = [lease EXCEPT ![p] = 0]
  /\ UNCHANGED <<clock, list, writes, sweepVars, late, removeVars, faults, history>>

(* A flow asks whether p exists, for reasons of its own. *)
Touch(p) ==
  /\ p \in stored
  /\ lease' = Renewed(p)
  /\ renewed' = renewed \cup {p}
  /\ UNCHANGED <<clock, list, stored, writes, sweepVars, late, removeVars, faults, absent>>

(* A prefetch of p is READY; the engine calls register or register_await. *)
Ready(p) ==
  /\ loop # "off" /\ clock + Window <= Horizon /\ p \notin writes
  /\ stored' = stored \cup {p}
  /\ writes' = writes \cup {p}
  /\ renewed' = renewed \cup {p}
  /\ UNCHANGED <<clock, list, lease, sweepVars, late, removeVars, faults, absent>>

Registered_Anew(p) == clock

(* register_keepalive leaves the window of an existing row alone. *)
Registered(p) == IF rows[p] = NoRow THEN clock ELSE rows[p]

(* The ledger's thread writes the row, or the write fails, which is only    *)
(* counted (_note_failure).                                                 *)
RegisterWrite(p) ==
  /\ p \in writes /\ clock + Window <= Horizon
  /\ writes' = writes \ {p}
  /\ \/ /\ rows' = [rows EXCEPT ![p] = Registered(p)]
        /\ opened' = IF rows[p] = NoRow THEN [opened EXCEPT ![p] = clock] ELSE opened
     \/ UNCHANGED list
  /\ UNCHANGED <<clock, storeVars, sweepVars, late, removeVars, faults, history>>

Unregister(p) ==
  /\ rows' = [rows EXCEPT ![p] = NoRow]
  /\ opened' = [opened EXCEPT ![p] = NoRow]

-----------------------------------------------------------------------------
(* The loop *)

(* start, idempotent while the loop runs. *)
Start ==
  /\ loop = "off" /\ loop' = "sleep"
  /\ UNCHANGED <<clock, list, storeVars, writes, now, todo, cur, late, removeVars, faults, history>>

(* The interval is over: sweep_once takes the time before the listing. *)
SweepBegins ==
  /\ loop = "sleep"
  /\ loop' = "list" /\ now' = clock
  /\ UNCHANGED <<clock, list, storeVars, writes, todo, cur, late, removeVars, faults, history>>

List ==
  /\ loop = "list" /\ loop' = "next"
  /\ todo' = {[prefix |-> p, at |-> rows[p]] : p \in {q \in Prefixes : rows[q] # NoRow}}
  /\ UNCHANGED <<clock, list, storeVars, writes, now, cur, late, removeVars, faults, history>>

SweepEnds ==
  /\ loop = "next" /\ todo = {} /\ loop' = "sleep" /\ now' = 0
  /\ UNCHANGED <<clock, list, storeVars, writes, todo, cur, late, removeVars, faults, history>>

Expired_Never(r) == FALSE
Expired(r) == now - r.at >= Window

(* The next record: unregister it when its window is over. *)
Look(r) ==
  /\ loop = "next" /\ r \in todo
  /\ todo' = todo \ {r} /\ cur' = r
  /\ loop' = IF Expired(r) THEN "drop" ELSE "check"
  /\ UNCHANGED <<clock, list, storeVars, writes, now, late, removeVars, faults, history>>

StillListed_Assumed(p) == TRUE

(* has_keepalive. *)
StillListed(p) == rows[p] # NoRow

Check ==
  /\ loop = "check"
  /\ loop' = IF StillListed(cur.prefix) THEN "renew" ELSE "next"
  /\ UNCHANGED <<clock, list, storeVars, writes, now, todo, cur, late, removeVars, faults, history>>

(* renew_once answers. *)
Renew ==
  /\ loop = "renew"
  /\ lease' = Renewed(cur.prefix)
  /\ IF cur.prefix \in stored
       THEN loop' = "next" /\ UNCHANGED absent
       ELSE loop' = "drop" /\ absent' = absent \cup {cur.prefix}
  /\ UNCHANGED <<clock, list, stored, writes, now, todo, cur, late, removeVars, faults, renewed>>

AfterQueryError_Drops == "drop"

(* A prefix the store could not answer for is skipped. *)
AfterQueryError == "next"

(* renew_once fails: QueryError, and the call may still be under way. *)
RenewFails ==
  /\ loop = "renew"
  /\ loop' = AfterQueryError
  /\ late' \in {late, late \cup {cur.prefix}}
  /\ UNCHANGED <<clock, list, storeVars, writes, now, todo, cur, removeVars, faults, history>>

LateCall(p) ==
  /\ p \in late
  /\ late' = late \ {p}
  /\ lease' = Renewed(p)
  /\ UNCHANGED <<clock, list, stored, writes, sweepVars, removeVars, faults, history>>

(* unregister_keepalive of the record, expired or absent. *)
Drop ==
  /\ loop = "drop" /\ loop' = "next"
  /\ Unregister(cur.prefix)
  /\ absent' = absent \ {cur.prefix}
  /\ UNCHANGED <<clock, storeVars, writes, now, todo, cur, late, removeVars, faults, renewed>>

(* _run goes on after a sweep that failed. *)
AfterSweepFails == "sleep"

(* A ledger call of the sweep raises, or renew_once raises something that   *)
(* is not a QueryError.                                                     *)
SweepFails ==
  /\ loop \in {"list", "check", "renew", "drop"} /\ faults < MaxFaults
  /\ loop' = AfterSweepFails /\ todo' = {} /\ now' = 0 /\ absent' = {}
  /\ faults' = faults + 1
  /\ UNCHANGED <<clock, list, storeVars, writes, cur, late, removeVars, renewed>>

(* stop cancels the loop wherever it is; a renewal it waited for goes on in *)
(* its thread.                                                              *)
Stop ==
  /\ loop # "off" /\ faults < MaxFaults
  /\ loop' = "off" /\ todo' = {} /\ now' = 0 /\ absent' = {} /\ faults' = faults + 1
  /\ late' = IF loop = "renew" THEN late \cup {cur.prefix} ELSE late
  /\ UNCHANGED <<clock, list, storeVars, writes, cur, removeVars, renewed>>

(* The process dies: the list stays, everything else of it is gone. *)
Crash ==
  /\ loop # "off" /\ faults < MaxFaults
  /\ loop' = "off" /\ todo' = {} /\ now' = 0 /\ absent' = {} /\ faults' = faults + 1
  /\ writes' = {} /\ late' = {}
  /\ removal' = [p \in Prefixes |-> "no"] /\ until' = [p \in Prefixes |-> 0]
  /\ UNCHANGED <<clock, list, storeVars, cur, renewed>>

-----------------------------------------------------------------------------
(* remove(prefix) *)

(* A renewal of p is on its way when remove takes p off the list. *)
InOtherHands(p) == p \in late \/ (loop = "renew" /\ cur.prefix = p)

(* unregister_keepalive, whether or not the removal is forced; then the     *)
(* wait for a lease to lapse.                                               *)
Remove(p) ==
  /\ removal[p] = "no" /\ loop # "off"
  /\ Unregister(p)
  /\ removal' = [removal EXCEPT ![p] = "wait"]
  /\ until' = [until EXCEPT ![p] = clock + LeaseTtl]
  /\ renewed' = IF InOtherHands(p) \/ p \in writes THEN renewed \cup {p} ELSE renewed \ {p}
  /\ UNCHANGED <<clock, storeVars, writes, sweepVars, late, faults, absent>>

Waited(p) == clock >= until[p]

(* batch_remove without force: the store refuses a key with a lease. *)
RemoveKeys(p) ==
  /\ removal[p] = "wait" /\ Waited(p)
  /\ IF p \in stored /\ lease[p] > clock
       THEN removal' = [removal EXCEPT ![p] = "refused"] /\ UNCHANGED stored
       ELSE removal' = [removal EXCEPT ![p] = "no"] /\ stored' = stored \ {p}
  /\ until' = [until EXCEPT ![p] = 0]
  /\ UNCHANGED <<clock, list, lease, writes, sweepVars, late, faults, history>>

(* batch_remove with force does not wait. *)
ForceRemove(p) ==
  /\ removal[p] = "wait"
  /\ removal' = [removal EXCEPT ![p] = "no"]
  /\ until' = [until EXCEPT ![p] = 0]
  /\ stored' = stored \ {p} /\ lease' = [lease EXCEPT ![p] = 0]
  /\ UNCHANGED <<clock, list, writes, sweepVars, late, faults, history>>

(* The caller learns of the refusal and may try again. *)
RemoveRaises(p) ==
  /\ removal[p] = "refused"
  /\ removal' = [removal EXCEPT ![p] = "no"]
  /\ UNCHANGED <<clock, list, storeVars, writes, sweepVars, late, until, faults, history>>

-----------------------------------------------------------------------------
Sweep ==
  \/ SweepBegins \/ List \/ SweepEnds \/ Check \/ Renew \/ RenewFails \/ Drop
  \/ \E r \in todo : Look(r)

Next ==
  \/ Tick \/ Start \/ Sweep \/ SweepFails \/ Stop \/ Crash
  \/ \E p \in Prefixes :
       \/ Evict(p) \/ Touch(p) \/ Ready(p) \/ RegisterWrite(p) \/ LateCall(p)
       \/ Remove(p) \/ RemoveKeys(p) \/ ForceRemove(p) \/ RemoveRaises(p)

Spec == Init /\ [][Next]_vars

(* Time passes, the process is started again, and the loop keeps sweeping:  *)
(* its awaits are ledger calls and calls with a bounded wait.               *)
FairSpec == Spec /\ WF_vars(Tick) /\ WF_vars(Start) /\ WF_vars(Sweep)

-----------------------------------------------------------------------------
(* Properties *)

(* Every variable has its type. *)
TypeOK ==
  /\ clock \in 0 .. Horizon /\ now \in 0 .. Horizon
  /\ rows \in [Prefixes -> {NoRow} \cup 0 .. Horizon]
  /\ stored \subseteq Prefixes /\ writes \subseteq Prefixes /\ late \subseteq Prefixes
  /\ lease \in [Prefixes -> 0 .. Horizon + LeaseTtl]
  /\ until \in [Prefixes -> 0 .. Horizon + LeaseTtl]
  /\ loop \in {"off", "sleep", "list", "next", "check", "renew", "drop"}
  /\ todo \subseteq Records /\ cur \in Records
  /\ removal \in [Prefixes -> {"no", "wait", "refused"}]
  /\ faults \in 0 .. MaxFaults
  /\ renewed \subseteq Prefixes /\ absent \subseteq Prefixes

(* A removal that has waited out a lease is not refused, unless a renewal   *)
(* was already under way when it took the prefix off the list, or someone   *)
(* has used or prefetched the prefix since: the sweep does not renew from a *)
(* listing that is out of date (sweep_once, has_keepalive; remove).         *)
LeaseLapses ==
  \A p \in Prefixes : removal[p] = "refused" => p \in renewed

(* The sweep takes a row off the list before its window is over only if the *)
(* store did not have the prefix when it asked; an answer it could not get  *)
(* is not a "no" (renew_once, exists).  The exception is a row put on the   *)
(* list anew since the listing: the sweep deletes by prefix, not by row.    *)
OnlyAbsentDropped ==
  [][\A p \in Prefixes :
       rows[p] # NoRow /\ rows'[p] = NoRow /\ loop = "drop" /\ loop' = "next" =>
         clock - rows[p] >= Window \/ p \in absent \/ cur.at # rows[p]]_vars

(* Re-registering a prefix does not stretch its window: it is off the list  *)
(* by the end of the first sweep that starts after its window.              *)
WindowHolds ==
  \A p \in Prefixes :
    loop = "next" /\ todo = {} /\ rows[p] # NoRow => now - opened[p] < Window

(* Every prefix leaves the list in the end, whatever fails, also through    *)
(* restarts (sweep_once; stop leaves the rows to the next process).         *)
EveryRowEnds ==
  \A p \in Prefixes : (rows[p] # NoRow) ~> (rows[p] = NoRow)
=============================================================================
