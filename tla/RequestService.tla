--------------------------- MODULE RequestService ---------------------------
(***************************************************************************)
(* What WorkerEngine.submit promises to its callers, whatever scheduling,  *)
(* batching and shutdown go on behind it: a call is refused, or it is      *)
(* taken and then answered at most once; a finished answer has all the     *)
(* tokens that were asked for; two calls with one request id are never     *)
(* served at the same time; nothing is taken after the service has closed. *)
(***************************************************************************)
EXTENDS Naturals

CONSTANTS Items, IdOf, MaxNew

VARIABLES
  status,   \* per call: new, refused, queued, serving, done or failed
  answer,   \* per call: the tokens it was given
  gate      \* shut before the start, open, closed for good

service == <<status, answer, gate>>

ServiceInit ==
  /\ status = [i \in Items |-> "new"]
  /\ answer = [i \in Items |-> 0]
  /\ gate = "shut"

Become(S, what) == status' = [i \in Items |-> IF i \in S THEN what ELSE status[i]]

Open == gate = "shut" /\ gate' = "open" /\ UNCHANGED <<status, answer>>

Close == gate # "closed" /\ gate' = "closed" /\ UNCHANGED <<status, answer>>

Take(i) ==
  /\ gate = "open" /\ status[i] = "new"
  /\ Become({i}, "queued")
  /\ UNCHANGED <<answer, gate>>

Refuse(i) ==
  /\ gate # "open" /\ status[i] = "new"
  /\ Become({i}, "refused")
  /\ UNCHANGED <<answer, gate>>

Serve(i) ==
  /\ status[i] = "queued"
  /\ \A j \in Items : status[j] = "serving" => IdOf[j] # IdOf[i]
  /\ Become({i}, "serving")
  /\ UNCHANGED <<answer, gate>>

Complete(S) ==
  /\ \A i \in S : status[i] = "serving"
  /\ Become(S, "done")
  /\ answer' = [i \in Items |-> IF i \in S THEN MaxNew[i] ELSE answer[i]]
  /\ UNCHANGED gate

Fail(S) ==
  /\ \A i \in S : status[i] \in {"queued", "serving"}
  /\ Become(S, "failed")
  /\ UNCHANGED <<answer, gate>>

ServiceNext ==
  \/ Open \/ Close
  \/ \E i \in Items : Take(i) \/ Refuse(i) \/ Serve(i)
  \/ \E S \in SUBSET Items : Complete(S) \/ Fail(S)

ServiceSpec == ServiceInit /\ [][ServiceNext]_service
=============================================================================
