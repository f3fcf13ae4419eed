--------------------------- MODULE MCWorkerEngine ---------------------------
(* Instances of WorkerEngine: three calls, two of which carry the same      *)
(* request id, and the configurations that make a difference.               *)
EXTENDS WorkerEngine

CONSTANTS call1, call2, call3, idA, idB

MCItems == {call1, call2, call3}
MCIds == {idA, idB}
MCIdOf == call1 :> idA @@ call2 :> idB @@ call3 :> idA
MCPromptLen == call1 :> 2 @@ call2 :> 3 @@ call3 :> 2
MCMaxNew == call1 :> 2 @@ call2 :> 2 @@ call3 :> 1
MCHint == call1 :> 2 @@ call2 :> 3 @@ call3 :> 0

Role(overlap, budget, chunk, maxLen, maxRunning, partial, pull, warm) ==
  [overlap |-> overlap, budget |-> budget, chunk |-> chunk, maxLen |-> maxLen,
   maxRunning |-> maxRunning, partial |-> partial, pull |-> pull,
   warm |-> warm]

(* Overlapped in chunks with a pool that drops requests; not overlapped,    *)
(* with a length limit and one place; batches larger than the buffers; a    *)
(* pull budget that two pulls exceed; a warmup larger than the buffers.     *)
MCRoles == {Role(TRUE, 2, 1, 0, 2, TRUE, 1, 1), Role(FALSE, 2, 1, 4, 1, FALSE, 0, 1),
            Role(TRUE, 4, 0, 0, 2, FALSE, 0, 1), Role(TRUE, 2, 0, 0, 2, FALSE, 1, 1),
            Role(TRUE, 2, 0, 0, 2, FALSE, 0, 3)}
=============================================================================
