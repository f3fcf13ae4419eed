---------------------------- MODULE MCAuthority ----------------------------
(***************************************************************************)
(* The authority on two namespaces: a chain of two one-byte blocks in the  *)
(* first, and one block of two bytes in the second.                        *)
(***************************************************************************)
EXTENDS Authority, TLC

MCNsOf == <<1, 2, 1>>
MCPrev == <<0, 0, 1>>
MCBpb == <<1, 2>>
MCQuotas == {Unlimited, [soft |-> 1, hard |-> 2, borrow |-> TRUE]}
MCTightQuotas == {[soft |-> 1, hard |-> 1, borrow |-> FALSE]}

Symmetry == Permutations(Nodes)
=============================================================================
