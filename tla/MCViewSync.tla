----------------------------- MODULE MCViewSync -----------------------------
(* Small instances of the view subscription for model checking. *)
EXTENDS ViewSync

CONSTANTS b1, b2, p1

MCBlocks == {b1, b2}
MCOnePlace == {p1}
OnlyRestore == {"restore"}

=============================================================================
