--------------------------- MODULE MCBranchTable ---------------------------
(* Small instances of BranchTable; the roots are interchangeable. *)
EXTENDS BranchTable, TLC

CONSTANTS r1, r2, r3

Sym == Permutations(Root)
=============================================================================
