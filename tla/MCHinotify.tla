------------------------------ MODULE MCHinotify -----------------------------
(* Instances of Hinotify for TLC. *)
EXTENDS Hinotify, TLC

CONSTANT y

(* y is a file of the subdirectory, the others are in the root. *)
ParentOf == [n \in Name |-> IF n = y THEN Sub ELSE Root]

Symmetric == Permutations(Obj) \cup Permutations(Proc)
=============================================================================
