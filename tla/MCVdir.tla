------------------------------- MODULE MCVdir -------------------------------
(***************************************************************************)
(* Instances of Vdir for TLC: names of three lengths, blocks of two or     *)
(* three entries, one of which fills its block up to less than an end      *)
(* mark.  The open files are interchangeable.                              *)
(***************************************************************************)
EXTENDS Vdir, TLC
CONSTANTS a, b, f1, f2

MCSize == [n \in AllNames |-> CASE n = a -> 4 [] n = b -> 3 [] OTHER -> 2]

MCRank == [n \in AllNames |-> CASE n = a -> 0 [] n = b -> 1 [] OTHER -> 2]

Sym == Permutations(Files)
=============================================================================
