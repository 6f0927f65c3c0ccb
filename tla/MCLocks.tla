------------------------------- MODULE MCLocks -------------------------------
(* Instances of Locks for TLC. *)
EXTENDS Locks, TLC

CONSTANTS d, e, f, n, m

(* d and e are directories of the root (e of d in the deep tree), f is in  *)
(* d, the negative names n and m are in d and in the root.                 *)
Tree == [x \in Name \ {Root} |-> IF x \in {f, n} THEN d ELSE Root]
Twins == [x \in Name \ {Root} |-> IF x = f THEN d ELSE IF x = n THEN e ELSE Root]
Deep == [x \in Name \ {Root} |-> IF x \in {f, n} THEN e ELSE IF x = e THEN d ELSE Root]

Symmetric == Permutations(User)
=============================================================================
