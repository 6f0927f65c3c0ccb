----------------------------- MODULE MCUnionFS -----------------------------
(***************************************************************************)
(* Small instances of UnionFS: one directory name in the root and one name *)
(* inside it, three branches, and the permission vectors named below.      *)
(***************************************************************************)
EXTENDS UnionFS

CONSTANTS a, x, d1, d2

MCTop == {a}
MCSub == {x}
MCUp  == [k \in {x} |-> a]

Vec(p0, p1, p2) == [b \in 0 .. 2 |-> IF b = 0 THEN p0 ELSE IF b = 1 THEN p1 ELSE p2]

(* The usual mount, a middle writable branch, and two writable branches. *)
MCPerms == {Vec("rw", "ro+wh", "ro"), Vec("ro", "rw", "rr+wh"), Vec("rw", "rw", "ro")}

(* A writable branch that may not have hard-linked whiteouts. *)
MCNolwh == {Vec("rw+nolwh", "ro", "ro")}

(* Every kind of permission, for the run with two failures and two crashes. *)
MCAll == {Vec("rw+nolwh", "rr+wh", "ro"), Vec("ro+wh", "rw", "rr")}

(* A branch with whiteouts below one without. *)
MCGap == {Vec("rw", "ro", "ro+wh")}
=============================================================================
