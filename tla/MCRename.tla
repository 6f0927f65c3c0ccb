----------------------------- MODULE MCRename ------------------------------
(***************************************************************************)
(* Two directory names, one name inside each with the same last component. *)
(* A file starts with the contents that belong to its name, so that the    *)
(* property can tell which of two files a name shows after a rename.       *)
(***************************************************************************)
EXTENDS Rename

CONSTANTS a, b, ax, bx, x, da, db, dx

MCTop  == {a, b}
MCSub  == {ax, bx}
MCUp   == [k \in MCSub |-> IF k = ax THEN a ELSE b]
MCBase == [k \in MCSub |-> x]

Own(p) == IF p = a THEN da ELSE IF p = b THEN db ELSE dx

(* The initial states of RenameInit with such contents, built branch by       *)
(* branch: everything a well-formed branch of permission q can hold.  A        *)
(* whiteout or an opaque mark on the lowest branch hides nothing: there is     *)
(* none there at first, only what the renames leave.                           *)
Contents(q) ==
    {c \in [e : {f \in [Path -> {NoEnt, Dir, da, db, dx}] :
                     /\ \A p \in Path : f[p] \in {NoEnt, Dir, Own(p)}
                     /\ \A k \in Sub : f[k] # Dir /\ (f[k] # NoEnt => f[Up[k]] = Dir)},
            w : SUBSET Path, o : SUBSET Top] :
        /\ q \notin {"rw", "ro+wh", "rr+wh"} => c.w = {} /\ c.o = {}
        /\ \A p \in c.w : c.e[p] = NoEnt
        /\ \A k \in Sub \cap c.w : c.e[Up[k]] = Dir
        /\ \A p \in c.o : c.e[p] = Dir}

MCInit ==
    /\ perm \in PermChoices
    /\ \E c \in [Br -> UNION {Contents(perm[i]) : i \in Br}] :
           /\ \A i \in Br : c[i] \in Contents(perm[i])
           /\ c[NBranch - 1].w = {} /\ c[NBranch - 1].o = {}
           /\ ent = [i \in Br |-> c[i].e]
           /\ wh = [i \in Br |-> c[i].w]
           /\ opq = [i \in Br |-> c[i].o]
    /\ crashes = 0
    /\ NoCall
MCSpec == MCInit /\ [][RenameNext]_vars

Vec2(p0, p1) == [c \in 0 .. 1 |-> IF c = 0 THEN p0 ELSE p1]
MCRwRo == {Vec2("rw", "ro")}
MCRwRw == {Vec2("rw", "ro"), Vec2("rw", "rw")}
=============================================================================
