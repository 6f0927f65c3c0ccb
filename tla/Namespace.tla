----------------------------- MODULE Namespace -----------------------------
(***************************************************************************)
(* What aufs promises to the processes that use the union: one tree in     *)
(* which a system call either happens completely or, when it returns an    *)
(* error, not at all (README: "revert a single systemcall when an error    *)
(* occurs in aufs").  A crash in the middle of a call leaves the tree as   *)
(* it was or as the call would have made it; a write that had to copy the  *)
(* file up may also leave the file half copied.                            *)
(*                                                                         *)
(* Nothing is said here of branches, whiteouts or opaque marks.            *)
(***************************************************************************)
CONSTANTS Top, Sub, Up, Data, Partial, NoEnt, Dir

Path == Top \cup Sub

VARIABLES
    tree,   \* what a lookup of each name returns
    call,   \* the system call in progress: its kind, name and new contents
    result  \* how the last call ended, "run" while one is in progress

avars == <<tree, call, result>>

NoCall == [kind |-> "none", p |-> NoEnt, d |-> NoEnt]

Kids(p)   == {k \in Sub : Up[k] = p}
IsDir(p)  == tree[p] = Dir
HasDir(p) == p \in Sub => IsDir(Up[p])

(* When a call is allowed, and what it does to the tree. *)
Allowed(c) ==
    CASE c.kind = "create" -> tree[c.p] = NoEnt /\ HasDir(c.p)
      [] c.kind = "mkdir"  -> tree[c.p] = NoEnt
      [] c.kind = "unlink" -> tree[c.p] \notin {NoEnt, Dir}
      [] c.kind = "rmdir"  -> IsDir(c.p) /\ \A k \in Kids(c.p) : tree[k] = NoEnt
      [] c.kind = "write"  -> tree[c.p] \notin {NoEnt, Dir}

Effect(c) == [tree EXCEPT ![c.p] = c.d]

Calls == [kind : {"create", "write"}, p : Path, d : Data]
         \cup [kind : {"mkdir"}, p : Top, d : {Dir}]
         \cup [kind : {"unlink"}, p : Path, d : {NoEnt}]
         \cup [kind : {"rmdir"}, p : Top, d : {NoEnt}]

AInit == /\ tree \in [Path -> Data \cup {NoEnt, Dir}]
         /\ call = NoCall
         /\ result = "ok"

Begin == /\ call = NoCall
         /\ call' \in Calls
         /\ Allowed(call')
         /\ result' = "run"
         /\ UNCHANGED tree

Commit == /\ call # NoCall
          /\ tree' = Effect(call)
          /\ call' = NoCall
          /\ result' = "ok"

Abort == /\ call # NoCall
         /\ call' = NoCall
         /\ result' = "err"
         /\ UNCHANGED tree

Interrupt == /\ call # NoCall
             /\ tree' \in {tree, Effect(call)}
                          \cup (IF call.kind = "write"
                                THEN {[tree EXCEPT ![call.p] = Partial]} ELSE {})
             /\ call' = NoCall
             /\ result' = "crash"

ANext == Begin \/ Commit \/ Abort \/ Interrupt

ASpec == AInit /\ [][ANext]_avars
=============================================================================
