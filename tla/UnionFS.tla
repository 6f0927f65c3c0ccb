------------------------------ MODULE UnionFS ------------------------------
(***************************************************************************)
(* The union namespace of aufs: how one system call on the union becomes a *)
(* sequence of calls on the branch ("hidden") filesystems, each of which   *)
(* may fail and between any two of which the machine may crash.            *)
(*                                                                         *)
(* State kept on the branches: the entries, the whiteouts (.wh.<name>) and *)
(* the opaque marks of directories.  State kept in memory: the system call *)
(* in progress.  VFS holds the i_mutex of the parent directory and aufs    *)
(* the dinfo of the entry and of its parent for the whole call, so at most *)
(* one call at a time works on a name; the model keeps one in flight.      *)
(*                                                                         *)
(* Every call starts from a fresh lookup: the dentry cache is the subject  *)
(* of other modules.  The tree is two levels deep: Top names live in the   *)
(* root, Sub names in the directory Up[name].                              *)
(***************************************************************************)
EXTENDS Integers, FiniteSets, FiniteSetsExt

CONSTANTS
    NBranch,        \* number of branches, index 0 is the uppermost
    PermChoices,    \* the permission vectors the run explores
    Top,            \* names of the root directory
    Sub,            \* names inside the directories of Top
    Up,             \* [Sub -> Top], the directory of a Sub name
    Data,           \* contents a regular file can be given
    Partial,        \* contents of a file whose copy-up stopped half-way
    NoEnt, Dir,     \* "no entry" and "a directory"
    AlwaysDiropq,   \* mount option diropq=always
    DirOverGap,     \* may the initial branches bury a directory (see Init)
    MaxFail,        \* bound: failing hidden calls in one system call
    MaxCrash        \* bound: crashes in one behaviour

Br      == 0 .. NBranch - 1
Path    == Top \cup Sub
File    == Data \cup {Partial}
Entry   == File \cup {NoEnt, Dir}
BrPerm  == {"rw", "rw+nolwh", "ro", "ro+wh", "rr", "rr+wh"}

ASSUME BranchAssumption == NBranch \in Nat \ {0}
ASSUME PermAssumption   == PermChoices \subseteq [Br -> BrPerm]
ASSUME TreeAssumption   == Top \cap Sub = {} /\ Up \in [Sub -> Top] /\ Top # {}
ASSUME EntryAssumption  == NoEnt # Dir /\ NoEnt \notin File /\ Dir \notin File
ASSUME BoundAssumption  == /\ MaxFail \in Nat /\ MaxCrash \in Nat
                           /\ AlwaysDiropq \in BOOLEAN /\ DirOverGap \in BOOLEAN

VARIABLES
    perm,   \* br_perm of each branch
    ent,    \* ent[b][p]: what branch b holds under the name p
    wh,     \* wh[b]: the names whose whiteout exists on branch b
    opq,    \* opq[b]: the directories with an opaque mark on branch b
    op,     \* the system call in progress, or the last one when idle
    crashes \* number of crashes so far

hidden == <<ent, wh, opq>>
vars   == <<perm, ent, wh, opq, op, crashes>>

-----------------------------------------------------------------------------
(* Branch permissions. *)

Writable(b) == perm[b] \in {"rw", "rw+nolwh"}
Whable(b)   == perm[b] \in {"rw", "ro+wh", "rr+wh"}

Kids(p)   == {k \in Sub : Up[k] = p}

-----------------------------------------------------------------------------
(* Lookup.  C is the set of branches on which the parent directory has a   *)
(* hidden dentry; the loop visits them from the uppermost down.            *)

HasWh(b, p) == Whable(b) /\ p \in wh[b]
IsOpq(b, p) == Whable(b) /\ p \in opq[b]

(* The branches of C that hold p above the first whiteout of p. *)
Pos(C, p) == {b \in C : /\ ent[b][p] # NoEnt
                        /\ \A c \in C : c <= b => ~HasWh(c, p)}

(* The positive hidden dentries after the lookup: a non-directory ends the *)
(* scan; a directory merges the lower directories down to an opaque one,   *)
(* stepping over entries of another type.                                  *)
HDentries(C, p) ==
    LET P == Pos(C, p)
    IN  IF P = {} THEN {}
        ELSE IF ent[Min(P)][p] # Dir THEN {Min(P)}
        ELSE {b \in P : /\ ent[b][p] = Dir
                        /\ \A c \in P : c < b /\ ent[c][p] = Dir => ~IsOpq(c, p)}

IsDirH(H, p) == H # {} /\ ent[Min(H)][p] = Dir

ParentBr(p) ==
    IF p \in Top THEN Br
    ELSE LET H == HDentries(Br, Up[p]) IN IF IsDirH(H, Up[p]) THEN H ELSE {}

(* What a process sees under the name p. *)
View == [p \in Path |->
            LET H == HDentries(ParentBr(p), p)
            IN  IF H = {} THEN NoEnt ELSE ent[Min(H)][p]]

(* dbwh after the lookup of a directory: the whiteout that ended the scan. *)
ReachedWh(C, p) ==
    {k \in C : /\ HasWh(k, p)
               /\ \A c \in C : c < k => ~HasWh(c, p)
               /\ \A c \in HDentries(C, p) : c < k => ~IsOpq(c, p)}

(* dbstart of a negative dentry: only the first branch may keep a negative *)
(* hidden dentry; an inode hidden by its own whiteout leaves none at all.  *)
NegStart(C, p) == IF ent[Min(C)][p] = NoEnt THEN Min(C) ELSE -1

-----------------------------------------------------------------------------
(* Where a write goes: at most one branch, none means EROFS. *)

RwAtOrAbove(S, bs) == {b \in S : b <= bs /\ Writable(b)}

WrBranchAny(C, bs) == {bs} \* mutant: test_ro is left out

WrBranch(C, bs) ==
    IF Writable(bs) THEN {bs}
    ELSE IF RwAtOrAbove(C, bs) # {} THEN {Min(RwAtOrAbove(C, bs))}
    ELSE IF RwAtOrAbove(Br, bs) # {} THEN {Max(RwAtOrAbove(Br, bs))}
    ELSE {}

(* Mutant: the second lookup stops one branch below. *)
NeedWhNext(C, p, bs) == Pos({c \in C : c = bs + 1}, p) # {}

(* Is a whiteout necessary to remove p, which starts at bs, from branch bs? *)
(* A second lookup below bs.  A directory's dbwh from the first lookup is   *)
(* still set, and ends this one at the first branch it has to look at.      *)
NeedWhBelow(C, p, bs) ==
    LET Below == {c \in C : c > bs}
    IN  IF ent[bs][p] = Dir /\ ReachedWh(C, p) # {}
        THEN Below # {} /\ Min(Below) \in HDentries(C, p)
        ELSE Pos(Below, p) # {}

(* rmdir(2): every name found in the merged directories has a whiteout in   *)
(* a higher one (or, depending on the order of readdir, in the same one).   *)
TestEmpty(H, p, same) ==
    \A b \in H, k \in Kids(p) :
        ent[b][k] # NoEnt =>
            \E c \in H : (c < b \/ (same /\ c = b)) /\ k \in wh[c]

-----------------------------------------------------------------------------
(* The system call in progress. *)

Kinds == {"none", "create", "mkdir", "unlink", "rmdir", "write"}
Steps == {"idle", "cpdir", "diriattr", "undir", "negative", "make", "mkopq", "rmwh", "inode",
          "rewh", "rmopq", "unmake", "mkwh", "del", "unwh", "cpfile", "copy",
          "iattr", "store", "oops"}
Rets  == {"run", "ok", "err", "eio", "crash"}

TypeOK ==
    /\ perm \in [Br -> BrPerm]
    /\ ent \in [Br -> [Path -> Entry]]
    /\ wh \in [Br -> SUBSET Path]
    /\ opq \in [Br -> SUBSET Top]
    /\ op \in [pc : Steps, kind : Kinds, p : Path, d : Entry, bs : Br, b : Br,
               w : BOOLEAN, nf : 0 .. MaxFail, ret : Rets, before : [Path -> Entry]]
    /\ crashes \in 0 .. MaxCrash

(* A hidden filesystem keeps entries and whiteouts inside directories. *)
WellFormed(e, w, o) ==
    \A b \in Br :
        /\ \A k \in Sub : (e[b][k] # NoEnt \/ k \in w[b]) => e[b][Up[k]] = Dir
        /\ \A p \in o[b] : e[b][p] = Dir

(* A directory p with a branch below it that holds something else or        *)
(* nothing, then something that lookup can reach, then a whiteout of p.     *)
BuriedDir(p) ==
    /\ IsDirH(HDentries(Br, p), p)
    /\ ReachedWh(Br, p) # {}
    /\ LET f == Min(HDentries(Br, p))
       IN  /\ Pos({c \in Br : c > f}, p) # {}
           /\ f + 1 \notin HDentries(Br, p)

(* Every content of the branches that well-formed filesystems can have.    *)
BranchInit ==
    /\ perm \in PermChoices
    /\ ent \in {e \in [Br -> [Path -> Data \cup {NoEnt, Dir}]] :
                    \A b \in Br, k \in Sub : e[b][k] # Dir}
    /\ wh \in [Br -> SUBSET Path]
    /\ opq \in [Br -> SUBSET Top]
    /\ WellFormed(ent, wh, opq)
    /\ \A b \in Br : \* aufs.5: a plain ro branch has no whiteouts
           /\ ~Whable(b) => wh[b] = {} /\ opq[b] = {}
           /\ \A p \in wh[b] : ent[b][p] = NoEnt
    /\ ~DirOverGap => \A p \in Top : ~BuriedDir(p)
    /\ crashes = 0

Init ==
    /\ BranchInit
    /\ op = [pc |-> "idle", kind |-> "none", p |-> CHOOSE p \in Top : TRUE,
             d |-> NoEnt, bs |-> 0, b |-> 0, w |-> FALSE, nf |-> 0,
             ret |-> "ok", before |-> View]

-----------------------------------------------------------------------------
(* Building blocks of the steps. *)

Goto(pc) == op' = [op EXCEPT !.pc = pc]

(* A hidden call fails: go to pc with the error noted. *)
FailTo(pc) == /\ op.nf < MaxFail
              /\ op' = [op EXCEPT !.pc = pc, !.nf = @ + 1, !.ret = "err"]
              /\ UNCHANGED <<perm, hidden, crashes>>

(* An undo call fails too: -EIO, "reverting ... failed". *)
UndoFailTo(pc) == /\ op.nf < MaxFail
                  /\ op' = [op EXCEPT !.pc = pc, !.nf = @ + 1, !.ret = "eio"]
                  /\ UNCHANGED <<perm, hidden, crashes>>

Return == op' = [op EXCEPT !.pc = "idle", !.ret = IF @ = "run" THEN "ok" ELSE @]

PutEnt(b, p, v) == ent' = [ent EXCEPT ![b][p] = v]
AddWh(b, p)     == wh' = [wh EXCEPT ![b] = @ \cup {p}]
DelWh(b, p)     == wh' = [wh EXCEPT ![b] = @ \ {p}]

Start(kind, p, d, bs, b, w, pc) ==
    /\ op' = [pc |-> pc, kind |-> kind, p |-> p, d |-> d, bs |-> bs, b |-> b,
              w |-> w, nf |-> 0, ret |-> "run", before |-> View]
    /\ UNCHANGED <<perm, hidden, crashes>>

(* Mutant: a directory above the chosen branch is taken for the parent on it. *)
NoParentAtOrAbove(b, p) == p \in Sub /\ \A c \in ParentBr(p) : c > b

(* Does the branch lack the parent directory of p? *)
NoParent(b, p) == p \in Sub /\ b \notin ParentBr(p)

-----------------------------------------------------------------------------
(* creat(2), mknod(2), symlink(2) and mkdir(2): add_simple, aufs_mkdir. *)

BeginAdd(kind, p, d) ==
    LET C  == ParentBr(p)
        bs == NegStart(C, p)
    IN  /\ op.pc = "idle"
        /\ C # {} /\ View[p] = NoEnt
        /\ \/ /\ bs = -1 \* test_ro(sb, -1): stobr()'s DEBUG_ON
              /\ Start(kind, p, d, Min(C), Min(C), FALSE, "oops")
           \/ /\ bs # -1
              /\ \E b \in WrBranch(C, bs) :
                     Start(kind, p, d, bs, b, b \in C /\ HasWh(b, p),
                           IF b = bs THEN "make"
                           ELSE IF NoParent(b, p) THEN "cpdir" ELSE "negative")

(* Mutant: cpup_entry takes the case of a regular file. *)
CpDirAsFile ==
    /\ op.pc = "cpdir"
    /\ ent[op.b][Up[op.p]] = NoEnt
    /\ PutEnt(op.b, Up[op.p], Partial)
    /\ Goto("diriattr")
    /\ UNCHANGED <<perm, wh, opq, crashes>>

(* cpup_dirs: make the parent directory on the branch to be written, then   *)
(* copy its attributes; when that fails the new directory is removed again. *)
CpDir ==
    /\ op.pc = "cpdir"
    /\ \/ /\ ent[op.b][Up[op.p]] = NoEnt
          /\ PutEnt(op.b, Up[op.p], Dir)
          /\ Goto("diriattr")
          /\ UNCHANGED <<perm, wh, opq, crashes>>
       \/ /\ ent[op.b][Up[op.p]] # NoEnt \* lkup_neg: "should be negative"
          /\ op' = [op EXCEPT !.pc = "idle", !.ret = "err"]
          /\ UNCHANGED <<perm, hidden, crashes>>
       \/ FailTo("idle")

AfterCpDir == CASE op.kind \in {"create", "mkdir"} -> "negative"
                [] op.kind \in {"unlink", "rmdir"} -> "mkwh"
                [] OTHER                           -> "cpfile"

DirIattr ==
    /\ op.pc = "diriattr"
    /\ \/ Goto(AfterCpDir) /\ UNCHANGED <<perm, hidden, crashes>>
       \/ FailTo("undir")

UnDir ==
    /\ op.pc = "undir"
    /\ \/ /\ PutEnt(op.b, Up[op.p], NoEnt)
          /\ Return
          /\ UNCHANGED <<perm, wh, opq, crashes>>
       \/ UndoFailTo("idle")

(* lkup_neg on the branch to be written. *)
Negative ==
    /\ op.pc = "negative"
    /\ \/ ent[op.b][op.p] = NoEnt /\ Goto("make")
       \/ ent[op.b][op.p] # NoEnt /\ op' = [op EXCEPT !.pc = "idle", !.ret = "err"]
    /\ UNCHANGED <<perm, hidden, crashes>>

AfterMake == IF op.w THEN "rmwh" ELSE "inode"

(* Mutant: a file is made opaque like a directory. *)
MakeAlwaysOpq ==
    /\ op.pc = "make"
    /\ PutEnt(op.b, op.p, op.d)
    /\ Goto(IF op.w \/ AlwaysDiropq THEN "mkopq" ELSE AfterMake)
    /\ UNCHANGED <<perm, wh, opq, crashes>>

(* vfsub_create and its like, or vfsub_mkdir. *)
Make ==
    /\ op.pc = "make"
    /\ \/ /\ PutEnt(op.b, op.p, IF op.kind = "mkdir" THEN Dir ELSE op.d)
          /\ Goto(IF op.kind = "mkdir" /\ (op.w \/ AlwaysDiropq)
                  THEN "mkopq" ELSE AfterMake)
          /\ UNCHANGED <<perm, wh, opq, crashes>>
       \/ FailTo("idle")

MkOpq ==
    /\ op.pc = "mkopq"
    /\ \/ /\ opq' = [opq EXCEPT ![op.b] = @ \cup {op.p}]
          /\ Goto(AfterMake)
          /\ UNCHANGED <<perm, ent, wh, crashes>>
       \/ FailTo("unmake")

(* The first undo step once the entry has been made. *)
UndoMake == IF op.p \in opq[op.b] THEN "rmopq" ELSE "unmake"

RmWh ==
    /\ op.pc = "rmwh"
    /\ \/ /\ DelWh(op.b, op.p)
          /\ Goto("inode")
          /\ UNCHANGED <<perm, ent, opq, crashes>>
       \/ FailTo(UndoMake)

(* au_new_inode: the union gets its inode, nothing changes on the branches. *)
Inode ==
    /\ op.pc = "inode"
    /\ \/ Return /\ UNCHANGED <<perm, hidden, crashes>>
       \/ FailTo(IF op.w THEN "rewh" ELSE UndoMake)

ReWh ==
    /\ op.pc = "rewh"
    /\ \/ /\ AddWh(op.b, op.p)
          /\ Goto(UndoMake)
          /\ UNCHANGED <<perm, ent, opq, crashes>>
       \/ UndoFailTo(UndoMake)

RmOpq ==
    /\ op.pc = "rmopq"
    /\ \/ /\ opq' = [opq EXCEPT ![op.b] = @ \ {op.p}]
          /\ Goto("unmake")
          /\ UNCHANGED <<perm, ent, wh, crashes>>
       \/ UndoFailTo("unmake")

(* vfsub_unlink / vfsub_rmdir of what was made; a directory that still has *)
(* its opaque mark is not empty.                                           *)
UnMake ==
    /\ op.pc = "unmake"
    /\ \/ /\ op.p \notin opq[op.b]
          /\ PutEnt(op.b, op.p, NoEnt)
          /\ Return
          /\ UNCHANGED <<perm, wh, opq, crashes>>
       \/ /\ op.p \in opq[op.b]
          /\ op' = [op EXCEPT !.pc = "idle", !.ret = "eio"]
          /\ UNCHANGED <<perm, hidden, crashes>>
       \/ UndoFailTo("idle")

-----------------------------------------------------------------------------
(* unlink(2) and rmdir(2): aufs_unlink, aufs_rmdir. *)

BeginRemove(kind, p) ==
    LET C  == ParentBr(p)
        H  == HDentries(C, p)
        bs == Min(H)
    IN  /\ op.pc = "idle"
        /\ H # {}
        /\ IF kind = "rmdir"
           THEN ent[bs][p] = Dir /\ \E same \in BOOLEAN : TestEmpty(H, p, same)
           ELSE ent[bs][p] # Dir
        /\ \E b \in WrBranch(C, bs) :
               LET w == b # bs \/ NeedWhBelow(C, p, bs)
               IN  Start(kind, p, NoEnt, bs, b, w,
                         IF b # bs /\ NoParent(b, p) THEN "cpdir"
                         ELSE IF w THEN "mkwh" ELSE "del")

(* simple_create_wh; the call is over when the entry is on another branch. *)
MkWh ==
    /\ op.pc = "mkwh"
    /\ \/ /\ AddWh(op.b, op.p)
          /\ IF op.b = op.bs THEN Goto("del") ELSE Return
          /\ UNCHANGED <<perm, ent, opq, crashes>>
       \/ FailTo("idle")

(* vfsub_unlink, or rename_whtmp: the directory and the whiteouts in it    *)
(* leave the namespace under a doubly whiteouted temporary name.           *)
Del ==
    /\ op.pc = "del"
    /\ \/ /\ ent' = [ent EXCEPT ![op.b] =
                        [q \in Path |-> IF q = op.p \/ q \in Kids(op.p)
                                        THEN NoEnt ELSE @[q]]]
          /\ wh' = [wh EXCEPT ![op.b] = @ \ Kids(op.p)]
          /\ opq' = [opq EXCEPT ![op.b] = @ \ {op.p}]
          /\ Return
          /\ UNCHANGED <<perm, crashes>>
       \/ FailTo(IF op.w THEN "unwh" ELSE "idle")

(* do_revert. *)
UnWh ==
    /\ op.pc = "unwh"
    /\ \/ /\ DelWh(op.b, op.p)
          /\ Return
          /\ UNCHANGED <<perm, ent, opq, crashes>>
       \/ UndoFailTo("idle")

-----------------------------------------------------------------------------
(* write(2) to a regular file, with the copy-up of au_ready_to_write. *)

BeginWrite(p, d) ==
    LET C  == ParentBr(p)
        H  == HDentries(C, p)
        bs == Min(H)
    IN  /\ op.pc = "idle"
        /\ H # {} /\ ent[bs][p] \in File
        /\ \E b \in WrBranch(C, bs) :
               Start("write", p, d, bs, b, FALSE,
                     IF b = bs THEN "store"
                     ELSE IF NoParent(b, p) THEN "cpdir" ELSE "cpfile")

(* cpup_entry: the destination is created empty, then filled. *)
CpFile ==
    /\ op.pc = "cpfile"
    /\ \/ /\ ent[op.b][op.p] = NoEnt
          /\ PutEnt(op.b, op.p, Partial)
          /\ Goto("copy")
          /\ UNCHANGED <<perm, wh, opq, crashes>>
       \/ /\ ent[op.b][op.p] # NoEnt
          /\ op' = [op EXCEPT !.pc = "idle", !.ret = "err"]
          /\ UNCHANGED <<perm, hidden, crashes>>
       \/ FailTo("idle")

Copy ==
    /\ op.pc = "copy"
    /\ \/ /\ PutEnt(op.b, op.p, ent[op.bs][op.p])
          /\ Goto("iattr")
          /\ UNCHANGED <<perm, wh, opq, crashes>>
       \/ FailTo("unmake")

Iattr ==
    /\ op.pc = "iattr"
    /\ \/ Goto("store") /\ UNCHANGED <<perm, hidden, crashes>>
       \/ FailTo("unmake")

Store ==
    /\ op.pc = "store"
    /\ \/ /\ PutEnt(op.b, op.p, op.d)
          /\ Return
          /\ UNCHANGED <<perm, wh, opq, crashes>>
       \/ FailTo("idle")

-----------------------------------------------------------------------------
(* The machine stops in the middle of a call: what is on the branches stays. *)
Crash ==
    /\ op.pc # "idle" /\ crashes < MaxCrash
    /\ op' = [op EXCEPT !.pc = "idle", !.ret = "crash"]
    /\ crashes' = crashes + 1
    /\ UNCHANGED <<perm, hidden>>

Next ==
    \/ \E p \in Path, d \in Data : BeginAdd("create", p, d)
    \/ \E p \in Top : BeginAdd("mkdir", p, Dir)
    \/ \E p \in Path : BeginRemove("unlink", p)
    \/ \E p \in Top : BeginRemove("rmdir", p)
    \/ \E p \in Path, d \in Data : BeginWrite(p, d)
    \/ CpDir \/ DirIattr \/ UnDir
    \/ Negative \/ Make \/ MkOpq \/ RmWh \/ Inode \/ ReWh \/ RmOpq \/ UnMake
    \/ MkWh \/ Del \/ UnWh
    \/ CpFile \/ Copy \/ Iattr \/ Store
    \/ Crash

Spec == Init /\ [][Next]_vars

-----------------------------------------------------------------------------
(* Properties. *)

(* The branch of a call in progress is writable: find_rw_parent_br and      *)
(* test_ro never hand a read-only branch to the code that writes.           *)
TargetWritable == op.pc \notin {"idle", "oops"} => Writable(op.b)

(* The hidden filesystems stay well formed: cpup_dirs has copied up the     *)
(* parent before anything is put into it, and no undo step takes a          *)
(* directory away from an entry, a whiteout or an opaque mark in it.        *)
HiddenWF == WellFormed(ent, wh, opq)

(* aufs.5 of ro and rr: "aufs will never issue write operation to this      *)
(* branch"; and every step of a call writes to one branch only, the one     *)
(* chosen by find_rw_parent_br when the call began.                         *)
ReadOnlyUntouched ==
    [][\A b \in Br : <<ent[b], wh[b], opq[b]>>' # <<ent[b], wh[b], opq[b]>>
                        => Writable(b) /\ b = op.b]_vars

(* However many hidden calls fail, and wherever the machine stops, a call   *)
(* changes what lookup shows of no name but its own (and, when that is a    *)
(* directory, of the names inside).                                         *)
OthersIntact ==
    op.pc = "idle" =>
        \A q \in Path \ ({op.p} \cup Kids(op.p)) : View[q] = op.before[q]

(* aufs.5: "The whiteout is for hiding files on lower branches".  Once     *)
(* unlink(2) or rmdir(2) has returned 0, lookup no longer finds the name.   *)
RemovedIsGone ==
    op.pc = "idle" /\ op.ret = "ok" /\ op.kind \in {"unlink", "rmdir"}
        => View[op.p] = NoEnt

(* stobr()'s DEBUG_ON(bindex < 0 ...): the branch index of a dentry that is *)
(* about to be created is always a branch.                                  *)
BranchIndexOK == op.pc # "oops"

(* What the union promises: see Namespace.                                  *)
MapTree   == IF op.pc = "idle" THEN View ELSE op.before
MapCall   == IF op.pc = "idle" THEN [kind |-> "none", p |-> NoEnt, d |-> NoEnt]
             ELSE [kind |-> op.kind, p |-> op.p, d |-> op.d]
MapResult == CASE op.ret \in {"err", "eio"} /\ op.pc = "idle" -> "err"
               [] op.pc # "idle" -> "run"
               [] OTHER -> op.ret

Union == INSTANCE Namespace WITH tree <- MapTree, call <- MapCall, result <- MapResult

(* Every system call is atomic for the processes that use the union: it     *)
(* does exactly what POSIX says or, on an error, nothing.                   *)
ImplementsNamespace == Union!ASpec
=============================================================================
