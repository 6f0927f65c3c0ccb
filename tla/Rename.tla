------------------------------- MODULE Rename -------------------------------
(***************************************************************************)
(* rename(2) on the union (i_op_ren.c), over the branches of UnionFS.      *)
(*                                                                         *)
(* The entry is renamed on one branch, btgt: by rename on the branch when  *)
(* it is there, otherwise by copying it up under the new name.  Around it  *)
(* whiteouts and opaque marks are set and removed and a directory that is  *)
(* replaced is put aside under a temporary name.  Every step is a call on  *)
(* a hidden filesystem that can fail, do_rename undoes the earlier ones,   *)
(* and the machine may crash between any two.                              *)
(***************************************************************************)
EXTENDS UnionFS

CONSTANT Base   \* [Sub -> names]: a/x and b/x have the same last component

ASSUME BaseAssumption == DOMAIN Base = Sub

Twin(k, d) == {j \in Kids(d) : Base[j] = Base[k]}

(* Every directory can hold every last component, under one name of Sub. *)
ASSUME TwinAssumption == \A k \in Sub, d \in Top : \E j \in Kids(d) : Twin(k, d) = {j}

(* The name under which the thing called r was before s was renamed to t;   *)
(* the empty set when nothing is called r any more.                         *)
Origin(s, t, r) ==
    IF r = t THEN {s}
    ELSE IF s \in Top /\ r \in Kids(t) THEN Twin(r, s)
    ELSE IF r = s \/ r \in Kids(s) THEN {}
    ELSE {r}

After(s, t, f) == [r \in Path |-> IF Origin(s, t, r) = {} THEN NoEnt
                                  ELSE f[CHOOSE o \in Origin(s, t, r) : TRUE]]

(* vfs_rename on branch b: a directory takes what is in it along; the       *)
(* whiteouts of s and t themselves lie in their parents and stay.           *)
MoveOn(b, s, t) ==
    /\ ent' = [ent EXCEPT ![b] = After(s, t, @)]
    /\ wh'  = [wh EXCEPT ![b] = {r \in Path : IF r \in {s, t} THEN r \in @
                                              ELSE Origin(s, t, r) \cap @ # {}}]
    /\ opq' = [opq EXCEPT ![b] = {r \in Top : Origin(s, t, r) \cap @ # {}}]
    /\ UNCHANGED <<perm, crashes>>

(* What is put aside when the directory t of branch b gets a temporary name. *)
NoTmp == [on |-> FALSE, ent |-> [k \in Sub |-> NoEnt], wh |-> {}, opq |-> FALSE]
Aside(b, t) == [on |-> TRUE, wh |-> wh[b] \cap Kids(t), opq |-> t \in opq[b],
                ent |-> [k \in Sub |-> IF k \in Kids(t) THEN ent[b][k] ELSE NoEnt]]

(* No copy-up in progress. *)
NoCp == [n |-> {}, from |-> {}, ok |-> "idle", bad |-> "idle"]

NoCall ==
       op = [pc |-> "idle", kind |-> "none", p |-> CHOOSE p \in Top : TRUE,
             q |-> CHOOSE p \in Top : TRUE, bs |-> 0, bd |-> 0, b |-> 0, isdir |-> FALSE,
             w |-> FALSE, whd |-> FALSE, byc |-> FALSE, opq |-> FALSE, tmp |-> NoTmp,
             cp |-> NoCp, nf |-> 0, ret |-> "ok", before |-> View]

RenameInit == BranchInit /\ NoCall

-----------------------------------------------------------------------------
(* Before the first change. *)

(* Errors that the code detects by itself. *)
Refuse(r) == /\ op' = [op EXCEPT !.pc = "idle", !.ret = r]
             /\ UNCHANGED <<perm, hidden, crashes>>

(* cpup_dirs for the parent of n, then go on at pc. *)
CpParent(b, n, pc) ==
    IF NoParent(b, n)
    THEN [n |-> {Up[n]}, from |-> {Up[n]}, ok |-> pc, bad |-> "idle"] ELSE NoCp

(* VFS has tested the types, aufs_rename takes the locks, wr_dir decides    *)
(* about the branch: not below the entry, nor below what it replaces.       *)
BeginRename(s, t) ==
    LET Cs == ParentBr(s)
        Ct == ParentBr(t)
        Hs == HDentries(Cs, s)
        Ht == HDentries(Ct, t)
        bs == Min(Hs)
        bd == IF Ht # {} THEN Min(Ht) ELSE NegStart(Ct, t)
        isdir == ent[bs][s] = Dir
        from  == IF bs < bd THEN bs ELSE bd
    IN  /\ op.pc = "idle"
        /\ s # t /\ Hs # {} /\ Ct # {}
        /\ isdir => t \in Top
        /\ Ht # {} => (isdir <=> ent[bd][t] = Dir)
        /\ bd # -1
        /\ \E b \in WrBranch(Ct, from) :
               LET cp == CpParent(b, t, "neg")
                   pc == IF b = bd THEN "check" ELSE IF cp # NoCp THEN "cpmake" ELSE "neg"
               IN  op' = [op EXCEPT !.pc = pc, !.kind = "rename", !.p = s, !.q = t,
                              !.bs = bs, !.bd = bd, !.b = b, !.isdir = isdir, !.w = FALSE,
                              !.whd = FALSE, !.byc = FALSE, !.opq = FALSE, !.tmp = NoTmp,
                              !.cp = cp, !.nf = 0, !.ret = "run", !.before = View]
        /\ UNCHANGED <<perm, hidden, crashes>>

(* The last line of wr_dir: lkup_neg of the new name. *)
NegTarget ==
    /\ op.pc = "neg"
    /\ \/ ent[op.b][op.q] = NoEnt /\ Goto("check") /\ UNCHANGED <<perm, hidden, crashes>>
       \/ ent[op.b][op.q] # NoEnt /\ Refuse("err")

(* au_test_empty_lower: only the directories below the first one. *)
TestEmptyLower(H, p, same) ==
    \A b \in H \ {Min(H)}, k \in Kids(p) :
        ent[b][k] # NoEnt =>
            \E c \in H : (c < b \/ (same /\ c = b)) /\ k \in wh[c]

SrcDirOk(H, s, b, same) ==
    IF Min(H) # b THEN TestEmpty(H, s, same) ELSE TestEmptyLower(H, s, same)

(* Mutant: the whiteout of the old name is prepared without cpup_dirs. *)
CheckDirsNoCpup ==
    LET Hs == HDentries(ParentBr(op.p), op.p)
        Ht == HDentries(ParentBr(op.q), op.q)
        w  == op.b # op.bs \/ NeedWhBelow(ParentBr(op.p), op.p, op.bs)
    IN  /\ op.pc = "check"
        /\ \E same \in BOOLEAN :
               op.isdir => TestEmpty(Ht, op.q, same) /\ SrcDirOk(Hs, op.p, op.b, same)
        /\ op' = [op EXCEPT !.pc = "mkwh", !.w = w]
        /\ UNCHANGED <<perm, hidden, crashes>>

(* may_rename_dstdir and may_rename_srcdir (ENOTEMPTY, EXDEV), then          *)
(* wr_dir_need_wh for the old name, copying up its parent.                  *)
CheckDirs ==
    LET Hs == HDentries(ParentBr(op.p), op.p)
        Ht == HDentries(ParentBr(op.q), op.q)
        cp == IF op.b = op.bs THEN NoCp ELSE CpParent(op.b, op.p, "mkwh")
        w  == op.b # op.bs \/ NeedWhBelow(ParentBr(op.p), op.p, op.bs)
    IN  /\ op.pc = "check"
        /\ \E same \in BOOLEAN :
               LET good == op.isdir => TestEmpty(Ht, op.q, same)
                                       /\ SrcDirOk(Hs, op.p, op.b, same)
               IN  \/ /\ ~good
                      /\ Refuse("err")
                   \/ /\ good
                      /\ op' = [op EXCEPT !.pc = IF cp # NoCp THEN "cpmake" ELSE "mkwh",
                                          !.cp = cp, !.w = w]
                      /\ UNCHANGED <<perm, hidden, crashes>>

-----------------------------------------------------------------------------
(* Copy-up of op.cp.from under the name op.cp.n: a parent directory, the    *)
(* entry under its old name, or the entry under its new one.                *)

CpName == CHOOSE n \in op.cp.n : TRUE
CpFrom == CHOOSE n \in op.cp.from : TRUE
IsParent == CpName \notin {op.p, op.q}
CpIsDir  == IsParent \/ op.isdir

(* Mutant: a parent directory is copied up like a file. *)
CpMakeAsFile ==
    /\ op.pc = "cpmake"
    /\ PutEnt(op.b, CpName, Partial)
    /\ Goto("cpattr")
    /\ UNCHANGED <<perm, wh, opq, crashes>>

CpMake ==
    /\ op.pc = "cpmake"
    /\ \/ /\ ent[op.b][CpName] = NoEnt
          /\ PutEnt(op.b, CpName, IF CpIsDir THEN Dir ELSE Partial)
          /\ Goto(IF CpIsDir THEN "cpattr" ELSE "cpfill")
          /\ UNCHANGED <<perm, wh, opq, crashes>>
       \/ /\ ent[op.b][CpName] # NoEnt \* lkup_neg
          /\ op' = [op EXCEPT !.pc = op.cp.bad, !.ret = "err"]
          /\ UNCHANGED <<perm, hidden, crashes>>
       \/ FailTo(op.cp.bad)

CpFill ==
    /\ op.pc = "cpfill"
    /\ \/ /\ PutEnt(op.b, CpName, ent[op.bs][CpFrom])
          /\ Goto("cpattr")
          /\ UNCHANGED <<perm, wh, opq, crashes>>
       \/ FailTo("cpundo")

CpAttr ==
    /\ op.pc = "cpattr"
    /\ \/ Goto(op.cp.ok) /\ UNCHANGED <<perm, hidden, crashes>>
       \/ FailTo("cpundo")

CpUndo ==
    /\ op.pc = "cpundo"
    /\ \/ /\ PutEnt(op.b, CpName, NoEnt)
          /\ Goto(op.cp.bad)
          /\ UNCHANGED <<perm, wh, opq, crashes>>
       \/ UndoFailTo(op.cp.bad)

-----------------------------------------------------------------------------
(* do_rename. *)

(* The whiteout of the old name comes first, while the old name is there. *)
WhSrc ==
    /\ op.pc = "mkwh"
    /\ \/ /\ op.w
          /\ AddWh(op.b, op.p)
          /\ Goto("lkwh")
          /\ UNCHANGED <<perm, ent, opq, crashes>>
       \/ ~op.w /\ Goto("lkwh") /\ UNCHANGED <<perm, hidden, crashes>>
       \/ op.w /\ FailTo("idle")

(* Mutant: a file that is replaced is put aside like a directory. *)
WhDstAside ==
    /\ op.pc = "lkwh"
    /\ op' = [op EXCEPT !.whd = op.bd = op.b /\ op.q \in wh[op.b], !.pc = "aside"]
    /\ UNCHANGED <<perm, hidden, crashes>>

(* lkup_wh of the new name, only when the branch is the one of the target.  *)
WhDst ==
    /\ op.pc = "lkwh"
    /\ \/ /\ op' = [op EXCEPT !.whd = op.bd = op.b /\ op.q \in wh[op.b],
                              !.pc = IF op.isdir /\ ent[op.b][op.q] = Dir
                                     THEN "aside" ELSE "prepare"]
          /\ UNCHANGED <<perm, hidden, crashes>>
       \/ op.bd = op.b /\ FailTo("unwh")

(* rename_whtmp, then lkup_neg of the name that is free now. *)
PutAside ==
    /\ op.pc = "aside"
    /\ \/ /\ op' = [op EXCEPT !.tmp = Aside(op.b, op.q), !.pc = "asideneg"]
          /\ ent' = [ent EXCEPT ![op.b] = [r \in Path |->
                        IF r = op.q \/ r \in Kids(op.q) THEN NoEnt ELSE @[r]]]
          /\ wh' = [wh EXCEPT ![op.b] = @ \ Kids(op.q)]
          /\ opq' = [opq EXCEPT ![op.b] = @ \ {op.q}]
          /\ UNCHANGED <<perm, crashes>>
       \/ FailTo("unwh")

AsideNeg ==
    /\ op.pc = "asideneg"
    /\ \/ Goto("prepare") /\ UNCHANGED <<perm, hidden, crashes>>
       \/ FailTo("untmp")

(* Mutant: the opaque mark is made only over a whiteout. *)
NeedDiropqWhOnly == op.isdir /\ op.whd

(* need_diropq, with dbdiropq of both as the lookup before left them.       *)
NeedDiropq ==
    /\ op.isdir
    /\ op.whd \/ (op.tmp.opq /\ Whable(op.b)) \/ AlwaysDiropq
    /\ ~(op.bs = op.b /\ IsOpq(op.b, op.p))

(* Is the entry renamed on the branch, copied up first, or copied up under  *)
(* its new name?                                                            *)
Prepare ==
    LET there == op.bs = op.b
        over  == ~there /\ ent[op.b][op.q] # NoEnt
        Cp(n, ok) == [n |-> {n}, from |-> {op.p}, ok |-> ok, bad |-> "untmp"]
    IN  /\ op.pc = "prepare"
        /\ op' = [op EXCEPT !.opq = NeedDiropq,
                            !.byc = ~there /\ ~over,
                            !.cp = IF there THEN NoCp
                                   ELSE IF over THEN Cp(op.p, "move")
                                   ELSE Cp(op.q, IF NeedDiropq THEN "mkopq" ELSE "rmwh"),
                            !.pc = IF there THEN "move" ELSE "cpmake"]
        /\ UNCHANGED <<perm, hidden, crashes>>

Move ==
    /\ op.pc = "move"
    /\ \/ /\ MoveOn(op.b, op.p, op.q)
          /\ Goto(IF op.opq THEN "mkopq" ELSE "rmwh")
       \/ FailTo("untmp")

Opaque ==
    /\ op.pc = "mkopq"
    /\ \/ /\ opq' = [opq EXCEPT ![op.b] = @ \cup {op.q}]
          /\ Goto("rmwh")
          /\ UNCHANGED <<perm, ent, wh, crashes>>
       \/ FailTo("unmove")

(* Remove the whiteout of the new name.  What was put aside is removed now  *)
(* or by a work item; a failure of that is ignored.                         *)
Done ==
    /\ op.pc = "rmwh"
    /\ \/ /\ wh' = IF op.whd THEN [wh EXCEPT ![op.b] = @ \ {op.q}] ELSE wh
          /\ Return
          /\ UNCHANGED <<perm, ent, opq, crashes>>
       \/ op.whd /\ FailTo(IF op.opq THEN "unopq" ELSE "unmove")

-----------------------------------------------------------------------------
(* The undo chain: out_diropq, out_rename, out_whtmp, out_whsrc. *)

UnOpaque ==
    /\ op.pc = "unopq"
    /\ \/ /\ opq' = [opq EXCEPT ![op.b] = @ \ {op.q}]
          /\ Goto("unmove")
          /\ UNCHANGED <<perm, ent, wh, crashes>>
       \/ UndoFailTo("unmove")

(* Rename back, or unlink what was copied up; vfs_unlink of a directory is  *)
(* EISDIR, so that a copied-up directory always stays.                      *)
UnMove ==
    /\ op.pc = "unmove"
    /\ \/ ~op.byc /\ MoveOn(op.b, op.q, op.p) /\ Goto("untmp")
       \/ /\ op.byc /\ ~op.isdir
          /\ PutEnt(op.b, op.q, NoEnt)
          /\ Goto("untmp")
          /\ UNCHANGED <<perm, wh, opq, crashes>>
       \/ /\ op.byc /\ op.isdir
          /\ op' = [op EXCEPT !.pc = "untmp", !.ret = "eio"]
          /\ UNCHANGED <<perm, hidden, crashes>>
       \/ UndoFailTo("untmp")

(* Mutant: the directory put aside is not brought back. *)
UnTmpSkip ==
    /\ op.pc = "untmp"
    /\ Goto("unwh")
    /\ UNCHANGED <<perm, hidden, crashes>>

(* The directory that was put aside comes back, unless its name is taken. *)
UnTmp ==
    /\ op.pc = "untmp"
    /\ LET free == op.tmp.on /\ ent[op.b][op.q] = NoEnt
       IN  \/ /\ free
              /\ ent' = [ent EXCEPT ![op.b] = [r \in Path |->
                            IF r = op.q THEN Dir
                            ELSE IF r \in Kids(op.q) THEN op.tmp.ent[r] ELSE @[r]]]
              /\ wh' = [wh EXCEPT ![op.b] = @ \cup op.tmp.wh]
              /\ opq' = [opq EXCEPT ![op.b] = IF op.tmp.opq THEN @ \cup {op.q} ELSE @]
              /\ Goto("unwh")
              /\ UNCHANGED <<perm, crashes>>
           \/ ~free /\ Goto("unwh") /\ UNCHANGED <<perm, hidden, crashes>>
           \/ op.tmp.on /\ UndoFailTo("unwh")

UnWhSrc ==
    /\ op.pc = "unwh"
    /\ \/ /\ wh' = IF op.w THEN [wh EXCEPT ![op.b] = @ \ {op.p}] ELSE wh
          /\ Return
          /\ UNCHANGED <<perm, ent, opq, crashes>>
       \/ op.w /\ UndoFailTo("idle")

-----------------------------------------------------------------------------
RenameNext ==
    \/ \E s, t \in Path : BeginRename(s, t)
    \/ NegTarget \/ CheckDirs
    \/ CpMake \/ CpFill \/ CpAttr \/ CpUndo
    \/ WhSrc \/ WhDst \/ PutAside \/ AsideNeg \/ Prepare \/ Move \/ Opaque \/ Done
    \/ UnOpaque \/ UnMove \/ UnTmp \/ UnWhSrc
    \/ Crash

RenameSpec == RenameInit /\ [][RenameNext]_vars

-----------------------------------------------------------------------------
(* Properties. *)

(* When aufs_rename returns 0 the union is the tree before with the entry   *)
(* (and what was in it) under its new name and no longer under the old one, *)
(* whatever lower branches hold under either name.                          *)
RenameOk == op.pc = "idle" /\ op.ret = "ok" /\ op.kind = "rename"
                => View = After(op.p, op.q, op.before)

(* The same, except that a replaced directory held whiteouts on the branch  *)
(* and none of the reasons of need_diropq made the new one opaque.          *)
RenameOkPlain == op.tmp.wh = {} \/ op.q \in opq[op.b] => RenameOk

(* README: "revert a single systemcall when an error occurs in aufs": when  *)
(* aufs_rename returns an error other than EIO, every name shows what it    *)
(* showed before, at whichever step the error came.                         *)
RenameUndone == op.pc = "idle" /\ op.ret = "err" => View = op.before

(* One failing hidden call is always undone; EIO takes a second failure.    *)
OneFailureUndone == op.nf <= 1 => op.ret # "eio"

(* A regular file that is replaced is never missing: at no moment, crash    *)
(* included, does the new name show nothing.                                *)
TargetStays == op.kind = "rename" /\ op.before[op.q] \in File => View[op.q] # NoEnt

(* Names that are neither the old, the new, nor inside one of them, and the *)
(* parents, are what they were, however many calls failed, crash included.  *)
BystandersIntact ==
    \A r \in Path \ UNION {{op.p, op.q}, Kids(op.p), Kids(op.q)} : View[r] = op.before[r]
=============================================================================
