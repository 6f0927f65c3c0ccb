--------------------------- MODULE UnionFSProofs ---------------------------
(***************************************************************************)
(* Proofs about UnionFS for every number of branches, every tree of names, *)
(* every permission vector and every bound on failures and crashes.        *)
(***************************************************************************)
EXTENDS UnionFS, NatLemmas, TLAPS

(* What the record of the call in progress says at each step. *)
CallShape ==
    /\ op.kind \in {"mkdir", "rmdir"} => op.p \in Top
    /\ op.kind = "write" => op.d \in File
    /\ op.pc = "mkopq" => op.kind = "mkdir"
    /\ op.pc \in {"cpdir", "diriattr", "undir"} => op.p \in Sub /\ op.kind # "none"
    /\ op.pc \in {"cpfile", "copy", "iattr", "store"} => op.kind = "write"

TypeInv == TypeOK /\ CallShape

-----------------------------------------------------------------------------
(* The operators the steps are built from. *)

(* A set of branches that is not empty has an uppermost branch. *)
LEMMA MinBr ==
    ASSUME NEW S \in SUBSET Br, S # {}
    PROVE  Min(S) \in S /\ \A y \in S : Min(S) <= y
<1>1. \A b \in Br : b \in Nat
  BY BranchAssumption DEF Br
<1>2. S \in SUBSET Nat
  BY <1>1
<1>3. \E x \in S : \A y \in S : x <= y
  BY <1>2, LeastNat
<1>. QED BY <1>3 DEF Min

(* ... and a lowest one. *)
LEMMA MaxBr ==
    ASSUME NEW S \in SUBSET Br, S # {}
    PROVE  Max(S) \in S /\ \A y \in S : Max(S) >= y
<1>. DEFINE T == {NBranch - y : y \in S}
<1>1. \A y \in S : NBranch - y \in Nat /\ y \in Nat
  BY BranchAssumption DEF Br
<1>2. T \in SUBSET Nat /\ T # {}
  BY <1>1
<1>3. PICK t \in T : \A u \in T : t <= u
  BY <1>2, LeastNat
<1>4. PICK x \in S : t = NBranch - x
  BY <1>3
<1>5. \A y \in S : x >= y
  <2>. SUFFICES ASSUME NEW y \in S PROVE x >= y
    OBVIOUS
  <2>1. NBranch - x <= NBranch - y
    BY <1>3, <1>4
  <2>. QED BY <2>1, <1>1, BranchAssumption
<1>. QED BY <1>5 DEF Max

(* What a lookup finds are branches of the parent directory. *)
LEMMA LookupBr ==
    ASSUME NEW C \in SUBSET Br, NEW p
    PROVE  HDentries(C, p) \in SUBSET C
<1>1. Pos(C, p) \in SUBSET C
  BY DEF Pos
<1>2. CASE Pos(C, p) = {}
  BY <1>2 DEF HDentries
<1>3. CASE Pos(C, p) # {}
  <2>1. Min(Pos(C, p)) \in C
    BY <1>1, <1>3, MinBr
  <2>. QED BY <1>1, <1>3, <2>1 DEF HDentries
<1>. QED BY <1>2, <1>3

(* The parent directory of a name is found on branches. *)
LEMMA ParentBrType ==
    ASSUME NEW p PROVE ParentBr(p) \in SUBSET Br
<1>1. HDentries(Br, Up[p]) \in SUBSET Br
  BY LookupBr
<1>. QED BY <1>1 DEF ParentBr

(* A process sees an entry under every name. *)
LEMMA ViewType ==
    ASSUME ent \in [Br -> [Path -> Entry]]
    PROVE  View \in [Path -> Entry]
<1>. SUFFICES ASSUME NEW p \in Path,
                     HDentries(ParentBr(p), p) # {}
              PROVE  ent[Min(HDentries(ParentBr(p), p))][p] \in Entry
  BY DEF View, Entry
<1>1. HDentries(ParentBr(p), p) \in SUBSET Br
  BY ParentBrType, LookupBr
<1>2. Min(HDentries(ParentBr(p), p)) \in Br
  BY <1>1, MinBr
<1>. QED BY <1>2

(* find_rw_parent_br and find_rw_br return a writable branch, or none. *)
LEMMA WrBranchWritable ==
    ASSUME NEW C \in SUBSET Br, NEW bs \in Br
    PROVE  \A b \in WrBranch(C, bs) : b \in Br /\ Writable(b)
<1>1. /\ RwAtOrAbove(C, bs) \in SUBSET Br /\ RwAtOrAbove(Br, bs) \in SUBSET Br
      /\ \A b \in RwAtOrAbove(C, bs) \cup RwAtOrAbove(Br, bs) : Writable(b)
  BY DEF RwAtOrAbove
<1>2. CASE Writable(bs)
  BY <1>2 DEF WrBranch
<1>3. CASE ~Writable(bs) /\ RwAtOrAbove(C, bs) # {}
  <2>1. Min(RwAtOrAbove(C, bs)) \in RwAtOrAbove(C, bs)
    BY <1>1, <1>3, MinBr
  <2>. QED BY <1>1, <1>3, <2>1 DEF WrBranch
<1>4. CASE ~Writable(bs) /\ RwAtOrAbove(C, bs) = {} /\ RwAtOrAbove(Br, bs) # {}
  <2>1. Max(RwAtOrAbove(Br, bs)) \in RwAtOrAbove(Br, bs)
    BY <1>1, <1>4, MaxBr
  <2>. QED BY <1>1, <1>4, <2>1 DEF WrBranch
<1>5. CASE ~Writable(bs) /\ RwAtOrAbove(C, bs) = {} /\ RwAtOrAbove(Br, bs) = {}
  BY <1>5 DEF WrBranch
<1>. QED BY <1>2, <1>3, <1>4, <1>5

(* A system call starts on a branch that may be written. *)
LEMMA StartTarget ==
    ASSUME ent \in [Br -> [Path -> Entry]]
    PROVE  /\ \A kind, p, d : BeginAdd(kind, p, d) /\ op'.pc # "oops"
                  => op'.b \in Br /\ Writable(op'.b)
           /\ \A kind, p : BeginRemove(kind, p) => op'.b \in Br /\ Writable(op'.b)
           /\ \A p, d : BeginWrite(p, d) => op'.b \in Br /\ Writable(op'.b)
<1>. USE DEF Start
<1>1. ASSUME NEW kind, NEW p, NEW d, BeginAdd(kind, p, d), op'.pc # "oops"
      PROVE  op'.b \in Br /\ Writable(op'.b)
  <2>1. ParentBr(p) \in SUBSET Br
    BY ParentBrType
  <2>2. PICK b \in WrBranch(ParentBr(p), NegStart(ParentBr(p), p)) :
            op'.b = b /\ NegStart(ParentBr(p), p) # -1 /\ ParentBr(p) # {}
    BY <1>1 DEF BeginAdd
  <2>3. NegStart(ParentBr(p), p) \in Br
    BY <2>1, <2>2, MinBr DEF NegStart
  <2>. QED BY <2>1, <2>2, <2>3, WrBranchWritable
<1>2. ASSUME NEW kind, NEW p, BeginRemove(kind, p)
      PROVE  op'.b \in Br /\ Writable(op'.b)
  <2>1. HDentries(ParentBr(p), p) \in SUBSET Br /\ ParentBr(p) \in SUBSET Br
    BY ParentBrType, LookupBr
  <2>2. PICK b \in WrBranch(ParentBr(p), Min(HDentries(ParentBr(p), p))) :
            op'.b = b /\ HDentries(ParentBr(p), p) # {}
    BY <1>2 DEF BeginRemove
  <2>. QED BY <2>1, <2>2, MinBr, WrBranchWritable
<1>3. ASSUME NEW p, NEW d, BeginWrite(p, d)
      PROVE  op'.b \in Br /\ Writable(op'.b)
  <2>1. HDentries(ParentBr(p), p) \in SUBSET Br /\ ParentBr(p) \in SUBSET Br
    BY ParentBrType, LookupBr
  <2>2. PICK b \in WrBranch(ParentBr(p), Min(HDentries(ParentBr(p), p))) :
            op'.b = b /\ HDentries(ParentBr(p), p) # {}
    BY <1>3 DEF BeginWrite
  <2>. QED BY <2>1, <2>2, MinBr, WrBranchWritable
<1>. QED BY <1>1, <1>2, <1>3

(* What a new call does to the state: only op changes, within its type. *)
LEMMA StartType ==
    ASSUME TypeInv,
           NEW kind \in Kinds, NEW p \in Path, NEW d \in Entry, NEW bs \in Br,
           NEW b \in Br, NEW w \in BOOLEAN, NEW pc \in Steps,
           Start(kind, p, d, bs, b, w, pc)
    PROVE  TypeOK'
<1>1. View \in [Path -> Entry]
  BY ViewType DEF TypeInv, TypeOK
<1>. QED BY <1>1, BoundAssumption DEF TypeInv, TypeOK, Start, hidden, Rets

(* The start of each system call keeps the types. *)
LEMMA BeginType ==
    ASSUME TypeInv
    PROVE  /\ \A p \in Path, d \in Data : BeginAdd("create", p, d) => TypeInv'
           /\ \A p \in Top : BeginAdd("mkdir", p, Dir) => TypeInv'
           /\ \A p \in Path : BeginRemove("unlink", p) => TypeInv'
           /\ \A p \in Top : BeginRemove("rmdir", p) => TypeInv'
           /\ \A p \in Path, d \in Data : BeginWrite(p, d) => TypeInv'
<1>1. ASSUME NEW kind \in {"create", "mkdir"}, NEW p \in Path, NEW d \in Entry,
             BeginAdd(kind, p, d), kind = "mkdir" => p \in Top
      PROVE  TypeInv'
  <2>. DEFINE C == ParentBr(p)
  <2>1. C \in SUBSET Br /\ C # {}
    BY <1>1, ParentBrType DEF BeginAdd
  <2>2. Min(C) \in Br
    BY <2>1, MinBr
  <2>3. CASE NegStart(C, p) = -1
    <3>1. Start(kind, p, d, Min(C), Min(C), FALSE, "oops")
      BY <1>1, <2>3 DEF BeginAdd
    <3>2. TypeOK'
      BY <2>2, <3>1, StartType DEF Kinds, Steps
    <3>. QED BY <1>1, <3>1, <3>2 DEF TypeInv, CallShape, Start
  <2>4. CASE NegStart(C, p) # -1
    <3>1. NegStart(C, p) \in Br
      BY <2>2, <2>4 DEF NegStart
    <3>2. PICK b \in WrBranch(C, NegStart(C, p)) :
              Start(kind, p, d, NegStart(C, p), b, b \in C /\ HasWh(b, p),
                    IF b = NegStart(C, p) THEN "make"
                    ELSE IF NoParent(b, p) THEN "cpdir" ELSE "negative")
      BY <1>1, <2>4 DEF BeginAdd
    <3>3. b \in Br
      BY <2>1, <3>1, WrBranchWritable
    <3>4. TypeOK'
      <4>1. (b \in C /\ HasWh(b, p)) \in BOOLEAN
        BY DEF HasWh
      <4>2. (IF b = NegStart(C, p) THEN "make"
             ELSE IF NoParent(b, p) THEN "cpdir" ELSE "negative") \in Steps
        BY DEF Steps
      <4>. HIDE DEF C
      <4>. QED BY <3>1, <3>2, <3>3, <4>1, <4>2, StartType DEF Kinds
    <3>. QED BY <1>1, <3>2, <3>4 DEF TypeInv, CallShape, Start, NoParent
  <2>. QED BY <2>3, <2>4
<1>2. ASSUME NEW kind \in {"unlink", "rmdir"}, NEW p \in Path,
             BeginRemove(kind, p), kind = "rmdir" => p \in Top
      PROVE  TypeInv'
  <2>. DEFINE C == ParentBr(p)
              H == HDentries(C, p)
              Pc(b, w) == IF b # Min(H) /\ NoParent(b, p) THEN "cpdir"
                          ELSE IF w THEN "mkwh" ELSE "del"
              W(b) == b # Min(H) \/ NeedWhBelow(C, p, Min(H))
  <2>1. C \in SUBSET Br /\ H \in SUBSET Br /\ H # {}
    BY <1>2, ParentBrType, LookupBr DEF BeginRemove
  <2>2. Min(H) \in Br
    BY <2>1, MinBr
  <2>3. PICK b \in WrBranch(C, Min(H)) :
            Start(kind, p, NoEnt, Min(H), b, W(b), Pc(b, W(b)))
    BY <1>2 DEF BeginRemove
  <2>4. b \in Br
    BY <2>1, <2>2, WrBranchWritable
  <2>5. TypeOK'
    <3>1. W(b) \in BOOLEAN /\ NoEnt \in Entry
      BY DEF NeedWhBelow, Entry
    <3>2. Pc(b, W(b)) \in Steps
      BY DEF Steps
    <3>. HIDE DEF C, H, Pc, W
    <3>. QED BY <2>2, <2>3, <2>4, <3>1, <3>2, StartType DEF Kinds
  <2>. QED BY <1>2, <2>3, <2>5 DEF TypeInv, CallShape, Start, NoParent
<1>3. ASSUME NEW p \in Path, NEW d \in Data, BeginWrite(p, d)
      PROVE  TypeInv'
  <2>. DEFINE C == ParentBr(p)
              H == HDentries(C, p)
              Pc(b) == IF b = Min(H) THEN "store"
                       ELSE IF NoParent(b, p) THEN "cpdir" ELSE "cpfile"
  <2>1. C \in SUBSET Br /\ H \in SUBSET Br /\ H # {}
    BY <1>3, ParentBrType, LookupBr DEF BeginWrite
  <2>2. Min(H) \in Br
    BY <2>1, MinBr
  <2>3. PICK b \in WrBranch(C, Min(H)) :
            Start("write", p, d, Min(H), b, FALSE, Pc(b))
    BY <1>3 DEF BeginWrite
  <2>4. b \in Br
    BY <2>1, <2>2, WrBranchWritable
  <2>5. TypeOK'
    <3>1. Pc(b) \in Steps /\ d \in Entry
      BY DEF Steps, Entry, File
    <3>. HIDE DEF C, H, Pc
    <3>. QED BY <2>2, <2>3, <2>4, <3>1, StartType DEF Kinds
  <2>. QED BY <1>3, <2>3, <2>5 DEF TypeInv, CallShape, Start, NoParent, File
<1>4. Data \subseteq Entry /\ Dir \in Entry /\ Top \subseteq Path
  BY DEF Entry, File, Path
<1>. QED BY <1>1, <1>2, <1>3, <1>4

-----------------------------------------------------------------------------
(* The steps of a call. *)

OpType == [pc : Steps, kind : Kinds, p : Path, d : Entry, bs : Br, b : Br,
           w : BOOLEAN, nf : 0 .. MaxFail, ret : Rets, before : [Path -> Entry]]

(* A step of a call keeps its arguments and goes to a step in S. *)
OpTo(S) == /\ op' \in OpType
           /\ op'.pc \in S
           /\ op'.kind = op.kind /\ op'.p = op.p /\ op'.d = op.d
           /\ op'.bs = op.bs /\ op'.b = op.b /\ op'.before = op.before

(* How the steps change op: forward, on an error, and at the end. *)
LEMMA MoveBy ==
    ASSUME op \in OpType, NEW pc \in Steps
    PROVE  /\ Goto(pc) => OpTo({pc})
           /\ FailTo(pc) => OpTo({pc}) /\ UNCHANGED <<perm, ent, wh, opq, crashes>>
           /\ UndoFailTo(pc) => OpTo({pc}) /\ UNCHANGED <<perm, ent, wh, opq, crashes>>
           /\ Return => OpTo({"idle"})
           /\ \A r \in Rets : op' = [op EXCEPT !.pc = pc, !.ret = r] => OpTo({pc})
<1>. USE BoundAssumption DEF OpType, OpTo
<1>1. Goto(pc) => OpTo({pc})
  BY DEF Goto
<1>2. ASSUME NEW r \in Rets, op' = [op EXCEPT !.pc = pc, !.ret = r]
      PROVE  OpTo({pc})
  BY <1>2
<1>3. ASSUME NEW r \in Rets, op.nf < MaxFail,
             op' = [op EXCEPT !.pc = pc, !.nf = @ + 1, !.ret = r]
      PROVE  OpTo({pc})
  <2>1. op.nf + 1 \in 0 .. MaxFail
    BY <1>3
  <2>. QED BY <1>3, <2>1
<1>4. FailTo(pc) => OpTo({pc}) /\ UNCHANGED <<perm, ent, wh, opq, crashes>>
  BY <1>3 DEF FailTo, hidden, Rets
<1>5. UndoFailTo(pc) => OpTo({pc}) /\ UNCHANGED <<perm, ent, wh, opq, crashes>>
  BY <1>3 DEF UndoFailTo, hidden, Rets
<1>6. Return => OpTo({"idle"})
  BY DEF Return, Rets, Steps
<1>. QED BY <1>1, <1>2, <1>4, <1>5, <1>6

(* Where each step can go. *)
LEMMA Moves ==
    ASSUME op \in OpType
    PROVE  /\ CpDir => OpTo({"diriattr", "idle"})
           /\ DirIattr => OpTo({"negative", "mkwh", "cpfile", "undir"})
           /\ UnDir => OpTo({"idle"})
           /\ Negative => OpTo({"make", "idle"})
           /\ Make => OpTo({"mkopq", "rmwh", "inode", "idle"})
           /\ MkOpq => OpTo({"rmwh", "inode", "unmake"})
           /\ RmWh => OpTo({"inode", "rmopq", "unmake"})
           /\ Inode => OpTo({"idle", "rewh", "rmopq", "unmake"})
           /\ ReWh => OpTo({"rmopq", "unmake"})
           /\ RmOpq => OpTo({"unmake"})
           /\ UnMake => OpTo({"idle"})
           /\ MkWh => OpTo({"del", "idle"})
           /\ Del => OpTo({"idle", "unwh"})
           /\ UnWh => OpTo({"idle"})
           /\ CpFile => OpTo({"copy", "idle"})
           /\ Copy => OpTo({"iattr", "unmake"})
           /\ Iattr => OpTo({"store", "unmake"})
           /\ Store => OpTo({"idle"})
<1>. USE MoveBy DEF OpTo, Steps, Rets
<1>1. CpDir => OpTo({"diriattr", "idle"})
  BY DEF CpDir
<1>2. DirIattr => OpTo({"negative", "mkwh", "cpfile", "undir"})
  BY DEF DirIattr, AfterCpDir
<1>3. UnDir => OpTo({"idle"})
  BY DEF UnDir
<1>4. Negative => OpTo({"make", "idle"})
  BY DEF Negative
<1>5. Make => OpTo({"mkopq", "rmwh", "inode", "idle"})
  BY DEF Make, AfterMake
<1>6. MkOpq => OpTo({"rmwh", "inode", "unmake"})
  BY DEF MkOpq, AfterMake
<1>7. RmWh => OpTo({"inode", "rmopq", "unmake"})
  BY DEF RmWh, UndoMake
<1>8. Inode => OpTo({"idle", "rewh", "rmopq", "unmake"})
  BY DEF Inode, UndoMake
<1>9. ReWh => OpTo({"rmopq", "unmake"})
  BY DEF ReWh, UndoMake
<1>10. RmOpq => OpTo({"unmake"})
  BY DEF RmOpq
<1>11. UnMake => OpTo({"idle"})
  BY DEF UnMake
<1>12. MkWh => OpTo({"del", "idle"})
  BY DEF MkWh
<1>13. Del => OpTo({"idle", "unwh"})
  BY DEF Del
<1>14. UnWh => OpTo({"idle"})
  BY DEF UnWh
<1>15. CpFile => OpTo({"copy", "idle"})
  BY DEF CpFile
<1>16. Copy => OpTo({"iattr", "unmake"})
  BY DEF Copy
<1>17. Iattr => OpTo({"store", "unmake"})
  BY DEF Iattr
<1>18. Store => OpTo({"idle"})
  BY DEF Store
<1>. QED BY <1>1, <1>2, <1>3, <1>4, <1>5, <1>6, <1>7, <1>8, <1>9, <1>10, <1>11, <1>12, <1>13, <1>14, <1>15, <1>16, <1>17, <1>18

(* A step of a call changes the branch op.b and no other. *)
OnlyTarget ==
    /\ perm' = perm /\ crashes' = crashes
    /\ ent' \in [Br -> [Path -> Entry]]
    /\ wh' \in [Br -> SUBSET Path]
    /\ opq' \in [Br -> SUBSET Top]
    /\ \A b \in Br \ {op.b} : ent'[b] = ent[b] /\ wh'[b] = wh[b] /\ opq'[b] = opq[b]

(* The three ways in which a step changes a hidden filesystem. *)
LEMMA HiddenCalls ==
    ASSUME TypeOK
    PROVE  /\ \A p \in Path, v \in Entry :
                  PutEnt(op.b, p, v) /\ UNCHANGED <<perm, wh, opq, crashes>> => OnlyTarget
           /\ AddWh(op.b, op.p) /\ UNCHANGED <<perm, ent, opq, crashes>> => OnlyTarget
           /\ DelWh(op.b, op.p) /\ UNCHANGED <<perm, ent, opq, crashes>> => OnlyTarget
           /\ UNCHANGED <<perm, ent, wh, opq, crashes>> => OnlyTarget
<1>. op.b \in Br /\ op.p \in Path
  BY DEF TypeOK
<1>1. ASSUME NEW p \in Path, NEW v \in Entry, PutEnt(op.b, p, v),
             UNCHANGED <<perm, wh, opq, crashes>>
      PROVE  OnlyTarget
  BY <1>1 DEF OnlyTarget, TypeOK, PutEnt
<1>2. AddWh(op.b, op.p) /\ UNCHANGED <<perm, ent, opq, crashes>> => OnlyTarget
  BY DEF OnlyTarget, TypeOK, AddWh
<1>3. DelWh(op.b, op.p) /\ UNCHANGED <<perm, ent, opq, crashes>> => OnlyTarget
  BY DEF OnlyTarget, TypeOK, DelWh
<1>4. UNCHANGED <<perm, ent, wh, opq, crashes>> => OnlyTarget
  BY DEF OnlyTarget, TypeOK
<1>. QED BY <1>1, <1>2, <1>3, <1>4

Step == \/ CpDir \/ DirIattr \/ UnDir
        \/ Negative \/ Make \/ MkOpq \/ RmWh \/ Inode \/ ReWh \/ RmOpq \/ UnMake
        \/ MkWh \/ Del \/ UnWh
        \/ CpFile \/ Copy \/ Iattr \/ Store

(* No step of a call touches a branch other than its target. *)
LEMMA StepTarget ==
    ASSUME TypeInv, Step PROVE OnlyTarget
<1>. USE DEF TypeInv, hidden
<1>0. /\ op \in OpType /\ op.b \in Br /\ op.bs \in Br /\ op.p \in Path /\ op.d \in Entry
      /\ ent \in [Br -> [Path -> Entry]] /\ wh \in [Br -> SUBSET Path]
      /\ opq \in [Br -> SUBSET Top]
      /\ Dir \in Entry /\ NoEnt \in Entry /\ Partial \in Entry
  BY DEF TypeOK, OpType, Entry, File
<1>1. ASSUME op.pc \in {"cpdir", "undir"} PROVE Up[op.p] \in Path
  BY <1>1, TreeAssumption DEF CallShape, Path
<1>2. ASSUME op.pc = "mkopq" PROVE op.p \in Top
  BY <1>2 DEF CallShape
<1>3. ASSUME NEW pc, FailTo(pc) \/ UndoFailTo(pc) PROVE OnlyTarget
  BY <1>3, HiddenCalls DEF FailTo, UndoFailTo
<1>4. CASE CpDir
  BY <1>4, <1>0, <1>1, <1>3, HiddenCalls DEF CpDir
<1>5. CASE DirIattr
  BY <1>5, <1>0, <1>3, HiddenCalls DEF DirIattr
<1>6. CASE UnDir
  BY <1>6, <1>0, <1>1, <1>3, HiddenCalls DEF UnDir
<1>7. CASE Negative
  BY <1>7, <1>0, <1>3, HiddenCalls DEF Negative
<1>8. CASE Make
  BY <1>8, <1>0, <1>3, HiddenCalls DEF Make
<1>9. CASE MkOpq
  BY <1>9, <1>0, <1>2, <1>3 DEF MkOpq, OnlyTarget
<1>10. CASE RmWh
  BY <1>10, <1>0, <1>3, HiddenCalls DEF RmWh
<1>11. CASE Inode
  BY <1>11, <1>0, <1>3, HiddenCalls DEF Inode
<1>12. CASE ReWh
  BY <1>12, <1>0, <1>3, HiddenCalls DEF ReWh
<1>13. CASE RmOpq
  BY <1>13, <1>0, <1>2, <1>3 DEF RmOpq, OnlyTarget
<1>14. CASE UnMake
  BY <1>14, <1>0, <1>3, HiddenCalls DEF UnMake
<1>15. CASE MkWh
  BY <1>15, <1>0, <1>3, HiddenCalls DEF MkWh
<1>16. CASE Del
  <2>1. ASSUME ent' = [ent EXCEPT ![op.b] = [q \in Path |->
                          IF q = op.p \/ q \in Kids(op.p) THEN NoEnt ELSE @[q]]],
               wh' = [wh EXCEPT ![op.b] = @ \ Kids(op.p)],
               opq' = [opq EXCEPT ![op.b] = @ \ {op.p}],
               UNCHANGED <<perm, crashes>>
        PROVE  OnlyTarget
    <3>1. [q \in Path |-> IF q = op.p \/ q \in Kids(op.p) THEN NoEnt ELSE ent[op.b][q]]
              \in [Path -> Entry]
      BY <1>0
    <3>2. ent' \in [Br -> [Path -> Entry]] /\ \A b \in Br \ {op.b} : ent'[b] = ent[b]
      BY <1>0, <2>1, <3>1
    <3>3. /\ wh' \in [Br -> SUBSET Path] /\ opq' \in [Br -> SUBSET Top]
          /\ \A b \in Br \ {op.b} : wh'[b] = wh[b] /\ opq'[b] = opq[b]
      BY <1>0, <2>1
    <3>. QED BY <2>1, <3>2, <3>3 DEF OnlyTarget
  <2>. QED BY <1>16, <1>3, <2>1 DEF Del
<1>17. CASE UnWh
  BY <1>17, <1>0, <1>3, HiddenCalls DEF UnWh
<1>18. CASE CpFile
  BY <1>18, <1>0, <1>3, HiddenCalls DEF CpFile
<1>19. CASE Copy
  BY <1>19, <1>0, <1>3, HiddenCalls DEF Copy
<1>20. CASE Iattr
  BY <1>20, <1>0, <1>3, HiddenCalls DEF Iattr
<1>21. CASE Store
  BY <1>21, <1>0, <1>3, HiddenCalls DEF Store
<1>. QED BY Step, <1>4, <1>5, <1>6, <1>7, <1>8, <1>9, <1>10, <1>11, <1>12, <1>13, <1>14, <1>15, <1>16, <1>17, <1>18, <1>19, <1>20, <1>21 DEF Step

(* Each step keeps what the record of the call says. *)
LEMMA StepShape ==
    ASSUME TypeInv, Step PROVE CallShape'
<1>. USE DEF OpTo, CallShape
<1>0. op \in OpType /\ op.kind \in Kinds
  BY DEF TypeInv, TypeOK, OpType
<1>1. CallShape
  BY DEF TypeInv
<1>2. CASE CpDir
  BY <1>2, <1>0, <1>1, Moves DEF CpDir
<1>3. CASE DirIattr
  <2>1. op'.pc = "cpfile" => op.kind = "write"
    BY <1>3, <1>0, <1>1, MoveBy DEF DirIattr, AfterCpDir, Kinds, Steps
  <2>. QED BY <1>3, <1>0, <1>1, <2>1, Moves DEF DirIattr
<1>4. CASE UnDir
  BY <1>4, <1>0, <1>1, Moves DEF UnDir
<1>5. CASE Negative
  BY <1>5, <1>0, <1>1, Moves DEF Negative
<1>6. CASE Make
  <2>1. op'.pc = "mkopq" => op.kind = "mkdir"
    BY <1>6, <1>0, MoveBy DEF Make, Goto, AfterMake, Steps
  <2>. QED BY <1>6, <1>0, <1>1, <2>1, Moves
<1>7. CASE MkOpq
  BY <1>7, <1>0, <1>1, Moves DEF MkOpq
<1>8. CASE RmWh
  BY <1>8, <1>0, <1>1, Moves DEF RmWh
<1>9. CASE Inode
  BY <1>9, <1>0, <1>1, Moves DEF Inode
<1>10. CASE ReWh
  BY <1>10, <1>0, <1>1, Moves DEF ReWh
<1>11. CASE RmOpq
  BY <1>11, <1>0, <1>1, Moves DEF RmOpq
<1>12. CASE UnMake
  BY <1>12, <1>0, <1>1, Moves DEF UnMake
<1>13. CASE MkWh
  BY <1>13, <1>0, <1>1, Moves DEF MkWh
<1>14. CASE Del
  BY <1>14, <1>0, <1>1, Moves DEF Del
<1>15. CASE UnWh
  BY <1>15, <1>0, <1>1, Moves DEF UnWh
<1>16. CASE CpFile
  BY <1>16, <1>0, <1>1, Moves DEF CpFile
<1>17. CASE Copy
  BY <1>17, <1>0, <1>1, Moves DEF Copy
<1>18. CASE Iattr
  BY <1>18, <1>0, <1>1, Moves DEF Iattr
<1>19. CASE Store
  BY <1>19, <1>0, <1>1, Moves DEF Store
<1>. QED BY <1>2, <1>3, <1>4, <1>5, <1>6, <1>7, <1>8, <1>9, <1>10, <1>11, <1>12, <1>13, <1>14, <1>15, <1>16, <1>17, <1>18, <1>19 DEF Step

(* A step starts inside a call and never ends in stobr()'s DEBUG_ON. *)
LEMMA StepMove ==
    ASSUME op \in OpType, Step
    PROVE  OpTo(Steps) /\ op.pc \notin {"idle", "oops"} /\ op'.pc # "oops"
<1>1. op.pc \notin {"idle", "oops"}
  BY DEF Step, CpDir, DirIattr, UnDir, Negative, Make, MkOpq, RmWh, Inode, ReWh, RmOpq, UnMake, MkWh, Del, UnWh, CpFile, Copy, Iattr, Store
<1>. QED BY <1>1, Moves DEF Step, OpTo, Steps

(* Begin is the start of a call. *)
Begin == \/ \E p \in Path, d \in Data : BeginAdd("create", p, d)
         \/ \E p \in Top : BeginAdd("mkdir", p, Dir)
         \/ \E p \in Path : BeginRemove("unlink", p)
         \/ \E p \in Top : BeginRemove("rmdir", p)
         \/ \E p \in Path, d \in Data : BeginWrite(p, d)

(* A step of the system starts a call, continues one, or is a crash. *)
LEMMA NextCases == Next => Begin \/ Step \/ Crash
BY DEF Next, Begin, Step

(* A crash ends the call and leaves the branches as they are. *)
LEMMA CrashMove ==
    ASSUME op \in OpType, Crash
    PROVE  /\ OpTo({"idle"}) /\ UNCHANGED <<perm, ent, wh, opq>>
           /\ crashes < MaxCrash /\ crashes' = crashes + 1
BY MoveBy DEF Crash, Rets, Steps, hidden

(* Every step of every call keeps the types. *)
LEMMA TypeStep == TypeInv /\ [Next]_vars => TypeInv'
<1>. SUFFICES ASSUME TypeInv, [Next]_vars PROVE TypeInv'
  OBVIOUS
<1>0. op \in OpType
  BY DEF TypeInv, TypeOK, OpType
<1>1. CASE Begin
  BY <1>1, BeginType DEF Begin
<1>2. CASE Step
  <2>1. OnlyTarget /\ CallShape' /\ op' \in OpType
    BY <1>0, <1>2, StepTarget, StepShape, StepMove DEF OpTo
  <2>. QED BY <2>1 DEF TypeInv, TypeOK, OnlyTarget, OpType
<1>3. CASE Crash
  <2>1. CallShape' /\ op' \in OpType
    BY <1>0, <1>3, CrashMove DEF OpTo, CallShape, TypeInv
  <2>. QED BY <1>0, <1>3, <2>1, CrashMove, BoundAssumption DEF TypeInv, TypeOK, OpType
<1>4. CASE UNCHANGED vars
  BY <1>4 DEF vars, TypeInv, TypeOK, CallShape
<1>. QED BY <1>1, <1>2, <1>3, <1>4, NextCases

(* The types hold on the initial branches. *)
LEMMA TypeInit == Init => TypeInv
<1>. SUFFICES ASSUME Init PROVE TypeInv
  OBVIOUS
<1>1. perm \in [Br -> BrPerm] /\ ent \in [Br -> [Path -> Entry]]
  <2>1. Data \cup {NoEnt, Dir} \subseteq Entry
    BY DEF Entry, File
  <2>. QED BY <2>1, PermAssumption DEF Init, BranchInit
<1>2. View \in [Path -> Entry]
  BY <1>1, ViewType
<1>3. 0 \in Br /\ (CHOOSE p \in Top : TRUE) \in Path
  BY BranchAssumption, TreeAssumption DEF Br, Path
<1>. QED BY <1>1, <1>2, <1>3, BoundAssumption
         DEF Init, BranchInit, TypeInv, TypeOK, CallShape, Steps, Kinds, Rets, Entry

(* Every reachable state has the types of the C structures: in particular   *)
(* the branch indices that wr_dir and au_ready_to_write keep for the whole  *)
(* call are indices of branches.                                            *)
THEOREM TypeCorrect == Spec => []TypeOK
<1>1. TypeInv => TypeOK
  BY DEF TypeInv
<1>. QED BY <1>1, TypeInit, TypeStep, PTL DEF Spec

-----------------------------------------------------------------------------
(* Read-only branches. *)

(* The branch of the call stays writable from one step to the next. *)
LEMMA WritableStep ==
    TypeInv /\ TargetWritable /\ [Next]_vars => TargetWritable'
<1>. SUFFICES ASSUME TypeInv, TargetWritable, [Next]_vars PROVE TargetWritable'
  OBVIOUS
<1>0. op \in OpType /\ ent \in [Br -> [Path -> Entry]]
  BY DEF TypeInv, TypeOK, OpType
<1>1. CASE Begin
  <2>1. perm' = perm
    BY <1>1 DEF Begin, BeginAdd, BeginRemove, BeginWrite, Start
  <2>2. op'.pc # "oops" => Writable(op'.b)
    BY <1>0, <1>1, StartTarget DEF Begin
  <2>. QED BY <2>1, <2>2 DEF TargetWritable, Writable
<1>2. CASE Step
  BY <1>0, <1>2, StepTarget, StepMove DEF OpTo, OnlyTarget, TargetWritable, Writable
<1>3. CASE Crash
  BY <1>0, <1>3, CrashMove DEF OpTo, TargetWritable
<1>4. CASE UNCHANGED vars
  BY <1>4 DEF vars, TargetWritable, Writable
<1>. QED BY <1>1, <1>2, <1>3, <1>4, NextCases

(* aufs never writes to a branch that is not writable, and within one call  *)
(* it writes to one branch only: what find_rw_parent_br chose.              *)
THEOREM ReadOnlySafe == Spec => ReadOnlyUntouched
<1>. DEFINE A == \A b \in Br : <<ent[b], wh[b], opq[b]>>' # <<ent[b], wh[b], opq[b]>>
                                   => Writable(b) /\ b = op.b
<1>1. Init => TargetWritable
  BY DEF Init, BranchInit, TargetWritable
<1>2. TypeInv /\ TargetWritable /\ [Next]_vars => [A]_vars
  <2>. SUFFICES ASSUME TypeInv, TargetWritable, [Next]_vars PROVE [A]_vars
    OBVIOUS
  <2>0. op \in OpType
    BY DEF TypeInv, TypeOK, OpType
  <2>1. CASE Begin
    BY <2>1 DEF Begin, BeginAdd, BeginRemove, BeginWrite, Start, hidden
  <2>2. CASE Step
    <3>1. Writable(op.b)
      BY <2>0, <2>2, StepMove DEF TargetWritable
    <3>. QED BY <2>2, <3>1, StepTarget DEF OnlyTarget
  <2>3. CASE Crash
    BY <2>0, <2>3, CrashMove
  <2>. QED BY <2>1, <2>2, <2>3, NextCases
<1>. QED BY <1>1, <1>2, TypeInit, TypeStep, WritableStep, PTL
         DEF Spec, ReadOnlyUntouched

-----------------------------------------------------------------------------
(* The hidden filesystems stay well formed. *)

(* Nothing inside the directory p of branch b. *)
NoKids(b, p) == \A k \in Kids(p) : ent[b][k] = NoEnt /\ k \notin wh[b]

(* What each step of a call knows of the branches.  HiddenWF alone is not   *)
(* inductive: that the undo steps remove only empty directories rests on    *)
(* what lkup_neg saw before the entry was made.                             *)
CallWF ==
    /\ op.pc \notin {"idle", "oops", "cpdir"} /\ op.p \in Sub
           => ent[op.b][Up[op.p]] = Dir
    /\ op.pc \in {"diriattr", "undir"}
           => NoKids(op.b, Up[op.p]) /\ Up[op.p] \notin opq[op.b]
    /\ op.pc = "make" => ent[op.b][op.p] = NoEnt
    /\ op.pc \in {"mkopq", "rmwh", "inode", "rewh", "rmopq", "unmake"}
           => NoKids(op.b, op.p)
    /\ op.pc = "mkopq" => ent[op.b][op.p] = Dir
    /\ op.pc \in {"copy", "iattr", "store"} => ent[op.b][op.p] \in File
    /\ op.pc \notin {"idle", "oops"} /\ op.kind = "write" => ent[op.bs][op.p] \in File

(* The types of what the branches hold, and the branch that is written. *)
HiddenType ==
    /\ ent \in [Br -> [Path -> Entry]]
    /\ wh \in [Br -> SUBSET Path]
    /\ opq \in [Br -> SUBSET Top]
    /\ op.b \in Br

(* The names of the tree: two levels, nothing inside a Sub name. *)
LEMMA KidsOf ==
    ASSUME NEW p \in Path
    PROVE  /\ p \in Sub => Kids(p) = {} /\ Up[p] \in Top /\ Up[p] \in Path /\ Up[p] # p
           /\ p \notin Kids(p)
           /\ \A k \in Kids(p) : k \in Sub /\ Up[k] = p
BY TreeAssumption DEF Kids, Path

(* Only directories have something inside them or an opaque mark. *)
LEMMA NotDir ==
    ASSUME HiddenWF, NEW b \in Br, NEW p \in Path, ent[b][p] # Dir
    PROVE  NoKids(b, p) /\ p \notin opq[b]
BY KidsOf DEF HiddenWF, WellFormed, NoKids

(* A branch that holds the parent directory in a lookup holds it as one. *)
LEMMA ParentDir ==
    ASSUME NEW p \in Sub, NEW b \in ParentBr(p)
    PROVE  ent[b][Up[p]] = Dir
<1>. DEFINE P == Pos(Br, Up[p])
            H == HDentries(Br, Up[p])
<1>1. p \notin Top
  BY TreeAssumption
<1>2. b \in H /\ IsDirH(H, Up[p])
  BY <1>1 DEF ParentBr
<1>3. P \in SUBSET Br /\ P # {}
  BY <1>2 DEF Pos, HDentries
<1>4. CASE ent[Min(P)][Up[p]] = Dir
  BY <1>2, <1>3, <1>4 DEF HDentries
<1>5. CASE ent[Min(P)][Up[p]] # Dir
  <2>1. H = {Min(P)} /\ Min(P) \in Br
    BY <1>3, <1>5, MinBr DEF HDentries
  <2>2. Min(H) = Min(P)
    <3>1. H \in SUBSET Br /\ H # {}
      BY <2>1
    <3>2. Min(H) \in H
      BY <3>1, MinBr
    <3>. HIDE DEF H, P
    <3>. QED BY <2>1, <3>2
  <2>. QED BY <1>2, <1>5, <2>2 DEF IsDirH
<1>. QED BY <1>4, <1>5

(* An entry changes: a new one needs its directory, and one that holds      *)
(* something stays a directory.                                             *)
LEMMA PutWF ==
    ASSUME HiddenType, HiddenWF, NEW p \in Path, NEW v \in Entry,
           PutEnt(op.b, p, v), wh' = wh, opq' = opq,
           p \in Sub /\ v # NoEnt => ent[op.b][Up[p]] = Dir,
           v # Dir => NoKids(op.b, p) /\ p \notin opq[op.b]
    PROVE  HiddenWF'
<1>0. /\ op.b \in Br /\ ent \in [Br -> [Path -> Entry]] /\ opq \in [Br -> SUBSET Top]
      /\ Sub \subseteq Path /\ Top \subseteq Path
  BY DEF HiddenType, Path
<1>1. \A b \in Br, q \in Path :
          ent'[b][q] = IF b = op.b /\ q = p THEN v ELSE ent[b][q]
  BY <1>0 DEF PutEnt
<1>2. ASSUME NEW b \in Br, NEW k \in Sub, ent'[b][k] # NoEnt \/ k \in wh'[b]
      PROVE  ent'[b][Up[k]] = Dir
  <2>1. Up[k] \in Path /\ k \in Path /\ Up[k] # k /\ k \in Kids(Up[k])
    BY TreeAssumption DEF Path, Kids
  <2>2. CASE b = op.b /\ k = p
    <3>1. ent[b][Up[k]] = Dir
      BY <1>0, <1>1, <1>2, <2>1, <2>2 DEF HiddenWF, WellFormed
    <3>. QED BY <1>1, <2>1, <2>2, <3>1
  <2>3. CASE ~(b = op.b /\ k = p)
    <3>1. (ent[b][k] # NoEnt \/ k \in wh[b]) /\ ent[b][Up[k]] = Dir
      BY <1>0, <1>1, <1>2, <2>1, <2>3 DEF HiddenWF, WellFormed
    <3>2. CASE b = op.b /\ Up[k] = p
      BY <1>1, <2>1, <3>1, <3>2 DEF NoKids
    <3>. QED BY <1>1, <2>1, <3>1, <3>2
  <2>. QED BY <2>2, <2>3
<1>3. ASSUME NEW b \in Br, NEW q \in opq'[b] PROVE ent'[b][q] = Dir
  <2>1. ent[b][q] = Dir /\ q \in Path
    BY <1>0, <1>3 DEF HiddenWF, WellFormed
  <2>. QED BY <1>1, <1>3, <2>1
<1>. QED BY <1>2, <1>3 DEF HiddenWF, WellFormed

(* A whiteout is made in a directory, or removed. *)
LEMMA WhWF ==
    ASSUME HiddenType, HiddenWF, ent' = ent, opq' = opq,
           \/ AddWh(op.b, op.p) /\ (op.p \in Sub => ent[op.b][Up[op.p]] = Dir)
           \/ DelWh(op.b, op.p)
    PROVE  HiddenWF'
<1>0. op.b \in Br /\ wh \in [Br -> SUBSET Path]
  BY DEF HiddenType
<1>1. \A b \in Br : \A k \in wh'[b] :
          k \in wh[b] \/ (b = op.b /\ k = op.p /\ AddWh(op.b, op.p))
  BY <1>0 DEF AddWh, DelWh
<1>2. ASSUME AddWh(op.b, op.p), op.p \in Sub PROVE ent[op.b][Up[op.p]] = Dir
  BY <1>0, <1>2 DEF AddWh, DelWh, HiddenWF, WellFormed
<1>. QED BY <1>1, <1>2 DEF HiddenWF, WellFormed

WFInv == TypeInv /\ HiddenWF /\ CallWF

(* The start of a call establishes what its first step relies on. *)
LEMMA WFBegin ==
    ASSUME WFInv, Begin PROVE HiddenWF' /\ CallWF'
<1>. USE DEF Start, CallWF
<1>1. UNCHANGED <<ent, wh, opq>>
  BY DEF Begin, BeginAdd, BeginRemove, BeginWrite, hidden
<1>2. HiddenWF'
  BY <1>1 DEF WFInv, HiddenWF
<1>3. ASSUME NEW kind \in {"create", "mkdir"}, NEW p \in Path, NEW d, BeginAdd(kind, p, d)
      PROVE  CallWF'
  <2>. DEFINE C == ParentBr(p)
              bs == NegStart(C, p)
  <2>1. C \in SUBSET Br /\ C # {}
    BY <1>3, ParentBrType DEF BeginAdd
  <2>2. op'.p = p /\ op'.kind = kind /\ op'.pc \in {"oops", "make", "cpdir", "negative"}
    BY <1>3 DEF BeginAdd
  <2>3. ASSUME op'.pc = "make"
        PROVE  op'.b \in C /\ ent[op'.b][p] = NoEnt
    BY <1>3, <2>1, <2>3, MinBr DEF BeginAdd, NegStart
  <2>4. ASSUME op'.pc = "negative", p \in Sub PROVE op'.b \in C
    BY <1>3, <2>4 DEF BeginAdd, NoParent
  <2>5. ASSUME op'.pc \in {"make", "negative"}, p \in Sub
        PROVE  ent[op'.b][Up[p]] = Dir
    BY <2>3, <2>4, <2>5, ParentDir
  <2>. QED BY <1>1, <1>3, <2>2, <2>3, <2>5
<1>4. ASSUME NEW kind \in {"unlink", "rmdir"}, NEW p \in Path, BeginRemove(kind, p)
      PROVE  CallWF'
  <2>. DEFINE C == ParentBr(p)
              H == HDentries(C, p)
  <2>1. C \in SUBSET Br /\ H \in SUBSET C /\ H # {}
    BY <1>4, ParentBrType, LookupBr DEF BeginRemove
  <2>2. Min(H) \in C
    BY <2>1, MinBr
  <2>3. op'.p = p /\ op'.kind = kind /\ op'.pc \in {"cpdir", "mkwh", "del"}
    BY <1>4 DEF BeginRemove
  <2>4. ASSUME op'.pc \in {"mkwh", "del"}, p \in Sub PROVE op'.b \in C
    BY <1>4, <2>2, <2>4 DEF BeginRemove, NoParent
  <2>5. ASSUME op'.pc \in {"mkwh", "del"}, p \in Sub PROVE ent[op'.b][Up[p]] = Dir
    BY <2>4, <2>5, ParentDir
  <2>. QED BY <1>1, <1>4, <2>3, <2>5
<1>5. ASSUME NEW p \in Path, NEW d, BeginWrite(p, d)
      PROVE  CallWF'
  <2>. DEFINE C == ParentBr(p)
              H == HDentries(C, p)
  <2>1. C \in SUBSET Br /\ H \in SUBSET C /\ H # {}
    BY <1>5, ParentBrType, LookupBr DEF BeginWrite
  <2>2. Min(H) \in C
    BY <2>1, MinBr
  <2>3. /\ op'.p = p /\ op'.kind = "write" /\ op'.pc \in {"cpdir", "cpfile", "store"}
        /\ op'.bs = Min(H) /\ ent[Min(H)][p] \in File
        /\ op'.pc = "store" => op'.b = Min(H)
    BY <1>5 DEF BeginWrite
  <2>4. ASSUME op'.pc \in {"cpfile", "store"}, p \in Sub PROVE op'.b \in C
    BY <1>5, <2>2, <2>4 DEF BeginWrite, NoParent
  <2>5. ASSUME op'.pc \in {"cpfile", "store"}, p \in Sub PROVE ent[op'.b][Up[p]] = Dir
    BY <2>4, <2>5, ParentDir
  <2>. QED BY <1>1, <1>5, <2>3, <2>5
<1>6. CallWF'
  BY <1>3, <1>4, <1>5 DEF Begin, Path
<1>. QED BY <1>2, <1>6

(* A step that leaves the branches alone. *)
LEMMA WFStill ==
    ASSUME WFInv, UNCHANGED <<ent, wh, opq>>, NEW S, OpTo(S),
           \A pc \in S : \/ pc = "idle"
                         \/ /\ op.pc \notin {"idle", "oops", "cpdir"}
                            /\ pc \in {"negative", "mkwh", "cpfile", "rewh", "rmopq",
                                      "unmake", "unwh", "store", "undir", "inode"}
                            /\ pc \in {"rewh", "rmopq", "unmake", "inode"} => NoKids(op.b, op.p)
                            /\ pc = "undir" => op.pc = "diriattr"
                            /\ pc = "store" => op.pc = "iattr"
    PROVE  HiddenWF' /\ CallWF'
<1>1. HiddenWF'
  BY DEF WFInv, HiddenWF
<1>2. CallWF'
  BY DEF WFInv, OpTo, CallWF, NoKids
<1>. QED BY <1>1, <1>2

(* An entry changes under the name q. *)
LEMMA PutAt ==
    ASSUME HiddenType, NEW q \in Path, NEW v \in Entry, PutEnt(op.b, q, v)
    PROVE  \A b \in Br, r \in Path :
               ent'[b][r] = IF b = op.b /\ r = q THEN v ELSE ent[b][r]
BY DEF HiddenType, PutEnt

(* Every step of a call leaves well formed branches to the next one. *)
LEMMA WFStep ==
    ASSUME WFInv, Step PROVE HiddenWF' /\ CallWF'
<1>. USE DEF hidden
<1>0. /\ HiddenType /\ HiddenWF /\ CallWF /\ CallShape /\ op \in OpType
      /\ op.b \in Br /\ op.bs \in Br /\ op.p \in Path /\ op.d \in Entry /\ op.kind \in Kinds
      /\ ent \in [Br -> [Path -> Entry]] /\ wh \in [Br -> SUBSET Path]
      /\ opq \in [Br -> SUBSET Top]
      /\ Dir \in Entry /\ NoEnt \in Entry /\ Partial \in Entry
      /\ Partial \in File /\ Dir \notin File /\ NoEnt # Dir
  BY EntryAssumption DEF WFInv, TypeInv, TypeOK, OpType, Entry, File, HiddenType
<1>1. ASSUME NEW pc \in Steps, FailTo(pc) \/ UndoFailTo(pc),
             \/ pc = "idle"
             \/ /\ op.pc \notin {"idle", "oops", "cpdir"}
                /\ pc \in {"rmopq", "rewh", "unmake"} /\ NoKids(op.b, op.p)
             \/ pc = "unwh" /\ op.pc = "del"
             \/ pc = "undir" /\ op.pc = "diriattr"
      PROVE  HiddenWF' /\ CallWF'
  <2>1. OpTo({pc}) /\ UNCHANGED <<ent, wh, opq>>
    BY <1>0, <1>1, MoveBy
  <2>. QED BY <1>1, <2>1, WFStill
<1>2. ASSUME op' = [op EXCEPT !.pc = "idle", !.ret = "err"]
             \/ op' = [op EXCEPT !.pc = "idle", !.ret = "eio"] \/ Return,
             UNCHANGED <<ent, wh, opq>>
      PROVE  HiddenWF' /\ CallWF'
  <2>1. OpTo({"idle"})
    BY <1>0, <1>2, MoveBy DEF Rets, Steps
  <2>. QED BY <1>2, <2>1, WFStill
<1>3. ASSUME HiddenWF', Return PROVE CallWF'
  <2>1. op'.pc = "idle"
    BY <1>0, <1>3, MoveBy DEF OpTo, Steps
  <2>. QED BY <2>1 DEF CallWF
<1>4. CASE CpDir
  <2>. DEFINE q == Up[op.p]
  <2>0. op.p \in Sub /\ q \in Top /\ q \in Path /\ q # op.p /\ q \notin Sub
    BY <1>0, <1>4, KidsOf, TreeAssumption DEF CpDir, CallShape
  <2>1. CASE ent[op.b][q] = NoEnt /\ PutEnt(op.b, q, Dir) /\ Goto("diriattr")
             /\ UNCHANGED <<perm, wh, opq, crashes>>
    <3>. HIDE DEF q
    <3>1. HiddenWF'
      BY <1>0, <2>0, <2>1, PutWF
    <3>2. OpTo({"diriattr"})
      BY <1>0, <2>1, MoveBy DEF Steps
    <3>3. NoKids(op.b, q) /\ q \notin opq[op.b]
      BY <1>0, <2>0, <2>1, NotDir
    <3>4. \A k \in Kids(q) : k # q /\ k \in Path
      BY <2>0, KidsOf DEF Kids, Path
    <3>5. /\ op'.pc = "diriattr" /\ op'.b = op.b /\ op'.p = op.p /\ op'.bs = op.bs
          /\ op'.kind = op.kind
          /\ \A b \in Br, r \in Path :
                  ent'[b][r] = IF b = op.b /\ r = q THEN Dir ELSE ent[b][r]
      BY <1>0, <2>0, <2>1, <3>2, PutAt DEF OpTo
    <3>6. CallWF'
      BY <1>0, <2>0, <2>1, <3>3, <3>4, <3>5, <1>4 DEF CallWF, NoKids, CpDir, q
    <3>. QED BY <3>1, <3>6
  <2>. QED BY <1>1, <1>2, <1>4, <2>1 DEF CpDir, Steps
<1>5. CASE DirIattr
  <2>1. CASE Goto(AfterCpDir) /\ UNCHANGED <<perm, ent, wh, opq, crashes>>
    <3>1. AfterCpDir \in {"negative", "mkwh", "cpfile"}
      BY DEF AfterCpDir
    <3>2. OpTo({AfterCpDir})
      BY <1>0, <2>1, <3>1, MoveBy DEF Steps
    <3>. QED BY <1>5, <2>1, <3>1, <3>2, WFStill DEF DirIattr
  <2>. QED BY <1>1, <1>5, <2>1 DEF DirIattr, Steps
<1>6. CASE UnDir
  <2>. DEFINE q == Up[op.p]
  <2>0. op.p \in Sub /\ q \in Top /\ q \in Path /\ q \notin Sub
    BY <1>0, <1>6, KidsOf, TreeAssumption DEF UnDir, CallShape
  <2>1. CASE PutEnt(op.b, q, NoEnt) /\ Return /\ UNCHANGED <<perm, wh, opq, crashes>>
    <3>1. NoKids(op.b, q) /\ q \notin opq[op.b]
      BY <1>0, <1>6 DEF UnDir, CallWF
    <3>2. HiddenWF'
      BY <1>0, <2>0, <2>1, <3>1, PutWF
    <3>. QED BY <1>3, <2>1, <3>2
  <2>. QED BY <1>1, <1>6, <2>1 DEF UnDir, Steps
<1>7. CASE Negative
  <2>1. CASE ent[op.b][op.p] = NoEnt /\ Goto("make") /\ UNCHANGED <<ent, wh, opq>>
    <3>1. OpTo({"make"})
      BY <1>0, <2>1, MoveBy DEF Steps
    <3>2. HiddenWF'
      BY <1>0, <2>1 DEF HiddenWF
    <3>. QED BY <1>0, <1>7, <2>1, <3>1, <3>2 DEF Negative, CallWF, OpTo
  <2>. QED BY <1>2, <1>7, <2>1 DEF Negative
<1>8. CASE Make
  <2>. DEFINE v == IF op.kind = "mkdir" THEN Dir ELSE op.d
              pc == IF op.kind = "mkdir" /\ (op.w \/ AlwaysDiropq) THEN "mkopq" ELSE AfterMake
  <2>0. /\ v \in Entry /\ pc \in {"mkopq", "rmwh", "inode"} /\ (pc = "mkopq" => v = Dir)
        /\ (op.kind = "write" => v \in File)
    BY <1>0, <1>8 DEF AfterMake, CallShape
  <2>1. CASE PutEnt(op.b, op.p, v) /\ Goto(pc) /\ UNCHANGED <<perm, wh, opq, crashes>>
    <3>. HIDE DEF v, pc
    <3>1. NoKids(op.b, op.p) /\ op.p \notin opq[op.b]
          /\ (op.p \in Sub => ent[op.b][Up[op.p]] = Dir)
      BY <1>0, <1>8, NotDir DEF Make, CallWF
    <3>2. HiddenWF'
      BY <1>0, <2>0, <2>1, <3>1, PutWF
    <3>3. OpTo({pc})
      BY <1>0, <2>0, <2>1, MoveBy DEF Steps
    <3>4. \A k \in Kids(op.p) : k # op.p /\ k \in Path
      BY <1>0, KidsOf DEF Kids, Path
    <3>5. op.p \in Sub => Up[op.p] \in Path /\ Up[op.p] # op.p
      BY <1>0, KidsOf
    <3>6. /\ op'.pc = pc /\ op'.b = op.b /\ op'.p = op.p /\ op'.bs = op.bs
          /\ op'.kind = op.kind
          /\ \A b \in Br, r \in Path :
                  ent'[b][r] = IF b = op.b /\ r = op.p THEN v ELSE ent[b][r]
      BY <1>0, <2>0, <2>1, <3>3, PutAt DEF OpTo
    <3>7. NoKids(op.b, op.p)'
      BY <1>0, <2>1, <3>1, <3>4, <3>6 DEF NoKids
    <3>8. CallWF'
      BY <1>0, <1>8, <2>0, <3>1, <3>5, <3>6, <3>7 DEF CallWF, Make
    <3>. QED BY <3>2, <3>8
  <2>. QED BY <1>1, <1>8, <2>1 DEF Make, Steps
<1>9. CASE MkOpq
  <2>1. CASE opq' = [opq EXCEPT ![op.b] = @ \cup {op.p}] /\ Goto(AfterMake)
             /\ UNCHANGED <<perm, ent, wh, crashes>>
    <3>1. ent[op.b][op.p] = Dir
      BY <1>0, <1>9 DEF MkOpq, CallWF
    <3>2. HiddenWF'
      BY <1>0, <2>1, <3>1 DEF HiddenWF, WellFormed
    <3>3. AfterMake \in {"rmwh", "inode"} /\ OpTo({AfterMake})
      BY <1>0, <2>1, MoveBy DEF AfterMake, Steps
    <3>. QED BY <1>0, <1>9, <2>1, <3>2, <3>3 DEF MkOpq, OpTo, CallWF, NoKids
  <2>2. NoKids(op.b, op.p)
    BY <1>0, <1>9 DEF MkOpq, CallWF
  <2>. QED BY <1>1, <1>9, <2>1, <2>2 DEF MkOpq, Steps
<1>10. ASSUME op.pc \in {"rmwh", "inode", "rewh"}
       PROVE  NoKids(op.b, op.p) /\ UndoMake \in {"rmopq", "unmake"}
  BY <1>0, <1>10 DEF CallWF, UndoMake
<1>11. CASE RmWh
  <2>1. CASE DelWh(op.b, op.p) /\ Goto("inode") /\ UNCHANGED <<perm, ent, opq, crashes>>
    <3>1. HiddenWF'
      BY <1>0, <2>1, WhWF
    <3>2. OpTo({"inode"})
      BY <1>0, <2>1, MoveBy DEF Steps
    <3>3. wh'[op.b] \subseteq wh[op.b]
      BY <1>0, <2>1 DEF DelWh
    <3>. QED BY <1>0, <1>11, <2>1, <3>1, <3>2, <3>3 DEF RmWh, OpTo, CallWF, NoKids
  <2>. QED BY <1>1, <1>10, <1>11, <2>1 DEF RmWh, Steps
<1>12. CASE Inode
  BY <1>1, <1>2, <1>10, <1>12 DEF Inode, Steps
<1>13. CASE ReWh
  <2>1. CASE AddWh(op.b, op.p) /\ Goto(UndoMake) /\ UNCHANGED <<perm, ent, opq, crashes>>
    <3>1. op.p \in Sub => ent[op.b][Up[op.p]] = Dir
      BY <1>0, <1>13 DEF ReWh, CallWF
    <3>2. HiddenWF'
      BY <1>0, <2>1, <3>1, WhWF
    <3>3. UndoMake \in {"rmopq", "unmake"} /\ OpTo({UndoMake})
      BY <1>0, <1>10, <1>13, <2>1, MoveBy DEF ReWh, Steps
    <3>4. \A k \in Kids(op.p) : k # op.p
      BY <1>0, KidsOf
    <3>5. NoKids(op.b, op.p)'
      BY <1>0, <1>10, <1>13, <2>1, <3>3, <3>4 DEF ReWh, AddWh, NoKids, OpTo
    <3>. QED BY <1>0, <1>13, <2>1, <3>2, <3>3, <3>5 DEF ReWh, OpTo, CallWF
  <2>. QED BY <1>1, <1>10, <1>13, <2>1 DEF ReWh, Steps
<1>14. CASE RmOpq
  <2>0. NoKids(op.b, op.p)
    BY <1>0, <1>14 DEF RmOpq, CallWF
  <2>1. CASE opq' = [opq EXCEPT ![op.b] = @ \ {op.p}] /\ Goto("unmake")
             /\ UNCHANGED <<perm, ent, wh, crashes>>
    <3>1. HiddenWF'
      BY <1>0, <2>1 DEF HiddenWF, WellFormed
    <3>2. OpTo({"unmake"})
      BY <1>0, <2>1, MoveBy DEF Steps
    <3>. QED BY <1>0, <1>14, <2>0, <2>1, <3>1, <3>2 DEF RmOpq, OpTo, CallWF, NoKids
  <2>. QED BY <1>1, <1>14, <2>0, <2>1 DEF RmOpq, Steps
<1>15. CASE UnMake
  <2>1. CASE op.p \notin opq[op.b] /\ PutEnt(op.b, op.p, NoEnt) /\ Return
             /\ UNCHANGED <<perm, wh, opq, crashes>>
    <3>1. NoKids(op.b, op.p)
      BY <1>0, <1>15 DEF UnMake, CallWF
    <3>2. HiddenWF'
      BY <1>0, <2>1, <3>1, PutWF
    <3>. QED BY <1>3, <2>1, <3>2
  <2>. QED BY <1>1, <1>2, <1>15, <2>1 DEF UnMake, Steps
<1>16. CASE MkWh
  <2>1. CASE AddWh(op.b, op.p) /\ (IF op.b = op.bs THEN Goto("del") ELSE Return)
             /\ UNCHANGED <<perm, ent, opq, crashes>>
    <3>1. op.p \in Sub => ent[op.b][Up[op.p]] = Dir
      BY <1>0, <1>16 DEF MkWh, CallWF
    <3>2. HiddenWF'
      BY <1>0, <2>1, <3>1, WhWF
    <3>3. OpTo({"del", "idle"})
      BY <1>0, <2>1, MoveBy DEF OpTo, Steps
    <3>. QED BY <1>0, <1>16, <2>1, <3>2, <3>3 DEF MkWh, OpTo, CallWF
  <2>. QED BY <1>1, <1>16, <2>1 DEF MkWh, Steps
<1>17. CASE Del
  <2>1. ASSUME ent' = [ent EXCEPT ![op.b] = [q \in Path |->
                          IF q = op.p \/ q \in Kids(op.p) THEN NoEnt ELSE @[q]]],
               wh' = [wh EXCEPT ![op.b] = @ \ Kids(op.p)],
               opq' = [opq EXCEPT ![op.b] = @ \ {op.p}]
        PROVE  HiddenWF'
    <3>1. \A b \in Br, q \in Path :
              ent'[b][q] = IF b = op.b /\ (q = op.p \/ q \in Kids(op.p)) THEN NoEnt
                           ELSE ent[b][q]
      BY <1>0, <2>1
    <3>2. /\ \A b \in Br : \A k \in wh'[b] :
                  k \in wh[b] /\ (b = op.b => k \notin Kids(op.p))
          /\ \A b \in Br : \A k \in opq'[b] : k \in opq[b] /\ (b = op.b => k # op.p)
      BY <1>0, <2>1
    <3>3. ASSUME NEW b \in Br, NEW k \in Sub, ent'[b][k] # NoEnt \/ k \in wh'[b]
          PROVE  ent'[b][Up[k]] = Dir
      <4>1. k \in Path /\ Up[k] \in Path /\ Up[k] \in Top /\ Up[k] \notin Sub
        BY TreeAssumption DEF Path
      <4>2. ent[b][Up[k]] = Dir
        BY <1>0, <3>1, <3>2, <3>3, <4>1 DEF HiddenWF, WellFormed
      <4>3. b = op.b => Up[k] # op.p /\ Up[k] \notin Kids(op.p)
        BY <3>1, <3>2, <3>3, <4>1 DEF Kids
      <4>. QED BY <3>1, <4>1, <4>2, <4>3
    <3>4. ASSUME NEW b \in Br, NEW q \in opq'[b] PROVE ent'[b][q] = Dir
      <4>1. q \in opq[b] /\ q \in Top /\ q \in Path /\ q \notin Sub
        BY <1>0, <3>2, <3>4, TreeAssumption DEF Path
      <4>2. ent[b][q] = Dir /\ (b = op.b => q # op.p /\ q \notin Kids(op.p))
        BY <1>0, <3>2, <3>4, <4>1 DEF HiddenWF, WellFormed, Kids
      <4>. QED BY <3>1, <4>1, <4>2
    <3>. QED BY <3>3, <3>4 DEF HiddenWF, WellFormed
  <2>. QED BY <1>1, <1>3, <1>17, <2>1 DEF Del, Steps
<1>18. CASE UnWh
  <2>1. CASE DelWh(op.b, op.p) /\ Return /\ UNCHANGED <<perm, ent, opq, crashes>>
    <3>1. HiddenWF'
      BY <1>0, <2>1, WhWF
    <3>. QED BY <1>3, <2>1, <3>1
  <2>. QED BY <1>1, <1>18, <2>1 DEF UnWh, Steps
<1>19. CASE CpFile
  <2>1. CASE ent[op.b][op.p] = NoEnt /\ PutEnt(op.b, op.p, Partial) /\ Goto("copy")
             /\ UNCHANGED <<perm, wh, opq, crashes>>
    <3>1. NoKids(op.b, op.p) /\ op.p \notin opq[op.b]
          /\ (op.p \in Sub => ent[op.b][Up[op.p]] = Dir)
      BY <1>0, <1>19, <2>1, NotDir DEF CpFile, CallWF
    <3>2. HiddenWF'
      BY <1>0, <2>1, <3>1, PutWF
    <3>3. OpTo({"copy"})
      BY <1>0, <2>1, MoveBy DEF Steps
    <3>4. op.p \in Sub => Up[op.p] \in Path /\ Up[op.p] # op.p
      BY <1>0, KidsOf
    <3>5. CallWF'
      <4>1. /\ op'.pc = "copy" /\ op'.b = op.b /\ op'.p = op.p /\ op'.bs = op.bs
            /\ op'.kind = op.kind
            /\ \A b \in Br, r \in Path :
                    ent'[b][r] = IF b = op.b /\ r = op.p THEN Partial ELSE ent[b][r]
        BY <1>0, <2>1, <3>3, PutAt DEF OpTo
      <4>. QED BY <1>0, <1>19, <3>1, <3>4, <4>1 DEF CpFile, CallWF
    <3>. QED BY <3>2, <3>5
  <2>. QED BY <1>1, <1>2, <1>19, <2>1 DEF CpFile, Steps
<1>20. ASSUME op.pc \in {"copy", "iattr", "store"}
       PROVE  /\ NoKids(op.b, op.p) /\ op.p \notin opq[op.b]
              /\ op.p \in Sub => ent[op.b][Up[op.p]] = Dir /\ Up[op.p] \in Path /\ Up[op.p] # op.p
              /\ op.kind = "write" /\ op.d \in File
              /\ ent[op.bs][op.p] \in File /\ ent[op.bs][op.p] \in Entry
  BY <1>0, <1>20, NotDir, KidsOf DEF CallWF, CallShape
<1>21. CASE Copy
  <2>1. CASE PutEnt(op.b, op.p, ent[op.bs][op.p]) /\ Goto("iattr")
             /\ UNCHANGED <<perm, wh, opq, crashes>>
    <3>1. HiddenWF'
      BY <1>0, <1>20, <1>21, <2>1, PutWF DEF Copy
    <3>2. OpTo({"iattr"})
      BY <1>0, <2>1, MoveBy DEF Steps
    <3>3. CallWF'
      <4>1. /\ op'.pc = "iattr" /\ op'.b = op.b /\ op'.p = op.p /\ op'.bs = op.bs
            /\ op'.kind = op.kind
            /\ \A b \in Br, r \in Path :
                    ent'[b][r] = IF b = op.b /\ r = op.p THEN ent[op.bs][op.p]
                                 ELSE ent[b][r]
        BY <1>20, <1>21, <2>1, <1>0, <3>2, PutAt DEF Copy, OpTo
      <4>. QED BY <1>0, <1>20, <1>21, <4>1 DEF Copy, CallWF
    <3>. QED BY <3>1, <3>3
  <2>. QED BY <1>1, <1>20, <1>21, <2>1 DEF Copy, Steps
<1>22. CASE Iattr
  <2>1. CASE Goto("store") /\ UNCHANGED <<perm, ent, wh, opq, crashes>>
    <3>1. OpTo({"store"})
      BY <1>0, <2>1, MoveBy DEF Steps
    <3>. QED BY <1>22, <2>1, <3>1, WFStill DEF Iattr
  <2>. QED BY <1>1, <1>20, <1>22, <2>1 DEF Iattr, Steps
<1>23. CASE Store
  <2>1. CASE PutEnt(op.b, op.p, op.d) /\ Return /\ UNCHANGED <<perm, wh, opq, crashes>>
    <3>1. HiddenWF'
      BY <1>0, <1>20, <1>23, <2>1, PutWF DEF Store
    <3>. QED BY <1>3, <2>1, <3>1
  <2>. QED BY <1>1, <1>23, <2>1 DEF Store, Steps
<1>. QED BY <1>4, <1>5, <1>6, <1>7, <1>8, <1>9, <1>11, <1>12, <1>13, <1>14, <1>15, <1>16,
            <1>17, <1>18, <1>19, <1>21, <1>22, <1>23 DEF Step

(* Whatever fails and wherever the machine stops, no entry, whiteout or     *)
(* opaque mark is left on a branch without its directory: the undo steps of *)
(* cpup_dirs, aufs_mkdir and aufs_rmdir remove only what they made.         *)
THEOREM WellFormedSafe == Spec => []HiddenWF
<1>1. Init => WFInv
  BY TypeInit DEF Init, BranchInit, WFInv, HiddenWF, CallWF
<1>2. WFInv /\ [Next]_vars => WFInv'
  <2>. SUFFICES ASSUME WFInv, [Next]_vars PROVE WFInv'
    OBVIOUS
  <2>1. TypeInv'
    BY TypeStep DEF WFInv
  <2>2. CASE Begin
    BY <2>1, <2>2, WFBegin DEF WFInv
  <2>3. CASE Step
    BY <2>1, <2>3, WFStep DEF WFInv
  <2>4. CASE Crash
    <3>1. op \in OpType
      BY DEF WFInv, TypeInv, TypeOK, OpType
    <3>. QED BY <2>1, <2>4, <3>1, CrashMove DEF OpTo, WFInv, HiddenWF, CallWF
  <2>5. CASE UNCHANGED vars
    BY <2>1, <2>5 DEF vars, WFInv, HiddenWF, CallWF, NoKids
  <2>. QED BY <2>2, <2>3, <2>4, <2>5, NextCases
<1>3. WFInv => HiddenWF
  BY DEF WFInv
<1>. QED BY <1>1, <1>2, <1>3, PTL DEF Spec

-----------------------------------------------------------------------------
(* What lookup shows of a name, as a function of what the branches hold     *)
(* under it: e, the entries; W, the branches with its whiteout; O, those    *)
(* with its opaque mark; C, the branches of the parent directory.           *)

Found(e, W, C) == {b \in C : e[b] # NoEnt /\ \A c \in C : c <= b => c \notin W}

Merged(e, W, O, C) ==
    LET P == Found(e, W, C)
    IN  IF P = {} THEN {}
        ELSE IF e[Min(P)] # Dir THEN {Min(P)}
        ELSE {b \in P : e[b] = Dir /\ \A c \in P : c < b /\ e[c] = Dir => c \notin O}

Shown(e, W, O, C) ==
    IF Merged(e, W, O, C) = {} THEN NoEnt ELSE e[Min(Merged(e, W, O, C))]

(* The branches of a directory, for the names inside. *)
Inside(e, W, O) ==
    IF Merged(e, W, O, Br) # {} /\ e[Min(Merged(e, W, O, Br))] = Dir
    THEN Merged(e, W, O, Br) ELSE {}

Ents(p) == [b \in Br |-> ent[b][p]]
Whs(p)  == {b \in Br : HasWh(b, p)}
Opqs(p) == {b \in Br : IsOpq(b, p)}
Dirs(p) == IF p \in Top THEN Br ELSE Inside(Ents(Up[p]), Whs(Up[p]), Opqs(Up[p]))
Seen(p) == Shown(Ents(p), Whs(p), Opqs(p), Dirs(p))

(* The lookup is that function of the branches. *)
LEMMA LookupIs ==
    ASSUME NEW C \in SUBSET Br, NEW p
    PROVE  HDentries(C, p) = Merged(Ents(p), Whs(p), Opqs(p), C)
<1>. DEFINE P == Found(Ents(p), Whs(p), C)
<1>1. Pos(C, p) = P
  BY DEF Pos, Found, Ents, Whs
<1>2. /\ P \in SUBSET Br
      /\ \A b \in Br : Ents(p)[b] = ent[b][p] /\ (b \in Opqs(p) <=> IsOpq(b, p))
  BY DEF Found, Ents, Opqs
<1>. HIDE DEF P
<1>3. P # {} => Min(P) \in Br
  BY <1>2, MinBr
<1>4. Merged(Ents(p), Whs(p), Opqs(p), C) =
        IF P = {} THEN {}
        ELSE IF Ents(p)[Min(P)] # Dir THEN {Min(P)}
        ELSE {b \in P : Ents(p)[b] = Dir /\ \A c \in P : c < b /\ Ents(p)[c] = Dir => c \notin Opqs(p)}
  BY DEF Merged, P
<1>5. HDentries(C, p) =
        IF P = {} THEN {}
        ELSE IF ent[Min(P)][p] # Dir THEN {Min(P)}
        ELSE {b \in P : ent[b][p] = Dir /\ \A c \in P : c < b /\ ent[c][p] = Dir => ~IsOpq(c, p)}
  BY <1>1 DEF HDentries
<1>. QED BY <1>2, <1>3, <1>4, <1>5

(* What a process sees under a name. *)
LEMMA ViewIs ==
    ASSUME NEW p \in Path
    PROVE  ParentBr(p) = Dirs(p) /\ View[p] = Seen(p)
<1>1. ParentBr(p) = Dirs(p)
  <2>1. CASE p \in Top
    BY <2>1 DEF ParentBr, Dirs
  <2>2. CASE p \notin Top
    <3>. DEFINE H == HDentries(Br, Up[p])
    <3>1. H = Merged(Ents(Up[p]), Whs(Up[p]), Opqs(Up[p]), Br)
      BY LookupIs
    <3>2. H \in SUBSET Br
      BY LookupBr
    <3>3. ParentBr(p) = IF H # {} /\ ent[Min(H)][Up[p]] = Dir THEN H ELSE {}
      BY <2>2 DEF ParentBr, IsDirH
    <3>4. Dirs(p) = IF H # {} /\ Ents(Up[p])[Min(H)] = Dir THEN H ELSE {}
      BY <2>2, <3>1 DEF Dirs, Inside
    <3>. HIDE DEF H
    <3>5. H # {} => Ents(Up[p])[Min(H)] = ent[Min(H)][Up[p]]
      BY <3>2, MinBr DEF Ents
    <3>. QED BY <3>3, <3>4, <3>5
  <2>. QED BY <2>1, <2>2
<1>2. View[p] = Seen(p)
  <2>. DEFINE C == ParentBr(p)
              H == HDentries(C, p)
  <2>1. C \in SUBSET Br
    BY ParentBrType
  <2>2. H = Merged(Ents(p), Whs(p), Opqs(p), C) /\ H \in SUBSET Br
    BY <2>1, LookupIs, LookupBr
  <2>3. View[p] = IF H = {} THEN NoEnt ELSE ent[Min(H)][p]
    BY DEF View
  <2>4. Seen(p) = IF H = {} THEN NoEnt ELSE Ents(p)[Min(H)]
    BY <1>1, <2>2 DEF Seen, Shown
  <2>. HIDE DEF H
  <2>5. H # {} => Ents(p)[Min(H)] = ent[Min(H)][p]
    BY <2>2, MinBr DEF Ents
  <2>. QED BY <2>3, <2>4, <2>5
<1>. QED BY <1>1, <1>2

(* What the branches hold of a name decides what is seen under it. *)
LEMMA SameSeen ==
    ASSUME NEW p \in Path, perm' = perm,
           \A q \in Path : q = p \/ (p \in Sub /\ q = Up[p]) =>
               \A b \in Br : /\ ent'[b][q] = ent[b][q]
                             /\ q \in wh'[b] <=> q \in wh[b]
                             /\ q \in opq'[b] <=> q \in opq[b]
    PROVE  Seen(p)' = Seen(p)
<1>1. ASSUME NEW q \in Path, q = p \/ (p \in Sub /\ q = Up[p])
      PROVE  Ents(q)' = Ents(q) /\ Whs(q)' = Whs(q) /\ Opqs(q)' = Opqs(q)
  BY <1>1 DEF Ents, Whs, Opqs, HasWh, IsOpq, Whable
<1>2. p \notin Top => p \in Sub /\ Up[p] \in Path
  BY TreeAssumption DEF Path
<1>3. Dirs(p)' = Dirs(p)
  BY <1>1, <1>2 DEF Dirs
<1>. QED BY <1>1, <1>3 DEF Seen

(* b lacks a directory that lookup merges from bs, below b. *)
Lacks(e, W, O, b, bs) ==
    /\ e \in [Br -> Entry] /\ b \in Br /\ bs \in Br
    /\ e[b] = NoEnt /\ b \notin O /\ b < bs
    /\ bs \in Inside(e, W, O)

WithDir(e, b) == [e EXCEPT ![b] = Dir]

(* A copied directory joins the ones it was merged from, and still shows    *)
(* as a directory: what cpup_dirs does to the parent of the name.           *)
LEMMA AddDir ==
    ASSUME NEW e, NEW W, NEW O, NEW b, NEW bs, Lacks(e, W, O, b, bs)
    PROVE  /\ Inside(WithDir(e, b), W, O) = Inside(e, W, O) \cup {b}
           /\ Inside(e, W, O) # {} /\ Inside(e, W, O) \subseteq Br
           /\ Shown(e, W, O, Br) = Dir /\ Shown(WithDir(e, b), W, O, Br) = Dir
<1>. DEFINE f == [e EXCEPT ![b] = Dir]
            P == Found(e, W, Br)
            Q == Found(f, W, Br)
            H == Merged(e, W, O, Br)
            J == Merged(f, W, O, Br)
<1>0. /\ e \in [Br -> Entry] /\ b \in Br /\ bs \in Br /\ e[b] = NoEnt /\ b \notin O /\ b < bs
      /\ NoEnt # Dir /\ Br \subseteq Int /\ Dir \in Entry
  BY EntryAssumption, BranchAssumption DEF Lacks, Br, Entry
<1>1. bs \in H /\ H # {} /\ e[Min(H)] = Dir /\ Inside(e, W, O) = H
  BY DEF Lacks, Inside
<1>2. P \in SUBSET Br /\ H \in SUBSET P /\ P # {}
  <2>1. P \in SUBSET Br
    BY DEF Found
  <2>2. P # {} => Min(P) \in P
    BY <2>1, MinBr
  <2>. QED BY <1>1, <2>1, <2>2 DEF Merged
<1>3. e[Min(P)] = Dir
  <2>1. Min(H) \in H
    BY <1>1, <1>2, MinBr
  <2>2. e[Min(P)] # Dir => H = {Min(P)}
    BY <1>2 DEF Merged
  <2>. HIDE DEF H, P
  <2>. QED BY <1>1, <2>1, <2>2
<1>4. H = {c \in P : e[c] = Dir /\ \A d \in P : d < c /\ e[d] = Dir => d \notin O}
  BY <1>2, <1>3 DEF Merged
<1>5. \A c \in Br : c <= bs => c \notin W
  BY <1>0, <1>1, <1>2 DEF Found
<1>6. \A c \in Br : f[c] = IF c = b THEN Dir ELSE e[c]
  BY <1>0
<1>7. Q = P \cup {b} /\ Q \in SUBSET Br
  <2>1. b \in Q
    BY <1>0, <1>5, <1>6 DEF Found
  <2>2. ASSUME NEW c \in Br, c # b PROVE c \in Q <=> c \in P
    BY <1>6, <2>2 DEF Found
  <2>3. Q \in SUBSET Br
    BY DEF Found
  <2>. HIDE DEF P, Q
  <2>. QED BY <1>2, <2>1, <2>2, <2>3
<1>. HIDE DEF P, Q, H, J, f
<1>8. f[Min(Q)] = Dir
  <2>1. /\ Min(Q) \in Q /\ \A y \in Q : Min(Q) <= y
        /\ Min(P) \in P /\ \A y \in P : Min(P) <= y
    BY <1>2, <1>7, MinBr
  <2>2. Min(Q) = b \/ Min(Q) = Min(P)
    <3>. SUFFICES ASSUME Min(Q) # b PROVE Min(Q) = Min(P)
      OBVIOUS
    <3>1. Min(Q) \in P /\ Min(P) \in Q
      BY <1>7, <2>1
    <3>2. Min(Q) <= Min(P) /\ Min(P) <= Min(Q) /\ Min(P) \in Int /\ Min(Q) \in Int
      BY <1>0, <1>2, <2>1, <3>1
    <3>. QED BY <3>2
  <2>. QED BY <1>2, <1>3, <1>6, <1>7, <2>1, <2>2
<1>9. J = {c \in Q : f[c] = Dir /\ \A d \in Q : d < c /\ f[d] = Dir => d \notin O}
  BY <1>7, <1>8 DEF J, Q, Merged
<1>10. J = H \cup {b}
  <2>1. b \in J
    <3>. SUFFICES ASSUME NEW d \in Q, d < b, f[d] = Dir PROVE d \notin O
      BY <1>0, <1>6, <1>7, <1>9
    <3>1. d \in P /\ e[d] = Dir /\ d < bs /\ d \in Br
      BY <1>0, <1>2, <1>6, <1>7
    <3>. QED BY <1>1, <1>4, <3>1
  <2>2. ASSUME NEW c \in Br, c # b PROVE c \in J <=> c \in H
    BY <1>0, <1>2, <1>4, <1>6, <1>7, <1>9, <2>2
  <2>3. J \in SUBSET Br
    BY <1>7, <1>9
  <2>. QED BY <1>2, <2>1, <2>2, <2>3
<1>11. f[Min(J)] = Dir /\ J # {}
  <2>1. J \in SUBSET Br /\ J # {} /\ \A c \in J : f[c] = Dir
    BY <1>7, <1>9, <1>10
  <2>. QED BY <2>1, MinBr
<1>12. Inside(f, W, O) = J
  BY <1>11 DEF Inside, J
<1>13. Shown(e, W, O, Br) = Dir /\ Shown(f, W, O, Br) = Dir
  BY <1>1, <1>11 DEF Shown, H, J
<1>. QED BY <1>1, <1>2, <1>10, <1>12, <1>13 DEF f, WithDir

(* A branch that holds nothing of a name does not change what it shows. *)
LEMMA AddBranch ==
    ASSUME NEW e, NEW W, NEW O, NEW C \in SUBSET Br, NEW b \in Br, e[b] = NoEnt, b \notin W
    PROVE  Shown(e, W, O, C \cup {b}) = Shown(e, W, O, C)
<1>1. Found(e, W, C \cup {b}) = Found(e, W, C)
  BY DEF Found
<1>2. Merged(e, W, O, C \cup {b}) = Merged(e, W, O, C)
  BY <1>1 DEF Merged
<1>. QED BY <1>2 DEF Shown

(* What a step of a call knows of the directory that cpup_dirs makes. *)
ParentKnown ==
    \A u \in Top : u = Up[op.p] =>
        /\ op.pc = "cpdir" /\ ent[op.b][u] = NoEnt
               => Lacks(Ents(u), Whs(u), Opqs(u), op.b, op.bs)
        /\ op.pc \in {"diriattr", "undir"}
               => Lacks([Ents(u) EXCEPT ![op.b] = NoEnt], Whs(u), Opqs(u), op.b, op.bs)

(* The names a call is not about look as they did when it began, at every   *)
(* step of it.                                                              *)
OthersInv == \A q \in Path : q # op.p /\ q \notin Kids(op.p) => Seen(q) = op.before[q]

SeenInv == WFInv /\ ParentKnown /\ OthersInv

(* The branch that is written is at or above the one the name starts on. *)
LEMMA WrBranchAbove ==
    ASSUME NEW C \in SUBSET Br, NEW bs \in Br
    PROVE  \A b \in WrBranch(C, bs) : b \in Br /\ (b = bs \/ b < bs)
<1>1. /\ RwAtOrAbove(C, bs) \in SUBSET Br /\ RwAtOrAbove(Br, bs) \in SUBSET Br
      /\ \A b \in RwAtOrAbove(C, bs) \cup RwAtOrAbove(Br, bs) : b <= bs
  BY DEF RwAtOrAbove
<1>2. RwAtOrAbove(C, bs) # {} => Min(RwAtOrAbove(C, bs)) \in RwAtOrAbove(C, bs)
  BY <1>1, MinBr
<1>3. RwAtOrAbove(Br, bs) # {} => Max(RwAtOrAbove(Br, bs)) \in RwAtOrAbove(Br, bs)
  BY <1>1, MaxBr
<1>. SUFFICES ASSUME NEW b \in WrBranch(C, bs) PROVE b \in Br /\ (b = bs \/ b < bs)
  OBVIOUS
<1>4. \/ b = bs \/ b \in RwAtOrAbove(C, bs) \/ b \in RwAtOrAbove(Br, bs)
  BY <1>2, <1>3 DEF WrBranch
<1>5. b \in Br /\ (b = bs \/ b <= bs)
  BY <1>1, <1>4
<1>. QED BY <1>5, BranchAssumption DEF Br

(* A call that has to copy the parent directory up. *)
LEMMA BeginLacks ==
    ASSUME WFInv, Begin, op'.pc = "cpdir"
    PROVE  /\ op'.p \in Sub /\ op'.b \in Br /\ op'.b < op'.bs
           /\ op'.bs \in ParentBr(op'.p)
<1>. USE DEF Start
<1>1. ASSUME NEW kind, NEW p, NEW d, BeginAdd(kind, p, d)
      PROVE  p \in Sub /\ op'.p = p /\ op'.b \in Br /\ op'.b < op'.bs /\ op'.bs \in ParentBr(p)
  <2>. DEFINE C == ParentBr(p)
              bs == NegStart(C, p)
  <2>1. C \in SUBSET Br /\ C # {}
    BY <1>1, ParentBrType DEF BeginAdd
  <2>2. Min(C) \in C
    BY <2>1, MinBr
  <2>3. PICK b \in WrBranch(C, bs) :
            /\ bs # -1 /\ op'.p = p /\ op'.b = b /\ op'.bs = bs
            /\ b # bs /\ NoParent(b, p)
    BY <1>1 DEF BeginAdd
  <2>4. bs \in C
    BY <2>2, <2>3 DEF NegStart
  <2>. HIDE DEF C, bs
  <2>5. b \in Br /\ b < bs
    BY <2>1, <2>3, <2>4, WrBranchAbove
  <2>. QED BY <2>3, <2>4, <2>5 DEF NoParent, C
<1>2. ASSUME NEW p, HDentries(ParentBr(p), p) # {},
             NEW b \in WrBranch(ParentBr(p), Min(HDentries(ParentBr(p), p))),
             b # Min(HDentries(ParentBr(p), p)), NoParent(b, p)
      PROVE  /\ p \in Sub /\ b \in Br /\ b < Min(HDentries(ParentBr(p), p))
             /\ Min(HDentries(ParentBr(p), p)) \in ParentBr(p)
  <2>. DEFINE C == ParentBr(p)
              H == HDentries(C, p)
  <2>1. C \in SUBSET Br /\ H \in SUBSET C /\ H # {}
    BY <1>2, ParentBrType, LookupBr
  <2>2. Min(H) \in C
    BY <2>1, MinBr
  <2>. HIDE DEF C, H
  <2>3. b \in Br /\ b < Min(H)
    BY <1>2, <2>1, <2>2, WrBranchAbove DEF C, H
  <2>. QED BY <1>2, <2>2, <2>3 DEF NoParent, C, H
<1>3. ASSUME NEW kind, NEW p, BeginRemove(kind, p)
      PROVE  p \in Sub /\ op'.p = p /\ op'.b \in Br /\ op'.b < op'.bs /\ op'.bs \in ParentBr(p)
  <2>1. PICK b \in WrBranch(ParentBr(p), Min(HDentries(ParentBr(p), p))) :
            /\ HDentries(ParentBr(p), p) # {}
            /\ op'.p = p /\ op'.b = b /\ op'.bs = Min(HDentries(ParentBr(p), p))
            /\ b # Min(HDentries(ParentBr(p), p)) /\ NoParent(b, p)
    BY <1>3 DEF BeginRemove
  <2>. QED BY <1>2, <2>1
<1>4. ASSUME NEW p, NEW d, BeginWrite(p, d)
      PROVE  p \in Sub /\ op'.p = p /\ op'.b \in Br /\ op'.b < op'.bs /\ op'.bs \in ParentBr(p)
  <2>1. PICK b \in WrBranch(ParentBr(p), Min(HDentries(ParentBr(p), p))) :
            /\ HDentries(ParentBr(p), p) # {}
            /\ op'.p = p /\ op'.b = b /\ op'.bs = Min(HDentries(ParentBr(p), p))
            /\ b # Min(HDentries(ParentBr(p), p)) /\ NoParent(b, p)
    BY <1>4 DEF BeginWrite
  <2>. QED BY <1>2, <2>1
<1>. QED BY <1>1, <1>3, <1>4 DEF Begin

(* The start of a call. *)
LEMMA SeenBegin ==
    ASSUME WFInv, Begin PROVE ParentKnown' /\ OthersInv'
<1>1. UNCHANGED <<perm, ent, wh, opq>> /\ op'.before = View
      /\ op'.pc \notin {"diriattr", "undir"}
  BY DEF Begin, BeginAdd, BeginRemove, BeginWrite, Start, hidden
<1>2. \A q \in Path : Seen(q)' = Seen(q) /\ View[q] = Seen(q)
  BY <1>1, SameSeen, ViewIs
<1>3. OthersInv'
  BY <1>1, <1>2 DEF OthersInv
<1>4. ASSUME NEW u \in Top, u = Up[op'.p], op'.pc = "cpdir", ent[op'.b][u] = NoEnt
      PROVE  Lacks(Ents(u), Whs(u), Opqs(u), op'.b, op'.bs)
  <2>1. PICK p \in Sub : /\ op'.p = p /\ op'.b \in Br /\ op'.b < op'.bs
                         /\ op'.bs \in ParentBr(p)
    BY <1>4, BeginLacks
  <2>2. p \in Path /\ p \notin Top /\ u \in Path /\ u = Up[p]
    BY <1>4, <2>1, TreeAssumption DEF Path
  <2>3. op'.bs \in Inside(Ents(u), Whs(u), Opqs(u))
    BY <2>1, <2>2, ViewIs DEF Dirs
  <2>4. op'.bs \in Br
    BY <2>1, ParentBrType
  <2>5. HiddenWF /\ ent[op'.b][u] # Dir /\ ent \in [Br -> [Path -> Entry]]
    BY <1>4, EntryAssumption DEF WFInv, TypeInv, TypeOK
  <2>6. op'.b \notin Opqs(u)
    BY <2>1, <2>2, <2>5, NotDir DEF Opqs, IsOpq
  <2>7. Ents(u) \in [Br -> Entry] /\ Ents(u)[op'.b] = NoEnt
    BY <1>4, <2>1, <2>2, <2>5 DEF Ents
  <2>. QED BY <2>1, <2>3, <2>4, <2>6, <2>7 DEF Lacks
<1>5. ASSUME NEW u \in Top
      PROVE  Ents(u)' = Ents(u) /\ Whs(u)' = Whs(u) /\ Opqs(u)' = Opqs(u)
  BY <1>1 DEF Ents, Whs, Opqs, HasWh, IsOpq, Whable
<1>6. ParentKnown'
  BY <1>1, <1>4, <1>5 DEF ParentKnown
<1>. QED BY <1>3, <1>6

(* Nothing changes under the name q on any branch. *)
SameOn(q) == \A b \in Br : /\ ent'[b][q] = ent[b][q]
                           /\ q \in wh'[b] <=> q \in wh[b]
                           /\ q \in opq'[b] <=> q \in opq[b]

(* A step of a call touches the name of the call and the names inside it,  *)
(* but for the two steps that make or remove its parent directory.          *)
LEMMA StepTouches ==
    ASSUME WFInv, Step, NEW q \in Path, q # op.p, q \notin Kids(op.p),
           op.pc \in {"cpdir", "undir"} => UNCHANGED <<ent, wh, opq>>
    PROVE  SameOn(q)
<1>. USE DEF SameOn
<1>0. /\ HiddenType /\ op.b \in Br /\ op.bs \in Br /\ op.p \in Path /\ op.d \in Entry
      /\ ent \in [Br -> [Path -> Entry]] /\ wh \in [Br -> SUBSET Path]
      /\ opq \in [Br -> SUBSET Top]
      /\ Dir \in Entry /\ NoEnt \in Entry /\ Partial \in Entry
  BY DEF WFInv, TypeInv, TypeOK, OpType, Entry, File, HiddenType
<1>1. ASSUME UNCHANGED <<ent, wh, opq>> PROVE SameOn(q)
  BY <1>1
<1>2. ASSUME NEW pc, FailTo(pc) \/ UndoFailTo(pc) PROVE SameOn(q)
  BY <1>2 DEF FailTo, UndoFailTo, hidden
<1>3. ASSUME NEW v \in Entry, PutEnt(op.b, op.p, v), UNCHANGED <<wh, opq>> PROVE SameOn(q)
  BY <1>0, <1>3, PutAt
<1>4. ASSUME AddWh(op.b, op.p) \/ DelWh(op.b, op.p), UNCHANGED <<ent, opq>> PROVE SameOn(q)
  BY <1>0, <1>4 DEF AddWh, DelWh
<1>5. CASE CpDir \/ UnDir
  BY <1>1, <1>5 DEF CpDir, UnDir
<1>6. CASE DirIattr \/ Negative \/ Inode \/ Iattr
  BY <1>1, <1>2, <1>6 DEF DirIattr, Negative, Inode, Iattr, hidden
<1>7. CASE Make
  BY <1>0, <1>2, <1>3, <1>7 DEF Make
<1>8. CASE MkOpq
  BY <1>0, <1>2, <1>8 DEF MkOpq
<1>9. CASE RmWh \/ ReWh \/ MkWh \/ UnWh
  BY <1>2, <1>4, <1>9 DEF RmWh, ReWh, MkWh, UnWh
<1>10. CASE RmOpq
  BY <1>0, <1>2, <1>10 DEF RmOpq
<1>11. CASE UnMake
  BY <1>0, <1>1, <1>2, <1>3, <1>11 DEF UnMake, hidden
<1>12. CASE Del
  <2>1. ASSUME ent' = [ent EXCEPT ![op.b] = [r \in Path |->
                          IF r = op.p \/ r \in Kids(op.p) THEN NoEnt ELSE @[r]]],
               wh' = [wh EXCEPT ![op.b] = @ \ Kids(op.p)],
               opq' = [opq EXCEPT ![op.b] = @ \ {op.p}]
        PROVE  SameOn(q)
    <3>1. \A b \in Br : ent'[b][q] = ent[b][q]
      BY <1>0, <2>1
    <3>2. \A b \in Br : (q \in wh'[b] <=> q \in wh[b]) /\ (q \in opq'[b] <=> q \in opq[b])
      BY <1>0, <2>1
    <3>. QED BY <3>1, <3>2
  <2>. QED BY <1>2, <1>12, <2>1 DEF Del
<1>13. CASE CpFile
  BY <1>0, <1>1, <1>2, <1>3, <1>13 DEF CpFile, hidden
<1>14. CASE Copy
  <2>1. ent[op.bs][op.p] \in Entry
    BY <1>0
  <2>. QED BY <1>2, <1>3, <1>14, <2>1 DEF Copy
<1>15. CASE Store
  BY <1>0, <1>2, <1>3, <1>15 DEF Store
<1>. QED BY <1>5, <1>6, <1>7, <1>8, <1>9, <1>10, <1>11, <1>12, <1>13, <1>14, <1>15 DEF Step

(* The parent directory is made on the branch to be written, or removed     *)
(* again: nothing seen changes, neither the directory nor what it contains. *)
LEMMA DirTouches ==
    ASSUME HiddenType, NEW u \in Top, NEW v \in {Dir, NoEnt}, NEW e,
           perm' = perm, wh' = wh, opq' = opq, PutEnt(op.b, u, v),
           NEW bs, Lacks(e, Whs(u), Opqs(u), op.b, bs), NoKids(op.b, u),
           \/ Ents(u) = e /\ Ents(u)' = [e EXCEPT ![op.b] = Dir]
           \/ Ents(u)' = e /\ Ents(u) = [e EXCEPT ![op.b] = Dir]
    PROVE  \A q \in Path : Seen(q)' = Seen(q)
<1>. SUFFICES ASSUME NEW q \in Path PROVE Seen(q)' = Seen(q)
  OBVIOUS
<1>0. /\ op.b \in Br /\ u \in Path /\ u \notin Sub /\ v \in Entry
      /\ (q \in Sub => Up[q] \in Path /\ Up[q] \in Top /\ q \notin Top)
      /\ (q \notin Sub => q \in Top)
  BY TreeAssumption DEF HiddenType, Path, Entry
<1>1. \A b \in Br, r \in Path :
          ent'[b][r] = IF b = op.b /\ r = u THEN v ELSE ent[b][r]
  BY <1>0, PutAt
<1>2. \A r \in Path : Whs(r)' = Whs(r) /\ Opqs(r)' = Opqs(r)
  BY DEF Whs, Opqs, HasWh, IsOpq, Whable
<1>3. \A r \in Path : r # u => Ents(r)' = Ents(r)
  BY <1>1 DEF Ents
<1>. DEFINE f == WithDir(e, op.b)
            I == Inside(e, Whs(u), Opqs(u))
<1>4. /\ Inside(f, Whs(u), Opqs(u)) = I \cup {op.b} /\ I \subseteq Br
      /\ Shown(e, Whs(u), Opqs(u), Br) = Dir /\ Shown(f, Whs(u), Opqs(u), Br) = Dir
  BY AddDir
<1>. HIDE DEF f, I
<1>5. CASE q = u
  BY <1>0, <1>2, <1>4, <1>5 DEF Seen, Dirs, f, WithDir
<1>6. CASE q \in Sub /\ Up[q] = u
  <2>1. Ents(q)[op.b] = NoEnt /\ op.b \notin Whs(q)
    BY <1>0, <1>6 DEF NoKids, Kids, Ents, Whs, HasWh
  <2>2. Shown(Ents(q), Whs(q), Opqs(q), I \cup {op.b}) = Shown(Ents(q), Whs(q), Opqs(q), I)
    BY <1>0, <1>4, <2>1, AddBranch
  <2>3. \/ Dirs(q) = I /\ Dirs(q)' = I \cup {op.b}
        \/ Dirs(q)' = I /\ Dirs(q) = I \cup {op.b}
    BY <1>0, <1>2, <1>4, <1>6 DEF Dirs, f, I, WithDir
  <2>4. Ents(q)' = Ents(q) /\ Whs(q)' = Whs(q) /\ Opqs(q)' = Opqs(q)
    BY <1>0, <1>2, <1>3, <1>6
  <2>. QED BY <2>2, <2>3, <2>4 DEF Seen
<1>7. CASE q # u /\ ~(q \in Sub /\ Up[q] = u)
  BY <1>0, <1>1, <1>7, SameSeen
<1>. QED BY <1>5, <1>6, <1>7

(* Every step of a call leaves the names it is not about as they looked. *)
LEMMA SeenStep ==
    ASSUME SeenInv, Step PROVE ParentKnown' /\ OthersInv'
<1>0. /\ WFInv /\ HiddenWF /\ CallWF /\ CallShape /\ HiddenType /\ op \in OpType
      /\ op.b \in Br /\ op.p \in Path /\ ent \in [Br -> [Path -> Entry]]
      /\ Dir \in Entry /\ NoEnt \in Entry
  BY DEF SeenInv, WFInv, TypeInv, TypeOK, OpType, Entry, HiddenType
<1>1. OpTo(Steps) /\ perm' = perm
  BY <1>0, StepMove, StepTarget DEF WFInv, OnlyTarget
<1>2. ASSUME NEW q \in Path, q # op.p, q \notin Kids(op.p), Seen(q)' = Seen(q)
      PROVE  Seen(q)' = op'.before[q]
  BY <1>1, <1>2 DEF SeenInv, OthersInv, OpTo
<1>3. op'.p = op.p /\ Kids(op'.p) = Kids(op.p)
  BY <1>1 DEF OpTo
<1>4. ASSUME op.pc \in {"cpdir", "undir"} => UNCHANGED <<ent, wh, opq>>
      PROVE  OthersInv'
  <2>. SUFFICES ASSUME NEW q \in Path, q # op.p, q \notin Kids(op.p)
                PROVE  Seen(q)' = Seen(q)
    BY <1>2, <1>3 DEF OthersInv, Kids
  <2>1. ASSUME NEW r \in Path, r = q \/ (q \in Sub /\ r = Up[q])
        PROVE  r # op.p /\ r \notin Kids(op.p)
    BY <1>0, <2>1, TreeAssumption DEF Kids, Path
  <2>2. ASSUME NEW r \in Path, r = q \/ (q \in Sub /\ r = Up[q]) PROVE SameOn(r)
    BY <1>0, <1>4, <2>1, <2>2, StepTouches
  <2>. QED BY <1>1, <2>2, SameSeen DEF SameOn
<1>5. ASSUME UNCHANGED <<ent, wh, opq>>, op'.pc \in {"cpdir", "diriattr", "undir"} =>
                 op'.pc = "undir" /\ op.pc = "diriattr"
      PROVE  ParentKnown'
  <2>. SUFFICES ASSUME NEW u \in Top, u = Up[op'.p], op'.pc = "undir"
                PROVE  Lacks([Ents(u) EXCEPT ![op.b] = NoEnt], Whs(u), Opqs(u), op.b, op.bs)'
    BY <1>5 DEF ParentKnown
  <2>1. Ents(u)' = Ents(u) /\ Whs(u)' = Whs(u) /\ Opqs(u)' = Opqs(u)
    BY <1>1, <1>5 DEF Ents, Whs, Opqs, HasWh, IsOpq, Whable
  <2>. QED BY <1>1, <1>5, <2>1 DEF SeenInv, ParentKnown, OpTo
<1>6. CASE op.pc \notin {"cpdir", "undir", "diriattr"}
  <2>1. op'.pc \notin {"cpdir", "diriattr", "undir"}
    BY <1>0, <1>6, Moves DEF Step, OpTo, CpDir, DirIattr, UnDir
  <2>. QED BY <1>4, <1>6, <2>1 DEF ParentKnown
<1>7. CASE op.pc = "diriattr"
  <2>1. DirIattr
    BY <1>7 DEF Step, CpDir, UnDir, Negative, Make, MkOpq, RmWh, Inode, ReWh, RmOpq, UnMake, MkWh, Del, UnWh, CpFile, Copy, Iattr, Store
  <2>2. UNCHANGED <<ent, wh, opq>>
    BY <2>1 DEF DirIattr, FailTo, hidden
  <2>3. op'.pc \in {"negative", "mkwh", "cpfile", "undir"}
    BY <1>0, <2>1, Moves DEF OpTo
  <2>. QED BY <1>4, <1>5, <1>7, <2>2, <2>3
<1>8. CASE op.pc \in {"cpdir", "undir"}
  <2>1. CpDir \/ UnDir
    BY <1>8 DEF Step, DirIattr, Negative, Make, MkOpq, RmWh, Inode, ReWh, RmOpq, UnMake, MkWh, Del, UnWh, CpFile, Copy, Iattr, Store
  <2>2. PICK u \in Top : u = Up[op.p]
    BY <1>0, <1>8, TreeAssumption DEF CallShape
  <2>3. u \in Path
    BY <2>2 DEF Path
  <2>4. CASE UNCHANGED <<ent, wh, opq>>
    <3>1. op'.pc # "diriattr" => op'.pc = "idle"
      BY <1>0, <2>1, Moves DEF OpTo
    <3>2. op'.pc # "diriattr"
      <4>1. CpDir /\ ent' = ent => op'.pc # "diriattr"
        <5>. SUFFICES ASSUME CpDir, ent' = ent, ent[op.b][Up[op.p]] = NoEnt,
                             PutEnt(op.b, Up[op.p], Dir)
                      PROVE  FALSE
          BY <1>0, MoveBy DEF CpDir, OpTo, Steps, Rets
        <5>1. ent'[op.b][u] = Dir
          BY <1>0, <2>2, <2>3, PutAt
        <5>. QED BY <2>2, <5>1, EntryAssumption
      <4>2. UnDir => op'.pc = "idle"
        BY <1>0, Moves DEF OpTo
      <4>. QED BY <2>1, <2>4, <4>1, <4>2
    <3>. QED BY <1>4, <1>5, <2>4, <3>1, <3>2
  <2>5. CASE CpDir /\ ~UNCHANGED <<ent, wh, opq>>
    <3>1. /\ ent[op.b][u] = NoEnt /\ PutEnt(op.b, u, Dir) /\ Goto("diriattr")
          /\ wh' = wh /\ opq' = opq /\ op.pc = "cpdir"
      BY <2>2, <2>5 DEF CpDir, FailTo, hidden
    <3>2. Lacks(Ents(u), Whs(u), Opqs(u), op.b, op.bs)
      BY <2>2, <3>1 DEF SeenInv, ParentKnown
    <3>3. Ents(u)' = [Ents(u) EXCEPT ![op.b] = Dir]
          /\ [Ents(u)' EXCEPT ![op.b] = NoEnt] = Ents(u)
      <4>1. \A b \in Br, r \in Path :
                ent'[b][r] = IF b = op.b /\ r = u THEN Dir ELSE ent[b][r]
        BY <1>0, <2>3, <3>1, PutAt
      <4>2. /\ Ents(u) = [b \in Br |-> ent[b][u]]
            /\ Ents(u)' = [b \in Br |-> IF b = op.b THEN Dir ELSE ent[b][u]]
        BY <2>3, <4>1 DEF Ents
      <4>. QED BY <1>0, <3>1, <4>2
    <3>4. NoKids(op.b, u)
      BY <1>0, <2>3, <3>1, NotDir, EntryAssumption
    <3>5. \A q \in Path : Seen(q)' = Seen(q)
      BY <1>0, <1>1, <3>1, <3>2, <3>3, <3>4, DirTouches
    <3>6. OthersInv'
      BY <1>2, <1>3, <3>5 DEF OthersInv, Kids
    <3>7. Whs(u)' = Whs(u) /\ Opqs(u)' = Opqs(u)
      BY <1>1, <3>1 DEF Whs, Opqs, HasWh, IsOpq, Whable
    <3>8. op'.pc = "diriattr"
      BY <1>0, <3>1, MoveBy DEF OpTo, Steps
    <3>9. ParentKnown'
      BY <1>1, <2>2, <3>2, <3>3, <3>7, <3>8 DEF ParentKnown, OpTo
    <3>. QED BY <3>6, <3>9
  <2>6. CASE UnDir /\ ~UNCHANGED <<ent, wh, opq>>
    <3>1. /\ PutEnt(op.b, u, NoEnt) /\ Return /\ wh' = wh /\ opq' = opq /\ op.pc = "undir"
      BY <2>2, <2>6 DEF UnDir, UndoFailTo, hidden
    <3>. DEFINE e == [Ents(u) EXCEPT ![op.b] = NoEnt]
    <3>2. Lacks(e, Whs(u), Opqs(u), op.b, op.bs)
      BY <2>2, <3>1 DEF SeenInv, ParentKnown
    <3>3. ent[op.b][u] = Dir
      BY <1>0, <2>2, <3>1 DEF CallWF, CallShape
    <3>4. Ents(u)' = e /\ Ents(u) = [e EXCEPT ![op.b] = Dir]
      <4>1. \A b \in Br, r \in Path :
                ent'[b][r] = IF b = op.b /\ r = u THEN NoEnt ELSE ent[b][r]
        BY <1>0, <2>3, <3>1, PutAt
      <4>2. /\ Ents(u) = [b \in Br |-> ent[b][u]]
            /\ Ents(u)' = [b \in Br |-> IF b = op.b THEN NoEnt ELSE ent[b][u]]
        BY <2>3, <4>1 DEF Ents
      <4>. QED BY <1>0, <3>3, <4>2
    <3>5. NoKids(op.b, u)
      BY <1>0, <2>2, <3>1 DEF CallWF
    <3>. HIDE DEF e
    <3>6. \A q \in Path : Seen(q)' = Seen(q)
      BY <1>0, <1>1, <3>1, <3>2, <3>4, <3>5, DirTouches
    <3>7. OthersInv'
      BY <1>2, <1>3, <3>6 DEF OthersInv, Kids
    <3>8. op'.pc = "idle"
      BY <1>0, <3>1, MoveBy DEF OpTo, Steps
    <3>. QED BY <3>7, <3>8 DEF ParentKnown
  <2>. QED BY <2>1, <2>4, <2>5, <2>6
<1>. QED BY <1>6, <1>7, <1>8

(* However many hidden calls fail, and wherever the machine stops, a call   *)
(* leaves every other name of the union as it looked when it began: the     *)
(* directories that cpup_dirs makes, leaves behind or removes again neither *)
(* show nor hide anything.  OthersIntact is not inductive: that the new     *)
(* directory is merged where it was merged from rests on what the lookup    *)
(* found when the call began.                                               *)
THEOREM OthersSafe == Spec => []OthersIntact
<1>1. Init => SeenInv
  <2>. SUFFICES ASSUME Init PROVE SeenInv
    OBVIOUS
  <2>1. WFInv
    BY TypeInit DEF Init, BranchInit, WFInv, HiddenWF, CallWF
  <2>2. ParentKnown
    BY DEF Init, ParentKnown
  <2>3. OthersInv
    BY ViewIs DEF Init, OthersInv
  <2>. QED BY <2>1, <2>2, <2>3 DEF SeenInv
<1>2. SeenInv /\ [Next]_vars => SeenInv'
  <2>. SUFFICES ASSUME SeenInv, [Next]_vars PROVE SeenInv'
    OBVIOUS
  <2>0. WFInv /\ TypeInv /\ op \in OpType
    BY DEF SeenInv, WFInv, TypeInv, TypeOK, OpType
  <2>1. TypeInv'
    BY <2>0, TypeStep
  <2>2. CASE Begin
    BY <2>0, <2>1, <2>2, WFBegin, SeenBegin DEF SeenInv, WFInv
  <2>3. CASE Step
    BY <2>0, <2>1, <2>3, WFStep, SeenStep DEF SeenInv, WFInv
  <2>4. CASE Crash \/ UNCHANGED vars
    <3>1. /\ UNCHANGED <<perm, ent, wh, opq>> /\ op'.p = op.p /\ op'.before = op.before
          /\ op'.b = op.b /\ op'.bs = op.bs /\ (op' = op \/ op'.pc = "idle")
      BY <2>0, <2>4, CrashMove DEF OpTo, vars
    <3>2. HiddenWF' /\ CallWF'
      BY <2>0, <3>1 DEF WFInv, HiddenWF, CallWF, NoKids
    <3>3. OthersInv'
      BY <3>1, SameSeen DEF SeenInv, OthersInv, Kids
    <3>4. \A u \in Top : Ents(u)' = Ents(u) /\ Whs(u)' = Whs(u) /\ Opqs(u)' = Opqs(u)
      BY <3>1 DEF Ents, Whs, Opqs, HasWh, IsOpq, Whable
    <3>5. ParentKnown'
      BY <3>1, <3>4 DEF SeenInv, ParentKnown
    <3>. QED BY <2>1, <3>2, <3>3, <3>5 DEF SeenInv, WFInv
  <2>. QED BY <2>2, <2>3, <2>4, NextCases
<1>3. SeenInv => OthersIntact
  BY ViewIs DEF SeenInv, OthersInv, OthersIntact
<1>. QED BY <1>1, <1>2, <1>3, PTL DEF Spec
=============================================================================
