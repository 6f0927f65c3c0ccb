---------------------------- MODULE RenameProofs ----------------------------
(***************************************************************************)
(* Proofs about Rename for every number of branches, every tree of names,  *)
(* every permission vector and every bound on failures and crashes.        *)
(***************************************************************************)
EXTENDS Rename, UnionFSProofs

(* The steps of aufs_rename, by what they know of the two names on the      *)
(* branch: those of a copy-up, those before the entry is renamed and those  *)
(* after, and the undo steps that follow.                                   *)
CpSteps    == {"cpmake", "cpfill", "cpattr", "cpundo"}
EarlySteps == {"neg", "check", "mkwh", "lkwh", "aside", "asideneg", "prepare", "move"}
LateSteps  == {"mkopq", "rmwh", "unopq", "unmove"}
RenSteps   == CpSteps \cup EarlySteps \cup LateSteps \cup {"idle", "untmp", "unwh"}

TmpType == [on : BOOLEAN, ent : [Sub -> File \cup {NoEnt}], wh : SUBSET Path, opq : BOOLEAN]
CpType  == [n : SUBSET Path, from : SUBSET Path, ok : RenSteps, bad : RenSteps]

RenOp ==
    [pc : RenSteps, kind : {"none", "rename"}, p : Path, q : Path, bs : Br, bd : Br, b : Br,
     isdir : BOOLEAN, w : BOOLEAN, whd : BOOLEAN, byc : BOOLEAN, opq : BOOLEAN,
     tmp : TmpType, cp : CpType, nf : 0 .. MaxFail, ret : Rets, before : [Path -> Entry]]

RenType ==
    /\ perm \in [Br -> BrPerm]
    /\ HiddenType
    /\ op \in RenOp
    /\ \A b \in Br, k \in Sub : ent[b][k] # Dir \* no directory inside a directory

(* An entry of the kind that is renamed. *)
OfKind(isdir, e) == IF isdir THEN e = Dir ELSE e \in File
SameKind(e) == OfKind(op.isdir, e)

(* Neither name is inside the other; only top names are directories. *)
NamesApart ==
    op.pc # "idle" =>
        /\ op.p # op.q
        /\ op.p \in Sub => Up[op.p] # op.q /\ ~op.isdir
        /\ op.q \in Sub => Up[op.q] # op.p /\ ~op.isdir
        /\ op.b < op.bs \/ op.b = op.bs
        /\ Writable(op.b)

(* The copy-up of a parent directory (a failure ends the call) ... *)
ParentCopy ==
    op.pc \in CpSteps /\ op.cp.bad = "idle" =>
        \E u \in Top :
            /\ op.cp.n = {u} /\ u \notin {op.p, op.q} /\ op.pc # "cpfill"
            /\ \/ op.cp.ok = "neg" /\ op.q \in Sub /\ u = Up[op.q]
               \/ op.cp.ok = "mkwh" /\ op.p \in Sub /\ u = Up[op.p]
            /\ op.pc = "cpmake" /\ ent[op.b][u] = NoEnt
                   => \E x \in Br : Lacks(Ents(u), Whs(u), Opqs(u), op.b, x)
            /\ op.pc # "cpmake"
                   => /\ ent[op.b][u] = Dir /\ NoKids(op.b, u) /\ u \notin opq[op.b]
                      /\ \E x \in Br : Lacks([Ents(u) EXCEPT ![op.b] = NoEnt],
                                             Whs(u), Opqs(u), op.b, x)

(* ... and of the entry itself, under its old name or under the new one.    *)
EntryCopy ==
    op.pc \in CpSteps /\ op.cp.bad # "idle" =>
        /\ op.cp.bad = "untmp" /\ op.cp.from = {op.p} /\ op.b # op.bs
        /\ op.cp.n = IF op.byc THEN {op.q} ELSE {op.p}
        /\ op.byc => op.cp.ok = "rmwh" \/ (op.cp.ok = "mkopq" /\ op.isdir)
        /\ ~op.byc => op.cp.ok = "move"
        /\ op.pc = "cpfill" => ~op.isdir
        /\ op.pc # "cpmake" => \A n \in op.cp.n : /\ SameKind(ent[op.b][n]) /\ NoKids(op.b, n)
                                                  /\ n \notin opq[op.b]

(* Which parent directories are there, on the branch and in the lookup. *)
InFirst  == op.pc \in CpSteps /\ op.cp.ok = "neg"
InSecond == op.pc \in CpSteps /\ op.cp.ok = "mkwh"
Parents ==
    /\ op.pc \in {"neg", "check"} \/ InFirst => (op.p \in Sub => op.bs \in Dirs(op.p))
    /\ op.pc # "idle" /\ ~InFirst => (op.q \in Sub => ent[op.b][Up[op.q]] = Dir)
    /\ op.pc \notin {"idle", "neg", "check"} /\ ~InFirst /\ ~InSecond
           => (op.p \in Sub => ent[op.b][Up[op.p]] = Dir)

(* What the branch holds under the two names. *)
Names ==
    /\ op.pc \in CpSteps \cup EarlySteps => SameKind(ent[op.bs][op.p])
    /\ op.pc \in {"check", "mkwh", "lkwh"} \/ InSecond => (~op.isdir => ent[op.b][op.q] # Dir)
    /\ op.pc = "aside" => op.isdir
    /\ op.pc \in {"asideneg", "prepare", "move"} \/ (op.pc \in CpSteps /\ op.cp.bad = "untmp")
           => ent[op.b][op.q] # Dir \/ (op.pc \in CpSteps /\ op.byc)
    /\ op.pc = "move" => ~op.byc /\ SameKind(ent[op.b][op.p])
    /\ op.pc \in LateSteps => /\ SameKind(ent[op.b][op.q])
                              /\ ~op.byc => ent[op.b][op.p] = NoEnt
    /\ op.pc = "mkopq" => op.isdir
    /\ op.opq => op.isdir
    /\ op.tmp.on => op.q \in Top /\ op.tmp.wh \subseteq Kids(op.q)

(* Every name apart from the two and from what is in them. *)
Bystanders ==
    \A r \in Path : r \notin {op.p, op.q} /\ r \notin Kids(op.p) /\ r \notin Kids(op.q)
        => Seen(r) = op.before[r]

RenInv == RenType /\ HiddenWF /\ NamesApart /\ ParentCopy /\ EntryCopy /\ Parents /\ Names

-----------------------------------------------------------------------------
(* How the steps change op. *)

(* A step keeps the names, the branches and what was seen before. *)
SameCall ==
    /\ op'.p = op.p /\ op'.q = op.q /\ op'.bs = op.bs /\ op'.bd = op.bd /\ op'.b = op.b
    /\ op'.isdir = op.isdir /\ op'.before = op.before

(* A step goes on at a step in S and changes nothing else but the result. *)
GoOn(S) ==
    /\ op' \in RenOp /\ op'.pc \in S /\ SameCall
    /\ op'.w = op.w /\ op'.whd = op.whd /\ op'.byc = op.byc /\ op'.opq = op.opq
    /\ op'.tmp = op.tmp /\ op'.cp = op.cp

(* Forward, on an error, and at the end. *)
LEMMA GoOnBy ==
    ASSUME op \in RenOp, NEW pc \in RenSteps
    PROVE  /\ Goto(pc) => GoOn({pc})
           /\ FailTo(pc) => GoOn({pc}) /\ UNCHANGED <<perm, ent, wh, opq>>
           /\ UndoFailTo(pc) => GoOn({pc}) /\ UNCHANGED <<perm, ent, wh, opq>>
           /\ Return => GoOn({"idle"})
           /\ \A r \in Rets : op' = [op EXCEPT !.pc = pc, !.ret = r] => GoOn({pc})
<1>. USE BoundAssumption DEF RenOp, GoOn, SameCall
<1>1. Goto(pc) => GoOn({pc})
  BY DEF Goto
<1>2. ASSUME NEW r \in Rets, op' = [op EXCEPT !.pc = pc, !.ret = r]
      PROVE  GoOn({pc})
  BY <1>2
<1>3. ASSUME NEW r \in Rets, op.nf < MaxFail,
             op' = [op EXCEPT !.pc = pc, !.nf = @ + 1, !.ret = r]
      PROVE  GoOn({pc})
  <2>1. op.nf + 1 \in 0 .. MaxFail
    BY <1>3
  <2>. QED BY <1>3, <2>1
<1>4. FailTo(pc) => GoOn({pc}) /\ UNCHANGED <<perm, ent, wh, opq>>
  BY <1>3 DEF FailTo, hidden, Rets
<1>5. UndoFailTo(pc) => GoOn({pc}) /\ UNCHANGED <<perm, ent, wh, opq>>
  BY <1>3 DEF UndoFailTo, hidden, Rets
<1>6. Return => GoOn({"idle"})
  <2>1. "idle" \in RenSteps /\ (IF op.ret = "run" THEN "ok" ELSE op.ret) \in Rets
    BY DEF RenSteps, Rets
  <2>. QED BY <2>1 DEF Return
<1>. QED BY <1>1, <1>2, <1>4, <1>5, <1>6

(* A step that leaves the branches alone. *)
LEMMA Calm ==
    ASSUME UNCHANGED <<perm, ent, wh, opq>>, op' \in RenOp
    PROVE  /\ RenType => RenType'
           /\ HiddenWF => HiddenWF'
           /\ \A r \in Path : /\ Ents(r)' = Ents(r) /\ Whs(r)' = Whs(r) /\ Opqs(r)' = Opqs(r)
                              /\ Dirs(r)' = Dirs(r) /\ Seen(r)' = Seen(r)
<1>1. op'.b \in Br
  BY DEF RenOp
<1>2. RenType => RenType'
  BY <1>1 DEF RenType, HiddenType
<1>3. HiddenWF => HiddenWF'
  BY DEF HiddenWF
<1>4. ASSUME NEW r
      PROVE  Ents(r)' = Ents(r) /\ Whs(r)' = Whs(r) /\ Opqs(r)' = Opqs(r)
  BY DEF Ents, Whs, Opqs, HasWh, IsOpq, Whable
<1>5. \A r \in Path : Dirs(r)' = Dirs(r)
  BY <1>4 DEF Dirs
<1>6. \A r \in Path : Seen(r)' = Seen(r)
  BY SameSeen
<1>. QED BY <1>2, <1>3, <1>4, <1>5, <1>6

-----------------------------------------------------------------------------
(* The start of a call. *)

(* A lookup finds entries. *)
LEMMA LookupPos ==
    ASSUME NEW C \in SUBSET Br, NEW p, NEW b \in HDentries(C, p)
    PROVE  ent[b][p] # NoEnt
<1>1. Pos(C, p) \in SUBSET Br /\ \A c \in Pos(C, p) : ent[c][p] # NoEnt
  BY DEF Pos
<1>2. Pos(C, p) # {} => Min(Pos(C, p)) \in Pos(C, p)
  BY <1>1, MinBr
<1>. QED BY <1>1, <1>2 DEF HDentries

(* What aufs_rename has found out when wr_dir has chosen the branch. *)
LEMMA BeginFacts ==
    ASSUME RenInv, NEW s \in Path, NEW t \in Path, BeginRename(s, t)
    PROVE  LET cp == CpParent(op'.b, t, "neg")
           IN  /\ UNCHANGED <<perm, ent, wh, opq>> /\ op' \in RenOp /\ op'.before = View
               /\ op'.p = s /\ op'.q = t /\ s # t /\ op'.cp = cp
               /\ ~op'.opq /\ ~op'.tmp.on
               /\ op'.pc = IF op'.b = op'.bd THEN "check" ELSE IF cp # NoCp THEN "cpmake" ELSE "neg"
               /\ op'.bs \in ParentBr(s) /\ op'.bd \in ParentBr(t)
               /\ Writable(op'.b) /\ (op'.b = op'.bs \/ op'.b < op'.bs)
               /\ (op'.b = op'.bd \/ op'.b < op'.bd)
               /\ OfKind(op'.isdir, ent[op'.bs][s])
               /\ op'.isdir => t \in Top
               /\ ~op'.isdir => ent[op'.bd][t] # Dir
               /\ HDentries(ParentBr(t), t) # {} =>
                      op'.bd = Min(HDentries(ParentBr(t), t)) /\ (op'.isdir <=> ent[op'.bd][t] = Dir)
               /\ op'.bs = Min(HDentries(ParentBr(s), s)) /\ HDentries(ParentBr(s), s) # {}
<1>. DEFINE Cs == ParentBr(s)
            Ct == ParentBr(t)
            Hs == HDentries(Cs, s)
            Ht == HDentries(Ct, t)
            bs == Min(Hs)
            bd == IF Ht # {} THEN Min(Ht) ELSE NegStart(Ct, t)
            isdir == ent[bs][s] = Dir
            from == IF bs < bd THEN bs ELSE bd
<1>0. op \in RenOp /\ ent \in [Br -> [Path -> Entry]] /\ NoEnt # Dir
  BY EntryAssumption DEF RenInv, RenType, HiddenType
<1>1. /\ op.pc = "idle" /\ s # t /\ Hs # {} /\ Ct # {} /\ (isdir => t \in Top)
      /\ Ht # {} => (isdir <=> ent[bd][t] = Dir)
      /\ bd # -1 /\ UNCHANGED <<perm, ent, wh, opq, crashes>>
      /\ \E b \in WrBranch(Ct, from) :
             op' = [op EXCEPT !.pc = IF b = bd THEN "check"
                                     ELSE IF CpParent(b, t, "neg") # NoCp THEN "cpmake" ELSE "neg",
                              !.kind = "rename", !.p = s, !.q = t,
                              !.bs = bs, !.bd = bd, !.b = b, !.isdir = isdir, !.w = FALSE,
                              !.whd = FALSE, !.byc = FALSE, !.opq = FALSE, !.tmp = NoTmp,
                              !.cp = CpParent(b, t, "neg"), !.nf = 0, !.ret = "run",
                              !.before = View]
  BY DEF BeginRename, hidden
<1>2. Cs \in SUBSET Br /\ Ct \in SUBSET Br /\ Hs \in SUBSET Cs /\ Ht \in SUBSET Ct
  BY ParentBrType, LookupBr
<1>3. bs \in Hs /\ ent[bs][s] # NoEnt
  <2>1. bs \in Hs
    BY <1>1, <1>2, MinBr
  <2>. QED BY <1>2, <2>1, LookupPos
<1>4. bd \in Ct /\ (~isdir => ent[bd][t] # Dir)
  <2>1. CASE Ht # {}
    BY <1>1, <1>2, <2>1, MinBr
  <2>2. CASE Ht = {}
    <3>1. bd = NegStart(Ct, t)
      BY <2>2
    <3>. HIDE DEF bd
    <3>2. bd = Min(Ct) /\ ent[Min(Ct)][t] = NoEnt
      BY <1>1, <3>1 DEF NegStart
    <3>3. Min(Ct) \in Ct
      BY <1>1, <1>2, MinBr
    <3>. QED BY <1>0, <3>2, <3>3
  <2>. QED BY <2>1, <2>2
<1>5. bs \in Br /\ bd \in Br /\ from \in Br
  BY <1>2, <1>3, <1>4
<1>6. View \in [Path -> Entry]
  BY <1>0, ViewType
<1>. HIDE DEF Cs, Ct, Hs, Ht, bs, bd, isdir, from
<1>7. PICK b \in WrBranch(Ct, from) :
             op' = [op EXCEPT !.pc = IF b = bd THEN "check"
                                     ELSE IF CpParent(b, t, "neg") # NoCp THEN "cpmake" ELSE "neg",
                              !.kind = "rename", !.p = s, !.q = t,
                              !.bs = bs, !.bd = bd, !.b = b, !.isdir = isdir, !.w = FALSE,
                              !.whd = FALSE, !.byc = FALSE, !.opq = FALSE, !.tmp = NoTmp,
                              !.cp = CpParent(b, t, "neg"), !.nf = 0, !.ret = "run",
                              !.before = View]
  BY <1>1
<1>8. b \in Br /\ Writable(b) /\ (b = from \/ b < from)
  BY <1>2, <1>5, <1>7, WrBranchWritable, WrBranchAbove
<1>9. (b = bs \/ b < bs) /\ (b = bd \/ b < bd)
  BY <1>5, <1>8, BranchAssumption DEF from, Br
<1>10. NoTmp \in TmpType /\ NoTmp.on = FALSE
  BY DEF NoTmp, TmpType
<1>11. CpParent(b, t, "neg") \in CpType
  <2>1. NoCp \in CpType
    BY DEF NoCp, CpType, RenSteps
  <2>2. NoParent(b, t) => [n |-> {Up[t]}, from |-> {Up[t]}, ok |-> "neg", bad |-> "idle"] \in CpType
    BY TreeAssumption DEF NoParent, CpType, RenSteps, EarlySteps, Path
  <2>. QED BY <2>1, <2>2 DEF CpParent
<1>12. isdir \in BOOLEAN /\ 0 \in 0 .. MaxFail /\ "run" \in Rets
  BY BoundAssumption DEF isdir, Rets
<1>13. /\ op' \in RenOp
       /\ op'.pc = IF b = bd THEN "check"
                   ELSE IF CpParent(b, t, "neg") # NoCp THEN "cpmake" ELSE "neg"
       /\ op'.p = s /\ op'.q = t /\ op'.bs = bs /\ op'.bd = bd /\ op'.b = b
       /\ op'.isdir = isdir /\ op'.opq = FALSE /\ op'.tmp = NoTmp
       /\ op'.cp = CpParent(b, t, "neg") /\ op'.before = View
  <2>. DEFINE pc == IF b = bd THEN "check"
                    ELSE IF CpParent(b, t, "neg") # NoCp THEN "cpmake" ELSE "neg"
              cp == CpParent(b, t, "neg")
  <2>1. pc \in RenSteps /\ cp \in CpType
    BY <1>11 DEF RenSteps, CpSteps, EarlySteps
  <2>2. op' = [op EXCEPT !.pc = pc, !.kind = "rename", !.p = s, !.q = t,
                         !.bs = bs, !.bd = bd, !.b = b, !.isdir = isdir, !.w = FALSE,
                         !.whd = FALSE, !.byc = FALSE, !.opq = FALSE, !.tmp = NoTmp,
                         !.cp = cp, !.nf = 0, !.ret = "run", !.before = View]
    BY <1>7
  <2>. HIDE DEF pc, cp
  <2>3. op' \in RenOp
    BY <1>0, <1>5, <1>6, <1>8, <1>10, <1>12, <2>1, <2>2 DEF RenOp
  <2>4. /\ op'.pc = pc /\ op'.p = s /\ op'.q = t /\ op'.bs = bs /\ op'.bd = bd /\ op'.b = b
        /\ op'.isdir = isdir /\ op'.opq = FALSE /\ op'.tmp = NoTmp
        /\ op'.cp = cp /\ op'.before = View
    BY <1>0, <2>2 DEF RenOp
  <2>. QED BY <2>3, <2>4 DEF pc, cp
<1>14. OfKind(op'.isdir, ent[op'.bs][s])
  <2>1. ent[bs][s] \in Entry
    BY <1>0, <1>5
  <2>2. IF isdir THEN ent[bs][s] = Dir ELSE ent[bs][s] \in File
    BY <1>3, <2>1 DEF isdir, Entry
  <2>. QED BY <1>1, <1>13, <2>2 DEF OfKind
<1>15. (isdir => t \in Top) /\ (Ht # {} => (isdir <=> ent[bd][t] = Dir) /\ bd = Min(Ht))
  BY <1>1 DEF bd
<1>. QED BY <1>1, <1>2, <1>3, <1>4, <1>8, <1>9, <1>10, <1>13, <1>14, <1>15 DEF Cs, Ct, Hs, Ht, bs

(* A name inside another: its branches are those of the lookup of the other. *)
LEMMA InsideOther ==
    ASSUME NEW k \in Sub, NEW b \in ParentBr(k)
    PROVE  LET H == HDentries(ParentBr(Up[k]), Up[k])
           IN  H # {} /\ ent[Min(H)][Up[k]] = Dir
<1>1. k \notin Top /\ Up[k] \in Top
  BY TreeAssumption
<1>2. ParentBr(Up[k]) = Br
  BY <1>1 DEF ParentBr
<1>. QED BY <1>1, <1>2 DEF ParentBr, IsDirH

(* A lookup that lacks the directory of k on b. *)
LEMMA LacksParent ==
    ASSUME RenInv, NEW k \in Sub, NEW b \in Br, NEW x \in ParentBr(k),
           b < x, ent[b][Up[k]] = NoEnt
    PROVE  Lacks(Ents(Up[k]), Whs(Up[k]), Opqs(Up[k]), b, x)
<1>1. k \in Path /\ k \notin Top /\ Up[k] \in Path
  BY TreeAssumption DEF Path
<1>2. x \in Inside(Ents(Up[k]), Whs(Up[k]), Opqs(Up[k])) /\ x \in Br
  BY <1>1, ViewIs, ParentBrType DEF Dirs
<1>3. b \notin Opqs(Up[k])
  BY <1>1, NotDir, EntryAssumption DEF Opqs, IsOpq, RenInv
<1>4. Ents(Up[k]) \in [Br -> Entry] /\ Ents(Up[k])[b] = NoEnt
  BY <1>1 DEF Ents, RenInv, RenType, HiddenType
<1>. QED BY <1>2, <1>3, <1>4 DEF Lacks

LEMMA RenBegin ==
    ASSUME RenInv, NEW s \in Path, NEW t \in Path, BeginRename(s, t)
    PROVE  RenInv' /\ Bystanders'
<1>. DEFINE cp == CpParent(op'.b, t, "neg")
<1>0. /\ UNCHANGED <<perm, ent, wh, opq>> /\ op' \in RenOp /\ op'.before = View
      /\ op'.p = s /\ op'.q = t /\ s # t /\ op'.cp = cp /\ ~op'.opq /\ ~op'.tmp.on
      /\ op'.pc = IF op'.b = op'.bd THEN "check" ELSE IF cp # NoCp THEN "cpmake" ELSE "neg"
      /\ op'.bs \in ParentBr(s) /\ op'.bd \in ParentBr(t)
      /\ Writable(op'.b) /\ (op'.b = op'.bs \/ op'.b < op'.bs)
      /\ (op'.b = op'.bd \/ op'.b < op'.bd)
      /\ OfKind(op'.isdir, ent[op'.bs][s])
      /\ (op'.isdir => t \in Top) /\ (~op'.isdir => ent[op'.bd][t] # Dir)
      /\ HDentries(ParentBr(t), t) # {} =>
             op'.bd = Min(HDentries(ParentBr(t), t)) /\ (op'.isdir <=> ent[op'.bd][t] = Dir)
      /\ op'.bs = Min(HDentries(ParentBr(s), s)) /\ HDentries(ParentBr(s), s) # {}
  BY BeginFacts
<1>1. RenType' /\ HiddenWF'
      /\ \A r \in Path : /\ Ents(r)' = Ents(r) /\ Whs(r)' = Whs(r) /\ Opqs(r)' = Opqs(r)
                         /\ Dirs(r)' = Dirs(r) /\ Seen(r)' = Seen(r)
  BY <1>0, Calm DEF RenInv
<1>2. op'.b \in Br /\ op'.bs \in Br /\ op'.bd \in Br /\ op'.isdir \in BOOLEAN
  BY <1>0 DEF RenOp
<1>3. s \in Sub => Up[s] # t /\ ~op'.isdir
  <2>1. s \in Sub => ~op'.isdir
    BY <1>0, <1>2 DEF RenInv, RenType, OfKind
  <2>2. ASSUME s \in Sub, Up[s] = t PROVE FALSE
    BY <1>0, <2>1, <2>2, InsideOther
  <2>. QED BY <2>1, <2>2
<1>4. t \in Sub => Up[t] # s /\ ~op'.isdir
  <2>1. t \in Sub => ~op'.isdir
    BY <1>0, TreeAssumption
  <2>2. ASSUME t \in Sub, Up[t] = s PROVE FALSE
    <3>1. ent[op'.bs][s] = Dir
      BY <1>0, <2>2, InsideOther
    <3>. QED BY <1>0, <2>1, <2>2, <3>1, EntryAssumption DEF OfKind
  <2>. QED BY <2>1, <2>2
<1>5. NamesApart'
  BY <1>0, <1>3, <1>4 DEF NamesApart, Writable
<1>6. op'.pc \in CpSteps => /\ op'.pc = "cpmake" /\ NoParent(op'.b, t) /\ op'.b < op'.bd
                            /\ cp = [n |-> {Up[t]}, from |-> {Up[t]}, ok |-> "neg", bad |-> "idle"]
  BY <1>0 DEF CpSteps, CpParent
<1>7. ParentCopy'
  <2>. SUFFICES ASSUME op'.pc \in CpSteps, op'.cp.bad = "idle"
                PROVE  ParentCopy'
    BY DEF ParentCopy
  <2>1. t \in Sub /\ op'.cp.n = {Up[t]} /\ op'.cp.ok = "neg" /\ op'.pc = "cpmake"
    BY <1>0, <1>6 DEF NoParent
  <2>2. PICK u \in Top : u = Up[t] /\ u \in Path /\ u # s /\ u # t
    BY <2>1, <1>4, TreeAssumption DEF Path
  <2>3. ent[op'.b][u] = NoEnt => Lacks(Ents(u), Whs(u), Opqs(u), op'.b, op'.bd)
    BY <1>0, <1>2, <1>6, <2>1, <2>2, LacksParent
  <2>4. ent'[op'.b][u] = NoEnt => \E x \in Br : Lacks(Ents(u)', Whs(u)', Opqs(u)', op'.b, x)
    BY <1>0, <1>1, <1>2, <2>2, <2>3
  <2>. QED BY <1>0, <2>1, <2>2, <2>4 DEF ParentCopy
<1>8. EntryCopy'
  BY <1>0, <1>6 DEF EntryCopy
<1>9. Parents'
  <2>1. s \in Sub => op'.bs \in Dirs(s)'
    BY <1>0, <1>1, ViewIs
  <2>2. ASSUME t \in Sub, op'.pc \notin CpSteps PROVE ent'[op'.b][Up[t]] = Dir
    <3>1. op'.b \in ParentBr(t)
      <4>1. CASE op'.b = op'.bd
        BY <1>0, <4>1
      <4>2. CASE op'.b # op'.bd
        <5>1. cp = NoCp
          BY <1>0, <2>2, <4>2 DEF CpSteps
        <5>2. ~NoParent(op'.b, t)
          <6>. SUFFICES ASSUME NoParent(op'.b, t) PROVE FALSE
            OBVIOUS
          <6>1. cp.n = {Up[t]} /\ NoCp.n = {}
            BY DEF CpParent, NoCp
          <6>. QED BY <5>1, <6>1
        <5>. QED BY <2>2, <5>2 DEF NoParent
      <4>. QED BY <4>1, <4>2
    <3>. QED BY <1>0, <2>2, <3>1, ParentDir
  <2>3. op'.pc \in CpSteps => op'.cp.ok = "neg"
    BY <1>0, <1>6
  <2>4. op'.pc \notin CpSteps => op'.pc \in {"neg", "check"}
    BY <1>0 DEF CpSteps
  <2>. QED BY <1>0, <2>1, <2>2, <2>3, <2>4 DEF Parents, InFirst, InSecond
<1>10. Names'
  <2>1. op'.pc \in {"check", "neg"} \/ (op'.pc \in CpSteps /\ op'.cp.ok = "neg" /\ op'.cp.bad = "idle")
    BY <1>0, <1>6 DEF CpSteps
  <2>2. op'.pc = "check" => op'.b = op'.bd
    BY <1>0
  <2>3. OfKind(op'.isdir, ent'[op'.bs][op'.p])
    BY <1>0
  <2>. QED BY <1>0, <2>1, <2>2, <2>3 DEF Names, SameKind, InSecond, CpSteps, EarlySteps, LateSteps
<1>11. Bystanders'
  BY <1>0, <1>1, ViewIs DEF Bystanders
<1>. QED BY <1>1, <1>5, <1>7, <1>8, <1>9, <1>10, <1>11 DEF RenInv

-----------------------------------------------------------------------------
(* The steps that leave the branches alone. *)

LEMMA CalmTo ==
    ASSUME RenInv, op.pc # "idle", UNCHANGED <<perm, ent, wh, opq>>,
           NEW pc \in RenSteps, GoOn({pc}),
           \/ pc = "idle"
           \/ pc \in {"untmp", "unwh"} /\ op.pc \notin {"neg", "check"} /\ ~InFirst /\ ~InSecond
           \/ pc = "cpundo" /\ op.pc \in {"cpfill", "cpattr"}
           \/ pc = "check" /\ op.pc = "neg" /\ ent[op.b][op.q] = NoEnt
           \/ pc = op.cp.ok /\ op.pc = "cpattr"
           \/ pc = "prepare" /\ op.pc = "asideneg"
           \/ pc \in {"unmove", "unopq"} /\ op.pc \in {"mkopq", "rmwh", "unopq"}
           \/ pc = "lkwh" /\ op.pc = "mkwh"
    PROVE  RenInv' /\ (Bystanders => Bystanders')
<1>. USE DEF CpSteps, EarlySteps, LateSteps
<1>0. /\ op \in RenOp /\ op' \in RenOp /\ op'.pc = pc /\ SameCall
      /\ op'.w = op.w /\ op'.whd = op.whd /\ op'.byc = op.byc /\ op'.opq = op.opq
      /\ op'.tmp = op.tmp /\ op'.cp = op.cp /\ NoEnt # Dir
  BY EntryAssumption DEF GoOn, RenInv, RenType
<1>1. RenType' /\ HiddenWF'
      /\ \A r \in Path : /\ Ents(r)' = Ents(r) /\ Whs(r)' = Whs(r) /\ Opqs(r)' = Opqs(r)
                         /\ Dirs(r)' = Dirs(r) /\ Seen(r)' = Seen(r)
  BY <1>0, Calm DEF RenInv
<1>2. NamesApart'
  BY <1>0 DEF RenInv, NamesApart, SameCall, Writable
<1>3. ASSUME op.pc \in CpSteps, op.cp.bad = "idle"
      PROVE  \E u \in Top :
                /\ op.cp.n = {u} /\ u \notin {op.p, op.q} /\ op.pc # "cpfill"
                /\ \/ op.cp.ok = "neg" /\ op.q \in Sub /\ u = Up[op.q]
                   \/ op.cp.ok = "mkwh" /\ op.p \in Sub /\ u = Up[op.p]
                /\ op.pc # "cpmake"
                       => /\ ent[op.b][u] = Dir /\ NoKids(op.b, u) /\ u \notin opq[op.b]
                          /\ \E x \in Br : Lacks([Ents(u) EXCEPT ![op.b] = NoEnt],
                                                 Whs(u), Opqs(u), op.b, x)
  BY <1>3 DEF RenInv, ParentCopy
<1>4. ASSUME op.pc \in CpSteps, op.cp.bad # "idle"
      PROVE  /\ op.cp.bad = "untmp" /\ op.cp.from = {op.p} /\ op.b # op.bs
             /\ op.cp.n = IF op.byc THEN {op.q} ELSE {op.p}
             /\ op.byc => op.cp.ok = "rmwh" \/ (op.cp.ok = "mkopq" /\ op.isdir)
             /\ ~op.byc => op.cp.ok = "move"
             /\ op.pc = "cpfill" => ~op.isdir
             /\ op.pc # "cpmake" => \A n \in op.cp.n : /\ SameKind(ent[op.b][n]) /\ NoKids(op.b, n)
                                                       /\ n \notin opq[op.b]
  BY <1>4 DEF RenInv, EntryCopy
<1>5. pc \in CpSteps => pc = "cpundo" /\ op.pc \in {"cpfill", "cpattr"}
  BY <1>3, <1>4
<1>6. ParentCopy'
  <2>. SUFFICES ASSUME op'.pc \in CpSteps, op'.cp.bad = "idle"
                PROVE  ParentCopy'
    BY DEF ParentCopy
  <2>1. PICK u \in Top :
                /\ op.cp.n = {u} /\ u \notin {op.p, op.q}
                /\ \/ op.cp.ok = "neg" /\ op.q \in Sub /\ u = Up[op.q]
                   \/ op.cp.ok = "mkwh" /\ op.p \in Sub /\ u = Up[op.p]
                /\ ent[op.b][u] = Dir /\ NoKids(op.b, u) /\ u \notin opq[op.b]
                /\ \E x \in Br : Lacks([Ents(u) EXCEPT ![op.b] = NoEnt],
                                       Whs(u), Opqs(u), op.b, x)
    BY <1>0, <1>3, <1>5
  <2>2. \E x \in Br : Lacks([Ents(u)' EXCEPT ![op'.b] = NoEnt], Whs(u)', Opqs(u)', op'.b, x)
    BY <1>0, <1>1, <2>1 DEF SameCall, Path
  <2>3. NoKids(op.b, u)'
    BY <1>0, <2>1 DEF NoKids, SameCall
  <2>. QED BY <1>0, <1>5, <2>1, <2>2, <2>3 DEF ParentCopy, SameCall
<1>7. EntryCopy'
  <2>. SUFFICES ASSUME op'.pc \in CpSteps, op'.cp.bad # "idle"
                PROVE  EntryCopy'
    BY DEF EntryCopy
  <2>1. ASSUME NEW n \in op'.cp.n
        PROVE  OfKind(op'.isdir, ent'[op'.b][n]) /\ NoKids(op.b, n)' /\ n \notin opq'[op'.b]
    <3>1. n \in op.cp.n /\ SameKind(ent[op.b][n]) /\ NoKids(op.b, n) /\ n \notin opq[op.b]
      BY <1>0, <1>4, <1>5, <2>1
    <3>. QED BY <1>0, <3>1 DEF SameKind, NoKids, SameCall
  <2>. QED BY <1>0, <1>4, <1>5, <2>1 DEF EntryCopy, SameCall, SameKind
<1>8. op.pc \in CpSteps => op.cp.ok # "idle" /\ op.cp.ok \notin CpSteps
  BY <1>3, <1>4
<1>9. Parents'
  <2>1. pc \in {"neg", "check"} \/ (pc \in CpSteps /\ op.cp.ok = "neg") =>
            (op.p \in Sub => op.bs \in Dirs(op.p))
    BY <1>3, <1>4, <1>5 DEF RenInv, Parents, InFirst
  <2>2. pc # "idle" /\ ~(pc \in CpSteps /\ op.cp.ok = "neg") =>
            (op.q \in Sub => ent[op.b][Up[op.q]] = Dir)
    BY <1>3, <1>4, <1>5, <1>8 DEF RenInv, Parents, InFirst
  <2>3. pc \notin {"idle", "neg", "check"} /\ ~(pc \in CpSteps /\ op.cp.ok \in {"neg", "mkwh"}) =>
            (op.p \in Sub => ent[op.b][Up[op.p]] = Dir)
    BY <1>3, <1>4, <1>5, <1>8 DEF RenInv, Parents, InFirst, InSecond
  <2>4. op.p \in Path /\ Dirs(op.p)' = Dirs(op.p)
    <3>1. PICK r \in Path : r = op.p /\ r = op'.p
      BY <1>0 DEF RenOp, SameCall
    <3>2. Dirs(r)' = Dirs(r)
      BY <1>1
    <3>3. Dirs(op.p) = Dirs(r) /\ Dirs(op.p)' = Dirs(r)'
      BY <3>1 DEF Dirs
    <3>. QED BY <3>1, <3>2, <3>3
  <2>. QED BY <1>0, <2>1, <2>2, <2>3, <2>4 DEF Parents, InFirst, InSecond, SameCall
<1>10. Names'
  <2>1. pc \in CpSteps \cup EarlySteps => SameKind(ent[op.bs][op.p])
    BY <1>3, <1>4, <1>8 DEF RenInv, Names
  <2>2. pc \in {"check", "mkwh", "lkwh"} \/ (pc \in CpSteps /\ op.cp.ok = "mkwh") =>
            (~op.isdir => ent[op.b][op.q] # Dir)
    BY <1>0, <1>3, <1>4, <1>5 DEF RenInv, Names, InSecond
  <2>3. pc # "aside"
    BY <1>3, <1>4
  <2>4. pc \in {"asideneg", "prepare", "move"} \/ (pc \in CpSteps /\ op.cp.bad = "untmp")
           => ent[op.b][op.q] # Dir \/ (pc \in CpSteps /\ op.byc)
    BY <1>3, <1>4, <1>5 DEF RenInv, Names
  <2>5. pc = "move" => ~op.byc /\ SameKind(ent[op.b][op.p])
    BY <1>3, <1>4
  <2>6. pc \in LateSteps => /\ SameKind(ent[op.b][op.q])
                            /\ ~op.byc => ent[op.b][op.p] = NoEnt
    BY <1>3, <1>4 DEF RenInv, Names
  <2>7. pc = "mkopq" => op.isdir
    BY <1>3, <1>4
  <2>8. (op.opq => op.isdir) /\ (op.tmp.on => op.q \in Top /\ op.tmp.wh \subseteq Kids(op.q))
    BY DEF RenInv, Names
  <2>9. /\ SameKind(ent[op.bs][op.p])' = SameKind(ent[op.bs][op.p])
        /\ SameKind(ent[op.b][op.p])' = SameKind(ent[op.b][op.p])
        /\ SameKind(ent[op.b][op.q])' = SameKind(ent[op.b][op.q])
        /\ Kids(op.q)' = Kids(op.q)
    BY <1>0 DEF SameKind, SameCall, Kids
  <2>. QED BY <1>0, <2>1, <2>2, <2>3, <2>4, <2>5, <2>6, <2>7, <2>8, <2>9
           DEF Names, InSecond, SameCall
<1>11. Bystanders => Bystanders'
  BY <1>0, <1>1 DEF Bystanders, SameCall, Kids
<1>. QED BY <1>1, <1>2, <1>6, <1>7, <1>9, <1>10, <1>11 DEF RenInv

LEMMA RenCheck ==
    ASSUME RenInv, CheckDirs PROVE RenInv' /\ (Bystanders => Bystanders')
<1>. USE DEF CpSteps, EarlySteps, LateSteps
<1>. DEFINE cp == IF op.b = op.bs THEN NoCp ELSE CpParent(op.b, op.p, "mkwh")
            w  == op.b # op.bs \/ NeedWhBelow(ParentBr(op.p), op.p, op.bs)
            pc == IF cp # NoCp THEN "cpmake" ELSE "mkwh"
<1>0. /\ op \in RenOp /\ op.pc = "check" /\ op.b \in Br /\ op.bs \in Br /\ op.p \in Path
      /\ UNCHANGED <<perm, ent, wh, opq>> /\ w \in BOOLEAN
  BY DEF RenInv, RenType, RenOp, CheckDirs, Refuse, hidden, NeedWhBelow
<1>1. op' = [op EXCEPT !.pc = "idle", !.ret = "err"] \/ op' = [op EXCEPT !.pc = pc, !.cp = cp, !.w = w]
  BY DEF CheckDirs, Refuse
<1>2. CASE op' = [op EXCEPT !.pc = "idle", !.ret = "err"]
  BY <1>0, <1>2, GoOnBy, CalmTo DEF Rets, RenSteps
<1>3. CASE op' = [op EXCEPT !.pc = pc, !.cp = cp, !.w = w]
  <2>1. CASE op.b # op.bs /\ NoParent(op.b, op.p)
    <3>1. cp = [n |-> {Up[op.p]}, from |-> {Up[op.p]}, ok |-> "mkwh", bad |-> "idle"] /\ pc = "cpmake"
      <4>1. cp = [n |-> {Up[op.p]}, from |-> {Up[op.p]}, ok |-> "mkwh", bad |-> "idle"]
        BY <2>1 DEF CpParent
      <4>2. cp.n # NoCp.n
        BY <4>1 DEF NoCp
      <4>. QED BY <4>1, <4>2
    <3>2. PICK u \in Top : u = Up[op.p] /\ u \in Path /\ op.p \in Sub /\ u \notin {op.p, op.q}
      BY <1>0, <2>1, TreeAssumption DEF NoParent, Path, RenInv, NamesApart
    <3>3. cp \in CpType /\ pc \in RenSteps
      BY <3>1, <3>2 DEF CpType, RenSteps
    <3>. HIDE DEF cp, w, pc
    <3>4. /\ op' \in RenOp /\ SameCall /\ op'.pc = "cpmake" /\ op'.cp = cp
          /\ op'.byc = op.byc /\ op'.opq = op.opq /\ op'.tmp = op.tmp
      BY <1>0, <1>3, <3>1, <3>3 DEF RenOp, SameCall
    <3>5. cp.n = {u} /\ cp.ok = "mkwh" /\ cp.bad = "idle"
      BY <3>1, <3>2
    <3>6. RenType' /\ HiddenWF'
          /\ \A r \in Path : /\ Ents(r)' = Ents(r) /\ Whs(r)' = Whs(r) /\ Opqs(r)' = Opqs(r)
                             /\ Dirs(r)' = Dirs(r) /\ Seen(r)' = Seen(r)
      BY <1>0, <3>4, Calm DEF RenInv
    <3>7. op.b < op.bs /\ op.bs \in ParentBr(op.p)
      BY <1>0, <2>1, <3>2, ViewIs DEF RenInv, NamesApart, Parents
    <3>8. ent[op.b][u] = NoEnt => Lacks(Ents(u), Whs(u), Opqs(u), op.b, op.bs)
      BY <1>0, <3>2, <3>7, LacksParent
    <3>9. ent'[op'.b][u] = NoEnt => \E x \in Br : Lacks(Ents(u)', Whs(u)', Opqs(u)', op'.b, x)
      BY <1>0, <3>2, <3>4, <3>6, <3>8 DEF SameCall
    <3>10. NamesApart'
      BY <1>0, <3>4 DEF RenInv, NamesApart, SameCall, Writable
    <3>11. ParentCopy'
      BY <3>2, <3>4, <3>5, <3>9 DEF ParentCopy, SameCall
    <3>12. EntryCopy'
      BY <3>4, <3>5 DEF EntryCopy
    <3>13. Parents'
      BY <1>0, <3>4, <3>5 DEF RenInv, Parents, InFirst, InSecond, SameCall
    <3>14. Names'
      BY <1>0, <3>4, <3>5 DEF RenInv, Names, InSecond, SameCall, SameKind, Kids
    <3>15. Bystanders => Bystanders'
      BY <3>4, <3>6 DEF Bystanders, SameCall, Kids
    <3>. QED BY <3>6, <3>10, <3>11, <3>12, <3>13, <3>14, <3>15 DEF RenInv
  <2>2. CASE op.b = op.bs \/ ~NoParent(op.b, op.p)
    <3>1. cp = NoCp /\ pc = "mkwh"
      BY <2>2 DEF CpParent
    <3>2. NoCp \in CpType /\ "mkwh" \in RenSteps
      BY DEF NoCp, CpType, RenSteps
    <3>. HIDE DEF cp, w, pc
    <3>3. /\ op' \in RenOp /\ SameCall /\ op'.pc = "mkwh"
          /\ op'.byc = op.byc /\ op'.opq = op.opq /\ op'.tmp = op.tmp
      BY <1>0, <1>3, <3>1, <3>2 DEF RenOp, SameCall
    <3>4. RenType' /\ HiddenWF' /\ \A r \in Path : Seen(r)' = Seen(r)
      BY <1>0, <3>3, Calm DEF RenInv
    <3>5. op.p \in Sub => ent[op.b][Up[op.p]] = Dir
      <4>. SUFFICES ASSUME op.p \in Sub PROVE op.b \in ParentBr(op.p)
        BY ParentDir
      <4>1. op.bs \in ParentBr(op.p)
        BY <1>0, ViewIs DEF RenInv, Parents
      <4>. QED BY <2>2, <4>1 DEF NoParent
    <3>6. NamesApart'
      BY <1>0, <3>3 DEF RenInv, NamesApart, SameCall, Writable
    <3>7. ParentCopy' /\ EntryCopy'
      BY <3>3 DEF ParentCopy, EntryCopy
    <3>8. Parents'
      BY <1>0, <3>3, <3>5 DEF RenInv, Parents, InFirst, InSecond, SameCall
    <3>9. Names'
      BY <1>0, <3>3 DEF RenInv, Names, InSecond, SameCall, SameKind, Kids
    <3>10. Bystanders => Bystanders'
      BY <3>3, <3>4 DEF Bystanders, SameCall, Kids
    <3>. QED BY <3>4, <3>6, <3>7, <3>8, <3>9, <3>10 DEF RenInv
  <2>. QED BY <2>1, <2>2
<1>. QED BY <1>1, <1>2, <1>3

(* lkup_wh of the new name, and the decision about a copy-up. *)
LEMMA RenLook ==
    ASSUME RenInv, WhDst PROVE RenInv' /\ (Bystanders => Bystanders')
<1>. USE DEF CpSteps, EarlySteps, LateSteps
<1>0. op \in RenOp /\ op.pc = "lkwh" /\ ~InFirst /\ ~InSecond
  BY DEF RenInv, RenType, WhDst, InFirst, InSecond
<1>1. CASE FailTo("unwh")
  BY <1>0, <1>1, GoOnBy, CalmTo DEF RenSteps
<1>. DEFINE pc == IF op.isdir /\ ent[op.b][op.q] = Dir THEN "aside" ELSE "prepare"
            whd == op.bd = op.b /\ op.q \in wh[op.b]
<1>2. CASE op' = [op EXCEPT !.whd = whd, !.pc = pc] /\ UNCHANGED <<perm, ent, wh, opq>>
  <2>1. pc \in {"aside", "prepare"} /\ pc \in RenSteps /\ whd \in BOOLEAN
    BY DEF RenSteps
  <2>2. (pc = "aside" => op.isdir) /\ (pc = "prepare" => ent[op.b][op.q] # Dir)
    BY <1>0 DEF RenInv, Names
  <2>. HIDE DEF pc, whd
  <2>3. /\ op' \in RenOp /\ SameCall /\ op'.pc = pc
        /\ op'.byc = op.byc /\ op'.opq = op.opq /\ op'.tmp = op.tmp
    BY <1>0, <1>2, <2>1 DEF RenOp, SameCall
  <2>4. RenType' /\ HiddenWF' /\ \A r \in Path : Seen(r)' = Seen(r)
    BY <1>2, <2>3, Calm DEF RenInv
  <2>6. NamesApart'
    BY <1>0, <1>2, <2>3 DEF RenInv, NamesApart, SameCall, Writable
  <2>7. ParentCopy' /\ EntryCopy'
    BY <2>1, <2>3 DEF ParentCopy, EntryCopy
  <2>8. Parents'
    BY <1>0, <1>2, <2>1, <2>3 DEF RenInv, Parents, InFirst, InSecond, SameCall
  <2>9. Names'
    BY <1>0, <1>2, <2>1, <2>2, <2>3 DEF RenInv, Names, InSecond, SameCall, SameKind, Kids
  <2>10. Bystanders => Bystanders'
    BY <2>3, <2>4 DEF Bystanders, SameCall, Kids
  <2>. QED BY <2>4, <2>6, <2>7, <2>8, <2>9, <2>10 DEF RenInv
<1>. QED BY <1>1, <1>2 DEF WhDst, hidden

LEMMA RenPrepare ==
    ASSUME RenInv, Prepare PROVE RenInv' /\ (Bystanders => Bystanders')
<1>. USE DEF CpSteps, EarlySteps, LateSteps
<1>. DEFINE there == op.bs = op.b
            over  == ~there /\ ent[op.b][op.q] # NoEnt
            Cp(n, ok) == [n |-> {n}, from |-> {op.p}, ok |-> ok, bad |-> "untmp"]
            cp == IF there THEN NoCp ELSE IF over THEN Cp(op.p, "move")
                  ELSE Cp(op.q, IF NeedDiropq THEN "mkopq" ELSE "rmwh")
            pc == IF there THEN "move" ELSE "cpmake"
            byc == ~there /\ ~over
<1>0. /\ op \in RenOp /\ op.pc = "prepare" /\ ~InFirst /\ ~InSecond /\ op.p \in Path /\ op.q \in Path
      /\ op.isdir \in BOOLEAN /\ ent[op.b][op.q] # Dir /\ SameKind(ent[op.bs][op.p])
      /\ UNCHANGED <<perm, ent, wh, opq>>
  BY DEF RenInv, RenType, RenOp, Prepare, InFirst, InSecond, Names, hidden
<1>1. op' = [op EXCEPT !.opq = NeedDiropq, !.byc = byc, !.cp = cp, !.pc = pc]
  BY DEF Prepare
<1>2. NeedDiropq \in BOOLEAN /\ (NeedDiropq => op.isdir)
  BY <1>0 DEF NeedDiropq
<1>3. /\ cp \in CpType /\ pc \in RenSteps /\ byc \in BOOLEAN
      /\ (pc = "move" /\ op.b = op.bs /\ ~byc) \/ (pc = "cpmake" /\ op.b # op.bs)
  BY <1>0 DEF NoCp, CpType, RenSteps
<1>4. pc = "cpmake" => /\ cp.bad = "untmp" /\ cp.from = {op.p}
                       /\ cp.n = IF byc THEN {op.q} ELSE {op.p}
                       /\ byc => cp.ok = "rmwh" \/ (cp.ok = "mkopq" /\ op.isdir)
                       /\ ~byc => cp.ok = "move"
  BY <1>2
<1>. HIDE DEF cp, pc, byc
<1>5. /\ op' \in RenOp /\ SameCall /\ op'.pc = pc /\ op'.cp = cp
      /\ op'.byc = byc /\ op'.opq = NeedDiropq /\ op'.tmp = op.tmp
  BY <1>0, <1>1, <1>2, <1>3 DEF RenOp, SameCall
<1>6. RenType' /\ HiddenWF' /\ \A r \in Path : Seen(r)' = Seen(r)
  BY <1>0, <1>5, Calm DEF RenInv
<1>7. NamesApart'
  BY <1>0, <1>5 DEF RenInv, NamesApart, SameCall, Writable
<1>8. ParentCopy'
  BY <1>3, <1>4, <1>5 DEF ParentCopy
<1>9. EntryCopy'
  BY <1>3, <1>4, <1>5 DEF EntryCopy, SameCall
<1>10. Parents'
  BY <1>0, <1>3, <1>4, <1>5 DEF RenInv, Parents, InFirst, InSecond, SameCall
<1>11. Names'
  BY <1>0, <1>2, <1>3, <1>4, <1>5 DEF RenInv, Names, InSecond, SameCall, SameKind, Kids
<1>12. Bystanders => Bystanders'
  BY <1>5, <1>6 DEF Bystanders, SameCall, Kids
<1>. QED BY <1>6, <1>7, <1>8, <1>9, <1>10, <1>11, <1>12 DEF RenInv

-----------------------------------------------------------------------------
(* The steps that change one entry on the branch. *)

(* A name that is neither of the two nor inside one of them. *)
Apart(r) == r \notin {op.p, op.q} /\ r \notin Kids(op.p) /\ r \notin Kids(op.q)

(* A step that touches nothing apart from the two names. *)
LEMMA ApartSame ==
    ASSUME op \in RenOp, SameCall, perm' = perm, \A r \in Path : Apart(r) => SameOn(r)
    PROVE  Bystanders => Bystanders'
<1>1. ASSUME NEW r \in Path, Apart(r) PROVE Seen(r)' = Seen(r)
  <2>1. r \in Sub => Up[r] \in Path /\ Apart(Up[r])
    BY <1>1, TreeAssumption DEF Apart, Kids, Path
  <2>. QED BY <1>1, <2>1, SameSeen DEF SameOn
<1>. QED BY <1>1 DEF Bystanders, Apart, SameCall, Kids

LEMMA PutType ==
    ASSUME RenType, NEW n \in Path, NEW v \in Entry, PutEnt(op.b, n, v),
           perm' = perm, wh' = wh, opq' = opq, op' \in RenOp, n \in Sub => v # Dir
    PROVE  /\ RenType'
           /\ \A b \in Br, r \in Path : ent'[b][r] = IF b = op.b /\ r = n THEN v ELSE ent[b][r]
<1>1. \A b \in Br, r \in Path : ent'[b][r] = IF b = op.b /\ r = n THEN v ELSE ent[b][r]
  BY PutAt DEF RenType
<1>2. ent' \in [Br -> [Path -> Entry]] /\ op'.b \in Br /\ Sub \subseteq Path
  BY DEF RenType, HiddenType, PutEnt, RenOp, Path
<1>. QED BY <1>1, <1>2 DEF RenType, HiddenType

(* What the record of the copy-up says. *)
LEMMA CpIs ==
    ASSUME RenInv, op.pc \in CpSteps
    PROVE  \E n \in Path :
              /\ op.cp.n = {n} /\ CpName = n
              /\ op.cp.bad = "idle" => /\ n \in Top /\ IsParent /\ CpIsDir /\ n \notin {op.p, op.q}
              /\ op.cp.bad # "idle" => /\ ~IsParent /\ (CpIsDir <=> op.isdir) /\ CpFrom = op.p
                                       /\ n = IF op.byc THEN op.q ELSE op.p
<1>. USE DEF IsParent, CpIsDir, CpName, CpFrom
<1>0. op.p \in Path /\ op.q \in Path
  BY DEF RenInv, RenType, RenOp
<1>1. CASE op.cp.bad = "idle"
  <2>1. PICK u \in Top : op.cp.n = {u} /\ u \notin {op.p, op.q}
    BY <1>1 DEF RenInv, ParentCopy
  <2>. QED BY <1>1, <2>1 DEF Path
<1>2. CASE op.cp.bad # "idle"
  <2>1. op.cp.from = {op.p} /\ op.cp.n = IF op.byc THEN {op.q} ELSE {op.p}
    BY <1>2 DEF RenInv, EntryCopy
  <2>. QED BY <1>0, <1>2, <2>1
<1>. QED BY <1>1, <1>2

(* The entry that is copied up is made, filled or removed. *)
LEMMA RenPutEntry ==
    ASSUME RenInv, op.pc \in CpSteps, op.cp.bad # "idle", NEW v \in Entry,
           PutEnt(op.b, CpName, v), perm' = perm, wh' = wh, opq' = opq,
           \/ op.pc = "cpmake" /\ ent[op.b][CpName] = NoEnt /\ SameKind(v)
              /\ GoOn({IF op.isdir THEN "cpattr" ELSE "cpfill"})
           \/ op.pc = "cpfill" /\ SameKind(v) /\ GoOn({"cpattr"})
           \/ op.pc = "cpundo" /\ v = NoEnt /\ GoOn({op.cp.bad})
    PROVE  RenInv' /\ (Bystanders => Bystanders')
<1>. USE DEF CpSteps, EarlySteps, LateSteps
<1>1. PICK n \in Path : /\ op.cp.n = {n} /\ CpName = n /\ n = IF op.byc THEN op.q ELSE op.p
  BY CpIs
<1>2. /\ op.cp.bad = "untmp" /\ op.b # op.bs
      /\ op.byc => op.cp.ok = "rmwh" \/ (op.cp.ok = "mkopq" /\ op.isdir)
      /\ ~op.byc => op.cp.ok = "move"
      /\ op.pc = "cpfill" => ~op.isdir
      /\ op.pc # "cpmake" => NoKids(op.b, n) /\ n \notin opq[op.b]
  BY <1>1 DEF RenInv, EntryCopy
<1>3. ~InFirst /\ ~InSecond
  BY <1>2 DEF InFirst, InSecond
<1>4. /\ op \in RenOp /\ op.b \in Br /\ op.bs \in Br /\ op.p \in Path /\ op.q \in Path
      /\ HiddenType /\ HiddenWF /\ op.p # op.q /\ NoEnt # Dir /\ NoEnt \notin File
      /\ op.isdir \in BOOLEAN /\ op.byc \in BOOLEAN
  BY EntryAssumption DEF RenInv, RenType, RenOp, NamesApart
<1>5. NoKids(op.b, n) /\ n \notin opq[op.b]
  BY <1>1, <1>2, <1>4, NotDir
<1>6. (n \in Sub => ent[op.b][Up[n]] = Dir) /\ (n \in Sub => ~op.isdir)
  BY <1>1, <1>3, <1>4 DEF RenInv, Parents, NamesApart
<1>7. n \in Sub => v # Dir
  BY <1>4, <1>6, EntryAssumption DEF SameKind, OfKind
<1>8. /\ op' \in RenOp /\ SameCall /\ op'.w = op.w /\ op'.whd = op.whd /\ op'.byc = op.byc
      /\ op'.opq = op.opq /\ op'.tmp = op.tmp /\ op'.cp = op.cp
      /\ \/ op'.pc \in {"cpattr", "cpfill"} /\ SameKind(v) /\ (op'.pc = "cpfill" => ~op.isdir)
         \/ op'.pc = "untmp" /\ v = NoEnt
  BY <1>2 DEF GoOn
<1>9. /\ RenType'
      /\ \A b \in Br, r \in Path : ent'[b][r] = IF b = op.b /\ r = n THEN v ELSE ent[b][r]
  BY <1>1, <1>7, <1>8, PutType DEF RenInv
<1>10. HiddenWF'
  BY <1>1, <1>4, <1>5, <1>6, PutWF
<1>11. NamesApart'
  BY <1>8 DEF RenInv, NamesApart, SameCall, Writable
<1>12. ParentCopy'
  BY <1>2, <1>8 DEF ParentCopy
<1>13. NoKids(op.b, n)'
  BY <1>4, <1>5, <1>8, <1>9, KidsOf DEF NoKids, SameCall, Path
<1>14. EntryCopy'
  <2>1. op'.pc \in CpSteps => OfKind(op'.isdir, ent'[op'.b][n])
    BY <1>4, <1>8, <1>9 DEF SameKind, SameCall
  <2>2. \A m \in op'.cp.n : m = n
    BY <1>1, <1>8
  <2>3. n \notin opq'[op'.b]
    BY <1>5, <1>8 DEF SameCall
  <2>. QED BY <1>1, <1>2, <1>8, <1>13, <2>1, <2>2, <2>3 DEF EntryCopy, SameCall, SameKind, RenInv, NoKids
<1>15. Parents'
  <2>1. op.p \in Sub => Up[op.p] \in Path /\ Up[op.p] # n
    BY <1>1, <1>4, KidsOf, TreeAssumption DEF RenInv, NamesApart
  <2>2. op.q \in Sub => Up[op.q] \in Path /\ Up[op.q] # n
    BY <1>1, <1>4, KidsOf, TreeAssumption DEF RenInv, NamesApart
  <2>3. /\ op.p \in Sub => ent'[op.b][Up[op.p]] = Dir
        /\ op.q \in Sub => ent'[op.b][Up[op.q]] = Dir
    BY <1>3, <1>4, <1>9, <2>1, <2>2 DEF RenInv, Parents
  <2>. QED BY <1>2, <1>8, <2>3 DEF Parents, InFirst, SameCall
<1>16. Names'
  <2>1. op.pc \in CpSteps /\ (op.opq => op.isdir)
        /\ (op.tmp.on => op.q \in Top /\ op.tmp.wh \subseteq Kids(op.q))
        /\ SameKind(ent[op.bs][op.p]) /\ (ent[op.b][op.q] # Dir \/ op.byc)
    BY <1>2 DEF RenInv, Names
  <2>2. ent'[op.bs][op.p] = ent[op.bs][op.p] /\ (~op.byc => ent'[op.b][op.q] = ent[op.b][op.q])
    BY <1>1, <1>2, <1>4, <1>9
  <2>. QED BY <1>2, <1>8, <2>1, <2>2 DEF Names, InSecond, SameCall, SameKind, Kids
<1>17. Bystanders => Bystanders'
  <2>1. \A r \in Path : Apart(r) => SameOn(r)
    BY <1>1, <1>9 DEF Apart, SameOn
  <2>. QED BY <1>4, <1>8, <2>1, ApartSame
<1>. QED BY <1>9, <1>10, <1>11, <1>12, <1>14, <1>15, <1>16, <1>17 DEF RenInv

(* A parent directory is made, or removed again. *)
LEMMA RenPutParent ==
    ASSUME RenInv, op.pc \in CpSteps, op.cp.bad = "idle", NEW v \in Entry,
           PutEnt(op.b, CpName, v), perm' = perm, wh' = wh, opq' = opq,
           \/ op.pc = "cpmake" /\ ent[op.b][CpName] = NoEnt /\ v = Dir /\ GoOn({"cpattr"})
           \/ op.pc = "cpundo" /\ v = NoEnt /\ GoOn({"idle"})
    PROVE  RenInv' /\ (Bystanders => Bystanders') /\ \A r \in Path : Seen(r)' = Seen(r)
<1>. USE DEF CpSteps, EarlySteps, LateSteps
<1>1. PICK u \in Top :
            /\ op.cp.n = {u} /\ u \notin {op.p, op.q}
            /\ \/ op.cp.ok = "neg" /\ op.q \in Sub /\ u = Up[op.q]
               \/ op.cp.ok = "mkwh" /\ op.p \in Sub /\ u = Up[op.p]
            /\ op.pc = "cpmake" /\ ent[op.b][u] = NoEnt
                   => \E x \in Br : Lacks(Ents(u), Whs(u), Opqs(u), op.b, x)
            /\ op.pc # "cpmake"
                   => /\ ent[op.b][u] = Dir /\ NoKids(op.b, u) /\ u \notin opq[op.b]
                      /\ \E x \in Br : Lacks([Ents(u) EXCEPT ![op.b] = NoEnt],
                                             Whs(u), Opqs(u), op.b, x)
  BY DEF RenInv, ParentCopy
<1>2. CpName = u /\ u \in Path /\ u \notin Sub
  BY <1>1, TreeAssumption DEF CpName, Path
<1>3. /\ op \in RenOp /\ op.b \in Br /\ op.bs \in Br /\ op.p \in Path /\ op.q \in Path
      /\ HiddenType /\ HiddenWF /\ NoEnt # Dir
  BY EntryAssumption DEF RenInv, RenType, RenOp
<1>4. NoKids(op.b, u) /\ u \notin opq[op.b]
  BY <1>1, <1>2, <1>3, NotDir
<1>5. /\ op' \in RenOp /\ SameCall /\ op'.w = op.w /\ op'.whd = op.whd /\ op'.byc = op.byc
      /\ op'.opq = op.opq /\ op'.tmp = op.tmp /\ op'.cp = op.cp
      /\ \/ op.pc = "cpmake" /\ op'.pc = "cpattr" /\ v = Dir /\ ent[op.b][u] = NoEnt
         \/ op.pc = "cpundo" /\ op'.pc = "idle" /\ v = NoEnt
  BY <1>2 DEF GoOn
<1>6. /\ RenType'
      /\ \A b \in Br, r \in Path : ent'[b][r] = IF b = op.b /\ r = u THEN v ELSE ent[b][r]
  BY <1>2, <1>5, PutType DEF RenInv
<1>7. HiddenWF'
  BY <1>2, <1>3, <1>4, PutWF
<1>. DEFINE e == [Ents(u) EXCEPT ![op.b] = NoEnt]
<1>8. PICK x \in Br : Lacks(e, Whs(u), Opqs(u), op.b, x)
  <2>1. CASE op.pc = "cpmake"
    <3>1. e = Ents(u)
      BY <1>3, <1>5, <2>1 DEF Ents
    <3>. QED BY <1>1, <1>5, <2>1, <3>1
  <2>. QED BY <1>1, <1>5, <2>1
<1>9. /\ \/ Ents(u) = e /\ Ents(u)' = [e EXCEPT ![op.b] = Dir]
         \/ Ents(u)' = e /\ Ents(u) = [e EXCEPT ![op.b] = Dir]
      /\ [Ents(u)' EXCEPT ![op.b] = NoEnt] = e
      /\ v = Dir => Ents(u) = e /\ Ents(u)' = WithDir(e, op.b)
  <2>1. /\ Ents(u) = [b \in Br |-> ent[b][u]]
        /\ Ents(u)' = [b \in Br |-> IF b = op.b THEN v ELSE ent[b][u]]
    BY <1>2, <1>6 DEF Ents
  <2>. QED BY <1>1, <1>3, <1>5, <2>1 DEF WithDir
<1>. HIDE DEF e
<1>10. \A r \in Path : Seen(r)' = Seen(r)
  BY <1>2, <1>3, <1>4, <1>5, <1>8, <1>9, DirTouches
<1>11. \A r \in Path : /\ Whs(r)' = Whs(r) /\ Opqs(r)' = Opqs(r)
                       /\ r # u => Ents(r)' = Ents(r)
  BY <1>6 DEF Whs, Opqs, HasWh, IsOpq, Whable, Ents
<1>12. NamesApart'
  BY <1>5 DEF RenInv, NamesApart, SameCall, Writable
<1>13. ParentCopy'
  <2>. SUFFICES ASSUME op'.pc = "cpattr" PROVE ParentCopy'
    BY <1>5 DEF ParentCopy
  <2>1. ent'[op.b][u] = Dir /\ u \notin opq'[op.b]
    BY <1>2, <1>3, <1>4, <1>5, <1>6
  <2>2. NoKids(op.b, u)'
    BY <1>3, <1>4, <1>5, <1>6, KidsOf DEF NoKids, SameCall, Path, Kids
  <2>3. Lacks([Ents(u)' EXCEPT ![op'.b] = NoEnt], Whs(u)', Opqs(u)', op'.b, x)
    BY <1>2, <1>5, <1>8, <1>9, <1>11 DEF SameCall
  <2>. QED BY <1>1, <1>5, <2>1, <2>2, <2>3 DEF ParentCopy, SameCall
<1>14. EntryCopy'
  BY <1>5 DEF EntryCopy
<1>15. Parents'
  <2>. SUFFICES ASSUME op'.pc = "cpattr" PROVE Parents'
    BY <1>5 DEF Parents, InFirst
  <2>1. ASSUME op.cp.ok = "neg", op.p \in Sub PROVE op.bs \in Dirs(op.p)'
    <3>1. op.bs \in Dirs(op.p)
      BY <1>5, <2>1 DEF RenInv, Parents, InFirst
    <3>2. PICK r \in Sub : r = op.p /\ r = op'.p /\ r \notin Top
      BY <1>5, <2>1, TreeAssumption DEF SameCall
    <3>3. Up[r] \in Path
      BY TreeAssumption DEF Path
    <3>4. CASE Up[r] = u
      <4>1. op.bs \in Inside(e, Whs(u), Opqs(u))
        BY <1>5, <1>9, <3>1, <3>2, <3>4 DEF Dirs
      <4>2. op.bs \in Inside(WithDir(e, op.b), Whs(u), Opqs(u))
        BY <1>8, <4>1, AddDir
      <4>3. Dirs(r)' = Inside(WithDir(e, op.b), Whs(u), Opqs(u))
        BY <1>2, <1>5, <1>9, <1>11, <3>2, <3>4 DEF Dirs
      <4>4. Dirs(op.p)' = Dirs(r)'
        BY <3>2 DEF Dirs
      <4>. QED BY <4>2, <4>3, <4>4
    <3>5. CASE Up[r] # u
      <4>1. Dirs(r)' = Dirs(r)
        BY <1>11, <3>2, <3>3, <3>5 DEF Dirs
      <4>2. Dirs(op.p)' = Dirs(r)' /\ Dirs(op.p) = Dirs(r)
        BY <3>2 DEF Dirs
      <4>. QED BY <3>1, <4>1, <4>2
    <3>. QED BY <3>4, <3>5
  <2>2. ASSUME op.cp.ok # "neg", op.q \in Sub PROVE ent'[op.b][Up[op.q]] = Dir
    <3>1. ent[op.b][Up[op.q]] = Dir
      BY <1>5, <2>2 DEF RenInv, Parents, InFirst
    <3>. QED BY <1>3, <1>5, <1>6, <2>2, <3>1, KidsOf
  <2>. QED BY <1>1, <1>5, <2>1, <2>2 DEF Parents, InFirst, InSecond, SameCall
<1>16. Names'
  <2>1. /\ (op.opq => op.isdir) /\ (op.tmp.on => op.q \in Top /\ op.tmp.wh \subseteq Kids(op.q))
        /\ SameKind(ent[op.bs][op.p])
        /\ op.cp.ok = "mkwh" /\ ~op.isdir => ent[op.b][op.q] # Dir
    BY DEF RenInv, Names, InSecond
  <2>2. ent'[op.bs][op.p] = ent[op.bs][op.p] /\ ent'[op.b][op.q] = ent[op.b][op.q]
    BY <1>1, <1>3, <1>6
  <2>. QED BY <1>5, <2>1, <2>2 DEF Names, InSecond, SameCall, SameKind, Kids
<1>17. Bystanders => Bystanders'
  BY <1>5, <1>10 DEF Bystanders, SameCall, Kids
<1>. QED BY <1>6, <1>7, <1>10, <1>12, <1>13, <1>14, <1>15, <1>16, <1>17 DEF RenInv

(* The steps of a copy-up, and the lookups that only compare. *)
LEMMA RenCopy ==
    ASSUME RenInv, NegTarget \/ CpMake \/ CpFill \/ CpAttr \/ CpUndo \/ AsideNeg
    PROVE  RenInv' /\ (Bystanders => Bystanders')
<1>. USE DEF CpSteps, EarlySteps, LateSteps
<1>0. /\ op \in RenOp /\ op.cp.ok \in RenSteps /\ op.cp.bad \in RenSteps
      /\ Dir \in Entry /\ NoEnt \in Entry /\ Partial \in Entry /\ Partial \in File
      /\ op.bs \in Br /\ op.p \in Path /\ ent \in [Br -> [Path -> Entry]]
      /\ NoEnt # Dir /\ op.isdir \in BOOLEAN
  BY EntryAssumption DEF RenInv, RenType, RenOp, CpType, Entry, File, HiddenType
<1>1. op.pc \in CpSteps => /\ op.cp.bad \in {"idle", "untmp"}
                           /\ op.cp.bad = "untmp" => ~InFirst /\ ~InSecond
  BY DEF RenInv, ParentCopy, EntryCopy, InFirst, InSecond
<1>2. ASSUME op.pc \in CpSteps, GoOn({op.cp.bad}), UNCHANGED <<perm, ent, wh, opq>>
      PROVE  RenInv' /\ (Bystanders => Bystanders')
  BY <1>0, <1>1, <1>2, CalmTo
<1>3. ASSUME op.pc \in {"cpfill", "cpattr"}, GoOn({"cpundo"}), UNCHANGED <<perm, ent, wh, opq>>
      PROVE  RenInv' /\ (Bystanders => Bystanders')
  BY <1>0, <1>3, CalmTo DEF RenSteps
<1>4. CASE NegTarget
  <2>1. CASE ent[op.b][op.q] = NoEnt /\ Goto("check") /\ UNCHANGED <<perm, hidden, crashes>>
    BY <1>0, <1>4, <2>1, GoOnBy, CalmTo DEF NegTarget, RenSteps, hidden
  <2>2. CASE Refuse("err")
    BY <1>0, <1>4, <2>2, GoOnBy, CalmTo DEF NegTarget, RenSteps, hidden, Refuse, Rets
  <2>. QED BY <1>4, <2>1, <2>2 DEF NegTarget
<1>5. CASE CpMake
  <2>1. op.pc \in CpSteps /\ op.pc = "cpmake"
    BY <1>5 DEF CpMake
  <2>2. CASE /\ ent[op.b][CpName] = NoEnt
             /\ PutEnt(op.b, CpName, IF CpIsDir THEN Dir ELSE Partial)
             /\ Goto(IF CpIsDir THEN "cpattr" ELSE "cpfill")
             /\ UNCHANGED <<perm, wh, opq, crashes>>
    <3>1. CASE op.cp.bad = "idle"
      <4>1. CpIsDir
        BY <2>1, <3>1, CpIs
      <4>2. PutEnt(op.b, CpName, Dir) /\ GoOn({"cpattr"})
        BY <1>0, <2>2, <4>1, GoOnBy DEF RenSteps
      <4>. QED BY <1>0, <2>1, <2>2, <3>1, <4>2, RenPutParent
    <3>2. CASE op.cp.bad # "idle"
      <4>1. CpIsDir <=> op.isdir
        BY <2>1, <3>2, CpIs
      <4>. DEFINE v == IF op.isdir THEN Dir ELSE Partial
      <4>2. PutEnt(op.b, CpName, v) /\ SameKind(v) /\ v \in Entry
        BY <1>0, <2>2, <4>1 DEF SameKind, OfKind
      <4>3. GoOn({IF op.isdir THEN "cpattr" ELSE "cpfill"})
        BY <1>0, <2>2, <4>1, GoOnBy DEF RenSteps
      <4>. HIDE DEF v
      <4>. QED BY <1>0, <2>1, <2>2, <3>2, <4>2, <4>3, RenPutEntry
    <3>. QED BY <3>1, <3>2
  <2>3. CASE op' = [op EXCEPT !.pc = op.cp.bad, !.ret = "err"] /\ UNCHANGED <<perm, hidden, crashes>>
    BY <1>0, <1>2, <2>1, <2>3, GoOnBy DEF hidden, Rets
  <2>4. CASE FailTo(op.cp.bad)
    BY <1>0, <1>2, <2>1, <2>4, GoOnBy
  <2>. QED BY <1>5, <2>2, <2>3, <2>4 DEF CpMake
<1>6. CASE CpFill
  <2>1. op.pc \in CpSteps /\ op.pc = "cpfill"
    BY <1>6 DEF CpFill
  <2>2. CASE /\ PutEnt(op.b, CpName, ent[op.bs][CpFrom])
             /\ Goto("cpattr")
             /\ UNCHANGED <<perm, wh, opq, crashes>>
    <3>1. op.cp.bad # "idle"
      BY <2>1 DEF RenInv, ParentCopy
    <3>2. CpFrom = op.p
      BY <2>1, <3>1, CpIs
    <3>3. SameKind(ent[op.bs][op.p]) /\ ent[op.bs][op.p] \in Entry
      BY <1>0, <2>1 DEF RenInv, Names
    <3>4. GoOn({"cpattr"})
      BY <1>0, <2>2, GoOnBy DEF RenSteps
    <3>. QED BY <2>1, <2>2, <3>1, <3>2, <3>3, <3>4, RenPutEntry
  <2>3. CASE FailTo("cpundo")
    BY <1>0, <1>3, <2>1, <2>3, GoOnBy DEF RenSteps
  <2>. QED BY <1>6, <2>2, <2>3 DEF CpFill
<1>7. CASE CpAttr
  <2>1. op.pc = "cpattr"
    BY <1>7 DEF CpAttr
  <2>2. CASE Goto(op.cp.ok) /\ UNCHANGED <<perm, hidden, crashes>>
    BY <1>0, <2>1, <2>2, GoOnBy, CalmTo DEF hidden
  <2>3. CASE FailTo("cpundo")
    BY <1>0, <1>3, <2>1, <2>3, GoOnBy DEF RenSteps
  <2>. QED BY <1>7, <2>2, <2>3 DEF CpAttr
<1>8. CASE CpUndo
  <2>1. op.pc \in CpSteps /\ op.pc = "cpundo"
    BY <1>8 DEF CpUndo
  <2>2. CASE /\ PutEnt(op.b, CpName, NoEnt)
             /\ Goto(op.cp.bad)
             /\ UNCHANGED <<perm, wh, opq, crashes>>
    <3>1. GoOn({op.cp.bad})
      BY <1>0, <2>2, GoOnBy
    <3>2. CASE op.cp.bad = "idle"
      BY <1>0, <2>1, <2>2, <3>1, <3>2, RenPutParent
    <3>3. CASE op.cp.bad # "idle"
      BY <1>0, <2>1, <2>2, <3>1, <3>3, RenPutEntry
    <3>. QED BY <3>2, <3>3
  <2>3. CASE UndoFailTo(op.cp.bad)
    BY <1>0, <1>2, <2>1, <2>3, GoOnBy
  <2>. QED BY <1>8, <2>2, <2>3 DEF CpUndo
<1>9. CASE AsideNeg
  <2>1. CASE Goto("prepare") /\ UNCHANGED <<perm, hidden, crashes>>
    BY <1>0, <1>9, <2>1, GoOnBy, CalmTo DEF AsideNeg, RenSteps, hidden
  <2>2. CASE FailTo("untmp")
    BY <1>0, <1>9, <2>2, GoOnBy, CalmTo DEF AsideNeg, RenSteps, InFirst, InSecond
  <2>. QED BY <1>9, <2>1, <2>2 DEF AsideNeg
<1>. QED BY <1>4, <1>5, <1>6, <1>7, <1>8, <1>9

-----------------------------------------------------------------------------
(* The steps of do_rename and of its undo chain. *)

(* A step that changes only the two names and what is in them: the parents  *)
(* stay, and so does everything apart.                                      *)
LEMMA RenKeep ==
    ASSUME RenInv, op.pc \notin CpSteps \cup {"idle", "neg", "check"},
           op' \in RenOp, SameCall, op'.pc \notin CpSteps \cup {"neg", "check"}, perm' = perm,
           HiddenType', \A b \in Br, k \in Sub : ent'[b][k] # Dir, HiddenWF', Names',
           \A r \in Path : Apart(r) => SameOn(r)
    PROVE  RenInv' /\ (Bystanders => Bystanders')
<1>0. op \in RenOp /\ op.b \in Br /\ op.p \in Path /\ op.q \in Path /\ ~InFirst /\ ~InSecond
  BY DEF RenInv, RenType, RenOp, InFirst, InSecond
<1>1. RenType'
  BY DEF RenInv, RenType
<1>2. NamesApart'
  BY DEF RenInv, NamesApart, SameCall, Writable
<1>3. ParentCopy' /\ EntryCopy'
  BY DEF ParentCopy, EntryCopy
<1>4. /\ op.p \in Sub => Up[op.p] \in Path /\ Apart(Up[op.p]) /\ ent[op.b][Up[op.p]] = Dir
      /\ op.q \in Sub => Up[op.q] \in Path /\ Apart(Up[op.q]) /\ ent[op.b][Up[op.q]] = Dir
  BY <1>0, KidsOf, TreeAssumption DEF RenInv, Parents, NamesApart, Apart, Kids
<1>5. Parents'
  BY <1>0, <1>4 DEF Parents, SameOn, SameCall, InFirst
<1>. QED BY <1>0, <1>1, <1>2, <1>3, <1>5, ApartSame DEF RenInv

(* The marks of the branches change, the entries do not. *)
LEMMA MarksWF ==
    ASSUME HiddenWF, ent' = ent,
           \A b \in Br : \A k \in wh'[b] \cap Sub : k \in wh[b] \/ ent[b][Up[k]] = Dir,
           \A b \in Br : \A r \in opq'[b] : r \in opq[b] \/ ent[b][r] = Dir
    PROVE  HiddenWF'
BY DEF HiddenWF, WellFormed

(* Whiteouts and opaque marks are made and removed. *)
LEMMA RenMarks ==
    ASSUME RenInv, WhSrc \/ Opaque \/ Done \/ UnOpaque \/ UnWhSrc
    PROVE  RenInv' /\ (Bystanders => Bystanders')
<1>. USE DEF CpSteps, EarlySteps, LateSteps
<1>0. /\ op \in RenOp /\ op.b \in Br /\ op.p \in Path /\ op.q \in Path /\ op.isdir \in BOOLEAN
      /\ ent \in [Br -> [Path -> Entry]] /\ wh \in [Br -> SUBSET Path] /\ opq \in [Br -> SUBSET Top]
      /\ HiddenWF /\ NoEnt # Dir /\ Dir \notin File
      /\ \A b \in Br, k \in Sub : ent[b][k] # Dir
  BY EntryAssumption DEF RenInv, RenType, RenOp, HiddenType
<1>1. ASSUME NEW pc \in RenSteps, GoOn({pc}), ent' = ent, perm' = perm,
             op.pc \notin CpSteps \cup {"idle", "neg", "check"}, pc \notin CpSteps \cup {"neg", "check"},
             wh' \in [Br -> SUBSET Path], opq' \in [Br -> SUBSET Top], HiddenWF', Names',
             \A b \in Br : \A r \in Path : r \notin {op.p, op.q} =>
                 (r \in wh'[b] <=> r \in wh[b]) /\ (r \in opq'[b] <=> r \in opq[b])
      PROVE  RenInv' /\ (Bystanders => Bystanders')
  <2>1. op' \in RenOp /\ SameCall /\ op'.pc = pc
    BY <1>1 DEF GoOn
  <2>2. HiddenType'
    BY <1>0, <1>1, <2>1 DEF HiddenType, RenOp
  <2>3. \A r \in Path : Apart(r) => SameOn(r)
    BY <1>1 DEF Apart, SameOn
  <2>. QED BY <1>0, <1>1, <2>1, <2>2, <2>3, RenKeep
<1>2. ASSUME NEW pc \in RenSteps, GoOn({pc}), ent' = ent,
             \/ op.pc = "mkwh" /\ pc = "lkwh"
             \/ op.pc = "mkopq" /\ pc = "rmwh"
             \/ op.pc = "unopq" /\ pc = "unmove"
             \/ pc = "idle"
      PROVE  Names'
  BY <1>2 DEF Names, RenInv, GoOn, SameCall, SameKind, Kids, InSecond
<1>3. CASE WhSrc
  <2>1. op.pc = "mkwh" /\ op.pc \in RenSteps /\ "lkwh" \in RenSteps /\ "idle" \in RenSteps
    BY <1>3 DEF WhSrc, RenSteps
  <2>2. CASE AddWh(op.b, op.p) /\ Goto("lkwh") /\ UNCHANGED <<perm, ent, opq, crashes>>
    <3>1. GoOn({"lkwh"})
      BY <1>0, <2>1, <2>2, GoOnBy
    <3>2. \A b \in Br : \A k \in wh'[b] : k \in wh[b] \/ (b = op.b /\ k = op.p)
      BY <1>0, <2>2 DEF AddWh
    <3>3. op.p \in Sub => ent[op.b][Up[op.p]] = Dir
      BY <2>1 DEF RenInv, Parents, InFirst, InSecond
    <3>4. HiddenWF'
      BY <1>0, <2>2, <3>2, <3>3, MarksWF
    <3>5. wh' \in [Br -> SUBSET Path] /\ \A b \in Br : \A r \in Path : r # op.p => (r \in wh'[b] <=> r \in wh[b])
      BY <1>0, <2>2 DEF AddWh
    <3>6. Names'
      BY <1>2, <2>1, <2>2, <3>1
    <3>. QED BY <1>0, <1>1, <2>1, <2>2, <3>1, <3>4, <3>5, <3>6
  <2>3. CASE Goto("lkwh") /\ UNCHANGED <<perm, hidden, crashes>>
    BY <1>0, <2>1, <2>3, GoOnBy, CalmTo DEF hidden
  <2>4. CASE FailTo("idle")
    BY <1>0, <2>1, <2>4, GoOnBy, CalmTo
  <2>. QED BY <1>3, <2>2, <2>3, <2>4 DEF WhSrc
<1>4. CASE Opaque
  <2>1. op.pc = "mkopq" /\ "rmwh" \in RenSteps /\ "unmove" \in RenSteps
    BY <1>4 DEF Opaque, RenSteps
  <2>2. CASE opq' = [opq EXCEPT ![op.b] = @ \cup {op.q}] /\ Goto("rmwh") /\ UNCHANGED <<perm, ent, wh, crashes>>
    <3>1. GoOn({"rmwh"})
      BY <1>0, <2>1, <2>2, GoOnBy
    <3>2. op.q \in Top /\ ent[op.b][op.q] = Dir
      BY <1>0, <2>1 DEF RenInv, Names, NamesApart, SameKind, OfKind, Path
    <3>3. /\ opq' \in [Br -> SUBSET Top]
          /\ \A b \in Br : \A r : r \in opq'[b] <=> r \in opq[b] \/ (b = op.b /\ r = op.q)
      BY <1>0, <2>2, <3>2
    <3>4. HiddenWF'
      BY <1>0, <2>2, <3>2, <3>3, MarksWF
    <3>5. Names'
      BY <1>2, <2>1, <2>2, <3>1
    <3>. QED BY <1>0, <1>1, <2>1, <2>2, <3>1, <3>3, <3>4, <3>5
  <2>3. CASE FailTo("unmove")
    BY <1>0, <2>1, <2>3, GoOnBy, CalmTo
  <2>. QED BY <1>4, <2>2, <2>3 DEF Opaque
<1>5. CASE Done
  <2>1. op.pc = "rmwh" /\ {"idle", "unmove", "unopq"} \subseteq RenSteps
    BY <1>5 DEF Done, RenSteps
  <2>2. CASE /\ wh' = IF op.whd THEN [wh EXCEPT ![op.b] = @ \ {op.q}] ELSE wh
             /\ Return /\ UNCHANGED <<perm, ent, opq, crashes>>
    <3>1. GoOn({"idle"})
      BY <1>0, <2>1, <2>2, GoOnBy
    <3>2. /\ wh' \in [Br -> SUBSET Path]
          /\ \A b \in Br : \A r : (r \in wh'[b] => r \in wh[b]) /\ (r \in wh[b] /\ r # op.q => r \in wh'[b])
      BY <1>0, <2>2
    <3>3. HiddenWF'
      BY <1>0, <2>2, <3>2, MarksWF
    <3>4. Names'
      BY <1>2, <2>1, <2>2, <3>1
    <3>. QED BY <1>0, <1>1, <2>1, <2>2, <3>1, <3>2, <3>3, <3>4
  <2>3. CASE FailTo(IF op.opq THEN "unopq" ELSE "unmove")
    <3>1. PICK pc \in {"unopq", "unmove"} : FailTo(pc)
      BY <2>3
    <3>. QED BY <1>0, <2>1, <3>1, GoOnBy, CalmTo
  <2>. QED BY <1>5, <2>2, <2>3 DEF Done
<1>6. CASE UnOpaque
  <2>1. op.pc = "unopq" /\ "unmove" \in RenSteps
    BY <1>6 DEF UnOpaque, RenSteps
  <2>2. CASE opq' = [opq EXCEPT ![op.b] = @ \ {op.q}] /\ Goto("unmove") /\ UNCHANGED <<perm, ent, wh, crashes>>
    <3>1. GoOn({"unmove"})
      BY <1>0, <2>1, <2>2, GoOnBy
    <3>2. /\ opq' \in [Br -> SUBSET Top]
          /\ \A b \in Br : \A r : (r \in opq'[b] => r \in opq[b]) /\ (r \in opq[b] /\ r # op.q => r \in opq'[b])
      BY <1>0, <2>2
    <3>3. HiddenWF'
      BY <1>0, <2>2, <3>2, MarksWF
    <3>4. Names'
      BY <1>2, <2>1, <2>2, <3>1
    <3>. QED BY <1>0, <1>1, <2>1, <2>2, <3>1, <3>2, <3>3, <3>4
  <2>3. CASE UndoFailTo("unmove")
    BY <1>0, <2>1, <2>3, GoOnBy, CalmTo
  <2>. QED BY <1>6, <2>2, <2>3 DEF UnOpaque
<1>7. CASE UnWhSrc
  <2>1. op.pc = "unwh" /\ "idle" \in RenSteps
    BY <1>7 DEF UnWhSrc, RenSteps
  <2>2. CASE /\ wh' = IF op.w THEN [wh EXCEPT ![op.b] = @ \ {op.p}] ELSE wh
             /\ Return /\ UNCHANGED <<perm, ent, opq, crashes>>
    <3>1. GoOn({"idle"})
      BY <1>0, <2>1, <2>2, GoOnBy
    <3>2. /\ wh' \in [Br -> SUBSET Path]
          /\ \A b \in Br : \A r : (r \in wh'[b] => r \in wh[b]) /\ (r \in wh[b] /\ r # op.p => r \in wh'[b])
      BY <1>0, <2>2
    <3>3. HiddenWF'
      BY <1>0, <2>2, <3>2, MarksWF
    <3>4. Names'
      BY <1>2, <2>1, <2>2, <3>1
    <3>. QED BY <1>0, <1>1, <2>1, <2>2, <3>1, <3>2, <3>3, <3>4
  <2>3. CASE UndoFailTo("idle")
    BY <1>0, <2>1, <2>3, GoOnBy, CalmTo
  <2>. QED BY <1>7, <2>2, <2>3 DEF UnWhSrc
<1>. QED BY <1>3, <1>4, <1>5, <1>6, <1>7

(* The directory that is replaced is put aside, with what is in it. *)
LEMMA RenAside ==
    ASSUME RenInv, PutAside PROVE RenInv' /\ (Bystanders => Bystanders')
<1>. USE DEF CpSteps, EarlySteps, LateSteps
<1>0. /\ op \in RenOp /\ op.b \in Br /\ op.bs \in Br /\ op.p \in Path /\ op.q \in Path
      /\ ent \in [Br -> [Path -> Entry]] /\ wh \in [Br -> SUBSET Path] /\ opq \in [Br -> SUBSET Top]
      /\ HiddenWF /\ NoEnt # Dir /\ NoEnt \in Entry
      /\ \A b \in Br, k \in Sub : ent[b][k] # Dir
  BY EntryAssumption DEF RenInv, RenType, RenOp, HiddenType, Entry
<1>1. op.pc = "aside" /\ {"asideneg", "unwh"} \subseteq RenSteps /\ ~InFirst /\ ~InSecond
  BY DEF PutAside, RenSteps, InFirst, InSecond
<1>2. CASE FailTo("unwh")
  BY <1>0, <1>1, <1>2, GoOnBy, CalmTo
<1>3. CASE /\ op' = [op EXCEPT !.tmp = Aside(op.b, op.q), !.pc = "asideneg"]
           /\ ent' = [ent EXCEPT ![op.b] = [r \in Path |->
                        IF r = op.q \/ r \in Kids(op.q) THEN NoEnt ELSE @[r]]]
           /\ wh' = [wh EXCEPT ![op.b] = @ \ Kids(op.q)]
           /\ opq' = [opq EXCEPT ![op.b] = @ \ {op.q}]
           /\ UNCHANGED <<perm, crashes>>
  <2>1. op.q \in Top /\ op.q \notin Sub /\ Sub \subseteq Path /\ Top \subseteq Path
        /\ Kids(op.q) \subseteq Sub
    BY <1>0, <1>1, TreeAssumption DEF RenInv, Names, NamesApart, Path, Kids
  <2>2. Aside(op.b, op.q) \in TmpType /\ Aside(op.b, op.q).wh \subseteq Kids(op.q)
    <3>1. \A k \in Sub : ent[op.b][k] \in File \cup {NoEnt}
      BY <1>0, <2>1 DEF Entry
    <3>. QED BY <1>0, <3>1 DEF Aside, TmpType
  <2>3. /\ op' \in RenOp /\ SameCall /\ op'.pc = "asideneg" /\ op'.byc = op.byc
        /\ op'.opq = op.opq /\ op'.tmp.wh \subseteq Kids(op.q)
    BY <1>0, <1>1, <1>3, <2>2 DEF RenOp, SameCall
  <2>4. /\ ent' \in [Br -> [Path -> Entry]]
        /\ \A b \in Br, r \in Path :
               ent'[b][r] = IF b = op.b /\ (r = op.q \/ r \in Kids(op.q)) THEN NoEnt ELSE ent[b][r]
    BY <1>0, <1>3
  <2>5. /\ wh' \in [Br -> SUBSET Path] /\ opq' \in [Br -> SUBSET Top]
        /\ \A b \in Br : \A r \in Path :
               /\ r \in wh'[b] <=> r \in wh[b] /\ ~(b = op.b /\ r \in Kids(op.q))
               /\ r \in opq'[b] <=> r \in opq[b] /\ ~(b = op.b /\ r = op.q)
    BY <1>0, <1>3
  <2>6. HiddenType' /\ \A b \in Br, k \in Sub : ent'[b][k] # Dir
    BY <1>0, <2>1, <2>3, <2>4, <2>5 DEF HiddenType, RenOp
  <2>7. HiddenWF'
    <3>1. ASSUME NEW b \in Br, NEW k \in Sub, ent'[b][k] # NoEnt \/ k \in wh'[b]
          PROVE  ent'[b][Up[k]] = Dir
      <4>1. k \in Path /\ Up[k] \in Path /\ Up[k] \notin Kids(op.q)
        BY TreeAssumption DEF Path, Kids
      <4>2. ~(b = op.b /\ Up[k] = op.q)
        BY <2>4, <2>5, <3>1, <4>1 DEF Kids
      <4>3. ent[b][Up[k]] = Dir
        BY <1>0, <2>4, <2>5, <3>1, <4>1 DEF HiddenWF, WellFormed
      <4>. QED BY <2>4, <4>1, <4>2, <4>3
    <3>2. ASSUME NEW b \in Br, NEW r \in opq'[b] PROVE ent'[b][r] = Dir
      <4>1. r \in Top /\ r \in Path /\ r \notin Kids(op.q)
        BY <2>1, <2>5, <3>2, TreeAssumption
      <4>. QED BY <1>0, <2>4, <2>5, <3>2, <4>1 DEF HiddenWF, WellFormed
    <3>. QED BY <3>1, <3>2 DEF HiddenWF, WellFormed
  <2>8. Names'
    <3>1. /\ SameKind(ent[op.bs][op.p]) /\ (op.opq => op.isdir)
          /\ op.p # op.q /\ op.p \notin Kids(op.q)
      BY <1>1 DEF RenInv, Names, NamesApart, Kids
    <3>2. ent'[op.bs][op.p] = ent[op.bs][op.p] /\ ent'[op.b][op.q] = NoEnt
      BY <1>0, <2>4, <3>1
    <3>. QED BY <1>0, <2>1, <2>3, <3>1, <3>2 DEF Names, SameKind, SameCall, InSecond, Kids
  <2>9. \A r \in Path : Apart(r) => SameOn(r)
    BY <2>4, <2>5 DEF Apart, SameOn
  <2>. QED BY <1>1, <1>3, <2>3, <2>6, <2>7, <2>8, <2>9, RenKeep
<1>. QED BY <1>2, <1>3 DEF PutAside

(* ... and comes back. *)
LEMMA RenUnTmp ==
    ASSUME RenInv, UnTmp PROVE RenInv' /\ (Bystanders => Bystanders')
<1>. USE DEF CpSteps, EarlySteps, LateSteps
<1>0. /\ op \in RenOp /\ op.b \in Br /\ op.p \in Path /\ op.q \in Path /\ op.tmp \in TmpType
      /\ ent \in [Br -> [Path -> Entry]] /\ wh \in [Br -> SUBSET Path] /\ opq \in [Br -> SUBSET Top]
      /\ HiddenWF /\ NoEnt # Dir /\ NoEnt \in Entry /\ Dir \in Entry /\ Dir \notin File
      /\ \A b \in Br, k \in Sub : ent[b][k] # Dir
  BY EntryAssumption DEF RenInv, RenType, RenOp, HiddenType, Entry
<1>1. op.pc = "untmp" /\ "unwh" \in RenSteps /\ ~InFirst /\ ~InSecond
  BY DEF UnTmp, RenSteps, InFirst, InSecond
<1>2. CASE UndoFailTo("unwh")
  BY <1>0, <1>1, <1>2, GoOnBy, CalmTo
<1>3. CASE Goto("unwh") /\ UNCHANGED <<perm, hidden, crashes>>
  BY <1>0, <1>1, <1>3, GoOnBy, CalmTo DEF hidden
<1>4. CASE /\ op.tmp.on
           /\ ent' = [ent EXCEPT ![op.b] = [r \in Path |->
                         IF r = op.q THEN Dir
                         ELSE IF r \in Kids(op.q) THEN op.tmp.ent[r] ELSE @[r]]]
           /\ wh' = [wh EXCEPT ![op.b] = @ \cup op.tmp.wh]
           /\ opq' = [opq EXCEPT ![op.b] = IF op.tmp.opq THEN @ \cup {op.q} ELSE @]
           /\ Goto("unwh")
           /\ UNCHANGED <<perm, crashes>>
  <2>1. /\ op.q \in Top /\ op.q \notin Sub /\ Sub \subseteq Path /\ Top \subseteq Path
        /\ Kids(op.q) \subseteq Sub /\ op.tmp.wh \subseteq Kids(op.q)
    BY <1>0, <1>4, TreeAssumption DEF RenInv, Names, Path, Kids
  <2>2. GoOn({"unwh"})
    BY <1>0, <1>1, <1>4, GoOnBy
  <2>3. /\ op' \in RenOp /\ SameCall /\ op'.pc = "unwh" /\ op'.opq = op.opq /\ op'.tmp = op.tmp
    BY <2>2 DEF GoOn
  <2>4. \A k \in Sub : op.tmp.ent[k] \in Entry /\ op.tmp.ent[k] # Dir
    BY <1>0 DEF TmpType, Entry
  <2>5. /\ ent' \in [Br -> [Path -> Entry]]
        /\ \A b \in Br, r \in Path :
               ent'[b][r] = IF b = op.b /\ r = op.q THEN Dir
                            ELSE IF b = op.b /\ r \in Kids(op.q) THEN op.tmp.ent[r] ELSE ent[b][r]
    BY <1>0, <1>4, <2>1, <2>4
  <2>6. /\ wh' \in [Br -> SUBSET Path] /\ opq' \in [Br -> SUBSET Top]
        /\ \A b \in Br : \A r \in Path :
               /\ r \in wh'[b] => r \in wh[b] \/ (b = op.b /\ r \in Kids(op.q))
               /\ r \in wh[b] => r \in wh'[b]
               /\ r \in opq'[b] => r \in opq[b] \/ (b = op.b /\ r = op.q)
               /\ r \in opq[b] => r \in opq'[b]
    <3>1. wh' \in [Br -> SUBSET Path] /\ opq' \in [Br -> SUBSET Top]
      BY <1>0, <1>4, <2>1
    <3>. QED BY <1>0, <1>4, <2>1, <3>1
  <2>7. HiddenType' /\ \A b \in Br, k \in Sub : ent'[b][k] # Dir
    <3>1. \A b \in Br, k \in Sub : ent'[b][k] # Dir
      BY <1>0, <2>1, <2>4, <2>5
    <3>. QED BY <2>3, <2>5, <2>6, <3>1 DEF HiddenType, RenOp
  <2>8. HiddenWF'
    <3>1. ASSUME NEW b \in Br, NEW k \in Sub, ent'[b][k] # NoEnt \/ k \in wh'[b]
          PROVE  ent'[b][Up[k]] = Dir
      <4>1. k \in Path /\ Up[k] \in Path /\ Up[k] \notin Kids(op.q)
        BY TreeAssumption DEF Path, Kids
      <4>2. CASE b = op.b /\ Up[k] = op.q
        BY <2>5, <4>1, <4>2
      <4>3. CASE ~(b = op.b /\ Up[k] = op.q)
        <5>1. k # op.q /\ ~(b = op.b /\ k \in Kids(op.q))
          BY <2>1, <4>3 DEF Kids
        <5>2. ent[b][Up[k]] = Dir
          BY <1>0, <2>5, <2>6, <3>1, <4>1, <5>1 DEF HiddenWF, WellFormed
        <5>. QED BY <2>5, <4>1, <4>3, <5>2
      <4>. QED BY <4>2, <4>3
    <3>2. ASSUME NEW b \in Br, NEW r \in opq'[b] PROVE ent'[b][r] = Dir
      <4>1. r \in Top /\ r \in Path /\ r \notin Kids(op.q)
        BY <2>1, <2>6, <3>2, TreeAssumption
      <4>. QED BY <1>0, <2>5, <2>6, <3>2, <4>1 DEF HiddenWF, WellFormed
    <3>. QED BY <3>1, <3>2 DEF HiddenWF, WellFormed
  <2>9. Names'
    BY <2>1, <2>3 DEF RenInv, Names, SameCall, InSecond, Kids
  <2>10. \A r \in Path : Apart(r) => SameOn(r)
    BY <2>5, <2>6 DEF Apart, SameOn
  <2>. QED BY <1>1, <1>4, <2>3, <2>7, <2>8, <2>9, <2>10, RenKeep
<1>. QED BY <1>2, <1>3, <1>4 DEF UnTmp

-----------------------------------------------------------------------------
(* vfs_rename on the branch. *)

(* What a branch holds under a name after s was renamed to t. *)
LEMMA AfterIs ==
    ASSUME NEW s \in Path, NEW t \in Path, NEW f, NEW r \in Path, s # t,
           s \in Sub => Up[s] # t, t \in Sub => Up[t] # s
    PROVE  /\ r = t => After(s, t, f)[r] = f[s] /\ Origin(s, t, r) = {s}
           /\ r = s \/ r \in Kids(s) => After(s, t, f)[r] = NoEnt /\ Origin(s, t, r) = {}
           /\ s \in Sub /\ r \in Kids(t) => After(s, t, f)[r] = f[r] /\ Origin(s, t, r) = {r}
           /\ s \in Top /\ r \in Kids(t) =>
                  /\ Origin(s, t, r) \subseteq Kids(s)
                  /\ \/ After(s, t, f)[r] = NoEnt
                     \/ \E o \in Kids(s) : After(s, t, f)[r] = f[o]
           /\ r \notin {s, t} /\ r \notin Kids(s) /\ r \notin Kids(t)
                  => After(s, t, f)[r] = f[r] /\ Origin(s, t, r) = {r}
<1>1. After(s, t, f)[r] = IF Origin(s, t, r) = {} THEN NoEnt
                          ELSE f[CHOOSE o \in Origin(s, t, r) : TRUE]
  BY DEF After
<1>2. ASSUME NEW o, Origin(s, t, r) = {o} PROVE After(s, t, f)[r] = f[o]
  BY <1>1, <1>2
<1>3. t \notin Kids(s) /\ s \notin Kids(t) /\ t \notin Kids(t) /\ s \notin Kids(s)
  BY TreeAssumption DEF Kids, Path
<1>4. r = t => Origin(s, t, r) = {s}
  BY DEF Origin
<1>5. r = s \/ r \in Kids(s) => Origin(s, t, r) = {}
  BY <1>3 DEF Origin, Kids
<1>6. s \in Sub /\ r \in Kids(t) => Origin(s, t, r) = {r}
  BY <1>3, TreeAssumption DEF Origin, Kids
<1>7. s \in Top /\ r \in Kids(t) => Origin(s, t, r) \subseteq Kids(s)
  BY <1>3 DEF Origin, Twin
<1>8. r \notin {s, t} /\ r \notin Kids(s) /\ r \notin Kids(t) => Origin(s, t, r) = {r}
  BY DEF Origin
<1>9. Origin(s, t, r) # {} => (CHOOSE o \in Origin(s, t, r) : TRUE) \in Origin(s, t, r)
  OBVIOUS
<1>. QED BY <1>1, <1>2, <1>4, <1>5, <1>6, <1>7, <1>8, <1>9

(* The branch is as well formed after the rename as before, and nothing     *)
(* apart from the two names has changed.                                    *)
LEMMA MoveOk ==
    ASSUME HiddenType, HiddenWF, \A b \in Br, k \in Sub : ent[b][k] # Dir,
           NEW s \in Path, NEW t \in Path, s # t, s \in Sub => Up[s] # t, t \in Sub => Up[t] # s,
           ent[op.b][t] # Dir, ent[op.b][s] = Dir => t \in Top,
           t \in Sub => ent[op.b][Up[t]] = Dir,
           MoveOn(op.b, s, t)
    PROVE  /\ ent' \in [Br -> [Path -> Entry]]
           /\ wh' \in [Br -> SUBSET Path] /\ opq' \in [Br -> SUBSET Top]
           /\ \A b \in Br, k \in Sub : ent'[b][k] # Dir
           /\ HiddenWF'
           /\ ent'[op.b][t] = ent[op.b][s] /\ ent'[op.b][s] = NoEnt
           /\ \A r \in Path : r \notin {s, t} /\ r \notin Kids(s) /\ r \notin Kids(t) => SameOn(r)
<1>0. /\ op.b \in Br /\ ent \in [Br -> [Path -> Entry]] /\ wh \in [Br -> SUBSET Path]
      /\ opq \in [Br -> SUBSET Top] /\ NoEnt # Dir /\ NoEnt \in Entry
      /\ Sub \subseteq Path /\ Top \subseteq Path /\ Top \cap Sub = {}
  BY EntryAssumption, TreeAssumption DEF HiddenType, Entry, Path
<1>. DEFINE A == After(s, t, ent[op.b])
<1>1. \A b \in Br : ent'[b] = IF b = op.b THEN A ELSE ent[b]
  BY <1>0 DEF MoveOn
<1>2. \A b \in Br : wh'[b] = IF b = op.b THEN {r \in Path : IF r \in {s, t} THEN r \in wh[b]
                                                          ELSE Origin(s, t, r) \cap wh[b] # {}}
                             ELSE wh[b]
  BY <1>0 DEF MoveOn
<1>3. \A b \in Br : opq'[b] = IF b = op.b THEN {r \in Top : Origin(s, t, r) \cap opq[b] # {}} ELSE opq[b]
  BY <1>0 DEF MoveOn
<1>4. /\ A[t] = ent[op.b][s] /\ Origin(s, t, t) = {s}
      /\ \A r \in Path :
            /\ r = s \/ r \in Kids(s) => A[r] = NoEnt /\ Origin(s, t, r) = {}
            /\ s \in Sub /\ r \in Kids(t) => A[r] = ent[op.b][r] /\ Origin(s, t, r) = {r}
            /\ s \in Top /\ r \in Kids(t) =>
                  /\ Origin(s, t, r) \subseteq Kids(s)
                  /\ \/ A[r] = NoEnt
                     \/ \E o \in Kids(s) : A[r] = ent[op.b][o]
            /\ r \notin {s, t} /\ r \notin Kids(s) /\ r \notin Kids(t)
                  => A[r] = ent[op.b][r] /\ Origin(s, t, r) = {r}
  BY AfterIs
<1>5. Kids(s) \subseteq Sub /\ Kids(t) \subseteq Sub /\ (s \in Top \/ s \in Sub)
  BY DEF Kids, Path
<1>6. A \in [Path -> Entry] /\ \A k \in Sub : A[k] # Dir
  <2>1. \A r \in Path : A[r] \in Entry
    BY <1>0, <1>4, <1>5
  <2>2. A = [r \in Path |-> A[r]]
    BY DEF After
  <2>3. ASSUME NEW k \in Sub PROVE A[k] # Dir
    <3>1. k \in Path
      BY <1>0
    <3>2. CASE k = t
      BY <1>0, <1>4, <3>2
    <3>. QED BY <1>0, <1>4, <1>5, <3>1, <3>2
  <2>. HIDE DEF A
  <2>. QED BY <2>1, <2>2, <2>3
<1>. HIDE DEF A
<1>7. ent' \in [Br -> [Path -> Entry]] /\ wh' \in [Br -> SUBSET Path] /\ opq' \in [Br -> SUBSET Top]
  <2>1. ent' = [ent EXCEPT ![op.b] = A]
    BY <1>0 DEF MoveOn, A
  <2>2. ent' \in [Br -> [Path -> Entry]]
    BY <1>0, <1>6, <2>1
  <2>. QED BY <1>0, <2>2 DEF MoveOn
<1>8. \A b \in Br, k \in Sub : ent'[b][k] # Dir
  BY <1>1, <1>6
<1>9. ent'[op.b][t] = ent[op.b][s] /\ ent'[op.b][s] = NoEnt
  BY <1>0, <1>1, <1>4
<1>10. \A r \in Path : r \notin {s, t} /\ r \notin Kids(s) /\ r \notin Kids(t) => SameOn(r)
  <2>. SUFFICES ASSUME NEW r \in Path, r \notin {s, t} /\ r \notin Kids(s) /\ r \notin Kids(t),
                       NEW b \in Br
                PROVE  /\ ent'[b][r] = ent[b][r]
                       /\ r \in wh'[b] <=> r \in wh[b]
                       /\ r \in opq'[b] <=> r \in opq[b]
    BY DEF SameOn
  <2>1. CASE b = op.b
    <3>1. A[r] = ent[b][r] /\ Origin(s, t, r) = {r}
      BY <1>4, <2>1
    <3>2. r \in opq[b] => r \in Top
      BY <1>0
    <3>3. r \in wh'[b] <=> Origin(s, t, r) \cap wh[b] # {}
      BY <1>2, <2>1
    <3>4. r \in opq'[b] <=> r \in Top /\ Origin(s, t, r) \cap opq[b] # {}
      BY <1>3, <2>1
    <3>5. ent'[b][r] = ent[b][r]
      BY <1>1, <2>1, <3>1
    <3>. QED BY <3>1, <3>2, <3>3, <3>4, <3>5
  <2>2. CASE b # op.b
    BY <1>1, <1>2, <1>3, <2>2
  <2>. QED BY <2>1, <2>2
<1>11. HiddenWF'
  <2>0. /\ \A b \in Br : \A k \in Sub : ent[b][k] # NoEnt \/ k \in wh[b] => ent[b][Up[k]] = Dir
        /\ \A b \in Br : \A r \in opq[b] : ent[b][r] = Dir
    BY DEF HiddenWF, WellFormed
  <2>1. ASSUME NEW k \in Sub, A[k] # NoEnt \/ k \in wh'[op.b]
        PROVE  A[Up[k]] = Dir
    <3>1. k \in Path /\ Up[k] \in Path /\ Up[k] \in Top /\ Up[k] # k
      BY TreeAssumption DEF Path
    <3>2. Up[k] \notin Kids(s) /\ Up[k] \notin Kids(t)
      BY <1>0, <1>5, <3>1
    <3>3. k \in wh'[op.b] => IF k \in {s, t} THEN k \in wh[op.b] ELSE Origin(s, t, k) \cap wh[op.b] # {}
      BY <1>0, <1>2
    <3>4. CASE k \in {s, t}
      <4>1. Up[k] \notin {s, t}
        BY <3>1, <3>4
      <4>2. A[Up[k]] = ent[op.b][Up[k]]
        BY <1>4, <3>1, <3>2, <4>1
      <4>3. CASE k = t
        BY <4>2, <4>3
      <4>4. CASE k = s
        <5>1. k \in wh[op.b]
          BY <1>4, <2>1, <3>1, <3>3, <3>4, <4>4
        <5>. QED BY <1>0, <2>0, <4>2, <5>1
      <4>. QED BY <3>4, <4>3, <4>4
    <3>5. CASE k \notin {s, t} /\ Up[k] = t
      <4>1. k \in Kids(t) /\ A[t] = ent[op.b][s]
        BY <1>4, <3>5 DEF Kids
      <4>2. CASE s \in Sub
        <5>1. A[k] = ent[op.b][k] /\ Origin(s, t, k) = {k}
          BY <1>4, <3>1, <4>1, <4>2
        <5>2. ent[op.b][k] # NoEnt \/ k \in wh[op.b]
          BY <2>1, <3>3, <3>5, <5>1
        <5>3. ent[op.b][t] = Dir
          BY <1>0, <2>0, <3>5, <5>2
        <5>. QED BY <5>3
      <4>3. CASE s \in Top
        <5>1. \E o \in Kids(s) : ent[op.b][o] # NoEnt \/ o \in wh[op.b]
          BY <1>4, <2>1, <3>1, <3>3, <3>5, <4>1, <4>3
        <5>2. ent[op.b][s] = Dir
          BY <1>0, <2>0, <5>1 DEF Kids
        <5>. QED BY <3>5, <4>1, <5>2
      <4>. QED BY <1>5, <4>2, <4>3
    <3>6. CASE k \notin {s, t} /\ Up[k] = s
      <4>1. A[k] = NoEnt /\ Origin(s, t, k) = {}
        BY <1>4, <3>1, <3>6 DEF Kids
      <4>. QED BY <2>1, <3>3, <3>6, <4>1
    <3>7. CASE k \notin {s, t} /\ Up[k] \notin {s, t}
      <4>1. A[k] = ent[op.b][k] /\ Origin(s, t, k) = {k} /\ A[Up[k]] = ent[op.b][Up[k]]
        BY <1>4, <3>1, <3>2, <3>7 DEF Kids
      <4>. QED BY <1>0, <2>0, <2>1, <3>3, <3>7, <4>1
    <3>. QED BY <3>4, <3>5, <3>6, <3>7
  <2>2. ASSUME NEW r \in opq'[op.b] PROVE A[r] = Dir
    <3>1. r \in Top /\ r \in Path /\ r \notin Kids(t) /\ r \notin Kids(s)
          /\ Origin(s, t, r) \cap opq[op.b] # {}
      BY <1>0, <1>3, <1>5, <2>2
    <3>2. CASE r = t
      BY <1>0, <1>4, <2>0, <3>1, <3>2
    <3>3. CASE r = s
      BY <1>4, <3>1, <3>3
    <3>4. CASE r \notin {s, t}
      BY <1>0, <1>4, <2>0, <3>1, <3>4
    <3>. QED BY <3>2, <3>3, <3>4
  <2>3. ASSUME NEW b \in Br
        PROVE  /\ \A k \in Sub : ent'[b][k] # NoEnt \/ k \in wh'[b] => ent'[b][Up[k]] = Dir
               /\ \A r \in opq'[b] : ent'[b][r] = Dir
    <3>1. CASE b = op.b
      BY <1>1, <2>1, <2>2, <3>1
    <3>2. CASE b # op.b
      <4>1. ent'[b] = ent[b] /\ wh'[b] = wh[b] /\ opq'[b] = opq[b]
        BY <1>1, <1>2, <1>3, <3>2
      <4>. QED BY <2>0, <4>1
    <3>. QED BY <3>1, <3>2
  <2>. QED BY <2>3 DEF HiddenWF, WellFormed
<1>. QED BY <1>7, <1>8, <1>9, <1>10, <1>11

(* The entry gets its new name on the branch, and the old one back. *)
LEMMA RenMove ==
    ASSUME RenInv, Move \/ UnMove PROVE RenInv' /\ (Bystanders => Bystanders')
<1>. USE DEF CpSteps, EarlySteps, LateSteps
<1>0. /\ op \in RenOp /\ op.b \in Br /\ op.p \in Path /\ op.q \in Path
      /\ HiddenType /\ HiddenWF /\ NoEnt # Dir /\ NoEnt \in Entry /\ Dir \notin File
      /\ \A b \in Br, k \in Sub : ent[b][k] # Dir
      /\ op.byc \in BOOLEAN /\ op.isdir \in BOOLEAN
  BY EntryAssumption DEF RenInv, RenType, RenOp, Entry
<1>1. /\ op.pc \in {"move", "unmove"} /\ {"mkopq", "rmwh", "untmp"} \subseteq RenSteps
      /\ ~InFirst /\ ~InSecond /\ op.pc \notin CpSteps \cup {"idle", "neg", "check"}
  BY DEF Move, UnMove, RenSteps, InFirst, InSecond
<1>2. /\ op.p # op.q
      /\ op.p \in Sub => Up[op.p] # op.q /\ ~op.isdir /\ ent[op.b][Up[op.p]] = Dir
      /\ op.q \in Sub => Up[op.q] # op.p /\ ~op.isdir /\ ent[op.b][Up[op.q]] = Dir
      /\ (op.opq => op.isdir) /\ (op.tmp.on => op.q \in Top /\ op.tmp.wh \subseteq Kids(op.q))
  BY <1>1 DEF RenInv, NamesApart, Parents, Names
<1>3. ASSUME NEW pc \in RenSteps, GoOn({pc}), perm' = perm, pc \in {"mkopq", "rmwh", "untmp"},
             ent' \in [Br -> [Path -> Entry]],
             wh' \in [Br -> SUBSET Path], opq' \in [Br -> SUBSET Top],
             \A b \in Br, k \in Sub : ent'[b][k] # Dir, HiddenWF',
             \A r \in Path : Apart(r) => SameOn(r),
             pc # "untmp" => /\ SameKind(ent'[op.b][op.q]) /\ ent'[op.b][op.p] = NoEnt
                             /\ pc = "mkopq" => op.opq
      PROVE  RenInv' /\ (Bystanders => Bystanders')
  <2>1. /\ op' \in RenOp /\ SameCall /\ op'.pc = pc /\ op'.byc = op.byc /\ op'.opq = op.opq
        /\ op'.tmp = op.tmp
    BY <1>3 DEF GoOn
  <2>2. HiddenType'
    BY <1>3, <2>1 DEF HiddenType, RenOp
  <2>3. Names'
    BY <1>2, <1>3, <2>1 DEF Names, SameKind, SameCall, InSecond, Kids
  <2>. QED BY <1>1, <1>3, <2>1, <2>2, <2>3, RenKeep
<1>4. CASE Move
  <2>1. op.pc = "move" /\ ent[op.b][op.q] # Dir /\ SameKind(ent[op.b][op.p])
    BY <1>4 DEF Move, RenInv, Names
  <2>2. CASE MoveOn(op.b, op.p, op.q) /\ Goto(IF op.opq THEN "mkopq" ELSE "rmwh")
    <3>1. ent[op.b][op.p] = Dir => op.q \in Top
      BY <1>0, <1>2, <2>1 DEF SameKind, OfKind, Path
    <3>2. /\ ent' \in [Br -> [Path -> Entry]]
          /\ wh' \in [Br -> SUBSET Path] /\ opq' \in [Br -> SUBSET Top]
          /\ \A b \in Br, k \in Sub : ent'[b][k] # Dir
          /\ HiddenWF'
          /\ ent'[op.b][op.q] = ent[op.b][op.p] /\ ent'[op.b][op.p] = NoEnt
          /\ \A r \in Path : Apart(r) => SameOn(r)
      BY <1>0, <1>2, <2>1, <2>2, <3>1, MoveOk DEF Apart
    <3>3. perm' = perm
      BY <2>2 DEF MoveOn
    <3>4. PICK pc \in {"mkopq", "rmwh"} : Goto(pc) /\ (pc = "mkopq" => op.opq)
      BY <2>2
    <3>5. GoOn({pc}) /\ pc \in RenSteps
      BY <1>0, <1>1, <3>4, GoOnBy
    <3>. QED BY <1>3, <2>1, <3>2, <3>3, <3>4, <3>5
  <2>3. CASE FailTo("untmp")
    BY <1>0, <1>1, <2>1, <2>3, GoOnBy, CalmTo
  <2>. QED BY <1>4, <2>2, <2>3 DEF Move
<1>5. CASE UnMove
  <2>1. op.pc = "unmove" /\ SameKind(ent[op.b][op.q]) /\ (~op.byc => ent[op.b][op.p] = NoEnt)
    BY <1>5 DEF UnMove, RenInv, Names
  <2>2. CASE ~op.byc /\ MoveOn(op.b, op.q, op.p) /\ Goto("untmp")
    <3>1. ent[op.b][op.p] # Dir /\ (ent[op.b][op.q] = Dir => op.p \in Top)
      BY <1>0, <1>2, <2>1, <2>2 DEF SameKind, OfKind, Path
    <3>2. /\ ent' \in [Br -> [Path -> Entry]]
          /\ wh' \in [Br -> SUBSET Path] /\ opq' \in [Br -> SUBSET Top]
          /\ \A b \in Br, k \in Sub : ent'[b][k] # Dir
          /\ HiddenWF'
          /\ \A r \in Path : Apart(r) => SameOn(r)
      BY <1>0, <1>2, <2>1, <2>2, <3>1, MoveOk DEF Apart
    <3>3. perm' = perm
      BY <2>2 DEF MoveOn
    <3>4. GoOn({"untmp"})
      BY <1>0, <1>1, <2>2, GoOnBy
    <3>. QED BY <1>1, <1>3, <3>2, <3>3, <3>4
  <2>3. CASE /\ op.byc /\ ~op.isdir
             /\ PutEnt(op.b, op.q, NoEnt)
             /\ Goto("untmp")
             /\ UNCHANGED <<perm, wh, opq, crashes>>
    <3>1. NoKids(op.b, op.q) /\ op.q \notin opq[op.b]
      BY <1>0, <2>1, <2>3, NotDir DEF SameKind, OfKind
    <3>2. HiddenWF'
      BY <1>0, <2>3, <3>1, PutWF
    <3>3. GoOn({"untmp"})
      BY <1>0, <1>1, <2>3, GoOnBy
    <3>4. /\ RenType'
          /\ \A b \in Br, r \in Path : ent'[b][r] = IF b = op.b /\ r = op.q THEN NoEnt ELSE ent[b][r]
      BY <1>0, <2>3, <3>3, PutType DEF RenInv, GoOn
    <3>5. \A r \in Path : Apart(r) => SameOn(r)
      BY <2>3, <3>4 DEF Apart, SameOn
    <3>6. /\ ent' \in [Br -> [Path -> Entry]]
          /\ wh' \in [Br -> SUBSET Path] /\ opq' \in [Br -> SUBSET Top]
          /\ \A b \in Br, k \in Sub : ent'[b][k] # Dir
      BY <3>4 DEF RenType, HiddenType
    <3>. QED BY <1>1, <1>3, <2>3, <3>2, <3>3, <3>5, <3>6
  <2>4. CASE op' = [op EXCEPT !.pc = "untmp", !.ret = "eio"] /\ UNCHANGED <<perm, hidden, crashes>>
    BY <1>0, <1>1, <2>1, <2>4, GoOnBy, CalmTo DEF hidden, Rets
  <2>5. CASE UndoFailTo("untmp")
    BY <1>0, <1>1, <2>1, <2>5, GoOnBy, CalmTo
  <2>. QED BY <1>5, <2>2, <2>3, <2>4, <2>5 DEF UnMove
<1>. QED BY <1>4, <1>5

-----------------------------------------------------------------------------
(* The theorems. *)

LEMMA RenInit == RenameInit => RenInv /\ Bystanders
<1>. SUFFICES ASSUME RenameInit PROVE RenInv /\ Bystanders
  OBVIOUS
<1>1. /\ perm \in [Br -> BrPerm] /\ ent \in [Br -> [Path -> Entry]]
      /\ wh \in [Br -> SUBSET Path] /\ opq \in [Br -> SUBSET Top]
      /\ \A b \in Br, k \in Sub : ent[b][k] # Dir
      /\ HiddenWF
  BY PermAssumption DEF RenameInit, BranchInit, Entry, File, HiddenWF
<1>2. View \in [Path -> Entry]
  BY <1>1, ViewType
<1>. DEFINE c == CHOOSE p \in Top : TRUE
<1>3. c \in Path
  BY TreeAssumption DEF Path
<1>. HIDE DEF c
<1>4. op = [pc |-> "idle", kind |-> "none", p |-> c,
            q |-> c, bs |-> 0, bd |-> 0, b |-> 0, isdir |-> FALSE,
            w |-> FALSE, whd |-> FALSE, byc |-> FALSE, opq |-> FALSE, tmp |-> NoTmp,
            cp |-> NoCp, nf |-> 0, ret |-> "ok", before |-> View]
  BY DEF RenameInit, NoCall, c
<1>5. /\ NoTmp \in TmpType /\ NoTmp.on = FALSE /\ NoCp \in CpType /\ 0 \in Br
      /\ 0 \in 0 .. MaxFail /\ "ok" \in Rets /\ "idle" \in RenSteps
  BY BranchAssumption, BoundAssumption DEF NoTmp, TmpType, NoCp, CpType, RenSteps, Br, Rets
<1>6. /\ op \in RenOp /\ op.pc = "idle" /\ op.b = 0 /\ op.opq = FALSE /\ op.tmp = NoTmp
      /\ op.before = View
  <2>. HIDE DEF View, NoTmp, NoCp
  <2>. QED BY <1>2, <1>3, <1>4, <1>5 DEF RenOp
<1>7. RenType
  BY <1>1, <1>5, <1>6 DEF RenType, HiddenType
<1>8. NamesApart /\ ParentCopy /\ EntryCopy /\ Parents /\ Names
  BY <1>5, <1>6 DEF NamesApart, ParentCopy, EntryCopy, Parents, Names, InFirst, InSecond,
                    CpSteps, EarlySteps, LateSteps
<1>9. Bystanders
  BY <1>6, ViewIs DEF Bystanders
<1>. QED BY <1>1, <1>7, <1>8, <1>9 DEF RenInv

(* The invariant is inductive, and with it what is seen of the others. *)
LEMMA RenNext ==
    RenInv /\ [RenameNext]_vars => RenInv' /\ (Bystanders => Bystanders')
<1>. SUFFICES ASSUME RenInv, [RenameNext]_vars PROVE RenInv' /\ (Bystanders => Bystanders')
  OBVIOUS
<1>0. op \in RenOp /\ "idle" \in RenSteps /\ "crash" \in Rets
  BY DEF RenInv, RenType, RenSteps, Rets
<1>1. CASE Crash
  BY <1>0, <1>1, GoOnBy, CalmTo DEF Crash, hidden
<1>2. CASE UNCHANGED vars
  <2>1. op' = op /\ UNCHANGED <<perm, ent, wh, opq>>
    BY <1>2 DEF vars
  <2>2. RenType' /\ HiddenWF' /\ Bystanders' = Bystanders
    BY <2>1 DEF RenInv, RenType, HiddenType, HiddenWF, Bystanders, Seen, Dirs, Ents, Whs, Opqs,
                HasWh, IsOpq, Whable
  <2>3. NamesApart' /\ EntryCopy' /\ Names'
    BY <2>1 DEF RenInv, NamesApart, EntryCopy, Names, SameKind, NoKids, InSecond, Writable, Kids
  <2>4. ParentCopy' /\ Parents'
    BY <2>1 DEF RenInv, ParentCopy, Parents, InFirst, InSecond, Dirs, Ents, Whs, Opqs,
                HasWh, IsOpq, Whable, NoKids, Kids
  <2>. QED BY <2>2, <2>3, <2>4 DEF RenInv
<1>3. CASE \E s, t \in Path : BeginRename(s, t)
  BY <1>3, RenBegin
<1>. QED BY <1>1, <1>2, <1>3, RenCheck, RenCopy, RenMarks, RenLook, RenAside, RenPrepare, RenMove,
            RenUnTmp DEF RenameNext

(* A step writes to the branch of the call only, and none while no call is  *)
(* in progress.                                                             *)
LEMMA RenTarget ==
    ASSUME RenInv, [RenameNext]_vars
    PROVE  /\ op.pc = "idle" => UNCHANGED <<ent, wh, opq>>
           /\ \A b \in Br : b # op.b => ent'[b] = ent[b] /\ wh'[b] = wh[b] /\ opq'[b] = opq[b]
<1>0. /\ ent \in [Br -> [Path -> Entry]] /\ wh \in [Br -> SUBSET Path]
      /\ opq \in [Br -> SUBSET Top] /\ op.b \in Br
  BY DEF RenInv, RenType, HiddenType
<1>1. ASSUME NEW pc, FailTo(pc) \/ UndoFailTo(pc) \/ Refuse(pc) PROVE UNCHANGED <<ent, wh, opq>>
  BY <1>1 DEF FailTo, UndoFailTo, Refuse, hidden
<1>2. ASSUME NEW n, NEW v, PutEnt(op.b, n, v), NEW b \in Br, b # op.b PROVE ent'[b] = ent[b]
  BY <1>0, <1>2 DEF PutEnt
<1>3. CASE (\E s, t \in Path : BeginRename(s, t)) \/ CheckDirs \/ WhDst \/ Prepare \/ Crash
           \/ UNCHANGED vars \/ NegTarget \/ AsideNeg \/ CpAttr
  BY <1>1, <1>3 DEF BeginRename, CheckDirs, Refuse, WhDst, Prepare, Crash, vars, hidden, NegTarget,
                    AsideNeg, CpAttr
<1>4. CASE CpMake \/ CpFill \/ CpUndo
  BY <1>1, <1>2, <1>4 DEF CpMake, CpFill, CpUndo, hidden
<1>5. CASE WhSrc \/ Opaque \/ Done \/ UnOpaque \/ UnWhSrc
  BY <1>0, <1>1, <1>5 DEF WhSrc, Opaque, Done, UnOpaque, UnWhSrc, AddWh, hidden
<1>6. CASE PutAside \/ UnTmp
  BY <1>0, <1>1, <1>6 DEF PutAside, UnTmp, hidden
<1>7. CASE Move \/ UnMove
  <2>1. ASSUME NEW s, NEW t, MoveOn(op.b, s, t), NEW b \in Br, b # op.b
        PROVE  ent'[b] = ent[b] /\ wh'[b] = wh[b] /\ opq'[b] = opq[b]
    BY <1>0, <2>1 DEF MoveOn
  <2>. QED BY <1>1, <1>2, <1>7, <2>1 DEF Move, UnMove, hidden
<1>. QED BY <1>3, <1>4, <1>5, <1>6, <1>7 DEF RenameNext

(* Whatever step of a rename fails, and wherever the machine stops, no      *)
(* entry, whiteout or opaque mark is left outside its directory: the moves  *)
(* and the undo chain of do_rename never leave the inside of a directory    *)
(* behind.  HiddenWF alone is not inductive; that a name is free, or holds  *)
(* no directory, when the entry is moved onto it rests on what earlier      *)
(* steps found (Names), and that its parent is there on Parents.            *)
THEOREM RenameWellFormed == RenameSpec => []HiddenWF
<1>1. RenInv => HiddenWF
  BY DEF RenInv
<1>. QED BY <1>1, RenInit, RenNext, PTL DEF RenameSpec

(* A rename writes to one branch, the writable one that wr_dir chose, in    *)
(* its steps forward and in those that undo them.                           *)
THEOREM RenameReadOnlySafe == RenameSpec => ReadOnlyUntouched
<1>. DEFINE A == \A b \in Br : <<ent[b], wh[b], opq[b]>>' # <<ent[b], wh[b], opq[b]>>
                                   => Writable(b) /\ b = op.b
<1>1. RenInv /\ [RenameNext]_vars => [A]_vars
  <2>. SUFFICES ASSUME RenInv, [RenameNext]_vars, NEW b \in Br,
                       <<ent[b], wh[b], opq[b]>>' # <<ent[b], wh[b], opq[b]>>
                PROVE  Writable(b) /\ b = op.b
    OBVIOUS
  <2>1. op.pc # "idle" /\ b = op.b
    BY RenTarget
  <2>. QED BY <2>1 DEF RenInv, NamesApart
<1>. QED BY <1>1, RenInit, RenNext, PTL DEF RenameSpec, ReadOnlyUntouched

(* A rename, however it ends, leaves every name that is neither of its two, *)
(* nor inside one of them, as it looked when the call began; so the copied  *)
(* parents, the whiteout of the old name and the directory put aside show   *)
(* and hide nothing else.                                                   *)
THEOREM BystandersSafe == RenameSpec => []BystandersIntact
<1>1. RenInv /\ Bystanders => BystandersIntact
  BY ViewIs DEF Bystanders, BystandersIntact
<1>. QED BY <1>1, RenInit, RenNext, PTL DEF RenameSpec
-----------------------------------------------------------------------------
(* A regular file that is replaced. *)

Replaces == op.kind = "rename" /\ op.before[op.q] \in File

(* The copy-up in progress writes to the new name or to its directory. *)
CopiesTarget == /\ op.pc \in CpSteps
                /\ op.q \in op.cp.n \/ (op.q \in Sub /\ Up[op.q] \in op.cp.n)

(* The steps that are for directories, or for a whiteout of the new name,   *)
(* are not taken; nothing is copied over the file on its own branch.        *)
TargetCall ==
    /\ ~op.isdir /\ ~op.whd /\ ~op.opq /\ ~op.tmp.on
    /\ op.pc \notin {"aside", "asideneg", "mkopq", "unopq", "unmove"}
    /\ CopiesTarget => op.b # op.bd

(* The branch on which lookup found it still has a file of that name, which *)
(* lookup still reaches.                                                    *)
TargetThere ==
    /\ op.bd \in Dirs(op.q) /\ ent[op.bd][op.q] \in File
    /\ \A c \in Dirs(op.q) : c <= op.bd => c \notin Whs(op.q)

TargetInv == Replaces => TargetCall /\ TargetThere
AllWhable == \A b \in Br : perm[b] # "rw+nolwh"

(* A step that touches neither the directory of the new name nor its        *)
(* whiteouts, and leaves a file on the branch where lookup found one.       *)
LEMMA StillThere ==
    ASSUME RenInv, SameCall, perm' = perm, \A b \in Br : op.q \in wh'[b] <=> op.q \in wh[b],
           ent'[op.bd][op.q] \in File, op.q \in Sub => SameOn(Up[op.q]), TargetThere
    PROVE  TargetThere'
<1>1. PICK q \in Path, d \in Br : q = op.q /\ d = op.bd
  BY DEF RenInv, RenType, RenOp
<1>2. op'.q = q /\ op'.bd = d
  BY <1>1 DEF SameCall
<1>3. ASSUME NEW r, SameOn(r)
      PROVE  Ents(r)' = Ents(r) /\ Whs(r)' = Whs(r) /\ Opqs(r)' = Opqs(r)
  BY <1>3 DEF SameOn, Ents, Whs, Opqs, HasWh, IsOpq, Whable
<1>4. Whs(q)' = Whs(q)
  BY <1>1 DEF Whs, HasWh, Whable
<1>5. Dirs(q)' = Dirs(q)
  <2>1. q \notin Top => q \in Sub
    BY DEF Path
  <2>. QED BY <1>1, <1>3, <2>1 DEF Dirs
<1>6. d \in Dirs(q) /\ \A c \in Dirs(q) : c <= d => c \notin Whs(q)
  BY <1>1 DEF TargetThere
<1>7. Dirs(op.q)' = Dirs(q)' /\ Whs(op.q)' = Whs(q)'
  BY <1>2 DEF Dirs, Whs
<1>. QED BY <1>1, <1>2, <1>4, <1>5, <1>6, <1>7 DEF TargetThere

(* The directory of the new name is copied up, or the copy removed again:   *)
(* nothing is in it.                                                        *)
LEMMA ThereParent ==
    ASSUME RenInv, op.pc \in CpSteps, op.cp.bad = "idle", NEW v \in Entry,
           PutEnt(op.b, CpName, v), perm' = perm, wh' = wh, opq' = opq, SameCall,
           \/ op.pc = "cpmake" /\ ent[op.b][CpName] = NoEnt /\ v = Dir
           \/ op.pc = "cpundo" /\ v = NoEnt,
           TargetCall, TargetThere
    PROVE  TargetThere'
<1>1. PICK u \in Top :
            /\ op.cp.n = {u} /\ u \notin {op.p, op.q}
            /\ op.pc = "cpmake" /\ ent[op.b][u] = NoEnt
                   => \E x \in Br : Lacks(Ents(u), Whs(u), Opqs(u), op.b, x)
            /\ op.pc # "cpmake"
                   => /\ ent[op.b][u] = Dir /\ NoKids(op.b, u)
                      /\ \E x \in Br : Lacks([Ents(u) EXCEPT ![op.b] = NoEnt],
                                             Whs(u), Opqs(u), op.b, x)
  BY DEF RenInv, ParentCopy
<1>2. CpName = u /\ u \in Path
  BY <1>1 DEF CpName, Path
<1>3. PICK q \in Path, b \in Br, d \in Br : q = op.q /\ b = op.b /\ d = op.bd
  BY DEF RenInv, RenType, RenOp
<1>4. HiddenType /\ HiddenWF /\ NoEnt # Dir /\ RenType /\ op.b \in Br
  BY EntryAssumption DEF RenInv, RenType, RenOp
<1>5. \A c \in Br, r \in Path : ent'[c][r] = IF c = b /\ r = u THEN v ELSE ent[c][r]
  BY <1>2, <1>3, <1>4, PutAt
<1>6. CASE q \in Sub /\ Up[q] = u
  <2>1. b # d
    BY <1>1, <1>3, <1>6 DEF TargetCall, CopiesTarget
  <2>2. NoKids(b, u)
    BY <1>1, <1>2, <1>3, <1>4, NotDir
  <2>. DEFINE e == [Ents(u) EXCEPT ![b] = NoEnt]
              D == Inside(e, Whs(u), Opqs(u))
  <2>3. PICK x \in Br : Lacks(e, Whs(u), Opqs(u), b, x)
    <3>1. op.pc = "cpmake" => e = Ents(u)
      BY <1>2, <1>3 DEF Ents
    <3>. QED BY <1>1, <1>2, <1>3, <3>1
  <2>4. /\ Ents(u) = e \/ Ents(u) = WithDir(e, b)
        /\ Ents(u)' = e \/ Ents(u)' = WithDir(e, b)
    <3>1. /\ Ents(u) = [c \in Br |-> ent[c][u]]
          /\ Ents(u)' = [c \in Br |-> IF c = b THEN v ELSE ent[c][u]]
      BY <1>2, <1>5 DEF Ents
    <3>. QED BY <1>1, <1>2, <1>3, <3>1 DEF WithDir
  <2>5. \A r : Whs(r)' = Whs(r) /\ Opqs(r)' = Opqs(r)
    BY DEF Whs, Opqs, HasWh, IsOpq, Whable
  <2>. HIDE DEF e
  <2>6. Inside(WithDir(e, b), Whs(u), Opqs(u)) = D \cup {b}
    BY <2>3, AddDir
  <2>. HIDE DEF D
  <2>7. q \notin Top
    BY <1>6, TreeAssumption
  <2>8. Dirs(q) = D \/ Dirs(q) = D \cup {b}
    BY <1>6, <2>4, <2>6, <2>7 DEF Dirs, D
  <2>9. Dirs(q)' = D \/ Dirs(q)' = D \cup {b}
    BY <1>6, <2>4, <2>5, <2>6, <2>7 DEF Dirs, D
  <2>10. b \notin Whs(q)
    BY <1>6, <2>2 DEF NoKids, Kids, Whs, HasWh
  <2>11. d \in Dirs(q) /\ ent[d][q] \in File /\ \A c \in Dirs(q) : c <= d => c \notin Whs(q)
    BY <1>3 DEF TargetThere
  <2>12. ent'[d][q] = ent[d][q]
    BY <1>5, <2>1
  <2>13. op'.q = q /\ op'.bd = d
    BY <1>3 DEF SameCall
  <2>14. Dirs(op.q)' = Dirs(q)' /\ Whs(op.q)' = Whs(q)
    BY <2>5, <2>13 DEF Dirs, Whs
  <2>. QED BY <2>1, <2>8, <2>9, <2>10, <2>11, <2>12, <2>13, <2>14 DEF TargetThere
<1>7. CASE ~(q \in Sub /\ Up[q] = u)
  <2>1. q \in Sub => SameOn(Up[q])
    <3>1. q \in Sub => Up[q] \in Path
      BY TreeAssumption DEF Path
    <3>. QED BY <1>5, <1>7, <3>1 DEF SameOn
  <2>2. ent'[d][q] = ent[d][q] /\ ent[d][q] \in File
    BY <1>1, <1>3, <1>5 DEF TargetThere
  <2>. QED BY <1>3, <2>1, <2>2, StillThere
<1>. QED BY <1>6, <1>7

LEMMA CalmThere ==
    ASSUME RenInv, SameCall, UNCHANGED <<perm, ent, wh, opq>>, TargetThere
    PROVE  TargetThere'
<1>1. ent'[op.bd][op.q] \in File /\ (op.q \in Sub => SameOn(Up[op.q]))
  BY DEF TargetThere, SameOn
<1>. QED BY <1>1, StillThere

LEMMA CallOn ==
    ASSUME TargetCall, NEW pc, GoOn({pc}), pc \in CpSteps => op.pc \in CpSteps,
           pc \notin {"aside", "asideneg", "mkopq", "unopq", "unmove"}
    PROVE  TargetCall'
BY DEF TargetCall, CopiesTarget, GoOn, SameCall

(* The steps of a copy-up. *)
LEMMA TargetCopy ==
    ASSUME RenInv, NegTarget \/ CpMake \/ CpFill \/ CpAttr \/ CpUndo, TargetCall, TargetThere
    PROVE  TargetCall' /\ TargetThere'
<1>. USE DEF CpSteps
<1>0. /\ op \in RenOp /\ op.cp.ok \in RenSteps /\ op.cp.bad \in RenSteps
      /\ Dir \in Entry /\ NoEnt \in Entry /\ NoEnt # Dir
      /\ {"idle", "check", "cpattr", "cpfill", "cpundo"} \subseteq RenSteps /\ "err" \in Rets
      /\ op.p \in Path /\ op.q \in Path /\ op.b \in Br /\ op.bd \in Br /\ RenType
  BY EntryAssumption DEF RenInv, RenType, RenOp, CpType, Entry, RenSteps, EarlySteps, Rets
<1>1. op.pc \in CpSteps => /\ op.cp.bad \in {"idle", "untmp"}
                           /\ op.cp.ok \in {"neg", "mkwh", "rmwh", "move"}
  BY DEF RenInv, ParentCopy, EntryCopy, TargetCall
<1>2. ASSUME NEW pc \in RenSteps, GoOn({pc}), UNCHANGED <<perm, ent, wh, opq>>,
             pc \in CpSteps => op.pc \in CpSteps,
             pc \notin {"aside", "asideneg", "mkopq", "unopq", "unmove"}
      PROVE  TargetCall' /\ TargetThere'
  BY <1>2, CalmThere, CallOn DEF GoOn
<1>3. ASSUME op.pc \in CpSteps, NEW v, PutEnt(op.b, CpName, v), op.cp.bad # "idle",
             perm' = perm, wh' = wh, opq' = opq, SameCall
      PROVE  TargetThere'
  <2>1. PICK n \in Path : op.cp.n = {n} /\ CpName = n /\ n \in {op.p, op.q}
    BY <1>3, CpIs
  <2>2. \A c \in Br, r \in Path : ent'[c][r] = IF c = op.b /\ r = n THEN v ELSE ent[c][r]
    BY <1>0, <1>3, <2>1 DEF RenType, HiddenType, PutEnt
  <2>3. op.q \in Sub => Up[op.q] \in Path /\ Up[op.q] \notin {op.p, op.q}
    BY <1>3, TreeAssumption DEF RenInv, NamesApart, Path
  <2>4. op.q \in Sub => SameOn(Up[op.q])
    BY <1>3, <2>1, <2>2, <2>3 DEF SameOn
  <2>5. ent'[op.bd][op.q] = ent[op.bd][op.q]
    <3>1. n = op.q => op.b # op.bd
      BY <1>3, <2>1 DEF TargetCall, CopiesTarget
    <3>. QED BY <1>0, <2>1, <2>2, <3>1
  <2>6. ent'[op.bd][op.q] \in File
    BY <2>5 DEF TargetThere
  <2>. QED BY <1>3, <2>4, <2>6, StillThere
<1>4. CASE NegTarget
  <2>1. CASE Goto("check") /\ UNCHANGED <<perm, hidden, crashes>>
    BY <1>0, <1>2, <2>1, GoOnBy DEF hidden
  <2>2. CASE Refuse("err")
    BY <1>0, <1>2, <2>2, GoOnBy DEF hidden, Refuse
  <2>. QED BY <1>4, <2>1, <2>2 DEF NegTarget
<1>5. CASE CpMake
  <2>1. op.pc = "cpmake"
    BY <1>5 DEF CpMake
  <2>2. CASE /\ ent[op.b][CpName] = NoEnt
             /\ PutEnt(op.b, CpName, IF CpIsDir THEN Dir ELSE Partial)
             /\ Goto(IF CpIsDir THEN "cpattr" ELSE "cpfill")
             /\ UNCHANGED <<perm, wh, opq, crashes>>
    <3>1. GoOn({IF CpIsDir THEN "cpattr" ELSE "cpfill"})
      BY <1>0, <2>2, GoOnBy
    <3>2. TargetCall' /\ SameCall
      BY <2>1, <3>1, CallOn DEF GoOn
    <3>3. CASE op.cp.bad = "idle"
      <4>1. CpIsDir
        BY <2>1, <3>3, CpIs
      <4>2. PutEnt(op.b, CpName, Dir)
        BY <2>2, <4>1
      <4>. QED BY <1>0, <2>1, <2>2, <3>2, <3>3, <4>2, ThereParent
    <3>. QED BY <1>3, <2>1, <2>2, <3>2, <3>3
  <2>3. CASE op' = [op EXCEPT !.pc = op.cp.bad, !.ret = "err"] /\ UNCHANGED <<perm, hidden, crashes>>
    BY <1>0, <1>1, <1>2, <2>1, <2>3, GoOnBy DEF hidden
  <2>4. CASE FailTo(op.cp.bad)
    BY <1>0, <1>1, <1>2, <2>1, <2>4, GoOnBy
  <2>. QED BY <1>5, <2>2, <2>3, <2>4 DEF CpMake
<1>6. CASE CpFill
  <2>1. op.pc = "cpfill"
    BY <1>6 DEF CpFill
  <2>2. CASE /\ PutEnt(op.b, CpName, ent[op.bs][CpFrom])
             /\ Goto("cpattr")
             /\ UNCHANGED <<perm, wh, opq, crashes>>
    <3>1. op.cp.bad # "idle"
      BY <2>1 DEF RenInv, ParentCopy
    <3>2. GoOn({"cpattr"})
      BY <1>0, <2>2, GoOnBy
    <3>. QED BY <1>3, <2>1, <2>2, <3>1, <3>2, CallOn DEF GoOn
  <2>3. CASE FailTo("cpundo")
    BY <1>0, <1>2, <2>1, <2>3, GoOnBy
  <2>. QED BY <1>6, <2>2, <2>3 DEF CpFill
<1>7. CASE CpAttr
  <2>1. op.pc = "cpattr"
    BY <1>7 DEF CpAttr
  <2>2. CASE Goto(op.cp.ok) /\ UNCHANGED <<perm, hidden, crashes>>
    BY <1>0, <1>1, <1>2, <2>1, <2>2, GoOnBy DEF hidden
  <2>3. CASE FailTo("cpundo")
    BY <1>0, <1>2, <2>1, <2>3, GoOnBy
  <2>. QED BY <1>7, <2>2, <2>3 DEF CpAttr
<1>8. CASE CpUndo
  <2>1. op.pc = "cpundo"
    BY <1>8 DEF CpUndo
  <2>2. CASE /\ PutEnt(op.b, CpName, NoEnt)
             /\ Goto(op.cp.bad)
             /\ UNCHANGED <<perm, wh, opq, crashes>>
    <3>1. GoOn({op.cp.bad})
      BY <1>0, <2>2, GoOnBy
    <3>2. TargetCall' /\ SameCall
      BY <1>1, <2>1, <3>1, CallOn DEF GoOn
    <3>3. CASE op.cp.bad = "idle"
      BY <1>0, <2>1, <2>2, <3>2, <3>3, ThereParent
    <3>. QED BY <1>3, <2>1, <2>2, <3>2, <3>3
  <2>3. CASE UndoFailTo(op.cp.bad)
    BY <1>0, <1>1, <1>2, <2>1, <2>3, GoOnBy
  <2>. QED BY <1>8, <2>2, <2>3 DEF CpUndo
<1>. QED BY <1>4, <1>5, <1>6, <1>7, <1>8

(* may_rename_dstdir does not matter for a file; the directory of the old   *)
(* name is copied up only to a branch that lacks it.                        *)
LEMMA TargetCheck ==
    ASSUME RenInv, CheckDirs, TargetCall, TargetThere
    PROVE  TargetCall' /\ TargetThere'
<1>. DEFINE cp == IF op.b = op.bs THEN NoCp ELSE CpParent(op.b, op.p, "mkwh")
            w  == op.b # op.bs \/ NeedWhBelow(ParentBr(op.p), op.p, op.bs)
            pc == IF cp # NoCp THEN "cpmake" ELSE "mkwh"
<1>0. op \in RenOp /\ UNCHANGED <<perm, ent, wh, opq>> /\ op.p \in Path /\ op.q \in Path /\ op.pc = "check"
  BY DEF RenInv, RenType, RenOp, CheckDirs, Refuse, hidden
<1>1. op' = [op EXCEPT !.pc = "idle", !.ret = "err"] \/ op' = [op EXCEPT !.pc = pc, !.cp = cp, !.w = w]
  BY DEF CheckDirs, Refuse
<1>2. CASE op' = [op EXCEPT !.pc = "idle", !.ret = "err"]
  <2>1. GoOn({"idle"})
    BY <1>0, <1>2, GoOnBy DEF Rets, RenSteps
  <2>. QED BY <1>0, <2>1, CalmThere, CallOn DEF GoOn, CpSteps
<1>3. CASE op' = [op EXCEPT !.pc = pc, !.cp = cp, !.w = w]
  <2>1. pc \in {"cpmake", "mkwh"}
    OBVIOUS
  <2>2. op.q \in cp.n \/ (op.q \in Sub /\ Up[op.q] \in cp.n) => op.b # op.bd
    <3>. SUFFICES ASSUME op.q \in cp.n \/ (op.q \in Sub /\ Up[op.q] \in cp.n) PROVE op.b # op.bd
      OBVIOUS
    <3>1. cp # NoCp
      BY DEF NoCp
    <3>2. NoParent(op.b, op.p) /\ cp.n = {Up[op.p]}
      BY <3>1 DEF CpParent
    <3>3. op.p \in Sub /\ op.b \notin Dirs(op.p) /\ Up[op.p] # op.q
      BY <1>0, <3>2, ViewIs DEF NoParent, RenInv, NamesApart
    <3>4. op.q \in Sub /\ Up[op.q] = Up[op.p]
      BY <3>2, <3>3
    <3>5. Dirs(op.q) = Dirs(op.p)
      BY <3>3, <3>4, TreeAssumption DEF Dirs
    <3>. QED BY <3>3, <3>5 DEF TargetThere
  <2>. HIDE DEF cp, w, pc
  <2>3. /\ SameCall /\ op'.pc = pc /\ op'.cp = cp /\ op'.whd = op.whd
        /\ op'.opq = op.opq /\ op'.tmp = op.tmp
    BY <1>0, <1>3 DEF RenOp, SameCall
  <2>4. TargetCall'
    BY <2>1, <2>2, <2>3 DEF TargetCall, CopiesTarget, SameCall
  <2>. QED BY <1>0, <2>3, <2>4, CalmThere
<1>. QED BY <1>1, <1>2, <1>3

(* No whiteout of the new name is where lookup found the file: whiteouts    *)
(* are honoured on the branch.                                              *)
LEMMA TargetLook ==
    ASSUME RenInv, AllWhable, WhDst, TargetCall, TargetThere
    PROVE  TargetCall' /\ TargetThere'
<1>0. op \in RenOp /\ UNCHANGED <<perm, ent, wh, opq>> /\ op.pc = "lkwh" /\ op.b \in Br /\ ~op.isdir
  BY DEF RenInv, RenType, RenOp, WhDst, FailTo, hidden, TargetCall
<1>1. CASE FailTo("unwh")
  <2>1. GoOn({"unwh"})
    BY <1>0, <1>1, GoOnBy DEF RenSteps
  <2>. QED BY <1>0, <2>1, CalmThere, CallOn DEF GoOn, CpSteps
<1>2. ~(op.bd = op.b /\ op.q \in wh[op.b])
  <2>. SUFFICES ASSUME op.bd = op.b, op.q \in wh[op.b] PROVE FALSE
    OBVIOUS
  <2>1. Writable(op.b)
    BY <1>0 DEF RenInv, NamesApart
  <2>2. Whable(op.b)
    BY <1>0, <2>1 DEF AllWhable, Writable, Whable
  <2>3. op.b \in Whs(op.q) /\ op.b <= op.bd
    BY <1>0, <2>2, BranchAssumption DEF Whs, HasWh, Br
  <2>. QED BY <2>3 DEF TargetThere
<1>3. CASE op' = [op EXCEPT !.whd = FALSE, !.pc = "prepare"]
  <2>1. /\ SameCall /\ op'.pc = "prepare" /\ op'.whd = FALSE /\ op'.opq = op.opq /\ op'.tmp = op.tmp
    BY <1>0, <1>3 DEF RenOp, SameCall
  <2>2. TargetCall'
    BY <2>1 DEF TargetCall, CopiesTarget, SameCall, CpSteps
  <2>. QED BY <1>0, <2>1, <2>2, CalmThere
<1>4. FailTo("unwh") \/ op' = [op EXCEPT !.whd = op.bd = op.b /\ op.q \in wh[op.b],
                              !.pc = IF op.isdir /\ ent[op.b][op.q] = Dir
                                     THEN "aside" ELSE "prepare"]
  BY DEF WhDst
<1>. QED BY <1>0, <1>1, <1>2, <1>3, <1>4

(* The entry is copied up under the new name only where no file is. *)
LEMMA TargetPrepare ==
    ASSUME RenInv, Prepare, TargetCall, TargetThere
    PROVE  TargetCall' /\ TargetThere'
<1>. DEFINE there == op.bs = op.b
            over  == ~there /\ ent[op.b][op.q] # NoEnt
            Cp(n, ok) == [n |-> {n}, from |-> {op.p}, ok |-> ok, bad |-> "untmp"]
            pc  == IF there THEN "move" ELSE "cpmake"
            byc == ~there /\ ~over
            cp  == IF there THEN NoCp
                   ELSE IF over THEN Cp(op.p, "move")
                   ELSE Cp(op.q, IF NeedDiropq THEN "mkopq" ELSE "rmwh")
<1>0. /\ op \in RenOp /\ UNCHANGED <<perm, ent, wh, opq>> /\ op.pc = "prepare" /\ ~op.isdir
      /\ op.p # op.q /\ (op.q \in Sub => Up[op.q] # op.p)
  BY DEF RenInv, RenType, RenOp, Prepare, hidden, TargetCall, NamesApart
<1>1. op' = [op EXCEPT !.opq = NeedDiropq, !.byc = byc, !.cp = cp, !.pc = pc]
  BY DEF Prepare
<1>2. ~NeedDiropq
  BY <1>0 DEF NeedDiropq
<1>3. ent[op.bd][op.q] # NoEnt
  BY EntryAssumption DEF TargetThere
<1>4. op.q \in cp.n \/ (op.q \in Sub /\ Up[op.q] \in cp.n) => op.b # op.bd
  <2>1. cp.n = {} \/ cp.n = {op.p} \/ (ent[op.b][op.q] = NoEnt /\ cp.n = {op.q})
    BY DEF NoCp
  <2>. HIDE DEF cp
  <2>. QED BY <1>0, <1>3, <2>1
<1>5. pc \in {"move", "cpmake"}
  OBVIOUS
<1>. HIDE DEF cp, pc, byc
<1>6. /\ SameCall /\ op'.pc = pc /\ op'.cp = cp /\ op'.whd = op.whd
      /\ op'.opq = NeedDiropq /\ op'.tmp = op.tmp
  BY <1>0, <1>1 DEF RenOp, SameCall
<1>7. TargetCall'
  BY <1>2, <1>4, <1>5, <1>6 DEF TargetCall, CopiesTarget, SameCall
<1>. QED BY <1>0, <1>6, <1>7, CalmThere

(* do_rename: the whiteout is that of another name, the move puts a file    *)
(* over the file, and nothing that is undone touches it.                    *)
LEMMA TargetSteps ==
    ASSUME RenInv, TargetCall, TargetThere,
           \/ WhSrc \/ PutAside \/ AsideNeg \/ Move \/ Opaque \/ Done
           \/ UnOpaque \/ UnMove \/ UnTmp \/ UnWhSrc
    PROVE  TargetCall' /\ TargetThere'
<1>0. /\ op \in RenOp /\ op.p \in Path /\ op.q \in Path /\ op.b \in Br /\ op.bd \in Br
      /\ HiddenType /\ HiddenWF /\ (\A b \in Br, k \in Sub : ent[b][k] # Dir)
      /\ {"lkwh", "idle", "rmwh", "untmp", "unwh"} \subseteq RenSteps /\ Dir \notin File
      /\ ~op.isdir /\ ~op.whd /\ ~op.opq /\ ~op.tmp.on
      /\ op.pc \notin {"aside", "asideneg", "mkopq", "unopq", "unmove"}
  BY EntryAssumption DEF RenInv, RenType, RenOp, RenSteps, EarlySteps, LateSteps, TargetCall
<1>1. ASSUME NEW pc \in RenSteps, GoOn({pc}), UNCHANGED <<perm, ent, wh, opq>>,
             pc \in {"lkwh", "idle", "rmwh", "untmp", "unwh"}
      PROVE  TargetCall' /\ TargetThere'
  BY <1>1, CalmThere, CallOn DEF GoOn, CpSteps
<1>2. ASSUME op.pc # "idle", ent' = ent, perm' = perm, opq' = opq, SameCall,
             \A b \in Br, r \in Path : r # op.p => (r \in wh'[b] <=> r \in wh[b])
      PROVE  TargetThere'
  <2>1. op.q # op.p /\ (op.q \in Sub => Up[op.q] # op.p /\ Up[op.q] \in Path)
    BY <1>2, TreeAssumption DEF RenInv, NamesApart, Path
  <2>2. ent'[op.bd][op.q] \in File
    BY <1>2 DEF TargetThere
  <2>3. \A b \in Br : op.q \in wh'[b] <=> op.q \in wh[b]
    BY <1>0, <1>2, <2>1
  <2>4. op.q \in Sub => SameOn(Up[op.q])
    BY <1>2, <2>1 DEF SameOn
  <2>. QED BY <1>2, <2>2, <2>3, <2>4, StillThere
<1>3. CASE PutAside \/ AsideNeg \/ Opaque \/ UnOpaque \/ UnMove
  BY <1>0, <1>3 DEF PutAside, AsideNeg, Opaque, UnOpaque, UnMove
<1>4. CASE WhSrc
  <2>1. CASE AddWh(op.b, op.p) /\ Goto("lkwh") /\ UNCHANGED <<perm, ent, opq, crashes>>
    <3>1. GoOn({"lkwh"})
      BY <1>0, <2>1, GoOnBy
    <3>2. \A b \in Br, r \in Path : r # op.p => (r \in wh'[b] <=> r \in wh[b])
      BY <1>0, <2>1 DEF AddWh, HiddenType
    <3>3. op.pc # "idle"
      BY <1>4 DEF WhSrc
    <3>. QED BY <1>2, <2>1, <3>1, <3>2, <3>3, CallOn DEF GoOn, CpSteps
  <2>2. CASE Goto("lkwh") /\ UNCHANGED <<perm, hidden, crashes>>
    BY <1>0, <1>1, <2>2, GoOnBy DEF hidden
  <2>3. CASE FailTo("idle")
    BY <1>0, <1>1, <2>3, GoOnBy
  <2>. QED BY <1>4, <2>1, <2>2, <2>3 DEF WhSrc
<1>5. CASE UnWhSrc
  <2>1. CASE /\ wh' = (IF op.w THEN [wh EXCEPT ![op.b] = @ \ {op.p}] ELSE wh)
             /\ Return /\ UNCHANGED <<perm, ent, opq, crashes>>
    <3>1. GoOn({"idle"})
      BY <1>0, <2>1, GoOnBy
    <3>2. \A b \in Br, r \in Path : r # op.p => (r \in wh'[b] <=> r \in wh[b])
      BY <1>0, <2>1 DEF HiddenType
    <3>3. op.pc # "idle"
      BY <1>5 DEF UnWhSrc
    <3>. QED BY <1>2, <2>1, <3>1, <3>2, <3>3, CallOn DEF GoOn, CpSteps
  <2>2. CASE UndoFailTo("idle")
    BY <1>0, <1>1, <2>2, GoOnBy
  <2>. QED BY <1>5, <2>1, <2>2 DEF UnWhSrc
<1>6. CASE Done
  <2>1. Return /\ UNCHANGED <<perm, ent, wh, opq>>
    BY <1>0, <1>6 DEF Done
  <2>. QED BY <1>0, <1>1, <2>1, GoOnBy
<1>7. CASE UnTmp
  <2>1. Goto("unwh") /\ UNCHANGED <<perm, ent, wh, opq>>
    BY <1>0, <1>7 DEF UnTmp, hidden
  <2>. QED BY <1>0, <1>1, <2>1, GoOnBy
<1>8. CASE Move
  <2>1. CASE FailTo("untmp")
    BY <1>0, <1>1, <2>1, GoOnBy
  <2>2. CASE MoveOn(op.b, op.p, op.q) /\ Goto("rmwh")
    <3>1. GoOn({"rmwh"}) /\ perm' = perm
      BY <1>0, <2>2, GoOnBy DEF MoveOn
    <3>2. /\ op.p # op.q /\ (op.p \in Sub => Up[op.p] # op.q) /\ (op.q \in Sub => Up[op.q] # op.p)
          /\ ent[op.b][op.p] \in File /\ ent[op.b][op.q] # Dir
          /\ op.q \in Sub => ent[op.b][Up[op.q]] = Dir
      BY <1>0, <1>8 DEF Move, RenInv, NamesApart, Names, Parents, SameKind, OfKind, InFirst, CpSteps
    <3>3. /\ ent'[op.b][op.q] = ent[op.b][op.p]
          /\ \A r \in Path : r \notin {op.p, op.q} /\ r \notin Kids(op.p) /\ r \notin Kids(op.q)
                 => SameOn(r)
      BY <1>0, <2>2, <3>2, MoveOk
    <3>4. op.q \in Sub => SameOn(Up[op.q])
      <4>1. op.q \in Sub => Up[op.q] \in Path /\ Up[op.q] \notin Sub /\ Up[op.q] # op.q
        BY TreeAssumption DEF Path
      <4>. QED BY <3>2, <3>3, <4>1 DEF Kids
    <3>5. ent'[op.bd][op.q] \in File
      <4>1. op.bd # op.b => ent'[op.bd] = ent[op.bd]
        BY <1>0, <2>2 DEF MoveOn, HiddenType
      <4>. QED BY <3>2, <3>3, <4>1 DEF TargetThere
    <3>6. \A b \in Br : op.q \in wh'[b] <=> op.q \in wh[b]
      BY <1>0, <2>2 DEF MoveOn, HiddenType
    <3>7. TargetCall'
      BY <3>1, CallOn DEF CpSteps
    <3>. QED BY <3>1, <3>4, <3>5, <3>6, <3>7, StillThere DEF GoOn
  <2>. QED BY <1>0, <1>8, <2>1, <2>2 DEF Move
<1>. QED BY <1>3, <1>4, <1>5, <1>6, <1>7, <1>8

(* A lookup ends at a file that no whiteout hides. *)
LEMMA TargetBegin ==
    ASSUME RenInv, NEW s \in Path, NEW t \in Path, BeginRename(s, t)
    PROVE  TargetInv'
<1>. SUFFICES ASSUME Replaces' PROVE TargetCall' /\ TargetThere'
  BY DEF TargetInv
<1>. DEFINE C == ParentBr(t)
            H == HDentries(C, t)
<1>1. /\ UNCHANGED <<perm, ent, wh, opq>> /\ op' \in RenOp /\ op'.before = View
      /\ op'.q = t /\ ~op'.opq /\ ~op'.tmp.on
      /\ op'.pc \in {"check", "cpmake", "neg"} /\ (op'.pc = "cpmake" => op'.b # op'.bd)
      /\ H # {} => op'.bd = Min(H) /\ (op'.isdir <=> ent[op'.bd][t] = Dir)
  BY BeginFacts
<1>2. ~op'.whd
  <2>1. op \in RenOp
    BY DEF RenInv, RenType
  <2>. QED BY <2>1 DEF BeginRename, RenOp
<1>3. C \in SUBSET Br /\ H \in SUBSET Br
  BY ParentBrType, LookupBr
<1>4. View[t] = (IF H = {} THEN NoEnt ELSE ent[Min(H)][t]) /\ View[t] \in File
  BY <1>1 DEF View, Replaces
<1>5. H # {} /\ ent[Min(H)][t] \in File /\ ent[Min(H)][t] # Dir
  BY <1>4, EntryAssumption
<1>6. Min(H) \in Pos(C, t)
  <2>1. Min(H) \in H
    BY <1>3, <1>5, MinBr
  <2>2. Pos(C, t) \in SUBSET Br
    BY <1>3 DEF Pos
  <2>3. Pos(C, t) # {} => Min(Pos(C, t)) \in Pos(C, t)
    BY <2>2, MinBr
  <2>. QED BY <2>1, <2>3 DEF HDentries
<1>7. C = Dirs(t)
  BY ViewIs
<1>. HIDE DEF H, C
<1>8. PICK d \in Br : d = Min(H) /\ d = op'.bd
  BY <1>1, <1>3, <1>5, <1>6 DEF Pos
<1>9. d \in Dirs(t) /\ ent[d][t] \in File /\ \A c \in Dirs(t) : c <= d => c \notin Whs(t)
  BY <1>5, <1>6, <1>7, <1>8 DEF Pos, Whs
<1>10. Dirs(t)' = Dirs(t) /\ Whs(t)' = Whs(t)
  BY <1>1, Calm
<1>11. Dirs(op.q)' = Dirs(t)' /\ Whs(op.q)' = Whs(t)'
  BY <1>1 DEF Dirs, Whs
<1>12. TargetThere'
  BY <1>1, <1>8, <1>9, <1>10, <1>11 DEF TargetThere
<1>13. TargetCall'
  BY <1>1, <1>2, <1>5, <1>8 DEF TargetCall, CopiesTarget, CpSteps
<1>. QED BY <1>12, <1>13

(* The steps of a call do not change what it is about. *)
LEMMA SameTarget ==
    ASSUME RenInv, RenameNext, ~ \E s, t \in Path : BeginRename(s, t)
    PROVE  Replaces' = Replaces
<1>1. op \in RenOp
  BY DEF RenInv, RenType
<1>2. ASSUME NEW pc, Goto(pc) \/ FailTo(pc) \/ UndoFailTo(pc) \/ Refuse(pc) \/ Return
      PROVE  op'.kind = op.kind /\ op'.q = op.q /\ op'.before = op.before
  BY <1>1, <1>2 DEF Goto, FailTo, UndoFailTo, Refuse, Return, RenOp
<1>3. CASE NegTarget \/ CpMake \/ CpFill \/ CpAttr \/ CpUndo \/ Crash
  BY <1>1, <1>2, <1>3 DEF NegTarget, CpMake, CpFill, CpAttr, CpUndo, Crash, RenOp, Replaces
<1>4. CASE CheckDirs \/ WhDst \/ PutAside \/ Prepare
  BY <1>1, <1>2, <1>4 DEF CheckDirs, WhDst, PutAside, Prepare, RenOp, Replaces
<1>5. CASE WhSrc \/ AsideNeg \/ Move \/ Opaque \/ Done \/ UnOpaque \/ UnMove \/ UnTmp \/ UnWhSrc
  BY <1>1, <1>2, <1>5 DEF WhSrc, AsideNeg, Move, Opaque, Done, UnOpaque, UnMove, UnTmp, UnWhSrc,
                          RenOp, Replaces
<1>. QED BY <1>3, <1>4, <1>5 DEF RenameNext

LEMMA TargetNext ==
    RenInv /\ AllWhable /\ TargetInv /\ [RenameNext]_vars => AllWhable' /\ TargetInv'
<1>. SUFFICES ASSUME RenInv, AllWhable, TargetInv, [RenameNext]_vars PROVE AllWhable' /\ TargetInv'
  OBVIOUS
<1>1. AllWhable'
  <2>1. perm' = perm
    BY DEF RenameNext, vars, BeginRename, NegTarget, CheckDirs, CpMake, CpFill, CpAttr, CpUndo,
           WhSrc, WhDst, PutAside, AsideNeg, Prepare, Move, MoveOn, Opaque, Done, UnOpaque, UnMove,
           UnTmp, UnWhSrc, Crash, Refuse, FailTo, UndoFailTo
  <2>. QED BY <2>1 DEF AllWhable
<1>2. CASE UNCHANGED vars
  <2>1. op' = op /\ UNCHANGED <<perm, ent, wh, opq>>
    BY <1>2 DEF vars
  <2>2. SameCall /\ Replaces' = Replaces
    BY <2>1 DEF SameCall, Replaces
  <2>3. TargetCall => TargetCall'
    BY <2>1 DEF TargetCall, CopiesTarget
  <2>. QED BY <1>1, <2>1, <2>2, <2>3, CalmThere DEF TargetInv
<1>3. CASE \E s, t \in Path : BeginRename(s, t)
  BY <1>1, <1>3, TargetBegin
<1>4. CASE RenameNext /\ ~ \E s, t \in Path : BeginRename(s, t)
  <2>. SUFFICES ASSUME Replaces PROVE TargetCall' /\ TargetThere'
    BY <1>1, <1>4, SameTarget DEF TargetInv
  <2>1. TargetCall /\ TargetThere
    BY DEF TargetInv
  <2>2. CASE Crash
    <3>1. GoOn({"idle"}) /\ UNCHANGED <<perm, ent, wh, opq>>
      BY <2>2, GoOnBy DEF Crash, hidden, RenInv, RenType, RenSteps, Rets
    <3>. QED BY <2>1, <3>1, CalmThere, CallOn DEF GoOn, CpSteps
  <2>. QED BY <1>4, <2>1, <2>2, TargetCopy, TargetCheck, TargetLook, TargetPrepare, TargetSteps
           DEF RenameNext
<1>. QED BY <1>2, <1>3, <1>4

(* A file that a rename replaces is never missing, not even for a moment:   *)
(* at every step of do_rename and of its undo chain, and after a crash at   *)
(* any of them, the new name shows an entry.  This needs that no branch has   *)
(* the permission rw+nolwh, whose whiteouts are made and not looked up: on  *)
(* one, a whiteout left beside the file makes its removal a step that can   *)
(* fail after the file is gone, and renaming back leaves the name empty.    *)
THEOREM TargetSafe ==
    ASSUME \A f \in PermChoices, b \in Br : f[b] # "rw+nolwh"
    PROVE  RenameSpec => []TargetStays
<1>1. RenameInit => AllWhable /\ TargetInv
  BY DEF RenameInit, BranchInit, NoCall, AllWhable, TargetInv, Replaces
<1>2. RenInv /\ TargetInv => TargetStays
  <2>. SUFFICES ASSUME RenInv, TargetInv, Replaces PROVE View[op.q] # NoEnt
    BY DEF TargetStays, Replaces
  <2>1. PICK q \in Path, d \in Br : q = op.q /\ d = op.bd
    BY DEF RenInv, RenType, RenOp
  <2>2. d \in Dirs(q) /\ ent[d][q] \in File /\ \A c \in Dirs(q) : c <= d => c \notin Whs(q)
    BY <2>1 DEF TargetInv, TargetThere
  <2>. DEFINE C == ParentBr(q)
              P == Pos(C, q)
              H == HDentries(C, q)
  <2>3. C = Dirs(q) /\ C \in SUBSET Br /\ H \in SUBSET Br /\ P \in SUBSET Br
    BY ViewIs, ParentBrType, LookupBr DEF Pos
  <2>4. d \in P
    BY <2>2, <2>3, EntryAssumption DEF Pos, Whs
  <2>5. Min(P) \in P /\ \A c \in P : Min(P) <= c
    BY <2>3, <2>4, MinBr
  <2>6. Min(P) \in H
    <3>1. CASE ent[Min(P)][q] # Dir
      BY <2>4, <3>1 DEF HDentries
    <3>2. CASE ent[Min(P)][q] = Dir
      <4>1. \A c \in P : ~(c < Min(P))
        BY <2>3, <2>5, BranchAssumption DEF Br
      <4>. QED BY <2>4, <2>5, <3>2, <4>1 DEF HDentries
    <3>. QED BY <3>1, <3>2
  <2>7. Min(H) \in H
    BY <2>3, <2>6, MinBr
  <2>8. ent[Min(H)][q] # NoEnt
    BY <2>3, <2>7, LookupPos
  <2>. HIDE DEF H
  <2>9. View[q] = IF H = {} THEN NoEnt ELSE ent[Min(H)][q]
    BY DEF View, H
  <2>. QED BY <2>1, <2>7, <2>8, <2>9
<1>3. RenameInit => RenInv
  BY RenInit
<1>4. RenInv /\ [RenameNext]_vars => RenInv'
  BY RenNext
<1>. QED BY <1>1, <1>2, <1>3, <1>4, TargetNext, PTL DEF RenameSpec
-----------------------------------------------------------------------------
(* A failed rename is undone.                                               *)
(*                                                                         *)
(* At every step the branch determines what it held when do_rename began:   *)
(* what the undo steps still to come would leave.  The invariant says that  *)
(* the union with the branch as it was is the tree the call began with.     *)

(* The steps at which there is a copy of the entry, and under which name. *)
CopyName == IF op.byc THEN op.q ELSE op.p
Copying  == \/ op.pc \in {"cpfill", "cpattr", "cpundo"} \/ (op.pc = "move" /\ op.b # op.bs)
            \/ (op.pc \in LateSteps /\ op.byc)
Moved    == op.pc \in LateSteps /\ ~op.byc
Marked   == op.pc = "unopq" \/ (op.pc = "rmwh" /\ op.opq)
InTmp    == op.tmp.on /\ op.pc # "unwh"

(* What vfs_rename of s to t makes of whiteouts and opaque marks. *)
MovedWh(s, t, w)  == {r \in Path : IF r \in {s, t} THEN r \in w ELSE Origin(s, t, r) \cap w # {}}
MovedOpq(s, t, o) == {r \in Top : Origin(s, t, r) \cap o # {}}

(* The branch without the opaque mark and under the old name (out_diropq    *)
(* and out_rename), ...                                                     *)
NoMark  == IF Marked THEN opq[op.b] \ {op.q} ELSE opq[op.b]
BackEnt == IF Moved THEN After(op.q, op.p, ent[op.b])
           ELSE IF Copying THEN [ent[op.b] EXCEPT ![CopyName] = NoEnt] ELSE ent[op.b]
BackWh  == IF Moved THEN MovedWh(op.q, op.p, wh[op.b]) ELSE wh[op.b]
BackOpq == IF Moved THEN MovedOpq(op.q, op.p, NoMark) ELSE NoMark

(* ... and with what was put aside and without the whiteout of the old name *)
(* (out_whtmp and out_whsrc).                                               *)
OldEnt == IF InTmp THEN [r \in Path |-> IF r = op.q THEN Dir
                                        ELSE IF r \in Kids(op.q) THEN op.tmp.ent[r] ELSE BackEnt[r]]
          ELSE BackEnt
OldWh  == (IF InTmp THEN BackWh \cup op.tmp.wh ELSE BackWh) \ (IF op.w THEN {op.p} ELSE {})
OldOpq == IF InTmp /\ op.tmp.opq THEN BackOpq \cup {op.q} ELSE BackOpq

(* What lookup finds with the branch as it was. *)
HadEnts(r) == [Ents(r) EXCEPT ![op.b] = OldEnt[r]]
HadAt(S, r, m) == (S \ {op.b}) \cup (IF r \in m THEN {op.b} ELSE {})
HadWhs(r)  == HadAt(Whs(r), r, OldWh)
HadOpqs(r) == HadAt(Opqs(r), r, OldOpq)
HadDirs(r) == IF r \in Top THEN Br ELSE Inside(HadEnts(Up[r]), HadWhs(Up[r]), HadOpqs(Up[r]))
HadSeen(r) == Shown(HadEnts(r), HadWhs(r), HadOpqs(r), HadDirs(r))

(* The steps at which the branch has been changed, those of them before the *)
(* entry is renamed, and those at which nothing has been changed.           *)
InEntryCopy == op.pc \in CpSteps /\ op.cp.bad # "idle"
InParentCopy == op.pc \in CpSteps /\ op.cp.bad = "idle"
ForOld == InParentCopy /\ op.cp.ok = "mkwh"
ToDo   == op.pc \in {"lkwh", "aside", "asideneg", "prepare", "move"} \/ InEntryCopy
ToUndo == ToDo \/ op.pc \in LateSteps \cup {"untmp", "unwh"}
Before == op.pc \in {"neg", "check", "mkwh"} \/ InParentCopy

(* From rmwh there is a way back only over a whiteout or an opaque mark. *)
Undoable == op.pc = "rmwh" => op.opq \/ op.whd

(* The first branch on which lookup finds a name. *)
FirstIn(F, bs) == bs \in F /\ \A c \in F : bs <= c

(* Where the entry is found: at op.bs, which the branch is not below.       *)
SrcFound ==
    /\ Before => FirstIn(Found(Ents(op.p), Whs(op.p), Dirs(op.p)), op.bs)
    /\ op.pc = "mkwh" \/ (op.pc = "cpattr" /\ ForOld) => op.b \in Dirs(op.p)
SrcHad ==
    /\ op.b \in HadDirs(op.p)
    /\ FirstIn(Found(HadEnts(op.p), HadWhs(op.p), HadDirs(op.p)), op.bs)

(* The new name on the branch: free, or a file that is replaced without a   *)
(* way back, or a directory that is put aside.                              *)
TargetFree ==
    /\ op.pc \in {"check", "mkwh", "lkwh"} \/ ForOld =>
           \/ ent[op.b][op.q] = NoEnt
           \/ op.bd = op.b /\ op.q \notin wh[op.b] /\ SameKind(ent[op.b][op.q])
    /\ op.pc = "aside" => ent[op.b][op.q] = Dir
    /\ op.pc \in {"prepare", "move"} => ent[op.b][op.q] = NoEnt \/ (~op.isdir /\ ~op.whd)
    /\ (op.pc = "move" /\ op.b # op.bs) \/ (InEntryCopy /\ ~op.byc)
           => ent[op.b][op.q] # NoEnt /\ ~op.isdir /\ ~op.whd
    /\ op.pc = "asideneg" \/ (op.pc = "cpmake" /\ InEntryCopy /\ op.byc)
           \/ (op.pc = "untmp" /\ op.tmp.on /\ op.ret # "eio") => ent[op.b][op.q] = NoEnt

(* The fields of the call: nothing has failed before the undo steps; only a *)
(* directory is put aside; a mark is made where there was none.             *)
CallKnown ==
    /\ op.pc \notin {"idle", "cpundo", "untmp", "unwh", "unopq", "unmove"} => op.ret = "run"
    /\ op.pc = "cpundo" => op.ret = "err"
    /\ Before \/ op.pc \in {"lkwh", "aside"} => ~op.tmp.on
    /\ op.tmp.on => op.isdir
    /\ op.pc = "move" /\ op.opq => op.p \notin opq[op.b]
    /\ op.pc = "mkopq" => op.opq /\ op.q \notin opq[op.b]
    /\ InEntryCopy /\ op.byc => op.cp.ok = IF op.opq THEN "mkopq" ELSE "rmwh"
    /\ (op.pc = "cpattr" /\ op.cp.ok = "move") \/ (op.pc = "move" /\ op.b # op.bs)
           => ent[op.b][op.p] = ent[op.bs][op.p]

SeenBefore == Before \/ (op.pc = "idle" /\ op.ret = "err")
                  => \A r \in Path : Seen(r) = op.before[r]
HadBefore  == ToUndo /\ Undoable /\ op.ret # "eio"
                  => \A r \in Path : HadSeen(r) = op.before[r]
SrcThere   == ToDo /\ op.b # op.bs => SrcHad

UndoInv == TargetFree /\ SrcFound /\ CallKnown /\ SeenBefore /\ HadBefore /\ SrcThere


-----------------------------------------------------------------------------
(* The branch as it was, over a step. *)

SameOld == OldEnt' = OldEnt /\ OldWh' = OldWh /\ OldOpq' = OldOpq
OthersSame == /\ op.b \in Br /\ op'.b = op.b /\ perm' = perm
              /\ \A c \in Br : c # op.b => ent'[c] = ent[c] /\ wh'[c] = wh[c] /\ opq'[c] = opq[c]

(* A step that does not change what the branch was. *)
LEMMA HadKept ==
    ASSUME OthersSame, SameOld, NEW r \in Path
    PROVE  /\ HadEnts(r)' = HadEnts(r) /\ HadWhs(r)' = HadWhs(r)
           /\ HadDirs(r)' = HadDirs(r) /\ HadSeen(r)' = HadSeen(r)
<1>1. ASSUME NEW q \in Path
      PROVE  HadEnts(q)' = HadEnts(q) /\ HadWhs(q)' = HadWhs(q) /\ HadOpqs(q)' = HadOpqs(q)
  <2>1. HadEnts(q)' = HadEnts(q)
    BY DEF HadEnts, Ents, OthersSame, SameOld
  <2>2. HadWhs(q)' = HadWhs(q)
    BY DEF HadWhs, HadAt, Whs, HasWh, Whable, OthersSame, SameOld
  <2>3. HadOpqs(q)' = HadOpqs(q)
    BY DEF HadOpqs, HadAt, Opqs, IsOpq, Whable, OthersSame, SameOld
  <2>. QED BY <2>1, <2>2, <2>3
<1>2. r \notin Top => Up[r] \in Path
  BY KidsOf DEF Path
<1>3. HadDirs(r)' = HadDirs(r)
  BY <1>1, <1>2 DEF HadDirs
<1>. QED BY <1>1, <1>3 DEF HadSeen

(* The first change: the branch was what it is. *)
LEMMA HadWas ==
    ASSUME OthersSame, HiddenType, Whable(op.b), NEW r \in Path,
           OldEnt' = ent[op.b], OldWh' = wh[op.b], OldOpq' = opq[op.b]
    PROVE  /\ HadEnts(r)' = Ents(r) /\ HadWhs(r)' = Whs(r)
           /\ HadDirs(r)' = Dirs(r) /\ HadSeen(r)' = Seen(r)
<1>1. ASSUME NEW q \in Path
      PROVE  HadEnts(q)' = Ents(q) /\ HadWhs(q)' = Whs(q) /\ HadOpqs(q)' = Opqs(q)
  <2>1. HadEnts(q)' = Ents(q)
    BY DEF HadEnts, Ents, OthersSame, HiddenType
  <2>2. HadWhs(q)' = Whs(q)
    BY DEF HadWhs, HadAt, Whs, HasWh, Whable, OthersSame
  <2>3. HadOpqs(q)' = Opqs(q)
    BY DEF HadOpqs, HadAt, Opqs, IsOpq, Whable, OthersSame
  <2>. QED BY <2>1, <2>2, <2>3
<1>2. r \notin Top => Up[r] \in Path
  BY KidsOf DEF Path
<1>3. HadDirs(r)' = Dirs(r)
  BY <1>1, <1>2 DEF HadDirs, Dirs
<1>. QED BY <1>1, <1>3 DEF HadSeen, Seen

(* The last undo step: the branch is what it was. *)
LEMMA HadBack ==
    ASSUME OthersSame, HiddenType', Whable(op.b), NEW r \in Path,
           ent'[op.b] = OldEnt, wh'[op.b] = OldWh, opq'[op.b] = OldOpq
    PROVE  Seen(r)' = HadSeen(r)
<1>1. ASSUME NEW q \in Path
      PROVE  HadEnts(q) = Ents(q)' /\ HadWhs(q) = Whs(q)' /\ HadOpqs(q) = Opqs(q)'
  <2>1. HadEnts(q) = Ents(q)'
    BY DEF HadEnts, Ents, OthersSame, HiddenType
  <2>2. HadWhs(q) = Whs(q)'
    BY DEF HadWhs, HadAt, Whs, HasWh, Whable, OthersSame
  <2>3. HadOpqs(q) = Opqs(q)'
    BY DEF HadOpqs, HadAt, Opqs, IsOpq, Whable, OthersSame
  <2>. QED BY <2>1, <2>2, <2>3
<1>2. r \notin Top => Up[r] \in Path
  BY KidsOf DEF Path
<1>3. HadDirs(r) = Dirs(r)'
  BY <1>1, <1>2 DEF HadDirs, Dirs
<1>. QED BY <1>1, <1>3 DEF HadSeen, Seen

-----------------------------------------------------------------------------
(* Renaming to a free name and back. *)

(* Inside two directories the same last components go together. *)
Twins(k, d, j, x) == j \in Kids(x) /\ Twin(k, x) = {j} /\ Twin(j, d) = {k}

LEMMA TwinBack ==
    ASSUME NEW d \in Top, NEW x \in Top, NEW k \in Kids(d) PROVE \E j : Twins(k, d, j, x)
<1>1. k \in Sub
  BY DEF Kids
<1>2. PICK j \in Kids(x) : Twin(k, x) = {j}
  BY <1>1, TwinAssumption
<1>3. j \in Sub /\ Base[j] = Base[k]
  BY <1>2 DEF Kids, Twin
<1>4. PICK i \in Kids(d) : Twin(j, d) = {i}
  BY <1>3, TwinAssumption
<1>5. k \in Twin(j, d)
  BY <1>3 DEF Twin
<1>. QED BY <1>2, <1>4, <1>5 DEF Twins

(* What is inside a directory goes along. *)
LEMMA AfterKid ==
    ASSUME NEW s \in Top, NEW t \in Top, s # t, NEW k \in Kids(t), NEW j, Twin(k, s) = {j}, NEW f
    PROVE  Origin(s, t, k) = {j} /\ After(s, t, f)[k] = f[j]
<1>1. k \in Path /\ k # t /\ k \in Sub
  BY TreeAssumption DEF Kids, Path
<1>2. Origin(s, t, k) = {j}
  BY <1>1 DEF Origin
<1>3. (CHOOSE o \in {j} : TRUE) = j
  OBVIOUS
<1>. QED BY <1>1, <1>2, <1>3 DEF After

(* Two names, neither inside the other; t is free. *)
FreeFor(s, t) ==
    /\ s \in Path /\ t \in Path /\ s # t
    /\ s \in Sub => Up[s] # t
    /\ t \in Sub => Up[t] # s

LEMMA EntsBack ==
    ASSUME NEW s, NEW t, FreeFor(s, t), NEW f \in [Path -> Entry],
           f[t] = NoEnt, \A k \in Kids(t) : f[k] = NoEnt,
           t \in Sub => \A k \in Kids(s) : f[k] = NoEnt
    PROVE  After(t, s, After(s, t, f)) = f
<1>. DEFINE g == After(s, t, f)
            h == After(t, s, g)
<1>1. s \in Path /\ t \in Path /\ s # t /\ (s \in Sub => Up[s] # t) /\ (t \in Sub => Up[t] # s)
  BY DEF FreeFor
<1>2. ASSUME NEW r \in Path PROVE h[r] = f[r]
  <2>. HIDE DEF g
  <2>1. CASE r = s
    <3>1. h[r] = g[t]
      BY <1>1, <2>1, AfterIs
    <3>2. g[t] = f[s]
      BY <1>1, AfterIs DEF g
    <3>. QED BY <2>1, <3>1, <3>2
  <2>2. CASE r = t \/ r \in Kids(t)
    <3>1. h[r] = NoEnt
      BY <1>1, <2>2, AfterIs
    <3>. QED BY <2>2, <3>1
  <2>3. CASE r \in Kids(s) /\ t \in Sub
    <3>1. h[r] = g[r]
      BY <1>1, <2>3, AfterIs
    <3>2. g[r] = NoEnt
      BY <1>1, <2>3, AfterIs DEF g
    <3>. QED BY <2>3, <3>1, <3>2
  <2>4. CASE r \in Kids(s) /\ t \notin Sub
    <3>1. s \in Top /\ t \in Top
      BY <1>1, <2>4, TreeAssumption DEF Kids, Path
    <3>0. PICK j : Twins(r, s, j, t)
      BY <2>4, <3>1, TwinBack
    <3>2. j \in Kids(t) /\ Twin(r, t) = {j} /\ Twin(j, s) = {r}
      BY <3>0 DEF Twins
    <3>3. h[r] = g[j]
      BY <1>1, <2>4, <3>1, <3>2, AfterKid
    <3>4. g[j] = f[r]
      BY <1>1, <3>1, <3>2, AfterKid DEF g
    <3>. QED BY <3>3, <3>4
  <2>5. CASE r \notin {s, t} /\ r \notin Kids(s) /\ r \notin Kids(t)
    <3>1. h[r] = g[r]
      BY <1>1, <2>5, AfterIs
    <3>2. g[r] = f[r]
      BY <1>1, <2>5, AfterIs DEF g
    <3>. QED BY <3>1, <3>2
  <2>. QED BY <2>1, <2>2, <2>3, <2>4, <2>5
<1>3. h = [r \in Path |-> h[r]]
  BY DEF After
<1>. HIDE DEF h
<1>4. h = f
  BY <1>2, <1>3
<1>. QED BY <1>4 DEF h

LEMMA WhsBack ==
    ASSUME NEW s, NEW t, FreeFor(s, t), NEW w \in SUBSET Path,
           \A k \in Kids(t) : k \notin w,
           t \in Sub => \A k \in Kids(s) : k \notin w
    PROVE  MovedWh(t, s, MovedWh(s, t, w)) = w
<1>. DEFINE g == MovedWh(s, t, w)
            h == MovedWh(t, s, g)
<1>1. s \in Path /\ t \in Path /\ s # t /\ (s \in Sub => Up[s] # t) /\ (t \in Sub => Up[t] # s)
  BY DEF FreeFor
<1>2. ASSUME NEW r \in Path PROVE r \in h <=> r \in w
  <2>0. /\ r \in h <=> IF r \in {t, s} THEN r \in g ELSE Origin(t, s, r) \cap g # {}
        /\ \A i \in Path : i \in g <=> IF i \in {s, t} THEN i \in w ELSE Origin(s, t, i) \cap w # {}
    BY DEF MovedWh
  <2>. HIDE DEF g, h
  <2>1. CASE r \in {s, t}
    BY <1>1, <2>0, <2>1
  <2>2. CASE r \notin {s, t} /\ r \in Kids(t)
    <3>1. Origin(t, s, r) = {}
      BY <1>1, <2>2, AfterIs
    <3>. QED BY <2>0, <2>2, <3>1
  <2>3. CASE r \notin {s, t} /\ r \in Kids(s) /\ t \in Sub
    <3>1. Origin(t, s, r) = {r} /\ Origin(s, t, r) = {}
      BY <1>1, <2>3, AfterIs
    <3>. QED BY <2>0, <2>3, <3>1
  <2>4. CASE r \notin {s, t} /\ r \in Kids(s) /\ t \notin Sub
    <3>1. s \in Top /\ t \in Top
      BY <1>1, <2>4, TreeAssumption DEF Kids, Path
    <3>0. PICK j : Twins(r, s, j, t)
      BY <2>4, <3>1, TwinBack
    <3>2. j \in Kids(t) /\ Twin(r, t) = {j} /\ Twin(j, s) = {r}
      BY <3>0 DEF Twins
    <3>3. Origin(t, s, r) = {j}
      BY <1>1, <2>4, <3>1, <3>2, AfterKid
    <3>4. Origin(s, t, j) = {r}
      BY <1>1, <3>1, <3>2, AfterKid
    <3>5. j \notin {s, t} /\ j \in Path
      BY <3>1, <3>2, TreeAssumption DEF Kids, Path
    <3>. QED BY <2>0, <2>4, <3>3, <3>4, <3>5
  <2>5. CASE r \notin {s, t} /\ r \notin Kids(s) /\ r \notin Kids(t)
    <3>1. Origin(t, s, r) = {r} /\ Origin(s, t, r) = {r}
      BY <1>1, <2>5, AfterIs
    <3>. QED BY <2>0, <2>5, <3>1
  <2>. QED BY <2>1, <2>2, <2>3, <2>4, <2>5
<1>3. h \subseteq Path
  BY DEF MovedWh
<1>. HIDE DEF h
<1>4. h = w
  BY <1>2, <1>3
<1>. QED BY <1>4 DEF h

LEMMA OpqsBack ==
    ASSUME NEW s, NEW t, FreeFor(s, t), NEW o \in SUBSET Top, t \notin o,
           t \in Sub => s \notin o
    PROVE  MovedOpq(t, s, MovedOpq(s, t, o)) = o
<1>. DEFINE g == MovedOpq(s, t, o)
            h == MovedOpq(t, s, g)
<1>1. s \in Path /\ t \in Path /\ s # t /\ (s \in Sub => Up[s] # t) /\ (t \in Sub => Up[t] # s)
  BY DEF FreeFor
<1>2. ASSUME NEW r \in Top PROVE r \in h <=> r \in o
  <2>0. /\ r \in h <=> Origin(t, s, r) \cap g # {}
        /\ \A i \in Top : i \in g <=> Origin(s, t, i) \cap o # {}
        /\ g \subseteq Top
    BY DEF MovedOpq
  <2>. HIDE DEF g, h
  <2>1. r \in Path /\ r \notin Kids(s) /\ r \notin Kids(t)
    BY TreeAssumption DEF Kids, Path
  <2>2. CASE r = s
    <3>1. Origin(t, s, r) = {t} /\ Origin(s, t, t) = {s}
      BY <1>1, <2>1, <2>2, AfterIs
    <3>2. t \notin Top => t \in Sub /\ s \notin o
      BY <1>1 DEF Path
    <3>. QED BY <2>0, <2>2, <3>1, <3>2
  <2>3. CASE r = t
    <3>1. Origin(t, s, r) = {}
      BY <1>1, <2>1, <2>3, AfterIs
    <3>. QED BY <2>0, <2>3, <3>1
  <2>4. CASE r \notin {s, t}
    <3>1. Origin(t, s, r) = {r} /\ Origin(s, t, r) = {r}
      BY <1>1, <2>1, <2>4, AfterIs
    <3>. QED BY <2>0, <2>4, <3>1
  <2>. QED BY <2>2, <2>3, <2>4
<1>3. h \subseteq Top
  BY DEF MovedOpq
<1>. HIDE DEF h
<1>4. h = o
  BY <1>2, <1>3
<1>. QED BY <1>4 DEF h

-----------------------------------------------------------------------------
(* The steps, one by one. *)

To(pc, ret) == GoOn({pc}) /\ op'.ret = ret

LEMMA ToBy ==
    ASSUME op \in RenOp, NEW pc \in RenSteps
    PROVE  /\ Goto(pc) => To(pc, op.ret)
           /\ FailTo(pc) => To(pc, "err") /\ UNCHANGED <<perm, ent, wh, opq>>
           /\ UndoFailTo(pc) => To(pc, "eio") /\ UNCHANGED <<perm, ent, wh, opq>>
           /\ Return => To("idle", IF op.ret = "run" THEN "ok" ELSE op.ret)
           /\ \A r \in Rets : op' = [op EXCEPT !.pc = pc, !.ret = r] => To(pc, r)
<1>1. /\ Goto(pc) => op'.ret = op.ret
      /\ FailTo(pc) => op'.ret = "err"
      /\ UndoFailTo(pc) => op'.ret = "eio"
      /\ Return => op'.ret = IF op.ret = "run" THEN "ok" ELSE op.ret
      /\ \A r \in Rets : op' = [op EXCEPT !.pc = pc, !.ret = r] => op'.ret = r
  BY DEF Goto, FailTo, UndoFailTo, Return, RenOp
<1>. QED BY <1>1, GoOnBy DEF To

LEMMA SrcHadKept ==
    ASSUME op \in RenOp, OthersSame, SameCall, SameOld, SrcHad PROVE SrcHad'
<1>1. PICK p \in Path : p = op.p /\ p = op'.p
  BY DEF RenOp, SameCall
<1>2. op'.b = op.b /\ op'.bs = op.bs
  BY DEF SameCall
<1>3. HadEnts(p)' = HadEnts(p) /\ HadWhs(p)' = HadWhs(p) /\ HadDirs(p)' = HadDirs(p)
  BY HadKept
<1>4. /\ op.b \in HadDirs(p)
      /\ FirstIn(Found(HadEnts(p), HadWhs(p), HadDirs(p)), op.bs)
  BY <1>1 DEF SrcHad
<1>5. HadEnts(op.p)' = HadEnts(p)' /\ HadWhs(op.p)' = HadWhs(p)' /\ HadDirs(op.p)' = HadDirs(p)'
  BY <1>1 DEF HadEnts, HadWhs, HadAt, HadDirs, Ents, Whs
<1>. QED BY <1>2, <1>3, <1>4, <1>5 DEF SrcHad

(* A step after which the branch is still known to have been what it was. *)
LEMMA UndoFrom ==
    ASSUME op \in RenOp, UndoInv, OthersSame, SameCall, ToUndo, Undoable, ~Before',
           op'.ret # "eio" /\ ToUndo' /\ Undoable' => op.ret # "eio" /\ SameOld,
           ToDo' => ToDo /\ op'.ret # "eio", op'.pc = "idle" => op'.ret # "err",
           TargetFree', CallKnown'
    PROVE  UndoInv'
<1>1. SeenBefore' /\ SrcFound'
  BY DEF SeenBefore, SrcFound, Before, ForOld
<1>2. HadBefore'
  BY HadKept DEF UndoInv, HadBefore, SameCall
<1>3. SrcThere'
  <2>. SUFFICES ASSUME ToDo', op'.b # op'.bs PROVE SrcHad'
    BY DEF SrcThere
  <2>1. SameOld /\ SrcHad
    BY DEF ToUndo, ToDo, InEntryCopy, CpSteps, Undoable, UndoInv, SrcThere, SameCall
  <2>. QED BY <2>1, SrcHadKept
<1>. QED BY <1>1, <1>2, <1>3 DEF UndoInv

(* The steps that leave the branch alone.  There is a way on, to the undo   *)
(* step for what has been done so far.                                      *)
CalmOn(pc, ret) ==
    \/ op.pc = "asideneg" /\ pc = "prepare" /\ ret = op.ret
    \/ op.pc = "cpattr" /\ InEntryCopy /\ pc = op.cp.ok /\ ret = op.ret
    \/ op.pc = "untmp" /\ pc = "unwh" /\ ret = op.ret /\ (op.ret # "eio" => ~op.tmp.on)
CalmFail(pc, ret) ==
    /\ ret = "err"
    /\ \/ op.pc \in {"lkwh", "aside"} /\ pc = "unwh"
       \/ op.pc = "asideneg" /\ pc = "untmp"
       \/ op.pc = "cpmake" /\ InEntryCopy /\ pc = "untmp"
       \/ op.pc \in {"cpfill", "cpattr"} /\ InEntryCopy /\ pc = "cpundo"
       \/ op.pc = "move" /\ op.b = op.bs /\ pc = "untmp"
       \/ op.pc = "mkopq" /\ pc = "unmove"
       \/ op.pc = "rmwh" /\ op.whd /\ pc = IF op.opq THEN "unopq" ELSE "unmove"
CalmEio(pc, ret) ==
    /\ ret = "eio"
    /\ \/ op.pc = "cpundo" /\ InEntryCopy /\ pc = "untmp"
       \/ op.pc = "unopq" /\ pc = "unmove"
       \/ op.pc = "unmove" /\ pc = "untmp"
       \/ op.pc = "untmp" /\ pc = "unwh"
       \/ op.pc = "unwh" /\ pc = "idle"

(* What the branch was depends on how far the call is only through these.   *)
SameFields == op'.p = op.p /\ op'.q = op.q /\ op'.b = op.b /\ op'.w = op.w /\ op'.tmp = op.tmp
SameStage  == (Moved' <=> Moved) /\ (Copying' <=> Copying) /\ (Marked' <=> Marked)
SameBack   == BackEnt' = BackEnt /\ BackWh' = BackWh /\ BackOpq' = BackOpq

LEMMA OldOf ==
    ASSUME SameFields, SameBack, InTmp' <=> InTmp PROVE SameOld
<1>1. OldEnt' = OldEnt
  BY DEF OldEnt, SameFields, SameBack, Kids
<1>2. OldWh' = OldWh
  BY DEF OldWh, SameFields, SameBack
<1>3. OldOpq' = OldOpq
  BY DEF OldOpq, SameFields, SameBack
<1>. QED BY <1>1, <1>2, <1>3 DEF SameOld

LEMMA BackOf ==
    ASSUME UNCHANGED <<ent, wh, opq>>, SameFields, SameStage, Copying => op'.byc = op.byc
    PROVE  SameBack
<1>1. BackEnt' = BackEnt
  BY DEF BackEnt, SameFields, SameStage, CopyName, Moved, Copying
<1>2. BackWh' = BackWh
  BY DEF BackWh, SameFields, SameStage, MovedWh
<1>3. BackOpq' = BackOpq
  BY DEF BackOpq, NoMark, SameFields, SameStage, MovedOpq
<1>. QED BY <1>1, <1>2, <1>3 DEF SameBack

LEMMA UndoCalm ==
    ASSUME RenInv, UndoInv, UNCHANGED <<perm, ent, wh, opq>>, NEW pc \in RenSteps, NEW ret,
           To(pc, ret), CalmOn(pc, ret) \/ CalmFail(pc, ret) \/ CalmEio(pc, ret)
    PROVE  UndoInv'
<1>. USE DEF CpSteps, LateSteps
<1>1. /\ op \in RenOp /\ op' \in RenOp /\ op'.pc = pc /\ op'.ret = ret /\ SameCall
      /\ op'.w = op.w /\ op'.whd = op.whd /\ op'.byc = op.byc /\ op'.opq = op.opq
      /\ op'.tmp = op.tmp /\ op'.cp = op.cp
      /\ op'.p = op.p /\ op'.q = op.q /\ op'.b = op.b /\ op'.bs = op.bs /\ op'.bd = op.bd
      /\ op'.isdir = op.isdir
  BY DEF RenInv, RenType, To, GoOn, SameCall
<1>2. OthersSame
  BY <1>1 DEF OthersSame, RenOp
<1>3. /\ InEntryCopy => /\ op.b # op.bs /\ (~op.byc => op.cp.ok = "move")
                        /\ op.byc => op.cp.ok = "rmwh" \/ (op.cp.ok = "mkopq" /\ op.isdir)
                        /\ op.pc # "cpmake" /\ op.byc => op.q \notin opq[op.b]
      /\ op.opq => op.isdir
  BY DEF RenInv, EntryCopy, InEntryCopy, Names
<1>4. TargetFree /\ CallKnown
  BY DEF UndoInv
<1>5. CASE CalmOn(pc, ret)
  <2>0. ToUndo /\ Undoable /\ ~Before'
    BY <1>1, <1>3, <1>5 DEF CalmOn, ToUndo, ToDo, Undoable, Before, InParentCopy, InEntryCopy
  <2>1. TargetFree'
    BY <1>1, <1>3, <1>4, <1>5 DEF CalmOn, TargetFree, CallKnown, InEntryCopy, InParentCopy, ForOld
  <2>2. CallKnown'
    BY <1>1, <1>3, <1>4, <1>5 DEF CalmOn, TargetFree, CallKnown, InEntryCopy, InParentCopy, Before
  <2>3. op.ret # "eio" => SameOld
    <3>1. SameFields /\ SameStage /\ (op.ret # "eio" => (InTmp' <=> InTmp))
      BY <1>1, <1>3, <1>4, <1>5 DEF CalmOn, CallKnown, SameFields, SameStage, Marked, Moved, Copying,
                                    InTmp, InEntryCopy
    <3>. QED BY <1>1, <3>1, BackOf, OldOf
  <2>4. (ToDo' => ToDo /\ op'.ret # "eio") /\ op'.pc # "idle" /\ op'.ret = op.ret
    BY <1>1, <1>3, <1>4, <1>5 DEF CalmOn, ToDo, InEntryCopy, CallKnown
  <2>. QED BY <1>1, <1>2, <2>0, <2>1, <2>2, <2>3, <2>4, UndoFrom
<1>6. CASE CalmFail(pc, ret)
  <2>0. ToUndo /\ Undoable /\ ~Before'
    BY <1>1, <1>3, <1>6 DEF CalmFail, ToUndo, ToDo, Undoable, Before, InParentCopy, InEntryCopy
  <2>1. TargetFree'
    BY <1>1, <1>3, <1>4, <1>6 DEF CalmFail, TargetFree, CallKnown, InEntryCopy, InParentCopy, ForOld
  <2>2. CallKnown'
    BY <1>1, <1>3, <1>4, <1>6 DEF CalmFail, TargetFree, CallKnown, InEntryCopy, InParentCopy, Before
  <2>3. SameOld
    <3>1. SameFields /\ SameStage /\ (InTmp' <=> InTmp)
      BY <1>1, <1>3, <1>4, <1>6 DEF CalmFail, CallKnown, SameFields, SameStage, Marked, Moved, Copying,
                                    InTmp, InEntryCopy
    <3>. QED BY <1>1, <3>1, BackOf, OldOf
  <2>4. (ToDo' => ToDo) /\ op'.pc # "idle" /\ op'.ret = "err" /\ op.ret = "run"
    BY <1>1, <1>3, <1>4, <1>6 DEF CalmFail, ToDo, InEntryCopy, CallKnown
  <2>. QED BY <1>1, <1>2, <2>0, <2>1, <2>2, <2>3, <2>4, UndoFrom
<1>7. CASE CalmEio(pc, ret)
  <2>0. ToUndo /\ Undoable /\ ~Before'
    BY <1>1, <1>3, <1>7 DEF CalmEio, ToUndo, ToDo, Undoable, Before, InParentCopy, InEntryCopy
  <2>1. TargetFree'
    BY <1>1, <1>3, <1>4, <1>7 DEF CalmEio, TargetFree, CallKnown, InEntryCopy, InParentCopy, ForOld
  <2>2. CallKnown'
    BY <1>1, <1>3, <1>4, <1>7 DEF CalmEio, TargetFree, CallKnown, InEntryCopy, InParentCopy, Before
  <2>3. ~ToDo' /\ op'.ret = "eio"
    BY <1>1, <1>7 DEF CalmEio, ToDo, InEntryCopy
  <2>. QED BY <1>1, <1>2, <2>0, <2>1, <2>2, <2>3, UndoFrom
<1>. QED BY <1>5, <1>6, <1>7

(* The end of a call. *)
LEMMA UndoEnd ==
    ASSUME UndoInv, op'.pc = "idle", op'.tmp = op.tmp, op'.isdir = op.isdir,
           op'.ret = "err" => \A r \in Path : Seen(r)' = op'.before[r]
    PROVE  UndoInv'
<1>. USE DEF CpSteps, LateSteps
<1>1. TargetFree' /\ SrcFound'
  BY DEF TargetFree, SrcFound, Before, InEntryCopy, InParentCopy, ForOld
<1>2. CallKnown'
  BY DEF UndoInv, CallKnown, Before, InEntryCopy, InParentCopy
<1>3. SeenBefore' /\ HadBefore' /\ SrcThere'
  BY DEF SeenBefore, HadBefore, SrcThere, ToUndo, ToDo, Before, InEntryCopy, InParentCopy
<1>. QED BY <1>1, <1>2, <1>3 DEF UndoInv

(* The branch has whiteouts. *)
LEMMA TargetWhable ==
    ASSUME RenInv, AllWhable, op.pc # "idle" PROVE Whable(op.b)
  BY DEF RenInv, RenType, RenOp, NamesApart, Writable, Whable, AllWhable

(* do_rename begins. *)
LEMMA UndoWhSrc ==
    ASSUME RenInv, AllWhable, UndoInv, WhSrc PROVE UndoInv'
<1>. USE DEF CpSteps, LateSteps
<1>0. /\ op \in RenOp /\ op.pc = "mkwh" /\ HiddenType /\ "lkwh" \in RenSteps /\ "idle" \in RenSteps
      /\ op.b \in Br /\ op.p \in Path /\ op.bs \in Br /\ wh \in [Br -> SUBSET Path]
  BY DEF RenInv, RenType, HiddenType, WhSrc, RenSteps, EarlySteps, RenOp
<1>1. Whable(op.b)
  BY <1>0, TargetWhable
<1>2. /\ TargetFree /\ CallKnown /\ ~op.tmp.on /\ op.ret = "run" /\ op.b \in Dirs(op.p)
      /\ FirstIn(Found(Ents(op.p), Whs(op.p), Dirs(op.p)), op.bs)
      /\ \A r \in Path : Seen(r) = op.before[r]
  BY <1>0 DEF UndoInv, CallKnown, SrcFound, SeenBefore, Before
<1>3. op.p \notin wh[op.b]
  <2>1. op.b <= op.bs
    BY <1>0, BranchAssumption DEF RenInv, NamesApart, Br
  <2>2. op.b \notin Whs(op.p)
    BY <1>2, <2>1 DEF FirstIn, Found
  <2>. QED BY <1>0, <1>1, <2>2 DEF Whs, HasWh
<1>4. CASE FailTo("idle")
  <2>1. To("idle", "err") /\ UNCHANGED <<perm, ent, wh, opq>>
    BY <1>0, <1>4, ToBy
  <2>2. op' \in RenOp /\ op'.pc = "idle" /\ op'.tmp = op.tmp /\ op'.isdir = op.isdir /\ op'.before = op.before
    BY <2>1 DEF To, GoOn, SameCall
  <2>3. \A r \in Path : Seen(r)' = Seen(r)
    BY <2>1, <2>2, Calm
  <2>. QED BY <1>2, <2>2, <2>3, UndoEnd
<1>5. CASE /\ Goto("lkwh") /\ UNCHANGED <<perm, ent, opq>>
           /\ \/ op.w /\ AddWh(op.b, op.p)
              \/ ~op.w /\ wh' = wh
  <2>1. To("lkwh", "run")
    BY <1>0, <1>2, <1>5, ToBy
  <2>2. /\ op' \in RenOp /\ op'.pc = "lkwh" /\ op'.ret = "run" /\ SameCall
        /\ op'.w = op.w /\ op'.tmp = op.tmp
        /\ op'.p = op.p /\ op'.q = op.q /\ op'.b = op.b /\ op'.bs = op.bs /\ op'.bd = op.bd
        /\ op'.isdir = op.isdir /\ op'.before = op.before /\ op.p # op.q
    BY <1>0, <2>1 DEF To, GoOn, SameCall, RenInv, NamesApart
  <2>3. /\ wh'[op.b] = wh[op.b] \cup (IF op.w THEN {op.p} ELSE {})
        /\ \A c \in Br : c # op.b => wh'[c] = wh[c]
    BY <1>0, <1>5 DEF AddWh
  <2>4. OthersSame
    BY <1>0, <1>5, <2>2, <2>3 DEF OthersSame
  <2>5. OldEnt' = ent[op.b] /\ OldWh' = wh[op.b] /\ OldOpq' = opq[op.b]
    <3>1. ~Moved' /\ ~Copying' /\ ~Marked' /\ ~InTmp'
      BY <1>2, <2>2 DEF Moved, Copying, Marked, InTmp
    <3>2. BackEnt' = ent[op.b] /\ BackWh' = wh'[op.b] /\ BackOpq' = opq[op.b]
      BY <1>5, <2>2, <3>1 DEF BackEnt, BackWh, BackOpq, NoMark
    <3>3. OldWh' = wh[op.b]
      BY <1>3, <2>2, <2>3, <3>1, <3>2 DEF OldWh
    <3>. QED BY <3>1, <3>2, <3>3 DEF OldEnt, OldOpq
  <2>6. \A r \in Path : HadSeen(r)' = Seen(r)
    BY <1>0, <1>1, <2>4, <2>5, HadWas
  <2>7. HadBefore'
    BY <1>2, <2>2, <2>6 DEF HadBefore
  <2>8. SrcThere'
    <3>1. PICK p \in Path : p = op.p /\ p = op'.p
      BY <1>0, <2>2
    <3>2. HadEnts(p)' = Ents(p) /\ HadWhs(p)' = Whs(p) /\ HadDirs(p)' = Dirs(p)
      BY <1>0, <1>1, <2>4, <2>5, HadWas
    <3>3. HadEnts(op.p)' = HadEnts(p)' /\ HadWhs(op.p)' = HadWhs(p)' /\ HadDirs(op.p)' = HadDirs(p)'
      BY <3>1 DEF HadEnts, HadWhs, HadAt, HadDirs, Ents, Whs
    <3>4. op.b \in Dirs(p) /\ FirstIn(Found(Ents(p), Whs(p), Dirs(p)), op.bs)
      BY <1>2, <3>1
    <3>. QED BY <2>2, <3>2, <3>3, <3>4 DEF SrcThere, SrcHad
  <2>9. TargetFree'
    BY <1>0, <1>2, <1>5, <2>2, <2>3 DEF TargetFree, InEntryCopy, InParentCopy, ForOld, SameKind
  <2>10. CallKnown'
    BY <1>2, <2>2 DEF CallKnown, InEntryCopy, InParentCopy, Before
  <2>11. SrcFound' /\ SeenBefore'
    BY <2>2 DEF SrcFound, SeenBefore, Before, InParentCopy, ForOld
  <2>. QED BY <2>7, <2>8, <2>9, <2>10, <2>11 DEF UndoInv
<1>. QED BY <1>4, <1>5 DEF WhSrc, hidden

(* The whiteout of the new name, and how the entry is renamed. *)
LEMMA UndoLook ==
    ASSUME RenInv, UndoInv, WhDst PROVE UndoInv'
<1>. USE DEF CpSteps, LateSteps
<1>0. op \in RenOp /\ op.pc = "lkwh" /\ "unwh" \in RenSteps /\ op.b \in Br /\ op.q \in Path
  BY DEF RenInv, RenType, WhDst, RenSteps, RenOp
<1>1. CASE FailTo("unwh")
  <2>1. To("unwh", "err") /\ UNCHANGED <<perm, ent, wh, opq>>
    BY <1>0, <1>1, ToBy
  <2>. QED BY <1>0, <2>1, UndoCalm DEF CalmFail
<1>. DEFINE pc == IF op.isdir /\ ent[op.b][op.q] = Dir THEN "aside" ELSE "prepare"
            whd == op.bd = op.b /\ op.q \in wh[op.b]
<1>2. CASE op' = [op EXCEPT !.whd = whd, !.pc = pc] /\ UNCHANGED <<perm, ent, wh, opq>>
  <2>1. pc \in {"aside", "prepare"} /\ pc \in RenSteps /\ whd \in BOOLEAN
    BY DEF RenSteps, EarlySteps
  <2>2. /\ TargetFree /\ CallKnown /\ ~op.tmp.on /\ op.ret = "run"
        /\ \/ ent[op.b][op.q] = NoEnt
           \/ op.bd = op.b /\ op.q \notin wh[op.b] /\ SameKind(ent[op.b][op.q])
    BY <1>0 DEF UndoInv, TargetFree, CallKnown
  <2>3. /\ pc = "aside" => ent[op.b][op.q] = Dir
        /\ pc = "prepare" => ent[op.b][op.q] = NoEnt \/ (~op.isdir /\ ~whd)
    BY <2>2 DEF SameKind, OfKind
  <2>. HIDE DEF pc, whd
  <2>4. /\ op' \in RenOp /\ SameCall /\ op'.pc = pc /\ op'.ret = "run" /\ op'.whd = whd
        /\ op'.w = op.w /\ op'.tmp = op.tmp /\ op'.byc = op.byc /\ op'.opq = op.opq
        /\ op'.p = op.p /\ op'.q = op.q /\ op'.b = op.b /\ op'.bs = op.bs /\ op'.isdir = op.isdir
    BY <1>0, <1>2, <2>1, <2>2 DEF RenOp, SameCall
  <2>5. OthersSame /\ ~Before' /\ ToDo /\ ToUndo /\ Undoable
    BY <1>0, <1>2, <2>1, <2>4 DEF OthersSame, Before, InParentCopy, ToDo, ToUndo, Undoable
  <2>6. SameOld
    <3>1. SameFields /\ SameStage /\ (InTmp' <=> InTmp)
      BY <1>0, <2>1, <2>2, <2>4 DEF SameFields, SameStage, Marked, Moved, Copying, InTmp
    <3>. QED BY <1>2, <2>4, <3>1, BackOf, OldOf
  <2>7. TargetFree'
    BY <1>2, <2>1, <2>3, <2>4 DEF TargetFree, InEntryCopy, InParentCopy, ForOld
  <2>8. CallKnown'
    BY <2>1, <2>2, <2>4 DEF CallKnown, InEntryCopy, InParentCopy, Before
  <2>. QED BY <1>0, <2>1, <2>2, <2>4, <2>5, <2>6, <2>7, <2>8, UndoFrom
<1>. QED BY <1>1, <1>2 DEF WhDst, hidden

LEMMA UndoPrepare ==
    ASSUME RenInv, AllWhable, UndoInv, Prepare PROVE UndoInv'
<1>. USE DEF CpSteps, LateSteps
<1>. DEFINE there == op.bs = op.b
            over  == ~there /\ ent[op.b][op.q] # NoEnt
            Cp(n, ok) == [n |-> {n}, from |-> {op.p}, ok |-> ok, bad |-> "untmp"]
            cp == IF there THEN NoCp ELSE IF over THEN Cp(op.p, "move")
                  ELSE Cp(op.q, IF NeedDiropq THEN "mkopq" ELSE "rmwh")
            pc == IF there THEN "move" ELSE "cpmake"
            byc == ~there /\ ~over
<1>0. /\ op \in RenOp /\ op.pc = "prepare" /\ op.p \in Path /\ op.q \in Path /\ op.b \in Br
      /\ op.isdir \in BOOLEAN /\ UNCHANGED <<perm, ent, wh, opq>>
  BY DEF RenInv, RenType, RenOp, Prepare, hidden
<1>1. op' = [op EXCEPT !.opq = NeedDiropq, !.byc = byc, !.cp = cp, !.pc = pc]
  BY DEF Prepare
<1>2. /\ NeedDiropq \in BOOLEAN /\ (NeedDiropq => op.isdir)
      /\ NeedDiropq /\ there => op.p \notin opq[op.b]
  <2>1. Whable(op.b)
    BY <1>0, TargetWhable
  <2>. QED BY <1>0, <2>1 DEF NeedDiropq, IsOpq
<1>3. /\ cp \in CpType /\ pc \in RenSteps /\ byc \in BOOLEAN
      /\ \/ pc = "move" /\ op.b = op.bs /\ ~byc
         \/ pc = "cpmake" /\ op.b # op.bs /\ (byc <=> ent[op.b][op.q] = NoEnt)
            /\ cp.bad = "untmp"
            /\ cp.ok = IF byc THEN IF NeedDiropq THEN "mkopq" ELSE "rmwh" ELSE "move"
  BY <1>0 DEF NoCp, CpType, RenSteps, EarlySteps
<1>4. /\ TargetFree /\ CallKnown /\ op.ret = "run"
      /\ ent[op.b][op.q] = NoEnt \/ (~op.isdir /\ ~op.whd)
  BY <1>0 DEF UndoInv, TargetFree, CallKnown
<1>. HIDE DEF cp, pc, byc
<1>5. /\ op' \in RenOp /\ SameCall /\ op'.pc = pc /\ op'.cp = cp /\ op'.ret = "run"
      /\ op'.byc = byc /\ op'.opq = NeedDiropq /\ op'.tmp = op.tmp /\ op'.w = op.w
      /\ op'.p = op.p /\ op'.q = op.q /\ op'.b = op.b /\ op'.bs = op.bs /\ op'.isdir = op.isdir
      /\ op'.whd = op.whd
  BY <1>0, <1>1, <1>2, <1>3, <1>4 DEF RenOp, SameCall
<1>6. OthersSame /\ ~Before' /\ ToDo /\ ToUndo /\ Undoable
  BY <1>0, <1>3, <1>5 DEF OthersSame, Before, InParentCopy, ToDo, ToUndo, Undoable
<1>7. SameOld
  <2>1. SameFields /\ SameStage /\ (InTmp' <=> InTmp) /\ ~Copying
    BY <1>0, <1>3, <1>5 DEF SameFields, SameStage, Marked, Moved, Copying, InTmp
  <2>. QED BY <1>0, <1>5, <2>1, BackOf, OldOf
<1>8. TargetFree'
  BY <1>0, <1>3, <1>4, <1>5 DEF TargetFree, InEntryCopy, InParentCopy, ForOld
<1>9. CallKnown'
  BY <1>0, <1>2, <1>3, <1>4, <1>5 DEF CallKnown, InEntryCopy, InParentCopy, Before
<1>. QED BY <1>0, <1>3, <1>4, <1>5, <1>6, <1>7, <1>8, <1>9, UndoFrom

(* The directory that is replaced is put aside ... *)
LEMMA UndoAside ==
    ASSUME RenInv, UndoInv, PutAside \/ AsideNeg PROVE UndoInv'
<1>. USE DEF CpSteps, LateSteps
<1>0. /\ op \in RenOp /\ op.b \in Br /\ op.p \in Path /\ op.q \in Path
      /\ ent \in [Br -> [Path -> Entry]] /\ wh \in [Br -> SUBSET Path] /\ opq \in [Br -> SUBSET Top]
      /\ {"asideneg", "unwh", "prepare", "untmp"} \subseteq RenSteps
  BY DEF RenInv, RenType, RenOp, HiddenType, RenSteps, EarlySteps
<1>1. CASE AsideNeg
  <2>0. op.pc = "asideneg"
    BY <1>1 DEF AsideNeg
  <2>1. CASE FailTo("untmp")
    <3>1. To("untmp", "err") /\ UNCHANGED <<perm, ent, wh, opq>>
      BY <1>0, <2>1, ToBy
    <3>. QED BY <1>0, <2>0, <3>1, UndoCalm DEF CalmFail
  <2>2. CASE Goto("prepare") /\ UNCHANGED <<perm, hidden, crashes>>
    <3>1. To("prepare", op.ret) /\ UNCHANGED <<perm, ent, wh, opq>>
      BY <1>0, <2>2, ToBy DEF hidden
    <3>. QED BY <1>0, <2>0, <3>1, UndoCalm DEF CalmOn
  <2>. QED BY <1>1, <2>1, <2>2 DEF AsideNeg
<1>2. CASE PutAside /\ FailTo("unwh")
  <2>1. To("unwh", "err") /\ UNCHANGED <<perm, ent, wh, opq>>
    BY <1>0, <1>2, ToBy
  <2>. QED BY <1>0, <1>2, <2>1, UndoCalm DEF CalmFail, PutAside
<1>3. CASE /\ op.pc = "aside"
           /\ op' = [op EXCEPT !.tmp = Aside(op.b, op.q), !.pc = "asideneg"]
           /\ ent' = [ent EXCEPT ![op.b] = [r \in Path |->
                        IF r = op.q \/ r \in Kids(op.q) THEN NoEnt ELSE @[r]]]
           /\ wh' = [wh EXCEPT ![op.b] = @ \ Kids(op.q)]
           /\ opq' = [opq EXCEPT ![op.b] = @ \ {op.q}]
           /\ UNCHANGED <<perm, crashes>>
  <2>1. /\ TargetFree /\ CallKnown /\ ~op.tmp.on /\ op.ret = "run"
        /\ ent[op.b][op.q] = Dir /\ op.isdir
    BY <1>3 DEF UndoInv, TargetFree, CallKnown, RenInv, Names
  <2>2. op' \in RenOp
    BY RenAside, <1>3 DEF RenInv, RenType, PutAside
  <2>3. /\ SameCall /\ op'.pc = "asideneg" /\ op'.ret = "run" /\ op'.tmp = Aside(op.b, op.q)
        /\ op'.w = op.w /\ op'.whd = op.whd /\ op'.byc = op.byc /\ op'.opq = op.opq
        /\ op'.p = op.p /\ op'.q = op.q /\ op'.b = op.b /\ op'.bs = op.bs /\ op'.isdir = op.isdir
    BY <1>0, <1>3, <2>1 DEF RenOp, SameCall
  <2>4. /\ ent'[op.b] = [r \in Path |-> IF r = op.q \/ r \in Kids(op.q) THEN NoEnt ELSE ent[op.b][r]]
        /\ wh'[op.b] = wh[op.b] \ Kids(op.q) /\ opq'[op.b] = opq[op.b] \ {op.q}
        /\ \A c \in Br : c # op.b => ent'[c] = ent[c] /\ wh'[c] = wh[c] /\ opq'[c] = opq[c]
    BY <1>0, <1>3
  <2>5. OthersSame /\ ~Before' /\ ToDo /\ ToUndo /\ Undoable
    BY <1>0, <1>3, <2>3, <2>4 DEF OthersSame, Before, InParentCopy, ToDo, ToUndo, Undoable
  <2>6. SameOld
    <3>1. /\ ~Moved /\ ~Copying /\ ~Marked /\ ~InTmp
          /\ ~Moved' /\ ~Copying' /\ ~Marked'
      BY <1>3, <2>1, <2>3 DEF Moved, Copying, Marked, InTmp
    <3>2. /\ BackEnt = ent[op.b] /\ BackWh = wh[op.b] /\ BackOpq = opq[op.b]
          /\ BackEnt' = ent'[op.b] /\ BackWh' = wh'[op.b] /\ BackOpq' = opq'[op.b]
      BY <2>3, <3>1 DEF BackEnt, BackWh, BackOpq, NoMark
    <3>3. /\ op'.tmp.on /\ op'.tmp.wh = wh[op.b] \cap Kids(op.q)
          /\ op'.tmp.opq <=> op.q \in opq[op.b]
          /\ \A k \in Kids(op.q) : op'.tmp.ent[k] = ent[op.b][k]
      <4>1. op'.tmp.wh = wh[op.b] \cap Kids(op.q) /\ \A k \in Kids(op.q) : op'.tmp.ent[k] = ent[op.b][k]
        BY <2>3 DEF Aside, Kids
      <4>2. op'.tmp.on = TRUE /\ op'.tmp.opq = (op.q \in opq[op.b])
        BY <2>3 DEF Aside
      <4>3. op'.tmp.on /\ (op'.tmp.opq <=> op.q \in opq[op.b])
        BY <4>2
      <4>. QED BY <4>1, <4>2, <4>3
    <3>4. InTmp'
      BY <2>3, <3>3 DEF InTmp
    <3>5. OldEnt' = OldEnt
      <4>1. OldEnt = [r \in Path |-> ent[op.b][r]]
        BY <1>0, <3>1, <3>2 DEF OldEnt
      <4>2. OldEnt' = [r \in Path |-> IF r = op.q THEN Dir
                                      ELSE IF r \in Kids(op.q) THEN op'.tmp.ent[r] ELSE ent'[op.b][r]]
        BY <2>3, <3>2, <3>4 DEF OldEnt, Kids
      <4>3. \A r \in Path : OldEnt'[r] = ent[op.b][r]
        BY <2>1, <2>4, <3>3, <4>2
      <4>. QED BY <4>1, <4>2, <4>3
    <3>6. OldWh' = OldWh
      BY <2>3, <2>4, <3>1, <3>2, <3>3, <3>4 DEF OldWh
    <3>7. OldOpq' = OldOpq
      <4>1. OldOpq = opq[op.b]
        BY <3>1, <3>2 DEF OldOpq
      <4>2. OldOpq' = IF op'.tmp.opq THEN (opq[op.b] \ {op.q}) \cup {op.q} ELSE opq[op.b] \ {op.q}
        BY <2>3, <2>4, <3>2, <3>4 DEF OldOpq
      <4>. QED BY <3>3, <4>1, <4>2
    <3>. QED BY <3>5, <3>6, <3>7 DEF SameOld
  <2>7. TargetFree'
    BY <1>0, <2>3, <2>4 DEF TargetFree, InEntryCopy, InParentCopy, ForOld
  <2>8. CallKnown'
    BY <2>1, <2>3 DEF CallKnown, InEntryCopy, InParentCopy, Before
  <2>. QED BY <1>0, <2>1, <2>3, <2>5, <2>6, <2>7, <2>8, UndoFrom
<1>. QED BY <1>1, <1>2, <1>3 DEF PutAside

(* ... and comes back. *)
LEMMA UndoUnTmp ==
    ASSUME RenInv, UndoInv, UnTmp PROVE UndoInv'
<1>. USE DEF CpSteps, LateSteps
<1>0. /\ op \in RenOp /\ op.b \in Br /\ op.p \in Path /\ op.q \in Path /\ op.pc = "untmp"
      /\ ent \in [Br -> [Path -> Entry]] /\ wh \in [Br -> SUBSET Path] /\ opq \in [Br -> SUBSET Top]
      /\ "unwh" \in RenSteps
  BY DEF RenInv, RenType, RenOp, HiddenType, RenSteps, UnTmp
<1>1. TargetFree /\ CallKnown /\ (op.tmp.on /\ op.ret # "eio" => ent[op.b][op.q] = NoEnt)
  BY <1>0 DEF UndoInv, TargetFree
<1>2. CASE UndoFailTo("unwh")
  <2>1. To("unwh", "eio") /\ UNCHANGED <<perm, ent, wh, opq>>
    BY <1>0, <1>2, ToBy
  <2>. QED BY <1>0, <2>1, UndoCalm DEF CalmEio
<1>3. CASE /\ ~(op.tmp.on /\ ent[op.b][op.q] = NoEnt)
           /\ Goto("unwh") /\ UNCHANGED <<perm, hidden, crashes>>
  <2>1. To("unwh", op.ret) /\ UNCHANGED <<perm, ent, wh, opq>>
    BY <1>0, <1>3, ToBy DEF hidden
  <2>. QED BY <1>0, <1>1, <1>3, <2>1, UndoCalm DEF CalmOn
<1>4. CASE /\ op.tmp.on
           /\ ent' = [ent EXCEPT ![op.b] = [r \in Path |->
                         IF r = op.q THEN Dir
                         ELSE IF r \in Kids(op.q) THEN op.tmp.ent[r] ELSE @[r]]]
           /\ wh' = [wh EXCEPT ![op.b] = @ \cup op.tmp.wh]
           /\ opq' = [opq EXCEPT ![op.b] = IF op.tmp.opq THEN @ \cup {op.q} ELSE @]
           /\ Goto("unwh")
           /\ UNCHANGED <<perm, crashes>>
  <2>1. To("unwh", op.ret)
    BY <1>0, <1>4, ToBy
  <2>2. /\ op' \in RenOp /\ SameCall /\ op'.pc = "unwh" /\ op'.ret = op.ret /\ op'.tmp = op.tmp
        /\ op'.w = op.w /\ op'.whd = op.whd /\ op'.byc = op.byc /\ op'.opq = op.opq
        /\ op'.p = op.p /\ op'.q = op.q /\ op'.b = op.b /\ op'.bs = op.bs /\ op'.isdir = op.isdir
    BY <2>1 DEF To, GoOn, SameCall
  <2>4. /\ ent'[op.b] = [r \in Path |-> IF r = op.q THEN Dir
                         ELSE IF r \in Kids(op.q) THEN op.tmp.ent[r] ELSE ent[op.b][r]]
        /\ wh'[op.b] = wh[op.b] \cup op.tmp.wh
        /\ opq'[op.b] = IF op.tmp.opq THEN opq[op.b] \cup {op.q} ELSE opq[op.b]
        /\ \A c \in Br : c # op.b => ent'[c] = ent[c] /\ wh'[c] = wh[c] /\ opq'[c] = opq[c]
    BY <1>0, <1>4
  <2>5. OthersSame /\ ~Before' /\ ~ToDo' /\ ToUndo /\ Undoable
    BY <1>0, <1>4, <2>2, <2>4 DEF OthersSame, Before, InParentCopy, InEntryCopy, ToDo, ToUndo, Undoable
  <2>6. SameOld
    <3>1. /\ ~Moved /\ ~Copying /\ ~Marked /\ InTmp
          /\ ~Moved' /\ ~Copying' /\ ~Marked' /\ ~InTmp'
      BY <1>0, <1>4, <2>2 DEF Moved, Copying, Marked, InTmp
    <3>2. /\ BackEnt = ent[op.b] /\ BackWh = wh[op.b] /\ BackOpq = opq[op.b]
          /\ BackEnt' = ent'[op.b] /\ BackWh' = wh'[op.b] /\ BackOpq' = opq'[op.b]
      BY <2>2, <3>1 DEF BackEnt, BackWh, BackOpq, NoMark
    <3>5. OldEnt' = OldEnt
      BY <2>2, <2>4, <3>1, <3>2 DEF OldEnt
    <3>6. OldWh' = OldWh
      BY <2>2, <2>4, <3>1, <3>2 DEF OldWh
    <3>7. OldOpq' = OldOpq
      BY <2>2, <2>4, <3>1, <3>2 DEF OldOpq
    <3>. QED BY <3>5, <3>6, <3>7 DEF SameOld
  <2>7. TargetFree'
    BY <1>0, <2>2 DEF TargetFree, InEntryCopy, InParentCopy, ForOld
  <2>8. CallKnown'
    BY <1>1, <2>2 DEF CallKnown, InEntryCopy, InParentCopy, Before
  <2>. QED BY <1>0, <2>2, <2>5, <2>6, <2>7, <2>8, UndoFrom
<1>. QED BY <1>2, <1>3, <1>4 DEF UnTmp

(* The opaque mark is made and removed; the last steps. *)
LEMMA UndoMarks ==
    ASSUME RenInv, AllWhable, UndoInv, Opaque \/ Done \/ UnOpaque \/ UnWhSrc PROVE UndoInv'
<1>. USE DEF CpSteps, LateSteps
<1>0. /\ op \in RenOp /\ op.b \in Br /\ op.p \in Path /\ op.q \in Path /\ HiddenType
      /\ ent \in [Br -> [Path -> Entry]] /\ wh \in [Br -> SUBSET Path] /\ opq \in [Br -> SUBSET Top]
      /\ {"rmwh", "unmove", "unopq", "idle"} \subseteq RenSteps
  BY DEF RenInv, RenType, RenOp, HiddenType, RenSteps
<1>1. TargetFree /\ CallKnown
  BY DEF UndoInv
<1>2. ASSUME NEW pc \in RenSteps, To(pc, op.ret), UNCHANGED <<perm, ent, wh>>,
             \/ op.pc = "mkopq" /\ pc = "rmwh" /\ opq' = [opq EXCEPT ![op.b] = @ \cup {op.q}]
             \/ op.pc = "unopq" /\ pc = "unmove" /\ opq' = [opq EXCEPT ![op.b] = @ \ {op.q}]
      PROVE  UndoInv'
  <2>1. /\ op' \in RenOp /\ SameCall /\ op'.pc = pc /\ op'.ret = op.ret /\ op'.tmp = op.tmp
        /\ op'.w = op.w /\ op'.whd = op.whd /\ op'.byc = op.byc /\ op'.opq = op.opq
        /\ op'.p = op.p /\ op'.q = op.q /\ op'.b = op.b /\ op'.bs = op.bs /\ op'.isdir = op.isdir
    BY <1>2 DEF To, GoOn, SameCall
  <2>2. OthersSame /\ ~Before' /\ ~ToDo' /\ ToUndo /\ Undoable
    BY <1>0, <1>2, <2>1 DEF OthersSame, Before, InParentCopy, InEntryCopy, ToDo, ToUndo, Undoable
  <2>3. NoMark' = NoMark
    <3>1. CASE op.pc = "mkopq" /\ pc = "rmwh"
      <4>1. op.opq /\ op.q \notin opq[op.b] /\ ~Marked /\ Marked'
        BY <1>1, <2>1, <3>1 DEF CallKnown, Marked
      <4>2. opq'[op.b] = opq[op.b] \cup {op.q}
        BY <1>0, <1>2, <3>1
      <4>. QED BY <2>1, <4>1, <4>2 DEF NoMark
    <3>2. CASE op.pc = "unopq" /\ pc = "unmove"
      <4>1. Marked /\ ~Marked'
        BY <2>1, <3>2 DEF Marked
      <4>2. opq'[op.b] = opq[op.b] \ {op.q}
        BY <1>0, <1>2, <3>2
      <4>. QED BY <2>1, <4>1, <4>2 DEF NoMark
    <3>. QED BY <1>2, <3>1, <3>2
  <2>4. SameOld
    <3>1. (Moved' <=> Moved) /\ (Copying' <=> Copying) /\ (InTmp' <=> InTmp) /\ CopyName' = CopyName
      BY <1>2, <2>1 DEF Moved, Copying, InTmp, CopyName
    <3>2. BackEnt' = BackEnt /\ BackWh' = BackWh
      BY <1>2, <2>1, <3>1 DEF BackEnt, BackWh, MovedWh
    <3>3. BackOpq' = BackOpq
      BY <2>1, <2>3, <3>1 DEF BackOpq, MovedOpq
    <3>. QED BY <2>1, <3>1, <3>2, <3>3, OldOf DEF SameFields, SameBack
  <2>5. TargetFree'
    BY <1>2, <2>1 DEF TargetFree, InEntryCopy, InParentCopy, ForOld
  <2>6. CallKnown'
    BY <1>1, <1>2, <2>1 DEF CallKnown, InEntryCopy, InParentCopy, Before
  <2>. QED BY <1>0, <1>2, <2>1, <2>2, <2>4, <2>5, <2>6, UndoFrom
<1>3. CASE Opaque
  <2>1. CASE opq' = [opq EXCEPT ![op.b] = @ \cup {op.q}] /\ Goto("rmwh") /\ UNCHANGED <<perm, ent, wh, crashes>>
    BY <1>0, <1>2, <1>3, <2>1, ToBy DEF Opaque
  <2>2. CASE FailTo("unmove")
    <3>1. To("unmove", "err") /\ UNCHANGED <<perm, ent, wh, opq>>
      BY <1>0, <2>2, ToBy
    <3>. QED BY <1>0, <1>3, <3>1, UndoCalm DEF CalmFail, Opaque
  <2>. QED BY <1>3, <2>1, <2>2 DEF Opaque
<1>4. CASE UnOpaque
  <2>1. CASE opq' = [opq EXCEPT ![op.b] = @ \ {op.q}] /\ Goto("unmove") /\ UNCHANGED <<perm, ent, wh, crashes>>
    BY <1>0, <1>2, <1>4, <2>1, ToBy DEF UnOpaque
  <2>2. CASE UndoFailTo("unmove")
    <3>1. To("unmove", "eio") /\ UNCHANGED <<perm, ent, wh, opq>>
      BY <1>0, <2>2, ToBy
    <3>. QED BY <1>0, <1>4, <3>1, UndoCalm DEF CalmEio, UnOpaque
  <2>. QED BY <1>4, <2>1, <2>2 DEF UnOpaque
<1>5. CASE Done
  <2>1. CASE Return
    <3>1. To("idle", "ok")
      BY <1>0, <1>1, <1>5, <2>1, ToBy DEF CallKnown, Done
    <3>. QED BY <3>1, UndoEnd DEF To, GoOn, SameCall
  <2>2. CASE op.whd /\ FailTo(IF op.opq THEN "unopq" ELSE "unmove")
    <3>1. PICK pc \in {"unopq", "unmove"} : pc = (IF op.opq THEN "unopq" ELSE "unmove") /\ FailTo(pc)
      BY <2>2
    <3>2. To(pc, "err") /\ UNCHANGED <<perm, ent, wh, opq>>
      BY <1>0, <3>1, ToBy
    <3>. QED BY <1>0, <1>5, <2>2, <3>1, <3>2, UndoCalm DEF CalmFail, Done
  <2>. QED BY <1>5, <2>1, <2>2 DEF Done
<1>6. CASE UnWhSrc
  <2>0. op.pc = "unwh"
    BY <1>6 DEF UnWhSrc
  <2>1. CASE /\ wh' = IF op.w THEN [wh EXCEPT ![op.b] = @ \ {op.p}] ELSE wh
             /\ Return /\ UNCHANGED <<perm, ent, opq, crashes>>
    <3>1. To("idle", IF op.ret = "run" THEN "ok" ELSE op.ret)
      BY <1>0, <2>1, ToBy
    <3>2. /\ op' \in RenOp /\ op'.pc = "idle" /\ op'.b = op.b /\ op'.before = op.before
          /\ op'.tmp = op.tmp /\ op'.isdir = op.isdir /\ (op'.ret = "err" => op.ret # "eio")
      BY <3>1 DEF To, GoOn, SameCall
    <3>3. /\ wh' \in [Br -> SUBSET Path]
          /\ wh'[op.b] = wh[op.b] \ (IF op.w THEN {op.p} ELSE {})
          /\ \A c \in Br : c # op.b => wh'[c] = wh[c]
      BY <1>0, <2>1
    <3>4. OthersSame /\ HiddenType' /\ Whable(op.b)
      BY <1>0, <2>0, <2>1, <3>2, <3>3, TargetWhable DEF OthersSame, HiddenType, RenOp
    <3>5. ent'[op.b] = OldEnt /\ wh'[op.b] = OldWh /\ opq'[op.b] = OldOpq
      <4>1. ~Moved /\ ~Copying /\ ~Marked /\ ~InTmp
        BY <2>0 DEF Moved, Copying, Marked, InTmp
      <4>2. BackEnt = ent[op.b] /\ BackWh = wh[op.b] /\ BackOpq = opq[op.b]
        BY <4>1 DEF BackEnt, BackWh, BackOpq, NoMark
      <4>. QED BY <2>1, <3>3, <4>1, <4>2 DEF OldEnt, OldWh, OldOpq
    <3>6. \A r \in Path : Seen(r)' = HadSeen(r)
      BY <3>4, <3>5, HadBack
    <3>7. op.ret # "eio" => \A r \in Path : HadSeen(r) = op.before[r]
      BY <2>0 DEF UndoInv, HadBefore, ToUndo, Undoable
    <3>. QED BY <3>2, <3>6, <3>7, UndoEnd
  <2>2. CASE UndoFailTo("idle")
    <3>1. To("idle", "eio") /\ UNCHANGED <<perm, ent, wh, opq>>
      BY <1>0, <2>2, ToBy
    <3>. QED BY <1>0, <2>0, <3>1, UndoCalm DEF CalmEio
  <2>. QED BY <1>6, <2>1, <2>2 DEF UnWhSrc
<1>. QED BY <1>3, <1>4, <1>5, <1>6

(* The entry is copied up, under its old name or under the new one. *)
LEMMA UndoPut ==
    ASSUME RenInv, UndoInv, InEntryCopy, NEW n \in Path, n = CopyName, NEW v \in Entry,
           PutEnt(op.b, n, v), UNCHANGED <<perm, wh, opq>>, NEW pc \in RenSteps, To(pc, op.ret),
           \/ op.pc = "cpmake" /\ ent[op.b][n] = NoEnt /\ pc = IF op.isdir THEN "cpattr" ELSE "cpfill"
           \/ op.pc = "cpfill" /\ pc = "cpattr" /\ v = ent[op.bs][op.p]
           \/ op.pc = "cpundo" /\ pc = "untmp" /\ v = NoEnt
    PROVE  UndoInv'
<1>. USE DEF CpSteps, LateSteps
<1>0. /\ op \in RenOp /\ op.b \in Br /\ op.bs \in Br /\ op.p \in Path /\ op.q \in Path /\ HiddenType
      /\ ent \in [Br -> [Path -> Entry]] /\ op.p # op.q /\ op.b # op.bs
      /\ op.cp.bad # "idle" /\ (~op.byc => op.cp.ok = "move") /\ (op.byc => op.cp.ok # "move")
  BY DEF RenInv, RenType, RenOp, HiddenType, NamesApart, EntryCopy, InEntryCopy
<1>1. /\ op' \in RenOp /\ SameCall /\ op'.pc = pc /\ op'.ret = op.ret /\ op'.tmp = op.tmp
      /\ op'.w = op.w /\ op'.whd = op.whd /\ op'.byc = op.byc /\ op'.opq = op.opq /\ op'.cp = op.cp
      /\ op'.p = op.p /\ op'.q = op.q /\ op'.b = op.b /\ op'.bs = op.bs /\ op'.isdir = op.isdir
  BY DEF To, GoOn, SameCall
<1>2. TargetFree /\ CallKnown
  BY DEF UndoInv
<1>3. /\ ent'[op.b] = [ent[op.b] EXCEPT ![n] = v]
      /\ \A c \in Br : c # op.b => ent'[c] = ent[c]
  BY <1>0 DEF PutEnt
<1>4. \A c \in Br, r \in Path : ent'[c][r] = IF c = op.b /\ r = n THEN v ELSE ent[c][r]
  BY <1>0, PutAt
<1>5. OthersSame /\ ~Before' /\ ToDo /\ ToUndo /\ Undoable
  BY <1>0, <1>1, <1>3 DEF OthersSame, Before, InParentCopy, InEntryCopy, ToDo, ToUndo, Undoable
<1>6. SameOld
  <2>1. /\ ~Moved /\ ~Moved' /\ ~Marked /\ ~Marked' /\ (InTmp' <=> InTmp) /\ CopyName' = n
        /\ Copying <=> op.pc # "cpmake"
        /\ Copying' <=> op.pc # "cpundo"
    BY <1>1 DEF Moved, Marked, InTmp, CopyName, Copying, InEntryCopy
  <2>2. BackWh' = BackWh /\ BackOpq' = BackOpq
    BY <1>1, <2>1 DEF BackWh, BackOpq, NoMark
  <2>3. BackEnt = IF op.pc = "cpmake" THEN ent[op.b] ELSE [ent[op.b] EXCEPT ![n] = NoEnt]
    BY <2>1 DEF BackEnt
  <2>4. BackEnt' = IF op.pc = "cpundo" THEN ent'[op.b] ELSE [ent'[op.b] EXCEPT ![n] = NoEnt]
    BY <1>1, <2>1 DEF BackEnt
  <2>5. BackEnt' = BackEnt
    <3>1. [ent'[op.b] EXCEPT ![n] = NoEnt] = [ent[op.b] EXCEPT ![n] = NoEnt]
      BY <1>0, <1>3
    <3>2. op.pc = "cpmake" => [ent[op.b] EXCEPT ![n] = NoEnt] = ent[op.b]
      BY <1>0
    <3>. QED BY <1>3, <2>3, <2>4, <3>1, <3>2
  <2>. QED BY <1>1, <2>1, <2>2, <2>5, OldOf DEF SameFields, SameBack
<1>7. TargetFree'
  <2>1. ~op.byc => ent'[op.b][op.q] # NoEnt /\ ~op.isdir /\ ~op.whd /\ ~op.tmp.on
    <3>1. ~op.byc => ent[op.b][op.q] # NoEnt /\ ~op.isdir /\ ~op.whd /\ ~op.tmp.on
      BY <1>2 DEF TargetFree, CallKnown
    <3>. QED BY <1>0, <1>4, <3>1 DEF CopyName
  <2>2. op.byc /\ pc = "untmp" => ent'[op.b][op.q] = NoEnt
    BY <1>0, <1>4 DEF CopyName
  <2>. QED BY <1>0, <1>1, <2>1, <2>2 DEF TargetFree, InEntryCopy, InParentCopy, ForOld
<1>8. CallKnown'
  <2>1. op.cp.ok = "move" => ~op.isdir
    BY <1>0, <1>2 DEF TargetFree
  <2>2. pc = "cpattr" /\ op.cp.ok = "move" => ent'[op.b][op.p] = ent'[op.bs][op.p]
    BY <1>0, <1>4, <2>1 DEF CopyName
  <2>. QED BY <1>0, <1>1, <1>2, <2>2 DEF CallKnown, InEntryCopy, InParentCopy, Before
<1>9. (ToDo' => op'.ret # "eio") /\ op'.pc # "idle" /\ op.ret # "eio"
  BY <1>1, <1>2 DEF CallKnown, ToDo, InEntryCopy
<1>. QED BY <1>0, <1>1, <1>5, <1>6, <1>7, <1>8, <1>9, UndoFrom

LEMMA UndoEntry ==
    ASSUME RenInv, UndoInv, CpMake \/ CpFill \/ CpAttr \/ CpUndo, op.cp.bad # "idle"
    PROVE  UndoInv'
<1>. USE DEF CpSteps
<1>0. /\ op \in RenOp /\ InEntryCopy /\ op.pc \in CpSteps /\ Dir \in Entry /\ Partial \in Entry /\ NoEnt \in Entry
      /\ ent \in [Br -> [Path -> Entry]] /\ op.bs \in Br /\ op.p \in Path
      /\ {"cpfill", "cpattr", "cpundo", "untmp"} \subseteq RenSteps /\ op.cp.ok \in RenSteps
      /\ op.cp.bad = "untmp" /\ "err" \in Rets
  BY DEF RenInv, RenType, HiddenType, RenOp, CpType, RenSteps, EntryCopy, InEntryCopy, CpMake, CpFill, CpAttr, CpUndo,
         Entry, File, Rets
<1>1. PICK n \in Path : CpName = n /\ n = CopyName /\ (CpIsDir <=> op.isdir) /\ CpFrom = op.p
  BY <1>0, CpIs DEF CopyName
<1>2. CASE CpMake
  <2>0. op.pc = "cpmake"
    BY <1>2 DEF CpMake
  <2>1. CASE /\ ent[op.b][CpName] = NoEnt
             /\ PutEnt(op.b, CpName, IF CpIsDir THEN Dir ELSE Partial)
             /\ Goto(IF CpIsDir THEN "cpattr" ELSE "cpfill") /\ UNCHANGED <<perm, wh, opq, crashes>>
    <3>1. PICK pc \in RenSteps, v \in Entry :
                /\ pc = (IF op.isdir THEN "cpattr" ELSE "cpfill")
                /\ PutEnt(op.b, n, v) /\ Goto(pc)
      BY <1>0, <1>1, <2>1
    <3>2. To(pc, op.ret)
      BY <1>0, <3>1, ToBy
    <3>. QED BY <1>0, <1>1, <2>0, <2>1, <3>1, <3>2, UndoPut
  <2>2. CASE op' = [op EXCEPT !.pc = op.cp.bad, !.ret = "err"] /\ UNCHANGED <<perm, hidden, crashes>>
    <3>1. To("untmp", "err") /\ UNCHANGED <<perm, ent, wh, opq>>
      BY <1>0, <2>2, ToBy DEF hidden
    <3>. QED BY <1>0, <2>0, <3>1, UndoCalm DEF CalmFail
  <2>3. CASE FailTo(op.cp.bad)
    <3>1. To("untmp", "err") /\ UNCHANGED <<perm, ent, wh, opq>>
      BY <1>0, <2>3, ToBy
    <3>. QED BY <1>0, <2>0, <3>1, UndoCalm DEF CalmFail
  <2>. QED BY <1>2, <2>1, <2>2, <2>3 DEF CpMake
<1>3. CASE CpFill
  <2>0. op.pc = "cpfill"
    BY <1>3 DEF CpFill
  <2>1. CASE /\ PutEnt(op.b, CpName, ent[op.bs][CpFrom]) /\ Goto("cpattr")
             /\ UNCHANGED <<perm, wh, opq, crashes>>
    <3>1. PICK v \in Entry : v = ent[op.bs][op.p] /\ PutEnt(op.b, n, v)
      BY <1>0, <1>1, <2>1
    <3>2. To("cpattr", op.ret)
      BY <1>0, <2>1, ToBy
    <3>. QED BY <1>0, <1>1, <2>0, <2>1, <3>1, <3>2, UndoPut
  <2>2. CASE FailTo("cpundo")
    <3>1. To("cpundo", "err") /\ UNCHANGED <<perm, ent, wh, opq>>
      BY <1>0, <2>2, ToBy
    <3>. QED BY <1>0, <2>0, <3>1, UndoCalm DEF CalmFail
  <2>. QED BY <1>3, <2>1, <2>2 DEF CpFill
<1>4. CASE CpAttr
  <2>0. op.pc = "cpattr"
    BY <1>4 DEF CpAttr
  <2>1. CASE Goto(op.cp.ok) /\ UNCHANGED <<perm, hidden, crashes>>
    <3>1. PICK pc \in RenSteps : pc = op.cp.ok
      BY <1>0
    <3>2. To(pc, op.ret) /\ UNCHANGED <<perm, ent, wh, opq>>
      BY <1>0, <2>1, <3>1, ToBy DEF hidden
    <3>. QED BY <1>0, <2>0, <3>1, <3>2, UndoCalm DEF CalmOn
  <2>2. CASE FailTo("cpundo")
    <3>1. To("cpundo", "err") /\ UNCHANGED <<perm, ent, wh, opq>>
      BY <1>0, <2>2, ToBy
    <3>. QED BY <1>0, <2>0, <3>1, UndoCalm DEF CalmFail
  <2>. QED BY <1>4, <2>1, <2>2 DEF CpAttr
<1>5. CASE CpUndo
  <2>0. op.pc = "cpundo"
    BY <1>5 DEF CpUndo
  <2>1. CASE PutEnt(op.b, CpName, NoEnt) /\ Goto(op.cp.bad) /\ UNCHANGED <<perm, wh, opq, crashes>>
    <3>1. To("untmp", op.ret)
      BY <1>0, <2>1, ToBy
    <3>. QED BY <1>0, <1>1, <2>0, <2>1, <3>1, UndoPut
  <2>2. CASE UndoFailTo(op.cp.bad)
    <3>1. To("untmp", "eio") /\ UNCHANGED <<perm, ent, wh, opq>>
      BY <1>0, <2>2, ToBy
    <3>. QED BY <1>0, <2>0, <3>1, UndoCalm DEF CalmEio
  <2>. QED BY <1>5, <2>1, <2>2 DEF CpUndo
<1>. QED BY <1>2, <1>3, <1>4, <1>5

-----------------------------------------------------------------------------
(* The entry is renamed on the branch, and renamed back. *)

(* What lookup shows when the first thing it finds is not a directory. *)
LEMMA FirstFile ==
    ASSUME NEW e, NEW W, NEW O, NEW C \in SUBSET Br, NEW b \in Br,
           FirstIn(Found(e, W, C), b), e[b] # Dir
    PROVE  Merged(e, W, O, C) = {b} /\ Shown(e, W, O, C) = e[b]
<1>. DEFINE P == Found(e, W, C)
<1>1. P \in SUBSET Br /\ b \in P /\ \A c \in P : b <= c
  BY DEF Found, FirstIn
<1>2. Merged(e, W, O, C) =
        IF P = {} THEN {}
        ELSE IF e[Min(P)] # Dir THEN {Min(P)}
        ELSE {x \in P : e[x] = Dir /\ \A c \in P : c < x /\ e[c] = Dir => c \notin O}
  BY DEF Merged
<1>. HIDE DEF P
<1>3. Min(P) = b
  <2>1. PICK m \in Br : m = Min(P) /\ m \in P /\ m <= b
    BY <1>1, MinBr
  <2>. QED BY <1>1, <2>1, BranchAssumption DEF Br
<1>4. Merged(e, W, O, C) = {b}
  BY <1>1, <1>2, <1>3
<1>5. Min({b}) = b
  BY MinBr
<1>. QED BY <1>4, <1>5 DEF Shown

(* The file v is found first at bs, below b. *)
FileBelow(e, W, C, b, bs, v) ==
    /\ e \in [Br -> Entry] /\ C \in SUBSET Br /\ b \in C /\ bs \in Br /\ b < bs
    /\ FirstIn(Found(e, W, C), bs) /\ e[bs] = v /\ v # Dir /\ v # NoEnt

WithCopy(e, b, v) == [e EXCEPT ![b] = v]
ShowsAt(e, W, O, C, b, v) == Shown(e, W, O, C) = v /\ Merged(e, W, O, C) = {b}

(* A copy of a file on a branch above shows the same file. *)
LEMMA AddFile ==
    ASSUME NEW e, NEW W, NEW O, NEW C, NEW b, NEW bs, NEW v, FileBelow(e, W, C, b, bs, v)
    PROVE  ShowsAt(e, W, O, C, bs, v) /\ ShowsAt(WithCopy(e, b, v), W, O, C, b, v)
<1>. USE DEF FileBelow
<1>. DEFINE f == WithCopy(e, b, v)
<1>1. f[b] = v /\ \A c \in Br : c # b => f[c] = e[c]
  BY DEF WithCopy
<1>2. FirstIn(Found(f, W, C), b)
  <2>. HIDE DEF f
  <2>1. \A c \in C : c <= bs => c \notin W
    BY DEF FirstIn, Found
  <2>2. \A c \in C : c <= b => c <= bs
    BY BranchAssumption DEF Br
  <2>3. b \in Found(f, W, C)
    BY <1>1, <2>1, <2>2 DEF Found
  <2>4. ASSUME NEW c \in Found(f, W, C) PROVE b <= c
    <3>. SUFFICES ASSUME ~(b <= c) PROVE FALSE
      OBVIOUS
    <3>1. c \in C /\ c \in Br /\ c # b /\ c < bs /\ f[c] # NoEnt /\ \A x \in C : x <= c => x \notin W
      BY <2>4, BranchAssumption DEF Found, Br
    <3>2. c \in Found(e, W, C)
      BY <1>1, <3>1 DEF Found
    <3>. QED BY <3>1, <3>2, BranchAssumption DEF FirstIn, Br
  <2>. QED BY <2>3, <2>4 DEF FirstIn
<1>. HIDE DEF f
<1>3. Shown(f, W, O, C) = v /\ Merged(f, W, O, C) = {b}
  BY <1>1, <1>2, FirstFile
<1>4. Shown(e, W, O, C) = v /\ Merged(e, W, O, C) = {bs}
  BY FirstFile
<1>. QED BY <1>3, <1>4 DEF f, ShowsAt

(* Renaming on the branch fails after the entry was copied up under its old *)
(* name: the copy stays, and shows what the entry showed.                   *)
LEMMA UndoMoveFail ==
    ASSUME RenInv, UndoInv, op.pc = "move", op.b # op.bs,
           To("untmp", "err"), UNCHANGED <<perm, ent, wh, opq>>
    PROVE  UndoInv'
<1>. USE DEF CpSteps, LateSteps
<1>0. /\ op \in RenOp /\ ent \in [Br -> [Path -> Entry]] /\ op.isdir \in BOOLEAN
      /\ op.b < op.bs
  BY DEF RenInv, RenType, RenOp, HiddenType, NamesApart
<1>1. PICK p \in Path, b \in Br, bs \in Br : p = op.p /\ b = op.b /\ bs = op.bs
  BY <1>0 DEF RenOp
<1>2. /\ op' \in RenOp /\ SameCall /\ op'.pc = "untmp" /\ op'.ret = "err" /\ op'.tmp = op.tmp
      /\ op'.w = op.w /\ op'.whd = op.whd /\ op'.byc = op.byc /\ op'.opq = op.opq /\ op'.cp = op.cp
      /\ op'.p = p /\ op'.q = op.q /\ op'.b = b /\ op'.bs = bs /\ op'.isdir = op.isdir
      /\ op'.before = op.before
  BY <1>1 DEF To, GoOn, SameCall
<1>3. /\ TargetFree /\ CallKnown /\ ~op.isdir /\ ~op.tmp.on /\ op.ret = "run" /\ ~op.byc
      /\ ent[b][p] = ent[bs][p] /\ SrcHad
  BY <1>1 DEF UndoInv, TargetFree, CallKnown, SrcThere, ToDo, RenInv, Names
<1>4. OthersSame
  BY <1>0, <1>1, <1>2 DEF OthersSame
<1>5. /\ OldEnt = [ent[b] EXCEPT ![p] = NoEnt] /\ OldEnt' = ent[b]
      /\ OldWh' = OldWh /\ OldOpq' = OldOpq
  <2>1. /\ ~Moved /\ ~Moved' /\ ~Marked /\ ~Marked' /\ ~InTmp /\ ~InTmp' /\ CopyName = p
        /\ Copying /\ ~Copying'
    BY <1>1, <1>2, <1>3 DEF Moved, Marked, InTmp, CopyName, Copying
  <2>2. BackWh' = BackWh /\ BackOpq' = BackOpq
    BY <1>1, <1>2, <2>1 DEF BackWh, BackOpq, NoMark
  <2>3. BackEnt = [ent[b] EXCEPT ![p] = NoEnt] /\ BackEnt' = ent[b]
    BY <1>1, <1>2, <2>1 DEF BackEnt
  <2>4. OldWh' = OldWh /\ OldOpq' = OldOpq
    BY <1>1, <1>2, <2>1, <2>2 DEF OldWh, OldOpq
  <2>. QED BY <2>1, <2>3, <2>4 DEF OldEnt
<1>6. \A r \in Path : /\ HadWhs(r)' = HadWhs(r) /\ HadOpqs(r)' = HadOpqs(r)
                      /\ HadEnts(r) \in [Br -> Entry]
                      /\ r # p => HadEnts(r)' = HadEnts(r)
                      /\ r = p => HadEnts(r)' = [HadEnts(r) EXCEPT ![b] = ent[b][p]]
                                  /\ HadEnts(r)[bs] = ent[bs][p]
  <2>1. ASSUME NEW r \in Path PROVE HadWhs(r)' = HadWhs(r) /\ HadOpqs(r)' = HadOpqs(r)
    BY <1>1, <1>2, <1>5 DEF HadWhs, HadOpqs, HadAt, Whs, Opqs, HasWh, IsOpq, Whable
  <2>2. ASSUME NEW r \in Path
        PROVE  /\ HadEnts(r) = [c \in Br |-> IF c = b THEN (IF r = p THEN NoEnt ELSE ent[b][r]) ELSE ent[c][r]]
               /\ HadEnts(r)' = [c \in Br |-> ent[c][r]]
    BY <1>0, <1>1, <1>2, <1>5 DEF HadEnts, Ents
  <2>3. NoEnt \in Entry /\ b # bs
    BY <1>1 DEF Entry
  <2>. QED BY <1>0, <2>1, <2>2, <2>3
<1>7. /\ b \in HadDirs(p) /\ FirstIn(Found(HadEnts(p), HadWhs(p), HadDirs(p)), bs)
  BY <1>1, <1>3 DEF SrcHad
<1>8. HadDirs(p) \in SUBSET Br /\ HadDirs(p)' = HadDirs(p)
  <2>1. HadDirs(p)' = HadDirs(p)
    BY <1>6, KidsOf DEF HadDirs, Path
  <2>2. CASE p \in Top
    BY <2>1, <2>2 DEF HadDirs
  <2>3. CASE p \notin Top
    <3>1. \A e, W, O : Merged(e, W, O, Br) \subseteq Br
      <4>1. \A e, W : Found(e, W, Br) \in SUBSET Br
        BY DEF Found
      <4>. QED BY <4>1, MinBr DEF Merged
    <3>. QED BY <2>1, <2>3, <3>1 DEF HadDirs, Inside
  <2>. QED BY <2>2, <2>3
<1>9. PICK v : v = ent[b][p] /\ v = ent[bs][p] /\ v # Dir /\ v # NoEnt
  <2>1. SameKind(ent[op.b][op.p])
    BY DEF RenInv, Names
  <2>. QED BY <1>1, <1>3, <2>1, EntryAssumption DEF SameKind, OfKind
<1>10. /\ HadSeen(p)' = HadSeen(p)
       /\ p \in Top => /\ Inside(HadEnts(p), HadWhs(p), HadOpqs(p)) = {}
                       /\ Inside(HadEnts(p), HadWhs(p), HadOpqs(p))' = {}
  <2>. DEFINE E == HadEnts(p)
              W == HadWhs(p)
              O == HadOpqs(p)
              C == HadDirs(p)
              F == WithCopy(E, b, v)
  <2>1. /\ HadSeen(p) = Shown(E, W, O, C) /\ HadSeen(p)' = Shown(F, W, O, C)
        /\ HadEnts(p)' = F /\ HadWhs(p)' = W /\ HadOpqs(p)' = O
    BY <1>6, <1>8, <1>9 DEF HadSeen, WithCopy
  <2>2. /\ E \in [Br -> Entry] /\ C \in SUBSET Br /\ b \in C /\ FirstIn(Found(E, W, C), bs)
        /\ b < bs /\ E[bs] = v
    BY <1>0, <1>1, <1>6, <1>7, <1>8, <1>9
  <2>3. p \in Top => C = Br
    BY DEF HadDirs
  <2>. HIDE DEF E, W, O, C
  <2>4. /\ Shown(E, W, O, C) = v /\ Merged(E, W, O, C) = {bs}
        /\ Shown(F, W, O, C) = v /\ Merged(F, W, O, C) = {b}
    <3>1. FileBelow(E, W, C, b, bs, v)
      BY <1>9, <2>2 DEF FileBelow
    <3>2. ShowsAt(E, W, O, C, bs, v) /\ ShowsAt(F, W, O, C, b, v)
      BY <3>1, AddFile
    <3>. QED BY <3>2 DEF ShowsAt
  <2>5. F[b] = v /\ Min({b}) = b /\ Min({bs}) = bs
    BY <2>2, MinBr DEF WithCopy
  <2>. HIDE DEF F
  <2>6. p \in Top => Inside(E, W, O) = {} /\ Inside(F, W, O) = {}
    BY <1>9, <2>2, <2>3, <2>4, <2>5 DEF Inside
  <2>. QED BY <2>1, <2>4, <2>6 DEF E, W, O
<1>11. ASSUME NEW r \in Path PROVE HadSeen(r)' = HadSeen(r)
  <2>1. CASE r = p
    BY <1>10, <2>1
  <2>2. CASE r # p
    <3>1. r \notin Top => Up[r] \in Top /\ Up[r] \in Path
      BY KidsOf DEF Path
    <3>2. HadDirs(r)' = HadDirs(r)
      BY <1>6, <1>10, <3>1 DEF HadDirs
    <3>. QED BY <1>6, <2>2, <3>2 DEF HadSeen
  <2>. QED BY <2>1, <2>2
<1>12. HadBefore'
  BY <1>2, <1>3, <1>11 DEF UndoInv, HadBefore, ToUndo, ToDo, Undoable
<1>13. TargetFree'
  BY <1>1, <1>2, <1>3 DEF TargetFree, InEntryCopy, InParentCopy, ForOld
<1>14. CallKnown'
  BY <1>2, <1>3 DEF CallKnown, InEntryCopy, InParentCopy, Before
<1>15. SrcFound' /\ SeenBefore' /\ SrcThere'
  BY <1>2 DEF SrcFound, SeenBefore, SrcThere, ToDo, InEntryCopy, Before, InParentCopy, ForOld
<1>. QED BY <1>12, <1>13, <1>14, <1>15 DEF UndoInv

LEMMA UndoMoveTo ==
    ASSUME RenInv, UndoInv, op.pc = "move", MoveOn(op.b, op.p, op.q),
           NEW pc \in RenSteps, pc = (IF op.opq THEN "mkopq" ELSE "rmwh"), To(pc, op.ret)
    PROVE  UndoInv'
<1>. USE DEF CpSteps, LateSteps
<1>0. /\ op \in RenOp /\ op.b \in Br /\ op.p \in Path /\ op.q \in Path /\ HiddenType /\ HiddenWF
      /\ ent \in [Br -> [Path -> Entry]] /\ wh \in [Br -> SUBSET Path] /\ opq \in [Br -> SUBSET Top]
      /\ NoEnt # Dir /\ Dir \notin File /\ SameKind(ent[op.b][op.p]) /\ ~op.byc
      /\ op.opq => op.isdir
      /\ op.q \in Sub => ~op.isdir
      /\ FreeFor(op.p, op.q)
  BY EntryAssumption DEF RenInv, RenType, RenOp, HiddenType, NamesApart, Names, FreeFor
<1>1. /\ op' \in RenOp /\ SameCall /\ op'.pc = pc /\ op'.ret = op.ret /\ op'.tmp = op.tmp
      /\ op'.w = op.w /\ op'.whd = op.whd /\ op'.byc = op.byc /\ op'.opq = op.opq /\ op'.cp = op.cp
      /\ op'.p = op.p /\ op'.q = op.q /\ op'.b = op.b /\ op'.bs = op.bs /\ op'.isdir = op.isdir
  BY DEF To, GoOn, SameCall
<1>2. /\ TargetFree /\ CallKnown /\ op.ret = "run"
      /\ ent[op.b][op.q] = NoEnt \/ (~op.isdir /\ ~op.whd)
      /\ op.b # op.bs => ent[op.b][op.q] # NoEnt
      /\ op.opq => op.p \notin opq[op.b]
  BY DEF UndoInv, TargetFree, CallKnown
<1>3. /\ ent'[op.b] = After(op.p, op.q, ent[op.b])
      /\ wh'[op.b] = MovedWh(op.p, op.q, wh[op.b])
      /\ opq'[op.b] = MovedOpq(op.p, op.q, opq[op.b])
      /\ \A c \in Br : c # op.b => ent'[c] = ent[c] /\ wh'[c] = wh[c] /\ opq'[c] = opq[c]
      /\ perm' = perm
  BY <1>0 DEF MoveOn, MovedWh, MovedOpq
<1>4. OthersSame /\ ~Before' /\ ~ToDo' /\ ToUndo /\ Undoable
  BY <1>0, <1>1, <1>3 DEF OthersSame, Before, InParentCopy, InEntryCopy, ToDo, ToUndo, Undoable
<1>5. Undoable' => ent[op.b][op.q] = NoEnt /\ op.b = op.bs
  BY <1>0, <1>1, <1>2 DEF Undoable
<1>6. ASSUME Undoable' PROVE SameOld
  <2>1. /\ ~Moved /\ ~Copying /\ ~Marked /\ Moved' /\ ~Marked' /\ (InTmp' <=> InTmp)
    BY <1>0, <1>1, <1>5, <1>6 DEF Moved, Copying, Marked, InTmp
  <2>2. NoKids(op.b, op.q) /\ op.q \notin opq[op.b]
    BY <1>0, <1>5, <1>6, NotDir
  <2>3. op.q \in Sub => NoKids(op.b, op.p) /\ op.p \notin opq[op.b]
    BY <1>0, NotDir DEF SameKind, OfKind
  <2>4. BackEnt' = BackEnt
    <3>1. After(op.q, op.p, After(op.p, op.q, ent[op.b])) = ent[op.b]
      BY <1>0, <1>5, <1>6, <2>2, <2>3, EntsBack DEF NoKids
    <3>. QED BY <1>1, <1>3, <2>1, <3>1 DEF BackEnt
  <2>5. BackWh' = BackWh
    <3>1. MovedWh(op.q, op.p, MovedWh(op.p, op.q, wh[op.b])) = wh[op.b]
      BY <1>0, <2>2, <2>3, WhsBack DEF NoKids
    <3>2. BackWh' = MovedWh(op.q, op.p, wh'[op.b])
      BY <1>1, <2>1 DEF BackWh, MovedWh
    <3>. QED BY <1>3, <2>1, <3>1, <3>2 DEF BackWh
  <2>6. BackOpq' = BackOpq
    <3>1. MovedOpq(op.q, op.p, MovedOpq(op.p, op.q, opq[op.b])) = opq[op.b]
      BY <1>0, <2>2, <2>3, OpqsBack
    <3>2. BackOpq' = MovedOpq(op.q, op.p, opq'[op.b])
      BY <1>1, <2>1 DEF BackOpq, NoMark, MovedOpq
    <3>. QED BY <1>3, <2>1, <3>1, <3>2 DEF BackOpq, NoMark
  <2>. QED BY <1>1, <2>1, <2>4, <2>5, <2>6, OldOf DEF SameFields, SameBack
<1>7. TargetFree'
  BY <1>1 DEF TargetFree, InEntryCopy, InParentCopy, ForOld
<1>8. CallKnown'
  <2>1. op.opq => op.q \notin opq'[op.b]
    <3>1. Origin(op.p, op.q, op.q) = {op.p}
      BY DEF Origin
    <3>. QED BY <1>2, <1>3, <3>1 DEF MovedOpq
  <2>. QED BY <1>1, <1>2, <2>1 DEF CallKnown, InEntryCopy, InParentCopy, Before
<1>. QED BY <1>0, <1>1, <1>2, <1>4, <1>6, <1>7, <1>8, UndoFrom

LEMMA UndoMoveBack ==
    ASSUME RenInv, UndoInv, op.pc = "unmove", To("untmp", op.ret), perm' = perm,
           \/ ~op.byc /\ MoveOn(op.b, op.q, op.p)
           \/ op.byc /\ PutEnt(op.b, op.q, NoEnt) /\ wh' = wh /\ opq' = opq
    PROVE  UndoInv'
<1>. USE DEF CpSteps, LateSteps
<1>0. /\ op \in RenOp /\ op.b \in Br /\ op.p \in Path /\ op.q \in Path /\ HiddenType
      /\ ent \in [Br -> [Path -> Entry]] /\ wh \in [Br -> SUBSET Path] /\ opq \in [Br -> SUBSET Top]
      /\ op.p # op.q /\ (op.p \in Sub => Up[op.p] # op.q) /\ (op.q \in Sub => Up[op.q] # op.p)
  BY DEF RenInv, RenType, RenOp, HiddenType, NamesApart
<1>1. /\ op' \in RenOp /\ SameCall /\ op'.pc = "untmp" /\ op'.ret = op.ret /\ op'.tmp = op.tmp
      /\ op'.w = op.w /\ op'.whd = op.whd /\ op'.byc = op.byc /\ op'.opq = op.opq /\ op'.cp = op.cp
      /\ op'.p = op.p /\ op'.q = op.q /\ op'.b = op.b /\ op'.bs = op.bs /\ op'.isdir = op.isdir
  BY DEF To, GoOn, SameCall
<1>2. TargetFree /\ CallKnown
  BY DEF UndoInv
<1>3. /\ IF op.byc
         THEN /\ ent'[op.b] = [ent[op.b] EXCEPT ![op.q] = NoEnt]
              /\ wh'[op.b] = wh[op.b] /\ opq'[op.b] = opq[op.b]
         ELSE /\ ent'[op.b] = After(op.q, op.p, ent[op.b])
              /\ wh'[op.b] = MovedWh(op.q, op.p, wh[op.b])
              /\ opq'[op.b] = MovedOpq(op.q, op.p, opq[op.b])
      /\ \A c \in Br : c # op.b => ent'[c] = ent[c] /\ wh'[c] = wh[c] /\ opq'[c] = opq[c]
  BY <1>0 DEF MoveOn, MovedWh, MovedOpq, PutEnt
<1>4. OthersSame /\ ~Before' /\ ~ToDo' /\ ToUndo /\ Undoable
  BY <1>0, <1>1, <1>3 DEF OthersSame, Before, InParentCopy, InEntryCopy, ToDo, ToUndo, Undoable
<1>5. SameOld
  <2>1. /\ ~Moved' /\ ~Copying' /\ ~Marked' /\ ~Marked /\ (Moved <=> ~op.byc) /\ (Copying <=> op.byc)
        /\ InTmp' <=> InTmp
    BY <1>1 DEF Moved, Copying, Marked, InTmp
  <2>2. BackEnt' = ent'[op.b] /\ BackWh' = wh'[op.b] /\ BackOpq' = opq'[op.b]
    BY <1>1, <2>1 DEF BackEnt, BackWh, BackOpq, NoMark
  <2>3. BackEnt' = BackEnt
    BY <1>3, <2>1, <2>2 DEF BackEnt, CopyName
  <2>4. BackWh' = BackWh /\ BackOpq' = BackOpq
    BY <1>3, <2>1, <2>2 DEF BackWh, BackOpq, NoMark
  <2>. QED BY <1>1, <2>1, <2>3, <2>4, OldOf DEF SameFields, SameBack
<1>6. ent'[op.b][op.q] = NoEnt
  <2>1. CASE op.byc
    BY <1>0, <1>3, <2>1
  <2>2. CASE ~op.byc
    BY <1>0, <1>3, <2>2, AfterIs
  <2>. QED BY <2>1, <2>2
<1>7. TargetFree'
  BY <1>1, <1>6 DEF TargetFree, InEntryCopy, InParentCopy, ForOld
<1>8. CallKnown'
  BY <1>1, <1>2 DEF CallKnown, InEntryCopy, InParentCopy, Before
<1>. QED BY <1>0, <1>1, <1>4, <1>5, <1>7, <1>8, UndoFrom

LEMMA UndoMove ==
    ASSUME RenInv, UndoInv, Move \/ UnMove PROVE UndoInv'
<1>0. op \in RenOp /\ {"untmp", "mkopq", "rmwh"} \subseteq RenSteps /\ "eio" \in Rets
  BY DEF RenInv, RenType, RenSteps, LateSteps, Rets
<1>1. CASE Move
  <2>1. CASE MoveOn(op.b, op.p, op.q) /\ Goto(IF op.opq THEN "mkopq" ELSE "rmwh")
    <3>1. PICK pc \in RenSteps : pc = (IF op.opq THEN "mkopq" ELSE "rmwh") /\ Goto(pc)
      BY <1>0, <2>1
    <3>2. To(pc, op.ret)
      BY <1>0, <3>1, ToBy
    <3>. QED BY <1>1, <2>1, <3>1, <3>2, UndoMoveTo DEF Move
  <2>2. CASE FailTo("untmp")
    <3>1. To("untmp", "err") /\ UNCHANGED <<perm, ent, wh, opq>>
      BY <1>0, <2>2, ToBy
    <3>2. CASE op.b = op.bs
      BY <1>0, <1>1, <3>1, <3>2, UndoCalm DEF CalmFail, Move
    <3>. QED BY <1>1, <3>1, <3>2, UndoMoveFail DEF Move
  <2>. QED BY <1>1, <2>1, <2>2 DEF Move
<1>2. CASE UnMove
  <2>0. op.pc = "unmove"
    BY <1>2 DEF UnMove
  <2>1. CASE ~op.byc /\ MoveOn(op.b, op.q, op.p) /\ Goto("untmp")
    <3>1. To("untmp", op.ret) /\ perm' = perm
      BY <1>0, <2>1, ToBy DEF MoveOn
    <3>. QED BY <2>0, <2>1, <3>1, UndoMoveBack
  <2>2. CASE op.byc /\ PutEnt(op.b, op.q, NoEnt) /\ Goto("untmp") /\ UNCHANGED <<perm, wh, opq, crashes>>
    <3>1. To("untmp", op.ret) /\ perm' = perm
      BY <1>0, <2>2, ToBy
    <3>. QED BY <2>0, <2>2, <3>1, UndoMoveBack
  <2>3. CASE op' = [op EXCEPT !.pc = "untmp", !.ret = "eio"] /\ UNCHANGED <<perm, hidden, crashes>>
    <3>1. To("untmp", "eio") /\ UNCHANGED <<perm, ent, wh, opq>>
      BY <1>0, <2>3, ToBy DEF hidden
    <3>. QED BY <1>0, <2>0, <3>1, UndoCalm DEF CalmEio
  <2>4. CASE UndoFailTo("untmp")
    <3>1. To("untmp", "eio") /\ UNCHANGED <<perm, ent, wh, opq>>
      BY <1>0, <2>4, ToBy
    <3>. QED BY <1>0, <2>0, <3>1, UndoCalm DEF CalmEio
  <2>. QED BY <1>2, <2>1, <2>2, <2>3, <2>4 DEF UnMove
<1>. QED BY <1>1, <1>2

-----------------------------------------------------------------------------
(* Before the first change. *)

(* The uppermost of the branches that lookup merges is the first on which   *)
(* it finds the name.                                                       *)
LEMMA FirstFound ==
    ASSUME NEW C \in SUBSET Br, NEW p, HDentries(C, p) # {}
    PROVE  FirstIn(Found(Ents(p), Whs(p), C), Min(HDentries(C, p)))
<1>. DEFINE e == Ents(p)
            O == Opqs(p)
            P == Found(e, Whs(p), C)
            H == HDentries(C, p)
<1>1. H = IF P = {} THEN {} ELSE IF e[Min(P)] # Dir THEN {Min(P)}
          ELSE {b \in P : e[b] = Dir /\ \A c \in P : c < b /\ e[c] = Dir => c \notin O}
  BY LookupIs DEF Merged
<1>2. P \in SUBSET Br /\ H \in SUBSET Br
  BY LookupBr DEF Found
<1>. HIDE DEF P, H, e, O
<1>3. P # {}
  BY <1>1 DEF H
<1>4. PICK m \in Br : m = Min(P) /\ m \in P /\ \A c \in P : m <= c
  BY <1>2, <1>3, MinBr
<1>5. m \in H /\ H \subseteq P
  <2>1. \A c \in P : ~(c < m)
    BY <1>2, <1>4, BranchAssumption DEF Br
  <2>. QED BY <1>1, <1>3, <1>4, <2>1
<1>6. PICK h \in Br : h = Min(H) /\ h \in H /\ h <= m
  BY <1>2, <1>5, MinBr
<1>7. h = m
  BY <1>4, <1>5, <1>6, BranchAssumption DEF Br
<1>. QED BY <1>4, <1>6, <1>7 DEF FirstIn, P, H, e

(* Nothing has been changed: what is known while a call looks around. *)
LEMMA UndoLooking ==
    ASSUME Before', \A r \in Path : Seen(r)' = op'.before[r], TargetFree', SrcFound', CallKnown'
    PROVE  UndoInv'
<1>1. ~ToUndo'
  BY DEF Before, InParentCopy, ToUndo, ToDo, InEntryCopy, CpSteps, LateSteps
<1>2. SeenBefore' /\ HadBefore' /\ SrcThere'
  BY <1>1 DEF SeenBefore, HadBefore, SrcThere, ToUndo
<1>. QED BY <1>2 DEF UndoInv

LEMMA UndoBegin ==
    ASSUME RenInv, AllWhable, NEW s \in Path, NEW t \in Path, BeginRename(s, t)
    PROVE  UndoInv'
<1>. USE DEF CpSteps, LateSteps
<1>. DEFINE Cs == ParentBr(s)
            Ct == ParentBr(t)
            Hs == HDentries(Cs, s)
            Ht == HDentries(Ct, t)
            cp == CpParent(op'.b, t, "neg")
<1>0. op \in RenOp /\ ent \in [Br -> [Path -> Entry]] /\ wh \in [Br -> SUBSET Path]
  BY DEF RenInv, RenType, HiddenType
<1>1. /\ UNCHANGED <<perm, ent, wh, opq>> /\ op' \in RenOp /\ op'.before = View
      /\ op'.p = s /\ op'.q = t /\ op'.cp = cp /\ ~op'.opq /\ ~op'.tmp.on
      /\ op'.pc = IF op'.b = op'.bd THEN "check" ELSE IF cp # NoCp THEN "cpmake" ELSE "neg"
      /\ op'.bs \in Cs /\ op'.bd \in Ct /\ Writable(op'.b)
      /\ Ht # {} => op'.bd = Min(Ht) /\ (op'.isdir <=> ent[op'.bd][t] = Dir)
      /\ op'.bs = Min(Hs) /\ Hs # {}
  BY BeginFacts
<1>2. op'.ret = "run" /\ (Ht = {} => op'.bd = NegStart(Ct, t) /\ op'.bd # -1)
  BY <1>0 DEF BeginRename, RenOp
<1>3. Cs \in SUBSET Br /\ Ct \in SUBSET Br /\ Ht \in SUBSET Br /\ Cs = Dirs(s) /\ Ct = Dirs(t)
  BY ParentBrType, LookupBr, ViewIs
<1>4. /\ op'.pc \in {"check", "cpmake", "neg"} /\ op'.cp.bad = "idle" /\ op'.cp.ok # "mkwh"
      /\ op'.cp.ok # "move"
  BY <1>1 DEF CpParent, NoCp
<1>5. FirstIn(Found(Ents(s), Whs(s), Dirs(s)), op'.bs)
  BY <1>1, <1>3, FirstFound
<1>6. op'.pc = "check" => \/ ent[op'.b][t] = NoEnt
                          \/ op'.bd = op'.b /\ t \notin wh[op'.b] /\ OfKind(op'.isdir, ent[op'.b][t])
  <2>. SUFFICES ASSUME op'.b = op'.bd, ent[op'.bd][t] # NoEnt
                PROVE  t \notin wh[op'.bd] /\ OfKind(op'.isdir, ent[op'.bd][t])
    BY <1>1
  <2>1. Ht # {}
    BY <1>2 DEF NegStart
  <2>2. PICK d \in Br : d = op'.bd /\ d = Min(Ht) /\ (op'.isdir <=> ent[d][t] = Dir) /\ d \in Ct
    BY <1>1, <1>3, <2>1
  <2>3. FirstIn(Found(Ents(t), Whs(t), Ct), d)
    BY <1>3, <2>1, <2>2, FirstFound
  <2>4. d \notin Whs(t)
    BY <2>3, BranchAssumption DEF FirstIn, Found, Br
  <2>5. Whable(d)
    BY <1>1, <2>2 DEF Writable, Whable, AllWhable
  <2>6. ent[d][t] \in Entry
    BY <1>0, <2>2
  <2>. QED BY <2>2, <2>4, <2>5, <2>6 DEF Whs, HasWh, OfKind, Entry
<1>7. TargetFree'
  BY <1>1, <1>4, <1>6 DEF TargetFree, InEntryCopy, InParentCopy, ForOld, SameKind
<1>8. SrcFound'
  <2>1. Ents(s)' = Ents(s) /\ Whs(s)' = Whs(s) /\ Dirs(s)' = Dirs(s)
    BY <1>1, Calm
  <2>2. Ents(op.p)' = Ents(s)' /\ Whs(op.p)' = Whs(s)' /\ Dirs(op.p)' = Dirs(s)'
    BY <1>1 DEF Ents, Whs, Dirs
  <2>. QED BY <1>4, <1>5, <2>1, <2>2 DEF SrcFound, ForOld
<1>9. CallKnown'
  BY <1>1, <1>2, <1>4 DEF CallKnown, InEntryCopy, InParentCopy
<1>10. \A r \in Path : Seen(r)' = op'.before[r]
  <2>1. \A r \in Path : Seen(r)' = Seen(r)
    BY <1>1, Calm
  <2>. QED BY <1>1, <2>1, ViewIs
<1>11. Before'
  BY <1>4 DEF Before, InParentCopy
<1>. QED BY <1>7, <1>8, <1>9, <1>10, <1>11, UndoLooking

(* Nothing is changed and the call goes on, or is refused. *)
LEMMA UndoOn ==
    ASSUME RenInv, UndoInv, Before, UNCHANGED <<perm, ent, wh, opq>>, op' \in RenOp, SameCall,
           op'.tmp = op.tmp, Before',
           \/ op'.pc = "cpundo" /\ op'.ret = "err"
           \/ op'.pc \notin {"cpundo", "cpattr"} /\ op'.ret = "run",
           (op'.pc \in {"check", "mkwh"} \/ ForOld') =>
              (\/ ent[op.b][op.q] = NoEnt
               \/ op.bd = op.b /\ op.q \notin wh[op.b] /\ SameKind(ent[op.b][op.q])),
           op'.pc = "mkwh" => op.b \in Dirs(op.p)
    PROVE  UndoInv'
<1>. USE DEF CpSteps, LateSteps
<1>1. PICK p \in Path : p = op.p /\ p = op'.p
  BY DEF RenOp, SameCall
<1>2. /\ \A r \in Path : Seen(r)' = Seen(r)
      /\ Ents(p)' = Ents(p) /\ Whs(p)' = Whs(p) /\ Dirs(p)' = Dirs(p)
  BY Calm
<1>3. Ents(op.p)' = Ents(p)' /\ Whs(op.p)' = Whs(p)' /\ Dirs(op.p)' = Dirs(p)'
  BY <1>1 DEF Ents, Whs, Dirs
<1>4. SrcFound'
  BY <1>1, <1>2, <1>3 DEF UndoInv, SrcFound, SameCall
<1>5. TargetFree'
  BY DEF TargetFree, SameCall, SameKind, Before, ForOld, InEntryCopy, InParentCopy
<1>6. CallKnown'
  <2>1. ~op.tmp.on
    BY DEF UndoInv, CallKnown
  <2>2. ~InEntryCopy' /\ op'.pc \notin {"move", "mkopq", "idle", "untmp", "unwh", "unopq", "unmove", "cpattr"}
    BY DEF Before, InEntryCopy, InParentCopy
  <2>3. ~op'.tmp.on
    BY <2>1
  <2>. QED BY <2>2, <2>3 DEF CallKnown
<1>7. \A r \in Path : Seen(r)' = op'.before[r]
  BY <1>2 DEF UndoInv, SeenBefore, SameCall
<1>. QED BY <1>4, <1>5, <1>6, <1>7, UndoLooking

LEMMA UndoRefused ==
    ASSUME RenInv, UndoInv, Before, UNCHANGED <<perm, ent, wh, opq>>, To("idle", "err")
    PROVE  UndoInv'
<1>1. op' \in RenOp /\ op'.pc = "idle" /\ op'.tmp = op.tmp /\ op'.isdir = op.isdir /\ op'.before = op.before
  BY DEF To, GoOn, SameCall
<1>2. \A r \in Path : Seen(r)' = Seen(r)
  BY <1>1, Calm
<1>3. \A r \in Path : Seen(r)' = op'.before[r]
  BY <1>1, <1>2 DEF UndoInv, SeenBefore
<1>. QED BY <1>1, <1>3, UndoEnd

(* lkup_neg of the new name, the tests of directories and wr_dir_need_wh. *)
LEMMA UndoCheck ==
    ASSUME RenInv, UndoInv, NegTarget \/ CheckDirs PROVE UndoInv'
<1>. USE DEF CpSteps, LateSteps
<1>0. /\ op \in RenOp /\ op.pc \in {"neg", "check"} /\ Before /\ op.ret = "run"
      /\ UNCHANGED <<perm, ent, wh, opq>> /\ op.p \in Path
  BY DEF RenInv, RenType, RenOp, NegTarget, CheckDirs, Refuse, hidden, Before, UndoInv, CallKnown
<1>1. CASE op' = [op EXCEPT !.pc = "idle", !.ret = "err"]
  <2>1. To("idle", "err")
    BY <1>0, <1>1, ToBy DEF RenSteps, Rets
  <2>. QED BY <1>0, <2>1, UndoRefused
<1>2. CASE op.pc = "neg" /\ ent[op.b][op.q] = NoEnt /\ Goto("check")
  <2>1. "check" \in RenSteps
    BY DEF RenSteps, EarlySteps
  <2>2. To("check", op.ret)
    BY <1>0, <1>2, <2>1, ToBy
  <2>3. op' \in RenOp /\ SameCall /\ op'.tmp = op.tmp /\ op'.pc = "check" /\ op'.ret = "run"
    BY <1>0, <2>2 DEF To, GoOn
  <2>4. Before'
    BY <2>3 DEF Before
  <2>. QED BY <1>0, <1>2, <2>3, <2>4, UndoOn
<1>3. CASE CheckDirs
  <2>. DEFINE cp == IF op.b = op.bs THEN NoCp ELSE CpParent(op.b, op.p, "mkwh")
              w  == op.b # op.bs \/ NeedWhBelow(ParentBr(op.p), op.p, op.bs)
              pc == IF cp # NoCp THEN "cpmake" ELSE "mkwh"
  <2>1. op' = [op EXCEPT !.pc = "idle", !.ret = "err"] \/ op' = [op EXCEPT !.pc = pc, !.cp = cp, !.w = w]
    BY <1>3 DEF CheckDirs, Refuse
  <2>. SUFFICES ASSUME op' = [op EXCEPT !.pc = pc, !.cp = cp, !.w = w] PROVE UndoInv'
    BY <1>1, <2>1
  <2>2. /\ pc \in {"cpmake", "mkwh"}
        /\ pc = "cpmake" => cp.bad = "idle" /\ cp.ok = "mkwh"
        /\ pc = "mkwh" => op.b = op.bs \/ ~NoParent(op.b, op.p)
    <3>1. CASE op.b # op.bs /\ NoParent(op.b, op.p)
      <4>1. cp = [n |-> {Up[op.p]}, from |-> {Up[op.p]}, ok |-> "mkwh", bad |-> "idle"]
        BY <3>1 DEF CpParent
      <4>2. cp.n # NoCp.n
        BY <4>1 DEF NoCp
      <4>. QED BY <4>1, <4>2
    <3>2. CASE op.b = op.bs \/ ~NoParent(op.b, op.p)
      <4>1. cp = NoCp
        BY <3>2 DEF CpParent
      <4>. QED BY <3>2, <4>1
    <3>. QED BY <3>1, <3>2
  <2>. HIDE DEF cp, w, pc
  <2>3. /\ SameCall /\ op'.pc = pc /\ op'.cp = cp /\ op'.tmp = op.tmp /\ op'.ret = op.ret
    BY <1>0 DEF RenOp, SameCall
  <2>4. op' \in RenOp
    BY <1>3, RenCheck DEF RenInv, RenType
  <2>5. Before'
    BY <2>2, <2>3 DEF Before, InParentCopy
  <2>6. \/ ent[op.b][op.q] = NoEnt
        \/ op.bd = op.b /\ op.q \notin wh[op.b] /\ SameKind(ent[op.b][op.q])
    BY <1>3 DEF CheckDirs, UndoInv, TargetFree
  <2>7. pc = "mkwh" => op.b \in Dirs(op.p)
    <3>. SUFFICES ASSUME pc = "mkwh" PROVE op.b \in Dirs(op.p)
      OBVIOUS
    <3>1. FirstIn(Found(Ents(op.p), Whs(op.p), Dirs(op.p)), op.bs)
      BY <1>0 DEF UndoInv, SrcFound
    <3>2. op.bs \in Dirs(op.p)
      BY <3>1 DEF FirstIn, Found
    <3>3. op.b \in Br
      BY <1>0 DEF RenOp
    <3>4. CASE op.p \in Top
      BY <3>3, <3>4 DEF Dirs
    <3>5. CASE op.p \notin Top
      <4>1. op.p \in Sub /\ Dirs(op.p) = ParentBr(op.p)
        BY <1>0, <3>5, ViewIs DEF Path
      <4>. QED BY <2>2, <3>2, <4>1 DEF NoParent
    <3>. QED BY <3>4, <3>5
  <2>. QED BY <1>0, <2>2, <2>3, <2>4, <2>5, <2>6, <2>7, UndoOn
<1>. QED BY <1>0, <1>1, <1>2, <1>3 DEF NegTarget, Refuse

(* A branch that holds nothing of a name joins its directories. *)
LEMMA JoinFirst ==
    ASSUME NEW e, NEW W, NEW D, NEW b, NEW bs, e[b] = NoEnt, b \notin W,
           FirstIn(Found(e, W, D), bs)
    PROVE  FirstIn(Found(e, W, D \cup {b}), bs)
<1>1. Found(e, W, D \cup {b}) = Found(e, W, D)
  BY DEF Found
<1>. QED BY <1>1
(* The parent of a name is copied up: the old name is found where it was. *)
LEMMA SrcParent ==
    ASSUME RenInv, UndoInv, op.pc = "cpmake", op.cp.bad = "idle",
           PutEnt(op.b, CpName, Dir), ent[op.b][CpName] = NoEnt,
           perm' = perm, wh' = wh, opq' = opq, SameCall
    PROVE  /\ FirstIn(Found(Ents(op.p)', Whs(op.p)', Dirs(op.p)'), op.bs)
           /\ op.cp.ok = "mkwh" => op.b \in Dirs(op.p)'
           /\ ent'[op.b][op.q] = ent[op.b][op.q]
           /\ op.cp.ok \in {"neg", "mkwh"}
<1>. USE DEF CpSteps
<1>1. PICK u \in Top :
            /\ op.cp.n = {u} /\ u \notin {op.p, op.q}
            /\ \/ op.cp.ok = "neg" /\ op.q \in Sub /\ u = Up[op.q]
               \/ op.cp.ok = "mkwh" /\ op.p \in Sub /\ u = Up[op.p]
            /\ ent[op.b][u] = NoEnt
                   => \E x \in Br : Lacks(Ents(u), Whs(u), Opqs(u), op.b, x)
  BY DEF RenInv, ParentCopy
<1>2. CpName = u /\ u \in Path
  BY <1>1 DEF CpName, Path
<1>3. PICK p \in Path, q \in Path, b \in Br : p = op.p /\ q = op.q /\ b = op.b
  BY DEF RenInv, RenType, RenOp
<1>4. HiddenType /\ HiddenWF /\ NoEnt # Dir /\ RenType /\ op.b \in Br
  BY EntryAssumption DEF RenInv, RenType, RenOp
<1>5. \A c \in Br, r \in Path : ent'[c][r] = IF c = b /\ r = u THEN Dir ELSE ent[c][r]
  BY <1>2, <1>3, <1>4, EntryAssumption DEF RenType, HiddenType, PutEnt
<1>6. \A r : Whs(r)' = Whs(r) /\ Opqs(r)' = Opqs(r)
  BY DEF Whs, Opqs, HasWh, IsOpq, Whable
<1>7. \A r \in Path : r # u => Ents(r)' = Ents(r)
  BY <1>5 DEF Ents
<1>8. op'.p = p /\ p # u /\ q # u
  BY <1>1, <1>3 DEF SameCall
<1>9. Ents(op.p)' = Ents(p) /\ Whs(op.p)' = Whs(p) /\ Dirs(op.p)' = Dirs(p)'
  <2>1. Ents(op.p)' = Ents(p)' /\ Whs(op.p)' = Whs(p)' /\ Dirs(op.p)' = Dirs(p)'
    BY <1>8 DEF Ents, Whs, Dirs
  <2>. QED BY <1>6, <1>7, <1>8, <2>1
<1>10. FirstIn(Found(Ents(p), Whs(p), Dirs(p)), op.bs)
  BY <1>3 DEF UndoInv, SrcFound, Before, InParentCopy
<1>11. ent'[b][q] = ent[b][q]
  BY <1>5, <1>8
<1>12. CASE p \in Sub /\ Up[p] = u
  <2>1. NoKids(b, u)
    BY <1>1, <1>2, <1>3, <1>4, NotDir
  <2>2. PICK x \in Br : Lacks(Ents(u), Whs(u), Opqs(u), b, x)
    BY <1>1, <1>2, <1>3
  <2>3. Ents(u)' = WithDir(Ents(u), b)
    <3>1. /\ Ents(u) = [c \in Br |-> ent[c][u]]
          /\ Ents(u)' = [c \in Br |-> IF c = b THEN Dir ELSE ent[c][u]]
      BY <1>2, <1>5 DEF Ents
    <3>. QED BY <3>1 DEF WithDir
  <2>4. Inside(WithDir(Ents(u), b), Whs(u), Opqs(u)) = Inside(Ents(u), Whs(u), Opqs(u)) \cup {b}
    BY <2>2, AddDir
  <2>5. p \notin Top
    BY <1>12, TreeAssumption
  <2>6. Dirs(p)' = Dirs(p) \cup {b}
    BY <1>6, <1>12, <2>3, <2>4, <2>5 DEF Dirs
  <2>7. Ents(p)[b] = NoEnt /\ b \notin Whs(p)
    BY <1>12, <2>1 DEF NoKids, Kids, Whs, HasWh, Ents
  <2>8. FirstIn(Found(Ents(p), Whs(p), Dirs(p) \cup {b}), op.bs)
    BY <1>10, <2>7, JoinFirst
  <2>. QED BY <1>1, <1>3, <1>9, <1>11, <2>6, <2>8
<1>13. CASE ~(p \in Sub /\ Up[p] = u)
  <2>1. p \in Sub => Up[p] \in Path
    BY TreeAssumption DEF Path
  <2>2. p \notin Top => p \in Sub
    BY DEF Path
  <2>3. Dirs(p)' = Dirs(p)
    BY <1>6, <1>7, <1>13, <2>1, <2>2 DEF Dirs
  <2>. QED BY <1>1, <1>3, <1>9, <1>10, <1>11, <1>13, <2>3
<1>. QED BY <1>12, <1>13

(* The steps of the copy-up of a parent directory. *)
LEMMA UndoParent ==
    ASSUME RenInv, UndoInv, op.cp.bad = "idle", CpMake \/ CpFill \/ CpAttr \/ CpUndo
    PROVE  UndoInv'
<1>. USE DEF CpSteps, LateSteps
<1>0. /\ op \in RenOp /\ op.pc \in CpSteps /\ op.pc # "cpfill"
      /\ {"idle", "cpattr", "cpundo"} \subseteq RenSteps /\ op.cp.ok \in RenSteps
      /\ "err" \in Rets /\ Before /\ InParentCopy /\ ~op.tmp.on
      /\ Dir \in Entry /\ NoEnt \in Entry
  <2>1. op \in RenOp /\ op.pc \in CpSteps /\ op.cp.ok \in RenSteps
    BY DEF RenInv, RenType, RenOp, CpType, CpMake, CpFill, CpAttr, CpUndo
  <2>2. op.pc # "cpfill" /\ Before /\ InParentCopy
    BY <2>1 DEF RenInv, ParentCopy, Before, InParentCopy
  <2>3. {"idle", "cpattr", "cpundo"} \subseteq RenSteps /\ "err" \in Rets
    BY DEF RenSteps, EarlySteps, Rets
  <2>4. ~op.tmp.on
    BY <2>2 DEF UndoInv, CallKnown
  <2>. QED BY <2>1, <2>2, <2>3, <2>4 DEF Entry
<1>1. /\ op.pc # "cpundo" => op.ret = "run"
      /\ op.pc = "cpundo" => op.ret = "err"
  BY <1>0 DEF UndoInv, CallKnown
<1>2. op.cp.ok = "mkwh" => \/ ent[op.b][op.q] = NoEnt
                           \/ op.bd = op.b /\ op.q \notin wh[op.b] /\ SameKind(ent[op.b][op.q])
  BY <1>0 DEF UndoInv, TargetFree, ForOld
<1>3. CASE CpMake
  <2>1. op.pc = "cpmake"
    BY <1>3 DEF CpMake
  <2>2. CASE /\ ent[op.b][CpName] = NoEnt
             /\ PutEnt(op.b, CpName, IF CpIsDir THEN Dir ELSE Partial)
             /\ Goto(IF CpIsDir THEN "cpattr" ELSE "cpfill")
             /\ UNCHANGED <<perm, wh, opq, crashes>>
    <3>1. CpIsDir
      BY <2>1, CpIs
    <3>2. PutEnt(op.b, CpName, Dir) /\ To("cpattr", op.ret)
      BY <1>0, <2>2, <3>1, ToBy
    <3>3. /\ op' \in RenOp /\ SameCall /\ op'.pc = "cpattr" /\ op'.ret = "run"
          /\ op'.cp = op.cp /\ op'.tmp = op.tmp
      BY <1>1, <2>1, <3>2 DEF To, GoOn
    <3>4. GoOn({"cpattr"})
      BY <3>2 DEF To
    <3>5. \A r \in Path : Seen(r)' = Seen(r)
      BY <1>0, <2>1, <2>2, <3>2, <3>4, RenPutParent
    <3>6. /\ FirstIn(Found(Ents(op.p)', Whs(op.p)', Dirs(op.p)'), op.bs)
          /\ op.cp.ok = "mkwh" => op.b \in Dirs(op.p)'
          /\ ent'[op.b][op.q] = ent[op.b][op.q]
          /\ op.cp.ok \in {"neg", "mkwh"}
      BY <2>1, <2>2, <3>2, <3>3, SrcParent
    <3>7. SrcFound'
      BY <3>3, <3>6 DEF SrcFound, ForOld, SameCall
    <3>8. Before' /\ InParentCopy'
      BY <3>3 DEF Before, InParentCopy
    <3>9. TargetFree'
      BY <1>2, <2>2, <3>3, <3>6 DEF TargetFree, SameCall, SameKind, ForOld, InEntryCopy, InParentCopy
    <3>10. CallKnown'
      BY <1>0, <3>3, <3>6 DEF CallKnown, InEntryCopy
    <3>11. \A r \in Path : Seen(r)' = op'.before[r]
      BY <1>0, <3>3, <3>5 DEF UndoInv, SeenBefore, SameCall
    <3>. QED BY <3>7, <3>8, <3>9, <3>10, <3>11, UndoLooking
  <2>3. CASE op' = [op EXCEPT !.pc = op.cp.bad, !.ret = "err"] /\ UNCHANGED <<perm, hidden, crashes>>
    BY <1>0, <2>3, ToBy, UndoRefused DEF hidden
  <2>4. CASE FailTo(op.cp.bad)
    <3>1. FailTo("idle")
      BY <2>4
    <3>2. To("idle", "err") /\ UNCHANGED <<perm, ent, wh, opq>>
      BY <1>0, <3>1, ToBy
    <3>. QED BY <1>0, <3>2, UndoRefused
  <2>. QED BY <1>3, <2>2, <2>3, <2>4 DEF CpMake
<1>4. CASE CpAttr
  <2>1. op.pc = "cpattr"
    BY <1>4 DEF CpAttr
  <2>2. CASE Goto(op.cp.ok) /\ UNCHANGED <<perm, hidden, crashes>>
    <3>1. To(op.cp.ok, op.ret) /\ UNCHANGED <<perm, ent, wh, opq>>
      BY <1>0, <2>2, ToBy DEF hidden
    <3>2. op.cp.ok \in {"neg", "mkwh"}
      BY <1>0 DEF RenInv, ParentCopy
    <3>3. /\ op' \in RenOp /\ SameCall /\ op'.pc = op.cp.ok /\ op'.ret = "run" /\ op'.tmp = op.tmp
      BY <1>1, <2>1, <3>1 DEF To, GoOn
    <3>4. op.cp.ok = "mkwh" => op.b \in Dirs(op.p)
      BY <1>0, <2>1 DEF UndoInv, SrcFound, ForOld
    <3>5. Before'
      BY <3>2, <3>3 DEF Before
    <3>6. ~ForOld'
      BY <3>2, <3>3 DEF ForOld, InParentCopy
    <3>. QED BY <1>0, <1>2, <3>1, <3>2, <3>3, <3>4, <3>5, <3>6, UndoOn
  <2>3. CASE FailTo("cpundo")
    <3>1. To("cpundo", "err") /\ UNCHANGED <<perm, ent, wh, opq>>
      BY <1>0, <2>3, ToBy
    <3>2. /\ op' \in RenOp /\ SameCall /\ op'.pc = "cpundo" /\ op'.ret = "err"
          /\ op'.cp = op.cp /\ op'.tmp = op.tmp
      BY <3>1 DEF To, GoOn
    <3>3. Before' /\ (ForOld' => op.cp.ok = "mkwh")
      BY <3>2 DEF Before, InParentCopy, ForOld
    <3>. QED BY <1>0, <1>2, <3>1, <3>2, <3>3, UndoOn
  <2>. QED BY <1>4, <2>2, <2>3 DEF CpAttr
<1>5. CASE CpUndo
  <2>1. op.pc = "cpundo"
    BY <1>5 DEF CpUndo
  <2>2. CASE /\ PutEnt(op.b, CpName, NoEnt)
             /\ Goto(op.cp.bad)
             /\ UNCHANGED <<perm, wh, opq, crashes>>
    <3>1. To("idle", op.ret)
      BY <1>0, <2>2, ToBy
    <3>2. GoOn({"idle"}) /\ op'.pc = "idle" /\ op'.tmp = op.tmp /\ SameCall
      BY <3>1 DEF To, GoOn
    <3>3. \A r \in Path : Seen(r)' = Seen(r)
      BY <1>0, <2>1, <2>2, <3>2, RenPutParent
    <3>4. \A r \in Path : Seen(r)' = op'.before[r]
      BY <1>0, <3>2, <3>3 DEF UndoInv, SeenBefore, SameCall
    <3>. QED BY <3>2, <3>4, UndoEnd DEF SameCall
  <2>3. CASE UndoFailTo(op.cp.bad)
    <3>1. UndoFailTo("idle")
      BY <2>3
    <3>2. To("idle", "eio")
      BY <1>0, <3>1, ToBy
    <3>3. op'.pc = "idle" /\ op'.tmp = op.tmp /\ op'.isdir = op.isdir /\ op'.ret = "eio"
      BY <3>2 DEF To, GoOn, SameCall
    <3>. QED BY <3>3, UndoEnd
  <2>. QED BY <1>5, <2>2, <2>3 DEF CpUndo
<1>. QED BY <1>0, <1>3, <1>4, <1>5 DEF CpFill
LEMMA UndoSame ==
    ASSUME RenInv, UndoInv, UNCHANGED vars PROVE UndoInv'
<1>1. op' = op /\ UNCHANGED <<perm, ent, wh, opq>> /\ op \in RenOp
  BY DEF vars, RenInv, RenType
<1>2. /\ Before' = Before /\ ToUndo' = ToUndo /\ ToDo' = ToDo /\ ForOld' = ForOld
      /\ Undoable' = Undoable /\ InEntryCopy' = InEntryCopy
  BY <1>1 DEF Before, ToUndo, ToDo, ForOld, Undoable, InEntryCopy, InParentCopy
<1>3. SameFields /\ SameStage /\ SameCall /\ (InTmp' <=> InTmp) /\ OthersSame
  BY <1>1 DEF SameFields, SameStage, SameCall, InTmp, Moved, Copying, Marked, OthersSame, RenOp
<1>4. SameOld
  BY <1>1, <1>3, BackOf, OldOf
<1>5. SeenBefore' /\ HadBefore' /\ SrcThere'
  <2>1. \A r \in Path : Seen(r)' = Seen(r)
    BY <1>1, Calm
  <2>2. \A r \in Path : HadSeen(r)' = HadSeen(r)
    BY <1>3, <1>4, HadKept
  <2>3. SrcHad => SrcHad'
    BY <1>1, <1>3, <1>4, SrcHadKept
  <2>. QED BY <1>1, <1>2, <2>1, <2>2, <2>3 DEF UndoInv, SeenBefore, HadBefore, SrcThere
<1>6. SrcFound'
  <2>1. PICK p \in Path : p = op.p /\ p = op'.p
    BY <1>1 DEF RenOp
  <2>2. Ents(p)' = Ents(p) /\ Whs(p)' = Whs(p) /\ Dirs(p)' = Dirs(p)
    BY <1>1, Calm
  <2>3. Ents(op.p)' = Ents(p)' /\ Whs(op.p)' = Whs(p)' /\ Dirs(op.p)' = Dirs(p)'
    BY <2>1 DEF Ents, Whs, Dirs
  <2>. QED BY <1>1, <1>2, <2>1, <2>2, <2>3 DEF UndoInv, SrcFound
<1>7. TargetFree'
  BY <1>1, <1>2 DEF UndoInv, TargetFree, SameKind
<1>8. CallKnown'
  BY <1>1, <1>2 DEF UndoInv, CallKnown
<1>. QED BY <1>5, <1>6, <1>7, <1>8 DEF UndoInv

LEMMA UndoNext ==
    RenInv /\ AllWhable /\ UndoInv /\ [RenameNext]_vars => UndoInv'
<1>. SUFFICES ASSUME RenInv, AllWhable, UndoInv, [RenameNext]_vars PROVE UndoInv'
  OBVIOUS
<1>1. CASE UNCHANGED vars
  BY <1>1, UndoSame
<1>2. CASE \E s, t \in Path : BeginRename(s, t)
  BY <1>2, UndoBegin
<1>3. CASE NegTarget \/ CheckDirs
  BY <1>3, UndoCheck
<1>4. CASE CpMake \/ CpFill \/ CpAttr \/ CpUndo
  BY <1>4, UndoParent, UndoEntry
<1>5. CASE WhSrc \/ WhDst \/ Prepare
  BY <1>5, UndoWhSrc, UndoLook, UndoPrepare
<1>6. CASE PutAside \/ AsideNeg \/ UnTmp
  BY <1>6, UndoAside, UndoUnTmp
<1>7. CASE Move \/ UnMove
  BY <1>7, UndoMove
<1>8. CASE Opaque \/ Done \/ UnOpaque \/ UnWhSrc
  BY <1>8, UndoMarks
<1>9. CASE Crash
  <2>1. op \in RenOp /\ "crash" \in Rets /\ "idle" \in RenSteps
    BY DEF RenInv, RenType, Rets, RenSteps
  <2>2. To("idle", "crash")
    BY <1>9, <2>1, ToBy DEF Crash
  <2>3. op'.pc = "idle" /\ op'.tmp = op.tmp /\ op'.isdir = op.isdir /\ op'.ret = "crash"
    BY <2>2 DEF To, GoOn, SameCall
  <2>. QED BY <2>3, UndoEnd
<1>. QED BY <1>1, <1>2, <1>3, <1>4, <1>5, <1>6, <1>7, <1>8, <1>9 DEF RenameNext

(* A rename that returns an error other than EIO has changed nothing of     *)
(* what the union shows, whichever hidden call failed and whatever had been *)
(* done before it: the parent copied up, the whiteout of the old name, the  *)
(* directory put aside, the copy under the new name, the rename itself, the *)
(* opaque mark.  It needs that no branch is rw+nolwh: there a whiteout is   *)
(* removed that lookup never honoured, and when that fails after a file was *)
(* replaced, renaming back does not bring the file back.                    *)
THEOREM UndoneSafe ==
    ASSUME \A f \in PermChoices, b \in Br : f[b] # "rw+nolwh"
    PROVE  RenameSpec => []RenameUndone
<1>1. RenameInit => AllWhable /\ TargetInv
  BY DEF RenameInit, BranchInit, NoCall, AllWhable, TargetInv, Replaces
<1>2. RenameInit => UndoInv
  <2>. SUFFICES ASSUME RenameInit PROVE UndoInv
    OBVIOUS
  <2>1. op.pc = "idle" /\ op.ret = "ok" /\ ~op.tmp.on
    BY DEF RenameInit, NoCall, NoTmp
  <2>2. ~Before /\ ~ToUndo /\ ~ToDo /\ ~InEntryCopy /\ ~ForOld
    BY <2>1 DEF Before, ToUndo, ToDo, InEntryCopy, InParentCopy, ForOld, CpSteps, LateSteps
  <2>3. TargetFree /\ SrcFound /\ CallKnown
    BY <2>1, <2>2 DEF TargetFree, SrcFound, CallKnown
  <2>. QED BY <2>1, <2>2, <2>3 DEF UndoInv, SeenBefore, HadBefore, SrcThere
<1>3. RenInv /\ UndoInv => RenameUndone
  <2>. SUFFICES ASSUME RenInv, UndoInv, op.pc = "idle", op.ret = "err" PROVE View = op.before
    BY DEF RenameUndone
  <2>1. \A r \in Path : View[r] = op.before[r]
    BY ViewIs DEF UndoInv, SeenBefore
  <2>2. op.before \in [Path -> Entry]
    BY DEF RenInv, RenType, RenOp
  <2>3. View = [r \in Path |-> View[r]]
    BY DEF View
  <2>. HIDE DEF View
  <2>. QED BY <2>1, <2>2, <2>3
<1>4. RenameInit => RenInv
  BY RenInit
<1>5. RenInv /\ [RenameNext]_vars => RenInv'
  BY RenNext
<1>. QED BY <1>1, <1>2, <1>3, <1>4, <1>5, TargetNext, UndoNext, PTL DEF RenameSpec
=============================================================================
