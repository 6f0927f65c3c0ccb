------------------------- MODULE BranchTableProofs -------------------------
(***************************************************************************)
(* The invariants of BranchTable, for any roots, open files, permissions,  *)
(* sizes of the table and of the id counter.                               *)
(***************************************************************************)
EXTENDS BranchTable, NatLemmas, FiniteSetTheorems, TLAPS

(* FreshIndexRight also between the options of a remount, as long as none  *)
(* of them has moved a branch.                                             *)
IndexClean ==
    /\ ~rem.on => ~rem.dirty
    /\ ~rem.dirty => \A f \in File : file[f].br # None /\ file[f].fresh
                                         => file[f].bs = idx[file[f].br]

IInv == /\ TypeOK /\ TableIsArray /\ UniqueIds /\ NoUseAfterFree
        /\ CountExact /\ BaseFitsPerm /\ IndexClean

BranchType == [perm : BrPerm, id : 0 .. IdMod - 1, count : Nat, wh : BOOLEAN,
               plink : BOOLEAN, running : {0, 1}]
FileType   == [br : Root \cup {None}, bs : 0 .. MaxBr - 1, want : BOOLEAN,
               w : BOOLEAN, fresh : BOOLEAN]
RemType    == [on : BOOLEAN, opts : 0 .. MaxOpts, dirty : BOOLEAN]

-----------------------------------------------------------------------------
(* new_br_id. *)

(* The table is never so full that no id is left. *)
LEMMA IdLeft ==
    ASSUME TypeOK, TableIsArray, UniqueIds, bend < MaxBr - 1
    PROVE  \E id \in 1 .. IdMod - 1 : id \notin UsedIds
<1>. USE BoundAssumption
<1>. SUFFICES ASSUME \A id \in 1 .. IdMod - 1 : id \in UsedIds PROVE FALSE
  OBVIOUS
<1>. DEFINE Ids == 1 .. IdMod - 1
            Of(id) == CHOOSE r \in Mounted : br[r].id = id
            slot == [id \in Ids |-> idx[Of(id)]]
<1>1. \A id \in Ids : Of(id) \in Mounted /\ br[Of(id)].id = id
  BY DEF UsedIds
<1>. HIDE DEF Of
<1>2. slot \in [Ids -> 0 .. bend]
  BY <1>1 DEF TableIsArray, Mounted, TypeOK
<1>3. bend \in Int /\ bend >= -1
  BY DEF TypeOK
<1>4. /\ IsFiniteSet(Ids) /\ Cardinality(Ids) = IdMod - 1
      /\ IsFiniteSet(0 .. bend) /\ Cardinality(0 .. bend) = bend + 1
  <2>1. IdMod - 1 \in Int /\ ~(1 > IdMod - 1)
    OBVIOUS
  <2>2. IsFiniteSet(Ids) /\ Cardinality(Ids) = IdMod - 1
    BY <2>1, FS_Interval
  <2>3. IsFiniteSet(0 .. bend) /\ Cardinality(0 .. bend) = bend + 1
    BY <1>3, FS_Interval
  <2>. QED BY <2>2, <2>3
<1>5. Cardinality(0 .. bend) < Cardinality(Ids)
  BY <1>3, <1>4
<1>. DEFINE Slots == 0 .. bend
<1>. HIDE DEF slot, Ids, Slots
<1>6. \E x, y \in Ids : x # y /\ slot[x] = slot[y]
  <2>1. slot \in [Ids -> Slots]
    BY <1>2 DEF Slots
  <2>2. IsFiniteSet(Ids)
    BY <1>4
  <2>3. IsFiniteSet(Slots)
    BY <1>4 DEF Slots
  <2>4. Cardinality(Slots) < Cardinality(Ids)
    BY <1>5 DEF Slots
  <2>. QED BY ONLY <2>1, <2>2, <2>3, <2>4, FS_PigeonHole
<1>7. PICK x, y \in Ids : x # y /\ slot[x] = slot[y]
  BY <1>6
<1>8. idx[Of(x)] = idx[Of(y)]
  BY <1>7 DEF slot
<1>9. Of(x) = Of(y)
  BY <1>1, <1>8 DEF TableIsArray
<1>. QED BY <1>1, <1>7, <1>9

(* The search of new_br_id ends at an id that no branch has. *)
LEMMA NewBrIdFree ==
    ASSUME TypeOK, TableIsArray, UniqueIds, bend < MaxBr - 1
    PROVE  NewBrId \in 0 .. IdMod - 1 /\ FreeId(NewBrId)
<1>. USE BoundAssumption
<1>0. lastId \in 0 .. IdMod - 1
  BY DEF TypeOK
<1>. DEFINE Id(k) == (lastId + k) % IdMod
            K == {k \in 1 .. IdMod : FreeId(Id(k))}
<1>1. PICK c \in 1 .. IdMod - 1 : c \notin UsedIds
  BY IdLeft
<1>2. PICK k \in 1 .. IdMod : Id(k) = c
  <2>1. IdMod \in Nat /\ IdMod > 0 /\ c \in 0 .. IdMod - 1
    OBVIOUS
  <2>. QED BY <1>0, <2>1, ModReach
<1>3. K \in SUBSET Nat /\ K # {}
  BY <1>1, <1>2 DEF FreeId
<1>4. PICK m \in K : \A n \in K : m <= n
  BY <1>3, LeastNat
<1>5. /\ m \in 1 .. IdMod /\ FreeId(Id(m))
      /\ \A j \in 1 .. m - 1 : ~FreeId(Id(j))
  BY <1>4
<1>6. PICK d \in 1 .. IdMod : NewBrId = Id(d) /\ FreeId(Id(d))
  BY <1>5 DEF NewBrId
<1>7. Id(d) \in 0 .. IdMod - 1
  BY <1>0, <1>6
<1>. QED BY <1>6, <1>7

-----------------------------------------------------------------------------
(* Open files. *)

Holders(r) == {f \in File : file[f].br = r}

(* br_get and br_put keep the counts when the hidden file of f moves. *)
LEMMA MovedCounts ==
    ASSUME TypeOK, NoUseAfterFree, CountExact,
           NEW f \in File, NEW x \in FileType, x.br \in Mounted \cup {None},
           file' = [file EXCEPT ![f] = x], br' = Moved(br, file[f].br, x.br),
           reinit' = reinit, idx' = idx
    PROVE  CountExact' /\ br' \in [Root -> BranchType]
<1>. USE RootAssumption
<1>. DEFINE Was(r) == IF file[f].br = r THEN 1 ELSE 0
            Is(r)  == IF x.br = r THEN 1 ELSE 0
            Job(r) == IF reinit[r] = "none" THEN 0 ELSE 1
<1>1. br \in [Root -> BranchType] /\ file \in [File -> FileType]
  BY DEF TypeOK, BranchType, FileType
<1>2. \A r \in Root : IsFiniteSet(Holders(r)) /\ Cardinality(Holders(r)) \in Nat
  <2>. TAKE r \in Root
  <2>1. Holders(r) \in SUBSET File
    BY DEF Holders
  <2>2. IsFiniteSet(Holders(r))
    BY <2>1, FS_Subset
  <2>. QED BY <2>2, FS_CardinalityType
<1>3. \A r \in Root :
        Cardinality(Holders(r)') = Cardinality(Holders(r)) + Is(r) - Was(r)
  <2>. TAKE r \in Root
  <2>. DEFINE H == Holders(r)
  <2>0. H' = {g \in File : (IF g = f THEN x ELSE file[g]).br = r}
    BY <1>1 DEF Holders
  <2>1. (f \in H <=> file[f].br = r) /\ IsFiniteSet(H) /\ Cardinality(H) \in Nat
    BY <1>2 DEF Holders
  <2>2. CASE x.br = r
    <3>1. H' = H \cup {f}
      BY <2>0, <2>2 DEF Holders
    <3>. HIDE DEF H
    <3>2. Cardinality(H \cup {f}) = IF f \in H THEN Cardinality(H) ELSE Cardinality(H) + 1
      BY <2>1, FS_AddElement
    <3>. QED BY <2>1, <2>2, <3>1, <3>2 DEF H
  <2>3. CASE x.br # r
    <3>1. H' = H \ {f}
      BY <2>0, <2>3 DEF Holders
    <3>. HIDE DEF H
    <3>2. Cardinality(H \ {f}) = IF f \in H THEN Cardinality(H) - 1 ELSE Cardinality(H)
      BY <2>1, FS_RemoveElement
    <3>. QED BY <2>1, <2>3, <3>1, <3>2 DEF H
  <2>. QED BY <2>2, <2>3
<1>4. \A r \in Root : br'[r] = [br[r] EXCEPT !.count = @ + Is(r) - Was(r)]
  BY <1>1 DEF Moved
<1>5. \A r \in Root : /\ br'[r].running = br[r].running
                      /\ br'[r].count = br[r].count + Is(r) - Was(r)
                      /\ br[r].count \in Nat
  <2>. HIDE DEF Is, Was
  <2>. QED BY <1>1, <1>4 DEF BranchType
<1>6. \A r \in Root : Is(r) \in {0, 1} /\ Was(r) \in {0, 1} /\ Job(r) \in {0, 1}
  OBVIOUS
<1>7. \A r \in Mounted : /\ r \in Root
                         /\ br[r].count = Cardinality(Holders(r)) + Job(r)
                         /\ br[r].running = 1 <=> reinit[r] # "none"
  BY DEF CountExact, Holders, Mounted
<1>8. ASSUME NEW r \in Mounted PROVE br'[r].count = Cardinality(Holders(r)') + Job(r)
  <2>. HIDE DEF Is, Was, Job
  <2>. QED BY <1>2, <1>3, <1>5, <1>6, <1>7
<1>9. CountExact'
  <2>1. Mounted' = Mounted
    BY DEF Mounted
  <2>2. SUFFICES ASSUME NEW r \in Mounted
                 PROVE  /\ br'[r].count = Cardinality(Holders(r)') + Job(r)
                        /\ br'[r].running = 1 <=> reinit[r] # "none"
    BY <2>1 DEF CountExact, Holders
  <2>. QED BY <1>5, <1>7, <1>8
<1>10. ASSUME NEW r \in Root PROVE br'[r].count \in Nat
  <2>. HIDE DEF Is, Was, Job
  <2>1. CASE r \in Mounted
    <3>1. Cardinality(Holders(r)') = 0 \/ Cardinality(Holders(r)') \in Nat
      <4>1. Holders(r)' \in SUBSET File
        BY DEF Holders
      <4>2. IsFiniteSet(Holders(r)')
        BY <4>1, FS_Subset
      <4>. QED BY <4>2, FS_CardinalityType
    <3>. QED BY <2>1, <3>1, <1>6, <1>7, <1>8
  <2>2. CASE r \notin Mounted
    <3>1. Is(r) = 0 /\ Was(r) = 0
      BY <2>2 DEF NoUseAfterFree, Is, Was
    <3>. QED BY <3>1, <1>5
  <2>. QED BY <2>1, <2>2
<1>11. \A r \in Root : br'[r] \in BranchType
  <2>. HIDE DEF Is, Was, Job
  <2>. QED BY <1>1, <1>4, <1>5, <1>10 DEF BranchType
<1>. QED BY <1>9, <1>11, <1>1 DEF Moved

(* A file step that moves one hidden file keeps the invariant. *)
LEMMA MovedInv ==
    ASSUME IInv, NEW f \in File, NEW x \in FileType, x.br \in Mounted \cup {None},
           x.br # None /\ x.fresh => x.bs = idx[x.br],
           file' = [file EXCEPT ![f] = x], br' = Moved(br, file[f].br, x.br),
           UNCHANGED <<table, reinit, later, rem>>, Quiet
    PROVE  IInv'
<1>. USE RootAssumption
<1>0. /\ TypeOK /\ TableIsArray /\ UniqueIds /\ NoUseAfterFree
      /\ CountExact /\ BaseFitsPerm /\ IndexClean
      /\ idx' = idx /\ bend' = bend /\ lastId' = lastId /\ plink' = plink
      /\ reinit' = reinit /\ later' = later /\ rem' = rem
      /\ wrote' = None /\ oops' = oops
  BY DEF IInv, table, Quiet
<1>1. CountExact' /\ br' \in [Root -> BranchType]
  BY <1>0, MovedCounts
<1>2. file \in [File -> FileType] /\ br \in [Root -> BranchType]
  BY <1>0 DEF TypeOK, FileType, BranchType
<1>3. file' \in [File -> FileType] /\ \A g \in File : file'[g] = IF g = f THEN x ELSE file[g]
  BY <1>2
<1>4. Mounted' = Mounted
  BY <1>0 DEF Mounted
<1>5. \A r \in Root : /\ br'[r].perm = br[r].perm /\ br'[r].id = br[r].id
                      /\ br'[r].wh = br[r].wh /\ br'[r].plink = br[r].plink
  BY <1>2 DEF Moved, BranchType
<1>6. TypeOK'
  BY <1>0, <1>1, <1>3 DEF TypeOK, BranchType, FileType
<1>7. TableIsArray'
  BY <1>0, <1>4 DEF TableIsArray
<1>8. UniqueIds'
  BY <1>0, <1>4, <1>5 DEF UniqueIds, Mounted
<1>9. NoUseAfterFree'
  BY <1>0, <1>3, <1>4 DEF NoUseAfterFree
<1>10. BaseFitsPerm'
  BY <1>0, <1>4, <1>5 DEF BaseFitsPerm, Mounted
<1>11. IndexClean'
  BY <1>0, <1>3 DEF IndexClean
<1>. QED BY <1>1, <1>6, <1>7, <1>8, <1>9, <1>10, <1>11 DEF IInv

(* au_do_open, au_fin_finfo, refresh_file and au_ready_to_write. *)
LEMMA FileStep ==
    ASSUME IInv, NEW f \in File,
           \/ \E r \in Root, w \in BOOLEAN : Open(f, r, w)
           \/ Close(f) \/ Refresh(f) \/ ReadyToWrite(f)
    PROVE  IInv'
<1>. USE RootAssumption, BoundAssumption
<1>1. /\ idx \in [Root -> -1 .. MaxBr - 1] /\ br \in [Root -> BranchType]
      /\ file \in [File -> FileType] /\ file[f] \in FileType
      /\ file[f].br # None => file[f].br \in Mounted
  BY DEF IInv, TypeOK, BranchType, FileType, NoUseAfterFree
<1>2. \A r \in Mounted : r \in Root /\ idx[r] \in 0 .. MaxBr - 1 /\ r # None
  BY <1>1 DEF Mounted
<1>3. Closed \in FileType /\ Closed.br = None
  BY DEF Closed, FileType
<1>4. ASSUME NEW r \in Root, NEW w \in BOOLEAN, Open(f, r, w) PROVE IInv'
  <2>. DEFINE x == [br |-> r, bs |-> idx[r], want |-> w,
                    w |-> w /\ Writable(br[r].perm), fresh |-> TRUE]
  <2>1. /\ file' = [file EXCEPT ![f] = x] /\ br' = Moved(br, file[f].br, r)
        /\ UNCHANGED <<table, reinit, later, rem>> /\ Quiet /\ r \in Mounted
    BY <1>4 DEF Open, Running
  <2>2. x \in FileType /\ x.br = r /\ x.bs = idx[r]
    BY <1>1, <1>2, <2>1 DEF FileType
  <2>. HIDE DEF x
  <2>. QED BY <2>1, <2>2, MovedInv
<1>5. CASE Close(f)
  <2>1. /\ file' = [file EXCEPT ![f] = Closed] /\ br' = Moved(br, file[f].br, Closed.br)
        /\ UNCHANGED <<table, reinit, later, rem>> /\ Quiet
    BY <1>3, <1>5 DEF Close, Running
  <2>. QED BY <2>1, <1>3, MovedInv
<1>6. CASE Refresh(f)
  <2>. DEFINE New(s, w) == [br |-> s, bs |-> idx[s], want |-> file[f].want, w |-> w,
                            fresh |-> TRUE]
  <2>1. /\ UNCHANGED <<table, reinit, later, rem>> /\ Quiet /\ file[f].br # None
    BY <1>6 DEF Refresh, Running
  <2>2. \A s \in Mounted, w \in BOOLEAN :
            New(s, w) \in FileType /\ New(s, w).br = s /\ New(s, w).bs = idx[s]
    BY <1>1, <1>2 DEF FileType
  <2>3. CASE file' = [file EXCEPT ![f] = New(file[f].br, file[f].w)] /\ br' = br
    <3>1. br' = Moved(br, file[f].br, file[f].br)
      <4>1. \A q \in Root : br[q] = [br[q] EXCEPT !.count = @ + 0 - 0]
        BY <1>1 DEF BranchType
      <4>2. \A q \in Root : br[q] = [br[q] EXCEPT !.count = @ + 1 - 1]
        BY <1>1 DEF BranchType
      <4>. QED BY <1>1, <2>3, <4>1, <4>2 DEF Moved
    <3>2. file[f].br \in Mounted /\ file[f].w \in BOOLEAN
      BY <1>1, <2>1 DEF FileType
    <3>. DEFINE x == New(file[f].br, file[f].w)
    <3>3. /\ x \in FileType /\ x.br = file[f].br /\ x.bs = idx[file[f].br]
          /\ file' = [file EXCEPT ![f] = x]
      BY <2>2, <2>3, <3>2
    <3>. HIDE DEF x, New
    <3>. QED BY <2>1, <3>1, <3>2, <3>3, MovedInv
  <2>4. ASSUME NEW s \in Mounted, NEW w \in BOOLEAN,
               file' = [file EXCEPT ![f] = New(s, w)], br' = Moved(br, file[f].br, s)
        PROVE  IInv'
    <3>. DEFINE x == New(s, w)
    <3>1. /\ x \in FileType /\ x.br = s /\ x.bs = idx[s]
          /\ file' = [file EXCEPT ![f] = x]
      BY <2>2, <2>4
    <3>. HIDE DEF x, New
    <3>. QED BY <2>1, <2>4, <3>1, MovedInv
  <2>5. CASE file' = [file EXCEPT ![f] = Closed] /\ br' = Moved(br, file[f].br, None)
    BY <2>1, <2>5, <1>3, MovedInv
  <2>6. \/ file' = [file EXCEPT ![f] = New(file[f].br, file[f].w)] /\ br' = br
        \/ \E s \in Mounted, w \in BOOLEAN :
               /\ file' = [file EXCEPT ![f] = New(s, w)]
               /\ br' = Moved(br, file[f].br, s)
        \/ file' = [file EXCEPT ![f] = Closed] /\ br' = Moved(br, file[f].br, None)
    <3>1. ASSUME NEW s \in Mounted
          PROVE  (IF s = file[f].br /\ file[f].w = file[f].want THEN file[f].w
                  ELSE file[f].want /\ Writable(br[s].perm)) \in BOOLEAN
      BY <1>1 DEF FileType
    <3>. QED BY <1>1, <1>6, <3>1 DEF Refresh
  <2>. QED BY <2>3, <2>4, <2>5, <2>6
<1>7. CASE ReadyToWrite(f)
  <2>1. PICK s \in Mounted :
            /\ file' = [file EXCEPT ![f].br = s, ![f].bs = idx[s], ![f].w = TRUE]
            /\ br' = Moved(br, file[f].br, s)
    BY <1>7 DEF ReadyToWrite
  <2>. DEFINE x == [file[f] EXCEPT !.br = s, !.bs = idx[s], !.w = TRUE]
  <2>2. x \in FileType /\ x.br = s /\ x.bs = idx[s]
    BY <1>1, <1>2 DEF FileType
  <2>3. file' = [file EXCEPT ![f] = x]
    BY <1>1, <2>1
  <2>4. UNCHANGED <<table, reinit, later, rem>> /\ Quiet
    BY <1>7 DEF ReadyToWrite, Running
  <2>. HIDE DEF x
  <2>. QED BY <2>1, <2>2, <2>3, <2>4, MovedInv
<1>. QED BY <1>4, <1>5, <1>6, <1>7

-----------------------------------------------------------------------------
(* Steps that leave every branch in its slot and every user on its branch. *)

LEMMA SameUsers ==
    ASSUME IInv, TypeOK', BaseFitsPerm', idx' = idx, bend' = bend,
           \A r \in Root : /\ br'[r].id = br[r].id /\ br'[r].count = br[r].count
                           /\ br'[r].running = br[r].running
                           /\ reinit'[r] = "none" <=> reinit[r] = "none",
           \A f \in File : /\ file'[f].br = file[f].br /\ file'[f].bs = file[f].bs
                           /\ file'[f].fresh => file[f].fresh /\ (~rem'.dirty => ~rem.dirty),
           ~rem'.on => ~rem'.dirty
    PROVE  IInv'
<1>1. Mounted' = Mounted
  BY DEF Mounted
<1>2. \A r \in Mounted : r \in Root
  BY DEF Mounted
<1>3. TableIsArray'
  BY <1>1 DEF IInv, TableIsArray
<1>4. UniqueIds'
  BY <1>1, <1>2 DEF IInv, UniqueIds
<1>5. NoUseAfterFree'
  BY <1>1 DEF IInv, NoUseAfterFree
<1>6. CountExact'
  <2>1. \A r \in Root : Holders(r)' = Holders(r)
    BY DEF Holders
  <2>2. \A r \in Mounted :
            /\ br[r].count = Cardinality(Holders(r)) + (IF reinit[r] = "none" THEN 0 ELSE 1)
            /\ br[r].running = 1 <=> reinit[r] # "none"
    BY DEF IInv, CountExact, Holders
  <2>3. \A r \in Mounted :
            /\ br'[r].count = Cardinality(Holders(r)')
                              + (IF reinit'[r] = "none" THEN 0 ELSE 1)
            /\ br'[r].running = 1 <=> reinit'[r] # "none"
    BY <1>2, <2>1, <2>2
  <2>. QED BY <1>1, <2>3 DEF CountExact, Holders
<1>7. IndexClean'
  BY DEF IInv, IndexClean
<1>. QED BY <1>3, <1>4, <1>5, <1>6, <1>7 DEF IInv

(* The base files that init_wh leaves fit the permission of the branch. *)
LEMMA InitWhFits ==
    ASSUME NEW b \in BranchType, NEW p \in BrPerm, NEW ok \in BOOLEAN, plink \in BOOLEAN
    PROVE  /\ WithWh(b, InitWh(p, ok)) \in BranchType
           /\ WithWh(b, InitWh(p, ok)).perm = b.perm
           /\ WithWh(b, InitWh(p, ok)).id = b.id
           /\ WithWh(b, InitWh(p, ok)).count = b.count
           /\ WithWh(b, InitWh(p, ok)).running = b.running
           /\ WithWh(b, InitWh(p, ok)).wh => p = "rw"
           /\ WithWh(b, InitWh(p, ok)).plink => Writable(p)
<1>1. InitWh(p, ok).wh \in BOOLEAN /\ InitWh(p, ok).plink \in BOOLEAN
  BY DEF InitWh
<1>2. (InitWh(p, ok).wh => p = "rw") /\ (InitWh(p, ok).plink => Writable(p))
  BY DEF InitWh
<1>. QED BY <1>1, <1>2 DEF WithWh, BranchType

(* An option that succeeds never hides what an earlier one moved. *)
LEMMA OptDoneDirty ==
    ASSUME rem \in RemType, rem.opts < MaxOpts, NEW d \in BOOLEAN, OptDone(d)
    PROVE  rem' \in RemType /\ rem'.on = rem.on /\ (rem'.dirty <=> rem.dirty \/ d)
<1>. USE BoundAssumption
<1>. DEFINE v == rem.dirty \/ d
<1>1. v \in BOOLEAN /\ rem' = [rem EXCEPT !.opts = @ + 1, !.dirty = v]
  BY DEF OptDone
<1>. HIDE DEF v
<1>2. rem.opts + 1 \in 0 .. MaxOpts
  BY DEF RemType
<1>3. rem' \in RemType /\ rem'.on = rem.on /\ rem'.dirty = v
  BY <1>1, <1>2 DEF RemType
<1>. QED BY <1>3 DEF v

(* The options of a remount that move no branch, and its two ends. *)
LEMMA RemountStep ==
    ASSUME IInv,
           \/ BeginRemount
           \/ \E r \in Root, p \in Perms : BrMod(r, p)
           \/ \E v \in Plinks : SetPlink(v)
           \/ EndRemount
    PROVE  IInv'
<1>. USE RootAssumption, BoundAssumption, PermAssumption
<1>0. /\ TypeOK /\ BaseFitsPerm /\ IndexClean
      /\ br \in [Root -> BranchType] /\ file \in [File -> FileType] /\ plink \in BOOLEAN
      /\ rem \in RemType
  BY DEF IInv, TypeOK, BranchType, FileType, RemType
<1>1. CASE BeginRemount
  <2>1. /\ UNCHANGED <<idx, bend, lastId, plink, br, file, reinit, later, oops>>
        /\ rem' = [on |-> TRUE, opts |-> 0, dirty |-> FALSE] /\ wrote' = None /\ ~rem.dirty
    BY <1>0, <1>1 DEF BeginRemount, Quiet, table, users, NoRem, IndexClean
  <2>2. TypeOK'
    BY <1>0, <2>1 DEF TypeOK
  <2>3. BaseFitsPerm'
    BY <1>0, <2>1 DEF BaseFitsPerm, Mounted
  <2>. QED BY <2>1, <2>2, <2>3, SameUsers
<1>2. ASSUME NEW r \in Root, NEW p \in Perms, BrMod(r, p) PROVE IInv'
  <2>. DEFINE b == IF Writable(br[r].perm) THEN WithWh(br[r], InitWh("ro", TRUE)) ELSE br[r]
              n == [b EXCEPT !.perm = p]
  <2>1. /\ UNCHANGED <<idx, bend, lastId, plink, reinit, later, oops>>
        /\ br' = [br EXCEPT ![r] = n] /\ wrote' = None /\ r \in Mounted
        /\ rem.on /\ rem.opts < MaxOpts
        /\ OptDone(Whable(br[r].perm) # Whable(p))
    BY <1>0, <1>2 DEF BrMod, Option, Quiet, table
  <2>2. \A f \in File : file'[f] \in FileType /\ file'[f].br = file[f].br
                          /\ file'[f].bs = file[f].bs /\ file'[f].fresh = file[f].fresh
    BY <1>0, <1>2 DEF BrMod, FileType
  <2>3. file' \in [File -> FileType]
    BY <1>2, <2>2 DEF BrMod
  <2>4. rem' \in RemType /\ rem'.on /\ (~rem'.dirty => ~rem.dirty)
    BY <1>0, <2>1, OptDoneDirty
  <2>5. /\ b \in BranchType /\ ~b.wh /\ ~b.plink /\ b.id = br[r].id
        /\ b.count = br[r].count /\ b.running = br[r].running
    <3>1. CASE Writable(br[r].perm)
      <4>1. "ro" \in BrPerm /\ br[r] \in BranchType /\ ~Writable("ro")
        BY <1>0 DEF BrPerm, Writable
      <4>. QED BY <1>0, <3>1, <4>1, InitWhFits
    <3>2. CASE ~Writable(br[r].perm)
      BY <1>0, <2>1, <3>2 DEF BaseFitsPerm, Writable
    <3>. QED BY <3>1, <3>2
  <2>. HIDE DEF b
  <2>6. /\ n \in BranchType /\ ~n.wh /\ ~n.plink /\ n.id = br[r].id
        /\ n.count = br[r].count /\ n.running = br[r].running
    BY <2>5 DEF BranchType
  <2>. HIDE DEF n
  <2>7. br' \in [Root -> BranchType] /\ \A q \in Root : br'[q] = IF q = r THEN n ELSE br[q]
    BY <1>0, <2>1, <2>6
  <2>8. TypeOK'
    BY <1>0, <2>1, <2>3, <2>4, <2>7 DEF TypeOK, BranchType, FileType, RemType
  <2>9. BaseFitsPerm'
    BY <1>0, <2>1, <2>6, <2>7 DEF BaseFitsPerm, Mounted
  <2>10. \A q \in Root : /\ br'[q].id = br[q].id /\ br'[q].count = br[q].count
                         /\ br'[q].running = br[q].running
                         /\ reinit'[q] = "none" <=> reinit[q] = "none"
    BY <2>1, <2>6, <2>7
  <2>. QED BY <2>1, <2>2, <2>4, <2>8, <2>9, <2>10, SameUsers
<1>3. ASSUME NEW v \in Plinks, SetPlink(v) PROVE IInv'
  <2>1. /\ UNCHANGED <<idx, bend, lastId, br, file, reinit, later, oops>>
        /\ plink' = v /\ wrote' = None /\ rem.on /\ rem.opts < MaxOpts /\ OptDone(FALSE)
    BY <1>3 DEF SetPlink, Option, Quiet, users
  <2>2. rem' \in RemType /\ rem'.on /\ (~rem'.dirty => ~rem.dirty)
    BY <1>0, <2>1, OptDoneDirty
  <2>3. TypeOK'
    BY <1>0, <2>1, <2>2 DEF TypeOK, RemType
  <2>4. BaseFitsPerm'
    BY <1>0, <2>1 DEF BaseFitsPerm, Mounted
  <2>. QED BY <2>1, <2>2, <2>3, <2>4, SameUsers
<1>4. CASE EndRemount
  <2>1. /\ UNCHANGED <<idx, bend, lastId, plink, reinit, later, oops>>
        /\ rem' = [on |-> FALSE, opts |-> 0, dirty |-> FALSE] /\ wrote' = None
    BY <1>4 DEF EndRemount, Quiet, table, NoRem
  <2>2. \A f \in File : /\ file'[f] \in FileType /\ file'[f].br = file[f].br
                        /\ file'[f].bs = file[f].bs
                        /\ file'[f].fresh => file[f].fresh /\ ~rem.dirty
    <3>. TAKE f \in File
    <3>. DEFINE v == file[f].fresh /\ ~(rem.dirty \/ Xino)
    <3>1. v \in BOOLEAN /\ file'[f] = [file[f] EXCEPT !.fresh = v] /\ file[f] \in FileType
      BY <1>0, <1>4 DEF EndRemount
    <3>2. v => file[f].fresh /\ ~rem.dirty
      OBVIOUS
    <3>. HIDE DEF v
    <3>3. /\ file'[f] \in FileType /\ file'[f].br = file[f].br
          /\ file'[f].bs = file[f].bs /\ file'[f].fresh = v
      BY <3>1 DEF FileType
    <3>. QED BY <3>2, <3>3
  <2>3. file' \in [File -> FileType]
    BY <1>4, <2>2 DEF EndRemount
  <2>4. PICK k \in 0 .. bend + 1, atLookup \in BOOLEAN :
            br' = [q \in Root |-> Verified(q, k, atLookup)]
    BY <1>4 DEF EndRemount
  <2>5. ASSUME NEW q \in Root
        PROVE  \/ br'[q] = br[q]
               \/ /\ br'[q] \in BranchType
                  /\ br'[q].id = br[q].id /\ br'[q].count = br[q].count
                  /\ br'[q].running = br[q].running
                  /\ br'[q].wh => br'[q].perm = "rw"
                  /\ br'[q].plink => Writable(br'[q].perm)
    <3>1. br'[q] = br[q] \/ br'[q] = WithWh(br[q], InitWh(br[q].perm, idx[q] < k))
      BY <2>4, Zenon DEF Verified
    <3>2. br[q] \in BranchType /\ br[q].perm \in BrPerm /\ (idx[q] < k) \in BOOLEAN
      BY <1>0 DEF BranchType
    <3>3. CASE br'[q] = WithWh(br[q], InitWh(br[q].perm, idx[q] < k))
      <4>. DEFINE ok == idx[q] < k
      <4>1. ok \in BOOLEAN
        BY <3>2
      <4>. HIDE DEF ok
      <4>2. /\ WithWh(br[q], InitWh(br[q].perm, ok)) \in BranchType
            /\ WithWh(br[q], InitWh(br[q].perm, ok)).perm = br[q].perm
            /\ WithWh(br[q], InitWh(br[q].perm, ok)).id = br[q].id
            /\ WithWh(br[q], InitWh(br[q].perm, ok)).count = br[q].count
            /\ WithWh(br[q], InitWh(br[q].perm, ok)).running = br[q].running
            /\ WithWh(br[q], InitWh(br[q].perm, ok)).wh => br[q].perm = "rw"
            /\ WithWh(br[q], InitWh(br[q].perm, ok)).plink => Writable(br[q].perm)
        BY <1>0, <3>2, <4>1, InitWhFits
      <4>. QED BY <3>3, <4>2 DEF ok
    <3>. QED BY <3>1, <3>3
  <2>6. br' \in [Root -> BranchType]
    BY <1>0, <2>4, <2>5
  <2>7. TypeOK'
    BY <1>0, <2>1, <2>3, <2>6 DEF TypeOK, BranchType, FileType
  <2>8. BaseFitsPerm'
    BY <1>0, <2>1, <2>5 DEF BaseFitsPerm, Mounted
  <2>9. \A q \in Root : /\ br'[q].id = br[q].id /\ br'[q].count = br[q].count
                        /\ br'[q].running = br[q].running
                        /\ reinit'[q] = "none" <=> reinit[q] = "none"
    BY <2>1, <2>5
  <2>. QED BY <2>1, <2>2, <2>7, <2>8, <2>9, SameUsers
<1>. QED BY <1>1, <1>2, <1>3, <1>4

-----------------------------------------------------------------------------
(* br_add and br_del move branches. *)

(* A branch that is not mounted has no user, so the new one starts at zero. *)
LEMMA BrAddStep ==
    ASSUME IInv, NEW r \in Root, NEW i \in 0 .. MaxBr - 1, NEW p \in Perms, BrAdd(r, i, p)
    PROVE  IInv'
<1>. USE RootAssumption, BoundAssumption, PermAssumption
<1>. DEFINE b0 == [NoBranch EXCEPT !.perm = p, !.id = NewBrId]
            n == WithWh(b0, InitWh(p, TRUE))
<1>0. /\ TypeOK /\ TableIsArray /\ UniqueIds /\ NoUseAfterFree
      /\ CountExact /\ BaseFitsPerm /\ IndexClean
      /\ br \in [Root -> BranchType] /\ file \in [File -> FileType] /\ plink \in BOOLEAN
      /\ rem \in RemType /\ idx \in [Root -> -1 .. MaxBr - 1] /\ bend \in -1 .. MaxBr - 1
      /\ lastId \in 0 .. IdMod - 1
  BY DEF IInv, TypeOK, BranchType, FileType, RemType
<1>1. /\ rem.on /\ rem.opts < MaxOpts /\ OptDone(TRUE)
      /\ idx[r] = -1 /\ bend < MaxBr - 1 /\ i \in 0 .. bend + 1
      /\ idx' = [q \in Root |-> IF q = r THEN i
                                ELSE IF idx[q] >= i THEN idx[q] + 1 ELSE idx[q]]
      /\ bend' = bend + 1 /\ lastId' = NewBrId
      /\ br' = [br EXCEPT ![r] = n]
      /\ wrote' = None /\ UNCHANGED <<plink, file, reinit, later, oops>>
  BY DEF BrAdd, Option, Quiet, users
<1>2. NewBrId \in 0 .. IdMod - 1 /\ FreeId(NewBrId)
  BY <1>0, <1>1, NewBrIdFree
<1>3. /\ b0 \in BranchType /\ b0.perm = p /\ b0.id = NewBrId
      /\ b0.count = 0 /\ b0.running = 0
  BY <1>2 DEF NoBranch, BranchType, BrPerm
<1>. HIDE DEF b0
<1>4. /\ n \in BranchType /\ n.perm = p /\ n.id = NewBrId /\ n.count = 0 /\ n.running = 0
      /\ n.wh => p = "rw"
      /\ n.plink => Writable(p)
  BY <1>0, <1>3, InitWhFits
<1>. HIDE DEF n
<1>5. br' \in [Root -> BranchType] /\ \A q \in Root : br'[q] = IF q = r THEN n ELSE br[q]
  BY <1>0, <1>1, <1>4
<1>6. rem' \in RemType /\ rem'.on /\ rem'.dirty
  BY <1>0, <1>1, OptDoneDirty
<1>7. \A q \in Mounted : q \in Root /\ q # r /\ idx[q] \in 0 .. bend
  BY <1>0, <1>1 DEF TableIsArray, Mounted
<1>8. Mounted' = Mounted \cup {r} /\ r \notin Mounted
  BY <1>0, <1>1 DEF Mounted
<1>9. TypeOK'
  <2>1. bend' \in -1 .. MaxBr - 1
    BY <1>0, <1>1
  <2>2. \A q \in Root : idx'[q] \in -1 .. MaxBr - 1
    BY <1>0, <1>1, <1>7 DEF Mounted
  <2>3. idx' \in [Root -> -1 .. MaxBr - 1]
    BY <1>1, <2>2
  <2>. QED BY <1>0, <1>1, <1>2, <1>5, <1>6, <2>1, <2>3 DEF TypeOK, BranchType, RemType
<1>10. TableIsArray'
  <2>1. \A q \in Mounted' : idx'[q] <= bend'
    BY <1>0, <1>1, <1>7, <1>8
  <2>2. ASSUME NEW b \in 0 .. bend' PROVE \E q \in Mounted' : idx'[q] = b
    <3>1. CASE b = i
      BY <1>1, <1>8, <3>1
    <3>2. CASE b < i
      <4>1. b \in 0 .. bend
        BY <1>0, <1>1, <3>2
      <4>2. PICK q \in Mounted : idx[q] = b
        BY <1>0, <4>1 DEF TableIsArray
      <4>. QED BY <1>1, <1>7, <1>8, <3>2, <4>2
    <3>3. CASE b > i
      <4>1. b - 1 \in 0 .. bend /\ b - 1 >= i
        BY <1>0, <1>1, <3>3
      <4>2. PICK q \in Mounted : idx[q] = b - 1
        BY <1>0, <4>1 DEF TableIsArray
      <4>3. q \in Root /\ q # r /\ idx[q] >= i /\ idx[q] + 1 = b
        BY <1>7, <4>1, <4>2
      <4>. QED BY <1>1, <1>8, <4>2, <4>3
    <3>4. b \in Int /\ i \in Int
      BY <1>0, <1>1
    <3>. QED BY <3>1, <3>2, <3>3, <3>4
  <2>3. ASSUME NEW q \in Mounted', NEW s \in Mounted', idx'[q] = idx'[s] PROVE q = s
    <3>1. \A t \in Mounted : idx'[t] = IF idx[t] >= i THEN idx[t] + 1 ELSE idx[t]
      BY <1>1, <1>7
    <3>2. \A t \in Mounted : idx'[t] # i
      BY <1>1, <1>7, <3>1
    <3>3. idx'[r] = i
      BY <1>1
    <3>4. CASE q \in Mounted /\ s \in Mounted
      <4>1. idx[q] = idx[s]
        BY <1>1, <1>7, <2>3, <3>1, <3>4
      <4>. QED BY <1>0, <3>4, <4>1 DEF TableIsArray
    <3>. QED BY <1>8, <2>3, <3>2, <3>3, <3>4
  <2>. QED BY <2>1, <2>2, <2>3 DEF TableIsArray
<1>11. UniqueIds'
  <2>1. \A q \in Mounted : br[q].id # NewBrId
    BY <1>2 DEF FreeId, UsedIds
  <2>2. NewBrId # 0
    BY <1>2 DEF FreeId
  <2>. QED BY <1>0, <1>4, <1>5, <1>7, <1>8, <2>1, <2>2 DEF UniqueIds
<1>12. NoUseAfterFree'
  BY <1>0, <1>1, <1>8 DEF NoUseAfterFree
<1>13. CountExact'
  <2>1. \A q \in Root : Holders(q)' = Holders(q)
    BY <1>1 DEF Holders
  <2>2. Holders(r) = {} /\ reinit[r] = "none"
    BY <1>0, <1>8 DEF Holders, NoUseAfterFree
  <2>3. Cardinality(Holders(r)) = 0
    BY <2>2, FS_EmptySet
  <2>4. \A q \in Mounted :
            /\ br[q].count = Cardinality(Holders(q)) + (IF reinit[q] = "none" THEN 0 ELSE 1)
            /\ br[q].running = 1 <=> reinit[q] # "none"
    BY <1>0 DEF CountExact, Holders
  <2>5. ASSUME NEW q \in Mounted'
        PROVE  /\ br'[q].count = Cardinality(Holders(q)')
                                 + (IF reinit'[q] = "none" THEN 0 ELSE 1)
               /\ br'[q].running = 1 <=> reinit'[q] # "none"
    BY <1>1, <1>4, <1>5, <1>7, <1>8, <2>1, <2>2, <2>3, <2>4
  <2>. QED BY <2>5 DEF CountExact, Holders
<1>14. BaseFitsPerm'
  BY <1>0, <1>4, <1>5, <1>7, <1>8 DEF BaseFitsPerm
<1>15. IndexClean'
  BY <1>6 DEF IndexClean
<1>. QED BY <1>9, <1>10, <1>11, <1>12, <1>13, <1>14, <1>15 DEF IInv

(* br_count is exact, so a count of zero means that nothing refers to the   *)
(* branch.                                                                  *)
LEMMA BrDelStep ==
    ASSUME IInv, NEW r \in Root, BrDel(r)
    PROVE  IInv'
<1>. USE RootAssumption, BoundAssumption
<1>0. /\ TypeOK /\ TableIsArray /\ UniqueIds /\ NoUseAfterFree
      /\ CountExact /\ BaseFitsPerm /\ IndexClean
      /\ br \in [Root -> BranchType] /\ file \in [File -> FileType] /\ plink \in BOOLEAN
      /\ rem \in RemType /\ idx \in [Root -> -1 .. MaxBr - 1] /\ bend \in -1 .. MaxBr - 1
  BY DEF IInv, TypeOK, BranchType, FileType, RemType
<1>1. /\ rem.on /\ rem.opts < MaxOpts /\ r \in Mounted /\ bend # 0 /\ br[r].count = 0
      /\ wrote' = None /\ UNCHANGED <<file, reinit, later, oops>>
  BY DEF BrDel, Option, Quiet, users
<1>2. CASE /\ \E ok \in BOOLEAN :
                 br' = IF br[r].wh \/ br[r].plink
                       THEN [br EXCEPT ![r] = WithWh(@, InitWh(@.perm, ok))] ELSE br
           /\ OptFailed
           /\ UNCHANGED table
  <2>1. UNCHANGED <<idx, bend, lastId, plink>>
    BY <1>2 DEF table
  <2>2. rem' \in RemType /\ rem'.on /\ (~rem'.dirty => ~rem.dirty)
    BY <1>0, <1>1, <1>2 DEF OptFailed, RemType
  <2>3. PICK n \in BranchType :
            /\ n.id = br[r].id /\ n.count = br[r].count /\ n.running = br[r].running
            /\ n.wh => n.perm = "rw"
            /\ n.plink => Writable(n.perm)
            /\ br' = [br EXCEPT ![r] = n]
    <3>1. PICK ok \in BOOLEAN :
              br' = IF br[r].wh \/ br[r].plink
                    THEN [br EXCEPT ![r] = WithWh(br[r], InitWh(br[r].perm, ok))] ELSE br
      BY <1>2
    <3>2. br[r] \in BranchType /\ br[r].perm \in BrPerm
      BY <1>0 DEF BranchType
    <3>. DEFINE m == WithWh(br[r], InitWh(br[r].perm, ok))
    <3>3. /\ m \in BranchType /\ m.perm = br[r].perm
          /\ m.id = br[r].id /\ m.count = br[r].count /\ m.running = br[r].running
          /\ m.wh => br[r].perm = "rw"
          /\ m.plink => Writable(br[r].perm)
      BY <1>0, <3>2, InitWhFits
    <3>. HIDE DEF m
    <3>4. CASE br' = [br EXCEPT ![r] = m]
      BY <3>3, <3>4
    <3>5. CASE br' = br
      <4>1. br' = [br EXCEPT ![r] = br[r]]
        BY <1>0, <3>5
      <4>2. br[r].wh => br[r].perm = "rw"
        BY <1>0, <1>1 DEF BaseFitsPerm
      <4>3. br[r].plink => Writable(br[r].perm)
        BY <1>0, <1>1 DEF BaseFitsPerm
      <4>. QED BY <3>2, <4>1, <4>2, <4>3
    <3>. QED BY <3>1, <3>4, <3>5 DEF m
  <2>4. br' \in [Root -> BranchType] /\ \A q \in Root : br'[q] = IF q = r THEN n ELSE br[q]
    BY <1>0, <2>3
  <2>5. TypeOK'
    BY <1>0, <1>1, <2>1, <2>2, <2>4 DEF TypeOK, BranchType, FileType, RemType
  <2>6. BaseFitsPerm'
    BY <1>0, <2>1, <2>3, <2>4 DEF BaseFitsPerm, Mounted
  <2>7. \A q \in Root : /\ br'[q].id = br[q].id /\ br'[q].count = br[q].count
                        /\ br'[q].running = br[q].running
                        /\ reinit'[q] = "none" <=> reinit[q] = "none"
    BY <1>1, <2>3, <2>4
  <2>. QED BY <1>1, <2>1, <2>2, <2>5, <2>6, <2>7, SameUsers
<1>3. CASE /\ idx' = [q \in Root |-> IF q = r THEN -1
                                     ELSE IF idx[q] > idx[r] THEN idx[q] - 1 ELSE idx[q]]
           /\ bend' = bend - 1
           /\ br' = [br EXCEPT ![r] = NoBranch]
           /\ OptDone(TRUE)
           /\ UNCHANGED <<lastId, plink>>
  <2>1. rem' \in RemType /\ rem'.on /\ rem'.dirty
    BY <1>0, <1>1, <1>3, OptDoneDirty
  <2>2. NoBranch \in BranchType
    BY DEF NoBranch, BranchType, BrPerm
  <2>3. br' \in [Root -> BranchType] /\ \A q \in Root : q # r => br'[q] = br[q]
    BY <1>0, <1>3, <2>2
  <2>4. \A q \in Mounted : q \in Root /\ idx[q] \in 0 .. bend
    BY <1>0 DEF TableIsArray, Mounted
  <2>5. \A q \in Mounted : q # r => idx[q] # idx[r]
    BY <1>0, <1>1 DEF TableIsArray
  <2>6. bend >= 1 /\ idx[r] \in 0 .. bend
    BY <1>0, <1>1, <2>4
  <2>7. \A q \in Root : q # r => idx'[q] = IF idx[q] > idx[r] THEN idx[q] - 1 ELSE idx[q]
    BY <1>3
  <2>8. Mounted' = Mounted \ {r}
    BY <1>0, <1>3, <2>6 DEF Mounted
  <2>9. TypeOK'
    <3>1. \A q \in Root : idx'[q] \in -1 .. MaxBr - 1
      BY <1>0, <1>3, <2>6
    <3>2. idx' \in [Root -> -1 .. MaxBr - 1] /\ bend' \in -1 .. MaxBr - 1
      BY <1>0, <1>3, <2>6, <3>1
    <3>. QED BY <1>0, <1>1, <1>3, <2>1, <2>3, <3>2 DEF TypeOK, BranchType, RemType
  <2>10. TableIsArray'
    <3>1. \A q \in Mounted' : idx'[q] <= bend'
      BY <1>0, <1>3, <2>4, <2>5, <2>6, <2>7, <2>8
    <3>2. ASSUME NEW b \in 0 .. bend' PROVE \E q \in Mounted' : idx'[q] = b
      <4>1. b \in 0 .. bend /\ b + 1 \in 0 .. bend
        BY <1>0, <1>3
      <4>2. CASE b < idx[r]
        <5>1. PICK q \in Mounted : idx[q] = b
          BY <1>0, <4>1 DEF TableIsArray
        <5>. QED BY <2>4, <2>6, <2>7, <2>8, <4>2, <5>1
      <4>3. CASE b >= idx[r]
        <5>1. PICK q \in Mounted : idx[q] = b + 1
          BY <1>0, <4>1 DEF TableIsArray
        <5>2. q # r /\ idx[q] > idx[r] /\ idx[q] - 1 = b
          BY <2>6, <4>1, <4>3, <5>1
        <5>. QED BY <2>4, <2>7, <2>8, <5>1, <5>2
      <4>. QED BY <2>6, <4>1, <4>2, <4>3
    <3>3. ASSUME NEW q \in Mounted', NEW s \in Mounted', idx'[q] = idx'[s] PROVE q = s
      <4>1. idx[q] = idx[s]
        BY <2>4, <2>5, <2>6, <2>7, <2>8, <3>3
      <4>. QED BY <1>0, <2>8, <4>1 DEF TableIsArray
    <3>. QED BY <3>1, <3>2, <3>3 DEF TableIsArray
  <2>11. UniqueIds'
    BY <1>0, <2>3, <2>4, <2>8 DEF UniqueIds
  <2>12. /\ \A q \in Mounted :
              /\ br[q].count = Cardinality(Holders(q))
                               + (IF reinit[q] = "none" THEN 0 ELSE 1)
              /\ br[q].running = 1 <=> reinit[q] # "none"
         /\ \A q \in Root : Holders(q)' = Holders(q)
    BY <1>0, <1>1 DEF CountExact, Holders
  <2>13. Holders(r) = {} /\ reinit[r] = "none"
    <3>1. Holders(r) \in SUBSET File
      BY DEF Holders
    <3>2. IsFiniteSet(Holders(r))
      BY <3>1, FS_Subset
    <3>3. Cardinality(Holders(r)) \in Nat
      BY <3>2, FS_CardinalityType
    <3>4. Cardinality(Holders(r)) = 0 /\ reinit[r] = "none"
      BY <1>1, <2>12, <3>3
    <3>. QED BY <3>2, <3>4, FS_EmptySet
  <2>14. NoUseAfterFree'
    BY <1>0, <1>1, <2>8, <2>13 DEF NoUseAfterFree, Holders
  <2>15. CountExact'
    <3>1. ASSUME NEW q \in Mounted'
          PROVE  /\ br'[q].count = Cardinality(Holders(q)')
                                   + (IF reinit'[q] = "none" THEN 0 ELSE 1)
                 /\ br'[q].running = 1 <=> reinit'[q] # "none"
      BY <1>1, <2>3, <2>4, <2>8, <2>12
    <3>. QED BY <3>1 DEF CountExact, Holders
  <2>16. BaseFitsPerm'
    BY <1>0, <2>3, <2>4, <2>8 DEF BaseFitsPerm
  <2>17. IndexClean'
    BY <2>1 DEF IndexClean
  <2>. QED BY <2>9, <2>10, <2>11, <2>14, <2>15, <2>16, <2>17 DEF IInv
<1>. QED BY <1>2, <1>3 DEF BrDel

-----------------------------------------------------------------------------
(* The work queue. *)

(* A step of the work item of one branch r: it takes or returns its own    *)
(* reference together with br_wh_running, and may change the base files.   *)
LEMMA JobInv ==
    ASSUME IInv, NEW r \in Mounted, NEW n \in BranchType, NEW job \in {"none", "queued"},
           br' = [br EXCEPT ![r] = n], reinit' = [reinit EXCEPT ![r] = job],
           n.id = br[r].id, n.running = IF job = "none" THEN 0 ELSE 1,
           n.count = br[r].count + (IF job = "none" THEN 0 ELSE 1)
                                 - (IF reinit[r] = "none" THEN 0 ELSE 1),
           n.wh => n.perm = "rw", n.plink => Writable(n.perm),
           UNCHANGED <<idx, bend, lastId, plink, file, later, rem, oops>>,
           wrote' \in Root \cup {None}
    PROVE  IInv'
<1>0. /\ TypeOK /\ TableIsArray /\ UniqueIds /\ NoUseAfterFree
      /\ CountExact /\ BaseFitsPerm /\ IndexClean /\ br \in [Root -> BranchType]
      /\ reinit \in [Root -> {"none", "queued", "locking"}]
  BY DEF IInv, TypeOK, BranchType
<1>1. Mounted' = Mounted /\ \A q \in Mounted : q \in Root
  BY DEF Mounted
<1>2. /\ br' \in [Root -> BranchType] /\ \A q \in Root : br'[q] = IF q = r THEN n ELSE br[q]
      /\ reinit' \in [Root -> {"none", "queued", "locking"}]
      /\ \A q \in Root : reinit'[q] = IF q = r THEN job ELSE reinit[q]
  BY <1>0, <1>1
<1>3. TypeOK'
  BY <1>0, <1>2 DEF TypeOK, BranchType
<1>4. TableIsArray'
  BY <1>0, <1>1 DEF TableIsArray
<1>5. UniqueIds'
  BY <1>0, <1>1, <1>2 DEF UniqueIds
<1>6. NoUseAfterFree'
  BY <1>0, <1>1, <1>2 DEF NoUseAfterFree
<1>7. CountExact'
  <2>1. \A q \in Root : Holders(q)' = Holders(q)
    BY DEF Holders
  <2>2. \A q \in Mounted :
            /\ br[q].count = Cardinality(Holders(q)) + (IF reinit[q] = "none" THEN 0 ELSE 1)
            /\ br[q].running = 1 <=> reinit[q] # "none"
    BY <1>0 DEF CountExact, Holders
  <2>3. Cardinality(Holders(r)) \in Nat
    <3>1. Holders(r) \in SUBSET File /\ IsFiniteSet(File)
      BY RootAssumption DEF Holders
    <3>2. IsFiniteSet(Holders(r))
      BY <3>1, FS_Subset
    <3>. QED BY <3>2, FS_CardinalityType
  <2>4. n.count = Cardinality(Holders(r)) + (IF job = "none" THEN 0 ELSE 1)
    BY <2>2, <2>3
  <2>5. ASSUME NEW q \in Mounted'
        PROVE  /\ br'[q].count = Cardinality(Holders(q)')
                                 + (IF reinit'[q] = "none" THEN 0 ELSE 1)
               /\ br'[q].running = 1 <=> reinit'[q] # "none"
    BY <1>1, <1>2, <2>1, <2>2, <2>4
  <2>. QED BY <2>5 DEF CountExact, Holders
<1>8. BaseFitsPerm'
  BY <1>0, <1>1, <1>2 DEF BaseFitsPerm
<1>9. IndexClean'
  BY <1>0 DEF IndexClean
<1>. QED BY <1>3, <1>4, <1>5, <1>6, <1>7, <1>8, <1>9 DEF IInv

(* link_or_create_wh and reinit_br_wh. *)
LEMMA ReinitStep ==
    ASSUME IInv, NEW r \in Root, CreateWh(r) \/ ReinitStart(r) \/ ReinitRun(r)
    PROVE  IInv'
<1>. USE RootAssumption
<1>0. /\ TypeOK /\ NoUseAfterFree /\ CountExact /\ BaseFitsPerm /\ IndexClean
      /\ br \in [Root -> BranchType] /\ br[r] \in BranchType /\ plink \in BOOLEAN
      /\ reinit \in [Root -> {"none", "queued", "locking"}]
      /\ br[r].count \in Nat /\ br[r].perm \in BrPerm
  BY DEF IInv, TypeOK, BranchType
<1>1. CASE CreateWh(r)
  <2>. DEFINE n == [br[r] EXCEPT !.running = 1, !.count = @ + 1]
  <2>1. /\ UNCHANGED <<idx, bend, lastId, plink, file, later, rem, oops>> /\ wrote' = None
        /\ br' = [br EXCEPT ![r] = n] /\ reinit' = [reinit EXCEPT ![r] = "queued"]
        /\ r \in Mounted /\ br[r].running = 0
    BY <1>0, <1>1 DEF CreateWh, Running, Quiet, table
  <2>2. reinit[r] = "none"
    <3>1. br[r].running = 1 <=> reinit[r] # "none"
      BY <1>0, <2>1 DEF CountExact
    <3>. QED BY <2>1, <3>1
  <2>3. /\ n \in BranchType /\ n.id = br[r].id /\ n.running = 1
        /\ n.count = br[r].count + 1 /\ n.perm = br[r].perm
        /\ n.wh = br[r].wh /\ n.plink = br[r].plink
    <3>1. br[r].count + 1 \in Nat
      BY <1>0
    <3>. QED BY <1>0, <3>1 DEF BranchType
  <2>. HIDE DEF n
  <2>4. n.count = br[r].count + 1 - 0
    BY <1>0, <2>3
  <2>5. (n.wh => n.perm = "rw") /\ (n.plink => Writable(n.perm))
    BY <1>0, <2>1, <2>3 DEF BaseFitsPerm
  <2>. QED BY <2>1, <2>2, <2>3, <2>4, <2>5, JobInv
<1>2. CASE ReinitStart(r)
  <2>1. /\ UNCHANGED <<idx, bend, lastId, plink, br, file, later, rem>> /\ wrote' = None
        /\ reinit' = [reinit EXCEPT ![r] = "locking"] /\ reinit[r] = "queued"
        /\ oops' \in {oops, "reinit_br_wh"}
    BY <1>2 DEF ReinitStart, table
  <2>2. TypeOK'
    BY <1>0, <2>1 DEF TypeOK
  <2>3. BaseFitsPerm'
    BY <1>0, <2>1 DEF BaseFitsPerm, Mounted
  <2>4. \A q \in Root : reinit'[q] = "none" <=> reinit[q] = "none"
    BY <1>0, <2>1
  <2>. QED BY <1>0, <2>1, <2>2, <2>3, <2>4, SameUsers DEF IndexClean
<1>3. CASE ReinitRun(r)
  <2>. DEFINE done == [br[r] EXCEPT !.running = 0, !.count = @ - 1]
  <2>1. /\ UNCHANGED <<idx, bend, lastId, plink, file, later, rem>>
        /\ reinit[r] = "locking"
    BY <1>3 DEF ReinitRun, Running, table
  <2>2. r \in Mounted /\ br[r].count >= 1
    <3>1. r \in Mounted
      BY <1>0, <2>1 DEF NoUseAfterFree
    <3>2. Holders(r) \in SUBSET File
      BY DEF Holders
    <3>3. IsFiniteSet(Holders(r))
      BY <3>2, FS_Subset
    <3>4. Cardinality(Holders(r)) \in Nat
      BY <3>3, FS_CardinalityType
    <3>5. br[r].count = Cardinality(Holders(r)) + 1
      BY <1>0, <2>1, <3>1 DEF CountExact, Holders
    <3>. QED BY <3>1, <3>4, <3>5
  <2>3. /\ done \in BranchType /\ done.id = br[r].id /\ done.running = 0
        /\ done.count = br[r].count + 0 - 1 /\ done.perm = br[r].perm
        /\ done.wh = br[r].wh /\ done.plink = br[r].plink
    <3>1. br[r].count - 1 \in Nat /\ br[r].count - 1 = br[r].count + 0 - 1
      BY <1>0, <2>2
    <3>. QED BY <1>0, <3>1 DEF BranchType
  <2>4. (br[r].wh => br[r].perm = "rw") /\ (br[r].plink => Writable(br[r].perm))
    BY <1>0, <2>2 DEF BaseFitsPerm
  <2>. HIDE DEF done
  <2>5. CASE /\ br' = [br EXCEPT ![r] = done] /\ wrote' = None /\ oops' = oops
             /\ reinit' = [reinit EXCEPT ![r] = "none"]
    BY <2>1, <2>2, <2>3, <2>4, <2>5, JobInv
  <2>6. ASSUME NEW p \in {InitWh(br[r].perm, TRUE), InitWh(br[r].perm, FALSE),
                          [wh |-> FALSE, plink |-> br[r].plink]},
               br' = [br EXCEPT ![r] = WithWh(done, p)], wrote' = r, oops' = oops,
               reinit' = [reinit EXCEPT ![r] = "none"]
        PROVE  IInv'
    <3>. DEFINE n == WithWh(done, p)
    <3>1. /\ p.wh \in BOOLEAN /\ p.plink \in BOOLEAN
          /\ p.wh => br[r].perm = "rw"
          /\ p.plink => Writable(br[r].perm)
      <4>1. br[r].plink \in BOOLEAN
        BY <1>0 DEF BranchType
      <4>2. CASE p = [wh |-> FALSE, plink |-> br[r].plink]
        BY <2>4, <4>1, <4>2
      <4>3. CASE p = InitWh(br[r].perm, TRUE)
        BY <1>0, <4>3 DEF InitWh
      <4>4. CASE p = InitWh(br[r].perm, FALSE)
        BY <1>0, <4>4 DEF InitWh
      <4>. QED BY <2>6, <4>2, <4>3, <4>4
    <3>2. /\ n \in BranchType /\ n.id = done.id /\ n.running = done.running
          /\ n.count = done.count /\ n.perm = done.perm
          /\ n.wh = p.wh /\ n.plink = p.plink
      BY <2>3, <3>1 DEF WithWh, BranchType
    <3>3. br' = [br EXCEPT ![r] = n]
      BY <2>6
    <3>. HIDE DEF n
    <3>4. /\ n.wh => n.perm = "rw"
          /\ n.plink => Writable(n.perm)
          /\ n.id = br[r].id /\ n.running = 0 /\ n.count = br[r].count + 0 - 1
      BY <2>3, <3>1, <3>2
    <3>. QED BY <2>1, <2>2, <2>6, <3>2, <3>3, <3>4, JobInv
  <2>7. CASE UNCHANGED <<br, reinit>> /\ oops' = "nobase" /\ wrote' = None
    <3>1. TypeOK'
      BY <1>0, <2>1, <2>7 DEF TypeOK
    <3>2. BaseFitsPerm'
      BY <1>0, <2>1, <2>7 DEF BaseFitsPerm, Mounted
    <3>. QED BY <1>0, <2>1, <2>7, <3>1, <3>2, SameUsers DEF IndexClean
  <2>. QED BY <1>3, <2>5, <2>6, <2>7 DEF ReinitRun, Quiet, done
<1>. QED BY <1>1, <1>2, <1>3

(* kick_rmdir_whtmp and do_rmdir_whtmp. *)
LEMMA RmdirStep ==
    ASSUME IInv, (\E r \in Root : RmdirLater(r)) \/ (\E j \in later : RmdirWhtmp(j))
    PROVE  IInv'
<1>. USE RootAssumption
<1>0. TypeOK /\ BaseFitsPerm /\ IndexClean /\ idx \in [Root -> -1 .. MaxBr - 1]
  BY DEF IInv, TypeOK
<1>1. /\ UNCHANGED <<idx, bend, lastId, plink, br, file, reinit, rem>>
      /\ wrote' \in Root \cup {None} /\ oops' \in {oops, "stobr"}
      /\ later' \subseteq [r : Root, b : 0 .. MaxBr - 1]
  <2>1. ASSUME NEW r \in Root, RmdirLater(r)
        PROVE  /\ UNCHANGED <<idx, bend, lastId, plink, br, file, reinit, rem>>
               /\ wrote' = None /\ oops' = oops
               /\ later' \subseteq [r : Root, b : 0 .. MaxBr - 1]
    <3>1. idx[r] \in 0 .. MaxBr - 1
      BY <1>0, <2>1 DEF RmdirLater, Mounted
    <3>2. [r |-> r, b |-> idx[r]] \in [r : Root, b : 0 .. MaxBr - 1]
      BY <3>1
    <3>. QED BY <1>0, <2>1, <3>2 DEF RmdirLater, Running, Quiet, table, TypeOK
  <2>2. ASSUME NEW j \in later, RmdirWhtmp(j)
        PROVE  /\ UNCHANGED <<idx, bend, lastId, plink, br, file, reinit, rem>>
               /\ wrote' \in Root \cup {None} /\ oops' \in {oops, "stobr"}
               /\ later' \subseteq [r : Root, b : 0 .. MaxBr - 1]
    <3>1. j.r \in Root
      BY <1>0 DEF TypeOK
    <3>. QED BY <1>0, <2>2, <3>1 DEF RmdirWhtmp, Running, Quiet, table, TypeOK
  <2>. QED BY <2>1, <2>2
<1>2. TypeOK'
  BY <1>0, <1>1 DEF TypeOK
<1>3. BaseFitsPerm'
  BY <1>0, <1>1 DEF BaseFitsPerm, Mounted
<1>. QED BY <1>0, <1>1, <1>2, <1>3, SameUsers DEF IndexClean

-----------------------------------------------------------------------------
LEMMA InitIInv ==
    ASSUME Init PROVE IInv
<1>. USE RootAssumption, BoundAssumption, PermAssumption
<1>1. PICK r \in Root, p \in Perms, pl \in Plinks :
        /\ idx = [q \in Root |-> IF q = r THEN 0 ELSE -1]
        /\ bend = 0 /\ lastId = 1 /\ plink = pl
        /\ br = [q \in Root |-> IF q = r THEN FirstBr(p, pl) ELSE NoBranch]
        /\ file = [f \in File |-> Closed]
        /\ reinit = [q \in Root |-> "none"]
        /\ later = {} /\ rem = NoRem /\ wrote = None /\ oops = "none"
  BY DEF Init
<1>. DEFINE n == FirstBr(p, pl)
<1>2. /\ n \in BranchType /\ n.id = 1 /\ n.count = 0 /\ n.running = 0
      /\ n.wh => n.perm = "rw"
      /\ n.plink => Writable(n.perm)
  <2>. DEFINE wh == p = "rw"
              pk == Writable(p) /\ pl
  <2>1. wh \in BOOLEAN /\ pk \in BOOLEAN /\ (wh => p = "rw") /\ (pk => Writable(p))
    OBVIOUS
  <2>2. 1 \in 0 .. IdMod - 1 /\ p \in BrPerm
    OBVIOUS
  <2>3. n = [perm |-> p, id |-> 1, count |-> 0, wh |-> wh, plink |-> pk, running |-> 0]
    BY DEF FirstBr
  <2>. HIDE DEF wh, pk, n
  <2>. QED BY <2>1, <2>2, <2>3 DEF BranchType
<1>3. NoBranch \in BranchType
  BY DEF NoBranch, BranchType, BrPerm
<1>4. br \in [Root -> BranchType] /\ br[r] = n
  BY <1>1, <1>2, <1>3
<1>. HIDE DEF n
<1>5. Mounted = {r}
  BY <1>1 DEF Mounted
<1>6. TypeOK
  <2>1. Closed \in FileType /\ NoRem \in RemType
    BY DEF Closed, FileType, NoRem, RemType
  <2>. QED BY <1>1, <1>4, <2>1 DEF TypeOK, BranchType, FileType, RemType
<1>7. TableIsArray
  BY <1>1, <1>5 DEF TableIsArray
<1>8. UniqueIds
  BY <1>2, <1>4, <1>5 DEF UniqueIds
<1>9. NoUseAfterFree
  BY <1>1 DEF NoUseAfterFree, Closed
<1>10. CountExact
  <2>1. {f \in File : file[f].br = r} = {}
    BY <1>1 DEF Closed
  <2>2. Cardinality({f \in File : file[f].br = r}) = 0
    BY <2>1, FS_EmptySet
  <2>3. br[r].count = 0 /\ br[r].running = 0 /\ reinit[r] = "none"
    BY <1>1, <1>2, <1>4
  <2>. QED BY <1>5, <2>2, <2>3 DEF CountExact
<1>11. BaseFitsPerm
  BY <1>2, <1>4, <1>5 DEF BaseFitsPerm
<1>12. IndexClean
  BY <1>1 DEF IndexClean, NoRem, Closed
<1>. QED BY <1>6, <1>7, <1>8, <1>9, <1>10, <1>11, <1>12 DEF IInv

LEMMA NextIInv ==
    ASSUME IInv, [Next]_vars PROVE IInv'
<1>1. CASE UNCHANGED vars
  <2>1. UNCHANGED <<idx, bend, br, lastId, plink, file, reinit, later, rem, wrote, oops>>
    BY <1>1 DEF vars
  <2>2. TypeOK' /\ BaseFitsPerm' /\ IndexClean
    BY <2>1 DEF IInv, TypeOK, BaseFitsPerm, Mounted
  <2>. QED BY <2>1, <2>2, SameUsers DEF IndexClean
<1>2. CASE BeginRemount \/ EndRemount
  BY <1>2, RemountStep
<1>3. ASSUME NEW r \in Root, NEW i \in 0 .. MaxBr - 1, NEW p \in Perms, BrAdd(r, i, p)
      PROVE  IInv'
  BY <1>3, BrAddStep
<1>4. ASSUME NEW r \in Root, BrDel(r) PROVE IInv'
  BY <1>4, BrDelStep
<1>5. CASE \E r \in Root, p \in Perms : BrMod(r, p)
  BY <1>5, RemountStep
<1>6. CASE \E v \in Plinks : SetPlink(v)
  BY <1>6, RemountStep
<1>7. ASSUME NEW f \in File,
             \/ \E r \in Root, w \in BOOLEAN : Open(f, r, w)
             \/ Close(f) \/ Refresh(f) \/ ReadyToWrite(f)
      PROVE  IInv'
  BY <1>7, FileStep
<1>8. ASSUME NEW r \in Root, CreateWh(r) \/ ReinitStart(r) \/ ReinitRun(r) PROVE IInv'
  BY <1>8, ReinitStep
<1>9. CASE (\E r \in Root : RmdirLater(r)) \/ (\E j \in later : RmdirWhtmp(j))
  BY <1>9, RmdirStep
<1>. QED BY <1>1, <1>2, <1>3, <1>4, <1>5, <1>6, <1>7, <1>8, <1>9 DEF Next, Remounting

(* The invariant of the branch table: the slots, the ids, the references    *)
(* and the base files of si_branch are right in every state that remounts,  *)
(* opens, refreshes, copy-ups and the work queue can reach.                 *)
THEOREM IInvHolds == Spec => []IInv
<1>1. Init => IInv
  BY InitIInv
<1>2. IInv /\ [Next]_vars => IInv'
  BY NextIInv
<1>. QED BY <1>1, <1>2, PTL DEF Spec

(* Every variable keeps its type: no reference count of a branch becomes    *)
(* negative (br_put), no index leaves the table.                            *)
THEOREM TypeCorrect == Spec => []TypeOK
<1>1. IInv => TypeOK
  BY DEF IInv
<1>. QED BY <1>1, IInvHolds, PTL

(* The memmove()s of br_add and br_del leave no hole in si_branch and put   *)
(* no two branches into one slot.                                           *)
THEOREM TableSafe == Spec => []TableIsArray
<1>1. IInv => TableIsArray
  BY DEF IInv
<1>. QED BY <1>1, IInvHolds, PTL

(* new_br_id gives every branch an id of its own, however often the counter *)
(* wraps, as long as it has more values than the table has slots.           *)
THEOREM IdsSafe == Spec => []UniqueIds
<1>1. IInv => UniqueIds
  BY DEF IInv
<1>. QED BY <1>1, IInvHolds, PTL

(* br_del frees no branch that an open file or a queued reinit_br_wh holds. *)
THEOREM FreeSafe == Spec => []NoUseAfterFree
<1>1. IInv => NoUseAfterFree
  BY DEF IInv
<1>. QED BY <1>1, IInvHolds, PTL

(* br_count counts exactly the hidden files and the queued re-creation of   *)
(* the branch, and br_wh_running is set exactly while that item exists.     *)
THEOREM CountSafe == Spec => []CountExact
<1>1. IInv => CountExact
  BY DEF IInv
<1>. QED BY <1>1, IInvHolds, PTL

(* Outside a remount fbstart of an up-to-date file is the index of the      *)
(* branch its hidden file is on, which is what au_ready_to_write asserts.   *)
THEOREM IndexSafe == Spec => []FreshIndexRight
<1>1. IInv => FreshIndexRight
  BY DEF IInv, IndexClean, FreshIndexRight
<1>. QED BY <1>1, IInvHolds, PTL

(* A branch has base files only while its permission allows them, whatever  *)
(* br_mod, verify_opts, a br_del that backs out and reinit_br_wh did to it. *)
THEOREM BaseSafe == Spec => []BaseFitsPerm
<1>1. IInv => BaseFitsPerm
  BY DEF IInv
<1>. QED BY <1>1, IInvHolds, PTL
=============================================================================
