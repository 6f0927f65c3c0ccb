--------------------------- MODULE RefreshProofs ----------------------------
(***************************************************************************)
(* Proofs about Refresh, for every set of branches, every content of them, *)
(* any number of failures, as many remounts as IdAssumption allows, and    *)
(* one branch option per remount (several go wrong, see RefreshBusy.cfg).  *)
(***************************************************************************)
EXTENDS Refresh, NatLemmas, FiniteSetTheorems, SequenceTheorems

-----------------------------------------------------------------------------
(* Types. *)

HdSteps   == {"start", "hd", "look"}                  \* au_refresh_hdentry
HiSteps   == {"hstart", "hi"}                         \* au_refresh_hinode
Refreshing == HdSteps \cup HiSteps
AllSteps  == Refreshing \cup {"idle", "shrunk", "opts", "dirs", "reval", "oops", "null"}

Index     == -1 .. MaxBr - 1
HdType    == [Slot -> Path \cup {NoPath}]
HiType    == [Slot -> [path : Path \cup {NoPath}, id : Nat]]
DentType  ==
    [cached : BOOLEAN, use : BOOLEAN, type : {"neg", "file", "dir"}, gen : Nat,
     hd : HdType, bstart : Index, bend : Index, bwh : Index, bopq : Index,
     hi : HiType, ibstart : Index, ibend : Index, igen : Nat, alloc : Nat]
JobType   ==
    [pc : AllSteps, n : Name, goal : Name, ret : {"idle", "dirs", "opts"}, b : -1 .. MaxBr,
     e : Index, bwh : Index, bopq : Index, opts : 0 .. MaxOpt]
TabType   == Seq([path : Path, id : Nat \ {0}])

RefType ==
    /\ disk \in [Path -> Kinds]
    /\ tab \in TabType /\ Len(tab) \in 1 .. MaxBr
    /\ lastid \in Nat /\ sigen \in 0 .. MaxRemount /\ failed \in BOOLEAN /\ fails \in 0 .. MaxFail
    /\ dentry \in [Name -> DentType]
    /\ job \in JobType

-----------------------------------------------------------------------------
(* What is right about one dentry record x; t is a branch table, m the last *)
(* id, S the branches on which the name exists, P the array of the parent.  *)

Hd(x) == {b \in Slot : x.hd[b] # NoPath}
Hi(x) == {b \in Slot : x.hi[b] # NoInode}
Has(x, p) == \E c \in Slot : x.hd[c] = p

(* Hidden dentries: each branch once, all positive. *)
HdRec(x, S) ==
    /\ 0 <= x.bstart /\ 0 <= x.bend
    /\ \A b, c \in Hd(x) : x.hd[b] = x.hd[c] => b = c
    /\ \A b \in Hd(x) : x.hd[b] \in S
Ranged(x) == \A b \in Hd(x) : x.bstart <= b /\ b <= x.bend
Ends(x)   == x.bstart \in Hd(x) /\ x.bend \in Hd(x)

(* They are in the slots of their branches. *)
Now(x, t) == /\ \A b \in Hd(x) : b <= Len(t) - 1 /\ x.hd[b] = t[b + 1].path
             /\ x.alloc >= Len(t)

(* Those of a file are among those of its directory y. *)
Nested(x, y) == \A b \in Hd(x) : Has(y, x.hd[b])

(* They are in the slots of the parent, but for slots b to e. *)
Placing(x, P, b, e) == \A c \in Hd(x) : c < b \/ c > e => x.hd[c] = P[c]

(* Hidden inodes: the same, by the ids of the branches, which are not used *)
(* again.  One of a mounted branch has its hidden dentry in y.             *)
Under(x, y, t) ==
    \A b \in Hi(x), i \in 1 .. Len(t) : t[i].id = x.hi[b].id => Has(y, t[i].path)
HiRec(x, t, m) ==
    /\ 0 <= x.ibstart /\ 0 <= x.ibend
    /\ \A b, c \in Hi(x) : x.hi[b].id = x.hi[c].id => b = c
    /\ \A b \in Hi(x) : x.ibstart <= b /\ b <= x.ibend
    /\ \A b \in Hi(x) : /\ x.hi[b].id <= m
                        /\ \A i \in 1 .. Len(t) : t[i].id = x.hi[b].id => t[i] = x.hi[b]
    /\ Under(x, x, t)
INow(x, t) == /\ \A b \in Hi(x) : b <= Len(t) - 1 /\ x.hi[b] = t[b + 1]
              /\ Hd(x) \subseteq Hi(x)
IPlacing(x, t, b) == \A c \in Hi(x) : c < b => c <= Len(t) - 1 /\ x.hi[c] = t[c + 1]

-----------------------------------------------------------------------------
(* The inductive invariant. *)

(* Every branch has its own path and its own id, and ids are never given   *)
(* twice.                                                                  *)
TabOk ==
    /\ \A i, j \in 1 .. Len(tab) : tab[i].path = tab[j].path \/ tab[i].id = tab[j].id => i = j
    /\ \A i \in 1 .. Len(tab) : tab[i].id <= lastid

Pos(n)  == {p \in Path : TypeOn(p, n) # "neg"}    \* branches that have the name
Par(n)  == [b \in Slot |-> ParHd(n, b)]           \* the array of the parent
Live(n) == dentry[n].cached /\ dentry[n].type # "neg"
Looping(n) == job.pc = "hd" /\ job.n = n

(* A remount before its new generation; no remount is after that. *)
InRemount == \/ job.pc \in {"shrunk", "opts"}
             \/ job.ret = "opts" /\ job.pc \in {"reval"} \cup Refreshing
Settled   == \/ job.pc \in {"idle", "shrunk", "opts", "reval"}
             \/ job.pc \in Refreshing /\ job.ret # "dirs"

(* Where the job is, and what it works on. *)
JobOk ==
    /\ job.opts # 0 => job.pc = "opts"
    /\ InRemount => sigen < MaxRemount
    /\ (job.pc = "reval" => job.ret # "dirs") /\ (job.pc = "dirs" => job.ret = "dirs")
    /\ job.pc \in {"reval"} \cup Refreshing /\ job.ret # "dirs" => Live(job.goal)
    /\ job.pc \in Refreshing => /\ Live(job.n) /\ dentry[job.n].igen # sigen
                                /\ job.ret = "dirs" => job.n = "d"
    /\ job.pc \in HdSteps => dentry[job.n].gen # sigen
    /\ job.pc \in HiSteps => dentry[job.n].gen = sigen

CacheOk ==
    /\ dentry["f"].cached => Live("d") /\ dentry["d"].type = "dir"
    /\ \A n \in Name : /\ dentry[n].use => dentry[n].cached
                       /\ dentry[n].gen <= sigen /\ dentry[n].igen <= sigen
                       /\ Live(n) /\ dentry[n].igen = sigen => dentry[n].gen = sigen

(* The parent of what is refreshed is not stale; unless a directory could  *)
(* not be refreshed, no cached directory is.                               *)
ParentOk ==
    /\ job.pc \in Refreshing /\ job.n = "f" => dentry["d"].gen = sigen
    /\ Settled => failed \/ (dentry["f"].cached => dentry["d"].gen = sigen)

HdOk ==
    \A n \in Name : Live(n) => /\ HdRec(dentry[n], Pos(n))
                               /\ ~Looping(n) => Ranged(dentry[n])
HiOk ==
    \A n \in Name : Live(n) => /\ HiRec(dentry[n], tab, lastid)
                               /\ n = "f" => Under(dentry["f"], dentry["d"], tab)

(* The dentries and inodes of the current generation, as long as the       *)
(* branches have not been changed since.                                   *)
HdNow ==
    job.opts = 0 =>
        \A n \in Name : Live(n) /\ dentry[n].gen = sigen =>
            Now(dentry[n], tab) /\ (n = "f" => Nested(dentry["f"], dentry["d"]))
HiNow ==
    job.opts = 0 => \A n \in Name : Live(n) /\ dentry[n].igen = sigen => INow(dentry[n], tab)

(* In the loops the slots behind are right, and those the loop will not    *)
(* come to.                                                                *)
LoopOk ==
    /\ job.pc \in {"hd", "look"} => d_.alloc >= Len(tab)
    /\ job.pc = "hd"   => 0 <= job.b /\ Placing(d_, Par(job.n), job.b, job.e)
    /\ job.pc = "look" => Placing(d_, Par(job.n), MaxBr, MaxBr)
    /\ job.pc = "hi"   => 0 <= job.b /\ IPlacing(d_, tab, job.b)

RefInv == /\ RefType /\ TabOk /\ JobOk /\ CacheOk /\ ParentOk
          /\ HdOk /\ HiOk /\ HdNow /\ HiNow /\ LoopOk

-----------------------------------------------------------------------------
(* A dentry in use keeps a branch that is mounted: what br_del tests for. *)

Stays(n) == \E i \in 1 .. Len(tab) : /\ Has(dentry[n], tab[i].path)
                                     /\ n = "f" => Has(dentry["d"], tab[i].path)
KeepInv ==
    /\ job.pc # "null"
    /\ \A n \in Name : Live(n) => Stays(n) /\ (~Looping(n) => Ends(dentry[n]))
    /\ InRemount => \A n \in Name : dentry[n].cached => Used(n)

-----------------------------------------------------------------------------
(* Numbers and tables. *)

LEMMA Bounds ==
    /\ MaxBr \in Nat /\ MaxBr >= 1 /\ MaxRemount \in Nat /\ MaxOpt \in Nat /\ MaxFail \in Nat
    /\ Slot \subseteq Nat /\ Slot \subseteq Index /\ Index \subseteq Int
    /\ \A b \in Slot : 0 <= b /\ b <= MaxBr - 1
    /\ \A b \in Index : -1 <= b /\ b <= MaxBr - 1
    /\ \A b \in Int : 0 <= b /\ b <= MaxBr - 1 => b \in Slot
    /\ \A b \in Int : -1 <= b /\ b <= MaxBr - 1 => b \in Index
    /\ -1 \notin Slot /\ 0 \in Slot
<1>1. MaxBr \in Nat /\ MaxRemount \in Nat /\ MaxOpt \in Nat /\ MaxFail \in Nat
  BY BoundAssumption
<1>2. Len(FirstTab) \in Nat /\ 1 <= Len(FirstTab) /\ Len(FirstTab) <= MaxBr
  BY TabAssumption, <1>1
<1>3. MaxBr >= 1
  BY <1>1, <1>2
<1>. QED BY <1>1, <1>3 DEF Slot, Index

(* The first and the last of a set of slots. *)
LEMMA MinSlot ==
    ASSUME NEW S \in SUBSET Index, S # {}
    PROVE  Min(S) \in S /\ \A y \in S : Min(S) <= y
<1>. DEFINE T == {y + 1 : y \in S}
<1>1. \A y \in S : y \in Int /\ y + 1 \in Nat
  BY Bounds
<1>2. T \in SUBSET Nat /\ T # {}
  BY <1>1
<1>3. PICK z \in T : \A u \in T : z <= u
  BY <1>2, LeastNat
<1>4. PICK x \in S : z = x + 1
  BY <1>3
<1>5. \A y \in S : x <= y
  <2>. SUFFICES ASSUME NEW y \in S PROVE x <= y
    OBVIOUS
  <2>1. z <= y + 1
    BY <1>3
  <2>. QED BY <2>1, <1>1, <1>4
<1>. QED BY <1>5 DEF Min

LEMMA MaxSlot ==
    ASSUME NEW S \in SUBSET Index, S # {}
    PROVE  Max(S) \in S /\ \A y \in S : Max(S) >= y
<1>. DEFINE T == {MaxBr - y : y \in S}
<1>1. \A y \in S : y \in Int /\ MaxBr - y \in Nat
  BY Bounds
<1>2. T \in SUBSET Nat /\ T # {}
  BY <1>1
<1>3. PICK z \in T : \A u \in T : z <= u
  BY <1>2, LeastNat
<1>4. PICK x \in S : z = MaxBr - x
  BY <1>3
<1>5. \A y \in S : x >= y
  <2>. SUFFICES ASSUME NEW y \in S PROVE x >= y
    OBVIOUS
  <2>1. z <= MaxBr - y
    BY <1>3
  <2>. QED BY <2>1, <1>1, <1>4, Bounds
<1>. QED BY <1>5 DEF Max

(* Insertion into the branch table and removal from it (add_bp, br_del). *)
LEMMA InsertFacts ==
    ASSUME NEW E, NEW s \in Seq(E), NEW e \in E, NEW i \in 1 .. Len(s) + 1
    PROVE  /\ InsertAt(s, i, e) \in Seq(E) /\ Len(InsertAt(s, i, e)) = Len(s) + 1
           /\ \A j \in 1 .. Len(s) + 1 :
                 InsertAt(s, i, e)[j] = IF j < i THEN s[j] ELSE IF j = i THEN e ELSE s[j - 1]
<1>. DEFINE A == SubSeq(s, 1, i - 1)
            B == SubSeq(s, i, Len(s))
<1>1. Len(s) \in Nat /\ i \in Nat /\ i >= 1 /\ i <= Len(s) + 1
  OBVIOUS
<1>2. A \in Seq(E) /\ Len(A) = i - 1 /\ \A j \in 1 .. i - 1 : A[j] = s[j]
  BY <1>1
<1>3. B \in Seq(E) /\ Len(B) = Len(s) - i + 1 /\ \A j \in 1 .. Len(s) - i + 1 : B[j] = s[i + j - 1]
  BY <1>1
<1>. HIDE DEF A, B
<1>4. InsertAt(s, i, e) = (A \o <<e>>) \o B
  BY DEF InsertAt, A, B
<1>5. /\ A \o <<e>> \in Seq(E) /\ Len(A \o <<e>>) = i
      /\ \A j \in 1 .. i : (A \o <<e>>)[j] = IF j < i THEN s[j] ELSE e
  BY <1>1, <1>2
<1>. DEFINE AE == A \o <<e>>
            R == InsertAt(s, i, e)
<1>. HIDE DEF AE
<1>6. R = AE \o B /\ AE \in Seq(E) /\ Len(AE) = i
  BY <1>4, <1>5 DEF AE
<1>7. R \in Seq(E) /\ Len(R) = Len(AE) + Len(B)
  BY <1>3, <1>6, ConcatProperties
<1>8. \A j \in 1 .. Len(s) + 1 : R[j] = IF j <= i THEN AE[j] ELSE B[j - i]
  BY <1>1, <1>3, <1>6
<1>. HIDE DEF R
<1>9. \A j \in 1 .. i : AE[j] = IF j < i THEN s[j] ELSE e
  BY <1>5 DEF AE
<1>10. ASSUME NEW j \in 1 .. Len(s) + 1
       PROVE  R[j] = IF j < i THEN s[j] ELSE IF j = i THEN e ELSE s[j - 1]
  <2>1. CASE j <= i
    BY <2>1, <1>1, <1>8, <1>9
  <2>2. CASE j > i
    <3>1. j - i \in 1 .. Len(s) - i + 1 /\ i + (j - i) - 1 = j - 1
      BY <2>2, <1>1
    <3>2. B[j - i] = s[j - 1]
      BY <3>1, <1>3
    <3>. QED BY <3>2, <2>2, <1>1, <1>8
  <2>. QED BY <2>1, <2>2, <1>1
<1>11. Len(R) = Len(s) + 1
  BY <1>7, <1>1, <1>3, <1>6
<1>. QED BY <1>7, <1>10, <1>11 DEF R

LEMMA RemoveFacts ==
    ASSUME NEW E, NEW s \in Seq(E), NEW i \in 1 .. Len(s)
    PROVE  /\ RemoveAt(s, i) \in Seq(E) /\ Len(RemoveAt(s, i)) = Len(s) - 1
           /\ \A j \in 1 .. Len(s) - 1 :
                 RemoveAt(s, i)[j] = IF j < i THEN s[j] ELSE s[j + 1]
<1>. DEFINE A == SubSeq(s, 1, i - 1)
            B == SubSeq(s, i + 1, Len(s))
<1>1. Len(s) \in Nat /\ i \in Nat /\ i >= 1 /\ i <= Len(s)
  OBVIOUS
<1>2. A \in Seq(E) /\ Len(A) = i - 1 /\ \A j \in 1 .. i - 1 : A[j] = s[j]
  BY <1>1
<1>3. B \in Seq(E) /\ Len(B) = Len(s) - i /\ \A j \in 1 .. Len(s) - i : B[j] = s[i + j]
  BY <1>1
<1>. HIDE DEF A, B
<1>4. RemoveAt(s, i) = A \o B
  BY DEF RemoveAt, A, B
<1>. DEFINE R == RemoveAt(s, i)
<1>5. R \in Seq(E) /\ Len(R) = Len(A) + Len(B)
  BY <1>2, <1>3, <1>4, ConcatProperties
<1>6. \A j \in 1 .. Len(s) - 1 : R[j] = IF j <= i - 1 THEN A[j] ELSE B[j - (i - 1)]
  BY <1>1, <1>2, <1>3, <1>4
<1>. HIDE DEF R
<1>7. ASSUME NEW j \in 1 .. Len(s) - 1 PROVE R[j] = IF j < i THEN s[j] ELSE s[j + 1]
  <2>1. CASE j < i
    BY <2>1, <1>1, <1>2, <1>6
  <2>2. CASE ~(j < i)
    <3>1. j - (i - 1) \in 1 .. Len(s) - i /\ i + (j - (i - 1)) = j + 1
      BY <2>2, <1>1
    <3>2. B[j - (i - 1)] = s[j + 1]
      BY <3>1, <1>3
    <3>. QED BY <3>2, <2>2, <1>1, <1>6
  <2>. QED BY <2>1, <2>2, <1>1
<1>8. Len(R) = Len(s) - 1
  BY <1>5, <1>1, <1>2, <1>3
<1>. QED BY <1>5, <1>7, <1>8 DEF R

LEMMA TabFacts ==
    ASSUME RefType
    PROVE  /\ Len(tab) \in Nat /\ 1 <= Len(tab) /\ Len(tab) <= MaxBr
           /\ SBend \in Slot /\ SBend = Len(tab) - 1 /\ SBend \in Int
           /\ \A i \in 1 .. Len(tab) : /\ tab[i] \in [path : Path, id : Nat \ {0}]
                                       /\ tab[i].path \in Path /\ tab[i].id \in Nat /\ tab[i].id # 0
                                       /\ tab[i].path # NoPath /\ i - 1 \in Slot
           /\ \A b \in Slot : b <= SBend => b + 1 \in 1 .. Len(tab)
<1>1. Len(tab) \in Nat /\ 1 <= Len(tab) /\ Len(tab) <= MaxBr
  BY Bounds DEF RefType
<1>2. \A i \in 1 .. Len(tab) : tab[i] \in [path : Path, id : Nat \ {0}]
  <2>1. tab \in Seq([path : Path, id : Nat \ {0}])
    BY DEF RefType, TabType
  <2>. QED BY <2>1, ElementOfSeq
<1>3. SBend = Len(tab) - 1
  BY DEF SBend
<1>. QED BY <1>1, <1>2, <1>3, Bounds, PathAssumption

LEMMA DentFacts ==
    ASSUME RefType, NEW n \in Name
    PROVE  /\ dentry[n] \in DentType
           /\ dentry[n].hd \in HdType /\ dentry[n].hi \in HiType
           /\ dentry[n].bstart \in Index /\ dentry[n].bend \in Index
           /\ dentry[n].bwh \in Index /\ dentry[n].bopq \in Index
           /\ dentry[n].ibstart \in Index /\ dentry[n].ibend \in Index
           /\ dentry[n].gen \in Nat /\ dentry[n].igen \in Nat /\ dentry[n].alloc \in Nat
           /\ dentry[n].cached \in BOOLEAN /\ dentry[n].use \in BOOLEAN
           /\ dentry[n].type \in {"neg", "file", "dir"}
BY DEF RefType, DentType

LEMMA JobFacts ==
    ASSUME RefType
    PROVE  /\ job.pc \in AllSteps /\ job.n \in Name /\ job.goal \in Name
           /\ job.ret \in {"idle", "dirs", "opts"} /\ job.b \in -1 .. MaxBr /\ job.b \in Int
           /\ job.e \in Index /\ job.bwh \in Index /\ job.bopq \in Index
           /\ job.opts \in 0 .. MaxOpt /\ job.opts \in Nat
BY Bounds DEF RefType, JobType

(* The parent of the dentry can be looked into. *)
ParReady(n) == n = "f" => Live("d") /\ ~Looping("d")

LEMMA TailFacts ==
    ASSUME NEW x \in DentType
    PROVE  /\ DbTail(x) \in Index /\ DbTailDir(x) \in Index
           /\ DbTail(x) <= x.bend /\ DbTailDir(x) <= DbTail(x)
<1>1. x.bstart \in Index /\ x.bend \in Index /\ x.bwh \in Index /\ x.bopq \in Index
  BY DEF DentType
<1>2. DbTail(x) \in Index /\ DbTail(x) <= x.bend
  <2>1. CASE x.bend >= 0 /\ x.bwh = 0
    BY <2>1, <1>1, Bounds DEF DbTail
  <2>2. CASE x.bend >= 0 /\ 0 < x.bwh /\ x.bwh < x.bend
    BY <2>2, <1>1, Bounds DEF DbTail
  <2>3. CASE ~(x.bend >= 0 /\ x.bwh = 0) /\ ~(x.bend >= 0 /\ 0 < x.bwh /\ x.bwh < x.bend)
    BY <2>3, <1>1, Bounds DEF DbTail
  <2>. QED BY <2>1, <2>2, <2>3
<1>3. DbTail(x) \in Int /\ x.bopq \in Int
  BY <1>1, <1>2, Bounds
<1>4. CASE 0 <= x.bopq /\ x.bopq < DbTail(x)
  <2>1. DbTailDir(x) = x.bopq
    BY <1>4 DEF DbTailDir
  <2>. QED BY <2>1, <1>1, <1>2, <1>3, <1>4
<1>5. CASE ~(0 <= x.bopq /\ x.bopq < DbTail(x))
  <2>1. DbTailDir(x) = DbTail(x)
    BY <1>5 DEF DbTailDir
  <2>. QED BY <2>1, <1>2, <1>3
<1>. QED BY <1>4, <1>5

LEMMA ParFacts ==
    ASSUME RefType, TabOk, HdOk, NEW n \in Name, ParReady(n)
    PROVE  /\ Par(n) \in HdType
           /\ \A b \in Slot : Par(n)[b] = ParHd(n, b)
           /\ \A b, c \in Slot : Par(n)[b] # NoPath /\ Par(n)[b] = Par(n)[c] => b = c
           /\ ParStart(n) \in Slot /\ ParEnd(n) \in Slot /\ ParTail(n) \in Index
           /\ ParTail(n) <= ParEnd(n)
           /\ \A b \in Slot : Par(n)[b] # NoPath => ParStart(n) <= b /\ b <= ParEnd(n)
           /\ n = "d" => \A b \in Slot : Par(n)[b] = IF b <= SBend THEN tab[b + 1].path ELSE NoPath
           /\ n = "f" => \A b \in Slot : Par(n)[b] = dentry["d"].hd[b]
<1>1. \A b \in Slot : Par(n)[b] = ParHd(n, b)
  BY DEF Par
<1>2. CASE n = "d"
  <2>1. \A b \in Slot : Par(n)[b] = IF b <= SBend THEN tab[b + 1].path ELSE NoPath
    BY <1>1, <1>2 DEF ParHd
  <2>2. \A b \in Slot : Par(n)[b] \in Path \cup {NoPath}
    BY <2>1, TabFacts
  <2>3. Par(n) \in HdType
    BY <2>2 DEF Par, HdType
  <2>4. ASSUME NEW b \in Slot, NEW c \in Slot, Par(n)[b] # NoPath, Par(n)[b] = Par(n)[c]
        PROVE  b = c
    <3>1. b <= SBend /\ c <= SBend /\ tab[b + 1].path = tab[c + 1].path
      BY <2>1, <2>4
    <3>2. b + 1 = c + 1
      BY <3>1, TabFacts DEF TabOk
    <3>. QED BY <3>2, Bounds
  <2>5. ParStart(n) = 0 /\ ParEnd(n) = SBend /\ ParTail(n) = SBend
    BY <1>2 DEF ParStart, ParEnd, ParTail
  <2>6. \A b \in Slot : Par(n)[b] # NoPath => ParStart(n) <= b /\ b <= ParEnd(n)
    BY <2>1, <2>5, Bounds
  <2>7. SBend <= SBend
    BY TabFacts
  <2>. QED BY <1>1, <1>2, <2>1, <2>3, <2>4, <2>5, <2>6, <2>7, TabFacts, Bounds
<1>3. CASE n = "f"
  <2>. DEFINE x == dentry["d"]
  <2>1. x \in DentType /\ x.hd \in HdType /\ x.bstart \in Index /\ x.bend \in Index
    BY DentFacts DEF Name
  <2>2. HdRec(x, Pos("d")) /\ Ranged(x)
    BY <1>3 DEF HdOk, ParReady, Name
  <2>. HIDE DEF x
  <2>3. ASSUME NEW b \in Slot PROVE Par(n)[b] = x.hd[b]
    <3>1. CASE b >= x.bstart
      BY <3>1, <1>1, <1>3 DEF ParHd, x
    <3>2. CASE ~(b >= x.bstart)
      <4>1. Par(n)[b] = NoPath
        BY <3>2, <1>1, <1>3 DEF ParHd, x
      <4>2. b \notin Hd(x)
        BY <3>2, <2>1, <2>2, Bounds DEF Ranged
      <4>. QED BY <4>1, <4>2 DEF Hd
    <3>. QED BY <3>1, <3>2
  <2>4. Par(n) \in HdType
    BY <2>1, <2>3 DEF Par, HdType
  <2>5. \A b, c \in Slot : Par(n)[b] # NoPath /\ Par(n)[b] = Par(n)[c] => b = c
    BY <2>2, <2>3 DEF HdRec, Hd
  <2>6. ParStart(n) = x.bstart /\ ParEnd(n) = x.bend /\ ParTail(n) = DbTailDir(x)
    BY <1>3 DEF ParStart, ParEnd, ParTail, x
  <2>7. \A b \in Slot : Par(n)[b] # NoPath => ParStart(n) <= b /\ b <= ParEnd(n)
    BY <2>2, <2>3, <2>6 DEF Ranged, Hd
  <2>8. x.bstart \in Slot /\ x.bend \in Slot
    BY <2>1, <2>2, Bounds DEF HdRec
  <2>9. DbTailDir(x) \in Index /\ DbTailDir(x) <= x.bend
    <3>1. /\ DbTail(x) \in Index /\ DbTailDir(x) \in Index
          /\ DbTail(x) <= x.bend /\ DbTailDir(x) <= DbTail(x)
      BY <2>1, TailFacts
    <3>2. DbTail(x) \in Int /\ DbTailDir(x) \in Int /\ x.bend \in Int
      BY <3>1, <2>1, Bounds
    <3>. QED BY <3>1, <3>2
  <2>. QED BY <1>1, <1>3, <2>3, <2>4, <2>5, <2>6, <2>7, <2>8, <2>9 DEF x
<1>. QED BY <1>2, <1>3 DEF Name

(* The slot that find_db_index finds. *)
LEMMA FindFacts ==
    ASSUME RefType, TabOk, HdOk, NEW n \in Name, ParReady(n), NEW p \in Path
    PROVE  \/ FindDbIndex(n, p) = -1 /\ \A b \in Slot : Par(n)[b] # p
           \/ FindDbIndex(n, p) \in Slot /\ Par(n)[FindDbIndex(n, p)] = p
<1>. DEFINE S == {b \in ParStart(n) .. ParEnd(n) : ParHd(n, b) = p}
<1>1. FindDbIndex(n, p) = IF S = {} THEN -1 ELSE Min(S)
  BY DEF FindDbIndex
<1>2. \A b \in ParStart(n) .. ParEnd(n) : b \in Slot
  <2>1. ParStart(n) \in Nat /\ ParEnd(n) \in Nat /\ ParEnd(n) <= MaxBr - 1 /\ 0 <= ParStart(n)
    BY ParFacts, Bounds
  <2>. QED BY <2>1, Bounds
<1>3. \A b \in Slot : Par(n)[b] = p => b \in S
  BY ParFacts, PathAssumption, Bounds
<1>4. S \in SUBSET Index
  BY <1>2, Bounds
<1>5. CASE S = {}
  BY <1>1, <1>3, <1>5
<1>6. CASE S # {}
  <2>1. Min(S) \in S
    BY <1>4, <1>6, MinSlot
  <2>2. Min(S) \in Slot /\ ParHd(n, Min(S)) = p
    BY <2>1, <1>2
  <2>. QED BY <2>2, <1>1, <1>6, ParFacts
<1>. QED BY <1>5, <1>6

-----------------------------------------------------------------------------
(* Steps by what they change. *)

(* What the invariant says of the table and the dentries. *)
Kept == RefType /\ TabOk /\ CacheOk /\ HdOk /\ HiOk /\ HdNow /\ HiNow

Quietly == disk' = disk /\ tab' = tab /\ lastid' = lastid /\ sigen' = sigen
           /\ failed' \in BOOLEAN /\ fails' \in 0 .. MaxFail

LEMMA PosSame ==
    ASSUME disk' = disk, NEW n \in Name
    PROVE  Pos(n)' = Pos(n)
BY DEF Pos, TypeOn

(* Steps of the job that change no dentry. *)
LEMMA JobOnly ==
    ASSUME RefInv, Quietly, dentry' = dentry, job' \in JobType,
           job'.opts = 0 => job.opts = 0,
           job.pc = "hd" => job'.pc = "hd" /\ job'.n = job.n
    PROVE  Kept'
<1>1. RefType'
  BY DEF RefInv, RefType, Quietly
<1>2. TabOk'
  BY DEF RefInv, TabOk, Quietly
<1>3. CacheOk'
  BY DEF RefInv, CacheOk, Live, Quietly
<1>4. \A n \in Name : Pos(n)' = Pos(n) /\ Live(n)' = Live(n) /\ (~Looping(n)' => ~Looping(n))
  BY PosSame DEF Quietly, Live, Looping
<1>5. HdOk'
  BY <1>4 DEF RefInv, HdOk
<1>6. HiOk'
  BY <1>4 DEF RefInv, HiOk, Quietly
<1>7. HdNow' /\ HiNow'
  BY <1>4 DEF RefInv, HdNow, HiNow, Quietly
<1>. QED BY <1>1, <1>2, <1>3, <1>5, <1>6, <1>7 DEF Kept

(* Steps that give dentry n the new record y. *)
LEMMA OneDent ==
    ASSUME RefInv, Quietly, NEW n \in Name, NEW y \in DentType,
           dentry' = [dentry EXCEPT ![n] = y], job' \in JobType, job.opts = 0,
           job.pc = "hd" => job.n = n, Live(n),
           y.cached = dentry[n].cached, y.type = dentry[n].type, y.use = dentry[n].use,
           y.gen <= sigen, y.igen <= sigen, y.igen = sigen => y.gen = sigen,
           HdRec(y, Pos(n)), ~(job'.pc = "hd" /\ job'.n = n) => Ranged(y),
           HiRec(y, tab, lastid), n = "f" => Under(y, dentry["d"], tab),
           y.gen = sigen => Now(y, tab) /\ (n = "f" => Nested(y, dentry["d"])),
           y.igen = sigen => INow(y, tab),
           n = "d" => \A i \in 1 .. Len(tab) : Has(dentry["d"], tab[i].path) => Has(y, tab[i].path)
    PROVE  Kept'
<1>1. RefType /\ TabOk /\ CacheOk /\ HdOk /\ HiOk /\ HdNow /\ HiNow
  BY DEF RefInv
<1>2. dentry'[n] = y /\ \A m \in Name : m # n => dentry'[m] = dentry[m]
  BY <1>1 DEF RefType
<1>3. RefType'
  BY <1>1 DEF RefType, Quietly
<1>4. TabOk'
  BY <1>1 DEF TabOk, Quietly
<1>5. \A m \in Name : /\ dentry'[m].cached = dentry[m].cached /\ dentry'[m].use = dentry[m].use
                      /\ dentry'[m].type = dentry[m].type
  BY <1>2
<1>6. \A m \in Name : Live(m)' = Live(m) /\ Pos(m)' = Pos(m)
  BY <1>5, PosSame DEF Live, Quietly
<1>7. CacheOk'
  <2>1. dentry'["f"].cached => Live("d")' /\ dentry'["d"].type = "dir"
    BY <1>1, <1>5, <1>6 DEF CacheOk, Name
  <2>2. ASSUME NEW m \in Name
        PROVE  /\ dentry'[m].use => dentry'[m].cached
               /\ dentry'[m].gen <= sigen' /\ dentry'[m].igen <= sigen'
               /\ Live(m)' /\ dentry'[m].igen = sigen' => dentry'[m].gen = sigen'
    BY <1>1, <1>2, <1>5, <1>6 DEF CacheOk, Quietly
  <2>. QED BY <2>1, <2>2 DEF CacheOk
<1>8. HdOk'
  <2>. SUFFICES ASSUME NEW m \in Name, Live(m)'
                PROVE  HdRec(dentry'[m], Pos(m)') /\ (~Looping(m)' => Ranged(dentry'[m]))
    BY DEF HdOk
  <2>1. CASE m = n
    BY <2>1, <1>2, <1>6 DEF Looping
  <2>2. CASE m # n
    BY <2>2, <1>1, <1>2, <1>6 DEF HdOk, Looping
  <2>. QED BY <2>1, <2>2
<1>9. HiOk'
  <2>. SUFFICES ASSUME NEW m \in Name, Live(m)'
                PROVE  /\ HiRec(dentry'[m], tab, lastid)
                       /\ m = "f" => Under(dentry'["f"], dentry'["d"], tab)
    BY DEF HiOk, Quietly
  <2>1. HiRec(dentry'[m], tab, lastid)
    BY <1>1, <1>2, <1>6 DEF HiOk
  <2>2. ASSUME m = "f" PROVE Under(dentry'["f"], dentry'["d"], tab)
    <3>1. CASE n = "f"
      BY <3>1, <1>2 DEF Name
    <3>2. CASE n = "d"
      <4>1. Under(dentry["f"], dentry["d"], tab) /\ dentry'["f"] = dentry["f"]
        BY <3>2, <2>2, <1>1, <1>2, <1>6 DEF HiOk, Name
      <4>2. Under(dentry["f"], y, tab)
        BY <3>2, <4>1 DEF Under
      <4>. QED BY <4>1, <4>2, <3>2, <1>2
    <3>. QED BY <3>1, <3>2 DEF Name
  <2>. QED BY <2>1, <2>2
<1>10. HdNow'
  <2>. SUFFICES ASSUME NEW m \in Name, Live(m)', dentry'[m].gen = sigen
                PROVE  Now(dentry'[m], tab) /\ (m = "f" => Nested(dentry'["f"], dentry'["d"]))
    BY DEF HdNow, Quietly
  <2>1. Now(dentry'[m], tab)
    BY <1>1, <1>2, <1>6 DEF HdNow
  <2>2. ASSUME m = "f" PROVE Nested(dentry'["f"], dentry'["d"])
    <3>1. CASE n = "f"
      BY <3>1, <2>2, <1>2 DEF Name
    <3>2. CASE n = "d"
      <4>1. dentry'["f"] = dentry["f"] /\ dentry'["d"] = y /\ Live("f")
        BY <3>2, <2>2, <1>2, <1>6 DEF Name
      <4>2. Nested(dentry["f"], dentry["d"]) /\ Now(dentry["f"], tab)
        BY <4>1, <2>2, <1>1 DEF HdNow, Name
      <4>3. ASSUME NEW b \in Hd(dentry["f"]) PROVE Has(y, dentry["f"].hd[b])
        <5>1. b \in Slot /\ b <= SBend /\ dentry["f"].hd[b] = tab[b + 1].path
          BY <4>2 DEF Now, Hd, SBend
        <5>2. b + 1 \in 1 .. Len(tab)
          BY <5>1, <1>1, TabFacts
        <5>. QED BY <5>1, <5>2, <4>2, <3>2 DEF Nested
      <4>. QED BY <4>1, <4>3 DEF Nested
    <3>. QED BY <3>1, <3>2 DEF Name
  <2>. QED BY <2>1, <2>2
<1>11. HiNow'
  BY <1>1, <1>2, <1>6 DEF HiNow, Quietly
<1>. QED BY <1>3, <1>4, <1>7, <1>8, <1>9, <1>10, <1>11 DEF Kept

Rest == JobOk /\ ParentOk /\ LoopOk

LEMMA Parts ==
    ASSUME Kept', Rest'
    PROVE  RefInv'
BY DEF Kept, Rest, RefInv

LEMMA IdleType == Idle \in JobType /\ Idle.pc = "idle" /\ Idle.opts = 0 /\ Idle.ret = "idle"
BY Bounds DEF Idle, JobType, AllSteps, Name

LEMMA LockStep ==
    ASSUME RefInv, LockRemount
    PROVE  RefInv'
<1>1. /\ job.pc = "shrunk" /\ job' = [job EXCEPT !.pc = "opts"]
      /\ UNCHANGED <<branches, dentry, fails>>
  BY DEF LockRemount
<1>2. job' \in JobType /\ job'.pc = "opts" /\ job'.ret = job.ret /\ job'.opts = job.opts
  BY <1>1 DEF RefInv, RefType, JobType, AllSteps
<1>3. Kept'
  BY <1>1, <1>2, JobOnly DEF branches, Quietly, RefInv, RefType
<1>4. Rest'
  BY <1>1, <1>2 DEF RefInv, Rest, JobOk, ParentOk, LoopOk, InRemount, Settled, branches, Refreshing, HdSteps, HiSteps
<1>. QED BY <1>3, <1>4, Parts

LEMMA BusyStep ==
    ASSUME RefInv, NEW b \in Slot, BrDelBusy(b)
    PROVE  RefInv'
<1>1. /\ job.pc = "opts" /\ job' = [job EXCEPT !.opts = MaxOpt] /\ job.opts < MaxOpt
      /\ UNCHANGED <<branches, dentry, fails>>
  BY DEF BrDelBusy
<1>2. /\ job' \in JobType /\ job'.pc = "opts" /\ job'.ret = job.ret /\ job'.opts = MaxOpt
      /\ job'.opts # 0
  <2>1. MaxOpt \in 0 .. MaxOpt /\ MaxOpt # 0
    BY <1>1, Bounds, JobFacts DEF RefInv
  <2>. QED BY <1>1, <2>1 DEF RefInv, RefType, JobType, AllSteps
<1>3. Kept'
  BY <1>1, <1>2, JobOnly DEF branches, Quietly, RefInv, RefType
<1>4. Rest'
  BY <1>1, <1>2 DEF RefInv, Rest, JobOk, ParentOk, LoopOk, InRemount, Settled, branches, Refreshing, HdSteps, HiSteps
<1>. QED BY <1>3, <1>4, Parts

LEMMA RevalForDelStep ==
    ASSUME MaxOpt <= 1, RefInv, NEW n \in Name, RevalForDel(n)
    PROVE  RefInv'
<1>1. /\ job.pc = "opts" /\ job.opts < MaxOpt /\ Stale(n)
      /\ job' = [job EXCEPT !.pc = "reval", !.goal = n, !.ret = "opts"]
      /\ UNCHANGED <<branches, dentry, fails>>
  BY DEF RevalForDel
<1>2. /\ job' \in JobType /\ job'.pc = "reval" /\ job'.ret = "opts" /\ job'.opts = job.opts
      /\ job'.goal = n
  BY <1>1 DEF RefInv, RefType, JobType, AllSteps
<1>3. job.opts = 0
  BY <1>1, Bounds, JobFacts DEF RefInv
<1>4. Live(n)
  BY <1>1 DEF Stale, Used, Live, RefInv, CacheOk, Name
<1>5. Live(n)'
  BY <1>1, <1>4 DEF Live
<1>6. Kept'
  BY <1>1, <1>2, JobOnly DEF branches, Quietly, RefInv, RefType
<1>7. Rest'
  BY <1>1, <1>2, <1>3, <1>5 DEF RefInv, Rest, JobOk, ParentOk, LoopOk, InRemount, Settled, branches, Refreshing, HdSteps, HiSteps
<1>. QED BY <1>6, <1>7, Parts

LEMMA EndOptsStep ==
    ASSUME RefInv, EndOpts
    PROVE  RefInv'
<1>1. job.pc = "opts" /\ UNCHANGED <<disk, tab, lastid, dentry, fails>>
  BY DEF EndOpts
<1>2. CASE job.opts = 0
  <2>1. job' = Idle /\ sigen' = sigen /\ failed' = failed
    BY <1>2 DEF EndOpts
  <2>2. Kept'
    BY <1>1, <1>2, <2>1, IdleType, JobOnly DEF Quietly, RefInv, RefType
  <2>3. Rest'
    BY <1>1, <2>1, IdleType DEF RefInv, Rest, JobOk, ParentOk, LoopOk, InRemount, Settled, Refreshing, HdSteps, HiSteps
  <2>. QED BY <2>2, <2>3, Parts
<1>3. CASE job.opts # 0
  <2>1. job' = [Idle EXCEPT !.pc = "dirs", !.ret = "dirs"] /\ sigen' = sigen + 1 /\ failed' = FALSE
    BY <1>3 DEF EndOpts
  <2>2. job' \in JobType /\ job'.pc = "dirs" /\ job'.opts = 0 /\ job'.ret = "dirs"
    BY <2>1, IdleType DEF JobType, AllSteps
  <2>3. sigen < MaxRemount
    BY <1>1 DEF RefInv, JobOk, InRemount
  <2>4. RefType /\ TabOk /\ CacheOk /\ HdOk /\ HiOk
    BY DEF RefInv
  <2>5. RefType'
    <3>1. sigen' \in 0 .. MaxRemount
      BY <2>1, <2>3, <2>4, Bounds DEF RefType
    <3>. QED BY <1>1, <2>1, <2>2, <2>4, <3>1 DEF RefType
  <2>6. TabOk'
    BY <1>1, <2>4 DEF TabOk
  <2>7. \A n \in Name : /\ Live(n)' = Live(n) /\ Pos(n)' = Pos(n) /\ ~Looping(n)
                        /\ dentry[n].gen \in Nat /\ dentry[n].igen \in Nat
                        /\ dentry[n].gen < sigen' /\ dentry[n].igen < sigen'
    BY <1>1, <2>1, <2>4, DentFacts, PosSame, Bounds DEF Live, Looping, CacheOk, RefType
  <2>8. CacheOk'
    <3>1. dentry'["f"].cached => Live("d")' /\ dentry'["d"].type = "dir"
      BY <1>1, <2>4, <2>7 DEF CacheOk, Name
    <3>2. sigen' \in Nat
      BY <2>1, <2>4, Bounds DEF RefType
    <3>3. ASSUME NEW n \in Name
          PROVE  /\ dentry'[n].use => dentry'[n].cached
                 /\ dentry'[n].gen <= sigen' /\ dentry'[n].igen <= sigen'
                 /\ dentry'[n].igen # sigen'
      <4>1. /\ dentry[n].gen \in Nat /\ dentry[n].igen \in Nat
            /\ dentry[n].gen < sigen' /\ dentry[n].igen < sigen'
        BY <2>7
      <4>2. dentry'[n] = dentry[n] /\ (dentry[n].use => dentry[n].cached)
        BY <1>1, <2>4 DEF CacheOk
      <4>. QED BY <3>2, <4>1, <4>2
    <3>. QED BY <3>1, <3>3 DEF CacheOk
  <2>9. HdOk' /\ HiOk'
    BY <1>1, <2>4, <2>7 DEF HdOk, HiOk
  <2>10. HdNow' /\ HiNow'
    BY <1>1, <2>7 DEF HdNow, HiNow
  <2>11. Rest'
    BY <2>2 DEF Rest, JobOk, ParentOk, LoopOk, InRemount, Settled, Refreshing, HdSteps, HiSteps
  <2>. QED BY <2>5, <2>6, <2>8, <2>9, <2>10, <2>11, Parts DEF Kept
<1>. QED BY <1>2, <1>3

LEMMA DirsStep ==
    ASSUME RefInv, DirsRefresh \/ DirsFail
    PROVE  RefInv'
<1>1. /\ job.pc = "dirs" /\ job.ret = "dirs" /\ job.opts = 0
      /\ RefType /\ CacheOk /\ job \in JobType
  BY DEF RefInv, JobOk, RefType, DirsRefresh, DirsFail
<1>2. CASE DirsFail
  <2>1. /\ fails < MaxFail /\ fails' = fails + 1 /\ failed' = TRUE /\ job' = Idle
        /\ UNCHANGED <<disk, tab, lastid, sigen, dentry>>
    BY <1>2 DEF DirsFail
  <2>2. fails' \in 0 .. MaxFail
    BY <1>1, <2>1, Bounds DEF RefType
  <2>3. Kept'
    BY <1>1, <2>1, <2>2, IdleType, JobOnly DEF Quietly
  <2>4. Rest'
    BY <2>1, IdleType DEF Rest, JobOk, ParentOk, LoopOk, InRemount, Settled, Refreshing, HdSteps, HiSteps
  <2>. QED BY <2>3, <2>4, Parts
<1>3. CASE DirsRefresh /\ Stale("d") /\ dentry["d"].type = "dir"
  <2>1. /\ job' = [job EXCEPT !.pc = "start", !.n = "d"]
        /\ UNCHANGED <<disk, tab, lastid, sigen, failed, dentry, fails>>
    BY <1>3 DEF DirsRefresh, branches
  <2>2. /\ job' \in JobType /\ job'.pc = "start" /\ job'.n = "d" /\ job'.opts = job.opts
        /\ job'.ret = job.ret
    BY <1>1, <2>1 DEF JobType, AllSteps, Refreshing, HdSteps, Name
  <2>3. Kept'
    BY <1>1, <2>1, <2>2, JobOnly DEF Quietly, RefType
  <2>4. Live("d") /\ dentry["d"].gen # sigen /\ dentry["d"].igen # sigen
    BY <1>1, <1>3 DEF Stale, Used, Live, CacheOk, Name
  <2>5. JobOk'
    BY <1>1, <2>1, <2>2, <2>4 DEF JobOk, InRemount, Live, Refreshing, HdSteps, HiSteps
  <2>6. ParentOk' /\ LoopOk'
    BY <1>1, <2>1, <2>2 DEF ParentOk, LoopOk, Settled, Refreshing, HdSteps, HiSteps
  <2>. QED BY <2>3, <2>5, <2>6, Parts DEF Rest
<1>4. CASE DirsRefresh /\ ~(Stale("d") /\ dentry["d"].type = "dir")
  <2>1. /\ job' = Idle
        /\ UNCHANGED <<disk, tab, lastid, sigen, failed, dentry, fails>>
    BY <1>4 DEF DirsRefresh, branches
  <2>2. Kept'
    BY <1>1, <2>1, IdleType, JobOnly DEF Quietly, RefType
  <2>3. dentry["f"].cached => dentry["d"].gen = sigen
    BY <1>1, <1>4 DEF CacheOk, Stale, Used, Live
  <2>4. Rest'
    BY <2>1, <2>3, IdleType DEF Rest, JobOk, ParentOk, LoopOk, InRemount, Settled, Refreshing, HdSteps, HiSteps
  <2>. QED BY <2>2, <2>4, Parts
<1>. QED BY <1>2, <1>3, <1>4

LEMMA BeginRevalStep ==
    ASSUME RefInv, NEW n \in Name, BeginReval(n)
    PROVE  RefInv'
<1>1. /\ job.pc = "idle" /\ dentry[n].cached
      /\ job' = [Idle EXCEPT !.pc = IF dentry[n].type = "neg" THEN "oops" ELSE "reval",
                             !.goal = n, !.ret = "idle"]
      /\ UNCHANGED <<disk, tab, lastid, sigen, failed, dentry, fails>>
  BY DEF BeginReval, branches
<1>2. /\ job' \in JobType /\ job'.pc = (IF dentry[n].type = "neg" THEN "oops" ELSE "reval")
      /\ job'.goal = n /\ job'.ret = "idle" /\ job'.opts = 0
  BY <1>1, IdleType DEF JobType, AllSteps
<1>3. job.opts = 0
  BY <1>1 DEF RefInv, JobOk
<1>4. Kept'
  BY <1>1, <1>2, <1>3, JobOnly DEF Quietly, RefInv, RefType
<1>5. dentry[n].type # "neg" => Live(n)'
  BY <1>1 DEF Live
<1>6. Rest'
  BY <1>1, <1>2, <1>5 DEF RefInv, Rest, JobOk, ParentOk, LoopOk, InRemount, Settled, Refreshing, HdSteps, HiSteps
<1>. QED BY <1>4, <1>6, Parts

LEMMA RevalStepStep ==
    ASSUME RefInv, RevalStep
    PROVE  RefInv'
<1>. DEFINE g == job.goal
            n == IF failed /\ ParGen(g) # sigen THEN "d" ELSE g
<1>1. /\ job.pc = "reval"
      /\ job' = IF dentry[g].gen = sigen THEN [job EXCEPT !.pc = job.ret]
                ELSE [job EXCEPT !.pc = "start", !.n = n]
      /\ UNCHANGED <<disk, tab, lastid, sigen, failed, dentry, fails>>
  BY DEF RevalStep, branches
<1>2. /\ RefType /\ CacheOk /\ ParentOk /\ job \in JobType /\ g \in Name
      /\ job.opts = 0 /\ job.ret \in {"idle", "opts"} /\ Live(g)
  BY <1>1, JobFacts DEF RefInv, JobOk, RefType
<1>3. CASE dentry[g].gen = sigen
  <2>1. job' = [job EXCEPT !.pc = job.ret]
    BY <1>1, <1>3
  <2>2. job' \in JobType /\ job'.pc = job.ret /\ job'.opts = 0 /\ job'.ret = job.ret
    BY <1>2, <2>1 DEF JobType, AllSteps
  <2>3. Kept'
    BY <1>1, <1>2, <2>2, JobOnly DEF Quietly, RefType
  <2>4. Rest'
    BY <1>1, <1>2, <2>2 DEF RefInv, Rest, JobOk, ParentOk, LoopOk, InRemount, Settled, Refreshing, HdSteps, HiSteps
  <2>. QED BY <2>3, <2>4, Parts
<1>4. CASE dentry[g].gen # sigen
  <2>1. job' = [job EXCEPT !.pc = "start", !.n = n]
    BY <1>1, <1>4
  <2>2. n \in Name
    BY <1>2 DEF Name
  <2>3. /\ job' \in JobType /\ job'.pc = "start" /\ job'.n = n /\ job'.opts = 0
        /\ job'.ret = job.ret /\ job'.goal = g
    BY <1>2, <2>1, <2>2 DEF JobType, AllSteps, Refreshing, HdSteps
  <2>4. Kept'
    BY <1>1, <1>2, <2>3, JobOnly DEF Quietly, RefType
  <2>5. Live(n) /\ dentry[n].gen # sigen
    <3>1. CASE failed /\ ParGen(g) # sigen
      BY <3>1, <1>2 DEF ParGen, Name, CacheOk, Live
    <3>2. CASE ~(failed /\ ParGen(g) # sigen)
      BY <3>2, <1>2, <1>4
    <3>. QED BY <3>1, <3>2
  <2>6. dentry[n].igen # sigen
    BY <1>2, <2>2, <2>5 DEF CacheOk
  <2>7. n = "f" => dentry["d"].gen = sigen
    <3>. SUFFICES ASSUME n = "f" PROVE dentry["d"].gen = sigen
      OBVIOUS
    <3>1. g = "f" /\ (~failed \/ dentry["d"].gen = sigen)
      BY <1>2 DEF ParGen
    <3>2. dentry["f"].cached
      BY <3>1, <1>2 DEF Live
    <3>. QED BY <3>1, <3>2, <1>1, <1>2 DEF ParentOk, Settled
  <2>8. /\ dentry'[job'.n].cached /\ dentry'[job'.n].type # "neg"
        /\ dentry'[job'.n].gen # sigen' /\ dentry'[job'.n].igen # sigen'
        /\ dentry'[job'.goal].cached /\ dentry'[job'.goal].type # "neg"
    BY <1>1, <1>2, <2>3, <2>5, <2>6 DEF Live
  <2>9. job'.n = "f" => dentry'["d"].gen = sigen'
    BY <1>1, <2>3, <2>7
  <2>. HIDE DEF n, g
  <2>10. JobOk'
    BY <1>1, <1>2, <2>3, <2>8 DEF RefInv, JobOk, InRemount, Live, Refreshing, HdSteps, HiSteps
  <2>11. ParentOk' /\ LoopOk'
    BY <1>1, <1>2, <2>3, <2>9 DEF ParentOk, LoopOk, Settled, Refreshing, HdSteps, HiSteps
  <2>. QED BY <2>4, <2>10, <2>11, Parts DEF Rest
<1>. QED BY <1>3, <1>4

(* What a refresh that fails, or one that succeeds, returns to. *)
LEMMA ReturnFacts ==
    ASSUME RefInv, job.pc \in Refreshing, NEW ok \in BOOLEAN, Return(ok)
    PROVE  /\ job' \in JobType /\ failed' \in BOOLEAN
           /\ failed => failed'
           /\ \/ job'.pc = "idle" /\ job'.opts = 0 /\ (job.ret = "dirs" => ok \/ failed')
              \/ job'.pc = "reval" /\ job'.opts = 0 /\ job'.ret = job.ret /\ job'.goal = job.goal
                 /\ job.ret # "dirs" /\ ok
              \/ job'.pc = "opts" /\ job.ret = "opts" /\ ~ok
<1>1. /\ job \in JobType /\ job.ret \in {"idle", "dirs", "opts"} /\ failed \in BOOLEAN
      /\ MaxOpt \in 0 .. MaxOpt /\ job.opts = 0
  BY JobFacts, Bounds DEF RefInv, RefType, JobOk, Refreshing, HdSteps, HiSteps
<1>2. failed' = (failed \/ (job.ret = "dirs" /\ ~ok))
  BY DEF Return
<1>3. CASE job.ret = "dirs"
  <2>1. job' = Idle
    BY <1>3 DEF Return
  <2>. QED BY <1>1, <1>2, <1>3, <2>1, IdleType
<1>4. CASE job.ret # "dirs" /\ ok
  <2>1. job' = [job EXCEPT !.pc = "reval"]
    BY <1>4 DEF Return
  <2>2. job' \in JobType /\ job'.pc = "reval" /\ job'.ret = job.ret /\ job'.opts = job.opts
        /\ job'.goal = job.goal
    BY <1>1, <2>1 DEF JobType, AllSteps
  <2>. QED BY <1>1, <1>2, <1>4, <2>2
<1>5. CASE job.ret = "opts" /\ ~ok
  <2>1. job' = [job EXCEPT !.pc = "opts", !.opts = MaxOpt]
    BY <1>5 DEF Return
  <2>2. job' \in JobType /\ job'.pc = "opts"
    BY <1>1, <2>1 DEF JobType, AllSteps
  <2>. QED BY <1>1, <1>2, <1>5, <2>2
<1>6. CASE job.ret = "idle" /\ ~ok
  <2>1. job' = Idle
    BY <1>6 DEF Return
  <2>. QED BY <1>1, <1>2, <1>6, <2>1, IdleType
<1>. QED BY <1>1, <1>3, <1>4, <1>5, <1>6

LEMMA FailStep ==
    ASSUME RefInv, Fail
    PROVE  RefInv'
<1>1. /\ job.pc \in {"start", "look", "hstart"} /\ fails < MaxFail /\ fails' = fails + 1
      /\ Return(FALSE) /\ UNCHANGED <<disk, tab, lastid, sigen, dentry>>
  BY DEF Fail
<1>2. job.pc \in Refreshing /\ job.pc # "hd" /\ job.opts = 0
  BY <1>1 DEF Refreshing, HdSteps, HiSteps, RefInv, JobOk
<1>3. fails' \in 0 .. MaxFail
  BY <1>1, Bounds DEF RefInv, RefType
<1>4. /\ job' \in JobType /\ failed' \in BOOLEAN /\ (failed => failed')
      /\ \/ job'.pc = "idle" /\ job'.opts = 0 /\ (job.ret = "dirs" => failed')
         \/ job'.pc = "opts" /\ job.ret = "opts"
  BY <1>1, <1>2, ReturnFacts
<1>5. Kept'
  BY <1>1, <1>2, <1>3, <1>4, JobOnly DEF Quietly
<1>6. JobOk' /\ LoopOk'
  BY <1>1, <1>2, <1>4 DEF RefInv, JobOk, LoopOk, InRemount, Refreshing, HdSteps, HiSteps
<1>7. ParentOk'
  BY <1>1, <1>2, <1>4 DEF RefInv, ParentOk, Settled, Refreshing, HdSteps, HiSteps
<1>. QED BY <1>5, <1>6, <1>7, Parts DEF Rest

-----------------------------------------------------------------------------
(* The VFS. *)

LEMMA NoDentryType == NoDentry \in DentType /\ ~NoDentry.cached /\ ~NoDentry.use
                      /\ NoDentry.gen = 0 /\ NoDentry.igen = 0
<1>1. EmptyHd \in HdType /\ EmptyHi \in HiType
  BY DEF EmptyHd, EmptyHi, HdType, HiType, NoInode
<1>. QED BY <1>1, Bounds DEF NoDentry, DentType

(* Records that differ in the references and generations only. *)
LEMMA Agree ==
    ASSUME NEW x, NEW y, y.hd = x.hd, y.bstart = x.bstart, y.bend = x.bend, y.hi = x.hi,
           y.ibstart = x.ibstart, y.ibend = x.ibend
    PROVE  /\ Hd(y) = Hd(x) /\ Hi(y) = Hi(x)
           /\ \A p : Has(y, p) = Has(x, p)
           /\ \A S : HdRec(y, S) = HdRec(x, S)
           /\ Ranged(y) = Ranged(x) /\ Ends(y) = Ends(x)
           /\ y.alloc = x.alloc => \A t : Now(y, t) = Now(x, t)
           /\ \A t, m : HiRec(y, t, m) = HiRec(x, t, m)
           /\ \A t : INow(y, t) = INow(x, t)
           /\ \A z : Nested(y, z) = Nested(x, z) /\ Nested(z, y) = Nested(z, x)
           /\ \A z, t : Under(y, z, t) = Under(x, z, t) /\ Under(z, y, t) = Under(z, x, t)
<1>1. Hd(y) = Hd(x) /\ Hi(y) = Hi(x)
  BY DEF Hd, Hi
<1>2. \A p : Has(y, p) = Has(x, p)
  BY DEF Has
<1>3. \A S : HdRec(y, S) = HdRec(x, S)
  BY <1>1 DEF HdRec
<1>4. Ranged(y) = Ranged(x) /\ Ends(y) = Ends(x)
  BY <1>1 DEF Ranged, Ends
<1>5. y.alloc = x.alloc => \A t : Now(y, t) = Now(x, t)
  BY <1>1 DEF Now
<1>6. \A z, t : Under(y, z, t) = Under(x, z, t) /\ Under(z, y, t) = Under(z, x, t)
  BY <1>1, <1>2 DEF Under
<1>7. \A t, m : HiRec(y, t, m) = HiRec(x, t, m)
  BY <1>1, <1>6 DEF HiRec
<1>8. \A t : INow(y, t) = INow(x, t)
  BY <1>1 DEF INow
<1>9. \A z : Nested(y, z) = Nested(x, z) /\ Nested(z, y) = Nested(z, x)
  BY <1>1, <1>2 DEF Nested
<1>. QED BY <1>1, <1>2, <1>3, <1>4, <1>5, <1>6, <1>7, <1>8, <1>9

(* References are taken and dropped, and dentries are forgotten. *)
SameDentry(n) ==
    \E u \in BOOLEAN : dentry'[n] = [dentry[n] EXCEPT !.use = u] /\ (u => dentry[n].cached)

LEMMA FewerDents ==
    ASSUME RefInv, Quietly, failed' = failed, dentry' \in [Name -> DentType],
           job' \in JobType, job.pc \in {"idle", "shrunk"}, job'.pc \in {"idle", "shrunk"},
           job'.opts = 0, job'.pc = "shrunk" => sigen < MaxRemount,
           \A n \in Name : dentry'[n] = NoDentry \/ SameDentry(n),
           dentry'["f"].cached => dentry'["d"].cached
    PROVE  RefInv'
<1>1. RefType /\ TabOk /\ JobOk /\ CacheOk /\ ParentOk /\ HdOk /\ HiOk /\ HdNow /\ HiNow /\ job.opts = 0
  BY DEF RefInv, JobOk
<1>2. \A n \in Name : dentry'[n].cached \/ Live(n)' =>
         /\ dentry[n].cached /\ Live(n)' = Live(n)
         /\ dentry'[n].type = dentry[n].type
         /\ dentry'[n].gen = dentry[n].gen /\ dentry'[n].igen = dentry[n].igen
         /\ dentry'[n].hd = dentry[n].hd /\ dentry'[n].bstart = dentry[n].bstart
         /\ dentry'[n].bend = dentry[n].bend /\ dentry'[n].hi = dentry[n].hi
         /\ dentry'[n].ibstart = dentry[n].ibstart /\ dentry'[n].ibend = dentry[n].ibend
         /\ dentry'[n].alloc = dentry[n].alloc
  <2>. SUFFICES ASSUME NEW n \in Name, dentry'[n].cached
                PROVE  /\ dentry[n].cached /\ Live(n)' = Live(n)
                       /\ dentry'[n].type = dentry[n].type
                       /\ dentry'[n].gen = dentry[n].gen /\ dentry'[n].igen = dentry[n].igen
                       /\ dentry'[n].hd = dentry[n].hd /\ dentry'[n].bstart = dentry[n].bstart
                       /\ dentry'[n].bend = dentry[n].bend /\ dentry'[n].hi = dentry[n].hi
                       /\ dentry'[n].ibstart = dentry[n].ibstart /\ dentry'[n].ibend = dentry[n].ibend
                       /\ dentry'[n].alloc = dentry[n].alloc
    BY DEF Live
  <2>1. PICK u \in BOOLEAN : dentry'[n] = [dentry[n] EXCEPT !.use = u]
    BY NoDentryType DEF SameDentry
  <2>2. dentry[n] \in DentType
    BY <1>1, DentFacts
  <2>. QED BY <2>1, <2>2 DEF DentType, Live
<1>3. RefType'
  BY <1>1 DEF RefType, Quietly
<1>4. TabOk'
  BY <1>1 DEF TabOk, Quietly
<1>5. CacheOk'
  <2>1. dentry'["f"].cached => Live("d")' /\ dentry'["d"].type = "dir"
    BY <1>1, <1>2 DEF CacheOk, Name
  <2>2. ASSUME NEW n \in Name
        PROVE  /\ dentry'[n].use => dentry'[n].cached
               /\ dentry'[n].gen <= sigen' /\ dentry'[n].igen <= sigen'
               /\ Live(n)' /\ dentry'[n].igen = sigen' => dentry'[n].gen = sigen'
    <3>1. CASE dentry'[n] = NoDentry
      BY <3>1, <1>1, NoDentryType, Bounds DEF Quietly, RefType, Live
    <3>2. CASE SameDentry(n)
      <4>1. PICK u \in BOOLEAN : dentry'[n] = [dentry[n] EXCEPT !.use = u] /\ (u => dentry[n].cached)
        BY <3>2 DEF SameDentry
      <4>2. dentry[n] \in DentType
        BY <1>1, DentFacts
      <4>. QED BY <4>1, <4>2, <1>1 DEF CacheOk, Quietly, DentType, Live
    <3>. QED BY <3>1, <3>2
  <2>. QED BY <2>1, <2>2 DEF CacheOk
<1>6. \A n \in Name : Live(n)' =>
         /\ \A p : Has(dentry'[n], p) = Has(dentry[n], p)
         /\ \A S : HdRec(dentry'[n], S) = HdRec(dentry[n], S)
         /\ Ranged(dentry'[n]) = Ranged(dentry[n])
         /\ \A t : Now(dentry'[n], t) = Now(dentry[n], t)
         /\ \A t, m : HiRec(dentry'[n], t, m) = HiRec(dentry[n], t, m)
         /\ \A t : INow(dentry'[n], t) = INow(dentry[n], t)
  BY <1>2, Agree
<1>7. \A n \in Name : Pos(n)' = Pos(n) /\ ~Looping(n)
  BY PosSame DEF Quietly, Looping
<1>8. HdOk'
  BY <1>1, <1>2, <1>6, <1>7 DEF HdOk
<1>9. Live("f")' => /\ Live("f") /\ Live("d")'
                    /\ Under(dentry'["f"], dentry'["d"], tab) = Under(dentry["f"], dentry["d"], tab)
                    /\ Nested(dentry'["f"], dentry'["d"]) = Nested(dentry["f"], dentry["d"])
  <2>. SUFFICES ASSUME Live("f")'
                PROVE  /\ Live("f") /\ Live("d")'
                       /\ Under(dentry'["f"], dentry'["d"], tab) = Under(dentry["f"], dentry["d"], tab)
                       /\ Nested(dentry'["f"], dentry'["d"]) = Nested(dentry["f"], dentry["d"])
    OBVIOUS
  <2>1. Live("f") /\ Live("d")'
    BY <1>2, <1>5 DEF CacheOk, Live, Name
  <2>2. PICK x, y, z, w : x = dentry["f"] /\ y = dentry'["f"] /\ z = dentry["d"] /\ w = dentry'["d"]
    OBVIOUS
  <2>3. Under(y, w, tab) = Under(x, w, tab) /\ Nested(y, w) = Nested(x, w)
    BY <1>2, <2>1, <2>2, Agree DEF Name
  <2>4. Under(x, w, tab) = Under(x, z, tab) /\ Nested(x, w) = Nested(x, z)
    BY <1>2, <2>1, <2>2, Agree DEF Name
  <2>. QED BY <2>1, <2>2, <2>3, <2>4
<1>10. HiOk'
  <2>. SUFFICES ASSUME NEW m \in Name, Live(m)'
                PROVE  /\ HiRec(dentry'[m], tab, lastid)
                       /\ m = "f" => Under(dentry'["f"], dentry'["d"], tab)
    BY DEF HiOk, Quietly
  <2>. QED BY <1>1, <1>2, <1>6, <1>9 DEF HiOk
<1>11. HdNow'
  <2>. SUFFICES ASSUME NEW m \in Name, Live(m)', dentry'[m].gen = sigen
                PROVE  Now(dentry'[m], tab) /\ (m = "f" => Nested(dentry'["f"], dentry'["d"]))
    BY DEF HdNow, Quietly
  <2>. QED BY <1>1, <1>2, <1>6, <1>9 DEF HdNow
<1>12. HiNow'
  BY <1>1, <1>2, <1>6 DEF HiNow, Quietly
<1>13. JobOk' /\ LoopOk'
  BY DEF JobOk, LoopOk, InRemount, Refreshing, HdSteps, HiSteps, Quietly
<1>14. ParentOk'
  <2>1. failed \/ (dentry["f"].cached => dentry["d"].gen = sigen)
    BY <1>1 DEF ParentOk, Settled
  <2>2. dentry'["f"].cached => dentry["f"].cached /\ dentry'["d"].gen = dentry["d"].gen
    BY <1>2 DEF Name
  <2>. QED BY <2>1, <2>2 DEF ParentOk, Refreshing, HdSteps, HiSteps, Quietly
<1>. QED BY <1>3, <1>4, <1>5, <1>8, <1>10, <1>11, <1>12, <1>13, <1>14 DEF RefInv

LEMMA VfsStep ==
    ASSUME RefInv, NEW n \in Name, Release(n) \/ Walk(n) \/ Invalidate(n)
    PROVE  RefInv'
<1>1. RefType /\ JobOk /\ CacheOk
  BY DEF RefInv
<1>2. /\ job.pc \in {"idle", "shrunk"} /\ job' = job
      /\ UNCHANGED <<disk, tab, lastid, sigen, failed, fails>>
  BY DEF Release, Walk, Invalidate, Inside, branches
<1>3. /\ job' \in JobType /\ job'.opts = 0 /\ (job'.pc = "shrunk" => sigen < MaxRemount)
      /\ Quietly
  BY <1>1, <1>2 DEF RefType, JobOk, InRemount, Quietly
<1>4. \A m \in Name : dentry[m] \in DentType
                      /\ dentry[m] = [dentry[m] EXCEPT !.use = dentry[m].use]
                      /\ (dentry[m].use => dentry[m].cached)
                      /\ dentry[m].use \in BOOLEAN
  BY <1>1, DentFacts DEF DentType, CacheOk
<1>5. \A m \in Name : m # n => dentry'[m] = dentry[m]
  BY <1>1 DEF RefType, Release, Walk, Invalidate
<1>6. CASE Release(n) \/ Walk(n)
  <2>1. PICK u \in BOOLEAN : dentry' = [dentry EXCEPT ![n].use = u] /\ (u => dentry[n].cached)
    BY <1>6 DEF Release, Walk
  <2>2. dentry'[n] = [dentry[n] EXCEPT !.use = u]
    BY <2>1, <1>1 DEF RefType
  <2>3. [dentry[n] EXCEPT !.use = u] \in DentType /\ dentry'[n].cached = dentry[n].cached
    <3>1. \A x \in DentType : /\ [x EXCEPT !.use = u] \in DentType
                              /\ [x EXCEPT !.use = u].cached = x.cached
      BY DEF DentType
    <3>. QED BY <1>4, <2>2, <3>1
  <2>4. dentry' \in [Name -> DentType]
    BY <1>1, <2>1, <2>2, <2>3, <1>4 DEF RefType
  <2>5. \A m \in Name : SameDentry(m)
    BY <1>4, <1>5, <2>1, <2>2 DEF SameDentry
  <2>6. \A m \in Name : dentry'[m].cached = dentry[m].cached
    BY <1>5, <2>3
  <2>7. dentry'["f"].cached => dentry'["d"].cached
    BY <2>6, <1>1 DEF CacheOk, Live, Name
  <2>. QED BY <1>2, <1>3, <2>4, <2>5, <2>7, FewerDents
<1>7. CASE Invalidate(n)
  <2>1. dentry' = [dentry EXCEPT ![n] = NoDentry] /\ (n = "d" => ~Used("d"))
    BY <1>7 DEF Invalidate
  <2>2. dentry' \in [Name -> DentType] /\ dentry'[n] = NoDentry
    BY <2>1, <1>1, NoDentryType DEF RefType
  <2>3. \A m \in Name : dentry'[m] = NoDentry \/ SameDentry(m)
    BY <1>4, <1>5, <2>2 DEF SameDentry
  <2>4. dentry'["f"].cached => dentry'["d"].cached
    BY <1>1, <1>5, <2>1, <2>2, NoDentryType DEF CacheOk, Live, Used, Name
  <2>. QED BY <1>2, <1>3, <2>2, <2>3, <2>4, FewerDents
<1>. QED BY <1>6, <1>7

LEMMA BeginRemountStep ==
    ASSUME RefInv, BeginRemount
    PROVE  RefInv'
<1>1. RefType /\ JobOk /\ CacheOk
  BY DEF RefInv
<1>2. /\ job.pc = "idle" /\ sigen < MaxRemount /\ dentry' = ShrinkAll
      /\ job' = [Idle EXCEPT !.pc = "shrunk"]
      /\ UNCHANGED <<disk, tab, lastid, sigen, failed, fails>>
  BY DEF BeginRemount, branches
<1>3. job' \in JobType /\ job'.pc = "shrunk" /\ job'.opts = 0 /\ Quietly
  BY <1>1, <1>2, IdleType DEF JobType, AllSteps, Quietly, RefType
<1>4. \A m \in Name : dentry[m] \in DentType
                      /\ dentry[m] = [dentry[m] EXCEPT !.use = dentry[m].use]
                      /\ (dentry[m].use => dentry[m].cached)
                      /\ dentry[m].use \in BOOLEAN
  BY <1>1, DentFacts DEF DentType, CacheOk
<1>5. /\ dentry'["f"] = IF dentry["f"].use THEN dentry["f"] ELSE NoDentry
      /\ dentry'["d"] = IF dentry["d"].use \/ dentry["f"].use THEN dentry["d"] ELSE NoDentry
      /\ dentry' \in [Name -> DentType]
  BY <1>2, <1>4, NoDentryType DEF ShrinkAll, Name
<1>6. \A m \in Name : dentry'[m] = NoDentry \/ SameDentry(m)
  BY <1>4, <1>5 DEF SameDentry, Name
<1>7. dentry'["f"].cached => dentry'["d"].cached
  BY <1>1, <1>5, NoDentryType DEF CacheOk, Live
<1>. QED BY <1>2, <1>3, <1>5, <1>6, <1>7, FewerDents

-----------------------------------------------------------------------------
(* The branch options. *)

(* A new table t of old branches and branches with new ids. *)
LEMMA NewTable ==
    ASSUME RefType, NEW t, NEW m \in Nat, m >= lastid, Len(t) \in Nat,
           \A i \in 1 .. Len(t) : /\ t[i].id \in Nat
                                  /\ t[i].id > lastid \/ \E j \in 1 .. Len(tab) : t[i] = tab[j],
           NEW x \in DentType, HiRec(x, tab, lastid)
    PROVE  /\ HiRec(x, t, m)
           /\ \A y : Under(x, y, tab) => Under(x, y, t)
<1>1. lastid \in Nat /\ \A b \in Hi(x) : x.hi[b].id \in Nat /\ x.hi[b].id <= lastid
  BY DEF RefType, HiRec, Hi, DentType, HiType
<1>2. \A b \in Hi(x), i \in 1 .. Len(t) : t[i].id = x.hi[b].id => \E j \in 1 .. Len(tab) : t[i] = tab[j]
  <2>. SUFFICES ASSUME NEW b \in Hi(x), NEW i \in 1 .. Len(t), t[i].id = x.hi[b].id
                PROVE  ~(t[i].id > lastid)
    OBVIOUS
  <2>. QED BY <1>1
<1>3. \A y : Under(x, y, tab) => Under(x, y, t)
  BY <1>2 DEF Under
<1>4. ASSUME NEW b \in Hi(x)
      PROVE  /\ x.hi[b].id <= m
             /\ \A i \in 1 .. Len(t) : t[i].id = x.hi[b].id => t[i] = x.hi[b]
  <2>1. x.hi[b].id <= m
    BY <1>1
  <2>2. \A i \in 1 .. Len(tab) : tab[i].id = x.hi[b].id => tab[i] = x.hi[b]
    BY DEF HiRec
  <2>. QED BY <1>2, <2>1, <2>2
<1>. QED BY <1>3, <1>4 DEF HiRec

LEMMA TableStep ==
    ASSUME RefInv, job.pc = "opts", job.opts < MaxOpt, job' = [job EXCEPT !.opts = @ + 1],
           disk' = disk, sigen' = sigen, failed' = failed, dentry' = dentry, fails' = fails,
           tab' \in TabType, Len(tab') \in 1 .. MaxBr, lastid' \in Nat, lastid' >= lastid, TabOk',
           \A i \in 1 .. Len(tab') : /\ tab'[i].id \in Nat
                                     /\ \/ tab'[i].id > lastid
                                        \/ \E j \in 1 .. Len(tab) : tab'[i] = tab[j]
    PROVE  RefInv'
<1>1. RefType /\ JobOk /\ CacheOk /\ ParentOk /\ HdOk /\ HiOk
  BY DEF RefInv
<1>2. /\ job' \in JobType /\ job'.pc = "opts" /\ job'.opts # 0 /\ job'.ret = job.ret /\ job'.n = job.n
  <2>1. job.opts + 1 \in 0 .. MaxOpt /\ job.opts + 1 # 0
    <3>1. PICK k : k = job.opts
      OBVIOUS
    <3>2. k \in Nat /\ k < MaxOpt /\ MaxOpt \in Nat
      BY <1>1, <3>1, JobFacts, Bounds
    <3>3. k + 1 \in 0 .. MaxOpt /\ k + 1 # 0
      BY <3>2
    <3>. QED BY <3>1, <3>3
  <2>. QED BY <1>1, <2>1 DEF RefType, JobType
<1>3. RefType'
  BY <1>1, <1>2 DEF RefType
<1>4. CacheOk'
  BY <1>1 DEF CacheOk, Live
<1>5. \A n \in Name : Pos(n)' = Pos(n) /\ Live(n)' = Live(n) /\ ~Looping(n)
  BY PosSame DEF Live, Looping
<1>6. HdOk'
  BY <1>1, <1>5 DEF HdOk
<1>7. HiOk'
  <2>1. PICK t, m : t = tab' /\ m = lastid'
    OBVIOUS
  <2>2. Len(t) \in Nat
    BY <2>1, Bounds
  <2>. SUFFICES ASSUME NEW n \in Name, Live(n)
                PROVE  HiRec(dentry[n], t, m) /\ (n = "f" => Under(dentry["f"], dentry["d"], t))
    BY <1>5, <2>1 DEF HiOk
  <2>3. /\ HiRec(dentry[n], tab, lastid) /\ dentry[n] \in DentType
        /\ n = "f" => Under(dentry["f"], dentry["d"], tab)
    BY <1>1, DentFacts DEF HiOk
  <2>4. HiRec(dentry[n], t, m) /\ \A y : Under(dentry[n], y, tab) => Under(dentry[n], y, t)
    BY <1>1, <2>1, <2>2, <2>3, NewTable
  <2>. QED BY <2>3, <2>4
<1>8. HdNow' /\ HiNow'
  BY <1>2 DEF HdNow, HiNow
<1>9. JobOk'
  BY <1>1, <1>2 DEF JobOk, InRemount, Refreshing, HdSteps, HiSteps
<1>10. ParentOk' /\ LoopOk'
  BY <1>1, <1>2 DEF ParentOk, LoopOk, Settled, Refreshing, HdSteps, HiSteps
<1>. QED BY <1>3, <1>4, <1>6, <1>7, <1>8, <1>9, <1>10 DEF RefInv

LEMMA BrAddStep ==
    ASSUME RefInv, NEW b \in Slot, b <= Len(tab), NEW p \in Path, BrAdd(p, b)
    PROVE  RefInv'
<1>. DEFINE e == [path |-> p, id |-> lastid + 1]
            E == [path : Path, id : Nat \ {0}]
<1>1. /\ job.pc = "opts" /\ job.opts < MaxOpt /\ ~OnTab(p) /\ Len(tab) < MaxBr
      /\ tab' = InsertAt(tab, b + 1, e) /\ lastid' = lastid + 1
      /\ job' = [job EXCEPT !.opts = @ + 1]
      /\ UNCHANGED <<disk, sigen, failed, dentry, fails>>
  BY DEF BrAdd
<1>2. RefType /\ TabOk /\ lastid \in Nat /\ tab \in Seq(E)
  BY DEF RefInv, RefType, TabType
<1>3. Len(tab) \in Nat /\ b + 1 \in 1 .. Len(tab) + 1 /\ b \in Nat
  BY <1>2, TabFacts, Bounds
<1>4. e \in E /\ e.path = p /\ e.id = lastid + 1
  BY <1>2
<1>5. PICK t : t = tab'
  OBVIOUS
<1>6. /\ t \in Seq(E) /\ Len(t) = Len(tab) + 1
      /\ \A j \in 1 .. Len(tab) + 1 :
            t[j] = IF j < b + 1 THEN tab[j] ELSE IF j = b + 1 THEN e ELSE tab[j - 1]
  <2>. HIDE DEF e, E
  <2>1. PICK v : v = e
    OBVIOUS
  <2>2. v \in E
    BY <1>4, <2>1
  <2>3. /\ InsertAt(tab, b + 1, v) \in Seq(E) /\ Len(InsertAt(tab, b + 1, v)) = Len(tab) + 1
        /\ \A j \in 1 .. Len(tab) + 1 :
              InsertAt(tab, b + 1, v)[j]
                = IF j < b + 1 THEN tab[j] ELSE IF j = b + 1 THEN v ELSE tab[j - 1]
    BY <1>2, <1>3, <2>2, InsertFacts
  <2>. QED BY <1>1, <1>5, <2>1, <2>3
<1>. HIDE DEF e
<1>7. ASSUME NEW j \in 1 .. Len(t)
      PROVE  \/ j = b + 1 /\ t[j] = e
             \/ \E k \in 1 .. Len(tab) :
                   t[j] = tab[k] /\ ((k = j /\ j < b + 1) \/ (k = j - 1 /\ j > b + 1))
  <2>1. j \in Nat /\ j >= 1 /\ j <= Len(tab) + 1 /\ j \in 1 .. Len(tab) + 1
    BY <1>3, <1>6
  <2>2. CASE j = b + 1
    BY <2>1, <2>2, <1>3, <1>6
  <2>3. CASE j < b + 1
    <3>1. j \in 1 .. Len(tab) /\ t[j] = tab[j]
      BY <2>1, <2>3, <1>3, <1>6
    <3>2. \E k \in 1 .. Len(tab) : t[j] = tab[k] /\ ((k = j /\ j < b + 1) \/ (k = j - 1 /\ j > b + 1))
      <4>. USE <3>1
      <4>. WITNESS j \in 1 .. Len(tab)
      <4>. QED BY <3>1, <2>3
    <3>. QED BY <3>2
  <2>4. CASE j > b + 1
    <3>1. j - 1 \in 1 .. Len(tab) /\ t[j] = tab[j - 1]
      BY <2>1, <2>4, <1>3, <1>6
    <3>. QED BY <3>1, <2>4
  <2>. QED BY <2>1, <2>2, <2>3, <2>4, <1>3
<1>8. \A j \in 1 .. Len(tab) : tab[j].path # p /\ tab[j].id \in Nat /\ tab[j].id < lastid + 1
  BY <1>1, <1>2, TabFacts DEF OnTab, TabOk
<1>9. ASSUME NEW i \in 1 .. Len(t), NEW j \in 1 .. Len(t),
             t[i].path = t[j].path \/ t[i].id = t[j].id
      PROVE  i = j
  <2>1. \A k, l \in 1 .. Len(tab) : tab[k].path = tab[l].path \/ tab[k].id = tab[l].id => k = l
    BY <1>2 DEF TabOk
  <2>2. i \in Nat /\ j \in Nat
    BY <1>3, <1>6
  <2>3. CASE i = b + 1
    <3>1. t[i] = e
      BY <2>3, <1>3, <1>6
    <3>2. \A k \in 1 .. Len(tab) : t[j] # tab[k]
      BY <3>1, <1>2, <1>4, <1>8, <1>9
    <3>. QED BY <3>2, <1>7, <2>3
  <2>4. CASE j = b + 1
    <3>1. t[j] = e
      BY <2>4, <1>3, <1>6
    <3>2. \A k \in 1 .. Len(tab) : t[i] # tab[k]
      BY <3>1, <1>2, <1>4, <1>8, <1>9
    <3>. QED BY <3>2, <1>7, <2>4
  <2>5. CASE i # b + 1 /\ j # b + 1
    <3>1. PICK k \in 1 .. Len(tab) : t[i] = tab[k] /\ ((k = i /\ i < b + 1) \/ (k = i - 1 /\ i > b + 1))
      BY <1>7, <2>5
    <3>2. PICK l \in 1 .. Len(tab) : t[j] = tab[l] /\ ((l = j /\ j < b + 1) \/ (l = j - 1 /\ j > b + 1))
      BY <1>7, <2>5
    <3>3. k = l
      BY <2>1, <3>1, <3>2, <1>9
    <3>. QED BY <3>1, <3>2, <3>3, <2>2, <1>3
  <2>. QED BY <2>3, <2>4, <2>5
<1>10. \A i \in 1 .. Len(t) : /\ t[i].id \in Nat /\ t[i].id <= lastid + 1
                              /\ t[i].id > lastid \/ \E j \in 1 .. Len(tab) : t[i] = tab[j]
  <2>1. lastid + 1 \in Nat /\ lastid + 1 > lastid /\ lastid + 1 <= lastid + 1
    BY <1>2
  <2>2. \A j \in 1 .. Len(tab) : tab[j].id \in Nat /\ tab[j].id <= lastid + 1
    BY <1>2, <1>8
  <2>. QED BY <1>4, <1>7, <2>1, <2>2
<1>11. TabOk'
  BY <1>1, <1>5, <1>9, <1>10 DEF TabOk
<1>12. Len(t) \in 1 .. MaxBr /\ lastid' \in Nat /\ lastid' >= lastid
  <2>1. Len(tab) < MaxBr /\ MaxBr \in Nat /\ Len(tab) \in Nat /\ Len(t) = Len(tab) + 1
    BY <1>1, <1>3, <1>6, Bounds
  <2>2. Len(t) \in 1 .. MaxBr
    BY <2>1
  <2>3. lastid' = lastid + 1 /\ lastid \in Nat
    BY <1>1, <1>2
  <2>. QED BY <2>2, <2>3
<1>. QED BY <1>1, <1>5, <1>6, <1>10, <1>11, <1>12, TableStep DEF TabType

LEMMA BrDelStep ==
    ASSUME RefInv, NEW b \in Slot, b < Len(tab), BrDel(b)
    PROVE  RefInv'
<1>. DEFINE E == [path : Path, id : Nat \ {0}]
<1>1. /\ job.pc = "opts" /\ job.opts < MaxOpt /\ Len(tab) > 1
      /\ tab' = RemoveAt(tab, b + 1) /\ job' = [job EXCEPT !.opts = @ + 1]
      /\ UNCHANGED <<disk, lastid, sigen, failed, dentry, fails>>
  BY DEF BrDel
<1>2. RefType /\ TabOk /\ lastid \in Nat /\ tab \in Seq(E)
  BY DEF RefInv, RefType, TabType
<1>3. Len(tab) \in Nat /\ b + 1 \in 1 .. Len(tab) /\ b \in Nat /\ Len(tab) <= MaxBr
  BY <1>2, TabFacts, Bounds
<1>4. PICK t : t = tab'
  OBVIOUS
<1>5. /\ t \in Seq(E) /\ Len(t) = Len(tab) - 1
      /\ \A j \in 1 .. Len(tab) - 1 : t[j] = IF j < b + 1 THEN tab[j] ELSE tab[j + 1]
  <2>. HIDE DEF E
  <2>. QED BY <1>1, <1>2, <1>3, <1>4, RemoveFacts
<1>6. \A j \in 1 .. Len(t) : \E k \in 1 .. Len(tab) :
          t[j] = tab[k] /\ ((k = j /\ j < b + 1) \/ (k = j + 1 /\ j >= b + 1))
  <2>. SUFFICES ASSUME NEW j \in 1 .. Len(t)
                PROVE  \E k \in 1 .. Len(tab) :
                          t[j] = tab[k] /\ ((k = j /\ j < b + 1) \/ (k = j + 1 /\ j >= b + 1))
    OBVIOUS
  <2>1. j \in Nat /\ j >= 1 /\ j <= Len(tab) - 1 /\ j \in 1 .. Len(tab) - 1
    BY <1>3, <1>5
  <2>2. j \in 1 .. Len(tab) /\ j + 1 \in 1 .. Len(tab)
    BY <2>1, <1>3
  <2>3. CASE j < b + 1
    <3>. USE <2>2
    <3>. WITNESS j \in 1 .. Len(tab)
    <3>. QED BY <2>1, <2>3, <1>5
  <2>4. CASE j >= b + 1
    BY <2>1, <2>2, <2>4, <1>3, <1>5
  <2>. QED BY <2>1, <2>3, <2>4, <1>3
<1>7. ASSUME NEW i \in 1 .. Len(t), NEW j \in 1 .. Len(t),
             t[i].path = t[j].path \/ t[i].id = t[j].id
      PROVE  i = j
  <2>1. PICK k \in 1 .. Len(tab) : t[i] = tab[k] /\ ((k = i /\ i < b + 1) \/ (k = i + 1 /\ i >= b + 1))
    BY <1>6
  <2>2. PICK l \in 1 .. Len(tab) : t[j] = tab[l] /\ ((l = j /\ j < b + 1) \/ (l = j + 1 /\ j >= b + 1))
    BY <1>6
  <2>3. k = l
    BY <1>2, <1>7, <2>1, <2>2 DEF TabOk
  <2>4. i \in Nat /\ j \in Nat
    BY <1>3, <1>5
  <2>. QED BY <2>1, <2>2, <2>3, <2>4, <1>3
<1>8. \A i \in 1 .. Len(t) : /\ t[i].id \in Nat /\ t[i].id <= lastid
                             /\ \E j \in 1 .. Len(tab) : t[i] = tab[j]
  BY <1>2, <1>6, TabFacts DEF TabOk
<1>9. TabOk'
  BY <1>1, <1>4, <1>7, <1>8 DEF TabOk
<1>10. Len(t) \in 1 .. MaxBr /\ lastid' \in Nat /\ lastid' >= lastid
  <2>1. Len(tab) > 1 /\ Len(tab) \in Nat /\ Len(tab) <= MaxBr /\ MaxBr \in Nat
    BY <1>1, <1>3, Bounds
  <2>2. Len(tab) - 1 \in 1 .. MaxBr
    BY <2>1
  <2>. QED BY <1>1, <1>2, <1>5, <2>2
<1>. QED BY <1>1, <1>4, <1>5, <1>8, <1>9, <1>10, TableStep DEF TabType

-----------------------------------------------------------------------------
(* au_refresh_hdentry. *)

LEMMA ParSame ==
    ASSUME tab' = tab, NEW n \in Name, n = "f" => dentry'["d"] = dentry["d"]
    PROVE  Par(n)' = Par(n)
<1>1. CASE n = "d"
  BY <1>1 DEF Par, ParHd, SBend
<1>2. CASE n = "f"
  BY <1>2 DEF Par, ParHd, SBend
<1>. QED BY <1>1, <1>2 DEF Name

(* What is known while a dentry is refreshed. *)
LEMMA InRefresh ==
    ASSUME RefInv, job.pc \in Refreshing
    PROVE  /\ job.n \in Name /\ d_ \in DentType /\ d_ = dentry[job.n] /\ Live(job.n) /\ job.opts = 0
           /\ HdRec(d_, Pos(job.n)) /\ (job.pc # "hd" => Ranged(d_))
           /\ HiRec(d_, tab, lastid) /\ (job.n = "f" => Under(d_, dentry["d"], tab))
           /\ d_.gen <= sigen /\ d_.igen <= sigen /\ d_.igen # sigen
           /\ (job.pc \in HdSteps => d_.gen # sigen) /\ (job.pc \in HiSteps => d_.gen = sigen)
           /\ ParReady(job.n)
           /\ job.n = "f" => Live("d") /\ dentry["d"].gen = sigen
           /\ \A b \in Slot : Par(job.n)[b] # NoPath => b <= SBend /\ Par(job.n)[b] = tab[b + 1].path
<1>1. /\ RefType /\ TabOk /\ CacheOk /\ ParentOk /\ HdOk /\ HiOk /\ HdNow /\ JobOk
      /\ job.n \in Name /\ d_ = dentry[job.n] /\ d_ \in DentType
  BY JobFacts, DentFacts DEF RefInv, d_
<1>2. Live(job.n) /\ job.opts = 0 /\ d_.igen # sigen
  BY <1>1 DEF JobOk, Refreshing, HdSteps, HiSteps
<1>3. HdRec(d_, Pos(job.n)) /\ (job.pc # "hd" => Ranged(d_))
  BY <1>1, <1>2 DEF HdOk, Looping
<1>4. HiRec(d_, tab, lastid) /\ (job.n = "f" => Under(d_, dentry["d"], tab))
  BY <1>1, <1>2 DEF HiOk
<1>5. /\ d_.gen <= sigen /\ d_.igen <= sigen
      /\ (job.pc \in HdSteps => d_.gen # sigen) /\ (job.pc \in HiSteps => d_.gen = sigen)
  BY <1>1 DEF CacheOk, JobOk
<1>6. job.n = "f" => Live("d") /\ dentry["d"].gen = sigen
  BY <1>1, <1>2 DEF CacheOk, ParentOk, Live
<1>7. ParReady(job.n)
  BY <1>6 DEF ParReady, Looping
<1>8. ASSUME NEW b \in Slot, Par(job.n)[b] # NoPath
      PROVE  b <= SBend /\ Par(job.n)[b] = tab[b + 1].path
  <2>1. CASE job.n = "d"
    BY <2>1, <1>1, <1>7, <1>8, ParFacts
  <2>2. CASE job.n = "f"
    <3>1. Par(job.n)[b] = dentry["d"].hd[b]
      BY <2>2, <1>1, <1>7, ParFacts
    <3>2. Now(dentry["d"], tab)
      BY <2>2, <1>1, <1>2, <1>6 DEF HdNow, Name
    <3>3. b \in Hd(dentry["d"])
      BY <3>1, <1>8 DEF Hd
    <3>. QED BY <3>1, <3>2, <3>3 DEF Now, SBend
  <2>. QED BY <2>1, <2>2, <1>1 DEF Name
<1>. QED BY <1>1, <1>2, <1>3, <1>4, <1>5, <1>6, <1>7, <1>8

(* A record whose hidden dentries all are in the slots of the parent is     *)
(* that of the current branches.                                            *)
LEMMA PlacedNow ==
    ASSUME RefInv, job.pc \in Refreshing, NEW x \in DentType, x.alloc >= Len(tab),
           \A c \in Hd(x) : x.hd[c] = Par(job.n)[c]
    PROVE  Now(x, tab) /\ (job.n = "f" => Nested(x, dentry["d"]))
<1>1. \A c \in Hd(x) : c \in Slot /\ Par(job.n)[c] # NoPath
  BY DEF Hd
<1>2. Now(x, tab)
  BY <1>1, InRefresh DEF Now, SBend
<1>3. ASSUME job.n = "f" PROVE Nested(x, dentry["d"])
  <2>1. \A c \in Slot : Par(job.n)[c] = dentry["d"].hd[c]
    BY <1>3, InRefresh, ParFacts DEF RefInv
  <2>. QED BY <1>1, <2>1 DEF Nested, Has
<1>. QED BY <1>2, <1>3

(* Steps of the refresh that give the dentry the record y and go on. *)
Onward == /\ job' \in JobType /\ job'.pc \in Refreshing /\ job'.n = job.n
          /\ job'.ret = job.ret /\ job'.goal = job.goal /\ job'.opts = 0

LEMMA RefreshDent ==
    ASSUME RefInv, job.pc \in Refreshing, Quietly, failed' = failed, Onward,
           NEW y \in DentType, dentry' = [dentry EXCEPT ![job.n] = y],
           y.cached = d_.cached, y.type = d_.type, y.use = d_.use,
           y.gen \in {d_.gen, sigen}, y.igen = d_.igen,
           job'.pc \in HdSteps => y.gen # sigen, job'.pc \in HiSteps => y.gen = sigen,
           HdRec(y, Pos(job.n)), job'.pc # "hd" => Ranged(y),
           HiRec(y, tab, lastid), job.n = "f" => Under(y, dentry["d"], tab),
           y.gen = sigen => Now(y, tab) /\ (job.n = "f" => Nested(y, dentry["d"])),
           job.n = "d" => \A i \in 1 .. Len(tab) : Has(d_, tab[i].path) => Has(y, tab[i].path)
    PROVE  /\ Kept' /\ JobOk' /\ ParentOk' /\ d_' = y
           /\ Par(job.n)' = Par(job.n)
<1>1. PICK n : n = job.n
  OBVIOUS
<1>2. /\ n \in Name /\ d_ = dentry[n] /\ Live(n) /\ job.opts = 0 /\ d_.igen # sigen /\ d_.igen <= sigen
      /\ y.gen <= sigen /\ (n = "f" => dentry["d"].gen = sigen)
  <2>1. sigen <= sigen
    BY Bounds DEF RefInv, RefType
  <2>. QED BY <1>1, <2>1, InRefresh
<1>3. RefType /\ JobOk /\ ParentOk
  BY DEF RefInv
<1>4. dentry' = [dentry EXCEPT ![n] = y]
  BY <1>1
<1>5. Kept'
  <2>1. /\ HdRec(y, Pos(n)) /\ (~(job'.pc = "hd" /\ job'.n = n) => Ranged(y))
        /\ n = "f" => Under(y, dentry["d"], tab)
        /\ y.gen = sigen => Now(y, tab) /\ (n = "f" => Nested(y, dentry["d"]))
        /\ n = "d" => \A i \in 1 .. Len(tab) : Has(dentry["d"], tab[i].path) => Has(y, tab[i].path)
        /\ y.cached = dentry[n].cached /\ y.type = dentry[n].type /\ y.use = dentry[n].use
        /\ y.igen <= sigen /\ y.igen # sigen /\ (job.pc = "hd" => job.n = n) /\ job' \in JobType
    BY <1>1, <1>2 DEF Onward
  <2>. QED BY <1>2, <1>4, <2>1, OneDent
<1>6. dentry'[n] = y /\ \A m \in Name : m # n => dentry'[m] = dentry[m]
  BY <1>2, <1>3, <1>4 DEF RefType
<1>7. JobOk'
  <2>1. \A m \in Name : dentry'[m].cached = dentry[m].cached /\ dentry'[m].type = dentry[m].type
    BY <1>2, <1>6
  <2>2. job.ret # "dirs" => Live(job.goal) /\ job.goal \in Name
    BY <1>3, JobFacts DEF JobOk
  <2>3. /\ job'.n = n /\ dentry'[job'.n] = y /\ Live(n)' /\ y.igen # sigen
        /\ job.ret = "dirs" => n = "d"
    BY <1>1, <1>2, <1>3, <1>6, <2>1 DEF Onward, Live, JobOk
  <2>4. job'.ret # "dirs" => Live(job.goal)'
    BY <2>1, <2>2 DEF Live, Onward
  <2>. QED BY <1>3, <2>3, <2>4
           DEF JobOk, InRemount, Live, Refreshing, HdSteps, HiSteps, Onward, Quietly
<1>8. ParentOk'
  <2>1. n = "f" => dentry'["d"].gen = sigen
    BY <1>2, <1>6 DEF Name
  <2>2. /\ dentry'["f"].cached = dentry["f"].cached
        /\ dentry'["d"].gen = dentry["d"].gen \/ dentry'["d"].gen = sigen
    BY <1>2, <1>6 DEF Name
  <2>3. Settled' => Settled
    BY DEF Settled, Onward, Refreshing, HdSteps, HiSteps
  <2>4. Settled' => failed' \/ (dentry'["f"].cached => dentry'["d"].gen = sigen')
    BY <1>3, <2>2, <2>3 DEF ParentOk, Quietly
  <2>5. job'.n = n /\ sigen' = sigen
    BY <1>1 DEF Onward, Quietly
  <2>. QED BY <2>1, <2>4, <2>5 DEF ParentOk
<1>9. d_' = y
  BY <1>1, <1>6 DEF d_, Onward
<1>10. Par(job.n)' = Par(job.n)
  <2>1. Par(n)' = Par(n)
    BY <1>2, <1>6, ParSame DEF Quietly, Name
  <2>2. Par(job.n)' = Par(n)'
    BY <1>1 DEF Onward, Par, ParHd
  <2>. QED BY <1>1, <2>1, <2>2
<1>. QED BY <1>5, <1>7, <1>8, <1>9, <1>10

(* A step of a refresh keeps the hidden dentries of the branches that the   *)
(* parent has, and the range ends at hidden dentries again after the loop.  *)
HdKept(n, x, y) ==
    /\ dentry' = [dentry EXCEPT ![n] = y] /\ y \in DentType
    /\ y.cached = x.cached /\ y.use = x.use /\ y.type = x.type
    /\ \A q \in Path : Has(x, q) /\ (\E c \in Slot : Par(n)[c] = q) => Has(y, q)
    /\ job.pc # "hd" => (Ends(x) => Ends(y))
    /\ job.pc = "hd" => (job'.pc = "hd" /\ job'.n = n) \/ (Hd(x) # {} => Ends(y))

LEMMA ReallocStep ==
    ASSUME RefInv, Realloc
    PROVE  RefInv' /\ \E y : HdKept(job.n, d_, y)
<1>1. /\ job.pc = "start"
      /\ job' = [job EXCEPT !.pc = "hd", !.b = d_.bstart, !.e = d_.bend, !.bwh = d_.bwh, !.bopq = d_.bopq]
      /\ dentry' = [dentry EXCEPT ![job.n].alloc = Max({@, Len(tab)})]
      /\ UNCHANGED <<disk, tab, lastid, sigen, failed, fails>>
  BY DEF Realloc, branches
<1>2. job.pc \in Refreshing /\ job.pc \in HdSteps
  BY <1>1 DEF Refreshing, HdSteps
<1>3. PICK n, x : n = job.n /\ x = d_
  OBVIOUS
<1>4. /\ n \in Name /\ x \in DentType /\ x = dentry[n] /\ Live(n) /\ job.opts = 0
      /\ HdRec(x, Pos(n)) /\ Ranged(x)
      /\ HiRec(x, tab, lastid) /\ (n = "f" => Under(x, dentry["d"], tab))
      /\ x.gen <= sigen /\ x.gen # sigen
  BY <1>1, <1>2, <1>3, InRefresh
<1>5. RefType /\ Quietly
  BY <1>1 DEF RefInv, Quietly, RefType
<1>6. PICK y : y = [x EXCEPT !.alloc = Max({x.alloc, Len(tab)})]
  OBVIOUS
<1>7. Max({x.alloc, Len(tab)}) \in Nat /\ Max({x.alloc, Len(tab)}) >= Len(tab)
  <2>1. PICK a, l : a = x.alloc /\ l = Len(tab)
    OBVIOUS
  <2>2. a \in Nat /\ l \in Nat
    BY <2>1, <1>4, <1>5, TabFacts DEF DentType
  <2>3. \E m \in {a, l} : \A z \in {a, l} : m >= z
    BY <2>2
  <2>4. Max({a, l}) \in {a, l} /\ Max({a, l}) >= l
    BY <2>3 DEF Max
  <2>. QED BY <2>1, <2>2, <2>4
<1>8. /\ y \in DentType /\ y.alloc >= Len(tab) /\ y.hd = x.hd /\ y.bstart = x.bstart /\ y.bend = x.bend
      /\ y.hi = x.hi /\ y.ibstart = x.ibstart /\ y.ibend = x.ibend /\ y.cached = x.cached
      /\ y.use = x.use /\ y.type = x.type /\ y.gen = x.gen /\ y.igen = x.igen
  BY <1>4, <1>6, <1>7 DEF DentType
<1>9. dentry' = [dentry EXCEPT ![job.n] = y]
  BY <1>1, <1>3, <1>4, <1>6
<1>10. /\ HdRec(y, Pos(n)) /\ Ranged(y) /\ HiRec(y, tab, lastid)
       /\ n = "f" => Under(y, dentry["d"], tab)
       /\ \A p : Has(y, p) = Has(x, p)
  BY <1>4, <1>8, Agree
<1>11. /\ Onward /\ job'.pc = "hd" /\ job'.b = x.bstart /\ job'.e = x.bend
  <2>1. /\ x.bstart \in -1 .. MaxBr /\ x.bend \in Index /\ x.bwh \in Index /\ x.bopq \in Index
    BY <1>4, Bounds DEF DentType, Index
  <2>. QED BY <1>1, <1>3, <1>4, <1>5, <2>1 DEF RefType, JobType, AllSteps, Refreshing, HdSteps, Onward
<1>12. Kept' /\ JobOk' /\ ParentOk' /\ d_' = y
  <2>1. job'.pc \notin HiSteps
    BY <1>11 DEF HiSteps
  <2>2. /\ y.cached = d_.cached /\ y.type = d_.type /\ y.use = d_.use
        /\ y.gen \in {d_.gen, sigen} /\ y.igen = d_.igen /\ y.gen # sigen
        /\ HdRec(y, Pos(job.n)) /\ (job.n = "f" => Under(y, dentry["d"], tab))
        /\ \A p : Has(d_, p) => Has(y, p)
    BY <1>3, <1>4, <1>8, <1>10
  <2>3. failed' = failed
    BY <1>1
  <2>. QED BY <1>2, <1>5, <1>8, <1>9, <1>10, <1>11, <2>1, <2>2, <2>3, RefreshDent
<1>13. LoopOk'
  <2>1. 0 <= x.bstart /\ x.bstart \in Int /\ x.bend \in Int
    BY <1>4, Bounds DEF HdRec, DentType
  <2>2. ASSUME NEW c \in Hd(y) PROVE ~(c < x.bstart) /\ ~(c > x.bend)
    <3>1. x.bstart <= c /\ c <= x.bend /\ c \in Int
      BY <1>8, <1>10, Bounds DEF Ranged, Hd
    <3>. QED BY <2>1, <3>1
  <2>3. \A Q : Placing(y, Q, x.bstart, x.bend)
    BY <2>2 DEF Placing
  <2>. QED BY <1>1, <1>8, <1>11, <1>12, <2>1, <2>3 DEF LoopOk
<1>14. HdKept(job.n, d_, y)
  <2>1. Ends(y) = Ends(x)
    BY <1>8, Agree
  <2>. QED BY <1>1, <1>3, <1>8, <1>9, <1>10, <2>1 DEF HdKept
<1>. QED BY <1>12, <1>13, <1>14, Parts DEF Rest
(* Steps of the refresh that leave the dentry alone and go on. *)
LEMMA RefreshSame ==
    ASSUME RefInv, job.pc \in Refreshing, Quietly, failed' = failed, Onward, dentry' = dentry,
           job'.pc = job.pc \/ (job.pc \in HiSteps /\ job'.pc \in HiSteps)
    PROVE  /\ Kept' /\ JobOk' /\ ParentOk' /\ d_' = d_
           /\ Par(job.n)' = Par(job.n)
<1>1. PICK n, y : n = job.n /\ y = d_
  OBVIOUS
<1>2. /\ n \in Name /\ y \in DentType /\ y = dentry[n] /\ Live(n) /\ job.opts = 0
      /\ HdRec(y, Pos(n)) /\ (job.pc # "hd" => Ranged(y))
      /\ HiRec(y, tab, lastid) /\ (n = "f" => Under(y, dentry["d"], tab))
      /\ (job.pc \in HdSteps => y.gen # sigen) /\ (job.pc \in HiSteps => y.gen = sigen)
  BY <1>1, InRefresh
<1>3. y.gen = sigen => Now(y, tab) /\ (n = "f" => Nested(y, dentry["d"]))
  BY <1>2 DEF RefInv, HdNow
<1>4. dentry' = [dentry EXCEPT ![job.n] = y]
  BY <1>1, <1>2 DEF RefInv, RefType
<1>5. /\ job'.pc # "hd" => Ranged(y)
      /\ (job'.pc \in HdSteps => y.gen # sigen) /\ (job'.pc \in HiSteps => y.gen = sigen)
  BY <1>2 DEF HdSteps, HiSteps
<1>6. /\ y.cached = d_.cached /\ y.type = d_.type /\ y.use = d_.use
      /\ y.gen \in {d_.gen, sigen} /\ y.igen = d_.igen
      /\ HdRec(y, Pos(job.n)) /\ (job.n = "f" => Under(y, dentry["d"], tab))
      /\ (y.gen = sigen => Now(y, tab) /\ (job.n = "f" => Nested(y, dentry["d"])))
      /\ \A p : Has(d_, p) => Has(y, p)
  BY <1>1, <1>2, <1>3
<1>7. Kept' /\ JobOk' /\ ParentOk' /\ d_' = y /\ Par(job.n)' = Par(job.n)
  BY <1>2, <1>4, <1>5, <1>6, RefreshDent
<1>. QED BY <1>1, <1>7

LEMMA HdKeepStep ==
    ASSUME RefInv, HdKeep
    PROVE  RefInv'
<1>1. /\ job.pc = "hd" /\ job.b <= job.e /\ ~Misplaced /\ job' = [job EXCEPT !.b = @ + 1]
      /\ dentry' = dentry /\ UNCHANGED <<disk, tab, lastid, sigen, failed, fails>>
  BY DEF HdKeep, branches
<1>2. job.pc \in Refreshing /\ RefType /\ LoopOk /\ Quietly
  BY <1>1 DEF Refreshing, HdSteps, RefInv, Quietly, RefType
<1>3. PICK n, x, b, e : n = job.n /\ x = d_ /\ b = job.b /\ e = job.e
  OBVIOUS
<1>4. /\ 0 <= b /\ b \in Int /\ e \in Index /\ b <= e /\ d_.alloc >= Len(tab)
      /\ Placing(x, Par(n), b, e)
  BY <1>1, <1>2, <1>3, JobFacts DEF LoopOk
<1>5. b \in Slot /\ e \in Int /\ b + 1 \in -1 .. MaxBr /\ 0 <= b + 1
  BY <1>4, Bounds
<1>6. Onward /\ job'.pc = job.pc /\ job'.b = b + 1 /\ job'.e = e
  <2>1. job.opts = 0
    BY <1>2, InRefresh
  <2>. QED BY <1>1, <1>2, <1>3, <1>5, <2>1 DEF RefType, JobType, Onward
<1>7. /\ Kept' /\ JobOk' /\ ParentOk' /\ d_' = d_ /\ Par(job.n)' = Par(job.n)
  BY <1>1, <1>2, <1>6, RefreshSame
<1>8. x.hd[b] = NoPath \/ x.hd[b] = Par(n)[b]
  BY <1>1, <1>3, <1>4, <1>5 DEF Misplaced, Par
<1>9. ASSUME NEW c \in Hd(x), c < b + 1 \/ c > e PROVE x.hd[c] = Par(n)[c]
  <2>1. c \in Int /\ x.hd[c] # NoPath
    BY Bounds DEF Hd
  <2>2. c < b \/ c = b \/ c > e
    BY <1>4, <1>9, <2>1
  <2>. QED BY <1>4, <1>8, <2>1, <2>2 DEF Placing
<1>10. Placing(x, Par(n), b + 1, e)
  BY <1>9 DEF Placing
<1>11. job'.n = job.n /\ tab' = tab /\ job'.pc = "hd" /\ Par(job.n)' = Par(n) /\ d_' = x
  BY <1>1, <1>3, <1>6, <1>7 DEF Onward
<1>12. LoopOk'
  BY <1>1, <1>3, <1>4, <1>5, <1>6, <1>10, <1>11 DEF LoopOk
<1>. QED BY <1>7, <1>12, Parts DEF Rest
(* A hidden dentry in slot b that leaves the array (k = -1) or changes     *)
(* places with slot k.                                                     *)
HdMoves(x, y, b, k) ==
    /\ y.bstart = x.bstart /\ y.bend = x.bend
    /\ y.hd = IF k = -1 THEN [x.hd EXCEPT ![b] = NoPath] ELSE Swap(x.hd, b, k)
HdAfter(x, y, b, k) ==
    /\ k = -1 => \A c \in Slot : y.hd[c] = IF c = b THEN NoPath ELSE x.hd[c]
    /\ k # -1 => \A c \in Slot : y.hd[c] = IF c = k THEN x.hd[b]
                                           ELSE IF c = b THEN x.hd[k] ELSE x.hd[c]
    /\ \A q \in Path : Has(x, q) /\ (k # -1 \/ q # x.hd[b]) => Has(y, q)

LEMMA HdMoved ==
    ASSUME NEW x \in DentType, NEW S, HdRec(x, S), NEW b \in Slot, NEW k \in Slot \cup {-1},
           NEW y, HdMoves(x, y, b, k)
    PROVE  y.hd \in HdType /\ HdRec(y, S) /\ HdAfter(x, y, b, k)
<1>. USE DEF HdMoves, HdAfter
<1>1. x.hd \in HdType /\ b \in Slot
  BY DEF DentType
<1>2. CASE k = -1
  <2>2. [x.hd EXCEPT ![b] = NoPath] \in HdType
    BY <1>1 DEF HdType
  <2>3. y.hd = [x.hd EXCEPT ![b] = NoPath] /\ y.hd \in HdType
    BY <1>2, <2>2
  <2>4. \A c \in Slot : y.hd[c] = IF c = b THEN NoPath ELSE x.hd[c]
    BY <1>1, <2>3 DEF HdType
  <2>5. \A c \in Hd(y) : c \in Hd(x) /\ y.hd[c] = x.hd[c]
    BY <2>4 DEF Hd
  <2>6. HdRec(y, S)
    BY <2>5 DEF HdRec
  <2>7. \A q \in Path : Has(x, q) /\ q # x.hd[b] => Has(y, q)
    BY <2>4 DEF Has
  <2>. QED BY <1>2, <2>3, <2>4, <2>6, <2>7
<1>3. CASE k # -1
  <2>0. k \in Slot
    BY <1>3
  <2>2. Swap(x.hd, b, k) \in HdType
    BY <1>1, <2>0 DEF HdType, Swap
  <2>3. y.hd = Swap(x.hd, b, k) /\ y.hd \in HdType
    BY <1>3, <2>2
  <2>4. \A c \in Slot : y.hd[c] = IF c = k THEN x.hd[b] ELSE IF c = b THEN x.hd[k] ELSE x.hd[c]
    BY <1>1, <2>0, <2>3 DEF HdType, Swap
  <2>. DEFINE s(c) == IF c = k THEN b ELSE IF c = b THEN k ELSE c
  <2>5. \A c \in Slot : s(c) \in Slot /\ y.hd[c] = x.hd[s(c)] /\ s(s(c)) = c
    BY <2>0, <2>4, <1>1
  <2>. HIDE DEF s
  <2>6. \A c \in Hd(y) : s(c) \in Hd(x) /\ y.hd[c] = x.hd[s(c)] /\ c = s(s(c))
    BY <2>5 DEF Hd
  <2>7. ASSUME NEW c \in Hd(y), NEW d \in Hd(y), y.hd[c] = y.hd[d] PROVE c = d
    <3>1. s(c) = s(d)
      BY <2>6, <2>7 DEF HdRec
    <3>. QED BY <2>6, <3>1
  <2>8. HdRec(y, S)
    BY <2>6, <2>7 DEF HdRec
  <2>9. \A q : Has(x, q) => Has(y, q)
    BY <2>5 DEF Has
  <2>. QED BY <1>3, <2>3, <2>4, <2>8, <2>9
<1>. QED BY <1>2, <1>3
(* The parent has every mounted branch of which the inode has a hidden     *)
(* inode.                                                                  *)
LEMMA ParHas ==
    ASSUME RefInv, job.pc \in Refreshing
    PROVE  /\ \A c \in Hi(d_), i \in 1 .. Len(tab) :
                 tab[i].id = d_.hi[c].id => \E b \in Slot : Par(job.n)[b] = tab[i].path
           /\ job.n = "d" => \A i \in 1 .. Len(tab) : \E b \in Slot : Par(job.n)[b] = tab[i].path
<1>1. RefType /\ TabOk /\ HdOk /\ job.n \in Name /\ ParReady(job.n)
  BY InRefresh DEF RefInv
<1>2. CASE job.n = "d"
  <2>. SUFFICES ASSUME NEW i \in 1 .. Len(tab) PROVE \E b \in Slot : Par(job.n)[b] = tab[i].path
    BY <1>2
  <2>1. i - 1 \in Slot /\ i - 1 <= SBend /\ (i - 1) + 1 = i
    BY <1>1, TabFacts
  <2>. QED BY <1>1, <1>2, <2>1, ParFacts
<1>3. CASE job.n = "f"
  <2>1. \A c \in Slot : Par(job.n)[c] = dentry["d"].hd[c]
    BY <1>1, <1>3, ParFacts
  <2>2. Under(d_, dentry["d"], tab)
    BY <1>3, InRefresh
  <2>. QED BY <1>3, <2>1, <2>2 DEF Under, Has
<1>. QED BY <1>1, <1>2, <1>3 DEF Name

LEMMA HdMoveStep ==
    ASSUME RefInv, HdMove
    PROVE  RefInv' /\ \E y : HdKept(job.n, d_, y)
<1>1. /\ job.pc = "hd" /\ Misplaced
      /\ dentry' = [dentry EXCEPT ![job.n].hd =
                      IF NewIndex = -1 THEN [@ EXCEPT ![job.b] = NoPath]
                      ELSE Swap(@, job.b, NewIndex)]
      /\ job' = [job EXCEPT
                  !.bwh = Moved(d_.bwh, @), !.bopq = Moved(d_.bopq, @),
                  !.b = IF NewIndex # -1 /\ d_.hd[NewIndex] # NoPath THEN @ ELSE @ + 1]
      /\ UNCHANGED <<disk, tab, lastid, sigen, failed, fails>>
  BY DEF HdMove, branches
<1>2. job.pc \in Refreshing /\ job.pc \in HdSteps /\ RefType /\ TabOk /\ HdOk /\ LoopOk /\ Quietly
  BY <1>1 DEF Refreshing, HdSteps, RefInv, Quietly, RefType
<1>3. PICK n, x, b, e, k, P : /\ n = job.n /\ x = d_ /\ b = job.b /\ e = job.e /\ k = NewIndex
                              /\ P = Par(n)
  OBVIOUS
<1>4. /\ n \in Name /\ x \in DentType /\ x = dentry[n] /\ Live(n) /\ job.opts = 0
      /\ HdRec(x, Pos(n)) /\ ParReady(n)
      /\ HiRec(x, tab, lastid) /\ (n = "f" => Under(x, dentry["d"], tab))
      /\ x.gen # sigen
  BY <1>2, <1>3, InRefresh
<1>5. /\ 0 <= b /\ b \in Int /\ e \in Index /\ b <= e /\ x.alloc >= Len(tab)
      /\ Placing(x, P, b, e)
  BY <1>1, <1>2, <1>3, JobFacts DEF LoopOk, Misplaced
<1>6. b \in Slot /\ e \in Int /\ b \in -1 .. MaxBr /\ b + 1 \in -1 .. MaxBr /\ 0 <= b + 1
  BY <1>5, Bounds
<1>7. x.hd[b] # NoPath /\ x.hd[b] # P[b] /\ x.hd[b] \in Path
  <2>1. x.hd[b] # NoPath /\ x.hd[b] # P[b]
    BY <1>1, <1>3, <1>6 DEF Misplaced, Par
  <2>2. x.hd[b] \in Path \cup {NoPath}
    BY <1>4, <1>6 DEF DentType, HdType
  <2>. QED BY <2>1, <2>2
<1>8. \/ k = -1 /\ \A c \in Slot : P[c] # x.hd[b]
      \/ k \in Slot /\ P[k] = x.hd[b]
  <2>1. k = FindDbIndex(n, x.hd[b])
    BY <1>3 DEF NewIndex
  <2>. QED BY <1>2, <1>3, <1>4, <1>7, <2>1, FindFacts
<1>9. k \in Slot \cup {-1} /\ k \in Index /\ (k \in Slot => k # -1)
  <2>1. -1 \in Index /\ -1 \notin Slot
    BY Bounds DEF Index
  <2>. QED BY <1>8, <2>1, Bounds
<1>10. PICK y, h : /\ h = IF k = -1 THEN [x.hd EXCEPT ![b] = NoPath] ELSE Swap(x.hd, b, k)
                   /\ y = [x EXCEPT !.hd = h]
  OBVIOUS
<1>11. dentry' = [dentry EXCEPT ![job.n] = y]
  BY <1>1, <1>2, <1>3, <1>4, <1>10 DEF RefType
<1>12. /\ y.hd = h /\ y.bstart = x.bstart /\ y.bend = x.bend
       /\ y.hi = x.hi /\ y.ibstart = x.ibstart /\ y.ibend = x.ibend /\ y.cached = x.cached
       /\ y.use = x.use /\ y.type = x.type /\ y.gen = x.gen /\ y.igen = x.igen /\ y.alloc = x.alloc
       /\ h \in HdType => y \in DentType
  BY <1>4, <1>10 DEF DentType
<1>13. /\ y \in DentType /\ HdRec(y, Pos(n))
       /\ k = -1 => \A c \in Slot : y.hd[c] = IF c = b THEN NoPath ELSE x.hd[c]
       /\ k # -1 => \A c \in Slot : y.hd[c] = IF c = k THEN x.hd[b]
                                              ELSE IF c = b THEN x.hd[k] ELSE x.hd[c]
       /\ \A q \in Path : Has(x, q) /\ (k # -1 \/ q # x.hd[b]) => Has(y, q)
  <2>1. PICK S : S = Pos(n)
    OBVIOUS
  <2>2. HdRec(x, S)
    BY <1>4, <2>1
  <2>3. HdMoves(x, y, b, k)
    BY <1>10, <1>12 DEF HdMoves
  <2>4. y.hd \in HdType /\ HdRec(y, S) /\ HdAfter(x, y, b, k)
    BY <1>4, <1>6, <1>9, <2>2, <2>3, HdMoved
  <2>. QED BY <1>12, <2>1, <2>4 DEF HdAfter
<1>14. \A c \in Hi(x), i \in 1 .. Len(tab) : tab[i].id = x.hi[c].id => Has(y, tab[i].path)
  <2>. SUFFICES ASSUME NEW c \in Hi(x), NEW i \in 1 .. Len(tab), tab[i].id = x.hi[c].id
                PROVE  Has(y, tab[i].path)
    OBVIOUS
  <2>1. Has(x, tab[i].path) /\ tab[i].path \in Path
    BY <1>2, <1>4, TabFacts DEF HiRec, Under
  <2>2. \E d \in Slot : P[d] = tab[i].path
    BY <1>2, <1>3, ParHas
  <2>. QED BY <2>1, <2>2, <1>8, <1>9, <1>13
<1>15. /\ HiRec(y, tab, lastid)
       /\ n = "f" => Under(y, dentry["d"], tab)
  <2>1. Hi(y) = Hi(x)
    BY <1>12 DEF Hi
  <2>2. Under(y, y, tab)
    BY <1>12, <1>14, <2>1 DEF Under
  <2>. QED BY <1>4, <1>12, <2>1, <2>2 DEF HiRec, Under
<1>16. n = "d" => \A i \in 1 .. Len(tab) : Has(x, tab[i].path) => Has(y, tab[i].path)
  <2>. SUFFICES ASSUME n = "d", NEW i \in 1 .. Len(tab), Has(x, tab[i].path)
                PROVE  Has(y, tab[i].path)
    OBVIOUS
  <2>1. tab[i].path \in Path /\ \E d \in Slot : P[d] = tab[i].path
    BY <1>2, <1>3, ParHas, TabFacts
  <2>. QED BY <2>1, <1>8, <1>9, <1>13
<1>17. PICK nb : nb = IF k # -1 /\ x.hd[k] # NoPath THEN b ELSE b + 1
  OBVIOUS
<1>18. Onward /\ job'.pc = "hd" /\ job'.b = nb /\ job'.e = e /\ nb \in Int /\ 0 <= nb
  <2>1. Moved(d_.bwh, job.bwh) \in Index /\ Moved(d_.bopq, job.bopq) \in Index
    BY <1>2, <1>3, <1>9, JobFacts DEF Moved
  <2>2. job'.b = nb /\ nb \in -1 .. MaxBr /\ nb \in Int /\ 0 <= nb
    BY <1>1, <1>2, <1>3, <1>5, <1>6, <1>17 DEF RefType, JobType
  <2>3. job' = [job EXCEPT !.bwh = Moved(d_.bwh, job.bwh), !.bopq = Moved(d_.bopq, job.bopq), !.b = nb]
    BY <1>1, <1>3, <1>17
  <2>. QED BY <1>1, <1>2, <1>3, <1>4, <2>1, <2>2, <2>3 DEF RefType, JobType, Onward
<1>19. /\ Kept' /\ JobOk' /\ ParentOk' /\ d_' = y /\ Par(job.n)' = Par(job.n)
  <2>1. job'.pc \notin HiSteps
    BY <1>18 DEF HiSteps
  <2>2. /\ y.cached = d_.cached /\ y.type = d_.type /\ y.use = d_.use
        /\ y.gen \in {d_.gen, sigen} /\ y.igen = d_.igen /\ y.gen # sigen
        /\ HdRec(y, Pos(job.n)) /\ (job.n = "f" => Under(y, dentry["d"], tab))
        /\ (job.n = "d" => \A i \in 1 .. Len(tab) : Has(d_, tab[i].path) => Has(y, tab[i].path))
    BY <1>3, <1>4, <1>13, <1>12, <1>15, <1>16
  <2>3. failed' = failed
    BY <1>1
  <2>. QED BY <1>2, <1>11, <1>13, <1>15, <1>18, <2>1, <2>2, <2>3, RefreshDent
<1>20. Placing(y, P, nb, e)
  <2>. SUFFICES ASSUME NEW c \in Hd(y), c < nb \/ c > e PROVE y.hd[c] = P[c]
    BY DEF Placing
  <2>1. c \in Slot /\ c \in Int /\ y.hd[c] # NoPath
    BY Bounds DEF Hd
  <2>2. c # b
    <3>. SUFFICES ASSUME c = b PROVE FALSE
      OBVIOUS
    <3>1. nb = b + 1
      BY <1>5, <1>6, <1>17
    <3>. QED BY <3>1, <1>7, <1>8, <1>13, <1>17, <2>1
  <2>3. c < b \/ c > e
    BY <1>5, <1>17, <2>1, <2>2
  <2>4. CASE k # -1 /\ c = k
    BY <2>4, <1>8, <1>13, <2>1
  <2>5. CASE ~(k # -1 /\ c = k)
    <3>1. y.hd[c] = x.hd[c]
      BY <2>5, <1>13, <2>1, <2>2
    <3>. QED BY <3>1, <1>5, <2>1, <2>3 DEF Placing, Hd
  <2>. QED BY <2>4, <2>5
<1>21. job'.n = job.n /\ tab' = tab /\ Par(job.n)' = P /\ y.alloc >= Len(tab)
  BY <1>1, <1>3, <1>5, <1>12, <1>18, <1>19 DEF Onward
<1>22. LoopOk'
  BY <1>18, <1>19, <1>20, <1>21 DEF LoopOk
<1>23. HdKept(job.n, d_, y)
  <2>1. \A q \in Path : Has(x, q) /\ (\E c \in Slot : P[c] = q) => Has(y, q)
    BY <1>8, <1>9, <1>13
  <2>. QED BY <1>1, <1>3, <1>11, <1>12, <1>13, <1>18, <1>21, <2>1 DEF HdKept
<1>. QED BY <1>19, <1>22, <1>23, Parts DEF Rest
(* The hidden inodes stay, the hidden dentries grow. *)
LEMMA HiSame ==
    ASSUME NEW x, NEW y, NEW t, NEW m, y.hi = x.hi, y.ibstart = x.ibstart, y.ibend = x.ibend,
           HiRec(x, t, m), \A p : Has(x, p) => Has(y, p)
    PROVE  HiRec(y, t, m) /\ \A z : Under(x, z, t) => Under(y, z, t)
<1>1. Hi(y) = Hi(x)
  BY DEF Hi
<1>2. Under(y, y, t)
  BY <1>1 DEF HiRec, Under
<1>. QED BY <1>1, <1>2 DEF HiRec, Under

LEMMA HdRangeStep ==
    ASSUME RefInv, HdRange
    PROVE  RefInv' /\ \E y : HdKept(job.n, d_, y)
<1>. DEFINE S == {b \in 0 .. ParEnd(job.n) : d_.hd[b] # NoPath}
            z == [d_ EXCEPT !.bwh = KeepMark(job.bwh), !.bopq = KeepMark(job.bopq),
                            !.bstart = IF S = {} THEN @ ELSE Min(S),
                            !.bend = IF S = {} THEN @ ELSE Max(S)]
            top == d_.type # "dir" /\ z.bstart = ParStart(job.n)
<1>1. /\ job.pc = "hd" /\ job.b > job.e
      /\ dentry' = [dentry EXCEPT ![job.n] = IF top THEN [z EXCEPT !.gen = sigen] ELSE z]
      /\ job' = [job EXCEPT !.pc = IF top THEN "hstart" ELSE "look"]
      /\ UNCHANGED <<disk, tab, lastid, sigen, failed, fails>>
  BY DEF HdRange, branches
<1>2. job.pc \in Refreshing /\ job.pc \in HdSteps /\ RefType /\ TabOk /\ HdOk /\ LoopOk /\ Quietly
  BY <1>1 DEF Refreshing, HdSteps, RefInv, Quietly, RefType
<1>3. PICK n, x, b, e, P, g : /\ n = job.n /\ x = d_ /\ b = job.b /\ e = job.e
                              /\ P = Par(n) /\ g = IF top THEN sigen ELSE d_.gen
  OBVIOUS
<1>4. /\ n \in Name /\ x \in DentType /\ x = dentry[n] /\ Live(n) /\ job.opts = 0
      /\ HdRec(x, Pos(n)) /\ ParReady(n)
      /\ HiRec(x, tab, lastid) /\ (n = "f" => Under(x, dentry["d"], tab))
      /\ x.gen # sigen
  BY <1>2, <1>3, InRefresh
<1>5. /\ b \in Int /\ e \in Int /\ b > e /\ x.alloc >= Len(tab) /\ Placing(x, P, b, e)
  BY <1>1, <1>2, <1>3, JobFacts, Bounds DEF LoopOk
<1>6. \A c \in Hd(x) : x.hd[c] = P[c]
  <2>. SUFFICES ASSUME NEW c \in Hd(x) PROVE x.hd[c] = P[c]
    OBVIOUS
  <2>1. c < b \/ c > e
    <3>1. c \in Int
      BY Bounds DEF Hd
    <3>. QED BY <1>5, <3>1
  <2>. QED BY <1>5, <2>1 DEF Placing
<1>7. S = Hd(x)
  <2>1. ParEnd(n) \in Slot /\ \A c \in Slot : P[c] # NoPath => c <= ParEnd(n)
    BY <1>2, <1>3, <1>4, ParFacts
  <2>2. ParEnd(n) \in Nat /\ ParEnd(n) <= MaxBr - 1 /\ MaxBr \in Nat
    BY <2>1, Bounds
  <2>3. \A c \in 0 .. ParEnd(n) : c \in Slot
    BY <2>2 DEF Slot
  <2>4. \A c \in Hd(x) : c \in 0 .. ParEnd(n)
    <3>. SUFFICES ASSUME NEW c \in Hd(x) PROVE c \in 0 .. ParEnd(n)
      OBVIOUS
    <3>1. c \in Slot /\ P[c] # NoPath
      BY <1>6 DEF Hd
    <3>2. c \in Nat /\ c <= ParEnd(n)
      BY <3>1, <2>1, Bounds
    <3>. QED BY <3>2, <2>2
  <2>. QED BY <1>3, <2>3, <2>4 DEF Hd
<1>. HIDE DEF S, z, top
<1>8. PICK s, f, w, o : /\ s = (IF S = {} THEN x.bstart ELSE Min(S))
                        /\ f = (IF S = {} THEN x.bend ELSE Max(S))
                        /\ w = KeepMark(job.bwh) /\ o = KeepMark(job.bopq)
  OBVIOUS
<1>9. /\ s \in Index /\ f \in Index /\ 0 <= s /\ 0 <= f
      /\ (\A c \in Hd(x) : s <= c /\ c <= f) /\ (Hd(x) # {} => s \in Hd(x) /\ f \in Hd(x))
  <2>1. x.bstart \in Index /\ x.bend \in Index /\ 0 <= x.bstart /\ 0 <= x.bend
    BY <1>4 DEF DentType, HdRec
  <2>2. CASE S = {}
    BY <1>7, <1>8, <2>1, <2>2
  <2>3. CASE S # {}
    <3>1. S \in SUBSET Index
      BY <1>7, Bounds DEF Hd
    <3>2. s = Min(S) /\ f = Max(S)
      BY <1>8, <2>3
    <3>3. s \in S /\ (\A c \in S : s <= c) /\ f \in S /\ \A c \in S : f >= c
      BY <2>3, <3>1, <3>2, MinSlot, MaxSlot
    <3>4. S \subseteq Slot
      BY <1>7 DEF Hd
    <3>. QED BY <1>7, <3>3, <3>4, Bounds
  <2>. QED BY <2>2, <2>3
<1>10. w \in Index /\ o \in Index
  BY <1>2, <1>8, JobFacts, Bounds DEF KeepMark, Index
<1>11. PICK y : y = [x EXCEPT !.bwh = w, !.bopq = o, !.bstart = s, !.bend = f, !.gen = g]
  OBVIOUS
<1>12. g \in {x.gen, sigen} /\ g \in Nat /\ (top => g = sigen) /\ (~top => g = x.gen)
  BY <1>2, <1>3, <1>4 DEF RefType, DentType
<1>13. /\ y \in DentType /\ y.hd = x.hd /\ y.bstart = s /\ y.bend = f /\ y.gen = g
       /\ y.hi = x.hi /\ y.ibstart = x.ibstart /\ y.ibend = x.ibend /\ y.cached = x.cached
       /\ y.use = x.use /\ y.type = x.type /\ y.igen = x.igen /\ y.alloc = x.alloc
  BY <1>4, <1>9, <1>10, <1>11, <1>12 DEF DentType
<1>14. dentry' = [dentry EXCEPT ![job.n] = y]
  <2>1. z = [x EXCEPT !.bwh = w, !.bopq = o, !.bstart = s, !.bend = f]
    BY <1>3, <1>8 DEF z
  <2>2. (IF top THEN [z EXCEPT !.gen = sigen] ELSE z) = y
    <3>1. CASE top
      BY <3>1, <1>4, <1>11, <1>12, <2>1 DEF DentType
    <3>2. CASE ~top
      BY <3>2, <1>4, <1>11, <1>12, <2>1 DEF DentType
    <3>. QED BY <3>1, <3>2
  <2>. QED BY <1>1, <2>2
<1>15. /\ HdRec(y, Pos(n)) /\ Ranged(y) /\ HiRec(y, tab, lastid)
       /\ n = "f" => Under(y, dentry["d"], tab)
       /\ \A p : Has(x, p) => Has(y, p)
       /\ Hd(y) = Hd(x)
  <2>1. Hd(y) = Hd(x)
    BY <1>13 DEF Hd
  <2>2. HdRec(y, Pos(n)) /\ Ranged(y)
    BY <1>4, <1>9, <1>13, <2>1 DEF HdRec, Ranged
  <2>3. \A p : Has(x, p) => Has(y, p)
    BY <1>13 DEF Has
  <2>. QED BY <1>4, <1>13, <2>1, <2>2, <2>3, HiSame
<1>16. Now(y, tab) /\ (n = "f" => Nested(y, dentry["d"]))
  BY <1>2, <1>3, <1>5, <1>6, <1>13, <1>15, PlacedNow
<1>17. /\ Onward /\ job'.pc \in {"hstart", "look"} /\ (job'.pc = "hstart" <=> g = sigen)
  BY <1>1, <1>2, <1>4, <1>12 DEF RefType, JobType, AllSteps, Refreshing, HdSteps, HiSteps, Onward
<1>18. /\ Kept' /\ JobOk' /\ ParentOk' /\ d_' = y /\ Par(job.n)' = Par(job.n)
  <2>1. (job'.pc \in HdSteps => y.gen # sigen) /\ (job'.pc \in HiSteps => y.gen = sigen)
    BY <1>13, <1>17 DEF HiSteps, HdSteps
  <2>2. /\ y.cached = d_.cached /\ y.type = d_.type /\ y.use = d_.use
        /\ y.gen \in {d_.gen, sigen} /\ y.igen = d_.igen
        /\ HdRec(y, Pos(job.n)) /\ (job.n = "f" => Under(y, dentry["d"], tab))
        /\ (y.gen = sigen => Now(y, tab) /\ (job.n = "f" => Nested(y, dentry["d"])))
        /\ \A p : Has(d_, p) => Has(y, p)
    BY <1>3, <1>4, <1>12, <1>13, <1>15, <1>16
  <2>3. failed' = failed
    BY <1>1
  <2>. QED BY <1>2, <1>13, <1>14, <1>15, <1>17, <2>1, <2>2, <2>3, RefreshDent
<1>19. Placing(y, P, MaxBr, MaxBr)
  BY <1>6, <1>13, <1>15 DEF Placing
<1>20. Par(job.n)' = P /\ y.alloc >= Len(tab) /\ tab' = tab
  BY <1>1, <1>3, <1>5, <1>13, <1>18
<1>21. LoopOk'
  BY <1>17, <1>18, <1>19, <1>20 DEF LoopOk
<1>22. HdKept(job.n, d_, y)
  <2>1. Hd(x) # {} => Ends(y)
    BY <1>9, <1>13, <1>15 DEF Ends
  <2>. QED BY <1>1, <1>3, <1>13, <1>14, <1>15, <2>1 DEF HdKept
<1>. QED BY <1>18, <1>21, <1>22, Parts DEF Rest
-----------------------------------------------------------------------------
(* lkup_dentry. *)

LEMMA TypeOnFacts ==
    ASSUME NEW p, NEW n
    PROVE  TypeOn(p, n) \in {"dir", "file", "neg"}
<1>1. CASE disk[p][n] \in {"dir", "opq"}
  BY <1>1 DEF TypeOn
<1>2. CASE disk[p][n] = "file"
  BY <1>2 DEF TypeOn
<1>3. CASE disk[p][n] \notin {"dir", "opq"} /\ disk[p][n] # "file"
  BY <1>3 DEF TypeOn
<1>. QED BY <1>1, <1>2, <1>3

LEMMA LookedFacts ==
    ASSUME RefType, TabOk, HdOk, NEW n \in Name, ParReady(n), NEW x
    PROVE  /\ \A b \in ParStart(n) .. ParTail(n) : b \in Slot
           /\ Looked(n, x) \subseteq Slot
           /\ Looked(n, x) \subseteq ParStart(n) .. ParTail(n)
           /\ \A b \in Looked(n, x) : /\ x.hd[b] = NoPath /\ Par(n)[b] # NoPath
                                      /\ Par(n)[b] \in Path /\ ParHd(n, b) = Par(n)[b]
<1>1. /\ ParStart(n) \in Slot /\ ParTail(n) \in Index /\ Par(n) \in HdType
      /\ \A b \in Slot : Par(n)[b] = ParHd(n, b)
  BY ParFacts
<1>2. /\ ParStart(n) \in Int /\ ParTail(n) \in Int /\ 0 <= ParStart(n) /\ ParTail(n) <= MaxBr - 1
      /\ MaxBr \in Nat
  BY <1>1, Bounds
<1>3. \A b \in ParStart(n) .. ParTail(n) : b \in Slot
  BY <1>2 DEF Slot
<1>. QED BY <1>1, <1>3 DEF Looked, HdType

(* Fields that lkup_dentry leaves alone. *)
SameRest(x, y) ==
    /\ y.cached = x.cached /\ y.use = x.use /\ y.type = x.type /\ y.gen = x.gen /\ y.hi = x.hi
    /\ y.ibstart = x.ibstart /\ y.ibend = x.ibend /\ y.igen = x.igen /\ y.alloc = x.alloc

FillSlots(x, y, New, P) ==
    /\ \A b \in Slot : y.hd[b] = IF b \in New THEN P[b] ELSE x.hd[b]
    /\ New = {} => y.bstart = x.bstart /\ y.bend = x.bend
    /\ New # {} => /\ y.bend \in New \cup {x.bend} /\ \A c \in New \cup {x.bend} : c <= y.bend
                   /\ y.bstart \in New \cup {x.bstart} /\ \A c \in New : y.bstart <= c
                   /\ IF x.bstart = -1 THEN y.bstart \in New ELSE y.bstart <= x.bstart
FillMarks(x, y, Wh, Opq) ==
    /\ IF Wh = {} THEN y.bwh = x.bwh ELSE y.bwh \in Wh
    /\ IF Opq = {} THEN y.bopq = x.bopq ELSE y.bopq \in Opq

LEMMA FillFacts ==
    ASSUME RefType, TabOk, HdOk, NEW n \in Name, ParReady(n), NEW x \in DentType,
           NEW New \in SUBSET Looked(n, x), NEW Wh \in SUBSET Slot, NEW Opq \in SUBSET Slot
    PROVE  /\ Fill(n, x, New, Wh, Opq) \in DentType
           /\ SameRest(x, Fill(n, x, New, Wh, Opq))
           /\ FillSlots(x, Fill(n, x, New, Wh, Opq), New, Par(n))
           /\ FillMarks(x, Fill(n, x, New, Wh, Opq), Wh, Opq)
<1>1. New \subseteq Slot /\ New \subseteq Index /\ \A b \in New : ParHd(n, b) = Par(n)[b] /\ Par(n)[b] \in Path
  BY LookedFacts, Bounds
<1>2. PICK h, s, f, w, o :
        /\ h = [b \in Slot |-> IF b \in New THEN ParHd(n, b) ELSE x.hd[b]]
        /\ f = IF New = {} THEN x.bend ELSE Max(New \cup {x.bend})
        /\ s = IF New = {} THEN x.bstart ELSE IF x.bstart = -1 THEN Min(New) ELSE Min(New \cup {x.bstart})
        /\ w = IF Wh = {} THEN x.bwh ELSE Min(Wh)
        /\ o = IF Opq = {} THEN x.bopq ELSE Max(Opq)
  OBVIOUS
<1>3. PICK y : y = Fill(n, x, New, Wh, Opq)
  OBVIOUS
<1>4. y = [x EXCEPT !.hd = h, !.bend = f, !.bstart = s, !.bwh = w, !.bopq = o]
  BY <1>2, <1>3 DEF Fill
<1>5. /\ x.hd \in HdType /\ x.bstart \in Index /\ x.bend \in Index /\ x.bwh \in Index /\ x.bopq \in Index
  BY DEF DentType
<1>6. h \in HdType /\ \A b \in Slot : h[b] = IF b \in New THEN Par(n)[b] ELSE x.hd[b]
  BY <1>1, <1>2, <1>5 DEF HdType
<1>7. /\ New = {} => s = x.bstart /\ f = x.bend
      /\ New # {} => /\ f \in New \cup {x.bend} /\ \A c \in New \cup {x.bend} : c <= f
                     /\ s \in New \cup {x.bstart} /\ \A c \in New : s <= c
                     /\ IF x.bstart = -1 THEN s \in New ELSE s <= x.bstart
  <2>. SUFFICES ASSUME New # {}
                PROVE  /\ f \in New \cup {x.bend} /\ \A c \in New \cup {x.bend} : c <= f
                       /\ s \in New \cup {x.bstart} /\ \A c \in New : s <= c
                       /\ IF x.bstart = -1 THEN s \in New ELSE s <= x.bstart
    BY <1>2
  <2>1. New \cup {x.bend} \in SUBSET Index /\ New \cup {x.bstart} \in SUBSET Index /\ New \in SUBSET Index
    BY <1>1, <1>5
  <2>2. f \in New \cup {x.bend} /\ \A c \in New \cup {x.bend} : f >= c
    <3>1. f = Max(New \cup {x.bend})
      BY <1>2
    <3>. QED BY <2>1, <3>1, MaxSlot
  <2>3. \A c \in New \cup {x.bend} : c <= f
    <3>1. f \in Int /\ \A c \in New \cup {x.bend} : c \in Int
      BY <2>1, <2>2, Bounds
    <3>. QED BY <2>2, <3>1
  <2>4. CASE x.bstart = -1
    <3>1. s = Min(New)
      BY <1>2, <2>4
    <3>2. s \in New /\ \A c \in New : s <= c
      BY <2>1, <3>1, MinSlot
    <3>. QED BY <2>2, <2>3, <2>4, <3>2
  <2>5. CASE x.bstart # -1
    <3>1. s = Min(New \cup {x.bstart})
      BY <1>2, <2>5
    <3>2. s \in New \cup {x.bstart} /\ \A c \in New \cup {x.bstart} : s <= c
      BY <2>1, <3>1, MinSlot
    <3>. QED BY <2>2, <2>3, <2>5, <3>2
  <2>. QED BY <2>4, <2>5
<1>8. /\ IF Wh = {} THEN w = x.bwh ELSE w \in Wh
      /\ IF Opq = {} THEN o = x.bopq ELSE o \in Opq
  <2>1. Wh \in SUBSET Index /\ Opq \in SUBSET Index
    BY Bounds
  <2>2. Wh # {} => Min(Wh) \in Wh
    BY <2>1, MinSlot
  <2>3. Opq # {} => Max(Opq) \in Opq
    BY <2>1, MaxSlot
  <2>. QED BY <1>2, <2>2, <2>3
<1>9. s \in Index /\ f \in Index /\ w \in Index /\ o \in Index
  <2>1. s \in Index /\ f \in Index
    BY <1>1, <1>5, <1>7
  <2>2. w \in Index /\ o \in Index
    BY <1>5, <1>8, Bounds
  <2>. QED BY <2>1, <2>2
<1>10. /\ y \in DentType /\ SameRest(x, y)
       /\ y.hd = h /\ y.bstart = s /\ y.bend = f /\ y.bwh = w /\ y.bopq = o
  BY <1>4, <1>6, <1>9 DEF DentType, SameRest
<1>11. FillSlots(x, y, New, Par(n))
  BY <1>6, <1>7, <1>10 DEF FillSlots
<1>12. FillMarks(x, y, Wh, Opq)
  BY <1>8, <1>10 DEF FillMarks
<1>. QED BY <1>3, <1>10, <1>11, <1>12
(* The positive hidden dentries of a record; au_update_dbstart drops what  *)
(* is above the first of them.                                             *)
Good(x, n) == {b \in x.bstart .. x.bend : x.hd[b] # NoPath /\ TypeOn(x.hd[b], n) # "neg"}
Updated(x, y, n) ==
    /\ y.bend = x.bend /\ y.bwh = x.bwh /\ y.bopq = x.bopq
    /\ y.bstart \in Good(x, n) /\ \A b \in Good(x, n) : y.bstart <= b
    /\ \A b \in Slot : y.hd[b] = IF b < y.bstart THEN NoPath ELSE x.hd[b]

LEMMA UpdateFacts ==
    ASSUME NEW x \in DentType, NEW n \in Name, 0 <= x.bstart
    PROVE  /\ Good(x, n) \subseteq Slot
           /\ Good(x, n) = {} => UpdateDbstart(x, n) = x
           /\ Good(x, n) # {} => /\ UpdateDbstart(x, n) \in DentType
                                 /\ SameRest(x, UpdateDbstart(x, n))
                                 /\ Updated(x, UpdateDbstart(x, n), n)
<1>1. x.hd \in HdType /\ x.bstart \in Index /\ x.bend \in Index
  BY DEF DentType
<1>2. Good(x, n) \subseteq Slot
  <2>1. \A b \in x.bstart .. x.bend : b \in Slot
    <3>1. x.bstart \in Int /\ x.bend \in Int /\ x.bend <= MaxBr - 1 /\ MaxBr \in Nat
      BY <1>1, Bounds
    <3>. QED BY <3>1 DEF Slot
  <2>. QED BY <2>1 DEF Good
<1>3. Good(x, n) = {} => UpdateDbstart(x, n) = x
  BY DEF UpdateDbstart, Good
<1>4. ASSUME Good(x, n) # {}
      PROVE  /\ UpdateDbstart(x, n) \in DentType
             /\ SameRest(x, UpdateDbstart(x, n))
             /\ Updated(x, UpdateDbstart(x, n), n)
  <2>1. PICK m, h, y : /\ m = Min(Good(x, n)) /\ y = UpdateDbstart(x, n)
                       /\ h = [b \in Slot |-> IF b < m THEN NoPath ELSE x.hd[b]]
    OBVIOUS
  <2>2. m \in Good(x, n) /\ \A b \in Good(x, n) : m <= b
    <3>1. Good(x, n) \in SUBSET Index
      BY <1>2, Bounds
    <3>. QED BY <1>4, <2>1, <3>1, MinSlot
  <2>3. y = [x EXCEPT !.bstart = m, !.hd = h]
    BY <1>4, <2>1 DEF UpdateDbstart, Good
  <2>4. m \in Index /\ h \in HdType /\ \A b \in Slot : h[b] = IF b < m THEN NoPath ELSE x.hd[b]
    BY <1>1, <1>2, <2>1, <2>2, Bounds DEF HdType
  <2>5. y \in DentType /\ SameRest(x, y) /\ y.bstart = m /\ y.hd = h
        /\ y.bend = x.bend /\ y.bwh = x.bwh /\ y.bopq = x.bopq
    BY <2>3, <2>4 DEF DentType, SameRest
  <2>. QED BY <2>1, <2>2, <2>4, <2>5 DEF Updated
<1>. QED BY <1>2, <1>3, <1>4

(* The slots that lkup_dentry fills when it looks for type t, and what is  *)
(* in the record z then.                                                   *)
LkupOf(n, x, t)  == {b \in Positive(n, t, Looked(n, x)) : TypeAt(n, b) = t}
LkupNew(n, x, t) == LkupOf(n, x, t) \cap Visited(n, x, t, Looked(n, x), LkupOf(n, x, t))
LkupAdds(n, x, t, z) ==
    /\ \A c \in Slot : z.hd[c] = IF c \in LkupNew(n, x, t) THEN Par(n)[c] ELSE x.hd[c]
    /\ (\A b \in Looked(n, x) : ~HasWh(ParHd(n, b), n) /\ ~IsOpq(ParHd(n, b), n))
          => z.bwh = x.bwh /\ z.bopq = x.bopq

(* A refresh that looks the name up again keeps what is there and adds     *)
(* hidden dentries in the slots of the parent.                             *)
LkupKept(n, x, t, z) ==
    /\ LkupAdds(n, x, t, z)
    /\ z \in DentType /\ SameRest(x, z) /\ HdRec(z, Pos(n)) /\ Ranged(z)
    /\ \A c \in Hd(z) : z.hd[c] = Par(n)[c]
    /\ \A c \in Hd(x) : z.hd[c] = x.hd[c]
    /\ Ends(x) => Ends(z)

LEMMA LkupKeeps ==
    ASSUME RefType, TabOk, HdOk, NEW n \in Name, ParReady(n), NEW x \in DentType,
           HdRec(x, Pos(n)), Ranged(x), \A c \in Hd(x) : x.hd[c] = Par(n)[c],
           NEW t \in {"file", "dir"}
    PROVE  LkupKept(n, x, t, LkupDentry(n, x, t).d)
<1>. USE DEF LkupKept
<1>1. PICK L, P, F, V, Wh, Opq, New :
        /\ L = Looked(n, x) /\ P = Positive(n, t, L) /\ F = {b \in P : TypeAt(n, b) = t}
        /\ V = Visited(n, x, t, L, F) /\ Wh = {b \in L \cap V : HasWh(ParHd(n, b), n)}
        /\ Opq = {b \in F \cap V : IsOpq(ParHd(n, b), n)}
        /\ New = (F \cap V) \cup {b \in V \cap L : t = "any" /\ TypeAt(n, b) = "neg" /\ \A c \in L : b <= c}
  OBVIOUS
<1>2. WantedType(n, t, P) = t
  BY DEF WantedType
<1>3. LkupDentry(n, x, t) = LkupVisit(n, x, t, t, L, F, V)
  BY <1>1, <1>2 DEF LkupDentry, LkupAt, LkupIn, LkupFound, LkupTyped
<1>4. PICK y : y = Fill(n, x, New, Wh, Opq)
  OBVIOUS
<1>5. LkupDentry(n, x, t).d \in {y, UpdateDbstart(y, n)}
  BY <1>1, <1>3, <1>4 DEF LkupVisit
<1>6. /\ F \subseteq L /\ (\A b \in F : TypeAt(n, b) # "neg") /\ New = F \cap V
      /\ L \subseteq Slot
      /\ \A b \in L : x.hd[b] = NoPath /\ Par(n)[b] # NoPath /\ Par(n)[b] \in Path /\ ParHd(n, b) = Par(n)[b]
  <2>1. F \subseteq L /\ (\A b \in F : TypeAt(n, b) # "neg") /\ New = F \cap V
    BY <1>1 DEF Positive
  <2>. QED BY <1>1, <2>1, LookedFacts
<1>7. y \in DentType /\ SameRest(x, y) /\ FillSlots(x, y, New, Par(n))
  <2>1. New \in SUBSET Looked(n, x) /\ Wh \in SUBSET Slot /\ Opq \in SUBSET Slot
    BY <1>1, <1>6
  <2>. QED BY <1>4, <2>1, FillFacts
<1>7a. LkupAdds(n, x, t, y)
  <2>1. New \in SUBSET Looked(n, x) /\ Wh \in SUBSET Slot /\ Opq \in SUBSET Slot
    BY <1>1, <1>6
  <2>2. FillMarks(x, y, Wh, Opq)
    BY <1>4, <2>1, FillFacts
  <2>3. New = LkupNew(n, x, t)
    BY <1>1, <1>6 DEF LkupNew, LkupOf
  <2>4. ASSUME \A b \in L : ~HasWh(ParHd(n, b), n) /\ ~IsOpq(ParHd(n, b), n)
        PROVE  Wh = {} /\ Opq = {}
    BY <1>1, <1>6, <2>4
  <2>. QED BY <1>1, <1>7, <2>2, <2>3, <2>4 DEF LkupAdds, FillSlots, FillMarks
<1>8. \A c \in Hd(x) : c \in Slot /\ c \notin New /\ y.hd[c] = x.hd[c]
  BY <1>6, <1>7 DEF FillSlots, Hd
<1>9. \A c \in Hd(y) : c \in Slot /\ (c \in New \/ c \in Hd(x)) /\ y.hd[c] = Par(n)[c]
  BY <1>6, <1>7 DEF FillSlots, Hd
<1>10. \A c \in Hd(y) : y.hd[c] \in Pos(n)
  <2>. SUFFICES ASSUME NEW c \in Hd(y) PROVE y.hd[c] \in Pos(n)
    OBVIOUS
  <2>1. CASE c \in New
    <3>1. y.hd[c] = ParHd(n, c) /\ y.hd[c] \in Path /\ TypeOn(ParHd(n, c), n) # "neg"
      BY <2>1, <1>6, <1>9 DEF TypeAt
    <3>. QED BY <3>1 DEF Pos
  <2>2. CASE c \in Hd(x)
    BY <2>2, <1>8 DEF HdRec
  <2>. QED BY <2>1, <2>2, <1>9
<1>11. x.bstart \in Int /\ x.bend \in Int /\ 0 <= x.bstart /\ 0 <= x.bend /\ x.bstart # -1
       /\ y.bstart \in Int /\ y.bend \in Int
  BY <1>7, Bounds DEF DentType, HdRec
<1>12. 0 <= y.bstart /\ 0 <= y.bend /\ y.bstart <= x.bstart /\ x.bend <= y.bend
  <2>1. CASE New = {}
    BY <2>1, <1>7, <1>11 DEF FillSlots
  <2>2. CASE New # {}
    <3>1. y.bstart \in New \cup {x.bstart} /\ y.bstart <= x.bstart /\ x.bend <= y.bend
      BY <2>2, <1>7, <1>11 DEF FillSlots
    <3>2. 0 <= y.bstart
      BY <3>1, <1>6, <1>11, Bounds
    <3>. QED BY <3>1, <3>2, <1>11
  <2>. QED BY <2>1, <2>2
<1>13. Ranged(y)
  <2>. SUFFICES ASSUME NEW c \in Hd(y) PROVE y.bstart <= c /\ c <= y.bend
    BY DEF Ranged
  <2>1. c \in Int
    BY <1>9, Bounds
  <2>2. CASE c \in New
    BY <2>2, <1>7 DEF FillSlots
  <2>3. CASE c \in Hd(x)
    BY <2>1, <2>3, <1>11, <1>12 DEF Ranged
  <2>. QED BY <2>2, <2>3, <1>9
<1>14. HdRec(y, Pos(n))
  <2>1. ASSUME NEW b \in Hd(y), NEW c \in Hd(y), y.hd[b] = y.hd[c] PROVE b = c
    <3>1. b \in Slot /\ c \in Slot /\ Par(n)[b] # NoPath /\ Par(n)[b] = Par(n)[c]
      BY <2>1, <1>9 DEF Hd
    <3>. QED BY <3>1, ParFacts
  <2>. QED BY <2>1, <1>10, <1>12 DEF HdRec
<1>14a. ASSUME Ends(x) PROVE Ends(y)
  <2>1. \A c \in New \cup Hd(x) : c \in Hd(y)
    BY <1>6, <1>7, <1>8 DEF FillSlots, Hd
  <2>2. y.bstart \in New \cup {x.bstart} /\ y.bend \in New \cup {x.bend}
    BY <1>7 DEF FillSlots
  <2>. QED BY <1>14a, <2>1, <2>2 DEF Ends
<1>15. CASE LkupDentry(n, x, t).d = y
  BY <1>7, <1>7a, <1>8, <1>9, <1>13, <1>14, <1>14a, <1>15
<1>16. CASE LkupDentry(n, x, t).d = UpdateDbstart(y, n)
  <2>1. CASE Good(y, n) = {}
    BY <2>1, <1>7, <1>7a, <1>8, <1>9, <1>12, <1>13, <1>14, <1>14a, <1>16, UpdateFacts
  <2>2. CASE Good(y, n) # {}
    <3>1. PICK z : z = UpdateDbstart(y, n)
      OBVIOUS
    <3>2. z \in DentType /\ SameRest(y, z) /\ Updated(y, z, n) /\ Good(y, n) \subseteq Slot
      BY <2>2, <3>1, <1>7, <1>12, UpdateFacts
    <3>3. z.bstart \in Int /\ 0 <= z.bstart
      BY <3>2, Bounds DEF Updated
    <3>4. \A c \in Hd(y) : c \in Good(y, n) /\ z.bstart <= c /\ c \in Int
      <4>. SUFFICES ASSUME NEW c \in Hd(y) PROVE c \in Good(y, n) /\ z.bstart <= c /\ c \in Int
        OBVIOUS
      <4>1. c \in Int /\ y.bstart <= c /\ c <= y.bend
        BY <1>9, <1>13, Bounds DEF Ranged
      <4>2. y.hd[c] # NoPath /\ TypeOn(y.hd[c], n) # "neg"
        BY <1>10 DEF Hd, Pos
      <4>3. c \in Good(y, n)
        BY <4>1, <4>2, <1>11 DEF Good
      <4>. QED BY <4>1, <4>3, <3>2 DEF Updated
    <3>5. \A c \in Slot : z.hd[c] = y.hd[c]
      <4>. SUFFICES ASSUME NEW c \in Slot PROVE z.hd[c] = y.hd[c]
        OBVIOUS
      <4>1. c \in Int
        BY Bounds
      <4>2. CASE c < z.bstart
        <5>1. c \notin Hd(y)
          BY <4>1, <4>2, <3>3, <3>4
        <5>. QED BY <4>2, <5>1, <3>2 DEF Updated, Hd
      <4>. QED BY <4>2, <3>2 DEF Updated
    <3>6. Hd(z) = Hd(y) /\ \A c \in Hd(z) : z.hd[c] = y.hd[c]
      BY <3>5 DEF Hd
    <3>7. HdRec(z, Pos(n)) /\ Ranged(z)
      BY <1>12, <1>13, <1>14, <3>2, <3>3, <3>4, <3>6 DEF HdRec, Ranged, Updated
    <3>8. SameRest(x, z)
      BY <1>7, <3>2 DEF SameRest
    <3>9. \A c \in Hd(x) : z.hd[c] = x.hd[c]
      BY <1>8, <3>5
    <3>10. Ends(x) => Ends(z)
      <4>1. z.bend = y.bend /\ z.bstart \in Good(y, n)
        BY <3>2 DEF Updated
      <4>2. z.bstart \in Hd(y)
        BY <3>2, <4>1 DEF Good, Hd
      <4>. QED BY <1>14a, <3>6, <4>1, <4>2 DEF Ends
    <3>11. LkupAdds(n, x, t, z)
      <4>1. z.bwh = y.bwh /\ z.bopq = y.bopq
        BY <3>2 DEF Updated
      <4>. QED BY <1>7a, <3>5, <4>1 DEF LkupAdds
    <3>. QED BY <1>9, <1>16, <3>1, <3>2, <3>6, <3>7, <3>8, <3>9, <3>10, <3>11
  <2>. QED BY <2>1, <2>2
<1>. QED BY <1>5, <1>15, <1>16

LEMMA HdLkupStep ==
    ASSUME RefInv, HdLkup
    PROVE  RefInv' /\ \E y : HdKept(job.n, d_, y)
<1>1. /\ job.pc = "look"
      /\ dentry' = [dentry EXCEPT ![job.n] = [LkupDentry(job.n, d_, d_.type).d EXCEPT !.gen = sigen]]
      /\ job' = [job EXCEPT !.pc = "hstart"]
      /\ UNCHANGED <<disk, tab, lastid, sigen, failed, fails>>
  BY DEF HdLkup, branches
<1>2. job.pc \in Refreshing /\ job.pc \in HdSteps /\ RefType /\ TabOk /\ HdOk /\ LoopOk /\ Quietly
  BY <1>1 DEF Refreshing, HdSteps, RefInv, Quietly, RefType
<1>3. PICK n, x, P, t : n = job.n /\ x = d_ /\ P = Par(n) /\ t = d_.type
  OBVIOUS
<1>4. /\ n \in Name /\ x \in DentType /\ x = dentry[n] /\ Live(n) /\ job.opts = 0
      /\ HdRec(x, Pos(n)) /\ Ranged(x) /\ ParReady(n)
      /\ HiRec(x, tab, lastid) /\ (n = "f" => Under(x, dentry["d"], tab))
      /\ x.gen # sigen
  BY <1>1, <1>2, <1>3, InRefresh
<1>5. /\ x.alloc >= Len(tab) /\ t \in {"file", "dir"}
      /\ \A c \in Hd(x) : x.hd[c] = P[c]
  <2>1. x.alloc >= Len(tab) /\ Placing(x, P, MaxBr, MaxBr)
    BY <1>1, <1>2, <1>3 DEF LoopOk
  <2>2. \A c \in Hd(x) : c < MaxBr
    BY Bounds DEF Hd
  <2>3. t \in {"neg", "file", "dir"} /\ t # "neg"
    BY <1>3, <1>4 DEF DentType, Live
  <2>. QED BY <2>1, <2>2, <2>3 DEF Placing
<1>6. PICK z, y : z = LkupDentry(n, x, t).d /\ y = [z EXCEPT !.gen = sigen]
  OBVIOUS
<1>7. /\ z \in DentType /\ SameRest(x, z) /\ HdRec(z, Pos(n)) /\ Ranged(z)
      /\ \A c \in Hd(z) : z.hd[c] = P[c]
      /\ \A c \in Hd(x) : z.hd[c] = x.hd[c]
      /\ Ends(x) => Ends(z)
  <2>1. \A c \in Hd(x) : x.hd[c] = Par(n)[c]
    BY <1>3, <1>5
  <2>2. LkupKept(n, x, t, z)
    BY <1>2, <1>4, <1>5, <1>6, <2>1, LkupKeeps
  <2>. QED BY <1>3, <2>2 DEF LkupKept
<1>8. /\ y \in DentType /\ y.hd = z.hd /\ y.bstart = z.bstart /\ y.bend = z.bend /\ y.gen = sigen
      /\ y.hi = x.hi /\ y.ibstart = x.ibstart /\ y.ibend = x.ibend /\ y.cached = x.cached
      /\ y.use = x.use /\ y.type = x.type /\ y.igen = x.igen /\ y.alloc = x.alloc
      /\ y.hi = z.hi /\ y.ibstart = z.ibstart /\ y.ibend = z.ibend
  <2>1. sigen \in Nat
    BY <1>2, Bounds DEF RefType
  <2>. QED BY <1>6, <1>7, <2>1 DEF DentType, SameRest
<1>9. dentry' = [dentry EXCEPT ![job.n] = y]
  BY <1>1, <1>3, <1>6
<1>10. HdRec(y, Pos(n)) /\ Ranged(y) /\ Hd(y) = Hd(z)
  BY <1>7, <1>8, Agree
<1>11. \A p : p # NoPath /\ Has(x, p) => Has(y, p)
  <2>. SUFFICES ASSUME NEW p, p # NoPath, NEW c \in Slot, x.hd[c] = p PROVE Has(y, p)
    BY DEF Has
  <2>. QED BY <1>7, <1>8 DEF Hd, Has
<1>12. /\ HiRec(y, tab, lastid) /\ (n = "f" => Under(y, dentry["d"], tab))
  <2>1. Hi(y) = Hi(x)
    BY <1>8 DEF Hi
  <2>2. Under(y, y, tab)
    BY <1>2, <1>4, <1>8, <1>11, <2>1, TabFacts DEF HiRec, Under
  <2>. QED BY <1>4, <1>8, <2>1, <2>2 DEF HiRec, Under
<1>13. Now(y, tab) /\ (n = "f" => Nested(y, dentry["d"]))
  <2>1. \A c \in Hd(y) : y.hd[c] = Par(job.n)[c]
    BY <1>3, <1>7, <1>8, <1>10
  <2>2. y.alloc >= Len(tab)
    BY <1>5, <1>8
  <2>. QED BY <1>2, <1>3, <1>8, <2>1, <2>2, PlacedNow
<1>14. Onward /\ job'.pc = "hstart"
  BY <1>1, <1>2, <1>4 DEF RefType, JobType, AllSteps, Refreshing, HdSteps, HiSteps, Onward
<1>15. /\ Kept' /\ JobOk' /\ ParentOk' /\ d_' = y /\ Par(job.n)' = Par(job.n)
  <2>1. (job'.pc \in HdSteps => y.gen # sigen) /\ (job'.pc \in HiSteps => y.gen = sigen)
    BY <1>8, <1>14 DEF HiSteps, HdSteps
  <2>2. /\ y.cached = d_.cached /\ y.type = d_.type /\ y.use = d_.use
        /\ y.gen \in {d_.gen, sigen} /\ y.igen = d_.igen
        /\ HdRec(y, Pos(job.n)) /\ (job.n = "f" => Under(y, dentry["d"], tab))
        /\ (y.gen = sigen => Now(y, tab) /\ (job.n = "f" => Nested(y, dentry["d"])))
        /\ \A i \in 1 .. Len(tab) : Has(d_, tab[i].path) => Has(y, tab[i].path)
    BY <1>2, <1>3, <1>4, <1>8, <1>10, <1>11, <1>12, <1>13, TabFacts
  <2>3. failed' = failed
    BY <1>1
  <2>. QED BY <1>2, <1>8, <1>9, <1>10, <1>12, <1>14, <2>1, <2>2, <2>3, RefreshDent
<1>16. LoopOk'
  BY <1>14 DEF LoopOk
<1>17. HdKept(job.n, d_, y)
  <2>1. Ends(x) => Ends(y)
    BY <1>7, <1>8, <1>10 DEF Ends
  <2>2. \A q \in Path : Has(x, q) => Has(y, q)
    BY <1>11, PathAssumption
  <2>. QED BY <1>1, <1>3, <1>8, <1>9, <2>1, <2>2 DEF HdKept
<1>. QED BY <1>15, <1>16, <1>17, Parts DEF Rest

-----------------------------------------------------------------------------
(* au_refresh_hinode. *)

LEMMA HiStartStep ==
    ASSUME RefInv, HiStart
    PROVE  RefInv'
<1>1. /\ job.pc = "hstart" /\ job' = [job EXCEPT !.pc = "hi", !.b = d_.ibstart]
      /\ dentry' = dentry /\ UNCHANGED <<disk, tab, lastid, sigen, failed, fails>>
  BY DEF HiStart, branches
<1>2. job.pc \in Refreshing /\ job.pc \in HiSteps /\ RefType /\ LoopOk /\ Quietly
  BY <1>1 DEF Refreshing, HiSteps, RefInv, Quietly, RefType
<1>3. PICK x, b : x = d_ /\ b = d_.ibstart
  OBVIOUS
<1>4. x \in DentType /\ job.opts = 0 /\ HiRec(x, tab, lastid)
  BY <1>2, <1>3, InRefresh
<1>5. b \in -1 .. MaxBr /\ b \in Int /\ 0 <= b
  BY <1>3, <1>4, Bounds DEF DentType, Index, HiRec
<1>6. Onward /\ job'.pc = "hi" /\ job'.b = b
  BY <1>1, <1>2, <1>3, <1>4, <1>5 DEF RefType, JobType, AllSteps, Refreshing, HiSteps, Onward
<1>7. /\ Kept' /\ JobOk' /\ ParentOk' /\ d_' = d_
  <2>1. job'.pc \in HiSteps
    BY <1>6 DEF HiSteps
  <2>. QED BY <1>1, <1>2, <1>6, <2>1, RefreshSame
<1>8. IPlacing(x, tab, b)
  <2>. SUFFICES ASSUME NEW c \in Hi(x), c < b PROVE FALSE
    BY DEF IPlacing
  <2>1. c \in Int /\ b <= c
    BY <1>3, <1>4, Bounds DEF HiRec, Hi
  <2>. QED BY <1>5, <2>1
<1>9. LoopOk'
  BY <1>1, <1>3, <1>5, <1>6, <1>7, <1>8 DEF LoopOk
<1>. QED BY <1>7, <1>9, Parts DEF Rest
LEMMA BrIndexFacts ==
    ASSUME RefType, NEW id
    PROVE  \/ FindBrIndex(id) = -1 /\ \A i \in 1 .. Len(tab) : tab[i].id # id
           \/ /\ FindBrIndex(id) \in Slot /\ FindBrIndex(id) <= SBend
              /\ tab[FindBrIndex(id) + 1].id = id
<1>. DEFINE S == {i \in DOMAIN tab : tab[i].id = id}
<1>1. FindBrIndex(id) = IF S = {} THEN -1 ELSE Min(S) - 1
  BY DEF FindBrIndex
<1>2. DOMAIN tab = 1 .. Len(tab)
  BY DEF RefType, TabType
<1>3. CASE S = {}
  BY <1>1, <1>2, <1>3
<1>4. CASE S # {}
  <2>1. S \in SUBSET Nat
    BY <1>2, TabFacts
  <2>2. \E m \in S : \A u \in S : m <= u
    BY <1>4, <2>1, LeastNat
  <2>3. Min(S) \in S
    BY <2>2 DEF Min
  <2>4. PICK m : m = Min(S)
    OBVIOUS
  <2>5. m \in 1 .. Len(tab) /\ tab[m].id = id /\ FindBrIndex(id) = m - 1
    BY <1>1, <1>2, <1>4, <2>3, <2>4
  <2>. HIDE DEF S
  <2>6. m - 1 \in Slot /\ m - 1 <= SBend /\ (m - 1) + 1 = m
    BY <2>5, TabFacts
  <2>. QED BY <2>5, <2>6
<1>. QED BY <1>3, <1>4

LEMMA HiKeepStep ==
    ASSUME RefInv, HiKeep
    PROVE  RefInv'
<1>1. /\ job.pc = "hi" /\ job.b <= d_.ibend /\ job' = [job EXCEPT !.b = @ + 1]
      /\ d_.hi[job.b] = NoInode \/ HiIndex = job.b
      /\ dentry' = dentry /\ UNCHANGED <<disk, tab, lastid, sigen, failed, fails>>
  BY DEF HiKeep, branches
<1>2. job.pc \in Refreshing /\ job.pc \in HiSteps /\ RefType /\ LoopOk /\ Quietly
  BY <1>1 DEF Refreshing, HiSteps, RefInv, Quietly, RefType
<1>3. PICK x, b : x = d_ /\ b = job.b
  OBVIOUS
<1>4. x \in DentType /\ job.opts = 0 /\ HiRec(x, tab, lastid)
  BY <1>2, <1>3, InRefresh
<1>5. 0 <= b /\ b \in Int /\ IPlacing(x, tab, b)
  BY <1>1, <1>2, <1>3, JobFacts DEF LoopOk
<1>6. b \in Slot /\ b + 1 \in -1 .. MaxBr /\ 0 <= b + 1
  <2>1. x.ibend \in Int /\ x.ibend <= MaxBr - 1 /\ b <= x.ibend /\ MaxBr \in Nat
    BY <1>1, <1>3, <1>4, Bounds DEF DentType
  <2>. QED BY <1>5, <2>1 DEF Slot
<1>7. Onward /\ job'.pc = "hi" /\ job'.b = b + 1
  BY <1>1, <1>2, <1>3, <1>4, <1>6 DEF RefType, JobType, Refreshing, HiSteps, Onward
<1>8. /\ Kept' /\ JobOk' /\ ParentOk' /\ d_' = d_
  <2>1. job'.pc = job.pc
    BY <1>1, <1>7
  <2>. QED BY <1>1, <1>2, <1>7, <2>1, RefreshSame
<1>9. x.hi[b] # NoInode => b <= Len(tab) - 1 /\ x.hi[b] = tab[b + 1]
  <2>. SUFFICES ASSUME x.hi[b] # NoInode PROVE b <= Len(tab) - 1 /\ x.hi[b] = tab[b + 1]
    OBVIOUS
  <2>1. FindBrIndex(x.hi[b].id) = b
    BY <1>1, <1>3 DEF HiIndex
  <2>2. b # -1
    BY <1>6, Bounds
  <2>3. b <= SBend /\ tab[b + 1].id = x.hi[b].id
    BY <1>2, <2>1, <2>2, BrIndexFacts
  <2>4. b + 1 \in 1 .. Len(tab) /\ b <= Len(tab) - 1
    BY <1>2, <1>6, <2>3, TabFacts
  <2>. QED BY <1>4, <1>6, <2>3, <2>4 DEF HiRec, Hi
<1>10. IPlacing(x, tab, b + 1)
  <2>. SUFFICES ASSUME NEW c \in Hi(x), c < b + 1 PROVE c <= Len(tab) - 1 /\ x.hi[c] = tab[c + 1]
    BY DEF IPlacing
  <2>1. c \in Int /\ x.hi[c] # NoInode
    BY Bounds DEF Hi
  <2>2. c < b \/ c = b
    BY <1>5, <2>1
  <2>. QED BY <1>5, <1>9, <2>1, <2>2 DEF IPlacing
<1>11. LoopOk'
  BY <1>1, <1>3, <1>6, <1>7, <1>8, <1>10 DEF LoopOk
<1>. QED BY <1>8, <1>11, Parts DEF Rest

(* A hidden inode in slot b that leaves the array or changes places. *)
HiMoves(x, y, b, k) ==
    IF k = -1 THEN y.hi = [x.hi EXCEPT ![b] = NoInode] /\ y.ibstart = x.ibstart /\ y.ibend = x.ibend
    ELSE /\ y.hi = Swap(x.hi, b, k)
         /\ y.ibstart = Min({x.ibstart, k}) /\ y.ibend = Max({x.ibend, k})
HiAfter(x, y, b, k) ==
    /\ k = -1 => \A c \in Slot : y.hi[c] = IF c = b THEN NoInode ELSE x.hi[c]
    /\ k # -1 => \A c \in Slot : y.hi[c] = IF c = k THEN x.hi[b]
                                           ELSE IF c = b THEN x.hi[k] ELSE x.hi[c]

LEMMA HiMoved ==
    ASSUME NEW x \in DentType, NEW t, NEW m, HiRec(x, t, m), NEW b \in Slot, x.hi[b] # NoInode,
           NEW k \in Slot \cup {-1}, NEW y, y.hd = x.hd, HiMoves(x, y, b, k)
    PROVE  /\ y.hi \in HiType /\ y.ibstart \in Index /\ y.ibend \in Index
           /\ HiRec(y, t, m) /\ HiAfter(x, y, b, k)
           /\ \A z : Under(x, z, t) => Under(y, z, t)
<1>1. x.hi \in HiType /\ x.ibstart \in Index /\ x.ibend \in Index /\ 0 <= x.ibstart /\ 0 <= x.ibend
      /\ x.ibstart <= b /\ b <= x.ibend /\ NoInode \in [path : Path \cup {NoPath}, id : Nat]
  BY DEF DentType, HiRec, Hi, NoInode
<1>2. \A p : Has(y, p) = Has(x, p)
  BY DEF Has
<1>3. CASE k = -1
  <2>1. y.hi = [x.hi EXCEPT ![b] = NoInode] /\ y.ibstart = x.ibstart /\ y.ibend = x.ibend
    BY <1>3 DEF HiMoves
  <2>2. y.hi \in HiType /\ \A c \in Slot : y.hi[c] = IF c = b THEN NoInode ELSE x.hi[c]
    BY <1>1, <2>1 DEF HiType
  <2>3. \A c \in Hi(y) : c \in Hi(x) /\ y.hi[c] = x.hi[c]
    BY <2>2 DEF Hi
  <2>4. \A z : Under(x, z, t) => Under(y, z, t)
    BY <2>3 DEF Under
  <2>5. Under(y, y, t)
    BY <1>2, <2>3 DEF HiRec, Under
  <2>6. HiRec(y, t, m)
    BY <2>1, <2>3, <2>5 DEF HiRec
  <2>. QED BY <1>1, <1>3, <2>1, <2>2, <2>4, <2>6 DEF HiAfter
<1>4. CASE k # -1
  <2>0. k \in Slot /\ k \in Index /\ k \in Int /\ 0 <= k
    BY <1>4, Bounds
  <2>1. y.hi = Swap(x.hi, b, k)
    BY <1>4 DEF HiMoves
  <2>2. y.hi \in HiType /\ \A c \in Slot : y.hi[c] = IF c = k THEN x.hi[b] ELSE IF c = b THEN x.hi[k] ELSE x.hi[c]
    BY <1>1, <2>0, <2>1 DEF HiType, Swap
  <2>3. /\ y.ibstart \in {x.ibstart, k} /\ y.ibstart <= x.ibstart /\ y.ibstart <= k
        /\ y.ibend \in {x.ibend, k} /\ x.ibend <= y.ibend /\ k <= y.ibend
    <3>1. {x.ibstart, k} \in SUBSET Index /\ {x.ibend, k} \in SUBSET Index
      BY <1>1, <2>0
    <3>2. y.ibstart = Min({x.ibstart, k}) /\ y.ibend = Max({x.ibend, k})
      BY <1>4 DEF HiMoves
    <3>3. y.ibstart \in {x.ibstart, k} /\ \A c \in {x.ibstart, k} : y.ibstart <= c
      BY <3>1, <3>2, MinSlot
    <3>4. y.ibend \in {x.ibend, k} /\ \A c \in {x.ibend, k} : y.ibend >= c
      BY <3>1, <3>2, MaxSlot
    <3>5. x.ibend \in Int /\ y.ibend \in Int
      BY <1>1, <2>0, <3>4, Bounds
    <3>. QED BY <2>0, <3>3, <3>4, <3>5
  <2>. DEFINE s(c) == IF c = k THEN b ELSE IF c = b THEN k ELSE c
  <2>5. \A c \in Slot : s(c) \in Slot /\ y.hi[c] = x.hi[s(c)] /\ s(s(c)) = c /\ (c = b => s(c) = k)
                        /\ (c # b /\ c # k => s(c) = c)
    BY <2>0, <2>2, <1>1
  <2>. HIDE DEF s
  <2>6. \A c \in Hi(y) : s(c) \in Hi(x) /\ y.hi[c] = x.hi[s(c)] /\ c = s(s(c))
    BY <2>5 DEF Hi
  <2>7. ASSUME NEW c \in Hi(y), NEW d \in Hi(y), y.hi[c].id = y.hi[d].id PROVE c = d
    <3>1. s(c) = s(d)
      BY <2>6, <2>7 DEF HiRec
    <3>. QED BY <2>6, <3>1
  <2>8. ASSUME NEW c \in Hi(y) PROVE y.ibstart <= c /\ c <= y.ibend
    <3>1. c \in Slot /\ c \in Int /\ y.ibstart \in Int /\ y.ibend \in Int /\ x.ibstart \in Int /\ x.ibend \in Int
          /\ b \in Int
      BY <1>1, <2>0, <2>3, Bounds DEF Hi
    <3>2. CASE c = k
      BY <2>3, <3>2
    <3>3. CASE c = b
      BY <1>1, <2>3, <3>1, <3>3
    <3>4. CASE c # k /\ c # b
      <4>1. c \in Hi(x)
        BY <2>5, <2>6, <3>1, <3>4
      <4>2. x.ibstart <= c /\ c <= x.ibend
        BY <4>1 DEF HiRec
      <4>. QED BY <2>3, <3>1, <4>2
    <3>. QED BY <3>2, <3>3, <3>4
  <2>9. \A z : Under(x, z, t) => Under(y, z, t)
    BY <2>6 DEF Under
  <2>10. Under(y, y, t)
    BY <1>2, <2>6 DEF HiRec, Under
  <2>11. 0 <= y.ibstart /\ 0 <= y.ibend
    BY <1>1, <2>0, <2>3
  <2>12. \A c \in Hi(y) : /\ y.hi[c].id <= m
                          /\ \A i \in 1 .. Len(t) : t[i].id = y.hi[c].id => t[i] = y.hi[c]
    BY <2>6 DEF HiRec
  <2>13. HiRec(y, t, m)
    BY <2>7, <2>8, <2>10, <2>11, <2>12 DEF HiRec
  <2>. QED BY <1>1, <1>4, <2>0, <2>2, <2>3, <2>9, <2>13 DEF HiAfter
<1>. QED BY <1>3, <1>4
LEMMA HiMoveStep ==
    ASSUME RefInv, HiMove
    PROVE  RefInv' /\ \E y : HdKept(job.n, d_, y)
<1>1. /\ job.pc = "hi" /\ job.b <= d_.ibend /\ d_.hi[job.b] # NoInode
      /\ dentry' = [dentry EXCEPT ![job.n] =
              IF HiIndex = -1 THEN [d_ EXCEPT !.hi[job.b] = NoInode]
              ELSE [d_ EXCEPT !.hi = Swap(d_.hi, job.b, HiIndex),
                              !.ibstart = Min({d_.ibstart, HiIndex}),
                              !.ibend = Max({d_.ibend, HiIndex})]]
      /\ job' = [job EXCEPT !.b = IF HiIndex # -1 /\ d_.hi[HiIndex] # NoInode THEN @ ELSE @ + 1]
      /\ UNCHANGED <<disk, tab, lastid, sigen, failed, fails>>
  BY DEF HiMove, branches
<1>2. job.pc \in Refreshing /\ job.pc \in HiSteps /\ RefType /\ LoopOk /\ HdNow /\ Quietly
  BY <1>1 DEF Refreshing, HiSteps, RefInv, Quietly, RefType
<1>3. PICK n, x, b, k : n = job.n /\ x = d_ /\ b = job.b /\ k = HiIndex
  OBVIOUS
<1>4. /\ n \in Name /\ x \in DentType /\ x = dentry[n] /\ Live(n) /\ job.opts = 0
      /\ HdRec(x, Pos(n)) /\ Ranged(x)
      /\ HiRec(x, tab, lastid) /\ (n = "f" => Under(x, dentry["d"], tab))
      /\ x.gen = sigen
  BY <1>1, <1>2, <1>3, InRefresh
<1>5. Now(x, tab) /\ (n = "f" => Nested(x, dentry["d"]))
  BY <1>2, <1>4 DEF HdNow
<1>6. 0 <= b /\ b \in Int /\ IPlacing(x, tab, b)
  BY <1>1, <1>2, <1>3, JobFacts DEF LoopOk
<1>7. b \in Slot /\ b \in -1 .. MaxBr /\ b + 1 \in -1 .. MaxBr /\ 0 <= b + 1
  <2>1. x.ibend \in Int /\ x.ibend <= MaxBr - 1 /\ b <= x.ibend /\ MaxBr \in Nat
    BY <1>1, <1>3, <1>4, Bounds DEF DentType
  <2>. QED BY <1>6, <2>1 DEF Slot
<1>8. \/ k = -1
      \/ k \in Slot /\ k # -1 /\ k <= Len(tab) - 1 /\ tab[k + 1] = x.hi[b]
  <2>1. k = FindBrIndex(x.hi[b].id) /\ x.hi[b] # NoInode
    BY <1>1, <1>3 DEF HiIndex
  <2>2. k = -1 \/ (k \in Slot /\ k <= SBend /\ tab[k + 1].id = x.hi[b].id)
    BY <1>2, <2>1, BrIndexFacts
  <2>3. k \in Slot /\ k <= SBend => k + 1 \in 1 .. Len(tab) /\ k <= Len(tab) - 1 /\ k # -1
    BY <1>2, TabFacts, Bounds
  <2>. QED BY <1>4, <1>7, <2>1, <2>2, <2>3 DEF HiRec, Hi
<1>9. k \in Slot \cup {-1}
  BY <1>8
<1>9a. PICK h, s, f : /\ h = (IF k = -1 THEN [x.hi EXCEPT ![b] = NoInode] ELSE Swap(x.hi, b, k))
                      /\ s = (IF k = -1 THEN x.ibstart ELSE Min({x.ibstart, k}))
                      /\ f = (IF k = -1 THEN x.ibend ELSE Max({x.ibend, k}))
  OBVIOUS
<1>10. PICK y : y = [x EXCEPT !.hi = h, !.ibstart = s, !.ibend = f]
  OBVIOUS
<1>11. dentry' = [dentry EXCEPT ![job.n] = y]
  <2>1. CASE k = -1
    <3>1. y = [x EXCEPT !.hi[b] = NoInode]
      BY <2>1, <1>4, <1>9a, <1>10 DEF DentType
    <3>. QED BY <3>1, <2>1, <1>1, <1>3, <1>4
  <2>2. CASE k # -1
    <3>1. y = [x EXCEPT !.hi = Swap(x.hi, b, k), !.ibstart = Min({x.ibstart, k}), !.ibend = Max({x.ibend, k})]
      BY <2>2, <1>9a, <1>10
    <3>2. HiIndex # -1
      BY <2>2, <1>3
    <3>. QED BY <3>1, <3>2, <1>1, <1>3, <1>4
  <2>. QED BY <2>1, <2>2
<1>12. /\ y.hi = h /\ y.ibstart = s /\ y.ibend = f
       /\ y.hd = x.hd /\ y.bstart = x.bstart /\ y.bend = x.bend /\ y.cached = x.cached
       /\ y.use = x.use /\ y.type = x.type /\ y.gen = x.gen /\ y.igen = x.igen /\ y.alloc = x.alloc
       /\ h \in HiType /\ s \in Index /\ f \in Index => y \in DentType
  BY <1>4, <1>10 DEF DentType
<1>13. /\ y \in DentType /\ HiRec(y, tab, lastid) /\ HiAfter(x, y, b, k)
       /\ n = "f" => Under(y, dentry["d"], tab)
  <2>1. PICK t, m : t = tab /\ m = lastid
    OBVIOUS
  <2>2. HiMoves(x, y, b, k)
    BY <1>9a, <1>12 DEF HiMoves
  <2>3. HiRec(x, t, m) /\ x.hi[b] # NoInode
    BY <1>1, <1>3, <1>4, <2>1
  <2>4. /\ y.hi \in HiType /\ y.ibstart \in Index /\ y.ibend \in Index
        /\ HiRec(y, t, m) /\ HiAfter(x, y, b, k)
        /\ \A z : Under(x, z, t) => Under(y, z, t)
    BY <1>4, <1>7, <1>9, <1>12, <2>2, <2>3, HiMoved
  <2>. QED BY <1>4, <1>12, <2>1, <2>4
<1>14. /\ HdRec(y, Pos(n)) /\ Ranged(y) /\ Now(y, tab) /\ (n = "f" => Nested(y, dentry["d"]))
       /\ \A p : Has(x, p) => Has(y, p)
  <2>1. Hd(y) = Hd(x)
    BY <1>12 DEF Hd
  <2>2. \A p : Has(x, p) => Has(y, p)
    BY <1>12 DEF Has
  <2>. QED BY <1>4, <1>5, <1>12, <2>1, <2>2 DEF HdRec, Ranged, Now, Nested
<1>15. PICK nb : nb = IF k # -1 /\ x.hi[k] # NoInode THEN b ELSE b + 1
  OBVIOUS
<1>16. Onward /\ job'.pc = "hi" /\ job'.b = nb /\ nb \in Int /\ 0 <= nb
  <2>1. nb \in -1 .. MaxBr /\ nb \in Int /\ 0 <= nb
    BY <1>6, <1>7, <1>15
  <2>2. job' = [job EXCEPT !.b = nb]
    BY <1>1, <1>3, <1>15
  <2>. QED BY <1>1, <1>2, <1>4, <2>1, <2>2 DEF RefType, JobType, Onward
<1>17. /\ Kept' /\ JobOk' /\ ParentOk' /\ d_' = y
  <2>1. job'.pc \notin HdSteps /\ job'.pc # "hd"
    BY <1>16 DEF HdSteps
  <2>2. /\ y.cached = d_.cached /\ y.type = d_.type /\ y.use = d_.use
        /\ y.gen \in {d_.gen, sigen} /\ y.igen = d_.igen /\ y.gen = sigen
        /\ HdRec(y, Pos(job.n)) /\ (job.n = "f" => Under(y, dentry["d"], tab))
        /\ Now(y, tab) /\ (job.n = "f" => Nested(y, dentry["d"]))
        /\ \A p : Has(d_, p) => Has(y, p)
    BY <1>3, <1>4, <1>12, <1>13, <1>14
  <2>3. failed' = failed
    BY <1>1
  <2>. QED BY <1>2, <1>11, <1>13, <1>14, <1>16, <2>1, <2>2, <2>3, RefreshDent
<1>18. IPlacing(y, tab, nb)
  <2>. SUFFICES ASSUME NEW c \in Hi(y), c < nb PROVE c <= Len(tab) - 1 /\ y.hi[c] = tab[c + 1]
    BY DEF IPlacing
  <2>1. c \in Slot /\ c \in Int /\ y.hi[c] # NoInode
    BY Bounds DEF Hi
  <2>2. CASE k # -1 /\ c = k
    BY <2>1, <2>2, <1>8, <1>13 DEF HiAfter
  <2>3. CASE ~(k # -1 /\ c = k)
    <3>1. c # b
      <4>. SUFFICES ASSUME c = b PROVE FALSE
        OBVIOUS
      <4>1. nb = b + 1
        BY <1>6, <1>15
      <4>2. b # b + 1
        BY <1>6
      <4>. QED BY <4>1, <4>2, <1>13, <1>15, <2>1, <2>3 DEF HiAfter
    <3>2. c < b /\ y.hi[c] = x.hi[c]
      <4>1. c < b
        BY <3>1, <2>1, <1>6, <1>15
      <4>. QED BY <4>1, <3>1, <2>1, <2>3, <1>13 DEF HiAfter
    <3>. QED BY <3>2, <2>1, <1>6 DEF IPlacing, Hi
  <2>. QED BY <2>2, <2>3
<1>19. tab' = tab
  BY <1>1
<1>20. LoopOk'
  BY <1>16, <1>17, <1>18, <1>19 DEF LoopOk
<1>21. HdKept(job.n, d_, y)
  <2>1. Ends(x) => Ends(y)
    BY <1>12 DEF Ends, Hd
  <2>. QED BY <1>1, <1>3, <1>11, <1>12, <1>13, <1>14, <2>1 DEF HdKept
<1>. QED BY <1>17, <1>20, <1>21, Parts DEF Rest
(* What the second loop of au_refresh_hinode makes of record x. *)
Adopted(x, y, t) ==
    /\ y.hd = x.hd /\ y.bstart = x.bstart /\ y.bend = x.bend /\ y.cached = x.cached
    /\ y.use = x.use /\ y.type = x.type /\ y.gen = x.gen /\ y.alloc = x.alloc
    /\ \A c \in Slot : y.hi[c] = IF c \in Hd(x) \cup Hi(x) THEN t[c + 1] ELSE NoInode
    /\ Hi(y) = Hd(x) \cup Hi(x)
    /\ 0 <= y.ibstart /\ 0 <= y.ibend /\ \A c \in Hi(y) : y.ibstart <= c /\ c <= y.ibend

LEMMA HiAdoptFacts ==
    ASSUME RefInv, HiAdopt
    PROVE  \E y \in DentType :
              /\ dentry' = [dentry EXCEPT ![job.n] = y]
              /\ Adopted(d_, y, tab) /\ y.igen = sigen
              /\ IF Hi(y) = {} THEN job' = [job EXCEPT !.pc = "null"] /\ failed' = failed
                 ELSE Return(TRUE)
<1>. DEFINE Own == {b \in d_.bstart .. d_.bend :
                      d_.hd[b] # NoPath /\ TypeOn(d_.hd[b], job.n) # "neg"}
            Bad == {b \in Own : d_.hi[b] # NoInode /\ d_.hi[b].path # d_.hd[b]}
            New == {b \in Own : d_.hi[b] = NoInode /\ \A c \in Bad : b < c}
            hi == [b \in Slot |-> IF b \in New THEN [path |-> d_.hd[b], id |-> tab[b + 1].id]
                                  ELSE d_.hi[b]]
            bend == Max(New \cup {d_.ibend})
            S == {b \in 0 .. bend : hi[b] # NoInode}
            ibs == IF S = {} THEN Min(New \cup {d_.ibstart}) ELSE Min(S)
            ibe == IF Cardinality(S) < 2 THEN bend ELSE Max(S)
            gen == IF Bad = {} THEN sigen ELSE d_.igen
<1>1. /\ job.pc = "hi" /\ job.b > d_.ibend
      /\ dentry' = [dentry EXCEPT ![job.n] =
                      [d_ EXCEPT !.hi = hi, !.ibstart = ibs, !.ibend = ibe, !.igen = gen]]
      /\ IF S = {} THEN job' = [job EXCEPT !.pc = "null"] /\ UNCHANGED failed
         ELSE Return(Bad = {})
  BY DEF HiAdopt
<1>2. job.pc \in Refreshing /\ job.pc \in HiSteps /\ RefType /\ TabOk /\ LoopOk /\ HdNow
  BY <1>1 DEF Refreshing, HiSteps, RefInv
<1>3. PICK n, x : n = job.n /\ x = d_
  OBVIOUS
<1>4. /\ n \in Name /\ x \in DentType /\ x = dentry[n] /\ Live(n) /\ job.opts = 0
      /\ HdRec(x, Pos(n)) /\ Ranged(x) /\ HiRec(x, tab, lastid) /\ x.gen = sigen
  BY <1>1, <1>2, <1>3, InRefresh
<1>5. \A c \in Hd(x) : c \in Slot /\ c <= SBend /\ x.hd[c] = tab[c + 1].path /\ x.hd[c] # NoPath
  <2>1. Now(x, tab)
    BY <1>2, <1>4 DEF HdNow
  <2>. QED BY <2>1 DEF Now, Hd, SBend
<1>6. \A c \in Hi(x) : c \in Slot /\ c <= SBend /\ x.hi[c] = tab[c + 1] /\ c <= x.ibend
  <2>. SUFFICES ASSUME NEW c \in Hi(x)
                PROVE  c \in Slot /\ c <= SBend /\ x.hi[c] = tab[c + 1] /\ c <= x.ibend
    OBVIOUS
  <2>1. job.b \in Int /\ x.ibend \in Int /\ c \in Int /\ c \in Slot /\ job.b > x.ibend
    BY <1>1, <1>2, <1>3, <1>4, JobFacts, Bounds DEF DentType, Hi
  <2>2. c <= x.ibend
    BY <1>4 DEF HiRec
  <2>3. c < job.b
    BY <2>1, <2>2
  <2>4. IPlacing(x, tab, job.b)
    BY <1>1, <1>2, <1>3 DEF LoopOk
  <2>. QED BY <2>1, <2>2, <2>3, <2>4 DEF IPlacing, SBend
<1>7. /\ x.hd \in HdType /\ x.hi \in HiType /\ x.bstart \in Int /\ x.bend \in Int /\ 0 <= x.bstart
      /\ x.bend <= MaxBr - 1 /\ x.ibstart \in Index /\ x.ibend \in Index /\ 0 <= x.ibstart /\ 0 <= x.ibend
  BY <1>4, Bounds DEF DentType, HdRec, HiRec
<1>8. Own = Hd(x)
  <2>1. \A c \in x.bstart .. x.bend : c \in Slot
    BY <1>7, Bounds DEF Slot
  <2>2. \A c \in Hd(x) : c \in x.bstart .. x.bend /\ TypeOn(x.hd[c], n) # "neg"
    <3>. SUFFICES ASSUME NEW c \in Hd(x) PROVE c \in x.bstart .. x.bend /\ TypeOn(x.hd[c], n) # "neg"
      OBVIOUS
    <3>1. c \in Int /\ x.bstart <= c /\ c <= x.bend
      BY <1>4, <1>5, Bounds DEF Ranged
    <3>2. x.hd[c] \in Pos(n)
      BY <1>4 DEF HdRec
    <3>. QED BY <1>7, <3>1, <3>2 DEF Pos
  <2>. QED BY <1>3, <2>1, <2>2 DEF Hd
<1>9. Bad = {}
  <2>. SUFFICES ASSUME NEW c \in Hd(x), x.hi[c] # NoInode, x.hi[c].path # x.hd[c] PROVE FALSE
    BY <1>3, <1>8
  <2>1. c \in Hi(x)
    BY <1>5 DEF Hi
  <2>. QED BY <1>5, <1>6, <2>1
<1>10. New = Hd(x) \ Hi(x)
  <2>1. New = {b \in Hd(x) : x.hi[b] = NoInode}
    BY <1>3, <1>8, <1>9
  <2>. QED BY <2>1, <1>5 DEF Hi
<1>. HIDE DEF Own, Bad, New
<1>11. \A c \in Slot : c <= SBend => /\ tab[c + 1] = [path |-> tab[c + 1].path, id |-> tab[c + 1].id]
                                     /\ tab[c + 1] # NoInode /\ tab[c + 1].id \in Nat
                                     /\ tab[c + 1] \in [path : Path \cup {NoPath}, id : Nat]
  <2>. SUFFICES ASSUME NEW c \in Slot, c <= SBend
                PROVE  /\ tab[c + 1] = [path |-> tab[c + 1].path, id |-> tab[c + 1].id]
                       /\ tab[c + 1] # NoInode /\ tab[c + 1].id \in Nat
                       /\ tab[c + 1] \in [path : Path \cup {NoPath}, id : Nat]
    OBVIOUS
  <2>1. PICK r : r = tab[c + 1]
    OBVIOUS
  <2>2. r \in [path : Path, id : Nat \ {0}] /\ r.id # 0
    BY <1>2, <2>1, TabFacts
  <2>. QED BY <2>1, <2>2 DEF NoInode
<1>12. \A c \in Slot : hi[c] = IF c \in Hd(x) \cup Hi(x) THEN tab[c + 1] ELSE NoInode
  <2>. SUFFICES ASSUME NEW c \in Slot
                PROVE  hi[c] = IF c \in Hd(x) \cup Hi(x) THEN tab[c + 1] ELSE NoInode
    OBVIOUS
  <2>1. CASE c \in New
    <3>1. hi[c] = [path |-> x.hd[c], id |-> tab[c + 1].id] /\ c \in Hd(x)
      BY <2>1, <1>3, <1>10
    <3>. QED BY <3>1, <1>5, <1>11
  <2>2. CASE c \notin New /\ c \in Hi(x)
    BY <2>2, <1>3, <1>6
  <2>3. CASE c \notin New /\ c \notin Hi(x)
    <3>1. c \notin Hd(x) /\ x.hi[c] = NoInode
      BY <2>3, <1>10 DEF Hi
    <3>. QED BY <2>3, <3>1, <1>3
  <2>. QED BY <2>1, <2>2, <2>3
<1>13. hi \in HiType
  <2>3. NoInode \in [path : Path \cup {NoPath}, id : Nat]
    BY DEF NoInode
  <2>1. \A c \in Slot : hi[c] \in [path : Path \cup {NoPath}, id : Nat]
    <3>. HIDE DEF hi
    <3>. QED BY <1>5, <1>6, <1>11, <1>12, <2>3
  <2>. QED BY <2>1 DEF HiType
<1>14. hi = [c \in Slot |-> hi[c]]
  OBVIOUS
<1>. HIDE DEF hi
<1>15. /\ bend \in Index /\ bend \in Int /\ 0 <= bend /\ bend <= MaxBr - 1
       /\ \A c \in New : c <= bend
       /\ x.ibend <= bend
  <2>1. New \cup {x.ibend} \in SUBSET Index
    BY <1>5, <1>7, <1>10, Bounds
  <2>2. bend \in New \cup {x.ibend} /\ \A c \in New \cup {x.ibend} : bend >= c
    BY <1>3, <2>1, MaxSlot
  <2>3. bend \in Index /\ \A c \in New \cup {x.ibend} : c \in Int
    BY <2>1, <2>2, Bounds
  <2>4. bend \in Int /\ bend <= MaxBr - 1
    BY <2>3, Bounds
  <2>. QED BY <1>7, <2>2, <2>3, <2>4
<1>. HIDE DEF bend
<1>16. S = Hd(x) \cup Hi(x) /\ S \in SUBSET Slot
  <2>1. \A c \in 0 .. bend : c \in Slot
    BY <1>15, Bounds DEF Slot
  <2>2. \A c \in Hd(x) \cup Hi(x) : c \in 0 .. bend
    <3>. SUFFICES ASSUME NEW c \in Hd(x) \cup Hi(x) PROVE c \in 0 .. bend
      OBVIOUS
    <3>1. c \in Slot /\ c \in Int /\ 0 <= c
      BY <1>5, <1>6, Bounds
    <3>2. c <= bend
      <4>1. CASE c \in New
        BY <4>1, <1>15
      <4>2. CASE c \in Hi(x)
        <5>1. c <= x.ibend /\ x.ibend \in Int
          BY <4>2, <1>6, <1>7, Bounds
        <5>. QED BY <5>1, <3>1, <1>15
      <4>. QED BY <4>1, <4>2, <1>10
    <3>. QED BY <3>1, <3>2, <1>15
  <2>3. \A c \in 0 .. bend : hi[c] # NoInode <=> c \in Hd(x) \cup Hi(x)
    BY <2>1, <1>5, <1>6, <1>11, <1>12
  <2>. QED BY <2>1, <2>2, <2>3
<1>. HIDE DEF S
<1>17. /\ ibs \in Index /\ ibe \in Index /\ 0 <= ibs /\ 0 <= ibe
       /\ \A c \in S : ibs <= c /\ c <= ibe
  <2>1. S \in SUBSET Index
    BY <1>16, Bounds
  <2>2. CASE S = {}
    <3>1. New = {}
      BY <2>2, <1>10, <1>16
    <3>2. ibs = Min({x.ibstart}) /\ Cardinality(S) = 0
      BY <2>2, <3>1, <1>3, FS_EmptySet
    <3>3. ibs = x.ibstart
      <4>1. {x.ibstart} \in SUBSET Index
        BY <1>7
      <4>. QED BY <3>2, <4>1, MinSlot
    <3>4. ibe = bend
      BY <3>2
    <3>. QED BY <2>2, <3>3, <3>4, <1>7, <1>15
  <2>3. CASE S # {}
    <3>1. ibs \in S /\ \A c \in S : ibs <= c
      BY <2>1, <2>3, MinSlot
    <3>2. Max(S) \in S /\ \A c \in S : Max(S) >= c
      BY <2>1, <2>3, MaxSlot
    <3>3. \A c \in S : c \in Int /\ 0 <= c /\ c \in Index
      BY <1>16, Bounds
    <3>4. \A c \in S : c <= bend
      <4>1. S \subseteq 0 .. bend
        BY DEF S
      <4>. QED BY <4>1, <1>15
    <3>5. ibe \in Index /\ 0 <= ibe /\ \A c \in S : c <= ibe
      <4>1. CASE Cardinality(S) < 2
        <5>1. ibe = bend
          BY <4>1
        <5>. QED BY <5>1, <3>4, <1>15
      <4>2. CASE ~(Cardinality(S) < 2)
        <5>1. ibe = Max(S)
          BY <4>2
        <5>2. \A c \in S : c <= Max(S)
          BY <3>2, <3>3
        <5>. QED BY <5>1, <5>2, <3>2, <3>3
      <4>. QED BY <4>1, <4>2
    <3>. QED BY <3>1, <3>3, <3>5
  <2>. QED BY <2>2, <2>3
<1>. HIDE DEF ibs, ibe
<1>18. gen = sigen /\ gen \in Nat
  BY <1>2, <1>9, Bounds DEF RefType
<1>. HIDE DEF gen
<1>19. PICK y : y = [x EXCEPT !.hi = hi, !.ibstart = ibs, !.ibend = ibe, !.igen = gen]
  OBVIOUS
<1>20. /\ y \in DentType /\ y.hi = hi /\ y.ibstart = ibs /\ y.ibend = ibe /\ y.igen = sigen
       /\ y.hd = x.hd /\ y.bstart = x.bstart /\ y.bend = x.bend /\ y.cached = x.cached
       /\ y.use = x.use /\ y.type = x.type /\ y.gen = x.gen /\ y.alloc = x.alloc
  BY <1>4, <1>13, <1>17, <1>18, <1>19 DEF DentType
<1>21. Hi(y) = Hd(x) \cup Hi(x)
  <2>1. \A c \in Slot : y.hi[c] # NoInode <=> c \in Hd(x) \cup Hi(x)
    BY <1>5, <1>6, <1>11, <1>12, <1>20, ZenonT(60)
  <2>. QED BY <2>1, <1>16 DEF Hi
<1>22. Adopted(x, y, tab)
  BY <1>12, <1>16, <1>17, <1>20, <1>21 DEF Adopted
<1>23. dentry' = [dentry EXCEPT ![job.n] = y]
  BY <1>1, <1>3, <1>19
<1>24. IF Hi(y) = {} THEN job' = [job EXCEPT !.pc = "null"] /\ failed' = failed
       ELSE Return(TRUE)
  BY <1>1, <1>9, <1>16, <1>21, ZenonT(60)
<1>. QED BY <1>3, <1>20, <1>22, <1>23, <1>24, ZenonT(60)
LEMMA HiAdoptStep ==
    ASSUME RefInv, HiAdopt
    PROVE  RefInv'
<1>1. job.pc = "hi" /\ UNCHANGED <<disk, tab, lastid, sigen, fails>>
  BY DEF HiAdopt
<1>2. job.pc \in Refreshing /\ job.pc \in HiSteps /\ RefType /\ TabOk /\ JobOk /\ ParentOk /\ HdNow
  BY <1>1 DEF Refreshing, HiSteps, RefInv
<1>3. PICK y \in DentType :
              /\ dentry' = [dentry EXCEPT ![job.n] = y]
              /\ Adopted(d_, y, tab) /\ y.igen = sigen
              /\ IF Hi(y) = {} THEN job' = [job EXCEPT !.pc = "null"] /\ failed' = failed
                 ELSE Return(TRUE)
  BY HiAdoptFacts
<1>4. PICK n, x : n = job.n /\ x = d_
  OBVIOUS
<1>5. /\ n \in Name /\ x \in DentType /\ x = dentry[n] /\ Live(n) /\ job.opts = 0
      /\ HdRec(x, Pos(n)) /\ Ranged(x) /\ HiRec(x, tab, lastid) /\ x.gen = sigen
      /\ n = "f" => Under(x, dentry["d"], tab)
      /\ (n = "f" => dentry["d"].gen = sigen)
  BY <1>1, <1>2, <1>4, InRefresh
<1>6. Adopted(x, y, tab)
  BY <1>3, <1>4
<1>7. Now(x, tab) /\ (n = "f" => Nested(x, dentry["d"]))
  BY <1>2, <1>5 DEF HdNow
<1>8. Hd(y) = Hd(x) /\ \A p : Has(x, p) <=> Has(y, p)
  BY <1>6 DEF Adopted, Hd, Has
<1>9. HdRec(y, Pos(n)) /\ Ranged(y) /\ Now(y, tab) /\ (n = "f" => Nested(y, dentry["d"]))
  BY <1>5, <1>6, <1>7, <1>8 DEF Adopted, HdRec, Ranged, Now, Nested
<1>10. \A c \in Hd(x) : c \in Slot /\ c <= SBend /\ x.hd[c] = tab[c + 1].path
  BY <1>7 DEF Now, Hd, SBend
<1>11. \A c \in Hi(y) : /\ c \in Slot /\ y.hi[c] = tab[c + 1] /\ c <= SBend /\ c + 1 \in 1 .. Len(tab)
                        /\ Has(x, tab[c + 1].path) /\ (n = "f" => Has(dentry["d"], tab[c + 1].path))
  <2>. SUFFICES ASSUME NEW c \in Hi(y)
                PROVE  /\ c \in Slot /\ y.hi[c] = tab[c + 1] /\ c <= SBend /\ c + 1 \in 1 .. Len(tab)
                       /\ Has(x, tab[c + 1].path) /\ (n = "f" => Has(dentry["d"], tab[c + 1].path))
    OBVIOUS
  <2>1. c \in Slot /\ y.hi[c] = tab[c + 1] /\ (c \in Hd(x) \/ c \in Hi(x))
    BY <1>6 DEF Adopted, Hi
  <2>2. CASE c \in Hd(x)
    <3>1. c <= SBend /\ c + 1 \in 1 .. Len(tab) /\ x.hd[c] = tab[c + 1].path
      BY <1>2, <1>10, <2>1, <2>2, TabFacts
    <3>2. n = "f" => Has(dentry["d"], x.hd[c])
      BY <1>7, <2>2 DEF Nested
    <3>. QED BY <2>1, <3>1, <3>2 DEF Has
  <2>3. CASE c \in Hi(x)
    <3>1. IPlacing(x, tab, job.b) /\ c < job.b
      <4>1. IPlacing(x, tab, job.b) /\ job.b > x.ibend /\ c <= x.ibend
        BY <1>1, <1>4, <1>5, <2>3 DEF RefInv, LoopOk, HiAdopt, HiRec
      <4>2. job.b \in Int /\ x.ibend \in Int /\ c \in Int
        BY <1>2, <1>5, <2>1, JobFacts, Bounds DEF DentType
      <4>. QED BY <4>1, <4>2
    <3>2. c <= SBend /\ x.hi[c] = tab[c + 1]
      BY <2>3, <3>1 DEF IPlacing, SBend
    <3>3. c + 1 \in 1 .. Len(tab)
      BY <1>2, <2>1, <3>2, TabFacts
    <3>4. Has(x, tab[c + 1].path) /\ (n = "f" => Has(dentry["d"], tab[c + 1].path))
      BY <1>5, <2>3, <3>2, <3>3 DEF HiRec, Under
    <3>. QED BY <2>1, <3>2, <3>3, <3>4
  <2>. QED BY <2>1, <2>2, <2>3
<1>12. \A c \in Hi(y), i \in 1 .. Len(tab) : tab[i].id = y.hi[c].id => i = c + 1
  BY <1>2, <1>11 DEF TabOk
<1>13. Under(y, y, tab) /\ (n = "f" => Under(y, dentry["d"], tab))
  BY <1>8, <1>11, <1>12 DEF Under
<1>14. HiRec(y, tab, lastid)
  <2>1. ASSUME NEW b \in Hi(y), NEW c \in Hi(y), y.hi[b].id = y.hi[c].id PROVE b = c
    <3>1. b + 1 = c + 1
      BY <2>1, <1>11, <1>12
    <3>2. b \in Slot /\ c \in Slot
      BY <1>11
    <3>3. b \in Int /\ c \in Int
      BY <3>2, Bounds
    <3>. QED BY <3>1, <3>3
  <2>2. \A c \in Hi(y) : /\ y.hi[c].id <= lastid
                         /\ \A i \in 1 .. Len(tab) : tab[i].id = y.hi[c].id => tab[i] = y.hi[c]
    BY <1>2, <1>11, <1>12 DEF TabOk
  <2>. QED BY <1>6, <1>13, <2>1, <2>2 DEF HiRec, Adopted
<1>15. INow(y, tab)
  BY <1>6, <1>8, <1>11 DEF INow, Adopted, SBend
<1>16. /\ job' \in JobType /\ failed' \in BOOLEAN /\ (failed => failed') /\ job'.opts = 0
       /\ \/ job'.pc \in {"idle", "null"}
          \/ job'.pc = "reval" /\ job'.ret = job.ret /\ job'.goal = job.goal /\ job.ret # "dirs"
  <2>1. CASE Hi(y) = {}
    BY <2>1, <1>2, <1>3, <1>5 DEF RefType, JobType, AllSteps
  <2>2. CASE Hi(y) # {}
    <3>1. Return(TRUE)
      BY <2>2, <1>3
    <3>. QED BY <3>1, <1>2, ReturnFacts
  <2>. QED BY <2>1, <2>2
<1>17. Kept'
  <2>1. /\ dentry' = [dentry EXCEPT ![n] = y] /\ (job.pc = "hd" => job.n = n)
        /\ ~(job'.pc = "hd" /\ job'.n = n) /\ Quietly
    BY <1>1, <1>2, <1>3, <1>4, <1>16 DEF Quietly, RefType
  <2>2. /\ y.cached = dentry[n].cached /\ y.type = dentry[n].type /\ y.use = dentry[n].use
        /\ y.gen = sigen
    BY <1>5, <1>6 DEF Adopted
  <2>3. sigen <= sigen
    BY <1>2, Bounds DEF RefType
  <2>4. n = "d" => \A i \in 1 .. Len(tab) : Has(dentry["d"], tab[i].path) => Has(y, tab[i].path)
    BY <1>5, <1>8
  <2>. QED BY <1>3, <1>5, <1>9, <1>13, <1>14, <1>15, <1>16, <2>1, <2>2, <2>3, <2>4, OneDent
<1>18. dentry'[n] = y /\ \A m \in Name : m # n => dentry'[m] = dentry[m]
  BY <1>2, <1>3, <1>4, <1>5 DEF RefType
<1>19. JobOk'
  <2>1. \A m \in Name : dentry'[m].cached = dentry[m].cached /\ dentry'[m].type = dentry[m].type
    BY <1>5, <1>6, <1>18 DEF Adopted
  <2>2. job.ret # "dirs" => Live(job.goal) /\ job.goal \in Name
    BY <1>2, JobFacts DEF JobOk
  <2>3. job'.pc = "reval" => Live(job.goal)'
    BY <1>16, <2>1, <2>2 DEF Live
  <2>. QED BY <1>1, <1>2, <1>16, <2>3 DEF JobOk, InRemount, Refreshing, HdSteps, HiSteps
<1>20. ParentOk'
  <2>1. /\ dentry'["f"].cached = dentry["f"].cached
        /\ dentry'["d"].gen = dentry["d"].gen \/ dentry'["d"].gen = sigen
        /\ n = "d" => dentry'["d"].gen = sigen
    BY <1>5, <1>6, <1>18 DEF Name, Adopted
  <2>2. job.ret = "dirs" => n = "d"
    BY <1>2, <1>4 DEF JobOk
  <2>3. job.ret # "dirs" => failed \/ (dentry["f"].cached => dentry["d"].gen = sigen)
    BY <1>2 DEF ParentOk, Settled
  <2>4. failed' \/ (dentry'["f"].cached => dentry'["d"].gen = sigen')
    BY <1>1, <1>16, <2>1, <2>2, <2>3
  <2>. QED BY <1>16, <2>4 DEF ParentOk, Refreshing, HdSteps, HiSteps
<1>21. LoopOk'
  BY <1>16 DEF LoopOk
<1>. QED BY <1>17, <1>19, <1>20, <1>21, Parts DEF Rest
-----------------------------------------------------------------------------
(* aufs_lookup. *)

(* The last slot of a new inode covers every hidden dentry that lkup_dentry *)
(* found: the loop ends at a whiteout and at an opaque directory.           *)
LEMMA TailCovers ==
    ASSUME NEW z \in DentType, NEW c \in Slot, c <= z.bend,
           z.bwh # -1 => c < z.bwh, z.bopq # -1 => c <= z.bopq
    PROVE  c <= DbTail(z) /\ c <= DbTailDir(z)
<1>1. /\ z.bend \in Int /\ z.bwh \in Int /\ z.bopq \in Int /\ c \in Int /\ 0 <= c
      /\ z.bwh >= -1 /\ z.bopq >= -1
  BY Bounds DEF DentType
<1>2. c <= DbTail(z) /\ DbTail(z) \in Int
  <2>1. CASE z.bend >= 0 /\ z.bwh = 0
    BY <2>1, <1>1
  <2>2. CASE ~(z.bend >= 0 /\ z.bwh = 0) /\ z.bend >= 0 /\ 0 < z.bwh /\ z.bwh < z.bend
    <3>1. DbTail(z) = z.bwh - 1
      BY <2>2 DEF DbTail
    <3>. QED BY <2>2, <3>1, <1>1
  <2>3. CASE ~(z.bend >= 0 /\ z.bwh = 0) /\ ~(z.bend >= 0 /\ 0 < z.bwh /\ z.bwh < z.bend)
    <3>1. DbTail(z) = z.bend
      BY <2>3 DEF DbTail
    <3>. QED BY <3>1, <1>1
  <2>. QED BY <2>1, <2>2, <2>3
<1>3. CASE 0 <= z.bopq /\ z.bopq < DbTail(z)
  <2>1. DbTailDir(z) = z.bopq
    BY <1>3 DEF DbTailDir
  <2>. QED BY <2>1, <1>1, <1>2, <1>3
<1>4. CASE ~(0 <= z.bopq /\ z.bopq < DbTail(z))
  <2>1. DbTailDir(z) = DbTail(z)
    BY <1>4 DEF DbTailDir
  <2>. QED BY <2>1, <1>2
<1>. QED BY <1>3, <1>4

(* A first lookup: a negative dentry, or the positive hidden dentries of   *)
(* the parent's slots up to the tail.                                      *)
LkupFound1(n, r) ==
    /\ r.d \in DentType /\ SameRest(NoDentry, r.d) /\ r.type \in {"neg", "file", "dir"}
    /\ r.type # "neg" =>
          /\ HdRec(r.d, Pos(n)) /\ Ranged(r.d) /\ Ends(r.d)
          /\ \A c \in Hd(r.d) : r.d.hd[c] = Par(n)[c] /\ c <= DbTail(r.d) /\ c <= DbTailDir(r.d)
          /\ LkupAdds(n, NoDentry, r.type, r.d)

LEMMA LkupFirst ==
    ASSUME RefType, TabOk, HdOk, NEW n \in Name, ParReady(n)
    PROVE  LkupFound1(n, LkupDentry(n, NoDentry, "any"))
<1>1. PICK x, a : x = NoDentry /\ a = "any"
  OBVIOUS
<1>2. /\ x \in DentType /\ x.bstart = -1 /\ x.bend = -1 /\ x.bwh = -1 /\ x.bopq = -1
      /\ \A b \in Slot : x.hd[b] = NoPath
  BY <1>1, NoDentryType DEF NoDentry, EmptyHd
<1>3. PICK L, P : L = Looked(n, x) /\ P = Positive(n, a, L)
  OBVIOUS
<1>4. PICK t, F : t = WantedType(n, a, P) /\ F = {b \in P : TypeAt(n, b) = t}
  OBVIOUS
<1>5. PICK V, Neg : /\ V = Visited(n, x, t, L, F)
                    /\ Neg = {b \in V \cap L : a = "any" /\ TypeAt(n, b) = "neg" /\ \A c \in L : b <= c}
  OBVIOUS
<1>6. PICK Wh, Opq, New : /\ Wh = {b \in L \cap V : HasWh(ParHd(n, b), n)}
                          /\ Opq = {b \in F \cap V : IsOpq(ParHd(n, b), n)}
                          /\ New = (F \cap V) \cup Neg
  OBVIOUS
<1>7. PICK y, pos : /\ y = Fill(n, x, New, Wh, Opq)
                    /\ pos = ((\E b \in V \ L : x.hd[b] # NoPath) \/ (x.bwh = -1 /\ F \cap V # {}))
  OBVIOUS
<1>8. LkupDentry(n, x, a) = IF pos THEN [d |-> UpdateDbstart(y, n), type |-> t]
                            ELSE [d |-> y, type |-> "neg"]
  <2>1. LkupDentry(n, x, a) = LkupVisit(n, x, a, t, L, F, V)
    BY <1>3, <1>4, <1>5 DEF LkupDentry, LkupAt, LkupIn, LkupFound, LkupTyped
  <2>2. LkupVisit(n, x, a, t, L, F, V) = IF pos THEN [d |-> UpdateDbstart(y, n), type |-> t]
                                         ELSE [d |-> y, type |-> "neg"]
    BY <1>5, <1>6, <1>7 DEF LkupVisit
  <2>. QED BY <2>1, <2>2
<1>9. /\ \A b \in ParStart(n) .. ParTail(n) : b \in Slot
      /\ L \subseteq Slot /\ L \subseteq ParStart(n) .. ParTail(n)
      /\ \A b \in L : /\ x.hd[b] = NoPath /\ Par(n)[b] # NoPath
                      /\ Par(n)[b] \in Path /\ ParHd(n, b) = Par(n)[b]
  BY <1>3, LookedFacts
<1>10. /\ F \subseteq L /\ \A b \in F : TypeAt(n, b) # "neg" /\ TypeAt(n, b) = t /\ ~HasWh(ParHd(n, b), n)
  BY <1>3, <1>4 DEF Positive
<1>11. V \subseteq Slot /\ V \subseteq ParStart(n) .. ParTail(n)
  BY <1>5, <1>9 DEF Visited
<1>12. pos <=> F \cap V # {}
  BY <1>2, <1>7, <1>11
<1>13. y \in DentType /\ SameRest(x, y) /\ FillSlots(x, y, New, Par(n)) /\ FillMarks(x, y, Wh, Opq)
  <2>1. New \in SUBSET Looked(n, x)
    BY <1>3, <1>5, <1>6, <1>10
  <2>2. Wh \in SUBSET Slot /\ Opq \in SUBSET Slot
    BY <1>6, <1>9, <1>10
  <2>. QED BY <1>2, <1>7, <2>1, <2>2, FillFacts
<1>14. CASE ~pos
  <2>1. LkupDentry(n, x, a).d = y /\ LkupDentry(n, x, a).type = "neg"
    BY <1>8, <1>14
  <2>. QED BY <1>1, <1>13, <2>1 DEF LkupFound1
<1>15. CASE pos
  <2>. PICK z : z = UpdateDbstart(y, n)
    OBVIOUS
  <2>1. LkupDentry(n, x, a).d = z /\ LkupDentry(n, x, a).type = t
    BY <1>8, <1>15
  <2>2. F \cap V # {} /\ New # {}
    BY <1>6, <1>12, <1>15
  <2>3. t \in {"file", "dir"}
    BY <1>10, <2>2, TypeOnFacts DEF TypeAt
  <2>4. New \subseteq L /\ New \subseteq V /\ New \subseteq Slot
    BY <1>5, <1>6, <1>9, <1>10
  <2>5. y.bstart \in New /\ y.bstart \in Slot /\ 0 <= y.bstart /\ y.bstart \in Int /\ y.bend \in Int
        /\ \A c \in New : y.bstart <= c /\ c <= y.bend /\ c \in Int
    <3>1. y.bstart \in New /\ \A c \in New : y.bstart <= c /\ c <= y.bend
      BY <1>2, <1>13, <2>2 DEF FillSlots
    <3>2. y.bend \in Int
      BY <1>13, Bounds DEF DentType
    <3>. QED BY <3>1, <3>2, <2>4, Bounds
  <2>6. \A c \in Slot : y.hd[c] = IF c \in New THEN Par(n)[c] ELSE NoPath
    BY <1>2, <1>13 DEF FillSlots
  <2>7. \A c \in F \cap V : c \in Good(y, n)
    <3>. SUFFICES ASSUME NEW c \in F \cap V PROVE c \in Good(y, n)
      OBVIOUS
    <3>1. c \in New /\ c \in L /\ c \in Slot
      BY <1>6, <2>4
    <3>2. y.hd[c] = ParHd(n, c) /\ y.hd[c] # NoPath /\ TypeOn(ParHd(n, c), n) # "neg"
      BY <1>9, <1>10, <2>6, <3>1 DEF TypeAt
    <3>3. c \in y.bstart .. y.bend
      BY <2>5, <3>1
    <3>. QED BY <3>2, <3>3 DEF Good
  <2>8. z \in DentType /\ SameRest(y, z) /\ Updated(y, z, n) /\ Good(y, n) \subseteq Slot
    BY <1>13, <2>2, <2>5, <2>7, UpdateFacts
  <2>9. z.bstart \in New /\ z.bstart \in Slot /\ z.bstart \in Int /\ TypeAt(n, z.bstart) # "neg"
    <3>1. z.bstart \in Good(y, n) /\ z.bstart \in Slot
      BY <2>8 DEF Updated
    <3>2. y.hd[z.bstart] # NoPath /\ TypeOn(y.hd[z.bstart], n) # "neg"
      BY <3>1 DEF Good
    <3>3. z.bstart \in New /\ y.hd[z.bstart] = Par(n)[z.bstart]
      BY <3>1, <3>2, <2>6
    <3>4. y.hd[z.bstart] = ParHd(n, z.bstart)
      BY <3>3, <2>4, <1>9
    <3>. QED BY <3>1, <3>2, <3>3, <3>4, Bounds DEF TypeAt
  <2>10. \A c \in Slot : z.hd[c] = IF c < z.bstart THEN NoPath ELSE y.hd[c]
    BY <2>8 DEF Updated
  <2>11. ASSUME NEW c \in Hd(z)
         PROVE  /\ c \in F \cap V /\ c \in Slot /\ z.bstart <= c /\ c <= z.bend
                /\ z.hd[c] = Par(n)[c] /\ z.hd[c] \in Pos(n)
    <3>1. c \in Slot /\ c \in Int /\ z.hd[c] # NoPath
      BY Bounds DEF Hd
    <3>2. ~(c < z.bstart) /\ z.bstart <= c /\ z.hd[c] = y.hd[c]
      BY <2>9, <2>10, <3>1
    <3>3. c \in New /\ z.hd[c] = Par(n)[c]
      BY <2>6, <3>1, <3>2
    <3>4. c \notin Neg
      <4>. SUFFICES ASSUME c \in Neg PROVE FALSE
        OBVIOUS
      <4>1. TypeAt(n, c) = "neg" /\ c <= z.bstart
        BY <1>5, <2>4, <2>9
      <4>2. c = z.bstart
        BY <4>1, <3>1, <3>2, <2>9
      <4>. QED BY <4>1, <4>2, <2>9
    <3>5. c \in F \cap V
      BY <1>6, <3>3, <3>4
    <3>6. z.bend = y.bend
      BY <2>8 DEF Updated
    <3>7. z.hd[c] \in Path /\ TypeOn(z.hd[c], n) # "neg"
      BY <1>9, <1>10, <2>4, <3>3, <3>5 DEF TypeAt
    <3>. QED BY <2>5, <3>1, <3>2, <3>3, <3>5, <3>6, <3>7 DEF Pos
  <2>12. \A w \in V, v \in V : Stop(n, x, t, L, F, w) => v <= w
    <3>. SUFFICES ASSUME NEW w \in V, NEW v \in V, Stop(n, x, t, L, F, w), ~(v <= w) PROVE FALSE
      OBVIOUS
    <3>1. \A c \in ParStart(n) .. v - 1 : ~Stop(n, x, t, L, F, c)
      BY <1>5 DEF Visited
    <3>2. w \in Int /\ v \in Int /\ ParStart(n) \in Int /\ ParTail(n) \in Int
      BY <1>11, ParFacts, Bounds
    <3>3. w >= ParStart(n)
      BY <1>11, <3>2
    <3>4. w \in ParStart(n) .. v - 1
      BY <3>2, <3>3
    <3>. QED BY <3>1, <3>4
  <2>13. ASSUME NEW c \in Hd(z)
         PROVE  c <= DbTail(z) /\ c <= DbTailDir(z)
    <3>1. c \in F /\ c \in V /\ c \in Slot /\ c <= z.bend /\ c \in Int
      BY <2>11, Bounds
    <3>2. ASSUME z.bwh # -1 PROVE c < z.bwh
      <4>1. z.bwh \in Wh
        <5>1. z.bwh = y.bwh
          BY <2>8 DEF Updated
        <5>. QED BY <5>1, <3>2, <1>2, <1>13 DEF FillMarks
      <4>2. z.bwh \in L /\ z.bwh \in V /\ HasWh(ParHd(n, z.bwh), n)
        BY <4>1, <1>6
      <4>3. c <= z.bwh
        BY <4>2, <3>1, <2>12 DEF Stop
      <4>4. c # z.bwh
        BY <4>2, <3>1, <1>10
      <4>5. z.bwh \in Int
        BY <4>2, <1>11, Bounds
      <4>. QED BY <4>3, <4>4, <4>5, <3>1
    <3>3. ASSUME z.bopq # -1 PROVE c <= z.bopq
      <4>1. z.bopq \in Opq
        <5>1. z.bopq = y.bopq
          BY <2>8 DEF Updated
        <5>. QED BY <5>1, <3>3, <1>2, <1>13 DEF FillMarks
      <4>2. z.bopq \in F /\ z.bopq \in L /\ z.bopq \in V /\ IsOpq(ParHd(n, z.bopq), n)
        BY <4>1, <1>6, <1>10
      <4>. QED BY <4>2, <3>1, <2>12 DEF Stop
    <3>. QED BY <2>8, <3>1, <3>2, <3>3, TailCovers
  <2>14. z.bstart \in Hd(z)
    <3>1. z.hd[z.bstart] = Par(n)[z.bstart]
      BY <2>6, <2>9, <2>10
    <3>. QED BY <3>1, <1>9, <2>4, <2>9 DEF Hd
  <2>14a. Ends(z)
    <3>1. z.bend = y.bend /\ y.bend \in New \cup {-1}
      BY <1>2, <1>13, <2>2, <2>8 DEF FillSlots, Updated
    <3>2. z.bstart <= y.bend /\ 0 <= z.bstart
      BY <2>5, <2>9, Bounds
    <3>3. z.bend \in New /\ z.bend \in Slot /\ ~(z.bend < z.bstart)
      BY <3>1, <3>2, <2>4, <2>5, <2>9
    <3>4. z.hd[z.bend] = Par(n)[z.bend] /\ Par(n)[z.bend] # NoPath
      BY <3>3, <1>9, <2>4, <2>6, <2>10
    <3>. QED BY <2>14, <3>3, <3>4 DEF Ends, Hd
  <2>15. Ranged(z) /\ 0 <= z.bstart /\ 0 <= z.bend
    <3>1. 0 <= z.bstart /\ z.bstart <= z.bend /\ z.bend \in Int
      BY <2>8, <2>9, <2>11, <2>14, Bounds DEF DentType
    <3>. QED BY <3>1, <2>9, <2>11 DEF Ranged
  <2>16. HdRec(z, Pos(n))
    <3>1. ASSUME NEW b \in Hd(z), NEW c \in Hd(z), z.hd[b] = z.hd[c] PROVE b = c
      <4>1. b \in Slot /\ c \in Slot /\ Par(n)[b] # NoPath /\ Par(n)[b] = Par(n)[c]
        BY <3>1, <2>11 DEF Hd
      <4>. QED BY <4>1, ParFacts
    <3>. QED BY <3>1, <2>11, <2>15 DEF HdRec
  <2>17. SameRest(NoDentry, z)
    BY <1>1, <1>13, <2>8 DEF SameRest
  <2>18. LkupAdds(n, x, t, z)
    <3>1. F = LkupOf(n, x, t)
      BY <1>1, <1>3, <1>4, <2>3 DEF LkupOf, Positive
    <3>2. F \cap V = LkupNew(n, x, t)
      BY <1>3, <1>5, <3>1 DEF LkupNew
    <3>3. \A c \in F \cap V : c \in Slot /\ z.hd[c] = Par(n)[c]
      <4>. SUFFICES ASSUME NEW c \in F \cap V PROVE c \in Slot /\ z.hd[c] = Par(n)[c]
        OBVIOUS
      <4>1. c \in New /\ c \in Slot /\ c \in Int /\ z.bstart <= c
        BY <1>6, <2>4, <2>7, <2>8, Bounds DEF Updated
      <4>. QED BY <4>1, <2>6, <2>9, <2>10
    <3>4. \A c \in Slot : z.hd[c] = IF c \in F \cap V THEN Par(n)[c] ELSE x.hd[c]
      BY <1>2, <2>11, <3>3 DEF Hd
    <3>5. ASSUME \A b \in L : ~HasWh(ParHd(n, b), n) /\ ~IsOpq(ParHd(n, b), n)
          PROVE  z.bwh = x.bwh /\ z.bopq = x.bopq
      <4>1. Wh = {} /\ Opq = {}
        BY <1>6, <1>10, <3>5
      <4>. QED BY <4>1, <1>13, <2>8 DEF FillMarks, Updated
    <3>. QED BY <1>3, <3>2, <3>4, <3>5 DEF LkupAdds
  <2>. QED BY <1>1, <2>1, <2>3, <2>8, <2>11, <2>13, <2>14a, <2>15, <2>16, <2>17, <2>18 DEF LkupFound1
<1>. QED BY <1>14, <1>15

(* The new dentry and its inode. *)
NewRight(n, y) ==
    /\ HdRec(y, Pos(n)) /\ Ranged(y) /\ HiRec(y, tab, lastid)
    /\ Now(y, tab) /\ INow(y, tab)
    /\ n = "f" => Under(y, dentry["d"], tab) /\ Nested(y, dentry["d"])

LEMMA NewFacts ==
    ASSUME RefInv, job.opts = 0, NEW n \in Name, ParReady(n), n = "f" => dentry["d"].gen = sigen,
           NEW y \in DentType, HdRec(y, Pos(n)), Ranged(y), y.alloc = Len(tab),
           \A c \in Hd(y) : y.hd[c] = Par(n)[c],
           0 <= y.ibstart, 0 <= y.ibend, \A c \in Hd(y) : y.ibstart <= c /\ c <= y.ibend,
           \A c \in Slot : y.hi[c] = IF c \in Hd(y) THEN tab[c + 1] ELSE NoInode
    PROVE  NewRight(n, y)
<1>1. RefType /\ TabOk /\ HdOk /\ HdNow
  BY DEF RefInv
<1>2. ASSUME NEW c \in Hd(y)
      PROVE  /\ c \in Slot /\ c <= SBend /\ y.hd[c] = tab[c + 1].path /\ c + 1 \in 1 .. Len(tab)
             /\ c <= Len(tab) - 1 /\ (n = "f" => Has(dentry["d"], y.hd[c]))
  <2>1. c \in Slot /\ Par(n)[c] # NoPath
    BY DEF Hd
  <2>2. c <= SBend /\ Par(n)[c] = tab[c + 1].path
    <3>1. CASE n = "d"
      BY <3>1, <1>1, <2>1, ParFacts
    <3>2. CASE n = "f"
      <4>1. Par(n)[c] = dentry["d"].hd[c] /\ Now(dentry["d"], tab)
        BY <3>2, <1>1, <2>1, ParFacts DEF HdNow, ParReady, Name
      <4>. QED BY <4>1, <2>1 DEF Now, Hd, SBend
    <3>. QED BY <3>1, <3>2 DEF Name
  <2>3. n = "f" => Has(dentry["d"], y.hd[c])
    BY <1>1, <2>1, ParFacts DEF Has
  <2>. QED BY <1>1, <2>1, <2>2, <2>3, TabFacts
<1>3. Now(y, tab)
  <2>1. Len(tab) >= Len(tab)
    BY <1>1, TabFacts
  <2>. QED BY <1>2, <2>1 DEF Now
<1>4. Hi(y) = Hd(y) /\ \A c \in Hi(y) : y.hi[c] = tab[c + 1]
  <2>1. \A c \in Hd(y) : tab[c + 1] # NoInode
    <3>. SUFFICES ASSUME NEW c \in Hd(y) PROVE tab[c + 1] # NoInode
      OBVIOUS
    <3>1. tab[c + 1].id # 0
      BY <1>1, <1>2, TabFacts
    <3>2. NoInode.id = 0
      BY DEF NoInode
    <3>. QED BY <3>1, <3>2
  <2>2. \A c \in Hd(y) : c \in Slot
    BY DEF Hd
  <2>. QED BY <2>1, <2>2 DEF Hi
<1>5. INow(y, tab)
  BY <1>2, <1>4 DEF INow
<1>6. \A c \in Hi(y), i \in 1 .. Len(tab) : tab[i].id = y.hi[c].id => i = c + 1
  BY <1>1, <1>2, <1>4 DEF TabOk
<1>7. \A c \in Hi(y) : Has(y, tab[c + 1].path) /\ (n = "f" => Has(dentry["d"], tab[c + 1].path))
  BY <1>2, <1>4 DEF Has
<1>8. Under(y, y, tab) /\ (n = "f" => Under(y, dentry["d"], tab))
  BY <1>6, <1>7 DEF Under
<1>9. HiRec(y, tab, lastid)
  <2>1. ASSUME NEW b \in Hi(y), NEW c \in Hi(y), y.hi[b].id = y.hi[c].id PROVE b = c
    <3>1. b + 1 = c + 1 /\ b \in Slot /\ c \in Slot
      BY <2>1, <1>2, <1>4, <1>6
    <3>2. b \in Int /\ c \in Int
      BY <3>1, Bounds
    <3>. QED BY <3>1, <3>2
  <2>2. \A c \in Hi(y) : /\ y.hi[c].id <= lastid
                         /\ \A i \in 1 .. Len(tab) : tab[i].id = y.hi[c].id => tab[i] = y.hi[c]
    BY <1>1, <1>2, <1>4, <1>6 DEF TabOk
  <2>3. \A c \in Hi(y) : y.ibstart <= c /\ c <= y.ibend
    BY <1>4
  <2>. QED BY <1>8, <2>1, <2>2, <2>3 DEF HiRec
<1>10. n = "f" => Nested(y, dentry["d"])
  BY <1>2 DEF Nested
<1>. QED BY <1>3, <1>5, <1>8, <1>9, <1>10 DEF NewRight

LEMMA FreshFacts ==
    ASSUME RefInv, job.opts = 0, NEW n \in Name, ParReady(n), n = "f" => dentry["d"].gen = sigen
    PROVE  /\ Fresh(n) \in DentType /\ Fresh(n).cached /\ Fresh(n).gen = sigen
           /\ Fresh(n).igen \in {0, sigen}
           /\ Fresh(n).type # "neg" => NewRight(n, Fresh(n)) /\ Ends(Fresh(n))
<1>1. RefType /\ TabOk /\ HdOk
  BY DEF RefInv
<1>2. PICK r, x, tail, On, l, g :
        /\ r = LkupDentry(n, NoDentry, "any") /\ x = r.d /\ l = Len(tab) /\ g = sigen
        /\ tail = IF r.type = "dir" THEN DbTailDir(x) ELSE DbTail(x)
        /\ On = {b \in x.bstart .. tail : x.hd[b] # NoPath}
  OBVIOUS
<1>3. LkupFound1(n, r)
  BY <1>1, <1>2, LkupFirst
<1>4. x \in DentType /\ SameRest(NoDentry, x) /\ r.type \in {"neg", "file", "dir"}
  BY <1>2, <1>3 DEF LkupFound1
<1>5. l \in Nat /\ g \in Nat /\ 0 <= l
  BY <1>1, <1>2, TabFacts, Bounds DEF RefType
<1>6. x.igen = 0 /\ x.type = "neg"
  BY <1>4 DEF SameRest, NoDentry
<1>7. CASE r.type = "neg"
  <2>1. Fresh(n) = [x EXCEPT !.cached = TRUE, !.gen = g, !.alloc = l]
    BY <1>2, <1>7 DEF Fresh, NewDentry
  <2>. QED BY <2>1, <1>2, <1>4, <1>5, <1>6 DEF DentType
<1>8. CASE r.type # "neg"
  <2>. PICK h : h = [b \in Slot |-> IF b \in On THEN tab[b + 1] ELSE NoInode]
    OBVIOUS
  <2>1. Fresh(n) = [x EXCEPT !.cached = TRUE, !.type = r.type, !.gen = g, !.igen = g,
                             !.alloc = l, !.ibstart = x.bstart, !.ibend = tail, !.hi = h]
    BY <1>2, <1>8 DEF Fresh, NewDentry
  <2>2. /\ HdRec(x, Pos(n)) /\ Ranged(x) /\ x.bstart \in Hd(x) /\ Ends(x)
        /\ \A c \in Hd(x) : x.hd[c] = Par(n)[c] /\ c <= tail
    BY <1>2, <1>3, <1>8 DEF LkupFound1, Ends
  <2>3. tail \in Index /\ tail \in Int /\ tail <= MaxBr - 1 /\ MaxBr \in Nat
    <3>1. tail \in Index
      BY <1>2, <1>4, TailFacts
    <3>. QED BY <3>1, Bounds
  <2>4. x.bstart \in Slot /\ x.bstart \in Int /\ x.bstart \in Index /\ 0 <= x.bstart /\ 0 <= tail
    <3>1. x.bstart \in Slot /\ x.bstart <= tail
      BY <2>2 DEF Hd
    <3>2. x.bstart \in Int /\ x.bstart \in Index /\ 0 <= x.bstart
      BY <3>1, Bounds
    <3>. QED BY <3>1, <3>2, <2>3
  <2>5. On = Hd(x)
    <3>1. \A c \in x.bstart .. tail : c \in Slot
      BY <2>3, <2>4 DEF Slot
    <3>2. \A c \in Hd(x) : c \in x.bstart .. tail
      <4>. SUFFICES ASSUME NEW c \in Hd(x) PROVE c \in x.bstart .. tail
        OBVIOUS
      <4>1. c \in Int /\ x.bstart <= c /\ c <= tail
        BY <2>2, Bounds DEF Ranged, Hd
      <4>. QED BY <4>1, <2>3, <2>4
    <3>. QED BY <1>2, <3>1, <3>2 DEF Hd
  <2>6. \A c \in Hd(x) : c \in Slot /\ tab[c + 1] \in [path : Path \cup {NoPath}, id : Nat]
    <3>. SUFFICES ASSUME NEW c \in Hd(x)
                  PROVE  c \in Slot /\ tab[c + 1] \in [path : Path \cup {NoPath}, id : Nat]
      OBVIOUS
    <3>1. c \in Slot /\ Par(n)[c] # NoPath
      BY <2>2 DEF Hd
    <3>2. c <= SBend
      <4>1. CASE n = "d"
        BY <4>1, <1>1, <3>1, ParFacts
      <4>2. CASE n = "f"
        <5>1. Par(n)[c] = dentry["d"].hd[c] /\ Now(dentry["d"], tab)
          BY <4>2, <1>1, <3>1, ParFacts DEF RefInv, HdNow, ParReady, Name
        <5>. QED BY <5>1, <3>1 DEF Now, Hd, SBend
      <4>. QED BY <4>1, <4>2 DEF Name
    <3>3. PICK e : e = tab[c + 1]
      OBVIOUS
    <3>4. e \in [path : Path, id : Nat \ {0}]
      BY <1>1, <3>1, <3>2, <3>3, TabFacts
    <3>5. e \in [path : Path \cup {NoPath}, id : Nat]
      BY <3>4
    <3>. QED BY <3>1, <3>3, <3>5
  <2>7. h \in HiType /\ \A c \in Slot : h[c] = IF c \in Hd(x) THEN tab[c + 1] ELSE NoInode
    <3>1. NoInode \in [path : Path \cup {NoPath}, id : Nat]
      BY DEF NoInode
    <3>. QED BY <3>1, <2>5, <2>6 DEF HiType
  <2>8. PICK y, ty, s : y = Fresh(n) /\ ty = r.type /\ s = x.bstart
    OBVIOUS
  <2>9. /\ y \in DentType /\ y.cached /\ y.gen = g /\ y.igen = g /\ y.alloc = l /\ y.hd = x.hd
        /\ y.bstart = x.bstart /\ y.bend = x.bend /\ y.ibstart = x.bstart /\ y.ibend = tail /\ y.hi = h
    <3>1. y = [x EXCEPT !.cached = TRUE, !.type = ty, !.gen = g, !.igen = g,
                        !.alloc = l, !.ibstart = s, !.ibend = tail, !.hi = h]
      BY <2>1, <2>8
    <3>2. ty \in {"neg", "file", "dir"} /\ s \in Index /\ h \in HiType /\ tail \in Index
      BY <1>4, <2>3, <2>4, <2>7, <2>8
    <3>3. PICK w : w = [x EXCEPT !.cached = TRUE, !.type = ty, !.gen = g, !.igen = g]
      OBVIOUS
    <3>4. /\ w \in DentType /\ w.cached /\ w.gen = g /\ w.igen = g /\ w.hd = x.hd
          /\ w.bstart = x.bstart /\ w.bend = x.bend
      BY <1>4, <1>5, <3>2, <3>3 DEF DentType
    <3>5. y = [w EXCEPT !.alloc = l, !.ibstart = s, !.ibend = tail, !.hi = h]
      BY <3>1, <3>3
    <3>6. /\ y \in DentType /\ y.cached = w.cached /\ y.gen = w.gen /\ y.igen = w.igen /\ y.hd = w.hd
          /\ y.bstart = w.bstart /\ y.bend = w.bend /\ y.alloc = l /\ y.ibstart = s /\ y.ibend = tail
          /\ y.hi = h
      BY <1>5, <3>2, <3>4, <3>5 DEF DentType
    <3>. QED BY <2>8, <3>4, <3>6
  <2>10. Hd(y) = Hd(x)
    BY <2>9 DEF Hd
  <2>11. HdRec(y, Pos(n)) /\ Ranged(y)
    BY <2>2, <2>9, <2>10 DEF HdRec, Ranged
  <2>12. \A c \in Hd(y) : y.hd[c] = Par(n)[c] /\ y.ibstart <= c /\ c <= y.ibend
    BY <2>2, <2>9, <2>10 DEF Ranged
  <2>13. \A c \in Slot : y.hi[c] = IF c \in Hd(y) THEN tab[c + 1] ELSE NoInode
    BY <2>7, <2>9, <2>10
  <2>14. 0 <= y.ibstart /\ 0 <= y.ibend /\ y.alloc = Len(tab)
    BY <1>2, <2>4, <2>9
  <2>15. NewRight(n, y)
    BY <2>9, <2>11, <2>12, <2>13, <2>14, NewFacts
  <2>16. Ends(y)
    BY <2>2, <2>9, <2>10 DEF Ends
  <2>. QED BY <1>2, <2>8, <2>9, <2>15, <2>16
<1>. QED BY <1>7, <1>8
LEMMA LookupStep ==
    ASSUME RefInv, NEW n \in Name, Lookup(n)
    PROVE  RefInv'
<1>1. /\ job.pc \in {"idle", "shrunk"} /\ ~dentry[n].cached /\ job' = job
      /\ n = "f" => dentry["d"].cached /\ dentry["d"].type = "dir" /\ dentry["d"].gen = sigen
      /\ dentry' = [dentry EXCEPT ![n] = [Fresh(n) EXCEPT !.use = TRUE]]
      /\ UNCHANGED <<disk, tab, lastid, sigen, failed, fails>>
  BY DEF Lookup, Inside, branches
<1>2. /\ RefType /\ TabOk /\ JobOk /\ CacheOk /\ ParentOk /\ HdOk /\ HiOk /\ HdNow /\ HiNow
      /\ job.opts = 0
  BY <1>1 DEF RefInv, JobOk
<1>3. ParReady(n)
  BY <1>1 DEF ParReady, Live, Looping
<1>4. PICK x, y : x = Fresh(n) /\ y = [x EXCEPT !.use = TRUE]
  OBVIOUS
<1>5. /\ x \in DentType /\ x.cached /\ x.gen = sigen /\ x.igen \in {0, sigen}
      /\ x.type # "neg" => NewRight(n, x)
  BY <1>1, <1>2, <1>3, <1>4, FreshFacts
<1>6. /\ y \in DentType /\ y.cached /\ y.gen = sigen /\ y.igen = x.igen /\ y.type = x.type
      /\ y.hd = x.hd /\ y.bstart = x.bstart /\ y.bend = x.bend /\ y.hi = x.hi
      /\ y.ibstart = x.ibstart /\ y.ibend = x.ibend /\ y.alloc = x.alloc
  BY <1>4, <1>5 DEF DentType
<1>7. y.type # "neg" => NewRight(n, y)
  BY <1>5, <1>6, Agree DEF NewRight
<1>8. dentry'[n] = y /\ (\A m \in Name : m # n => dentry'[m] = dentry[m]) /\ dentry' \in [Name -> DentType]
  BY <1>1, <1>2, <1>4, <1>6 DEF RefType
<1>9. n = "d" => ~dentry["f"].cached
  BY <1>1, <1>2 DEF CacheOk, Live
<1>10. /\ n = "d" => ~dentry'["f"].cached /\ ~Live("f")'
       /\ n = "f" => dentry'["d"] = dentry["d"] /\ Live("d") /\ Live("d")'
  BY <1>1, <1>8, <1>9 DEF Live, Name
<1>11. \A m \in Name : Pos(m)' = Pos(m) /\ (m # n => Live(m)' = Live(m)) /\ ~Looping(m)
  BY <1>1, <1>8, PosSame DEF Live, Looping
<1>12. RefType'
  BY <1>1, <1>2, <1>8 DEF RefType
<1>13. TabOk'
  BY <1>1, <1>2 DEF TabOk
<1>14. CacheOk'
  <2>1. dentry'["f"].cached => Live("d")' /\ dentry'["d"].type = "dir"
    BY <1>1, <1>8, <1>10 DEF Name
  <2>2. ASSUME NEW m \in Name
        PROVE  /\ dentry'[m].use => dentry'[m].cached
               /\ dentry'[m].gen <= sigen' /\ dentry'[m].igen <= sigen'
               /\ Live(m)' /\ dentry'[m].igen = sigen' => dentry'[m].gen = sigen'
    <3>1. CASE m = n
      <4>1. sigen \in Nat /\ sigen <= sigen /\ 0 <= sigen
        BY <1>2, Bounds DEF RefType
      <4>. QED BY <3>1, <4>1, <1>1, <1>5, <1>6, <1>8, ZenonT(60)
    <3>2. CASE m # n
      BY <3>2, <1>1, <1>2, <1>8, <1>11 DEF CacheOk
    <3>. QED BY <3>1, <3>2
  <2>. QED BY <2>1, <2>2 DEF CacheOk
<1>15. ASSUME Live(n)' PROVE NewRight(n, y)
  BY <1>7, <1>8, <1>15 DEF Live
<1>16. HdOk'
  <2>. SUFFICES ASSUME NEW m \in Name, Live(m)'
                PROVE  HdRec(dentry'[m], Pos(m)') /\ (~Looping(m)' => Ranged(dentry'[m]))
    BY DEF HdOk
  <2>1. CASE m = n
    BY <2>1, <1>8, <1>11, <1>15 DEF NewRight
  <2>2. CASE m # n
    BY <2>2, <1>2, <1>8, <1>11 DEF HdOk
  <2>. QED BY <2>1, <2>2
<1>17. HiOk'
  <2>. SUFFICES ASSUME NEW m \in Name, Live(m)'
                PROVE  /\ HiRec(dentry'[m], tab, lastid)
                       /\ m = "f" => Under(dentry'["f"], dentry'["d"], tab)
    BY <1>1 DEF HiOk
  <2>1. CASE m = n
    BY <2>1, <1>8, <1>10, <1>15 DEF NewRight
  <2>2. CASE m # n
    <3>1. m = "d"
      BY <2>2, <1>10 DEF Name
    <3>. QED BY <2>2, <3>1, <1>2, <1>8, <1>11 DEF HiOk
  <2>. QED BY <2>1, <2>2
<1>18. HdNow'
  <2>. SUFFICES ASSUME NEW m \in Name, Live(m)', dentry'[m].gen = sigen
                PROVE  Now(dentry'[m], tab) /\ (m = "f" => Nested(dentry'["f"], dentry'["d"]))
    BY <1>1 DEF HdNow
  <2>1. CASE m = n
    BY <2>1, <1>8, <1>10, <1>15 DEF NewRight
  <2>2. CASE m # n
    <3>1. m = "d"
      BY <2>2, <1>10 DEF Name
    <3>. QED BY <2>2, <3>1, <1>2, <1>8, <1>11 DEF HdNow
  <2>. QED BY <2>1, <2>2
<1>19. HiNow'
  <2>. SUFFICES ASSUME NEW m \in Name, Live(m)', dentry'[m].igen = sigen PROVE INow(dentry'[m], tab)
    BY <1>1 DEF HiNow
  <2>1. CASE m = n
    BY <2>1, <1>8, <1>15 DEF NewRight
  <2>2. CASE m # n
    BY <2>2, <1>2, <1>8, <1>11 DEF HiNow
  <2>. QED BY <2>1, <2>2
<1>20. JobOk' /\ LoopOk'
  BY <1>1, <1>2 DEF JobOk, LoopOk, InRemount, Refreshing, HdSteps, HiSteps
<1>21. ParentOk'
  <2>1. dentry'["f"].cached => dentry'["d"].gen = sigen
    BY <1>1, <1>10 DEF Name
  <2>. QED BY <1>1, <2>1 DEF ParentOk, Refreshing, HdSteps, HiSteps
<1>. QED BY <1>12, <1>13, <1>14, <1>16, <1>17, <1>18, <1>19, <1>20, <1>21 DEF RefInv

-----------------------------------------------------------------------------
(* The invariant. *)

LEMMA RefInit == Init => RefInv
<1>. SUFFICES ASSUME Init PROVE RefInv
  OBVIOUS
<1>1. /\ disk \in [Path -> Kinds] /\ tab = [i \in DOMAIN FirstTab |-> [path |-> FirstTab[i], id |-> i]]
      /\ lastid = Len(FirstTab) /\ sigen = 0 /\ failed = FALSE /\ fails = 0
      /\ dentry = [n \in Name |-> NoDentry] /\ job = Idle
  BY DEF Init
<1>2. FirstTab \in Seq(Path) /\ Len(FirstTab) \in Nat /\ Len(FirstTab) \in 1 .. MaxBr
      /\ DOMAIN FirstTab = 1 .. Len(FirstTab)
  BY TabAssumption, Bounds
<1>3. \A i \in 1 .. Len(FirstTab) : FirstTab[i] \in Path /\ i \in Nat \ {0} /\ i <= Len(FirstTab)
  <2>1. \A i \in 1 .. Len(FirstTab) : FirstTab[i] \in Path
    BY <1>2, ElementOfSeq
  <2>. QED BY <1>2, <2>1
<1>4. tab \in TabType /\ Len(tab) = Len(FirstTab)
      /\ \A i \in 1 .. Len(tab) : tab[i].path = FirstTab[i] /\ tab[i].id = i
  <2>1. tab = [i \in 1 .. Len(FirstTab) |-> [path |-> FirstTab[i], id |-> i]]
    BY <1>1, <1>2
  <2>2. \A i \in 1 .. Len(FirstTab) : [path |-> FirstTab[i], id |-> i] \in [path : Path, id : Nat \ {0}]
    BY <1>3
  <2>3. tab \in Seq([path : Path, id : Nat \ {0}]) /\ Len(tab) = Len(FirstTab)
    BY <1>2, <2>1, <2>2, IsASeq, LenProperties
  <2>. QED BY <2>1, <2>3 DEF TabType
<1>5. \A i, j \in 1 .. Len(FirstTab) : FirstTab[i] = FirstTab[j] => i = j
  BY <1>2, TabAssumption DEF IsInjective
<1>6. TabOk
  BY <1>1, <1>3, <1>4, <1>5 DEF TabOk
<1>7. \A n \in Name : dentry[n] = NoDentry /\ ~dentry[n].cached /\ ~dentry[n].use
                      /\ dentry[n].gen = 0 /\ dentry[n].igen = 0
  BY <1>1, NoDentryType DEF NoDentry
<1>8. RefType
  <2>1. dentry \in [Name -> DentType]
    BY <1>1, NoDentryType
  <2>3. sigen \in 0 .. MaxRemount /\ fails \in 0 .. MaxFail
    BY <1>1, Bounds
  <2>2. sigen \in 0 .. MaxRemount /\ fails \in 0 .. MaxFail /\ failed \in BOOLEAN
    BY <1>1, <2>3
  <2>. QED BY <1>1, <1>2, <1>4, <2>1, <2>2, IdleType DEF RefType
<1>9. \A n \in Name : ~Live(n)
  BY <1>7 DEF Live
<1>10. HdOk /\ HiOk /\ HdNow /\ HiNow
  BY <1>9 DEF HdOk, HiOk, HdNow, HiNow
<1>11. CacheOk
  BY <1>1, <1>7 DEF CacheOk, Name
<1>12. JobOk /\ LoopOk /\ ParentOk
  BY <1>1, <1>7, IdleType DEF JobOk, LoopOk, ParentOk, InRemount, Refreshing, HdSteps, HiSteps, Name
<1>. QED BY <1>6, <1>8, <1>10, <1>11, <1>12 DEF RefInv

LEMMA RefStutter ==
    ASSUME RefInv, UNCHANGED vars
    PROVE  RefInv'
<1>1. /\ disk' = disk /\ tab' = tab /\ lastid' = lastid /\ sigen' = sigen /\ failed' = failed
      /\ fails' = fails /\ dentry' = dentry /\ job' = job
  BY DEF vars
<1>2. Quietly /\ job' \in JobType
  BY <1>1 DEF Quietly, RefInv, RefType
<1>3. Kept'
  BY <1>1, <1>2, JobOnly
<1>4. JobOk' /\ ParentOk'
  BY <1>1 DEF RefInv, JobOk, ParentOk, InRemount, Settled, Live
<1>5. LoopOk'
  <2>1. job.pc \in {"hd", "look"} => job.n \in Name
    BY JobFacts DEF RefInv
  <2>2. Par(job.n)' = Par(job.n)
    BY <1>1 DEF Par, ParHd, SBend
  <2>3. d_' = d_
    BY <1>1 DEF d_
  <2>. QED BY <1>1, <2>2, <2>3 DEF RefInv, LoopOk
<1>. QED BY <1>3, <1>4, <1>5, Parts DEF Rest
LEMMA RefNext ==
    ASSUME MaxOpt <= 1, RefInv, [Next]_vars
    PROVE  RefInv'
<1>1. CASE UNCHANGED vars
  BY <1>1, RefStutter
<1>2. CASE \E n \in Name : Lookup(n) \/ Release(n) \/ Walk(n) \/ Invalidate(n)
  BY <1>2, LookupStep, VfsStep
<1>3. CASE BeginRemount \/ LockRemount
  BY <1>3, BeginRemountStep, LockStep
<1>4. CASE \E b \in Slot : \/ b <= Len(tab) /\ \E p \in Path : BrAdd(p, b)
                           \/ b < Len(tab) /\ (BrDel(b) \/ BrDelBusy(b))
  BY <1>4, BrAddStep, BrDelStep, BusyStep
<1>5. CASE \E n \in Name : RevalForDel(n) \/ BeginReval(n)
  BY <1>5, RevalForDelStep, BeginRevalStep
<1>6. CASE EndOpts \/ DirsRefresh \/ DirsFail \/ RevalStep
  BY <1>6, EndOptsStep, DirsStep, RevalStepStep
<1>7. CASE Realloc \/ HdKeep \/ HdMove \/ HdRange \/ HdLkup
  BY <1>7, ReallocStep, HdKeepStep, HdMoveStep, HdRangeStep, HdLkupStep
<1>8. CASE HiStart \/ HiKeep \/ HiMove \/ HiAdopt \/ Fail \/ Oops
  <2>1. CASE Oops
    BY <2>1, RefStutter DEF Oops
  <2>. QED BY <1>8, <2>1, HiStartStep, HiKeepStep, HiMoveStep, HiAdoptStep, FailStep
<1>. QED BY <1>1, <1>2, <1>3, <1>4, <1>5, <1>6, <1>7, <1>8 DEF Next

(* Every reachable state satisfies the invariant when a remount has one    *)
(* branch option.                                                          *)
THEOREM RefInvariant ==
    ASSUME MaxOpt <= 1
    PROVE  Spec => []RefInv
<1>1. RefInv /\ [Next]_vars => RefInv'
  BY RefNext
<1>. QED BY <1>1, RefInit, PTL DEF Spec

-----------------------------------------------------------------------------
(* What follows from it. *)

LEMMA TypeLemma == RefInv => TypeOK
<1>. SUFFICES ASSUME RefInv PROVE TypeOK
  OBVIOUS
<1>1. RefType /\ TabOk /\ CacheOk
  BY DEF RefInv
<1>2. \A i \in 1 .. Len(tab) : tab[i] \in [path : Path, id : 1 .. lastid]
  <2>. SUFFICES ASSUME NEW i \in 1 .. Len(tab) PROVE tab[i] \in [path : Path, id : 1 .. lastid]
    OBVIOUS
  <2>1. PICK e : e = tab[i]
    OBVIOUS
  <2>2. e \in [path : Path, id : Nat \ {0}] /\ e.id <= lastid /\ lastid \in Nat
    BY <1>1, <2>1, TabFacts DEF TabOk, RefType
  <2>3. e \in [path : Path, id : 1 .. lastid]
    BY <2>2
  <2>. QED BY <2>1, <2>3
<1>3. tab \in Seq([path : Path, id : 1 .. lastid])
  <2>1. PICK E : E = [path : Path, id : 1 .. lastid]
    OBVIOUS
  <2>2. \A i \in 1 .. Len(tab) : tab[i] \in E
    BY <1>2, <2>1
  <2>3. tab \in Seq([path : Path, id : Nat \ {0}])
    BY <1>1 DEF RefType, TabType
  <2>4. tab \in Seq(E)
    BY <2>2, <2>3
  <2>. QED BY <2>1, <2>4
<1>4. IsInjective([i \in DOMAIN tab |-> tab[i].path])
  <2>1. DOMAIN tab = 1 .. Len(tab)
    BY <1>1 DEF RefType, TabType
  <2>. QED BY <1>1, <2>1 DEF TabOk, IsInjective
<1>5. ASSUME NEW n \in Name
      PROVE  /\ dentry[n].hd \in [Slot -> Path \cup {NoPath}]
             /\ dentry[n].gen <= sigen /\ dentry[n].igen <= sigen
             /\ {dentry[n].bstart, dentry[n].bend, dentry[n].bwh, dentry[n].bopq,
                 dentry[n].ibstart, dentry[n].ibend} \subseteq -1 .. MaxBr - 1
  BY <1>1, DentFacts DEF CacheOk, HdType, Index
<1>. QED BY <1>1, <1>3, <1>4, <1>5 DEF TypeOK, RefType

(* A refreshed dentry outside of a refresh. *)
LEMMA CurrentFacts ==
    ASSUME RefInv, NEW n \in Name, Current(n)
    PROVE  /\ dentry[n] \in DentType
           /\ HdRec(dentry[n], Pos(n)) /\ Ranged(dentry[n]) /\ HiRec(dentry[n], tab, lastid)
           /\ Now(dentry[n], tab) /\ INow(dentry[n], tab)
<1>1. job.pc \in {"idle", "shrunk"} /\ Live(n) /\ dentry[n].gen = sigen /\ dentry[n].igen = sigen
  BY DEF Current, Inside, Live
<1>2. job.opts = 0 /\ ~Looping(n)
  BY <1>1 DEF RefInv, JobOk, Looping
<1>. QED BY <1>1, <1>2, DentFacts DEF RefInv, HdOk, HiOk, HdNow, HiNow

LEMMA SlotsLemma == RefInv => SlotsRight
<1>. SUFFICES ASSUME RefInv, NEW n \in Name, Current(n)
              PROVE  /\ \A b \in Filled(dentry[n].hd, NoPath) :
                           /\ b <= SBend /\ dentry[n].hd[b] = tab[b + 1].path
                           /\ dentry[n].bstart <= b /\ b <= dentry[n].bend
                     /\ \A b \in Filled(dentry[n].hi, NoInode) :
                           /\ b <= SBend /\ dentry[n].hi[b] = tab[b + 1]
                           /\ dentry[n].ibstart <= b /\ b <= dentry[n].ibend
  BY DEF SlotsRight
<1>1. PICK x : x = dentry[n]
  OBVIOUS
<1>2. Ranged(x) /\ HiRec(x, tab, lastid) /\ Now(x, tab) /\ INow(x, tab)
  BY <1>1, CurrentFacts
<1>3. Filled(x.hd, NoPath) = Hd(x) /\ Filled(x.hi, NoInode) = Hi(x)
  BY DEF Filled, Hd, Hi
<1>4. \A b \in Hd(x) : /\ b <= SBend /\ x.hd[b] = tab[b + 1].path
                       /\ x.bstart <= b /\ b <= x.bend
  BY <1>2 DEF Ranged, Now, SBend
<1>5. \A b \in Hi(x) : /\ b <= SBend /\ x.hi[b] = tab[b + 1]
                       /\ x.ibstart <= b /\ b <= x.ibend
  BY <1>2 DEF HiRec, INow, SBend
<1>. QED BY <1>1, <1>3, <1>4, <1>5

LEMMA InodeLemma == RefInv => InodeMatches
<1>. SUFFICES ASSUME RefInv, NEW n \in Name, Current(n)
              PROVE  {dentry[n].hd[b] : b \in Filled(dentry[n].hd, NoPath)}
                       = {dentry[n].hi[b].path : b \in Filled(dentry[n].hi, NoInode)}
  BY DEF InodeMatches
<1>1. PICK x : x = dentry[n]
  OBVIOUS
<1>2. RefType /\ x \in DentType /\ HiRec(x, tab, lastid) /\ Now(x, tab) /\ INow(x, tab)
  BY <1>1, CurrentFacts DEF RefInv
<1>3. Filled(x.hd, NoPath) = Hd(x) /\ Filled(x.hi, NoInode) = Hi(x)
  BY DEF Filled, Hd, Hi
<1>4. \A b \in Hd(x) : b \in Hi(x) /\ x.hd[b] = x.hi[b].path
  BY <1>2 DEF Now, INow
<1>5. ASSUME NEW b \in Hi(x) PROVE \E c \in Hd(x) : x.hd[c] = x.hi[b].path
  <2>1. b \in Slot /\ b <= SBend /\ x.hi[b] = tab[b + 1]
    BY <1>2 DEF INow, Hi, SBend
  <2>2. b + 1 \in 1 .. Len(tab) /\ tab[b + 1].path # NoPath
    BY <1>2, <2>1, TabFacts
  <2>3. Has(x, tab[b + 1].path)
    BY <1>2, <2>1, <2>2 DEF HiRec, Under
  <2>. QED BY <2>1, <2>2, <2>3 DEF Has, Hd
<1>6. {x.hd[b] : b \in Hd(x)} = {x.hi[b].path : b \in Hi(x)}
  BY <1>4, <1>5
<1>7. {x.hd[b] : b \in Filled(x.hd, NoPath)} = {x.hi[b].path : b \in Filled(x.hi, NoInode)}
  BY <1>3, <1>6
<1>. QED BY <1>1, <1>7, ZenonT(60)

LEMMA ParentLemma == RefInv => ParentFirst
<1>. SUFFICES ASSUME RefInv, job.pc \in {"hd", "look"} PROVE ParGen(job.n) = sigen
  BY DEF ParentFirst
<1>1. job.pc \in Refreshing
  BY DEF Refreshing, HdSteps
<1>2. job.n \in Name /\ (job.n = "f" => dentry["d"].gen = sigen)
  BY <1>1, InRefresh
<1>. QED BY <1>2 DEF ParGen, Name

(* With one branch option per remount (MaxOpt <= 1), for every number of   *)
(* branches, remounts and failures: the branch table stays an array of     *)
(* distinct branches and every index of a dentry or an inode a slot.       *)
THEOREM TypeInvariant ==
    ASSUME MaxOpt <= 1
    PROVE  Spec => []TypeOK
BY RefInvariant, TypeLemma, PTL

(* The swap loops of au_refresh_hdentry and au_refresh_hinode bring every  *)
(* hidden dentry and hidden inode to the slot of its own branch.           *)
THEOREM SlotsInvariant ==
    ASSUME MaxOpt <= 1
    PROVE  Spec => []SlotsRight
BY RefInvariant, SlotsLemma, PTL

(* The inode of a refreshed dentry has the hidden inodes of its hidden     *)
(* dentries, no more and no less (the second loop of au_refresh_hinode).   *)
THEOREM InodeInvariant ==
    ASSUME MaxOpt <= 1
    PROVE  Spec => []InodeMatches
BY RefInvariant, InodeLemma, PTL

(* No dentry is refreshed against a stale parent (au_reval_dpath and the   *)
(* DEBUG_ONs of au_refresh_hdentry).                                       *)
THEOREM ParentInvariant ==
    ASSUME MaxOpt <= 1
    PROVE  Spec => []ParentFirst
BY RefInvariant, ParentLemma, PTL

-----------------------------------------------------------------------------
(* The swap loops end. *)

LEMMA OneMore ==
    ASSUME NEW S \in SUBSET Slot, NEW T \in SUBSET Slot, S \subseteq T, NEW k \in T, k \notin S
    PROVE  Cardinality(T) > Cardinality(S)
<1>1. IsFiniteSet(Slot)
  <2>1. 0 \in Int /\ MaxBr - 1 \in Int
    BY Bounds
  <2>2. IsFiniteSet(0 .. MaxBr - 1)
    BY <2>1, FS_Interval
  <2>. QED BY <2>2 DEF Slot
<1>2. IsFiniteSet(T) /\ IsFiniteSet(S)
  BY <1>1, FS_Subset
<1>3. Cardinality(S) \in Nat /\ Cardinality(T) \in Nat
  BY <1>2, FS_CardinalityType
<1>4. Cardinality(S) <= Cardinality(T) /\ (Cardinality(T) = Cardinality(S) => T = S)
  BY <1>2, FS_Subset
<1>. QED BY <1>3, <1>4

(* Slots that hold what belongs there: as the parent has it, and by id. *)
HdPlaced(x, P) == {c \in Slot : x.hd[c] # NoPath /\ x.hd[c] = P[c]}
HiPlaced(x) == {c \in Slot : x.hi[c] # NoInode /\ FindBrIndex(x.hi[c].id) = c}

LEMMA HdProgress ==
    ASSUME RefInv, HdMove
    PROVE  \/ job'.b > job.b
           \/ Cardinality(Placed(job.pc, job.n)') > Cardinality(Placed(job.pc, job.n))
<1>1. /\ job.pc = "hd" /\ Misplaced
      /\ dentry' = [dentry EXCEPT ![job.n].hd =
                      IF NewIndex = -1 THEN [@ EXCEPT ![job.b] = NoPath]
                      ELSE Swap(@, job.b, NewIndex)]
      /\ job' = [job EXCEPT
                  !.bwh = Moved(d_.bwh, @), !.bopq = Moved(d_.bopq, @),
                  !.b = IF NewIndex # -1 /\ d_.hd[NewIndex] # NoPath THEN @ ELSE @ + 1]
      /\ tab' = tab
  BY DEF HdMove, branches
<1>2. job.pc \in Refreshing /\ job.pc \in HdSteps /\ RefType /\ LoopOk /\ TabOk /\ HdOk
  BY <1>1 DEF Refreshing, HdSteps, RefInv
<1>3. PICK n, x, b, k, P : /\ n = job.n /\ x = d_ /\ b = job.b /\ k = NewIndex /\ P = Par(n)
  OBVIOUS
<1>4. /\ n \in Name /\ x \in DentType /\ x = dentry[n] /\ HdRec(x, Pos(n)) /\ ParReady(n)
      /\ b \in Int /\ x.hd \in [Slot -> Path \cup {NoPath}]
  BY <1>2, <1>3, InRefresh, JobFacts DEF DentType, HdType
<1>5. CASE ~(k # -1 /\ x.hd[k] # NoPath)
  <2>1. job'.b = b + 1
    BY <1>1, <1>2, <1>3, <1>5 DEF RefType, JobType
  <2>. QED BY <2>1, <1>3, <1>4
<1>6. CASE k # -1 /\ x.hd[k] # NoPath
  <2>1. b \in Slot
    BY <1>1, <1>2, <1>3, JobFacts, Bounds DEF LoopOk, Misplaced
  <2>2. x.hd[b] # NoPath /\ x.hd[b] # P[b] /\ x.hd[b] \in Path
    BY <1>1, <1>3, <1>4, <2>1 DEF Misplaced, Par
  <2>3. k \in Slot /\ P[k] = x.hd[b]
    <3>1. k = FindDbIndex(n, x.hd[b])
      BY <1>3 DEF NewIndex
    <3>. QED BY <1>2, <1>3, <1>4, <1>6, <2>2, <3>1, FindFacts
  <2>4. k # b /\ x.hd[k] # P[k]
    BY <1>4, <1>6, <2>1, <2>2, <2>3 DEF HdRec, Hd
  <2>5. PICK h, y : h = Swap(x.hd, b, k) /\ y = dentry'[n]
    OBVIOUS
  <2>6. y.hd = h
    BY <1>1, <1>2, <1>3, <1>4, <1>6, <2>5 DEF RefType, DentType
  <2>7. \A c \in Slot : h[c] = IF c = k THEN x.hd[b] ELSE IF c = b THEN x.hd[k] ELSE x.hd[c]
    BY <1>4, <2>1, <2>3, <2>5 DEF Swap
  <2>8. HdPlaced(x, P) \subseteq HdPlaced(y, P) /\ k \in HdPlaced(y, P) /\ k \notin HdPlaced(x, P)
    BY <2>2, <2>3, <2>4, <2>6, <2>7 DEF HdPlaced
  <2>9. Cardinality(HdPlaced(y, P)) > Cardinality(HdPlaced(x, P))
    BY <2>8, OneMore DEF HdPlaced
  <2>10. Par(n)' = P
    <3>1. n = "f" => dentry'["d"] = dentry["d"]
      BY <1>1, <1>2, <1>3 DEF RefType, Name
    <3>. QED BY <1>1, <1>3, <1>4, <3>1, ParSame
  <2>11. \A c \in Slot : ParHd(n, c) = P[c] /\ ParHd(n, c)' = P[c]
    <3>1. \A c \in Slot : Par(n)[c] = ParHd(n, c)
      BY DEF Par
    <3>2. \A c \in Slot : (Par(n)[c])' = ParHd(n, c)'
      BY DEF Par
    <3>. QED BY <1>3, <2>10, <3>1, <3>2
  <2>12. Placed("hd", n) = HdPlaced(x, P)
    BY <1>4, <2>11 DEF Placed, Filled, HdPlaced
  <2>13. Placed("hd", n)' = HdPlaced(y, P)
    BY <2>5, <2>11 DEF Placed, Filled, HdPlaced
  <2>14. job'.pc = "hd" /\ job'.n = n
    BY <1>1, <1>2, <1>3 DEF RefType, JobType
  <2>. QED BY <1>1, <1>3, <2>9, <2>12, <2>13, <2>14
<1>. QED BY <1>5, <1>6

LEMMA HiProgress ==
    ASSUME RefInv, HiMove
    PROVE  \/ job'.b > job.b
           \/ Cardinality(Placed(job.pc, job.n)') > Cardinality(Placed(job.pc, job.n))
<1>1. /\ job.pc = "hi" /\ job.b <= d_.ibend
      /\ d_.hi[job.b] # NoInode /\ HiIndex # job.b
      /\ dentry' = [dentry EXCEPT ![job.n] =
              IF HiIndex = -1 THEN [d_ EXCEPT !.hi[job.b] = NoInode]
              ELSE [d_ EXCEPT !.hi = Swap(d_.hi, job.b, HiIndex),
                              !.ibstart = Min({d_.ibstart, HiIndex}),
                              !.ibend = Max({d_.ibend, HiIndex})]]
      /\ job' = [job EXCEPT !.b = IF HiIndex # -1 /\ d_.hi[HiIndex] # NoInode THEN @ ELSE @ + 1]
      /\ tab' = tab
  BY DEF HiMove, branches
<1>2. job.pc \in Refreshing /\ job.pc \in HiSteps /\ RefType /\ LoopOk
  BY <1>1 DEF Refreshing, HiSteps, RefInv
<1>3. PICK n, x, b, k : n = job.n /\ x = d_ /\ b = job.b /\ k = HiIndex
  OBVIOUS
<1>4. /\ n \in Name /\ x \in DentType /\ x = dentry[n] /\ HiRec(x, tab, lastid)
      /\ b \in Int /\ x.hi \in [Slot -> [path : Path \cup {NoPath}, id : Nat]]
  BY <1>2, <1>3, InRefresh, JobFacts DEF DentType, HiType
<1>5. CASE ~(k # -1 /\ x.hi[k] # NoInode)
  <2>1. job'.b = b + 1
    BY <1>1, <1>2, <1>3, <1>5 DEF RefType, JobType
  <2>. QED BY <2>1, <1>3, <1>4
<1>6. CASE k # -1 /\ x.hi[k] # NoInode
  <2>1. b \in Slot
    <3>1. x.ibend \in Int /\ x.ibend <= MaxBr - 1 /\ b <= x.ibend /\ MaxBr \in Nat /\ 0 <= b
      BY <1>1, <1>2, <1>3, <1>4, Bounds DEF DentType, LoopOk
    <3>. QED BY <1>4, <3>1 DEF Slot
  <2>2. x.hi[b] # NoInode /\ FindBrIndex(x.hi[b].id) = k /\ k # b
    BY <1>1, <1>3 DEF HiIndex
  <2>3. k \in Slot
    BY <1>2, <1>6, <2>2, BrIndexFacts
  <2>4. FindBrIndex(x.hi[k].id) # k
    <3>. SUFFICES ASSUME FindBrIndex(x.hi[k].id) = k PROVE FALSE
      OBVIOUS
    <3>1. tab[k + 1].id = x.hi[k].id /\ tab[k + 1].id = x.hi[b].id
      BY <1>2, <1>6, <2>2, BrIndexFacts
    <3>2. k \in Hi(x) /\ b \in Hi(x) /\ x.hi[k].id = x.hi[b].id
      BY <1>6, <2>1, <2>2, <2>3, <3>1 DEF Hi
    <3>3. \A c, d \in Hi(x) : x.hi[c].id = x.hi[d].id => c = d
      BY <1>4 DEF HiRec
    <3>. QED BY <2>2, <3>2, <3>3
  <2>5. PICK h, y : h = Swap(x.hi, b, k) /\ y = dentry'[n]
    OBVIOUS
  <2>6. y.hi = h
    <3>1. dentry' = [dentry EXCEPT ![n] = [x EXCEPT !.hi = h,
                                             !.ibstart = Min({x.ibstart, k}),
                                             !.ibend = Max({x.ibend, k})]]
      BY <1>1, <1>3, <1>6, <2>5
    <3>. QED BY <1>2, <1>4, <2>5, <3>1 DEF RefType, DentType
  <2>7. \A c \in Slot : h[c] = IF c = k THEN x.hi[b] ELSE IF c = b THEN x.hi[k] ELSE x.hi[c]
    BY <1>4, <2>1, <2>3, <2>5 DEF Swap
  <2>8. HiPlaced(x) \subseteq HiPlaced(y) /\ k \in HiPlaced(y) /\ k \notin HiPlaced(x)
    BY <2>2, <2>3, <2>4, <2>6, <2>7 DEF HiPlaced
  <2>9. Cardinality(HiPlaced(y)) > Cardinality(HiPlaced(x))
    BY <2>8, OneMore DEF HiPlaced
  <2>10. \A id : FindBrIndex(id)' = FindBrIndex(id)
    BY <1>1 DEF FindBrIndex
  <2>11. Placed("hi", n) = HiPlaced(x)
    BY <1>4 DEF Placed, Filled, HiPlaced
  <2>12. Placed("hi", n)' = HiPlaced(y)
    BY <2>5, <2>10 DEF Placed, Filled, HiPlaced
  <2>13. job'.pc = "hi" /\ job'.n = n
    BY <1>1, <1>2, <1>3 DEF RefType, JobType
  <2>. QED BY <1>1, <1>3, <2>9, <2>11, <2>12, <2>13
<1>. QED BY <1>5, <1>6

(* One step of a swap loop goes on to the next slot or puts one more hidden *)
(* dentry or hidden inode where it belongs; every other step leaves it.     *)
LEMMA SwapStep ==
    ASSUME RefInv, Next, job.pc \in {"hd", "hi"}, job'.pc = job.pc
    PROVE  \/ job'.b > job.b
           \/ Cardinality(Placed(job.pc, job.n)') > Cardinality(Placed(job.pc, job.n))
<1>1. RefType /\ job.b \in Int /\ Inside
  BY JobFacts DEF RefInv, Inside
<1>2. CASE HdKeep \/ HiKeep
  <2>1. job'.b = job.b + 1
    BY <1>1, <1>2 DEF HdKeep, HiKeep, RefType, JobType
  <2>. QED BY <1>1, <2>1
<1>3. CASE HdMove
  BY <1>3, HdProgress
<1>4. CASE HiMove
  BY <1>4, HiProgress
<1>5. CASE HdRange
  BY <1>1, <1>5 DEF HdRange, RefType, JobType
<1>6. CASE HiAdopt
  <2>1. job.pc = "hi" /\ (job' = [job EXCEPT !.pc = "null"] \/ Return(TRUE) \/ Return(FALSE))
    BY <1>6 DEF HiAdopt
  <2>2. job'.pc # "hi"
    <3>1. job.pc \in Refreshing
      BY <2>1 DEF Refreshing, HiSteps
    <3>2. CASE job' = [job EXCEPT !.pc = "null"]
      BY <1>1, <3>2 DEF RefType, JobType
    <3>3. CASE Return(TRUE)
      BY <3>1, <3>3, ReturnFacts
    <3>4. CASE Return(FALSE)
      BY <3>1, <3>4, ReturnFacts
    <3>. QED BY <2>1, <3>2, <3>3, <3>4
  <2>. QED BY <2>1, <2>2
<1>. QED
  BY <1>1, <1>2, <1>3, <1>4, <1>5, <1>6
  DEF Next, Lookup, Release, Walk, Invalidate, BeginRemount, LockRemount, BrAdd, BrDel,
      BrDelBusy, RevalForDel, BeginReval, EndOpts, DirsRefresh, DirsFail, RevalStep, Realloc,
      HdLkup, HiStart, Fail, Oops

(* The swap loops end: no step of them looks at a slot again without       *)
(* having brought one more hidden dentry or hidden inode to its branch     *)
(* (the swaps of au_refresh_hdentry and au_refresh_hinode).                *)
THEOREM SwapLoopsEnd ==
    ASSUME MaxOpt <= 1
    PROVE  Spec => SwapProgress
<1>1. RefInv /\ [Next]_vars =>
        [job.pc \in {"hd", "hi"} /\ job'.pc = job.pc =>
            \/ job'.b > job.b
            \/ Cardinality(Placed(job.pc, job.n)') > Cardinality(Placed(job.pc, job.n))]_vars
  BY SwapStep
<1>. QED BY <1>1, RefInvariant, PTL DEF Spec, SwapProgress

-----------------------------------------------------------------------------
(* br_del and the last branch of a dentry. *)

(* The steps that leave the hidden dentries and the branches alone. *)
SameSlots(n) ==
    /\ dentry'[n].cached = dentry[n].cached /\ dentry'[n].type = dentry[n].type
    /\ dentry'[n].hd = dentry[n].hd
    /\ dentry'[n].bstart = dentry[n].bstart /\ dentry'[n].bend = dentry[n].bend

LEMMA KeepSame ==
    ASSUME KeepInv, tab' = tab, job'.pc # "null", CacheOk',
           \A n \in Name : ~dentry'[n].cached \/ SameSlots(n),
           \A n \in Name : Looping(n) => Looping(n)',
           InRemount' => \A n \in Name : dentry'[n].cached => Used(n)'
    PROVE  KeepInv'
<1>. SUFFICES ASSUME NEW n \in Name, Live(n)' PROVE Stays(n)' /\ (~Looping(n)' => Ends(dentry'[n]))
  BY DEF KeepInv
<1>1. SameSlots(n) /\ Live(n)
  BY DEF Live, SameSlots
<1>2. n = "f" => SameSlots("d")
  BY DEF CacheOk, Live, Name
<1>3. Stays(n) /\ (~Looping(n)' => Ends(dentry[n]))
  BY <1>1 DEF KeepInv
<1>4. \A m \in Name : SameSlots(m) => /\ \A p : Has(dentry'[m], p) = Has(dentry[m], p)
                                      /\ Ends(dentry[m]) => Ends(dentry'[m])
  BY DEF SameSlots, Has, Ends, Hd
<1>5. Stays(n)'
  BY <1>1, <1>2, <1>3, <1>4 DEF Stays, Name
<1>. QED BY <1>1, <1>3, <1>4, <1>5

(* Steps of the job that change no dentry and no branch. *)
LEMMA KeepJob ==
    ASSUME KeepInv, RefInv', tab' = tab, dentry' = dentry, job'.pc # "null",
           job.pc = "hd" => job'.pc = "hd" /\ job'.n = job.n,
           InRemount' => InRemount
    PROVE  KeepInv'
<1>1. CacheOk'
  BY DEF RefInv
<1>2. \A n \in Name : SameSlots(n) /\ (Looping(n) => Looping(n)')
  BY DEF SameSlots, Looping
<1>3. InRemount' => \A n \in Name : dentry'[n].cached => Used(n)'
  BY DEF KeepInv, Used
<1>. QED BY <1>1, <1>2, <1>3, KeepSame

(* A refresh keeps the hidden dentries of mounted branches. *)
LEMMA KeepRefresh ==
    ASSUME RefInv, KeepInv, job.pc \in Refreshing, NEW y, HdKept(job.n, d_, y),
           tab' = tab, job'.pc # "null", InRemount' => InRemount
    PROVE  KeepInv'
<1>1. PICK n, x : n = job.n /\ x = d_
  OBVIOUS
<1>2. RefType /\ TabOk /\ HdOk /\ n \in Name /\ x = dentry[n] /\ Live(n) /\ ParReady(n)
  BY <1>1, InRefresh DEF RefInv
<1>3. /\ dentry' = [dentry EXCEPT ![n] = y]
      /\ y.cached = x.cached /\ y.use = x.use /\ y.type = x.type
      /\ \A q \in Path : Has(x, q) /\ (\E c \in Slot : Par(n)[c] = q) => Has(y, q)
      /\ job.pc # "hd" => (Ends(x) => Ends(y))
      /\ job.pc = "hd" => (job'.pc = "hd" /\ job'.n = n) \/ (Hd(x) # {} => Ends(y))
  BY <1>1 DEF HdKept
<1>4. dentry'[n] = y /\ \A m \in Name : m # n => dentry'[m] = dentry[m]
  BY <1>2, <1>3 DEF RefType
<1>5. \A m \in Name : /\ dentry'[m].cached = dentry[m].cached /\ dentry'[m].use = dentry[m].use
                      /\ Live(m)' = Live(m)
  BY <1>2, <1>3, <1>4 DEF Live
<1>6. Stays(n) /\ Hd(x) # {}
  <2>1. Stays(n)
    BY <1>2 DEF KeepInv
  <2>2. PICK i \in 1 .. Len(tab) : Has(x, tab[i].path)
    BY <1>2, <2>1 DEF Stays
  <2>3. tab[i].path # NoPath
    BY <1>2, TabFacts
  <2>. QED BY <2>1, <2>2, <2>3 DEF Has, Hd
<1>7. n = "d" => \A i \in 1 .. Len(tab) : Has(x, tab[i].path) => Has(y, tab[i].path)
  <2>. SUFFICES ASSUME n = "d", NEW i \in 1 .. Len(tab), Has(x, tab[i].path)
                PROVE  Has(y, tab[i].path)
    OBVIOUS
  <2>1. tab[i].path \in Path /\ \E c \in Slot : Par(n)[c] = tab[i].path
    BY <1>1, <1>2, ParHas, TabFacts
  <2>. QED BY <1>3, <2>1
<1>8. ASSUME NEW m \in Name, Live(m) PROVE Stays(m)'
  <2>1. PICK i \in 1 .. Len(tab) : /\ Has(dentry[m], tab[i].path)
                                   /\ m = "f" => Has(dentry["d"], tab[i].path)
    BY <1>8 DEF KeepInv, Stays
  <2>2. CASE n = "d"
    <3>1. dentry["d"] = x /\ dentry'["d"] = y /\ dentry'["f"] = dentry["f"]
      BY <2>2, <1>2, <1>4 DEF Name
    <3>2. Has(dentry["d"], tab[i].path)
      BY <2>1 DEF Name
    <3>3. Has(dentry'["d"], tab[i].path)
      BY <2>2, <3>1, <3>2, <1>7
    <3>4. Has(dentry'[m], tab[i].path)
      BY <2>1, <3>1, <3>3 DEF Name
    <3>. QED BY <3>3, <3>4 DEF Stays
  <2>3. CASE n = "f"
    <3>1. dentry["f"] = x /\ dentry'["f"] = y /\ dentry'["d"] = dentry["d"]
      BY <2>3, <1>2, <1>4 DEF Name
    <3>2. CASE m = "d"
      BY <2>1, <3>1, <3>2 DEF Stays
    <3>3. CASE m = "f"
      <4>1. PICK c \in Slot : dentry["d"].hd[c] = tab[i].path
        BY <2>1, <3>3 DEF Has
      <4>2. Par(n)[c] = tab[i].path /\ tab[i].path \in Path
        BY <2>3, <4>1, <1>2, ParFacts, TabFacts
      <4>3. Has(y, tab[i].path)
        BY <2>1, <3>1, <3>3, <4>2, <1>3
      <4>. QED BY <2>1, <3>1, <3>3, <4>3 DEF Stays
    <3>. QED BY <3>2, <3>3 DEF Name
  <2>. QED BY <2>2, <2>3, <1>2 DEF Name
<1>9. ASSUME NEW m \in Name, Live(m), ~Looping(m)' PROVE Ends(dentry'[m])
  <2>1. CASE m = n
    <3>1. CASE job.pc = "hd"
      BY <2>1, <3>1, <1>3, <1>4, <1>6, <1>9 DEF Looping
    <3>2. CASE job.pc # "hd"
      BY <2>1, <3>2, <1>2, <1>3, <1>4 DEF KeepInv, Looping
    <3>. QED BY <3>1, <3>2
  <2>2. CASE m # n
    BY <2>2, <1>1, <1>4, <1>9 DEF KeepInv, Looping
  <2>. QED BY <2>1, <2>2
<1>10. InRemount' => \A m \in Name : dentry'[m].cached => Used(m)'
  BY <1>5 DEF KeepInv, Used, Name
<1>. QED BY <1>5, <1>8, <1>9, <1>10 DEF KeepInv

(* New branches do not hide old ones. *)
LEMMA KeepTable ==
    ASSUME KeepInv, dentry' = dentry, job.pc = "opts", job'.pc = "opts",
           \A n \in Name : Live(n) => \E i \in 1 .. Len(tab), j \in 1 .. Len(tab)' :
                /\ tab[i].path = tab'[j].path /\ Has(dentry[n], tab[i].path)
                /\ n = "f" => Has(dentry["d"], tab[i].path)
    PROVE  KeepInv'
<1>1. \A n \in Name : /\ Live(n)' = Live(n) /\ Looping(n)' = Looping(n) /\ Used(n)' = Used(n)
                      /\ dentry'[n] = dentry[n]
  BY DEF Live, Looping, Used
<1>2. \A n \in Name : Live(n) => Stays(n)'
  BY DEF Stays
<1>3. InRemount
  BY DEF InRemount
<1>. QED BY <1>1, <1>2, <1>3 DEF KeepInv

LEMMA KeepAdd ==
    ASSUME RefInv, KeepInv, NEW b \in Slot, b <= Len(tab), NEW p \in Path, BrAdd(p, b)
    PROVE  KeepInv'
<1>. DEFINE e == [path |-> p, id |-> lastid + 1]
            E == [path : Path, id : Nat \ {0}]
<1>1. /\ job.pc = "opts" /\ tab' = InsertAt(tab, b + 1, e) /\ dentry' = dentry
      /\ job' = [job EXCEPT !.opts = @ + 1]
  BY DEF BrAdd
<1>2. RefType /\ tab \in Seq(E) /\ e \in E /\ Len(tab) \in Nat /\ b \in Nat
  BY TabFacts, Bounds DEF RefInv, RefType, TabType
<1>3. job'.pc = "opts"
  BY <1>1, <1>2 DEF RefType, JobType
<1>4. PICK v, t : v = e /\ t = tab'
  OBVIOUS
<1>5. v \in E
  BY <1>2, <1>4
<1>. HIDE DEF e, E
<1>6. b + 1 \in 1 .. Len(tab) + 1
  BY <1>2
<1>7. /\ Len(t) = Len(tab) + 1
      /\ \A j \in 1 .. Len(tab) + 1 : t[j] = IF j < b + 1 THEN tab[j] ELSE IF j = b + 1 THEN v ELSE tab[j - 1]
  BY <1>1, <1>2, <1>4, <1>5, <1>6, InsertFacts
<1>8. \A i \in 1 .. Len(tab) : \E j \in 1 .. Len(t) : t[j] = tab[i]
  <2>. SUFFICES ASSUME NEW i \in 1 .. Len(tab) PROVE \E j \in 1 .. Len(t) : t[j] = tab[i]
    OBVIOUS
  <2>1. CASE i < b + 1
    <3>1. i \in 1 .. Len(tab) + 1
      BY <1>2
    <3>. QED BY <1>7, <2>1, <3>1
  <2>2. CASE ~(i < b + 1)
    <3>1. i + 1 \in 1 .. Len(tab) + 1 /\ ~(i + 1 < b + 1) /\ i + 1 # b + 1 /\ (i + 1) - 1 = i
      BY <1>2, <2>2
    <3>2. t[i + 1] = tab[i]
      BY <1>7, <3>1
    <3>. QED BY <1>7, <3>1, <3>2
  <2>. QED BY <2>1, <2>2
<1>9. \A n \in Name : Live(n) => \E i \in 1 .. Len(tab), j \in 1 .. Len(tab)' :
          /\ tab[i].path = tab'[j].path /\ Has(dentry[n], tab[i].path)
          /\ n = "f" => Has(dentry["d"], tab[i].path)
  <2>. SUFFICES ASSUME NEW n \in Name, Live(n)
                PROVE  \E i \in 1 .. Len(tab), j \in 1 .. Len(tab)' :
                          /\ tab[i].path = tab'[j].path /\ Has(dentry[n], tab[i].path)
                          /\ n = "f" => Has(dentry["d"], tab[i].path)
    OBVIOUS
  <2>1. PICK i \in 1 .. Len(tab) : /\ Has(dentry[n], tab[i].path)
                                   /\ n = "f" => Has(dentry["d"], tab[i].path)
    BY DEF KeepInv, Stays
  <2>2. PICK j \in 1 .. Len(t) : t[j] = tab[i]
    BY <1>8
  <2>. QED BY <1>4, <2>1, <2>2
<1>. QED BY <1>1, <1>3, <1>9, KeepTable

(* br_del: a dentry in use that is not busy on branch b has another one.   *)
LEMMA NotBusy ==
    ASSUME RefInv, KeepInv, job.pc = "opts", job.opts = 0, NEW b \in Slot, b < Len(tab),
           NEW n \in Name, Live(n), ~Stale(n), Busy(n, b) => b >= dentry[n].alloc
    PROVE  \E c \in Hd(dentry[n]) : c # b
<1>1. PICK x : x = dentry[n]
  OBVIOUS
<1>2. RefType /\ x \in DentType /\ Used(n)
  <2>1. InRemount
    BY DEF InRemount
  <2>. QED BY <1>1, <2>1, DentFacts DEF RefInv, KeepInv, Live
<1>3. x.gen = sigen
  BY <1>1, <1>2 DEF Stale, Live
<1>4. Now(x, tab) /\ Ranged(x) /\ Ends(x)
  <2>1. ~Looping(n)
    BY DEF Looping
  <2>. QED BY <1>1, <1>3, <2>1 DEF RefInv, HdNow, HdOk, KeepInv
<1>5. b \in Int /\ Len(tab) \in Int /\ x.alloc \in Int /\ x.alloc >= Len(tab)
  BY <1>2, <1>4, TabFacts, Bounds DEF Now, DentType
<1>6. ~(b >= x.alloc) /\ b < x.alloc
  BY <1>5
<1>7. ~Busy(n, b)
  BY <1>1, <1>6
<1>8. CASE b \notin Hd(x)
  BY <1>1, <1>4, <1>8 DEF Ends
<1>9. CASE b \in Hd(x)
  <2>1. x.bstart <= b /\ x.hd[b] # NoPath
    BY <1>4, <1>9 DEF Ranged, Hd
  <2>2. x.bstart # x.bend
    BY <1>1, <1>2, <1>7, <2>1 DEF Busy, Live
  <2>. QED BY <1>1, <1>4, <2>2 DEF Ends
<1>. QED BY <1>8, <1>9

LEMMA KeepDel ==
    ASSUME MaxOpt <= 1, RefInv, KeepInv, NEW b \in Slot, b < Len(tab), BrDel(b)
    PROVE  KeepInv'
<1>. DEFINE E == [path : Path, id : Nat \ {0}]
<1>1. /\ job.pc = "opts" /\ job.opts < MaxOpt /\ ~Stale("d") /\ ~Stale("f")
      /\ \A n \in Name : Busy(n, b) => b >= dentry[n].alloc
      /\ tab' = RemoveAt(tab, b + 1) /\ dentry' = dentry
      /\ job' = [job EXCEPT !.opts = @ + 1]
  BY DEF BrDel
<1>2. RefType /\ TabOk /\ HdNow /\ tab \in Seq(E) /\ Len(tab) \in Nat /\ b \in Nat
  BY TabFacts, Bounds DEF RefInv, RefType, TabType
<1>3. job'.pc = "opts" /\ job.opts = 0
  <2>1. job.opts \in Nat /\ MaxOpt \in Nat
    BY <1>2, JobFacts, Bounds
  <2>2. job.opts = 0
    BY <1>1, <2>1
  <2>. QED BY <1>1, <1>2, <2>2 DEF RefType, JobType
<1>4. PICK t : t = tab'
  OBVIOUS
<1>5. b + 1 \in 1 .. Len(tab)
  BY <1>2
<1>. HIDE DEF E
<1>6. Len(t) = Len(tab) - 1 /\ \A j \in 1 .. Len(tab) - 1 : t[j] = IF j < b + 1 THEN tab[j] ELSE tab[j + 1]
  BY <1>1, <1>2, <1>4, <1>5, RemoveFacts
<1>7. \A i \in 1 .. Len(tab) : i # b + 1 => \E j \in 1 .. Len(t) : t[j] = tab[i]
  <2>. SUFFICES ASSUME NEW i \in 1 .. Len(tab), i # b + 1 PROVE \E j \in 1 .. Len(t) : t[j] = tab[i]
    OBVIOUS
  <2>1. CASE i < b + 1
    <3>1. i \in 1 .. Len(tab) - 1
      BY <1>2, <2>1
    <3>. QED BY <1>6, <2>1, <3>1
  <2>2. CASE ~(i < b + 1)
    <3>1. i - 1 \in 1 .. Len(tab) - 1 /\ ~(i - 1 < b + 1) /\ (i - 1) + 1 = i
      BY <1>2, <2>2
    <3>2. t[i - 1] = tab[i]
      BY <1>6, <3>1
    <3>. QED BY <1>6, <3>1, <3>2
  <2>. QED BY <2>1, <2>2
<1>8. \A n \in Name : Live(n) => \E i \in 1 .. Len(tab), j \in 1 .. Len(tab)' :
          /\ tab[i].path = tab'[j].path /\ Has(dentry[n], tab[i].path)
          /\ n = "f" => Has(dentry["d"], tab[i].path)
  <2>. SUFFICES ASSUME NEW n \in Name, Live(n)
                PROVE  \E i \in 1 .. Len(tab), j \in 1 .. Len(tab)' :
                          /\ tab[i].path = tab'[j].path /\ Has(dentry[n], tab[i].path)
                          /\ n = "f" => Has(dentry["d"], tab[i].path)
    OBVIOUS
  <2>1. ~Stale(n)
    BY <1>1 DEF Name
  <2>2. PICK c \in Hd(dentry[n]) : c # b
    BY <1>1, <1>3, <2>1, NotBusy
  <2>3. dentry[n].gen = sigen
    <3>1. InRemount
      BY <1>1 DEF InRemount
    <3>. QED BY <2>1, <3>1 DEF KeepInv, Stale, Live
  <2>4. Now(dentry[n], tab) /\ (n = "f" => Nested(dentry["f"], dentry["d"]))
    BY <1>2, <1>3, <2>3 DEF HdNow
  <2>5. /\ c \in Slot /\ c <= SBend /\ dentry[n].hd[c] = tab[c + 1].path
        /\ n = "f" => Has(dentry["d"], dentry[n].hd[c])
    BY <2>2, <2>4 DEF Now, Nested, Hd, SBend
  <2>6. c + 1 \in 1 .. Len(tab) /\ c + 1 # b + 1
    BY <1>2, <2>2, <2>5, TabFacts, Bounds
  <2>7. PICK j \in 1 .. Len(t) : t[j] = tab[c + 1]
    BY <1>7, <2>6
  <2>8. Has(dentry[n], tab[c + 1].path) /\ (n = "f" => Has(dentry["d"], tab[c + 1].path))
    BY <2>5 DEF Has
  <2>. QED BY <1>4, <2>6, <2>7, <2>8
<1>. QED BY <1>1, <1>3, <1>8, KeepTable

LEMMA KeepLookup ==
    ASSUME ~Race, RefInv, KeepInv, RefInv', NEW n \in Name, Lookup(n)
    PROVE  KeepInv'
<1>1. /\ job.pc = "idle" /\ job' = job /\ tab' = tab
      /\ n = "f" => dentry["d"].cached /\ dentry["d"].type = "dir" /\ dentry["d"].gen = sigen
      /\ dentry' = [dentry EXCEPT ![n] = [Fresh(n) EXCEPT !.use = TRUE]]
      /\ ~dentry[n].cached
  BY DEF Lookup, Inside, branches
<1>2. RefType /\ job.opts = 0 /\ ParReady(n) /\ TabOk /\ CacheOk
  BY <1>1 DEF RefInv, JobOk, ParReady, Live, Looping
<1>3. PICK x, y : x = Fresh(n) /\ y = [x EXCEPT !.use = TRUE]
  OBVIOUS
<1>4. x \in DentType /\ (x.type # "neg" => NewRight(n, x) /\ Ends(x))
  BY <1>1, <1>2, <1>3, FreshFacts
<1>5. y.hd = x.hd /\ y.bstart = x.bstart /\ y.bend = x.bend /\ y.type = x.type
  BY <1>3, <1>4 DEF DentType
<1>6. dentry'[n] = y /\ \A m \in Name : m # n => dentry'[m] = dentry[m]
  BY <1>1, <1>2, <1>3 DEF RefType
<1>7. ASSUME Live(n)' PROVE Stays(n)' /\ Ends(dentry'[n])
  <2>1. NewRight(n, x) /\ Ends(x)
    BY <1>4, <1>5, <1>6, <1>7 DEF Live
  <2>2. Hd(y) = Hd(x) /\ Ends(y)
    BY <1>5, <2>1 DEF Hd, Ends
  <2>3. PICK c \in Hd(x) : TRUE
    BY <2>1 DEF Ends
  <2>4. c \in Slot /\ c <= SBend /\ y.hd[c] = tab[c + 1].path /\ (n = "f" => Has(dentry["d"], y.hd[c]))
    BY <1>5, <2>1, <2>3 DEF NewRight, Now, Nested, Hd, SBend
  <2>5. c + 1 \in 1 .. Len(tab)
    BY <1>2, <2>4, TabFacts
  <2>6. Has(dentry'[n], tab[c + 1].path) /\ (n = "f" => Has(dentry'["d"], tab[c + 1].path))
    BY <1>6, <2>4 DEF Has, Name
  <2>. QED BY <1>1, <1>6, <2>2, <2>5, <2>6 DEF Stays
<1>8. ASSUME NEW m \in Name, m # n, Live(m)' PROVE Stays(m)' /\ Ends(dentry'[m])
  <2>1. m = "d" /\ n = "f"
    <3>1. n = "d" => ~dentry["f"].cached
      BY <1>1, <1>2 DEF CacheOk, Live
    <3>. QED BY <1>6, <1>8, <3>1 DEF Live, Name
  <2>2. Live(m) /\ ~Looping(m) /\ dentry'[m] = dentry[m]
    BY <1>1, <1>6, <1>8 DEF Live, Looping
  <2>. QED BY <1>1, <2>1, <2>2 DEF KeepInv, Stays
<1>9. ~InRemount' /\ job'.pc # "null"
  BY <1>1 DEF InRemount, Refreshing, HdSteps, HiSteps
<1>. QED BY <1>7, <1>8, <1>9 DEF KeepInv

LEMMA KeepVfs ==
    ASSUME ~Race, RefInv, KeepInv, RefInv', NEW n \in Name, Release(n) \/ Walk(n) \/ Invalidate(n)
    PROVE  KeepInv'
<1>1. job.pc = "idle" /\ job' = job /\ tab' = tab
  BY DEF Release, Walk, Invalidate, Inside, branches
<1>2. RefType /\ CacheOk'
  BY DEF RefInv
<1>3. \A m \in Name : ~dentry'[m].cached \/ SameSlots(m)
  <2>. SUFFICES ASSUME NEW m \in Name PROVE ~dentry'[m].cached \/ SameSlots(m)
    OBVIOUS
  <2>1. CASE Invalidate(n)
    BY <2>1, <1>2, NoDentryType DEF Invalidate, RefType, SameSlots
  <2>2. CASE Release(n) \/ Walk(n)
    BY <2>2, <1>2 DEF Release, Walk, RefType, DentType, SameSlots
  <2>. QED BY <2>1, <2>2
<1>4. ~InRemount' /\ job'.pc # "null" /\ \A m \in Name : Looping(m) => Looping(m)'
  BY <1>1 DEF InRemount, Refreshing, HdSteps, HiSteps, Looping
<1>. QED BY <1>1, <1>2, <1>3, <1>4, KeepSame

LEMMA KeepShrink ==
    ASSUME RefInv, KeepInv, RefInv', BeginRemount
    PROVE  KeepInv'
<1>1. /\ job.pc = "idle" /\ dentry' = ShrinkAll /\ job' = [Idle EXCEPT !.pc = "shrunk"] /\ tab' = tab
  BY DEF BeginRemount, branches
<1>2. CacheOk /\ CacheOk'
  BY DEF RefInv
<1>3. /\ dentry'["f"] = IF dentry["f"].use THEN dentry["f"] ELSE NoDentry
      /\ dentry'["d"] = IF dentry["d"].use \/ dentry["f"].use THEN dentry["d"] ELSE NoDentry
  BY <1>1 DEF ShrinkAll, Name
<1>4. \A m \in Name : ~dentry'[m].cached \/ SameSlots(m)
  BY <1>3, NoDentryType DEF SameSlots, Name
<1>5. job'.pc = "shrunk" /\ \A m \in Name : ~Looping(m)
  BY <1>1 DEF Idle, Looping
<1>6. \A m \in Name : dentry'[m].cached => Used(m)'
  <2>1. dentry'["f"].cached => Used("f")'
    BY <1>3, NoDentryType DEF Used
  <2>2. dentry'["d"].cached => Used("d")'
    <3>1. dentry["f"].use => dentry["f"].cached
      BY <1>2 DEF CacheOk, Name
    <3>. QED BY <1>3, <3>1, NoDentryType DEF Used
  <2>. QED BY <2>1, <2>2 DEF Name
<1>. QED BY <1>1, <1>2, <1>4, <1>5, <1>6, KeepSame

(* The second loop of au_refresh_hinode finds an inode. *)
LEMMA KeepAdopt ==
    ASSUME RefInv, KeepInv, RefInv', HiAdopt
    PROVE  KeepInv'
<1>1. job.pc = "hi" /\ tab' = tab
  BY DEF HiAdopt
<1>2. PICK y \in DentType :
              /\ dentry' = [dentry EXCEPT ![job.n] = y] /\ Adopted(d_, y, tab)
              /\ IF Hi(y) = {} THEN job' = [job EXCEPT !.pc = "null"] /\ failed' = failed
                 ELSE Return(TRUE)
  BY HiAdoptFacts
<1>3. job.pc \in Refreshing /\ RefType
  BY <1>1 DEF Refreshing, HiSteps, RefInv
<1>4. job.n \in Name /\ d_ = dentry[job.n] /\ Live(job.n)
  BY <1>3, InRefresh
<1>5. Hi(y) # {}
  <2>1. Ends(dentry[job.n])
    BY <1>1, <1>4 DEF KeepInv, Looping
  <2>. QED BY <1>2, <1>4, <2>1 DEF Adopted, Ends
<1>6. job'.pc # "null" /\ (InRemount' => InRemount)
  <2>1. Return(TRUE)
    BY <1>2, <1>5
  <2>2. \/ job'.pc = "idle"
        \/ job'.pc = "reval" /\ job'.ret = job.ret
    BY <1>3, <2>1, ReturnFacts
  <2>. QED BY <1>3, <2>2 DEF InRemount, Refreshing, HdSteps, HiSteps
<1>7. HdKept(job.n, d_, y)
  <2>1. (Ends(d_) => Ends(y)) /\ \A q : Has(d_, q) => Has(y, q)
    BY <1>2 DEF Adopted, Ends, Hd, Has
  <2>. QED BY <1>1, <1>2, <2>1 DEF HdKept, Adopted
<1>. QED BY <1>1, <1>3, <1>6, <1>7, KeepRefresh

(* The other steps of a refresh go on with it, for the same caller. *)
LEMMA SameCaller ==
    ASSUME RefInv, job.pc \in Refreshing, job'.pc \in Refreshing, job'.ret = job.ret
    PROVE  (InRemount' => InRemount) /\ job'.pc # "null"
BY DEF InRemount, Refreshing, HdSteps, HiSteps

LEMMA KeepNext ==
    ASSUME MaxOpt <= 1, ~Race, RefInv, KeepInv, RefInv', [Next]_vars
    PROVE  KeepInv'
<1>0. RefType /\ JobOk
  BY DEF RefInv
<1>1. CASE UNCHANGED vars \/ Oops
  <2>1. UNCHANGED vars
    BY <1>1 DEF Oops
  <2>2. (InRemount' => InRemount) /\ job'.pc # "null"
    BY <2>1 DEF vars, InRemount, KeepInv
  <2>. QED BY <2>1, <2>2, KeepJob DEF vars
<1>2. CASE \E n \in Name : Lookup(n) \/ Release(n) \/ Walk(n) \/ Invalidate(n)
  BY <1>2, KeepLookup, KeepVfs
<1>3. CASE BeginRemount
  BY <1>3, KeepShrink
<1>4. CASE \E b \in Slot : \/ b <= Len(tab) /\ \E p \in Path : BrAdd(p, b)
                           \/ b < Len(tab) /\ BrDel(b)
  BY <1>4, KeepAdd, KeepDel
<1>5. CASE LockRemount \/ (\E b \in Slot : BrDelBusy(b)) \/ (\E n \in Name : RevalForDel(n))
  <2>1. /\ job.pc \in {"shrunk", "opts"} /\ tab' = tab /\ dentry' = dentry
        /\ job'.pc \in {"opts", "reval"}
    BY <1>0, <1>5 DEF LockRemount, BrDelBusy, RevalForDel, branches, RefType, JobType
  <2>2. InRemount
    BY <2>1 DEF InRemount
  <2>. QED BY <2>1, <2>2, KeepJob
<1>6. CASE EndOpts \/ DirsRefresh \/ DirsFail \/ (\E n \in Name : BeginReval(n))
  <2>1. /\ job.pc # "hd" /\ tab' = tab /\ dentry' = dentry
        /\ job'.pc \in {"idle", "dirs", "start", "reval", "oops"} /\ job'.ret # "opts"
    <3>1. CASE EndOpts
      <4>1. job.pc = "opts" /\ tab' = tab /\ dentry' = dentry
        BY <3>1 DEF EndOpts
      <4>2. CASE job.opts = 0
        <5>1. job' = Idle
          BY <3>1, <4>2 DEF EndOpts
        <5>. QED BY <4>1, <5>1, IdleType
      <4>3. CASE job.opts # 0
        <5>1. job' = [Idle EXCEPT !.pc = "dirs", !.ret = "dirs"]
          BY <3>1, <4>3 DEF EndOpts
        <5>2. job'.pc = "dirs" /\ job'.ret = "dirs"
          BY <5>1, IdleType DEF JobType
        <5>. QED BY <4>1, <5>2
      <4>. QED BY <4>2, <4>3
    <3>2. CASE DirsRefresh
      <4>1. job.pc = "dirs" /\ tab' = tab /\ dentry' = dentry
        BY <3>2 DEF DirsRefresh, branches
      <4>2. job.ret = "dirs"
        BY <1>0, <4>1 DEF JobOk
      <4>3. CASE job' = Idle
        BY <4>1, <4>3, IdleType
      <4>4. CASE job' = [job EXCEPT !.pc = "start", !.n = "d"]
        <5>1. job'.pc = "start" /\ job'.ret = job.ret
          BY <1>0, <4>4 DEF RefType, JobType
        <5>. QED BY <4>1, <4>2, <5>1
      <4>. QED BY <3>2, <4>3, <4>4 DEF DirsRefresh
    <3>3. CASE DirsFail
      BY <3>3 DEF DirsFail, Idle
    <3>4. CASE \E n \in Name : BeginReval(n)
      BY <3>4 DEF BeginReval, branches, Idle
    <3>. QED BY <1>6, <3>1, <3>2, <3>3, <3>4
  <2>2. ~InRemount' /\ job'.pc # "null"
    BY <2>1 DEF InRemount
  <2>. QED BY <2>1, <2>2, KeepJob
<1>7. CASE RevalStep
  <2>1. /\ job.pc = "reval" /\ tab' = tab /\ dentry' = dentry
        /\ job'.pc \in {job.ret, "start"} /\ job'.ret = job.ret
    BY <1>0, <1>7 DEF RevalStep, branches, RefType, JobType
  <2>2. job.ret \in {"idle", "opts"}
    BY <1>0, <2>1, JobFacts DEF JobOk
  <2>3. (InRemount' => InRemount) /\ job'.pc # "null"
    BY <2>1, <2>2 DEF InRemount
  <2>. QED BY <2>1, <2>3, KeepJob
<1>8. CASE HdKeep \/ HiStart \/ HiKeep
  <2>1. /\ job.pc \in {"hd", "hi", "hstart"} /\ tab' = tab /\ dentry' = dentry
        /\ job'.pc = IF job.pc = "hstart" THEN "hi" ELSE job.pc
        /\ job'.ret = job.ret /\ job'.n = job.n
    BY <1>0, <1>8 DEF HdKeep, HiStart, HiKeep, branches, RefType, JobType
  <2>2. job.pc \in Refreshing /\ job'.pc \in Refreshing
    BY <2>1 DEF Refreshing, HdSteps, HiSteps
  <2>3. (InRemount' => InRemount) /\ job'.pc # "null"
    BY <2>1, <2>2, SameCaller
  <2>. QED BY <2>1, <2>3, KeepJob
<1>9. CASE Realloc \/ HdMove \/ HdRange \/ HdLkup \/ HiMove
  <2>1. /\ job.pc \in {"start", "hd", "look", "hi"} /\ tab' = tab
        /\ job'.pc \in {"hd", "look", "hstart", "hi"} /\ job'.ret = job.ret
    BY <1>0, <1>9 DEF Realloc, HdMove, HdRange, HdLkup, HiMove, branches, RefType, JobType
  <2>2. job.pc \in Refreshing /\ job'.pc \in Refreshing
    BY <2>1 DEF Refreshing, HdSteps, HiSteps
  <2>3. (InRemount' => InRemount) /\ job'.pc # "null"
    BY <2>1, <2>2, SameCaller
  <2>4. PICK y : HdKept(job.n, d_, y)
    BY <1>9, ReallocStep, HdMoveStep, HdRangeStep, HdLkupStep, HiMoveStep
  <2>. QED BY <2>1, <2>2, <2>3, <2>4, KeepRefresh
<1>10. CASE HiAdopt
  BY <1>10, KeepAdopt
<1>11. CASE Fail
  <2>1. job.pc \in {"start", "look", "hstart"} /\ tab' = tab /\ dentry' = dentry /\ Return(FALSE)
    BY <1>11 DEF Fail
  <2>2. job.pc \in Refreshing
    BY <2>1 DEF Refreshing, HdSteps, HiSteps
  <2>3. job'.pc = "idle" \/ (job'.pc = "opts" /\ job.ret = "opts")
    BY <2>1, <2>2, ReturnFacts
  <2>4. (InRemount' => InRemount) /\ job'.pc # "null"
    BY <2>2, <2>3 DEF InRemount, Refreshing, HdSteps, HiSteps
  <2>. QED BY <2>1, <2>4, KeepJob
<1>. QED BY <1>1, <1>2, <1>3, <1>4, <1>5, <1>6, <1>7, <1>8, <1>9, <1>10, <1>11 DEF Next

(* A dentry in use keeps a branch and its inode a hidden inode, so that    *)
(* au_cpup_attr_all finds one: br_del refuses a branch that                *)
(* test_children_busy finds to be the last of a dentry.  This needs that   *)
(* no path walk comes between the shrinking of the dentry cache and the    *)
(* remount, and that the remount has one branch option.                    *)
THEOREM LastBranchInvariant ==
    ASSUME MaxOpt <= 1, ~Race
    PROVE  Spec => []LastBranchStays
<1>1. Init => KeepInv
  <2>. SUFFICES ASSUME Init PROVE KeepInv
    OBVIOUS
  <2>1. job.pc = "idle" /\ \A n \in Name : ~Live(n)
    BY NoDentryType DEF Init, Idle, Live
  <2>. QED BY <2>1 DEF KeepInv, InRemount, Refreshing, HdSteps, HiSteps
<1>2. RefInv /\ KeepInv /\ RefInv' /\ [Next]_vars => KeepInv'
  BY KeepNext
<1>3. KeepInv => LastBranchStays
  BY DEF KeepInv, LastBranchStays
<1>. QED BY <1>1, <1>2, <1>3, RefInvariant, PTL DEF Spec

-----------------------------------------------------------------------------
(* A refreshed dentry and a new lookup, where no branch has a whiteout or  *)
(* an opaque mark.                                                         *)

NoMarks(x)    == x.bwh = -1 /\ x.bopq = -1
OneKind(x, n) == \A b \in Hd(x) : TypeOn(x.hd[b], n) = x.type

(* The record has all that its type can have of the parent's slots P: a    *)
(* directory every slot, a file the first.                                 *)
Whole(x, P, n) ==
    \A b \in Slot : P[b] # NoPath /\ TypeOn(P[b], n) = x.type =>
        IF x.type = "dir" THEN x.hd[b] # NoPath ELSE x.bstart <= b

Plain(n) == NoMarks(dentry[n]) /\ OneKind(dentry[n], n)
AfreshInv ==
    /\ job.bwh = -1 /\ job.bopq = -1
    /\ \A n \in Name : Live(n) => Plain(n)
    /\ Live("f") /\ dentry["f"].gen = sigen => dentry["d"].gen = sigen
    /\ job.opts = 0 =>
          \A n \in Name : Live(n) /\ dentry[n].gen = sigen => Whole(dentry[n], Par(n), n)

(* The steps that leave the hidden dentries alone. *)
SameHidden(n) ==
    /\ SameSlots(n) /\ dentry'[n].gen = dentry[n].gen
    /\ dentry'[n].bwh = dentry[n].bwh /\ dentry'[n].bopq = dentry[n].bopq

LEMMA AfreshSame ==
    ASSUME AfreshInv, CacheOk, CacheOk', disk' = disk, job'.bwh = -1, job'.bopq = -1,
           \A n \in Name : ~dentry'[n].cached \/ SameHidden(n),
           \/ sigen' = sigen /\ (job'.opts = 0 => job.opts = 0 /\ tab' = tab)
           \/ \A n \in Name : dentry'[n].gen # sigen'
    PROVE  AfreshInv'
<1>1. \A n \in Name : Live(n)' => Live(n) /\ SameHidden(n) /\ SameSlots(n)
  BY DEF Live, SameHidden, SameSlots
<1>2. Live("f")' => Live("d")'
  BY DEF CacheOk, Live
<1>3. \A n \in Name : Live(n)' => Plain(n)'
  <2>. SUFFICES ASSUME NEW n \in Name, Live(n)' PROVE Plain(n)'
    OBVIOUS
  <2>1. Plain(n) /\ SameHidden(n) /\ SameSlots(n)
    BY <1>1 DEF AfreshInv
  <2>. QED BY <2>1 DEF Plain, NoMarks, OneKind, SameHidden, SameSlots, Hd, TypeOn
<1>4. Live("f")' /\ dentry'["f"].gen = sigen' => dentry'["d"].gen = sigen'
  <2>. SUFFICES ASSUME Live("f")', dentry'["f"].gen = sigen' PROVE dentry'["d"].gen = sigen'
    OBVIOUS
  <2>1. /\ Live("f") /\ dentry'["f"].gen = dentry["f"].gen
        /\ dentry'["d"].gen = dentry["d"].gen
    BY <1>1, <1>2 DEF SameHidden, Name
  <2>2. sigen' = sigen
    BY DEF Name
  <2>. QED BY <2>1, <2>2 DEF AfreshInv
<1>5. ASSUME job'.opts = 0, NEW n \in Name, Live(n)', dentry'[n].gen = sigen'
      PROVE  Whole(dentry[n], Par(n), n)'
  <2>1. sigen' = sigen /\ job.opts = 0 /\ tab' = tab
    BY <1>5
  <2>2. Live(n) /\ SameHidden(n) /\ SameSlots(n) /\ dentry[n].gen = sigen
    BY <1>1, <1>5, <2>1 DEF SameHidden
  <2>3. Whole(dentry[n], Par(n), n)
    BY <2>1, <2>2 DEF AfreshInv
  <2>4. n = "f" => /\ dentry'["d"].hd = dentry["d"].hd
                   /\ dentry'["d"].bstart = dentry["d"].bstart
    BY <1>1, <1>2, <1>5 DEF SameSlots, Name
  <2>5. Par(n)' = Par(n)
    <3>1. CASE n = "d"
      BY <2>1, <3>1 DEF Par, ParHd, SBend
    <3>2. CASE n = "f"
      BY <2>1, <2>4, <3>2 DEF Par, ParHd, SBend
    <3>. QED BY <3>1, <3>2 DEF Name
  <2>. QED BY <2>2, <2>3, <2>5 DEF Whole, SameSlots, TypeOn
<1>. QED BY <1>3, <1>4, <1>5 DEF AfreshInv

(* A step of au_refresh_hdentry that gives the dentry the record y. *)
LEMMA AfreshRefresh ==
    ASSUME RefInv, AfreshInv, job.pc \in HdSteps, disk' = disk, tab' = tab, sigen' = sigen,
           job'.bwh = -1, job'.bopq = -1, NEW y, dentry' = [dentry EXCEPT ![job.n] = y],
           y.cached = d_.cached, y.type = d_.type, NoMarks(y), OneKind(y, job.n),
           y.gen = sigen => Whole(y, Par(job.n), job.n)
    PROVE  AfreshInv'
<1>1. PICK n : n = job.n
  OBVIOUS
<1>2. /\ RefType /\ CacheOk /\ n \in Name /\ Live(n) /\ dentry[n].gen # sigen /\ job.opts = 0
      /\ d_ = dentry[n] /\ (n = "f" => Live("d") /\ dentry["d"].gen = sigen)
  <2>1. job.pc \in Refreshing
    BY DEF Refreshing
  <2>. QED BY <1>1, <2>1, InRefresh DEF RefInv
<1>3. dentry'[n] = y /\ \A m \in Name : m # n => dentry'[m] = dentry[m]
  BY <1>1, <1>2 DEF RefType
<1>4. \A m \in Name : Live(m)' = Live(m)
  BY <1>1, <1>2, <1>3 DEF Live
<1>5. ASSUME NEW m \in Name, Live(m)' PROVE Plain(m)'
  <2>1. CASE m = n
    BY <1>1, <1>3, <2>1 DEF Plain, NoMarks, OneKind, Hd, TypeOn
  <2>2. CASE m # n
    <3>1. Plain(m) /\ dentry'[m] = dentry[m]
      BY <1>3, <1>4, <1>5, <2>2 DEF AfreshInv
    <3>. QED BY <3>1 DEF Plain, NoMarks, OneKind, Hd, TypeOn
  <2>. QED BY <2>1, <2>2
<1>6. n = "d" => ~(Live("f") /\ dentry'["f"].gen = sigen)
  BY <1>2, <1>3 DEF AfreshInv, Name
<1>7. Live("f")' /\ dentry'["f"].gen = sigen' => dentry'["d"].gen = sigen'
  BY <1>2, <1>3, <1>4, <1>6 DEF Name
<1>8. ASSUME NEW m \in Name, Live(m)', dentry'[m].gen = sigen'
      PROVE  Whole(dentry[m], Par(m), m)'
  <2>1. Par(m)' = Par(m)
    <3>1. m = "f" => dentry'["d"] = dentry["d"]
      BY <1>2, <1>3, <1>4, <1>6, <1>8 DEF Name
    <3>. QED BY <3>1, ParSame
  <2>2. Whole(dentry'[m], Par(m), m)
    <3>1. CASE m = n
      BY <1>1, <1>3, <1>8, <3>1
    <3>2. CASE m # n
      BY <1>2, <1>3, <1>4, <1>8, <3>2 DEF AfreshInv
    <3>. QED BY <3>1, <3>2
  <2>. QED BY <2>1, <2>2 DEF Whole, TypeOn
<1>. QED BY <1>5, <1>7, <1>8 DEF AfreshInv

(* Without marks lkup_dentry looks into every slot of the parent. *)
ParPlain(n) == n = "f" => Plain("d") /\ dentry["d"].type = "dir"

LEMMA PlainTail ==
    ASSUME NEW x \in DentType, NoMarks(x)
    PROVE  DbTail(x) = x.bend /\ DbTailDir(x) = x.bend
<1>1. DbTail(x) = x.bend
  BY DEF DbTail, NoMarks
<1>. QED BY <1>1 DEF DbTailDir, NoMarks

LEMMA PlainLooked ==
    ASSUME RefType, TabOk, HdOk, NEW n \in Name, ParReady(n), ParPlain(n), Unmarked(Path), NEW x
    PROVE  \A b \in Slot : Par(n)[b] # NoPath =>
              /\ b \in ParStart(n) .. ParTail(n) /\ (x.hd[b] = NoPath => b \in Looked(n, x))
              /\ ~HasWh(ParHd(n, b), n) /\ ~IsOpq(ParHd(n, b), n)
              /\ TypeAt(n, b) = TypeOn(Par(n)[b], n)
<1>. SUFFICES ASSUME NEW b \in Slot, Par(n)[b] # NoPath
              PROVE  /\ b \in ParStart(n) .. ParTail(n) /\ (x.hd[b] = NoPath => b \in Looked(n, x))
                     /\ ~HasWh(ParHd(n, b), n) /\ ~IsOpq(ParHd(n, b), n)
                     /\ TypeAt(n, b) = TypeOn(Par(n)[b], n)
  OBVIOUS
<1>1. /\ Par(n)[b] = ParHd(n, b) /\ Par(n) \in HdType /\ ParStart(n) <= b /\ b <= ParEnd(n)
      /\ ParStart(n) \in Int /\ ParEnd(n) \in Int /\ b \in Int
  BY ParFacts, Bounds
<1>2. ParTail(n) = ParEnd(n)
  <2>1. CASE n = "d"
    BY <2>1 DEF ParTail, ParEnd
  <2>2. CASE n = "f"
    <3>1. DbTailDir(dentry["d"]) = dentry["d"].bend
      BY <2>2, PlainTail, DentFacts DEF ParPlain, Plain, Name
    <3>. QED BY <2>2, <3>1 DEF ParTail, ParEnd
  <2>. QED BY <2>1, <2>2 DEF Name
<1>3. b \in ParStart(n) .. ParTail(n)
  BY <1>1, <1>2
<1>4. n = "f" => TypeOn(ParHd(n, b), "d") = "dir"
  <2>. SUFFICES ASSUME n = "f" PROVE TypeOn(ParHd(n, b), "d") = "dir"
    OBVIOUS
  <2>1. ParHd(n, b) = dentry["d"].hd[b] /\ b \in Hd(dentry["d"])
    BY <1>1, ParFacts DEF Hd
  <2>. QED BY <2>1 DEF ParPlain, Plain, OneKind
<1>5. Par(n)[b] \in Path
  BY <1>1 DEF HdType
<1>. QED BY <1>1, <1>3, <1>4, <1>5 DEF Looked, Unmarked, HasWh, IsOpq, TypeAt

(* A slot at which the loop ends is visited, if no earlier one ends it. *)
LEMMA FirstStop ==
    ASSUME RefType, TabOk, HdOk, NEW n \in Name, ParReady(n), NEW x, NEW t, NEW L, NEW F,
           NEW b \in ParStart(n) .. ParTail(n)
    PROVE  \/ b \in Visited(n, x, t, L, F)
           \/ \E c \in Visited(n, x, t, L, F) : c < b /\ Stop(n, x, t, L, F, c)
<1>1. /\ ParStart(n) \in Int /\ ParTail(n) \in Int
      /\ \A c \in ParStart(n) .. ParTail(n) : c \in Slot /\ c \in Int /\ c \in Index
  BY ParFacts, LookedFacts, Bounds
<1>. DEFINE S == {c \in ParStart(n) .. b - 1 : Stop(n, x, t, L, F, c)}
<1>2. CASE S = {}
  BY <1>2 DEF Visited
<1>3. CASE S # {}
  <2>1. \A c \in ParStart(n) .. b - 1 : c \in ParStart(n) .. ParTail(n) /\ c < b
    BY <1>1
  <2>2. S \in SUBSET Index
    BY <1>1, <2>1
  <2>3. PICK c \in S : \A v \in S : c <= v
    BY <1>3, <2>2, MinSlot
  <2>4. c \in ParStart(n) .. ParTail(n) /\ c < b /\ c \in Int /\ b \in Int /\ Stop(n, x, t, L, F, c)
    BY <1>1, <2>1, <2>3
  <2>5. ASSUME NEW v \in ParStart(n) .. c - 1, Stop(n, x, t, L, F, v) PROVE FALSE
    <3>1. v \in ParStart(n) .. b - 1 /\ ~(c <= v)
      BY <1>1, <2>4
    <3>. QED BY <2>3, <2>5, <3>1
  <2>. QED BY <2>4, <2>5 DEF Visited
<1>. QED BY <1>2, <1>3

(* What lkup_dentry makes of x when it looks for type t without marks.     *)
LkupPlainly(n, t, z) ==
    /\ NoMarks(z) /\ \A c \in Hd(z) : TypeOn(z.hd[c], n) = t
    /\ \A b \in Slot : Par(n)[b] # NoPath /\ TypeOn(Par(n)[b], n) = t =>
          IF t = "dir" THEN z.hd[b] # NoPath ELSE \E c \in Hd(z) : c <= b

LEMMA LkupPlain ==
    ASSUME RefType, TabOk, HdOk, NEW n \in Name, ParReady(n), ParPlain(n), Unmarked(Path),
           NEW x \in DentType, NoMarks(x), NEW t \in {"file", "dir"},
           \A c \in Hd(x) : TypeOn(x.hd[c], n) = t, NEW z, LkupAdds(n, x, t, z)
    PROVE  LkupPlainly(n, t, z)
<1>1. PICK L, F, V : /\ L = Looked(n, x) /\ F = LkupOf(n, x, t)
                     /\ V = Visited(n, x, t, L, F)
  OBVIOUS
<1>2. /\ \A c \in Slot : z.hd[c] = IF c \in F \cap V THEN Par(n)[c] ELSE x.hd[c]
      /\ (\A b \in L : ~HasWh(ParHd(n, b), n) /\ ~IsOpq(ParHd(n, b), n))
            => z.bwh = x.bwh /\ z.bopq = x.bopq
  BY <1>1 DEF LkupAdds, LkupNew
<1>3. /\ L \subseteq Slot /\ \A b \in ParStart(n) .. ParTail(n) : b \in Slot
      /\ \A b \in L : x.hd[b] = NoPath /\ Par(n)[b] # NoPath /\ ParHd(n, b) = Par(n)[b]
  BY <1>1, LookedFacts
<1>4. \A b \in Slot : Par(n)[b] # NoPath =>
         /\ b \in ParStart(n) .. ParTail(n) /\ (x.hd[b] = NoPath => b \in L)
         /\ ~HasWh(ParHd(n, b), n) /\ ~IsOpq(ParHd(n, b), n)
         /\ TypeAt(n, b) = TypeOn(Par(n)[b], n)
  BY <1>1, PlainLooked
<1>5. \A b : b \in F <=> b \in L /\ TypeOn(Par(n)[b], n) = t
  BY <1>1, <1>3, <1>4 DEF LkupOf, Positive
<1>6. NoMarks(z)
  BY <1>2, <1>3, <1>4 DEF NoMarks
<1>7. ASSUME NEW c \in Hd(z) PROVE TypeOn(z.hd[c], n) = t
  BY <1>2, <1>5 DEF Hd
<1>8. ASSUME NEW b \in Slot, Par(n)[b] # NoPath, TypeOn(Par(n)[b], n) = t
      PROVE  IF t = "dir" THEN z.hd[b] # NoPath ELSE \E c \in Hd(z) : c <= b
  <2>0. b \in Int /\ b <= b
    BY Bounds
  <2>1. CASE x.hd[b] # NoPath
    <3>1. z.hd[b] # NoPath
      BY <1>2, <1>8, <2>1
    <3>. QED BY <2>0, <3>1 DEF Hd
  <2>2. CASE x.hd[b] = NoPath
    <3>1. b \in L /\ b \in F /\ b \in ParStart(n) .. ParTail(n)
      BY <1>4, <1>5, <1>8, <2>2
    <3>2. CASE b \in V
      <4>1. z.hd[b] # NoPath
        BY <1>2, <1>8, <3>1, <3>2
      <4>. QED BY <2>0, <4>1 DEF Hd
    <3>3. ASSUME NEW c \in V, c < b, Stop(n, x, t, L, F, c)
          PROVE  t # "dir" /\ \E v \in Hd(z) : v <= b
      <4>1. c \in Slot /\ c \in Int
        BY <1>1, <1>3, Bounds DEF Visited
      <4>2. CASE c \in L
        <5>1. c \in F /\ t # "dir"
          BY <1>3, <1>4, <3>3, <4>1, <4>2 DEF Stop, NoMarks
        <5>2. z.hd[c] # NoPath
          BY <1>2, <1>3, <3>3, <4>1, <4>2, <5>1
        <5>. QED BY <2>0, <3>3, <4>1, <5>1, <5>2 DEF Hd
      <4>3. CASE c \notin L
        <5>1. x.hd[c] # NoPath /\ t # "dir" /\ c \notin F
          BY <1>5, <3>3, <4>3 DEF Stop
        <5>2. z.hd[c] # NoPath
          BY <1>2, <4>1, <5>1
        <5>. QED BY <2>0, <3>3, <4>1, <5>1, <5>2 DEF Hd
      <4>. QED BY <4>2, <4>3
    <3>4. b \in V \/ \E c \in V : c < b /\ Stop(n, x, t, L, F, c)
      BY <1>1, <3>1, FirstStop
    <3>. QED BY <3>2, <3>3, <3>4
  <2>. QED BY <2>1, <2>2
<1>. QED BY <1>6, <1>7, <1>8 DEF LkupPlainly

LEMMA PlainlyWhole ==
    ASSUME NEW n \in Name, NEW z \in DentType, NEW y \in DentType, Ranged(z),
           LkupPlainly(n, y.type, z), y.hd = z.hd, y.bstart = z.bstart,
           y.bwh = z.bwh, y.bopq = z.bopq
    PROVE  NoMarks(y) /\ OneKind(y, n) /\ Whole(y, Par(n), n)
<1>1. Hd(y) = Hd(z)
  BY DEF Hd
<1>2. NoMarks(y) /\ OneKind(y, n)
  BY <1>1 DEF LkupPlainly, NoMarks, OneKind
<1>3. \A b \in Slot, c \in Hd(z) : c <= b => y.bstart <= b
  <2>. SUFFICES ASSUME NEW b \in Slot, NEW c \in Hd(z), c <= b PROVE y.bstart <= b
    OBVIOUS
  <2>1. z.bstart \in Int /\ b \in Int /\ c \in Int /\ z.bstart <= c
    BY Bounds DEF DentType, Hd, Ranged
  <2>. QED BY <2>1
<1>4. Whole(y, Par(n), n)
  BY <1>3 DEF LkupPlainly, Whole
<1>. QED BY <1>2, <1>4

(* A new dentry is what lkup_dentry returned. *)
LEMMA FreshFrom ==
    ASSUME RefType, TabOk, HdOk, NEW n \in Name, ParReady(n), Fresh(n).type # "neg",
           NEW r, r = LkupDentry(n, NoDentry, "any")
    PROVE  /\ LkupFound1(n, r) /\ r.type # "neg"
           /\ Fresh(n).type = r.type /\ Fresh(n).hd = r.d.hd
           /\ Fresh(n).bstart = r.d.bstart /\ Fresh(n).bend = r.d.bend
           /\ Fresh(n).bwh = r.d.bwh /\ Fresh(n).bopq = r.d.bopq
<1>1. LkupFound1(n, r)
  BY LkupFirst
<1>2. PICK x, tail, On, l, g, h :
        /\ x = r.d /\ l = Len(tab) /\ g = sigen
        /\ tail = IF r.type = "dir" THEN DbTailDir(x) ELSE DbTail(x)
        /\ On = {b \in x.bstart .. tail : x.hd[b] # NoPath}
        /\ h = [b \in Slot |-> IF b \in On THEN tab[b + 1] ELSE NoInode]
  OBVIOUS
<1>3. x \in DentType /\ SameRest(NoDentry, x)
  BY <1>1, <1>2 DEF LkupFound1
<1>4. x.type = "neg"
  BY <1>3 DEF SameRest, NoDentry
<1>5. r.type # "neg"
  <2>. SUFFICES ASSUME r.type = "neg" PROVE FALSE
    OBVIOUS
  <2>1. Fresh(n) = [x EXCEPT !.cached = TRUE, !.gen = g, !.alloc = l]
    BY <1>2 DEF Fresh, NewDentry
  <2>. QED BY <1>3, <1>4, <2>1 DEF DentType
<1>6. PICK y, ty, s : y = Fresh(n) /\ ty = r.type /\ s = x.bstart
  OBVIOUS
<1>7. y = [x EXCEPT !.cached = TRUE, !.type = ty, !.gen = g, !.igen = g,
                    !.alloc = l, !.ibstart = s, !.ibend = tail, !.hi = h]
  BY <1>2, <1>5, <1>6 DEF Fresh, NewDentry
<1>8. /\ y.type = ty /\ y.hd = x.hd /\ y.bstart = x.bstart /\ y.bend = x.bend
      /\ y.bwh = x.bwh /\ y.bopq = x.bopq
  BY <1>3, <1>7 DEF DentType
<1>. QED BY <1>1, <1>2, <1>5, <1>6, <1>8

LEMMA FreshPlain ==
    ASSUME RefInv, job.opts = 0, NEW n \in Name, ParReady(n), ParPlain(n), Unmarked(Path),
           n = "f" => dentry["d"].gen = sigen, Fresh(n).type # "neg"
    PROVE  /\ NoMarks(Fresh(n)) /\ OneKind(Fresh(n), n) /\ Whole(Fresh(n), Par(n), n)
           /\ \A c \in Hd(Fresh(n)) : Fresh(n).hd[c] = Par(n)[c]
<1>1. RefType /\ TabOk /\ HdOk
  BY DEF RefInv
<1>2. PICK r, y, x : r = LkupDentry(n, NoDentry, "any") /\ y = Fresh(n) /\ x = NoDentry
  OBVIOUS
<1>3. /\ LkupFound1(n, r) /\ r.type # "neg" /\ y.type = r.type /\ y.hd = r.d.hd
      /\ y.bstart = r.d.bstart /\ y.bwh = r.d.bwh /\ y.bopq = r.d.bopq
  BY <1>1, <1>2, FreshFrom
<1>4. y \in DentType
  BY <1>2, FreshFacts
<1>5. /\ r.d \in DentType /\ Ranged(r.d) /\ r.type \in {"file", "dir"}
      /\ LkupAdds(n, x, r.type, r.d) /\ \A c \in Hd(r.d) : r.d.hd[c] = Par(n)[c]
  BY <1>2, <1>3 DEF LkupFound1
<1>6. x \in DentType /\ NoMarks(x) /\ Hd(x) = {}
  BY <1>2, NoDentryType DEF NoDentry, NoMarks, Hd, EmptyHd
<1>7. LkupPlainly(n, r.type, r.d)
  BY <1>1, <1>5, <1>6, LkupPlain
<1>8. NoMarks(y) /\ OneKind(y, n) /\ Whole(y, Par(n), n)
  BY <1>3, <1>4, <1>5, <1>7, PlainlyWhole
<1>. QED BY <1>2, <1>3, <1>5, <1>8 DEF Hd

(* Two such records of the same type show the same branches. *)
PlainRec(x, P, n) ==
    /\ x \in DentType /\ x.type # "neg" /\ Ranged(x) /\ Ends(x) /\ NoMarks(x) /\ OneKind(x, n)
    /\ Whole(x, P, n) /\ \A c \in Hd(x) : x.hd[c] = P[c]

LEMMA SeenIn ==
    ASSUME NEW x, NEW y, NEW P, NEW n \in Name, PlainRec(x, P, n), PlainRec(y, P, n), x.type = y.type
    PROVE  Seen(x) \subseteq Seen(y)
<1>1. /\ x \in DentType /\ Ranged(x) /\ Ends(x) /\ NoMarks(x) /\ OneKind(x, n) /\ Whole(x, P, n)
      /\ y \in DentType /\ Ranged(y) /\ Ends(y) /\ NoMarks(y) /\ OneKind(y, n) /\ Whole(y, P, n)
      /\ (\A c \in Hd(x) : x.hd[c] = P[c]) /\ \A c \in Hd(y) : y.hd[c] = P[c]
  BY DEF PlainRec
<1>2. \A c \in Hd(x) : c \in Slot /\ c \in Int /\ P[c] # NoPath /\ TypeOn(P[c], n) = x.type
  BY <1>1, Bounds DEF Hd, OneKind
<1>3. \A c \in Hd(y) : c \in Slot /\ c \in Int /\ P[c] # NoPath /\ TypeOn(P[c], n) = x.type
  BY <1>1, Bounds DEF Hd, OneKind
<1>4. DbTailDir(x) = x.bend /\ DbTailDir(y) = y.bend
  BY <1>1, PlainTail
<1>5. x.bstart \in Int /\ x.bend \in Int /\ y.bstart \in Int /\ y.bend \in Int
  BY <1>1, Bounds DEF DentType
<1>6. CASE x.type = "dir"
  <2>1. /\ Seen(x) = {x.hd[b] : b \in Slot \cap (x.bstart .. x.bend)} \ {NoPath}
        /\ Seen(y) = {y.hd[b] : b \in Slot \cap (y.bstart .. y.bend)} \ {NoPath}
    BY <1>4, <1>6 DEF Seen
  <2>2. ASSUME NEW b \in Hd(x)
        PROVE  b \in Slot \cap (y.bstart .. y.bend) /\ y.hd[b] = x.hd[b]
    <3>1. b \in Hd(y)
      BY <1>1, <1>2, <1>6 DEF Whole, Hd
    <3>. QED BY <1>1, <1>3, <1>5, <3>1 DEF Ranged
  <2>3. \A b \in Slot : x.hd[b] # NoPath => b \in Hd(x)
    BY DEF Hd
  <2>. QED BY <2>1, <2>2, <2>3
<1>7. CASE x.type # "dir"
  <2>1. x.bstart = y.bstart
    <3>1. x.bstart \in Hd(x) /\ y.bstart \in Hd(y)
      BY <1>1 DEF Ends
    <3>2. y.bstart <= x.bstart /\ x.bstart <= y.bstart
      BY <1>1, <1>2, <1>3, <1>7, <3>1 DEF Whole
    <3>. QED BY <1>5, <3>2
  <2>2. PICK s : s = x.bstart
    OBVIOUS
  <2>3. /\ s \in Slot /\ Slot \cap (s .. s) = {s} /\ x.hd[s] = y.hd[s]
    <3>1. s \in Hd(x) /\ s \in Hd(y) /\ s \in Int
      BY <1>1, <1>5, <2>1, <2>2 DEF Ends
    <3>. QED BY <1>1, <1>2, <3>1
  <2>4. /\ Seen(x) = {x.hd[b] : b \in Slot \cap (s .. s)} \ {NoPath}
        /\ Seen(y) = {y.hd[b] : b \in Slot \cap (s .. s)} \ {NoPath}
    BY <1>7, <2>1, <2>2 DEF Seen
  <2>. QED BY <2>3, <2>4
<1>. QED BY <1>6, <1>7

LEMMA AfreshLemma ==
    ASSUME RefInv, KeepInv, Unmarked(Path), AfreshInv
    PROVE  SeenAfresh
<1>. SUFFICES ASSUME NEW n \in Name, Current(n), n = "f" => Current("d"),
                     NEW y, y = Fresh(n), y.type = dentry[n].type
              PROVE  Seen(dentry[n]) = Seen(y)
  BY DEF SeenAfresh
<1>1. RefType /\ TabOk /\ HdOk /\ HdNow /\ CacheOk /\ JobOk
  BY DEF RefInv
<1>2. job.pc \in {"idle", "shrunk"} /\ job.opts = 0
  BY <1>1 DEF Current, Inside, JobOk
<1>3. /\ Live(n) /\ dentry[n].gen = sigen
      /\ n = "f" => Live("d") /\ dentry["d"].gen = sigen /\ dentry["d"].type = "dir"
  BY <1>1 DEF Current, Live, CacheOk
<1>4. ParReady(n) /\ ParPlain(n) /\ \A m \in Name : ~Looping(m)
  BY <1>2, <1>3 DEF ParReady, ParPlain, Looping, AfreshInv, Name
<1>5. PICK x, P : x = dentry[n] /\ P = Par(n)
  OBVIOUS
<1>6. \A c \in Hd(x) : x.hd[c] = P[c]
  <2>. SUFFICES ASSUME NEW c \in Hd(x) PROVE x.hd[c] = P[c]
    OBVIOUS
  <2>1. c \in Slot /\ x.hd[c] # NoPath /\ c <= SBend /\ x.hd[c] = tab[c + 1].path
    BY <1>1, <1>2, <1>3, <1>5 DEF HdNow, Now, Hd, SBend
  <2>2. CASE n = "d"
    BY <1>1, <1>4, <1>5, <2>1, <2>2, ParFacts
  <2>3. CASE n = "f"
    <3>1. Has(dentry["d"], x.hd[c]) /\ Now(dentry["d"], tab)
      BY <1>1, <1>2, <1>3, <1>5, <2>3 DEF HdNow, Nested, Name
    <3>2. PICK v \in Slot : dentry["d"].hd[v] = x.hd[c]
      BY <3>1 DEF Has
    <3>3. v <= SBend /\ tab[v + 1].path = tab[c + 1].path
      BY <2>1, <3>1, <3>2 DEF Now, Hd, SBend
    <3>4. v + 1 = c + 1 /\ v \in Int /\ c \in Int
      BY <1>1, <2>1, <3>2, <3>3, TabFacts, Bounds DEF TabOk
    <3>5. v = c
      BY <3>4
    <3>. QED BY <1>1, <1>4, <1>5, <2>3, <3>2, <3>5, ParFacts
  <2>. QED BY <2>2, <2>3 DEF Name
<1>7. PlainRec(x, P, n)
  <2>1. x \in DentType /\ x.type # "neg" /\ Ranged(x) /\ Ends(x)
    BY <1>1, <1>3, <1>4, <1>5, DentFacts DEF HdOk, KeepInv, Live
  <2>2. NoMarks(x) /\ OneKind(x, n) /\ Whole(x, P, n)
    BY <1>2, <1>3, <1>5 DEF AfreshInv, Plain
  <2>. QED BY <1>6, <2>1, <2>2 DEF PlainRec
<1>8. PlainRec(y, P, n)
  <2>1. y.type # "neg"
    BY <1>5, <1>7 DEF PlainRec
  <2>2. y \in DentType /\ NewRight(n, y) /\ Ends(y)
    BY <1>2, <1>3, <1>4, <2>1, FreshFacts
  <2>3. NoMarks(y) /\ OneKind(y, n) /\ Whole(y, P, n) /\ \A c \in Hd(y) : y.hd[c] = P[c]
    BY <1>2, <1>3, <1>4, <1>5, <2>1, FreshPlain
  <2>. QED BY <2>1, <2>2, <2>3 DEF PlainRec, NewRight
<1>9. Seen(x) \subseteq Seen(y) /\ Seen(y) \subseteq Seen(x)
  BY <1>5, <1>7, <1>8, SeenIn
<1>. QED BY <1>5, <1>9

LEMMA AfreshLookup ==
    ASSUME RefInv, AfreshInv, Unmarked(Path), NEW n \in Name, Lookup(n)
    PROVE  AfreshInv'
<1>1. /\ job.pc \in {"idle", "shrunk"} /\ job' = job /\ tab' = tab /\ disk' = disk /\ sigen' = sigen
      /\ n = "f" => dentry["d"].cached /\ dentry["d"].type = "dir" /\ dentry["d"].gen = sigen
      /\ dentry' = [dentry EXCEPT ![n] = [Fresh(n) EXCEPT !.use = TRUE]]
      /\ ~dentry[n].cached
  BY DEF Lookup, Inside, branches
<1>2. RefType /\ job.opts = 0 /\ ParReady(n) /\ ParPlain(n) /\ CacheOk
  BY <1>1 DEF RefInv, JobOk, ParReady, ParPlain, AfreshInv, Live, Looping, Name
<1>3. PICK x, y : x = Fresh(n) /\ y = [x EXCEPT !.use = TRUE]
  OBVIOUS
<1>4. x \in DentType
  BY <1>1, <1>2, <1>3, FreshFacts
<1>5. /\ y.hd = x.hd /\ y.bstart = x.bstart /\ y.type = x.type /\ y.gen = x.gen
      /\ y.bwh = x.bwh /\ y.bopq = x.bopq
  BY <1>3, <1>4 DEF DentType
<1>6. y.type # "neg" => NoMarks(y) /\ OneKind(y, n) /\ Whole(y, Par(n), n)
  <2>. SUFFICES ASSUME y.type # "neg" PROVE NoMarks(y) /\ OneKind(y, n) /\ Whole(y, Par(n), n)
    OBVIOUS
  <2>1. NoMarks(x) /\ OneKind(x, n) /\ Whole(x, Par(n), n)
    BY <1>1, <1>2, <1>3, <1>5, FreshPlain
  <2>. QED BY <1>5, <2>1 DEF NoMarks, OneKind, Whole, Hd
<1>7. dentry'[n] = y /\ \A m \in Name : m # n => dentry'[m] = dentry[m]
  BY <1>1, <1>2, <1>3 DEF RefType
<1>8. n = "d" => ~Live("f") /\ ~Live("f")'
  BY <1>1, <1>2, <1>7 DEF CacheOk, Live, Name
<1>9. \A m \in Name : Live(m)' /\ m # n => Live(m)
  BY <1>7 DEF Live
<1>10. ASSUME NEW m \in Name, Live(m)' PROVE Plain(m)'
  <2>1. NoMarks(dentry'[m]) /\ OneKind(dentry'[m], m)
    BY <1>6, <1>7, <1>9, <1>10 DEF AfreshInv, Plain, Live
  <2>. QED BY <1>1, <2>1 DEF Plain, NoMarks, OneKind, Hd, TypeOn
<1>11. Live("f")' /\ dentry'["f"].gen = sigen' => dentry'["d"].gen = sigen'
  BY <1>1, <1>7, <1>8 DEF Name
<1>12. ASSUME NEW m \in Name, Live(m)', dentry'[m].gen = sigen' PROVE Whole(dentry[m], Par(m), m)'
  <2>1. Par(m)' = Par(m)
    <3>1. m = "f" => dentry'["d"] = dentry["d"]
      BY <1>7, <1>8, <1>12 DEF Name
    <3>. QED BY <1>1, <3>1, ParSame
  <2>2. Whole(dentry'[m], Par(m), m)
    BY <1>1, <1>2, <1>6, <1>7, <1>9, <1>12 DEF AfreshInv, Live
  <2>. QED BY <1>1, <2>1, <2>2 DEF Whole, TypeOn
<1>. QED BY <1>1, <1>10, <1>11, <1>12 DEF AfreshInv

LEMMA AfreshMove ==
    ASSUME RefInv, AfreshInv, HdMove
    PROVE  AfreshInv'
<1>1. /\ job.pc = "hd" /\ Misplaced
      /\ dentry' = [dentry EXCEPT ![job.n].hd =
                      IF NewIndex = -1 THEN [@ EXCEPT ![job.b] = NoPath]
                      ELSE Swap(@, job.b, NewIndex)]
      /\ job' = [job EXCEPT
                  !.bwh = Moved(d_.bwh, @), !.bopq = Moved(d_.bopq, @),
                  !.b = IF NewIndex # -1 /\ d_.hd[NewIndex] # NoPath THEN @ ELSE @ + 1]
      /\ disk' = disk /\ tab' = tab /\ sigen' = sigen
  BY DEF HdMove, branches
<1>2. job.pc \in Refreshing /\ job.pc \in HdSteps /\ RefType /\ TabOk /\ HdOk /\ LoopOk
  BY <1>1 DEF Refreshing, HdSteps, RefInv
<1>3. PICK n, x, b, k : n = job.n /\ x = d_ /\ b = job.b /\ k = NewIndex
  OBVIOUS
<1>4. /\ n \in Name /\ x \in DentType /\ x = dentry[n] /\ Live(n) /\ ParReady(n) /\ x.gen # sigen
      /\ NoMarks(x) /\ OneKind(x, n) /\ b \in Int /\ 0 <= b /\ x.hd[b] # NoPath
  <2>1. /\ n \in Name /\ x \in DentType /\ x = dentry[n] /\ Live(n) /\ ParReady(n) /\ x.gen # sigen
    BY <1>2, <1>3, InRefresh
  <2>. QED BY <1>1, <1>2, <1>3, <2>1, JobFacts DEF AfreshInv, Plain, LoopOk, Misplaced
<1>5. b \in Slot
  <2>1. b <= job.e /\ job.e \in Int /\ job.e <= MaxBr - 1
    BY <1>1, <1>2, <1>3, JobFacts, Bounds DEF Misplaced
  <2>. QED BY <1>4, <2>1, Bounds
<1>6. k = -1 \/ k \in Slot
  <2>1. x.hd[b] \in Path
    BY <1>4, <1>5 DEF DentType, HdType
  <2>2. k = FindDbIndex(n, x.hd[b])
    BY <1>3 DEF NewIndex
  <2>. QED BY <1>2, <1>4, <2>1, <2>2, FindFacts
<1>7. PICK y, h : /\ h = IF k = -1 THEN [x.hd EXCEPT ![b] = NoPath] ELSE Swap(x.hd, b, k)
                  /\ y = [x EXCEPT !.hd = h]
  OBVIOUS
<1>8. dentry' = [dentry EXCEPT ![job.n] = y]
  BY <1>1, <1>2, <1>3, <1>4, <1>7 DEF RefType
<1>9. /\ y.hd = h /\ y.cached = x.cached /\ y.type = x.type /\ y.gen = x.gen
      /\ y.bwh = x.bwh /\ y.bopq = x.bopq
  BY <1>4, <1>7 DEF DentType
<1>10. \A c \in Slot : h[c] # NoPath => \E v \in Slot : h[c] = x.hd[v]
  <2>1. x.hd \in HdType
    BY <1>4 DEF DentType
  <2>. QED BY <1>5, <1>6, <1>7, <2>1 DEF HdType, Swap
<1>11. NoMarks(y) /\ OneKind(y, n)
  <2>1. ASSUME NEW c \in Hd(y) PROVE TypeOn(y.hd[c], n) = x.type
    <3>1. PICK v \in Slot : y.hd[c] = x.hd[v] /\ x.hd[v] # NoPath
      BY <1>9, <1>10 DEF Hd
    <3>. QED BY <1>4, <3>1 DEF OneKind, Hd
  <2>. QED BY <1>4, <1>9, <2>1 DEF NoMarks, OneKind
<1>12. job'.bwh = -1 /\ job'.bopq = -1
  <2>1. d_.bwh # job.b /\ d_.bopq # job.b
    BY <1>3, <1>4 DEF NoMarks
  <2>2. Moved(d_.bwh, job.bwh) = job.bwh /\ Moved(d_.bopq, job.bopq) = job.bopq
    BY <2>1 DEF Moved
  <2>3. job'.bwh = Moved(d_.bwh, job.bwh) /\ job'.bopq = Moved(d_.bopq, job.bopq)
    BY <1>1, <1>2 DEF RefType, JobType
  <2>. QED BY <2>2, <2>3 DEF AfreshInv
<1>13. y.gen # sigen /\ OneKind(y, job.n) /\ y.cached = d_.cached /\ y.type = d_.type
  BY <1>3, <1>4, <1>9, <1>11
<1>. QED BY <1>1, <1>2, <1>8, <1>11, <1>12, <1>13, AfreshRefresh

(* A file whose first slot is the parent's first is not looked up again. *)
LEMMA AfreshRange ==
    ASSUME RefInv, AfreshInv, HdRange
    PROVE  AfreshInv'
<1>. DEFINE S == {b \in 0 .. ParEnd(job.n) : d_.hd[b] # NoPath}
            z == [d_ EXCEPT !.bwh = KeepMark(job.bwh), !.bopq = KeepMark(job.bopq),
                            !.bstart = IF S = {} THEN @ ELSE Min(S),
                            !.bend = IF S = {} THEN @ ELSE Max(S)]
            top == d_.type # "dir" /\ z.bstart = ParStart(job.n)
<1>1. /\ job.pc = "hd"
      /\ dentry' = [dentry EXCEPT ![job.n] = IF top THEN [z EXCEPT !.gen = sigen] ELSE z]
      /\ job' = [job EXCEPT !.pc = IF top THEN "hstart" ELSE "look"]
      /\ disk' = disk /\ tab' = tab /\ sigen' = sigen
  BY DEF HdRange, branches
<1>2. job.pc \in Refreshing /\ job.pc \in HdSteps /\ RefType /\ TabOk /\ HdOk
  BY <1>1 DEF Refreshing, HdSteps, RefInv
<1>3. PICK n, x, s, f, y :
        /\ n = job.n /\ x = d_
        /\ s = (IF S = {} THEN x.bstart ELSE Min(S)) /\ f = (IF S = {} THEN x.bend ELSE Max(S))
        /\ y = IF top THEN [z EXCEPT !.gen = sigen] ELSE z
  OBVIOUS
<1>4. /\ n \in Name /\ x \in DentType /\ x = dentry[n] /\ Live(n) /\ ParReady(n) /\ x.gen # sigen
      /\ NoMarks(x) /\ OneKind(x, n)
  <2>1. /\ n \in Name /\ x \in DentType /\ x = dentry[n] /\ Live(n) /\ ParReady(n) /\ x.gen # sigen
    BY <1>2, <1>3, InRefresh
  <2>. QED BY <2>1 DEF AfreshInv, Plain
<1>5. KeepMark(job.bwh) = -1 /\ KeepMark(job.bopq) = -1
  BY DEF KeepMark, AfreshInv
<1>6. z = [x EXCEPT !.bwh = -1, !.bopq = -1, !.bstart = s, !.bend = f]
  BY <1>3, <1>5
<1>7. /\ z.cached = x.cached /\ z.type = x.type /\ z.hd = x.hd /\ z.bwh = -1 /\ z.bopq = -1
      /\ z.bstart = s /\ z.gen = x.gen
      /\ [z EXCEPT !.gen = sigen].gen = sigen /\ [z EXCEPT !.gen = sigen].cached = x.cached
      /\ [z EXCEPT !.gen = sigen].type = x.type /\ [z EXCEPT !.gen = sigen].hd = x.hd
      /\ [z EXCEPT !.gen = sigen].bwh = -1 /\ [z EXCEPT !.gen = sigen].bopq = -1
      /\ [z EXCEPT !.gen = sigen].bstart = s
  BY <1>4, <1>6 DEF DentType
<1>8. top <=> x.type # "dir" /\ s = ParStart(n)
  BY <1>3, <1>7
<1>. HIDE DEF S, z, top
<1>9. /\ y.cached = x.cached /\ y.type = x.type /\ y.hd = x.hd /\ y.bwh = -1 /\ y.bopq = -1
      /\ y.bstart = s /\ (y.gen = sigen => top)
  BY <1>3, <1>4, <1>7
<1>10. NoMarks(y) /\ OneKind(y, n)
  BY <1>4, <1>9 DEF NoMarks, OneKind, Hd
<1>11. ASSUME y.gen = sigen PROVE Whole(y, Par(n), n)
  <2>1. y.type # "dir" /\ y.bstart = ParStart(n)
    BY <1>8, <1>9, <1>11
  <2>2. \A b \in Slot : Par(n)[b] # NoPath => ParStart(n) <= b
    BY <1>2, <1>4, ParFacts
  <2>. QED BY <2>1, <2>2 DEF Whole
<1>12. job'.bwh = -1 /\ job'.bopq = -1
  BY <1>1, <1>2 DEF RefType, JobType, AfreshInv
<1>13. /\ dentry' = [dentry EXCEPT ![job.n] = y] /\ y.cached = d_.cached /\ y.type = d_.type
       /\ OneKind(y, job.n) /\ (y.gen = sigen => Whole(y, Par(job.n), job.n))
  BY <1>1, <1>3, <1>9, <1>10, <1>11
<1>. QED BY <1>1, <1>2, <1>10, <1>12, <1>13, AfreshRefresh

LEMMA AfreshLkup ==
    ASSUME RefInv, AfreshInv, Unmarked(Path), HdLkup
    PROVE  AfreshInv'
<1>1. /\ job.pc = "look"
      /\ dentry' = [dentry EXCEPT ![job.n] = [LkupDentry(job.n, d_, d_.type).d EXCEPT !.gen = sigen]]
      /\ job' = [job EXCEPT !.pc = "hstart"]
      /\ disk' = disk /\ tab' = tab /\ sigen' = sigen
  BY DEF HdLkup, branches
<1>2. job.pc \in Refreshing /\ job.pc \in HdSteps /\ RefType /\ TabOk /\ HdOk /\ LoopOk /\ CacheOk
  BY <1>1 DEF Refreshing, HdSteps, RefInv
<1>3. PICK n, x, t : n = job.n /\ x = d_ /\ t = d_.type
  OBVIOUS
<1>4. /\ n \in Name /\ x \in DentType /\ x = dentry[n] /\ Live(n)
      /\ HdRec(x, Pos(n)) /\ Ranged(x) /\ ParReady(n) /\ x.type = t
      /\ n = "f" => Live("d")
  BY <1>1, <1>2, <1>3, InRefresh
<1>5. t \in {"file", "dir"} /\ \A c \in Hd(x) : x.hd[c] = Par(n)[c]
  <2>1. Placing(x, Par(n), MaxBr, MaxBr)
    BY <1>1, <1>2, <1>3 DEF LoopOk
  <2>2. \A c \in Hd(x) : c < MaxBr
    BY Bounds DEF Hd
  <2>3. t \in {"neg", "file", "dir"} /\ t # "neg"
    BY <1>3, <1>4 DEF DentType, Live
  <2>. QED BY <2>1, <2>2, <2>3 DEF Placing
<1>6. ParPlain(n) /\ NoMarks(x) /\ \A c \in Hd(x) : TypeOn(x.hd[c], n) = t
  <2>1. n = "f" => dentry["d"].type = "dir"
    BY <1>2, <1>4 DEF CacheOk, Live
  <2>. QED BY <1>4, <2>1 DEF AfreshInv, ParPlain, Plain, OneKind, Name
<1>7. PICK z, y : z = LkupDentry(n, x, t).d /\ y = [z EXCEPT !.gen = sigen]
  OBVIOUS
<1>8. LkupKept(n, x, t, z)
  BY <1>2, <1>4, <1>5, <1>7, LkupKeeps
<1>9. z \in DentType /\ SameRest(x, z) /\ Ranged(z) /\ LkupAdds(n, x, t, z)
  BY <1>8 DEF LkupKept
<1>10. LkupPlainly(n, t, z)
  BY <1>2, <1>4, <1>5, <1>6, <1>9, LkupPlain
<1>11. /\ y \in DentType /\ y.hd = z.hd /\ y.bstart = z.bstart /\ y.bwh = z.bwh /\ y.bopq = z.bopq
       /\ y.type = t /\ y.cached = x.cached
  <2>1. sigen \in Nat
    BY <1>2, Bounds DEF RefType
  <2>. QED BY <1>4, <1>7, <1>9, <2>1 DEF DentType, SameRest
<1>12. NoMarks(y) /\ OneKind(y, n) /\ Whole(y, Par(n), n)
  BY <1>4, <1>9, <1>10, <1>11, PlainlyWhole
<1>13. job'.bwh = -1 /\ job'.bopq = -1
  BY <1>1, <1>2 DEF RefType, JobType, AfreshInv
<1>14. /\ dentry' = [dentry EXCEPT ![job.n] = y] /\ y.cached = d_.cached /\ y.type = d_.type
       /\ OneKind(y, job.n) /\ Whole(y, Par(job.n), job.n)
  BY <1>1, <1>3, <1>7, <1>11, <1>12
<1>. QED BY <1>1, <1>2, <1>12, <1>13, <1>14, AfreshRefresh

(* Steps of the job that change no dentry. *)
LEMMA AfreshJob ==
    ASSUME AfreshInv, RefInv, RefInv', disk' = disk, dentry' = dentry, sigen' = sigen,
           job'.bwh = -1, job'.bopq = -1, job'.opts = 0 => job.opts = 0 /\ tab' = tab
    PROVE  AfreshInv'
<1>1. CacheOk /\ CacheOk'
  BY DEF RefInv
<1>2. \A n \in Name : SameHidden(n)
  BY DEF SameHidden, SameSlots
<1>. QED BY <1>1, <1>2, AfreshSame

LEMMA AfreshReturn ==
    ASSUME RefInv, AfreshInv, NEW ok \in BOOLEAN, Return(ok)
    PROVE  job'.bwh = -1 /\ job'.bopq = -1
<1>1. job \in JobType /\ job.bwh = -1 /\ job.bopq = -1 /\ job.ret \in {"idle", "dirs", "opts"}
  BY JobFacts DEF RefInv, RefType, AfreshInv
<1>2. Idle.bwh = -1 /\ Idle.bopq = -1
  BY DEF Idle
<1>3. \/ job' = Idle \/ job' = [job EXCEPT !.pc = "reval"]
      \/ job' = [job EXCEPT !.pc = "opts", !.opts = MaxOpt]
  <2>1. CASE job.ret = "dirs"
    BY <2>1 DEF Return
  <2>2. CASE job.ret # "dirs" /\ ok
    BY <2>2 DEF Return
  <2>3. CASE job.ret = "opts" /\ ~ok
    BY <2>3 DEF Return
  <2>4. CASE job.ret = "idle" /\ ~ok
    BY <2>4 DEF Return
  <2>. QED BY <1>1, <2>1, <2>2, <2>3, <2>4
<1>. QED BY <1>1, <1>2, <1>3 DEF JobType

LEMMA AfreshVfs ==
    ASSUME RefInv, AfreshInv, RefInv', BeginRemount \/ \E n \in Name : Release(n) \/ Walk(n) \/ Invalidate(n)
    PROVE  AfreshInv'
<1>1. RefType /\ JobOk /\ CacheOk /\ CacheOk'
  BY DEF RefInv
<1>2. job.pc \in {"idle", "shrunk"} /\ job.opts = 0 /\ disk' = disk /\ tab' = tab /\ sigen' = sigen
  <2>1. job.pc \in {"idle", "shrunk"} /\ disk' = disk /\ tab' = tab /\ sigen' = sigen
    BY DEF BeginRemount, Release, Walk, Invalidate, Inside, branches
  <2>. QED BY <1>1, <2>1 DEF JobOk
<1>3. job'.bwh = -1 /\ job'.bopq = -1
  <2>1. CASE BeginRemount
    BY <2>1 DEF BeginRemount, Idle
  <2>2. CASE \E n \in Name : Release(n) \/ Walk(n) \/ Invalidate(n)
    BY <2>2 DEF Release, Walk, Invalidate, AfreshInv
  <2>. QED BY <2>1, <2>2
<1>4. \A m \in Name : ~dentry'[m].cached \/ SameHidden(m)
  <2>. SUFFICES ASSUME NEW m \in Name PROVE ~dentry'[m].cached \/ SameHidden(m)
    OBVIOUS
  <2>1. CASE BeginRemount
    <3>1. dentry'[m] = dentry[m] \/ dentry'[m] = NoDentry
      BY <2>1 DEF BeginRemount, ShrinkAll, Name
    <3>. QED BY <3>1, NoDentryType DEF SameHidden, SameSlots
  <2>2. CASE \E n \in Name : Invalidate(n)
    BY <1>1, <2>2, NoDentryType DEF Invalidate, RefType, SameHidden, SameSlots
  <2>3. CASE \E n \in Name : Release(n) \/ Walk(n)
    <3>1. PICK n \in Name, u \in BOOLEAN : dentry' = [dentry EXCEPT ![n].use = u]
      BY <2>3 DEF Release, Walk
    <3>2. PICK x, y : x = dentry[n] /\ y = [x EXCEPT !.use = u]
      OBVIOUS
    <3>3. dentry'[n] = y /\ \A v \in Name : v # n => dentry'[v] = dentry[v]
      BY <1>1, <3>1, <3>2 DEF RefType
    <3>4. /\ y.cached = x.cached /\ y.type = x.type /\ y.hd = x.hd /\ y.gen = x.gen
          /\ y.bstart = x.bstart /\ y.bend = x.bend /\ y.bwh = x.bwh /\ y.bopq = x.bopq
      <4>1. x \in DentType
        BY <1>1, <3>2, DentFacts
      <4>. QED BY <3>2, <4>1 DEF DentType
    <3>. QED BY <3>2, <3>3, <3>4 DEF SameHidden, SameSlots
  <2>. QED BY <2>1, <2>2, <2>3
<1>. QED BY <1>1, <1>2, <1>3, <1>4, AfreshSame

LEMMA AfreshEndOpts ==
    ASSUME RefInv, AfreshInv, RefInv', EndOpts
    PROVE  AfreshInv'
<1>1. job.pc = "opts" /\ disk' = disk /\ tab' = tab /\ dentry' = dentry
  BY DEF EndOpts
<1>2. Idle.bwh = -1 /\ Idle.bopq = -1
  BY DEF Idle
<1>3. CASE job.opts = 0
  <2>1. job' = Idle /\ sigen' = sigen
    BY <1>3 DEF EndOpts
  <2>. QED BY <1>1, <1>2, <1>3, <2>1, AfreshJob
<1>4. CASE job.opts # 0
  <2>1. job' = [Idle EXCEPT !.pc = "dirs", !.ret = "dirs"] /\ sigen' = sigen + 1
    BY <1>4 DEF EndOpts
  <2>2. job'.bwh = -1 /\ job'.bopq = -1
    BY <2>1, <1>2, IdleType DEF JobType
  <2>3. RefType /\ CacheOk /\ CacheOk' /\ \A n \in Name : SameHidden(n)
    BY <1>1 DEF RefInv, SameHidden, SameSlots
  <2>4. \A n \in Name : dentry'[n].gen # sigen'
    <3>. SUFFICES ASSUME NEW n \in Name PROVE dentry'[n].gen # sigen'
      OBVIOUS
    <3>1. dentry[n].gen \in Nat /\ sigen \in Nat /\ dentry[n].gen <= sigen
      BY <2>3, DentFacts, Bounds DEF CacheOk, RefType
    <3>. QED BY <1>1, <2>1, <3>1
  <2>. QED BY <1>1, <2>2, <2>3, <2>4, AfreshSame
<1>. QED BY <1>3, <1>4

(* Steps of a refresh that leave the hidden dentries alone. *)
SameSeen(x, y) ==
    /\ y.cached = x.cached /\ y.type = x.type /\ y.hd = x.hd /\ y.gen = x.gen
    /\ y.bstart = x.bstart /\ y.bend = x.bend /\ y.bwh = x.bwh /\ y.bopq = x.bopq

LEMMA AfreshInodes ==
    ASSUME RefInv, AfreshInv, RefInv', Realloc \/ HiMove \/ HiAdopt
    PROVE  AfreshInv'
<1>1. RefType /\ CacheOk /\ CacheOk' /\ job.pc \in Refreshing
  BY DEF RefInv, Realloc, HiMove, HiAdopt, Refreshing, HdSteps, HiSteps
<1>2. job.n \in Name /\ d_ \in DentType /\ d_ = dentry[job.n] /\ Live(job.n) /\ job.opts = 0
  BY <1>1, InRefresh
<1>3. disk' = disk /\ tab' = tab /\ sigen' = sigen
  BY DEF Realloc, HiMove, HiAdopt, branches
<1>4. \E y : dentry' = [dentry EXCEPT ![job.n] = y] /\ SameSeen(d_, y)
  <2>1. CASE Realloc
    <3>1. PICK a, y : a = Max({d_.alloc, Len(tab)}) /\ y = [d_ EXCEPT !.alloc = a]
      OBVIOUS
    <3>2. dentry' = [dentry EXCEPT ![job.n] = y]
      BY <1>1, <1>2, <2>1, <3>1 DEF Realloc, RefType
    <3>3. SameSeen(d_, y)
      BY <1>2, <3>1 DEF DentType, SameSeen
    <3>. QED BY <3>2, <3>3
  <2>2. CASE HiMove /\ HiIndex = -1
    <3>1. PICK h, y : h = [d_.hi EXCEPT ![job.b] = NoInode] /\ y = [d_ EXCEPT !.hi = h]
      OBVIOUS
    <3>2. dentry' = [dentry EXCEPT ![job.n] = y]
      BY <1>2, <2>2, <3>1 DEF HiMove
    <3>3. SameSeen(d_, y)
      BY <1>2, <3>1 DEF DentType, SameSeen
    <3>. QED BY <3>2, <3>3
  <2>3. CASE HiMove /\ HiIndex # -1
    <3>1. PICK h, s, e : /\ h = Swap(d_.hi, job.b, HiIndex)
                         /\ s = Min({d_.ibstart, HiIndex}) /\ e = Max({d_.ibend, HiIndex})
      OBVIOUS
    <3>2. PICK y : y = [d_ EXCEPT !.hi = h, !.ibstart = s, !.ibend = e]
      OBVIOUS
    <3>3. dentry' = [dentry EXCEPT ![job.n] = y]
      BY <2>3, <3>1, <3>2 DEF HiMove
    <3>4. SameSeen(d_, y)
      BY <1>2, <3>2 DEF DentType, SameSeen
    <3>. QED BY <3>3, <3>4
  <2>4. CASE HiAdopt
    <3>1. \E h, s, e, g : dentry' = [dentry EXCEPT ![job.n] =
                            [d_ EXCEPT !.hi = h, !.ibstart = s, !.ibend = e, !.igen = g]]
      BY <2>4, Zenon DEF HiAdopt
    <3>2. PICK h, s, e, g : dentry' = [dentry EXCEPT ![job.n] =
                            [d_ EXCEPT !.hi = h, !.ibstart = s, !.ibend = e, !.igen = g]]
      BY <3>1
    <3>3. PICK y : y = [d_ EXCEPT !.hi = h, !.ibstart = s, !.ibend = e, !.igen = g]
      OBVIOUS
    <3>4. SameSeen(d_, y)
      BY <1>2, <3>3 DEF DentType, SameSeen
    <3>. QED BY <3>2, <3>3, <3>4
  <2>. QED BY <2>1, <2>2, <2>3, <2>4
<1>5. \A n \in Name : SameHidden(n)
  BY <1>1, <1>2, <1>4 DEF RefType, SameHidden, SameSlots, SameSeen
<1>6. job'.bwh = -1 /\ job'.bopq = -1
  <2>1. CASE Realloc
    <3>1. job'.bwh = d_.bwh /\ job'.bopq = d_.bopq
      BY <1>1, <2>1 DEF Realloc, RefType, JobType
    <3>. QED BY <1>2, <3>1 DEF AfreshInv, Plain, NoMarks
  <2>2. CASE HiMove
    BY <1>1, <2>2 DEF HiMove, RefType, JobType, AfreshInv
  <2>3. CASE HiAdopt
    <3>1. job' = [job EXCEPT !.pc = "null"] \/ Return(TRUE)
      BY <2>3, HiAdoptFacts
    <3>2. CASE job' = [job EXCEPT !.pc = "null"]
      BY <1>1, <3>2 DEF RefType, JobType, AfreshInv
    <3>. QED BY <3>1, <3>2, AfreshReturn
  <2>. QED BY <2>1, <2>2, <2>3
<1>. QED BY <1>1, <1>2, <1>3, <1>5, <1>6, AfreshSame

LEMMA AfreshNext ==
    ASSUME RefInv, RefInv', AfreshInv, Unmarked(Path), [Next]_vars
    PROVE  AfreshInv'
<1>0. /\ RefType /\ JobOk /\ job \in JobType /\ job.bwh = -1 /\ job.bopq = -1
      /\ Idle.bwh = -1 /\ Idle.bopq = -1 /\ job.opts \in Nat /\ MaxOpt \in Nat
  BY JobFacts, Bounds DEF RefInv, RefType, AfreshInv, Idle
<1>1. CASE UNCHANGED vars \/ Oops
  BY <1>0, <1>1, AfreshJob DEF Oops, vars
<1>2. CASE \E n \in Name : Lookup(n)
  BY <1>2, AfreshLookup
<1>3. CASE BeginRemount \/ \E n \in Name : Release(n) \/ Walk(n) \/ Invalidate(n)
  BY <1>3, AfreshVfs
<1>4. CASE \E b \in Slot : (\E p \in Path : BrAdd(p, b)) \/ BrDel(b) \/ BrDelBusy(b)
  <2>1. /\ job' = [job EXCEPT !.opts = @ + 1] \/ job' = [job EXCEPT !.opts = MaxOpt]
        /\ job.opts < MaxOpt /\ disk' = disk /\ dentry' = dentry /\ sigen' = sigen
    BY <1>4 DEF BrAdd, BrDel, BrDelBusy, branches
  <2>2. job'.bwh = -1 /\ job'.bopq = -1 /\ job'.opts # 0
    BY <1>0, <2>1 DEF JobType
  <2>. QED BY <2>1, <2>2, AfreshJob
<1>5. CASE LockRemount \/ (\E n \in Name : RevalForDel(n) \/ BeginReval(n)) \/ DirsRefresh
           \/ DirsFail \/ RevalStep \/ HdKeep \/ HiStart \/ HiKeep
  <2>1. disk' = disk /\ dentry' = dentry /\ sigen' = sigen /\ tab' = tab
    BY <1>5 DEF LockRemount, RevalForDel, BeginReval, DirsRefresh, DirsFail, RevalStep,
                HdKeep, HiStart, HiKeep, branches
  <2>2. job'.bwh = -1 /\ job'.bopq = -1 /\ (job'.opts = 0 => job.opts = 0)
    <3>1. CASE LockRemount \/ HdKeep \/ HiStart \/ HiKeep
      BY <1>0, <3>1 DEF LockRemount, HdKeep, HiStart, HiKeep, JobType
    <3>2. CASE \E n \in Name : RevalForDel(n)
      BY <1>0, <3>2 DEF RevalForDel, JobType
    <3>3. CASE \E n \in Name : BeginReval(n)
      <4>1. job.opts = 0
        BY <1>0, <3>3 DEF BeginReval, JobOk
      <4>. QED BY <1>0, <3>3, <4>1, IdleType DEF BeginReval, JobType
    <3>4. CASE DirsRefresh \/ DirsFail
      <4>1. job.opts = 0 /\ (job' = Idle \/ job' = [job EXCEPT !.pc = "start", !.n = "d"])
        BY <1>0, <3>4 DEF DirsRefresh, DirsFail, JobOk
      <4>. QED BY <1>0, <4>1 DEF JobType
    <3>5. CASE RevalStep
      BY <1>0, <3>5 DEF RevalStep, JobType
    <3>. QED BY <1>5, <3>1, <3>2, <3>3, <3>4, <3>5
  <2>. QED BY <2>1, <2>2, AfreshJob
<1>6. CASE EndOpts
  BY <1>6, AfreshEndOpts
<1>7. CASE Realloc \/ HiMove \/ HiAdopt
  BY <1>7, AfreshInodes
<1>8. CASE HdMove \/ HdRange \/ HdLkup
  BY <1>8, AfreshMove, AfreshRange, AfreshLkup
<1>9. CASE Fail
  <2>1. /\ job.pc \in {"start", "look", "hstart"} /\ disk' = disk /\ tab' = tab /\ sigen' = sigen
        /\ dentry' = dentry /\ Return(FALSE)
    BY <1>9 DEF Fail
  <2>2. job.opts = 0
    BY <1>0, <2>1 DEF JobOk
  <2>3. job'.bwh = -1 /\ job'.bopq = -1
    BY <2>1, AfreshReturn
  <2>. QED BY <2>1, <2>2, <2>3, AfreshJob
<1>. QED BY <1>1, <1>2, <1>3, <1>4, <1>5, <1>6, <1>7, <1>8, <1>9 DEF Next

(* Where no branch has a whiteout or an opaque mark, a refreshed dentry    *)
(* shows the branches that a new lookup of its name would show:            *)
(* au_refresh_hdentry forgets the removed branches, and lkup_dentry merges *)
(* the added ones into a directory and finds the first of a file.          *)
THEOREM AfreshInvariant ==
    ASSUME MaxOpt <= 1, ~Race
    PROVE  Spec => []SeenAfreshPlain
<1>. DEFINE I == RefInv /\ KeepInv /\ (Unmarked(Path) => AfreshInv)
<1>1. Init => I
  <2>. SUFFICES ASSUME Init PROVE I
    OBVIOUS
  <2>1. job.pc = "idle" /\ job.bwh = -1 /\ job.bopq = -1 /\ \A n \in Name : ~Live(n)
    BY NoDentryType DEF Init, Idle, Live
  <2>2. KeepInv
    BY <2>1 DEF KeepInv, InRemount, Refreshing, HdSteps, HiSteps
  <2>3. AfreshInv
    BY <2>1 DEF AfreshInv, Name
  <2>. QED BY <2>2, <2>3, RefInit
<1>2. I /\ [Next]_vars => I'
  <2>. SUFFICES ASSUME I, [Next]_vars PROVE I'
    OBVIOUS
  <2>1. RefInv'
    BY RefNext
  <2>2. KeepInv'
    BY <2>1, KeepNext
  <2>3. disk' = disk
    BY DEF Next, vars, branches, Lookup, Release, Walk, Invalidate, BeginRemount, LockRemount,
           BrAdd, BrDel, BrDelBusy, RevalForDel, BeginReval, EndOpts, DirsRefresh, DirsFail,
           RevalStep, Realloc, HdKeep, HdMove, HdRange, HdLkup, HiStart, HiKeep, HiMove,
           HiAdopt, Fail, Oops
  <2>4. Unmarked(Path)' => Unmarked(Path)
    BY <2>3 DEF Unmarked
  <2>. QED BY <2>1, <2>2, <2>4, AfreshNext
<1>3. I => SeenAfreshPlain
  BY AfreshLemma DEF SeenAfreshPlain
<1>. QED BY <1>1, <1>2, <1>3, PTL DEF Spec
=============================================================================
