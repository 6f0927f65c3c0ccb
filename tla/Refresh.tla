------------------------------ MODULE Refresh ------------------------------
(***************************************************************************)
(* Cached dentries and inodes across remounts.                             *)
(*                                                                         *)
(* A dentry of the union keeps an array of hidden dentries, one slot per   *)
(* branch, and its inode an array of hidden inodes.  A remount inserts and *)
(* removes branches, which moves the slots of the root at once; all other  *)
(* arrays keep the old slots until they are refreshed: directories at the  *)
(* end of the remount, the rest when they are next revalidated.            *)
(*                                                                         *)
(* Two names: the directory or file d in the root and the file f in d.     *)
(* The contents of the branches do not change here.                        *)
(***************************************************************************)
EXTENDS Integers, Sequences, SequencesExt

CONSTANTS
    Path,       \* branch directories
    NoPath,     \* an empty slot
    FirstTab,   \* the branches at mount time, a sequence of paths
    Kinds,      \* what a branch may hold: records [d, f]
    NoWh,       \* branches whose permission has no whiteouts
    Race,       \* may path walks come between the VFS's shrinking and the remount
    MaxBr,      \* bound: slots
    MaxRemount, \* bound: remounts
    MaxOpt,     \* bound: branch options of one remount
    MaxFail     \* bound: failing steps

Slot == 0 .. MaxBr - 1
Name == {"d", "f"}

ASSUME PathAssumption == NoPath \notin Path /\ NoWh \subseteq Path
ASSUME BoundAssumption == {MaxBr, MaxRemount, MaxOpt, MaxFail} \subseteq Nat /\ Race \in BOOLEAN
ASSUME TabAssumption  == /\ FirstTab \in Seq(Path) /\ Len(FirstTab) \in 1 .. MaxBr
                         /\ IsInjective(FirstTab) \* test_add at mount time
\* si_last_br_id, a signed char in the smallest configuration, does not wrap
ASSUME IdAssumption   == Len(FirstTab) + MaxRemount * MaxOpt <= 127
ASSUME KindAssumption == Kinds \subseteq [d : {"none", "file", "dir", "opq", "wh"},
                                          f : {"none", "file", "wh"}]

VARIABLES
    disk,   \* disk[p]: what branch p holds
    tab,    \* si_branch: a sequence of [path, id], slot b is tab[b + 1]
    lastid, \* si_last_br_id
    sigen,  \* si_generation
    failed, \* si_failed_refresh_dirs
    dentry, \* the cached dentries with their inodes
    job,    \* the remount or the revalidation in progress
    fails   \* failed steps so far

vars == <<disk, tab, lastid, sigen, failed, dentry, job, fails>>

-----------------------------------------------------------------------------
(* The hidden filesystems. *)

HasWh(p, n)  == p \notin NoWh /\ disk[p][n] = "wh"
IsOpq(p, n)  == p \notin NoWh /\ disk[p][n] = "opq"
TypeOn(p, n) == CASE disk[p][n] \in {"dir", "opq"} -> "dir"
                  [] disk[p][n] = "file" -> "file"
                  [] OTHER -> "neg"

-----------------------------------------------------------------------------
(* Arrays of slots. *)

EmptyHd == [b \in Slot |-> NoPath]
NoInode == [path |-> NoPath, id |-> 0]
EmptyHi == [b \in Slot |-> NoInode]
SBend   == Len(tab) - 1

Swap(a, b, c) == [a EXCEPT ![b] = a[c], ![c] = a[b]]
Filled(a, empty) == {b \in Slot : a[b] # empty}

NoDentry == [cached |-> FALSE, use |-> FALSE, type |-> "neg", gen |-> 0,
             hd |-> EmptyHd, bstart |-> -1, bend |-> -1, bwh |-> -1, bopq |-> -1,
             hi |-> EmptyHi, ibstart |-> -1, ibend |-> -1, igen |-> 0, alloc |-> 0]

(* The last slot that is not below a whiteout, and for a directory not     *)
(* below an opaque one.                                                    *)
DbTail(x) ==
    CASE x.bend >= 0 /\ x.bwh = 0 -> 0
      [] x.bend >= 0 /\ 0 < x.bwh /\ x.bwh < x.bend -> x.bwh - 1
      [] OTHER -> x.bend
DbTailDir(x) == IF 0 <= x.bopq /\ x.bopq < DbTail(x) THEN x.bopq ELSE DbTail(x)

(* The parent's array: the root's always is the branch table. *)
ParHd(n, b)  == CASE n = "d" /\ b <= SBend -> tab[b + 1].path
                  [] n = "f" /\ b >= dentry["d"].bstart -> dentry["d"].hd[b]
                  [] OTHER -> NoPath
ParStart(n)  == IF n = "d" THEN 0 ELSE dentry["d"].bstart
ParEnd(n)    == IF n = "d" THEN SBend ELSE dentry["d"].bend
ParTail(n)   == IF n = "d" THEN SBend ELSE DbTailDir(dentry["d"])
ParGen(n)    == IF n = "d" THEN sigen ELSE dentry["d"].gen

(* The slot of the parent that holds branch p, or -1. *)
FindDbIndex(n, p) ==
    LET S == {b \in ParStart(n) .. ParEnd(n) : ParHd(n, b) = p}
    IN  IF S = {} THEN -1 ELSE Min(S)

-----------------------------------------------------------------------------
(* lkup_dentry: fill the empty slots of dentry record x from slot start    *)
(* on; t0 is the type to look for, "any" in a first lookup.                *)

UpdateDbstart(x, n) ==
    LET P == {b \in x.bstart .. x.bend : x.hd[b] # NoPath /\ TypeOn(x.hd[b], n) # "neg"}
    IN  IF P = {} THEN x
        ELSE [x EXCEPT !.bstart = Min(P),
                       !.hd = [b \in Slot |-> IF b < Min(P) THEN NoPath ELSE x.hd[b]]]

(* The slots that are looked up: empty, in the parent's range. *)
Looked(n, x) == {b \in ParStart(n) .. ParTail(n) :
                    /\ x.hd[b] = NoPath
                    /\ ParHd(n, b) # NoPath
                    /\ n = "f" => TypeOn(ParHd(n, b), "d") = "dir"}

TypeAt(n, b) == TypeOn(ParHd(n, b), n)

Positive(n, t0, L) == {b \in L : /\ ~HasWh(ParHd(n, b), n) /\ TypeAt(n, b) # "neg"
                                 /\ t0 \in {"any", TypeAt(n, b)}}

(* The first entry decides the type. *)
WantedType(n, t0, P) == IF t0 # "any" THEN t0 ELSE IF P = {} THEN "neg" ELSE TypeAt(n, Min(P))

(* F: the slots of L with an entry of type t.  The loop ends after slot b. *)
Stop(n, x, t, L, F, b) ==
    IF b \in L
    THEN \/ x.bwh # -1 \/ HasWh(ParHd(n, b), n)
         \/ b \in F /\ (t # "dir" \/ x.bopq # -1 \/ IsOpq(ParHd(n, b), n))
    ELSE x.hd[b] # NoPath /\ t # "dir"

Visited(n, x, t, L, F) ==
    {b \in ParStart(n) .. ParTail(n) : \A c \in ParStart(n) .. b - 1 : ~Stop(n, x, t, L, F, c)}

(* New slots, whiteouts and opaque directories that were met. *)
Fill(n, x, New, Wh, Opq) ==
    [x EXCEPT
        !.hd = [b \in Slot |-> IF b \in New THEN ParHd(n, b) ELSE x.hd[b]],
        !.bend = IF New = {} THEN @ ELSE Max(New \cup {@}),
        !.bstart = IF New = {} THEN @ ELSE IF @ = -1 THEN Min(New) ELSE Min(New \cup {@}),
        !.bwh = IF Wh = {} THEN @ ELSE Min(Wh),
        !.bopq = IF Opq = {} THEN @ ELSE Max(Opq)]

LkupVisit(n, x, t0, t, L, F, V) ==
    LET Neg == {b \in V \cap L : t0 = "any" /\ TypeAt(n, b) = "neg" /\ \A c \in L : b <= c}
        y == Fill(n, x, (F \cap V) \cup Neg, {b \in L \cap V : HasWh(ParHd(n, b), n)},
                  {b \in F \cap V : IsOpq(ParHd(n, b), n)})
        \* a slot found under an old dbwh ends the loop before it is counted
        positive == \/ \E b \in V \ L : x.hd[b] # NoPath
                    \/ x.bwh = -1 /\ F \cap V # {}
    IN  IF positive THEN [d |-> UpdateDbstart(y, n), type |-> t] ELSE [d |-> y, type |-> "neg"]

(* The order in which lkup_dentry finds out: the slots, the entries, the   *)
(* type, those of that type, and where the loop ends.                      *)
LkupTyped(n, x, t0, t, L, F) == LkupVisit(n, x, t0, t, L, F, Visited(n, x, t, L, F))
LkupFound(n, x, t0, t, L, P) == LkupTyped(n, x, t0, t, L, {b \in P : TypeAt(n, b) = t})
LkupIn(n, x, t0, L, P)       == LkupFound(n, x, t0, WantedType(n, t0, P), L, P)
LkupAt(n, x, t0, L)          == LkupIn(n, x, t0, L, Positive(n, t0, L))
LkupDentry(n, x, t0)         == LkupAt(n, x, t0, Looked(n, x))

(* A new dentry and its new inode, from what lkup_dentry returned. *)
NewDentry(n, r) ==
    LET x == r.d
        tail == IF r.type = "dir" THEN DbTailDir(x) ELSE DbTail(x)
        On == {b \in x.bstart .. tail : x.hd[b] # NoPath}
    IN  IF r.type = "neg"
        THEN [x EXCEPT !.cached = TRUE, !.gen = sigen, !.alloc = Len(tab)]
        ELSE [x EXCEPT !.cached = TRUE, !.type = r.type, !.gen = sigen, !.igen = sigen,
                       !.alloc = Len(tab), !.ibstart = x.bstart, !.ibend = tail,
                       !.hi = [b \in Slot |-> IF b \in On THEN tab[b + 1] ELSE NoInode]]

Fresh(n) == NewDentry(n, LkupDentry(n, NoDentry, "any"))

-----------------------------------------------------------------------------

Idle == [pc |-> "idle", n |-> "d", goal |-> "d", ret |-> "idle", b |-> 0,
         e |-> 0, bwh |-> -1, bopq |-> -1, opts |-> 0]

Init ==
    /\ disk \in [Path -> Kinds]
    /\ tab = [i \in DOMAIN FirstTab |-> [path |-> FirstTab[i], id |-> i]]
    /\ lastid = Len(FirstTab)
    /\ sigen = 0 /\ failed = FALSE /\ fails = 0
    /\ dentry = [n \in Name |-> NoDentry]
    /\ job = Idle

Used(n) == \/ dentry[n].cached /\ dentry[n].use
           \/ n = "d" /\ dentry["f"].cached

d_ == dentry[job.n]
branches == <<disk, tab, lastid, sigen, failed>>

Inside == job.pc \notin {"idle", "shrunk"}   \* si_rwsem or the dentry is locked

-----------------------------------------------------------------------------
(* The VFS: lookups, references, shrinking. *)

(* aufs_lookup *)
Lookup(n) ==
    /\ ~Inside /\ ~dentry[n].cached /\ (job.pc = "shrunk" => Race)
    /\ n = "f" => dentry["d"].cached /\ dentry["d"].type = "dir"
                  /\ dentry["d"].gen = sigen /\ dentry["d"].igen = sigen
    /\ dentry' = [dentry EXCEPT ![n] = [Fresh(n) EXCEPT !.use = TRUE]]
    /\ UNCHANGED <<branches, job, fails>>

Release(n) ==
    /\ ~Inside /\ dentry[n].use /\ (job.pc = "shrunk" => Race)
    /\ dentry' = [dentry EXCEPT ![n].use = FALSE]
    /\ UNCHANGED <<branches, job, fails>>

(* hidden_d_revalidate with udba=reval: every hidden dentry is of the      *)
(* inode's type and is the one the inode has.                              *)
HiddenValid(n) ==
    LET x == dentry[n]
        tail == IF x.type = "dir" THEN DbTailDir(x) ELSE x.bstart
    IN  \A b \in Slot \cap (x.bstart .. tail) :
            x.hd[b] # NoPath =>
                /\ TypeOn(x.hd[b], n) = x.type
                /\ x.type # "neg" => /\ x.ibstart <= b /\ b <= x.ibend
                                     /\ x.hi[b].path = x.hd[b]

(* aufs_d_revalidate returns 1: a path walk finds the dentry. *)
Walk(n) ==
    /\ ~Inside /\ dentry[n].cached /\ ~dentry[n].use /\ (job.pc = "shrunk" => Race)
    /\ dentry[n].gen = sigen /\ HiddenValid(n)
    /\ dentry[n].type # "neg" => dentry[n].igen = sigen
    /\ dentry' = [dentry EXCEPT ![n].use = TRUE]
    /\ UNCHANGED <<branches, job, fails>>

(* aufs_d_revalidate returns 0: the VFS drops a dentry, but not a          *)
(* directory in use.                                                       *)
Invalidate(n) ==
    /\ ~Inside /\ dentry[n].cached /\ dentry[n].gen = sigen /\ (job.pc = "shrunk" => Race)
    /\ dentry[n].type # "neg" => dentry[n].igen # sigen \/ ~HiddenValid(n)
    /\ dentry[n].type = "neg" => ~HiddenValid(n)
    /\ n = "d" => ~Used("d")
    /\ dentry' = [dentry EXCEPT ![n] = NoDentry]
    /\ UNCHANGED <<branches, job, fails>>

(* do_remount_sb of the VFS discards what nobody uses; aufs_remount_fs     *)
(* takes its lock only later.                                              *)
ShrinkAll == [n \in Name |->
    IF n = "f" THEN IF dentry["f"].use THEN dentry["f"] ELSE NoDentry
    ELSE IF dentry["d"].use \/ dentry["f"].use THEN dentry["d"] ELSE NoDentry]

BeginRemount ==
    /\ job.pc = "idle" /\ sigen < MaxRemount
    /\ dentry' = ShrinkAll
    /\ job' = [Idle EXCEPT !.pc = "shrunk"]
    /\ UNCHANGED <<branches, fails>>

LockRemount ==
    /\ job.pc = "shrunk"
    /\ job' = [job EXCEPT !.pc = "opts"]
    /\ UNCHANGED <<branches, dentry, fails>>

-----------------------------------------------------------------------------
(* The branch options. *)

OnTab(p) == \E i \in DOMAIN tab : tab[i].path = p

BrAddUntested(p, b) == \* mutant: test_add is left out
    /\ job.pc = "opts" /\ job.opts < MaxOpt
    /\ tab' = InsertAt(tab, b + 1, [path |-> p, id |-> lastid + 1])
    /\ lastid' = lastid + 1
    /\ job' = [job EXCEPT !.opts = @ + 1]
    /\ UNCHANGED <<disk, sigen, failed, dentry, fails>>

BrAdd(p, b) ==
    /\ job.pc = "opts" /\ job.opts < MaxOpt
    /\ ~OnTab(p) /\ Len(tab) < MaxBr
    /\ tab' = InsertAt(tab, b + 1, [path |-> p, id |-> lastid + 1])
    /\ lastid' = lastid + 1
    /\ job' = [job EXCEPT !.opts = @ + 1]
    /\ UNCHANGED <<disk, sigen, failed, dentry, fails>>

Stale(n) == Used(n) /\ dentry[n].type # "neg" /\ dentry[n].gen # sigen

BusyNonDir(n, b) == \* mutant: directories are taken as not busy
    /\ Used(n) /\ dentry[n].type = "file" /\ dentry[n].bstart <= b
    /\ b < dentry[n].alloc => dentry[n].hd[b] # NoPath

(* test_children_busy reads slot b of every dentry in use; past the end of *)
(* the array it reads whatever is there.                                   *)
Busy(n, b) ==
    LET x == dentry[n]
    IN  /\ Used(n) /\ x.type # "neg" /\ x.bstart <= b
        /\ b < x.alloc => x.hd[b] # NoPath
        /\ x.type # "dir" \/ x.bstart = x.bend

BrDel(b) ==
    /\ job.pc = "opts" /\ job.opts < MaxOpt /\ Len(tab) > 1
    /\ ~Stale("d") /\ ~Stale("f")
    /\ \A n \in Name : Busy(n, b) => b >= dentry[n].alloc
    /\ tab' = RemoveAt(tab, b + 1)
    /\ job' = [job EXCEPT !.opts = @ + 1]
    /\ UNCHANGED <<disk, lastid, sigen, failed, dentry, fails>>

(* EBUSY ends the options. *)
BrDelBusy(b) ==
    /\ job.pc = "opts" /\ job.opts < MaxOpt /\ Len(tab) > 1
    /\ ~Stale("d") /\ ~Stale("f")
    /\ \E n \in Name : Busy(n, b)
    /\ job' = [job EXCEPT !.opts = MaxOpt]
    /\ UNCHANGED <<branches, dentry, fails>>

(* A dentry that an earlier remount left stale is refreshed first, with    *)
(* the generation of before this remount.                                  *)
RevalForDel(n) ==
    /\ job.pc = "opts" /\ job.opts < MaxOpt /\ Stale(n)
    /\ job' = [job EXCEPT !.pc = "reval", !.goal = n, !.ret = "opts"]
    /\ UNCHANGED <<branches, dentry, fails>>

EndOpts ==
    /\ job.pc = "opts"
    /\ IF job.opts = 0 THEN /\ job' = Idle
                            /\ UNCHANGED <<sigen, failed>>
       ELSE /\ job' = [Idle EXCEPT !.pc = "dirs", !.ret = "dirs"]
            /\ sigen' = sigen + 1
            /\ failed' = FALSE
    /\ UNCHANGED <<disk, tab, lastid, dentry, fails>>

(* refresh_dir: the directories in use, from the root down. *)
DirsRefresh ==
    /\ job.pc = "dirs"
    /\ IF Stale("d") /\ dentry["d"].type = "dir"
       THEN job' = [job EXCEPT !.pc = "start", !.n = "d"]
       ELSE job' = Idle
    /\ UNCHANGED <<branches, dentry, fails>>

DirsFail ==
    /\ job.pc = "dirs" /\ fails < MaxFail
    /\ fails' = fails + 1
    /\ failed' = TRUE
    /\ job' = Idle
    /\ UNCHANGED <<disk, tab, lastid, sigen, dentry>>

-----------------------------------------------------------------------------
(* au_reval_dpath: by aufs_d_revalidate, by an operation on an open file.  *)

BeginReval(n) ==
    /\ job.pc = "idle" /\ dentry[n].cached /\ dentry[n].gen # sigen
    /\ job' = [Idle EXCEPT !.pc = IF dentry[n].type = "neg" THEN "oops" ELSE "reval",
                           !.goal = n, !.ret = "idle"]
    /\ UNCHANGED <<branches, dentry, fails>>

RevalSimple == \* mutant: the slow loop over the stale parents is left out
    /\ job.pc = "reval"
    /\ job' = IF dentry[job.goal].gen = sigen THEN [job EXCEPT !.pc = job.ret]
              ELSE [job EXCEPT !.pc = "start", !.n = job.goal]
    /\ UNCHANGED <<branches, dentry, fails>>

RevalStep ==
    /\ job.pc = "reval"
    /\ LET g == job.goal
           n == IF failed /\ ParGen(g) # sigen THEN "d" ELSE g
       IN  job' = IF dentry[g].gen = sigen
                  THEN [job EXCEPT !.pc = job.ret]
                  ELSE [job EXCEPT !.pc = "start", !.n = n]
    /\ UNCHANGED <<branches, dentry, fails>>

(* Where the refresh of one dentry returns to. *)
Return(ok) ==
    /\ failed' = (failed \/ (job.ret = "dirs" /\ ~ok))
    /\ job' = CASE job.ret = "dirs" -> Idle
                [] job.ret # "dirs" /\ ok -> [job EXCEPT !.pc = "reval"]
                [] job.ret = "opts" /\ ~ok -> [job EXCEPT !.pc = "opts", !.opts = MaxOpt]
                [] OTHER -> Idle

Fail ==
    /\ job.pc \in {"start", "look", "hstart"} /\ fails < MaxFail
    /\ fails' = fails + 1
    /\ Return(FALSE)
    /\ UNCHANGED <<disk, tab, lastid, sigen, dentry>>

-----------------------------------------------------------------------------
(* au_refresh_hdentry. *)

Realloc ==
    /\ job.pc = "start"
    /\ job' = [job EXCEPT !.pc = "hd", !.b = d_.bstart, !.e = d_.bend,
                          !.bwh = d_.bwh, !.bopq = d_.bopq]
    /\ dentry' = [dentry EXCEPT ![job.n].alloc = Max({@, Len(tab)})]
    /\ UNCHANGED <<branches, fails>>

Misplaced == job.b <= job.e /\ d_.hd[job.b] # NoPath /\ d_.hd[job.b] # ParHd(job.n, job.b)
NewIndex  == FindDbIndex(job.n, d_.hd[job.b])
Moved(old, cur) == IF old = job.b THEN NewIndex ELSE cur

HdKeep ==
    /\ job.pc = "hd" /\ job.b <= job.e /\ ~Misplaced
    /\ job' = [job EXCEPT !.b = @ + 1]
    /\ UNCHANGED <<branches, dentry, fails>>

HdMoveForward == \* mutant: the swapped-in dentry is not looked at again
    /\ job.pc = "hd" /\ Misplaced
    /\ dentry' = [dentry EXCEPT ![job.n].hd =
                    IF NewIndex = -1 THEN [@ EXCEPT ![job.b] = NoPath]
                    ELSE Swap(@, job.b, NewIndex)]
    /\ job' = [job EXCEPT !.b = @ + 1]
    /\ UNCHANGED <<branches, fails>>

HdMoveCopy == \* mutant: the swap loses the hidden dentry that is moved
    /\ job.pc = "hd" /\ Misplaced
    /\ dentry' = [dentry EXCEPT ![job.n].hd =
                    [@ EXCEPT ![job.b] = IF NewIndex = -1 THEN NoPath ELSE d_.hd[NewIndex]]]
    /\ job' = [job EXCEPT !.b = IF NewIndex # -1 /\ d_.hd[NewIndex] # NoPath THEN @ ELSE @ + 1]
    /\ UNCHANGED <<branches, fails>>

(* A misplaced hidden dentry goes to the slot of its parent; the one that  *)
(* was there is looked at next.                                            *)
HdMove ==
    /\ job.pc = "hd" /\ Misplaced
    /\ dentry' = [dentry EXCEPT ![job.n].hd =
                    IF NewIndex = -1 THEN [@ EXCEPT ![job.b] = NoPath]
                    ELSE Swap(@, job.b, NewIndex)]
    /\ job' = [job EXCEPT
                !.bwh = Moved(d_.bwh, @), !.bopq = Moved(d_.bopq, @),
                !.b = IF NewIndex # -1 /\ d_.hd[NewIndex] # NoPath THEN @ ELSE @ + 1]
    /\ UNCHANGED <<branches, fails>>

KeepMark(b) == IF b # -1 /\ b <= SBend /\ tab[b + 1].path \notin NoWh THEN b ELSE -1

HdRangeTop == \* mutant: a directory in the first slot is not looked up again
    /\ job.pc = "hd" /\ job.b > job.e
    /\ LET S == {b \in 0 .. ParEnd(job.n) : d_.hd[b] # NoPath}
           x == [d_ EXCEPT !.bwh = KeepMark(job.bwh), !.bopq = KeepMark(job.bopq),
                           !.bstart = IF S = {} THEN @ ELSE Min(S),
                           !.bend = IF S = {} THEN @ ELSE Max(S)]
           top == x.bstart = ParStart(job.n)
       IN  /\ dentry' = [dentry EXCEPT ![job.n] = IF top THEN [x EXCEPT !.gen = sigen] ELSE x]
           /\ job' = [job EXCEPT !.pc = IF top THEN "hstart" ELSE "look"]
    /\ UNCHANGED <<branches, fails>>

HdRange ==
    /\ job.pc = "hd" /\ job.b > job.e
    /\ LET S == {b \in 0 .. ParEnd(job.n) : d_.hd[b] # NoPath}
           x == [d_ EXCEPT !.bwh = KeepMark(job.bwh), !.bopq = KeepMark(job.bopq),
                           !.bstart = IF S = {} THEN @ ELSE Min(S),
                           !.bend = IF S = {} THEN @ ELSE Max(S)]
           top == d_.type # "dir" /\ x.bstart = ParStart(job.n)
       IN  /\ dentry' = [dentry EXCEPT ![job.n] = IF top THEN [x EXCEPT !.gen = sigen] ELSE x]
           /\ job' = [job EXCEPT !.pc = IF top THEN "hstart" ELSE "look"]
    /\ UNCHANGED <<branches, fails>>

HdLkup ==
    /\ job.pc = "look"
    /\ dentry' = [dentry EXCEPT ![job.n] =
                    [LkupDentry(job.n, d_, d_.type).d EXCEPT !.gen = sigen]]
    /\ job' = [job EXCEPT !.pc = "hstart"]
    /\ UNCHANGED <<branches, fails>>

-----------------------------------------------------------------------------
(* au_refresh_hinode. *)

FindBrIndex(id) ==
    LET S == {i \in DOMAIN tab : tab[i].id = id} IN IF S = {} THEN -1 ELSE Min(S) - 1

HiStart ==
    /\ job.pc = "hstart"
    /\ job' = [job EXCEPT !.pc = "hi", !.b = d_.ibstart]
    /\ UNCHANGED <<branches, dentry, fails>>

HiIndex == FindBrIndex(d_.hi[job.b].id)

HiKeep ==
    /\ job.pc = "hi" /\ job.b <= d_.ibend
    /\ d_.hi[job.b] = NoInode \/ HiIndex = job.b
    /\ job' = [job EXCEPT !.b = @ + 1]
    /\ UNCHANGED <<branches, dentry, fails>>

HiMove ==
    /\ job.pc = "hi" /\ job.b <= d_.ibend
    /\ d_.hi[job.b] # NoInode /\ HiIndex # job.b
    /\ dentry' = [dentry EXCEPT ![job.n] =
            IF HiIndex = -1 THEN [d_ EXCEPT !.hi[job.b] = NoInode]
            ELSE [d_ EXCEPT !.hi = Swap(d_.hi, job.b, HiIndex),
                            !.ibstart = Min({d_.ibstart, HiIndex}),
                            !.ibend = Max({d_.ibend, HiIndex})]]
    /\ job' = [job EXCEPT !.b = IF HiIndex # -1 /\ d_.hi[HiIndex] # NoInode THEN @ ELSE @ + 1]
    /\ UNCHANGED <<branches, fails>>

(* Mutant: hidden inodes of new hidden dentries are not added. *)
HiAdoptNone ==
    /\ job.pc = "hi" /\ job.b > d_.ibend
    /\ dentry' = [dentry EXCEPT ![job.n].igen = sigen]
    /\ Return(TRUE)
    /\ UNCHANGED <<disk, tab, lastid, sigen, fails>>

(* Add what the dentry has and the inode has not, and set the range.  An   *)
(* inode that differs from the dentry's is ESTALE.                         *)
HiAdopt ==
    /\ job.pc = "hi" /\ job.b > d_.ibend
    /\ LET Own == {b \in d_.bstart .. d_.bend :
                    d_.hd[b] # NoPath /\ TypeOn(d_.hd[b], job.n) # "neg"}
           Bad == {b \in Own : d_.hi[b] # NoInode /\ d_.hi[b].path # d_.hd[b]}
           New == {b \in Own : d_.hi[b] = NoInode /\ \A c \in Bad : b < c}
           hi == [b \in Slot |-> IF b \in New THEN [path |-> d_.hd[b], id |-> tab[b + 1].id]
                                 ELSE d_.hi[b]]
           bend == Max(New \cup {d_.ibend})
           S == {b \in 0 .. bend : hi[b] # NoInode}
       IN  /\ dentry' = [dentry EXCEPT ![job.n] =
                [d_ EXCEPT !.hi = hi,
                           !.ibstart = IF S = {} THEN Min(New \cup {d_.ibstart}) ELSE Min(S),
                           \* the loop stops above ii_bstart
                           !.ibend = IF Cardinality(S) < 2 THEN bend ELSE Max(S),
                           !.igen = IF Bad = {} THEN sigen ELSE d_.igen]]
           \* au_cpup_attr_all reads the first hidden inode
           /\ IF S = {} THEN job' = [job EXCEPT !.pc = "null"] /\ UNCHANGED failed
              ELSE Return(Bad = {})
    /\ UNCHANGED <<disk, tab, lastid, sigen, fails>>

-----------------------------------------------------------------------------

Oops == job.pc \in {"oops", "null"} /\ UNCHANGED vars

Next ==
    \/ \E n \in Name : Lookup(n) \/ Release(n) \/ Walk(n) \/ Invalidate(n)
    \/ BeginRemount \/ LockRemount
    \/ \E b \in Slot : \/ b <= Len(tab) /\ \E p \in Path : BrAdd(p, b)
                       \/ b < Len(tab) /\ (BrDel(b) \/ BrDelBusy(b))
    \/ \E n \in Name : RevalForDel(n) \/ BeginReval(n)
    \/ EndOpts \/ DirsRefresh \/ DirsFail \/ RevalStep
    \/ Realloc \/ HdKeep \/ HdMove \/ HdRange \/ HdLkup
    \/ HiStart \/ HiKeep \/ HiMove \/ HiAdopt \/ Fail \/ Oops

Spec == Init /\ [][Next]_vars

-----------------------------------------------------------------------------
(* Properties. *)

TypeOK ==
    /\ disk \in [Path -> Kinds]
    /\ tab \in Seq([path : Path, id : 1 .. lastid]) /\ Len(tab) \in 1 .. MaxBr
    /\ IsInjective([i \in DOMAIN tab |-> tab[i].path])
    /\ sigen \in 0 .. MaxRemount /\ failed \in BOOLEAN /\ fails \in 0 .. MaxFail
    /\ \A n \in Name : /\ dentry[n].hd \in [Slot -> Path \cup {NoPath}]
                       /\ dentry[n].gen <= sigen /\ dentry[n].igen <= sigen
                       /\ {dentry[n].bstart, dentry[n].bend, dentry[n].bwh, dentry[n].bopq,
                           dentry[n].ibstart, dentry[n].ibend} \subseteq -1 .. MaxBr - 1

(* A positive dentry that au_refresh_hdentry and au_refresh_hinode (or a   *)
(* lookup) have brought to the current generation.                         *)
Current(n) == /\ ~Inside /\ dentry[n].cached /\ dentry[n].type # "neg"
              /\ dentry[n].gen = sigen /\ dentry[n].igen = sigen

(* After any sequence of insertions, removals and moves of branches, every *)
(* hidden dentry and hidden inode of a refreshed dentry is in the slot of  *)
(* its own branch, inside the range dbstart..dbend or ibstart..ibend       *)
(* (the swap loops of au_refresh_hdentry and au_refresh_hinode).           *)
SlotsRight ==
    \A n \in Name : Current(n) =>
        /\ \A b \in Filled(dentry[n].hd, NoPath) :
              /\ b <= SBend /\ dentry[n].hd[b] = tab[b + 1].path
              /\ dentry[n].bstart <= b /\ b <= dentry[n].bend
        /\ \A b \in Filled(dentry[n].hi, NoInode) :
              /\ b <= SBend /\ dentry[n].hi[b] = tab[b + 1]
              /\ dentry[n].ibstart <= b /\ b <= dentry[n].ibend

(* The inode of a refreshed dentry has exactly the hidden inodes of the    *)
(* positive hidden dentries (the second loop of au_refresh_hinode).        *)
InodeMatches ==
    \A n \in Name : Current(n) =>
        {dentry[n].hd[b] : b \in Filled(dentry[n].hd, NoPath)}
          = {dentry[n].hi[b].path : b \in Filled(dentry[n].hi, NoInode)}

(* The branches a process sees through dentry record x. *)
Seen(x) ==
    LET tail == IF x.type = "dir" THEN DbTailDir(x) ELSE x.bstart
    IN  {x.hd[b] : b \in Slot \cap (x.bstart .. tail)} \ {NoPath}

(* A refreshed dentry shows what a new lookup of the same name would show, *)
(* as long as the name still has the same type there.                      *)
SeenAfresh ==
    \A n \in Name : (Current(n) /\ (n = "f" => Current("d"))) =>
        LET x == Fresh(n) IN x.type = dentry[n].type => Seen(dentry[n]) = Seen(x)

Unmarked(P) == \A p \in P, n \in Name : disk[p][n] \notin {"wh", "opq"}

(* SeenAfresh where no branch has a whiteout or an opaque mark: the        *)
(* refresh merges the added branches and forgets the removed ones.         *)
SeenAfreshPlain == Unmarked(Path) => SeenAfresh

(* SeenAfresh where the added branches have no whiteouts; aufs(5) says of  *)
(* those that "they may or may not hide the lower entries".                *)
SeenAfreshMarked == Unmarked({p \in Path : \A i \in DOMAIN FirstTab : FirstTab[i] # p}) => SeenAfresh

(* A cached dentry keeps at least one branch, and its inode one hidden     *)
(* inode: br_del refuses the last branch of a dentry in use                *)
(* (test_children_busy).                                                   *)
LastBranchStays == job.pc # "null"

(* A dentry is never refreshed against a parent that is itself stale (the  *)
(* DEBUG_ONs on the generation of the parent).                             *)
ParentFirst == job.pc \in {"hd", "look"} => ParGen(job.n) = sigen

(* aufs_d_revalidate refreshes positive dentries only: DEBUG_ON(!inode).   *)
PositiveRefreshed == job.pc # "oops"

(* The swap loops end: a step either goes on to the next slot or brings    *)
(* one more hidden dentry (hidden inode) to the slot of its branch, so the *)
(* same slot is looked at again at most once for every branch.             *)
Placed(pc, n) ==
    IF pc = "hd" THEN {b \in Filled(dentry[n].hd, NoPath) : dentry[n].hd[b] = ParHd(n, b)}
    ELSE {b \in Filled(dentry[n].hi, NoInode) : FindBrIndex(dentry[n].hi[b].id) = b}

SwapProgress ==
    [][job.pc \in {"hd", "hi"} /\ job'.pc = job.pc =>
          \/ job'.b > job.b
          \/ Cardinality(Placed(job.pc, job.n)') > Cardinality(Placed(job.pc, job.n))]_vars
=============================================================================
