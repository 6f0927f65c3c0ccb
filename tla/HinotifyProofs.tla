--------------------------- MODULE HinotifyProofs ---------------------------
(***************************************************************************)
(* The safety of udba=inotify in Hinotify, for any files, processes and    *)
(* number of direct changes.                                               *)
(***************************************************************************)
EXTENDS Hinotify, FiniteSetTheorems, TLAPS

PcType == [op : {"idle", "lookup", "own", "readdir"}, n : Name \cup {Root, None},
           step : 0 .. 2, acc : DentryType \cup {None, "good", "stale"}]

(* What the step of a process knows of its arguments. *)
PcOK ==
    /\ pc \in [Proc -> PcType]
    /\ \A t \in Proc : /\ pc[t].op = "lookup" => pc[t].n \in Name
                       /\ pc[t].op = "own" => pc[t].n \in File
                       /\ pc[t].op = "readdir" => /\ pc[t].n \in Dir
                                                  /\ pc[t].acc \in {"good", "stale"}

(* A process in a call holds the i_mutex of its directory. *)
DirOf(t) == IF pc[t].op = "readdir" THEN pc[t].n ELSE Parent[pc[t].n]
LockOK   == \A t \in Proc : pc[t].op # "idle" => ilock[DirOf(t)] = t

(* Every hidden directory that a lookup can read is watched, but for the   *)
(* time in which aufs itself holds it.                                     *)
WatchOK ==
    /\ \A b \in Branch : mask[b][Root] # "none"
    /\ Cached(Sub) => \A b \in there : b \in dent[Sub].at /\ mask[b][Sub] # "none"

(* The subdirectory stays in the cache as long as something below it is    *)
(* there or in use.                                                        *)
SubHeld ==
    /\ ilock[Sub] # None => Cached(Sub)
    /\ \A n \in File : dent[n] # None /\ Parent[n] = Sub => Cached(Sub)

(* The directory of file n has not been marked by the handler. *)
Trusted(n) == Parent[n] = Sub => dent[Sub].reval = 0

(* A lookup in progress: its dentry is in the hands of its process, and as *)
(* long as no mark came it agrees with the branches that were visited.     *)
LookupAt(t) ==
    LET n == pc[t].n
        d == dent[n]
    IN  /\ d # None /\ ~d.hashed
        /\ n = Sub => \A b \in there : b < pc[t].step => b \in d.at
        /\ n \in File /\ d.reval = 0 /\ Trusted(n) =>
            /\ pc[t].step < 2 => d.obj = None
            /\ pc[t].step = 1 /\ IsThere(0, Parent[n]) => h[0][n] = None /\ n \notin wh
            /\ pc[t].step = 2 => d.obj = View(n)

LookupOK == \A t \in Proc : pc[t].op = "lookup" => LookupAt(t)

(* A process that changes a file of the subdirectory found it on branch 0. *)
OwnOK ==
    \A t \in Proc : pc[t].op = "own" /\ Trusted(pc[t].n) => IsThere(0, Parent[pc[t].n])

(* A dentry without mark shows what the branches hold, whatever its hidden *)
(* dentries are.                                                           *)
Shown ==
    \A n \in File : Cached(n) /\ dent[n].reval = 0 /\ Trusted(n) => dent[n].obj = View(n)

(* No event of the kind IN_MOVE_SELF comes from the root. *)
RootQueue == queue[Root][TRUE] = 0

HInv == /\ TypeOK /\ PcOK /\ LockOK /\ WatchOK /\ SubHeld
        /\ LookupOK /\ OwnOK /\ Shown /\ RootQueue

-----------------------------------------------------------------------------
LEMMA DirFacts ==
    /\ Root # Sub /\ Root \notin Name /\ Sub \in Name /\ Dir = {Root, Sub} /\ \A n \in Name : Parent[n] \in Dir
    /\ \A n \in File : n \in Name /\ n # Sub /\ n # Root
    /\ Parent[Sub] = Root
    /\ \A t \in Proc : t # None
BY HinotifyAssumption DEF Dir, Name

(* The handler only sets marks. *)
LEMMA DentOfFacts ==
    ASSUME TypeOK, NEW Ev
    PROVE  /\ DentOf(Ev) \in [Name -> DentryType \cup {None}]
           /\ \A n \in Name :
                /\ DentOf(Ev)[n] = None <=> dent[n] = None
                /\ dent[n] # None => /\ DentOf(Ev)[n].at = dent[n].at
                                     /\ DentOf(Ev)[n].obj = dent[n].obj
                                     /\ DentOf(Ev)[n].hashed = dent[n].hashed
                                     /\ DentOf(Ev)[n].reval = 0 =>
                                            dent[n].reval = 0 /\ n \notin Reval(Ev)
<1>. USE HinotifyAssumption
<1>1. dent \in [Name -> DentryType \cup {None}]
  BY DEF TypeOK
<1>2. ASSUME NEW n \in Name, dent[n] # None
      PROVE  LET e == [dent[n] EXCEPT !.reval = 1]
             IN  /\ e \in DentryType /\ e # None /\ e.at = dent[n].at /\ e.obj = dent[n].obj
                 /\ e.hashed = dent[n].hashed /\ e.reval = 1
  <2>1. dent[n] \in DentryType
    BY <1>1, <1>2
  <2>2. [dent[n] EXCEPT !.reval = 1] \in DentryType
    BY <2>1 DEF DentryType
  <2>. QED BY <2>1, <2>2 DEF DentryType
<1>. DEFINE e(n) == [dent[n] EXCEPT !.reval = 1]
<1>3. \A n \in Name : DentOf(Ev)[n] = IF n \in Reval(Ev) /\ dent[n] # None THEN e(n) ELSE dent[n]
  BY DEF DentOf
<1>4. \A n \in Name : dent[n] # None =>
            /\ e(n) \in DentryType /\ e(n) # None /\ e(n).at = dent[n].at
            /\ e(n).obj = dent[n].obj /\ e(n).hashed = dent[n].hashed /\ e(n).reval = 1
  BY <1>2
<1>. HIDE DEF e
<1>5. \A n \in Name : DentOf(Ev)[n] \in DentryType \cup {None}
  BY <1>1, <1>3, <1>4
<1>6. DentOf(Ev) \in [Name -> DentryType \cup {None}]
  BY <1>5 DEF DentOf
<1>. QED BY <1>3, <1>4, <1>6

(* The handler only adds to the queue, and for every event it delivers. *)
LEMMA QueueOfFacts ==
    ASSUME TypeOK, RootQueue, NEW Ev, IsFiniteSet(Ev),
           \A e \in Ev : e.self \in BOOLEAN /\ e.name # Root /\ (e.dir = Root => e.self = FALSE)
    PROVE  /\ QueueOf(Ev) \in [Dir -> [BOOLEAN -> Nat]]
           /\ \A p \in Dir, s \in BOOLEAN : QueueOf(Ev)[p][s] >= queue[p][s]
           /\ \A e \in Hit(Ev) : e.dir \in Dir => QueueOf(Ev)[e.dir][e.self] > 0
           /\ QueueOf(Ev)[Root][TRUE] = 0
<1>. DEFINE E(p, s) == {e \in Hit(Ev) : e.dir = p /\ e.self = s}
<1>0. queue \in [Dir -> [BOOLEAN -> Nat]] /\ Root \in Dir
  BY DEF TypeOK, Dir
<1>1. \A p \in Dir, s \in BOOLEAN : IsFiniteSet(E(p, s)) /\ Cardinality(E(p, s)) \in Nat
  <2>. TAKE p \in Dir, s \in BOOLEAN
  <2>1. E(p, s) \in SUBSET Ev
    BY DEF Hit
  <2>. HIDE DEF E
  <2>2. IsFiniteSet(E(p, s))
    BY <2>1, FS_Subset
  <2>. QED BY <2>2, FS_CardinalityType
<1>2. \A p \in Dir, s \in BOOLEAN : QueueOf(Ev)[p][s] = queue[p][s] + Cardinality(E(p, s))
  BY DEF QueueOf
<1>3. QueueOf(Ev) = [p \in Dir |-> [s \in BOOLEAN |-> queue[p][s] + Cardinality(E(p, s))]]
  BY DEF QueueOf
<1>4. E(Root, TRUE) = {}
  BY DEF Hit
<1>5. \A e \in Hit(Ev) : e.dir \in Dir => Cardinality(E(e.dir, e.self)) # 0
  <2>1. ASSUME NEW e \in Hit(Ev), e.dir \in Dir PROVE Cardinality(E(e.dir, e.self)) # 0
    <3>1. e.self \in BOOLEAN /\ E(e.dir, e.self) # {}
      BY DEF Hit
    <3>. HIDE DEF E
    <3>. QED BY <1>1, <2>1, <3>1, FS_EmptySet
  <2>. QED BY <2>1
<1>. HIDE DEF E
<1>6. QueueOf(Ev) \in [Dir -> [BOOLEAN -> Nat]]
  BY <1>0, <1>1, <1>3
<1>8. QueueOf(Ev)[Root][TRUE] = 0
  <2>. DEFINE now == QueueOf(Ev)[Root][TRUE]
              old == queue[Root][TRUE]
              new == Cardinality(E(Root, TRUE))
  <2>1. new = 0
    BY <1>4, FS_EmptySet
  <2>2. now = old + new /\ old = 0
    BY <1>0, <1>2, Zenon DEF RootQueue
  <2>. HIDE DEF now, old, new
  <2>3. now = 0
    BY <2>1, <2>2
  <2>. QED BY <2>3, Zenon DEF now
<1>7. \A p \in Dir, s \in BOOLEAN : QueueOf(Ev)[p][s] >= queue[p][s]
  BY <1>0, <1>1, <1>2
<1>9. \A e \in Hit(Ev) : e.dir \in Dir => QueueOf(Ev)[e.dir][e.self] > 0
  <2>1. ASSUME NEW e \in Hit(Ev), e.dir \in Dir PROVE QueueOf(Ev)[e.dir][e.self] > 0
    <3>. DEFINE now == QueueOf(Ev)[e.dir][e.self]
                old == queue[e.dir][e.self]
                new == Cardinality(E(e.dir, e.self))
    <3>0. e.self \in BOOLEAN
      BY DEF Hit
    <3>1. now = old + new
      BY <1>2, <2>1, <3>0, Zenon
    <3>2. old \in Nat /\ new \in Nat /\ new # 0
      BY <1>0, <1>1, <1>5, <2>1, <3>0, Zenon
    <3>. HIDE DEF now, old, new
    <3>3. now > 0
      BY <3>1, <3>2
    <3>. QED BY <3>3, Zenon DEF now
  <2>. QED BY <2>1
<1>. QED BY <1>6, <1>7, <1>8, <1>9

-----------------------------------------------------------------------------
(* Direct changes of a branch.  What they change is marked. *)

LEMMA ForeignInv ==
    ASSUME HInv, NEW Ev, IsFiniteSet(Ev),
           \A e \in Ev : e.self \in BOOLEAN /\ e.name # Root /\ (e.dir = Root => e.self = FALSE),
           Handle(Ev),
           h' \in [Branch -> [File -> Obj \cup {None}]], there' \subseteq there,
           there' # there => Sub \in Reval(Ev),
           \A n \in File : dent[n] # None /\ n \notin Reval(Ev) =>
                \A b \in Branch : h'[b][n] = h[b][n],
           vdir' \in [Dir -> {"none", "good", "stale"}],
           pc' \in [Proc -> PcType],
           \A t \in Proc : /\ pc'[t].op = pc[t].op /\ pc'[t].n = pc[t].n
                           /\ pc'[t].step = pc[t].step
                           /\ pc[t].op = "readdir" => pc'[t].acc \in {"good", "stale"},
           UNCHANGED <<wh, mask, ilock, hlock>>
    PROVE  HInv'
<1>. USE DirFacts
<1>0. /\ TypeOK /\ PcOK /\ LockOK /\ WatchOK /\ SubHeld
      /\ LookupOK /\ OwnOK /\ Shown /\ RootQueue
  BY DEF HInv
<1>1. /\ dent' \in [Name -> DentryType \cup {None}]
      /\ \A n \in Name :
                /\ dent'[n] = None <=> dent[n] = None
                /\ dent[n] # None => /\ dent'[n].at = dent[n].at
                                     /\ dent'[n].obj = dent[n].obj
                                     /\ dent'[n].hashed = dent[n].hashed
                                     /\ dent'[n].reval = 0 =>
                                            dent[n].reval = 0 /\ n \notin Reval(Ev)
  BY <1>0, DentOfFacts DEF Handle
<1>2. /\ queue' \in [Dir -> [BOOLEAN -> Nat]] /\ RootQueue'
  BY <1>0, QueueOfFacts DEF Handle, RootQueue
<1>3. TypeOK'
  BY <1>0, <1>1, <1>2 DEF TypeOK
<1>4. PcOK'
  BY <1>0 DEF PcOK
<1>5. LockOK'
  BY <1>0 DEF LockOK, DirOf
<1>6. \A n \in Name : Cached(n)' <=> Cached(n)
  BY <1>1 DEF Cached
<1>7. WatchOK'
  BY <1>0, <1>1, <1>6 DEF WatchOK, Cached
<1>8. SubHeld'
  BY <1>0, <1>1, <1>6 DEF SubHeld
<1>9. \A n \in File : dent[n] # None /\ dent'[n].reval = 0 /\ Trusted(n)' =>
        /\ dent[n].reval = 0 /\ Trusted(n) /\ View(n)' = View(n)
        /\ \A b \in Branch : /\ IsThere(b, Parent[n])' = IsThere(b, Parent[n])
                             /\ h'[b][n] = h[b][n]
  <2>. TAKE n \in File
  <2>. HAVE dent[n] # None /\ dent'[n].reval = 0 /\ Trusted(n)'
  <2>1. dent[n].reval = 0 /\ n \notin Reval(Ev)
    BY <1>1
  <2>2. ASSUME Parent[n] = Sub PROVE dent[Sub].reval = 0 /\ there' = there
    <3>1. dent[Sub] # None /\ dent'[Sub].reval = 0
      BY <1>0, <2>2 DEF SubHeld, Cached, Trusted
    <3>. QED BY <1>1, <3>1
  <2>3. \A b \in Branch : /\ IsThere(b, Parent[n])' = IsThere(b, Parent[n])
                          /\ h'[b][n] = h[b][n]
    BY <2>1, <2>2 DEF IsThere
  <2>4. View(n)' = View(n)
    BY <2>3 DEF View, Branch
  <2>. QED BY <2>1, <2>2, <2>3, <2>4 DEF Trusted
<1>10. LookupOK'
  <2>. SUFFICES ASSUME NEW t \in Proc, pc[t].op = "lookup"
                PROVE  LET n == pc[t].n
                           d == dent'[n]
                       IN  /\ d # None /\ ~d.hashed
                           /\ n = Sub => \A b \in there' : b < pc[t].step => b \in d.at
                           /\ n \in File /\ d.reval = 0 /\ Trusted(n)' =>
                                /\ pc[t].step < 2 => d.obj = None
                                /\ pc[t].step = 1 /\ IsThere(0, Parent[n])'
                                        => h'[0][n] = None /\ n \notin wh
                                /\ pc[t].step = 2 => d.obj = View(n)'
    BY DEF LookupOK, LookupAt
  <2>1. pc[t].n \in Name
    BY <1>0 DEF PcOK
  <2>. QED BY <1>0, <1>1, <1>9, <2>1 DEF LookupOK, LookupAt, Branch
<1>11. OwnOK'
  <2>1. ASSUME NEW t \in Proc, pc[t].op = "own", Trusted(pc[t].n)'
        PROVE  IsThere(0, Parent[pc[t].n])'
    <3>1. pc[t].n \in File /\ ilock[Parent[pc[t].n]] = t
      BY <1>0, <2>1 DEF PcOK, LockOK, DirOf
    <3>2. CASE Parent[pc[t].n] = Sub
      <4>1. dent[Sub] # None /\ dent'[Sub].reval = 0
        BY <1>0, <2>1, <3>1, <3>2 DEF SubHeld, Cached, Trusted
      <4>2. dent[Sub].reval = 0 /\ there' = there
        BY <1>1, <4>1
      <4>. QED BY <1>0, <2>1, <3>1, <3>2, <4>2 DEF OwnOK, IsThere, Trusted
    <3>3. CASE Parent[pc[t].n] = Root
      BY <3>3 DEF IsThere
    <3>. QED BY <3>1, <3>2, <3>3
  <2>. QED BY <2>1 DEF OwnOK
<1>12. Shown'
  BY <1>0, <1>1, <1>6, <1>9 DEF Shown, Cached
<1>. QED BY <1>2, <1>3, <1>4, <1>5, <1>7, <1>8, <1>10, <1>11, <1>12 DEF HInv

(* Outdate only touches the lists and what readdir has collected. *)
LEMMA OutdateFacts ==
    ASSUME TypeOK, PcOK, NEW b \in Branch, NEW p \in Dir, Outdate(b, p)
    PROVE  /\ vdir' \in [Dir -> {"none", "good", "stale"}]
           /\ pc' \in [Proc -> PcType]
           /\ \A t \in Proc : /\ pc'[t].op = pc[t].op /\ pc'[t].n = pc[t].n
                              /\ pc'[t].step = pc[t].step
                              /\ pc[t].op = "readdir" => pc'[t].acc \in {"good", "stale"}
<1>0. pc \in [Proc -> PcType] /\ vdir \in [Dir -> {"none", "good", "stale"}]
  BY DEF PcOK, TypeOK
<1>1. vdir' \in [Dir -> {"none", "good", "stale"}]
  BY <1>0 DEF Outdate
<1>2. ASSUME NEW t \in Proc
      PROVE  /\ pc'[t] \in PcType
             /\ pc'[t].op = pc[t].op /\ pc'[t].n = pc[t].n
             /\ pc'[t].step = pc[t].step
             /\ pc'[t].acc \in {pc[t].acc, "stale"}
  <2>1. pc'[t] = pc[t] \/ pc'[t] = [pc[t] EXCEPT !.acc = "stale"]
    BY DEF Outdate
  <2>2. pc[t] \in PcType
    BY <1>0
  <2>3. CASE pc'[t] = [pc[t] EXCEPT !.acc = "stale"]
    BY <2>2, <2>3 DEF PcType
  <2>. QED BY <2>1, <2>2, <2>3
<1>3. pc' \in [Proc -> PcType]
  BY <1>2 DEF Outdate
<1>. QED BY <1>1, <1>2, <1>3 DEF PcOK

LEMMA ForeignStep ==
    ASSUME HInv, Foreign PROVE HInv'
<1>. USE DirFacts
<1>0. /\ TypeOK /\ PcOK /\ WatchOK /\ SubHeld
      /\ h \in [Branch -> [File -> Obj \cup {None}]]
      /\ mask \in [Branch -> [Dir -> {"none", "on", "off"}]]
  BY DEF HInv, TypeOK
<1>1. ASSUME NEW b \in Branch, NEW n \in File, NEW o \in Obj \cup {None}, ForeignFile(b, n, o)
      PROVE  HInv'
  <2>. DEFINE p == Parent[n]
              e == Event(b, p, n, FALSE)
              Ev == {e}
  <2>1. /\ IsThere(b, p) /\ hlock[b][p] = None /\ h' = [h EXCEPT ![b][n] = o]
        /\ Handle(Ev) /\ Outdate(b, p) /\ UNCHANGED <<there, wh, mask, ilock, hlock>>
    BY <1>1 DEF ForeignFile
  <2>2. e.b = b /\ e.dir = p /\ e.name = n /\ e.self = FALSE
    BY DEF Event
  <2>. HIDE DEF e
  <2>3. IsFiniteSet(Ev)
    BY FS_Singleton
  <2>4. ASSUME dent[n] # None PROVE n \in Reval(Ev)
    <3>1. mask[b][p] = "on"
      BY <1>0, <2>1, <2>4 DEF TypeOK, WatchOK, SubHeld, IsThere
    <3>. QED BY <2>2, <3>1 DEF Reval, Hit, MarkedBy
  <2>5. h' \in [Branch -> [File -> Obj \cup {None}]]
    BY <1>0, <2>1
  <2>6. \A m \in File : dent[m] # None /\ m \notin Reval(Ev) =>
            \A c \in Branch : h'[c][m] = h[c][m]
    BY <1>0, <2>1, <2>4
  <2>7. /\ vdir' \in [Dir -> {"none", "good", "stale"}]
        /\ pc' \in [Proc -> PcType]
        /\ \A t \in Proc : /\ pc'[t].op = pc[t].op /\ pc'[t].n = pc[t].n
                           /\ pc'[t].step = pc[t].step
                           /\ pc[t].op = "readdir" => pc'[t].acc \in {"good", "stale"}
    BY <1>0, <2>1, OutdateFacts
  <2>8. \A x \in Ev : x.self \in BOOLEAN /\ x.name # Root /\ (x.dir = Root => x.self = FALSE)
    BY <2>2
  <2>. HIDE DEF Ev
  <2>. QED BY <2>1, <2>3, <2>5, <2>6, <2>7, <2>8, ForeignInv
<1>2. ASSUME NEW b \in Branch, ForeignMove(b) PROVE HInv'
  <2>. DEFINE e == Event(b, Root, Sub, FALSE)
              f == Event(b, Sub, Sub, TRUE)
              Ev == {e, f}
  <2>1. /\ b \in there /\ hlock[b][Root] = None /\ there' = there \ {b}
        /\ Handle(Ev) /\ Outdate(b, Root) /\ UNCHANGED <<h, wh, mask, ilock, hlock>>
    BY <1>2 DEF ForeignMove
  <2>2. /\ e.b = b /\ e.dir = Root /\ e.name = Sub /\ e.self = FALSE
        /\ f.b = b /\ f.dir = Sub /\ f.name = Sub /\ f.self = TRUE
    BY DEF Event
  <2>. HIDE DEF e, f
  <2>3. IsFiniteSet(Ev)
    <3>1. IsFiniteSet({e}) /\ Ev = {e} \cup {f}
      BY FS_Singleton
    <3>. QED BY <3>1, FS_AddElement
  <2>4. Sub \in Reval(Ev)
    <3>1. mask[b][Root] = "on"
      BY <1>0, <2>1 DEF TypeOK, WatchOK
    <3>. QED BY <2>2, <3>1 DEF Reval, Hit, MarkedBy
  <2>5. /\ vdir' \in [Dir -> {"none", "good", "stale"}]
        /\ pc' \in [Proc -> PcType]
        /\ \A t \in Proc : /\ pc'[t].op = pc[t].op /\ pc'[t].n = pc[t].n
                           /\ pc'[t].step = pc[t].step
                           /\ pc[t].op = "readdir" => pc'[t].acc \in {"good", "stale"}
    BY <1>0, <2>1, OutdateFacts
  <2>6. \A x \in Ev : x.self \in BOOLEAN /\ x.name # Root /\ (x.dir = Root => x.self = FALSE)
    BY <2>2
  <2>. HIDE DEF Ev
  <2>. QED BY <1>0, <2>1, <2>3, <2>4, <2>5, <2>6, ForeignInv
<1>. QED BY <1>1, <1>2 DEF Foreign

-----------------------------------------------------------------------------
(* Dentries that leave the cache. *)

LEMMA DropInv ==
    ASSUME HInv, NEW m \in Name, Cached(m), m = Sub => ilock[Sub] = None, Drop({m}),
           UNCHANGED <<h, there, wh, ilock, hlock, pc>>,
           queue' \in [Dir -> [BOOLEAN -> Nat]],
           RootQueue'
    PROVE  HInv'
<1>. USE DirFacts
<1>0. /\ TypeOK /\ PcOK /\ LockOK /\ WatchOK /\ SubHeld
      /\ LookupOK /\ OwnOK /\ Shown
      /\ dent \in [Name -> DentryType \cup {None}]
      /\ mask \in [Branch -> [Dir -> {"none", "on", "off"}]]
      /\ vdir \in [Dir -> {"none", "good", "stale"}]
  BY DEF HInv, TypeOK
<1>1. /\ dent' \in [Name -> DentryType \cup {None}]
      /\ \A n \in Name : dent'[n] = IF n = m \/ Parent[n] = m THEN None ELSE dent[n]
  BY <1>0 DEF Drop, Below
<1>2. /\ mask' \in [Branch -> [Dir -> {"none", "on", "off"}]]
      /\ \A b \in Branch, p \in Dir :
            mask'[b][p] = IF m = Sub /\ p = Sub THEN "none" ELSE mask[b][p]
      /\ vdir' \in [Dir -> {"none", "good", "stale"}]
  <2>1. CASE m = Sub
    BY <1>0, <2>1 DEF Drop
  <2>2. CASE m # Sub
    BY <1>0, <2>2 DEF Drop
  <2>. QED BY <2>1, <2>2
<1>3. TypeOK'
  <2>1. \A b \in Branch, p \in Dir : mask'[b][p] = "off" => hlock'[b][p] # None
    BY <1>0, <1>2 DEF TypeOK
  <2>. QED BY <1>0, <1>1, <1>2, <2>1 DEF TypeOK
<1>4. PcOK' /\ LockOK'
  BY <1>0 DEF PcOK, LockOK, DirOf
<1>5. \A n \in Name : dent'[n] = None \/ dent'[n] = dent[n]
  BY <1>1
<1>6. m # Sub => dent'[Sub] = dent[Sub]
  BY <1>1
<1>7. WatchOK'
  BY <1>0, <1>1, <1>2, <1>6 DEF WatchOK, Cached, Dir, Branch, TypeOK
<1>8. SubHeld'
  BY <1>0, <1>1, <1>6 DEF SubHeld, Cached
<1>9. ASSUME NEW n \in File, dent'[n] # None
      PROVE  /\ dent'[n] = dent[n] /\ (Trusted(n)' <=> Trusted(n)) /\ View(n)' = View(n)
  BY <1>1, <1>5, <1>6, <1>9 DEF Trusted, View, IsThere
<1>10. LookupOK'
  <2>. SUFFICES ASSUME NEW t \in Proc, pc[t].op = "lookup"
                PROVE  LET n == pc[t].n
                           d == dent'[n]
                       IN  /\ d # None /\ ~d.hashed
                           /\ n = Sub => \A b \in there : b < pc[t].step => b \in d.at
                           /\ n \in File /\ d.reval = 0 /\ Trusted(n)' =>
                                /\ pc[t].step < 2 => d.obj = None
                                /\ pc[t].step = 1 /\ IsThere(0, Parent[n])
                                        => h[0][n] = None /\ n \notin wh
                                /\ pc[t].step = 2 => d.obj = View(n)'
    BY DEF LookupOK, LookupAt, IsThere
  <2>1. pc[t].n \in Name /\ ilock[Parent[pc[t].n]] = t
    BY <1>0 DEF PcOK, LockOK, DirOf
  <2>2. pc[t].n # m
    BY <1>0 DEF LookupOK, LookupAt, Cached
  <2>3. Parent[pc[t].n] # m
    BY <2>1
  <2>4. dent'[pc[t].n] = dent[pc[t].n] /\ dent[pc[t].n] # None
    BY <1>0, <1>1, <2>1, <2>2, <2>3 DEF LookupOK, LookupAt
  <2>. QED BY <1>0, <1>9, <2>1, <2>4 DEF LookupOK, LookupAt
<1>11. OwnOK'
  <2>1. ASSUME NEW t \in Proc, pc[t].op = "own", Trusted(pc[t].n)'
        PROVE  IsThere(0, Parent[pc[t].n])
    <3>1. pc[t].n \in File /\ ilock[Parent[pc[t].n]] = t
      BY <1>0, <2>1 DEF PcOK, LockOK, DirOf
    <3>2. Trusted(pc[t].n)
      BY <1>6, <2>1, <3>1 DEF Trusted
    <3>. QED BY <1>0, <2>1, <3>2 DEF OwnOK
  <2>. QED BY <2>1 DEF OwnOK, IsThere
<1>12. Shown'
  BY <1>0, <1>9 DEF Shown, Cached
<1>. QED BY <1>3, <1>4, <1>7, <1>8, <1>10, <1>11, <1>12 DEF HInv

LEMMA InvalidateStep ==
    ASSUME HInv, NEW n \in Name, Invalidate(n) PROVE HInv'
<1>1. /\ Cached(n) /\ Drop({n}) /\ (n = Sub => ilock[Sub] = None)
      /\ UNCHANGED <<h, there, wh, ilock, hlock, pc, queue>>
  BY DEF Invalidate, Busy, hidden
<1>2. /\ queue' \in [Dir -> [BOOLEAN -> Nat]]
  BY <1>1 DEF HInv, TypeOK
<1>3. RootQueue'
  BY <1>1, Zenon DEF HInv, RootQueue
<1>. QED BY <1>1, <1>2, <1>3, DropInv

(* A step that leaves the hidden files, the dentries, the watches and the  *)
(* calls alone.                                                            *)
LEMMA IdleInv ==
    ASSUME HInv, UNCHANGED <<h, there, wh, mask, dent, ilock, hlock, pc>>,
           queue' \in [Dir -> [BOOLEAN -> Nat]],
           vdir' \in [Dir -> {"none", "good", "stale"}],
           RootQueue'
    PROVE  HInv'
<1>0. /\ TypeOK /\ PcOK /\ LockOK /\ WatchOK /\ SubHeld
      /\ LookupOK /\ OwnOK /\ Shown
  BY DEF HInv
<1>1. TypeOK'
  BY <1>0 DEF TypeOK
<1>2. PcOK' /\ LockOK'
  BY <1>0 DEF PcOK, LockOK, DirOf
<1>3. WatchOK' /\ SubHeld'
  BY <1>0 DEF WatchOK, SubHeld, Cached
<1>4. /\ \A n : View(n)' = View(n) /\ Trusted(n)' = Trusted(n)
      /\ \A b, p : IsThere(b, p)' = IsThere(b, p)
  BY DEF View, Trusted, IsThere
<1>5. LookupOK'
  BY <1>0, <1>4 DEF LookupOK, LookupAt
<1>6. OwnOK'
  BY <1>0, <1>4 DEF OwnOK
<1>7. Shown'
  BY <1>0, <1>4 DEF Shown, Cached
<1>. QED BY <1>1, <1>2, <1>3, <1>5, <1>6, <1>7 DEF HInv

LEMMA PostprocStep ==
    ASSUME HInv, NEW p \in Dir, NEW s \in BOOLEAN, Postproc(p, s) PROVE HInv'
<1>. USE DirFacts
<1>0. /\ TypeOK /\ RootQueue
      /\ queue \in [Dir -> [BOOLEAN -> Nat]]
      /\ vdir \in [Dir -> {"none", "good", "stale"}]
  BY DEF HInv, TypeOK
<1>1. /\ queue[p][s] > 0 /\ ilock[p] = None
      /\ queue' = [queue EXCEPT ![p][s] = @ - 1]
      /\ UNCHANGED <<h, there, wh, ilock, hlock, pc>>
  BY DEF Postproc, hidden
<1>2. /\ queue' \in [Dir -> [BOOLEAN -> Nat]]
      /\ p # Root => queue'[Root] = queue[Root]
  <2>. DEFINE k == queue[p][s] - 1
              row == [queue[p] EXCEPT ![s] = k]
  <2>0. queue[p][s] \in Nat /\ queue[p] \in [BOOLEAN -> Nat]
    BY <1>0
  <2>1. k \in Nat
    BY <1>1, <2>0
  <2>. HIDE DEF k
  <2>2. row \in [BOOLEAN -> Nat]
    BY <2>0, <2>1
  <2>3. queue' = [queue EXCEPT ![p] = row]
    BY <1>0, <1>1 DEF k
  <2>. HIDE DEF row
  <2>. QED BY <1>0, <2>2, <2>3
<1>5. p = Root => s = FALSE
  <2>1. ASSUME p = Root, s = TRUE PROVE FALSE
    <3>1. queue[p][s] = 0
      BY <1>0, <2>1, Zenon DEF RootQueue
    <3>. QED BY <1>1, <3>1
  <2>. QED BY <2>1
<1>6. RootQueue'
  <2>1. CASE p # Root
    BY <1>0, <1>2, <2>1, Zenon DEF RootQueue
  <2>2. CASE p = Root
    <3>1. queue'[Root] = [queue[Root] EXCEPT ![s] = queue[Root][s] - 1]
      BY <1>0, <1>1, <2>2
    <3>2. queue'[Root][TRUE] = queue[Root][TRUE]
      BY <1>0, <1>5, <2>2, <3>1, Zenon
    <3>. QED BY <1>0, <3>2, Zenon DEF RootQueue
  <2>. QED BY <2>1, <2>2
<1>7. CASE s /\ Cached(p)
  <2>1. p = Sub /\ Drop({Sub}) /\ Cached(Sub)
    BY <1>5, <1>7 DEF Postproc
  <2>. QED BY <1>1, <1>2, <1>6, <2>1, DropInv
<1>8. CASE ~(s /\ Cached(p))
  <2>1. vdir' = [vdir EXCEPT ![p] = "none"] /\ UNCHANGED <<dent, mask>>
    BY <1>8 DEF Postproc
  <2>2. vdir' \in [Dir -> {"none", "good", "stale"}]
    BY <1>0, <2>1
  <2>. QED BY <1>1, <1>2, <1>6, <2>1, <2>2, IdleInv
<1>. QED BY <1>7, <1>8

-----------------------------------------------------------------------------
(* Calls on the union that change no dentry. *)

LEMMA CallInv ==
    ASSUME HInv, NEW t \in Proc, NEW c \in PcType, pc' = [pc EXCEPT ![t] = c],
           c.op # "lookup",
           c.op = "own" => c.n \in File /\ (Trusted(c.n) => IsThere(0, Parent[c.n])),
           c.op = "readdir" => c.n \in Dir /\ c.acc \in {"good", "stale"},
           UNCHANGED <<h, there, wh, dent, queue>>,
           ilock' \in [Dir -> Proc \cup {None}],
           \A p \in Dir : ilock'[p] = ilock[p] \/ ilock[p] \in {None, t},
           c.op # "idle" => ilock'[IF c.op = "readdir" THEN c.n ELSE Parent[c.n]] = t,
           ilock'[Sub] # None => Cached(Sub),
           mask' \in [Branch -> [Dir -> {"none", "on", "off"}]],
           hlock' \in [Branch -> [Dir -> Proc \cup {None}]],
           \A b \in Branch, p \in Dir :
                /\ mask'[b][p] = "none" => mask[b][p] = "none"
                /\ mask'[b][p] = "off" => hlock'[b][p] # None,
           vdir' \in [Dir -> {"none", "good", "stale"}]
    PROVE  HInv'
<1>. USE DirFacts
<1>0. /\ TypeOK /\ PcOK /\ LockOK /\ WatchOK /\ SubHeld
      /\ LookupOK /\ OwnOK /\ Shown /\ RootQueue
      /\ pc \in [Proc -> PcType]
  BY DEF HInv, PcOK
<1>1. /\ pc' \in [Proc -> PcType]
      /\ \A u \in Proc : pc'[u] = IF u = t THEN c ELSE pc[u]
  BY <1>0
<1>2. TypeOK'
  BY <1>0 DEF TypeOK
<1>3. PcOK'
  BY <1>0, <1>1 DEF PcOK
<1>4. LockOK'
  <2>1. ASSUME NEW u \in Proc, pc'[u].op # "idle" PROVE ilock'[DirOf(u)'] = u
    <3>1. CASE u = t
      BY <1>1, <2>1, <3>1 DEF DirOf
    <3>2. CASE u # t
      <4>1. DirOf(u)' = DirOf(u) /\ ilock[DirOf(u)] = u
        BY <1>0, <1>1, <2>1, <3>2 DEF DirOf, LockOK
      <4>2. DirOf(u) \in Dir
        BY <1>0, <1>1, <2>1, <3>2 DEF DirOf, PcOK, PcType
      <4>. QED BY <3>2, <4>1, <4>2
    <3>. QED BY <3>1, <3>2
  <2>. QED BY <2>1 DEF LockOK
<1>5. WatchOK'
  BY <1>0 DEF WatchOK, Cached, TypeOK
<1>6. SubHeld'
  BY <1>0 DEF SubHeld, Cached
<1>7. /\ \A n : View(n)' = View(n) /\ Trusted(n)' = Trusted(n)
      /\ \A b, p : IsThere(b, p)' = IsThere(b, p)
  BY DEF View, Trusted, IsThere
<1>8. LookupOK'
  <2>. SUFFICES ASSUME NEW u \in Proc, pc'[u].op = "lookup"
                PROVE  LET n == pc[u].n
                           d == dent[n]
                       IN  /\ pc'[u] = pc[u] /\ d # None /\ ~d.hashed
                           /\ n = Sub => \A b \in there : b < pc[u].step => b \in d.at
                           /\ n \in File /\ d.reval = 0 /\ Trusted(n) =>
                                /\ pc[u].step < 2 => d.obj = None
                                /\ pc[u].step = 1 /\ IsThere(0, Parent[n])
                                        => h[0][n] = None /\ n \notin wh
                                /\ pc[u].step = 2 => d.obj = View(n)
    BY <1>7 DEF LookupOK, LookupAt
  <2>. QED BY <1>0, <1>1 DEF LookupOK, LookupAt
<1>9. OwnOK'
  BY <1>0, <1>1, <1>7 DEF OwnOK
<1>10. Shown'
  BY <1>0, <1>7 DEF Shown, Cached
<1>11. RootQueue'
  BY <1>0, Zenon DEF RootQueue
<1>. QED BY <1>2, <1>3, <1>4, <1>5, <1>6, <1>8, <1>9, <1>10, <1>11 DEF HInv

LEMMA IdleFacts == Idle \in PcType /\ Idle.op = "idle"
BY DEF Idle, PcType

LEMMA OwnBegin ==
    ASSUME HInv, NEW t \in Proc, NEW n \in File, BeginOwn(t, n) PROVE HInv'
<1>. USE DirFacts
<1>. DEFINE c == [op |-> "own", n |-> n, step |-> 0, acc |-> dent[n]]
<1>1. /\ pc[t] = Idle /\ Cached(n) /\ Reach(n)
      /\ ilock[Parent[n]] = None /\ IsThere(0, Parent[n])
      /\ ilock' = [ilock EXCEPT ![Parent[n]] = t] /\ pc' = [pc EXCEPT ![t] = c]
      /\ UNCHANGED <<h, there, wh, dent, queue, mask, vdir, hlock>>
  BY DEF BeginOwn, hidden
<1>2. /\ mask \in [Branch -> [Dir -> {"none", "on", "off"}]]
      /\ hlock \in [Branch -> [Dir -> Proc \cup {None}]]
      /\ vdir \in [Dir -> {"none", "good", "stale"}]
      /\ ilock \in [Dir -> Proc \cup {None}]
      /\ \A b \in Branch, p \in Dir : mask[b][p] = "off" => hlock[b][p] # None
      /\ dent[n] \in DentryType \cup {None}
      /\ ilock[Sub] # None => Cached(Sub)
  BY DEF HInv, TypeOK, SubHeld
<1>3. c \in PcType /\ c.op = "own" /\ c.n = n
  BY <1>2 DEF PcType
<1>. HIDE DEF c
<1>4. /\ ilock' \in [Dir -> Proc \cup {None}] /\ ilock'[Parent[n]] = t
      /\ \A p \in Dir : ilock'[p] = ilock[p] \/ ilock[p] \in {None, t}
      /\ ilock'[Sub] # None => Cached(Sub)
  BY <1>1, <1>2 DEF Reach
<1>5. /\ mask' \in [Branch -> [Dir -> {"none", "on", "off"}]]
      /\ hlock' \in [Branch -> [Dir -> Proc \cup {None}]]
      /\ \A b \in Branch, q \in Dir :
              /\ mask'[b][q] = "none" => mask[b][q] = "none"
              /\ mask'[b][q] = "off" => hlock'[b][q] # None
      /\ vdir' \in [Dir -> {"none", "good", "stale"}]
  BY <1>1, <1>2
<1>. QED BY <1>1, <1>3, <1>4, <1>5, CallInv

LEMMA OwnLock ==
    ASSUME HInv, NEW t \in Proc, HdirLock(t) \/ HdirUnlock(t) PROVE HInv'
<1>. USE DirFacts
<1>. DEFINE p == Parent[pc[t].n]
<1>0. /\ mask \in [Branch -> [Dir -> {"none", "on", "off"}]]
      /\ hlock \in [Branch -> [Dir -> Proc \cup {None}]]
      /\ vdir \in [Dir -> {"none", "good", "stale"}]
      /\ ilock \in [Dir -> Proc \cup {None}]
      /\ \A b \in Branch, q \in Dir : mask[b][q] = "off" => hlock[b][q] # None
      /\ pc \in [Proc -> PcType] /\ pc[t] \in PcType /\ 0 \in Branch
  BY DEF HInv, TypeOK, PcOK, Branch
<1>1. /\ UNCHANGED <<h, there, wh, dent, queue, vdir>>
      /\ pc[t].op = "own"
  BY DEF HdirLock, HdirUnlock, hidden
<1>2. /\ pc[t].n \in File /\ p \in Dir /\ ilock[p] = t
      /\ Trusted(pc[t].n) => IsThere(0, p)
      /\ ilock[Sub] # None => Cached(Sub)
  BY <1>1 DEF HInv, PcOK, LockOK, DirOf, OwnOK, SubHeld
<1>. HIDE DEF p
<1>3. CASE HdirLock(t)
  <2>. DEFINE c == [pc[t] EXCEPT !.step = @ + 1]
  <2>1. /\ pc[t].step = 0 /\ pc' = [pc EXCEPT ![t] = c] /\ ilock' = ilock
        /\ hlock' = [hlock EXCEPT ![0][p] = t]
        /\ mask' = [mask EXCEPT ![0][p] = IF @ = "none" THEN @ ELSE "off"]
    BY <1>0, <1>3 DEF HdirLock, Step, p
  <2>2. c \in PcType /\ c.op = "own" /\ c.n = pc[t].n
    <3>1. pc[t].step + 1 \in 0 .. 2
      BY <2>1
    <3>. QED BY <1>0, <1>1, <3>1 DEF PcType
  <2>. HIDE DEF c
  <2>3. /\ mask' \in [Branch -> [Dir -> {"none", "on", "off"}]]
        /\ hlock' \in [Branch -> [Dir -> Proc \cup {None}]]
        /\ \A b \in Branch, q \in Dir :
                /\ mask'[b][q] = "none" => mask[b][q] = "none"
                /\ mask'[b][q] = "off" => hlock'[b][q] # None
    BY <1>0, <1>2, <2>1
  <2>. QED BY <1>0, <1>1, <1>2, <2>1, <2>2, <2>3, CallInv DEF p
<1>4. CASE HdirUnlock(t)
  <2>1. /\ pc' = [pc EXCEPT ![t] = Idle] /\ ilock' = [ilock EXCEPT ![p] = None]
        /\ hlock' = [hlock EXCEPT ![0][p] = None]
        /\ mask' = [mask EXCEPT ![0][p] = IF @ = "none" THEN @ ELSE "on"]
    BY <1>4 DEF HdirUnlock, Done, p
  <2>2. /\ mask' \in [Branch -> [Dir -> {"none", "on", "off"}]]
        /\ hlock' \in [Branch -> [Dir -> Proc \cup {None}]]
        /\ \A b \in Branch, q \in Dir :
                /\ mask'[b][q] = "none" => mask[b][q] = "none"
                /\ mask'[b][q] = "off" => hlock'[b][q] # None
    BY <1>0, <1>2, <2>1
  <2>3. /\ ilock' \in [Dir -> Proc \cup {None}]
        /\ \A q \in Dir : ilock'[q] = ilock[q] \/ ilock[q] \in {None, t}
        /\ ilock'[Sub] # None => Cached(Sub)
    BY <1>0, <1>2, <2>1
  <2>. QED BY <1>0, <1>1, <2>1, <2>2, <2>3, IdleFacts, CallInv
<1>. QED BY <1>3, <1>4

LEMMA ReaddirStep ==
    ASSUME HInv, NEW t \in Proc,
           (\E p \in Dir : BeginReaddir(t, p)) \/ ReaddirBranch(t) \/ EndReaddir(t)
    PROVE  HInv'
<1>. USE DirFacts
<1>0. /\ mask \in [Branch -> [Dir -> {"none", "on", "off"}]]
      /\ hlock \in [Branch -> [Dir -> Proc \cup {None}]]
      /\ vdir \in [Dir -> {"none", "good", "stale"}]
      /\ ilock \in [Dir -> Proc \cup {None}]
      /\ \A b \in Branch, q \in Dir : mask[b][q] = "off" => hlock[b][q] # None
      /\ pc \in [Proc -> PcType] /\ pc[t] \in PcType
      /\ ilock[Sub] # None => Cached(Sub)
  BY DEF HInv, TypeOK, PcOK, SubHeld
<1>1. UNCHANGED <<h, there, wh, dent, queue, mask, hlock>>
  BY DEF BeginReaddir, ReaddirBranch, EndReaddir, hidden
<1>2. /\ mask' \in [Branch -> [Dir -> {"none", "on", "off"}]]
      /\ hlock' \in [Branch -> [Dir -> Proc \cup {None}]]
      /\ \A b \in Branch, q \in Dir :
              /\ mask'[b][q] = "none" => mask[b][q] = "none"
              /\ mask'[b][q] = "off" => hlock'[b][q] # None
  BY <1>0, <1>1
<1>3. ASSUME NEW p \in Dir, BeginReaddir(t, p) PROVE HInv'
  <2>. DEFINE c == [op |-> "readdir", n |-> p, step |-> 0, acc |-> "good"]
  <2>1. /\ pc' = [pc EXCEPT ![t] = c] /\ ilock' = [ilock EXCEPT ![p] = t] /\ ilock[p] = None
        /\ vdir' = vdir /\ (p = Sub => Cached(Sub))
    BY <1>3 DEF BeginReaddir
  <2>2. c \in PcType /\ c.op = "readdir" /\ c.n = p /\ c.acc = "good"
    BY DEF PcType, Name
  <2>. HIDE DEF c
  <2>3. /\ ilock' \in [Dir -> Proc \cup {None}] /\ ilock'[p] = t
        /\ \A q \in Dir : ilock'[q] = ilock[q] \/ ilock[q] \in {None, t}
        /\ ilock'[Sub] # None => Cached(Sub)
    BY <1>0, <2>1
  <2>. QED BY <1>0, <1>1, <1>2, <2>1, <2>2, <2>3, CallInv
<1>4. CASE ReaddirBranch(t)
  <2>. DEFINE c == [pc[t] EXCEPT !.step = @ + 1]
  <2>1. /\ pc[t].op = "readdir" /\ pc[t].step < 2 /\ pc' = [pc EXCEPT ![t] = c]
        /\ ilock' = ilock /\ vdir' = vdir
    BY <1>0, <1>4 DEF ReaddirBranch, Step
  <2>2. pc[t].step + 1 \in 0 .. 2
    BY <1>0, <2>1 DEF PcType
  <2>3. c \in PcType /\ c.op = "readdir" /\ c.n = pc[t].n /\ c.acc = pc[t].acc
    BY <1>0, <2>1, <2>2 DEF PcType
  <2>. HIDE DEF c
  <2>4. ilock[pc[t].n] = t /\ pc[t].n \in Dir /\ pc[t].acc \in {"good", "stale"}
    BY <2>1 DEF HInv, PcOK, LockOK, DirOf
  <2>. QED BY <1>0, <1>1, <1>2, <2>1, <2>3, <2>4, CallInv
<1>5. CASE EndReaddir(t)
  <2>1. /\ pc[t].op = "readdir" /\ pc' = [pc EXCEPT ![t] = Idle]
        /\ ilock' = [ilock EXCEPT ![pc[t].n] = None]
        /\ vdir' = [vdir EXCEPT ![pc[t].n] = pc[t].acc]
    BY <1>5 DEF EndReaddir, Done
  <2>2. ilock[pc[t].n] = t /\ pc[t].n \in Dir /\ pc[t].acc \in {"good", "stale"}
    BY <2>1 DEF HInv, PcOK, LockOK, DirOf
  <2>3. /\ ilock' \in [Dir -> Proc \cup {None}]
        /\ \A q \in Dir : ilock'[q] = ilock[q] \/ ilock[q] \in {None, t}
        /\ ilock'[Sub] # None => Cached(Sub)
    BY <1>0, <2>1, <2>2
  <2>4. vdir' \in [Dir -> {"none", "good", "stale"}]
    BY <1>0, <2>1, <2>2
  <2>. QED BY <1>1, <1>2, <2>1, <2>3, <2>4, IdleFacts, CallInv
<1>. QED BY <1>3, <1>4, <1>5

-----------------------------------------------------------------------------
(* aufs_lookup. *)

LEMMA LookupBegin ==
    ASSUME HInv, NEW t \in Proc, NEW n \in Name, BeginLookup(t, n) PROVE HInv'
<1>. USE DirFacts
<1>. DEFINE c == [op |-> "lookup", n |-> n, step |-> 0, acc |-> None]
            x == Dentry({}, None, 0, FALSE)
<1>0. /\ TypeOK /\ PcOK /\ LockOK /\ WatchOK /\ SubHeld
      /\ LookupOK /\ OwnOK /\ Shown /\ RootQueue
      /\ pc \in [Proc -> PcType] /\ dent \in [Name -> DentryType \cup {None}]
      /\ ilock \in [Dir -> Proc \cup {None}]
  BY DEF HInv, PcOK, TypeOK
<1>1. /\ pc[t] = Idle /\ dent[n] = None /\ Reach(n) /\ ilock[Parent[n]] = None
      /\ ilock' = [ilock EXCEPT ![Parent[n]] = t] /\ dent' = [dent EXCEPT ![n] = x]
      /\ pc' = [pc EXCEPT ![t] = c]
      /\ UNCHANGED <<h, there, wh, mask, queue, vdir, hlock>>
  BY DEF BeginLookup, Go, hidden
<1>2. c \in PcType /\ c.op = "lookup" /\ c.n = n /\ c.step = 0
  BY DEF PcType
<1>3. x \in DentryType /\ x # None /\ x.obj = None /\ ~x.hashed
  <2>1. x \in DentryType
    BY DEF Dentry, DentryType
  <2>. QED BY <2>1, HinotifyAssumption DEF Dentry
<1>. HIDE DEF c, x
<1>4. /\ pc' \in [Proc -> PcType] /\ \A u \in Proc : pc'[u] = IF u = t THEN c ELSE pc[u]
      /\ dent' \in [Name -> DentryType \cup {None}]
      /\ \A m \in Name : dent'[m] = IF m = n THEN x ELSE dent[m]
      /\ ilock' \in [Dir -> Proc \cup {None}]
      /\ \A p \in Dir : ilock'[p] = IF p = Parent[n] THEN t ELSE ilock[p]
  BY <1>0, <1>1, <1>2, <1>3
<1>5. TypeOK'
  <2>1. \A a \in Branch, p \in Dir : mask'[a][p] = "off" => hlock'[a][p] # None
    BY <1>0, <1>1 DEF TypeOK
  <2>. QED BY <1>0, <1>1, <1>4, <2>1 DEF TypeOK
<1>6. PcOK'
  BY <1>0, <1>2, <1>4 DEF PcOK
<1>7. LockOK'
  <2>1. ASSUME NEW u \in Proc, pc'[u].op # "idle" PROVE ilock'[DirOf(u)'] = u
    <3>1. CASE u = t
      BY <1>2, <1>4, <3>1 DEF DirOf
    <3>2. CASE u # t
      <4>1. DirOf(u)' = DirOf(u) /\ ilock[DirOf(u)] = u
        BY <1>0, <1>4, <2>1, <3>2 DEF DirOf, LockOK
      <4>2. DirOf(u) \in Dir
        BY <1>0, <1>4, <2>1, <3>2 DEF DirOf, PcOK, PcType
      <4>. QED BY <1>1, <1>4, <4>1, <4>2
    <3>. QED BY <3>1, <3>2
  <2>. QED BY <2>1 DEF LockOK
<1>8. Cached(Sub) => n # Sub /\ dent'[Sub] = dent[Sub] /\ Cached(Sub)'
  BY <1>1, <1>4 DEF Cached
<1>9. Cached(Sub)' => n # Sub /\ dent'[Sub] = dent[Sub] /\ Cached(Sub)
  BY <1>3, <1>4 DEF Cached
<1>10. WatchOK'
  BY <1>0, <1>1, <1>9 DEF WatchOK
<1>11. SubHeld'
  BY <1>0, <1>1, <1>4, <1>8 DEF SubHeld, Reach
<1>12. ASSUME NEW m \in File, dent[m] # None \/ ilock[Parent[m]] # None
       PROVE  (Trusted(m)' <=> Trusted(m)) /\ View(m)' = View(m)
  BY <1>0, <1>1, <1>8, <1>12 DEF SubHeld, Trusted, View, IsThere
<1>13. LookupOK'
  <2>1. ASSUME NEW u \in Proc, u # t, pc'[u].op = "lookup"
        PROVE  LookupAt(u)'
    <3>1. pc'[u] = pc[u] /\ pc[u].op = "lookup" /\ pc[u].n \in Name
      BY <1>0, <1>4, <2>1 DEF PcOK
    <3>2. dent[pc[u].n] # None
      BY <1>0, <3>1 DEF LookupOK, LookupAt
    <3>3. dent'[pc[u].n] = dent[pc[u].n]
      BY <1>1, <1>4, <3>1, <3>2
    <3>4. \A m \in File : m = pc[u].n =>
                (Trusted(m)' <=> Trusted(m)) /\ View(m)' = View(m)
      BY <1>12, <3>2
    <3>5. LookupAt(u)
      BY <1>0, <3>1 DEF LookupOK
    <3>. QED BY <1>1, <3>1, <3>3, <3>4, <3>5 DEF LookupAt, IsThere
  <2>2. LET m == pc'[t].n
            d == dent'[m]
        IN  /\ d # None /\ ~d.hashed
            /\ \A b \in there' : ~(b < pc'[t].step)
            /\ pc'[t].step = 0 /\ d.obj = None
    BY <1>0, <1>1, <1>2, <1>3, <1>4 DEF TypeOK, Branch
  <2>3. LookupAt(t)'
    BY <2>2 DEF LookupAt
  <2>. QED BY <2>1, <2>3 DEF LookupOK
<1>14. OwnOK'
  <2>1. ASSUME NEW u \in Proc, NEW m \in File, m = pc'[u].n, pc'[u].op = "own", Trusted(m)'
        PROVE  IsThere(0, Parent[m])'
    <3>1. pc'[u] = pc[u] /\ pc[u].op = "own" /\ pc[u].n = m
      BY <1>2, <1>4, <2>1
    <3>2. ilock[Parent[m]] # None
      BY <1>0, <3>1 DEF LockOK, DirOf
    <3>3. Trusted(m)
      BY <1>12, <2>1, <3>2
    <3>. QED BY <1>0, <1>1, <3>1, <3>3 DEF OwnOK, IsThere
  <2>. QED BY <1>6, <2>1 DEF OwnOK, PcOK
<1>15. Shown'
  <2>1. ASSUME NEW m \in File, Cached(m)'
        PROVE  dent'[m] = dent[m] /\ dent[m] # None /\ Cached(m)
    BY <1>3, <1>4, <2>1 DEF Cached
  <2>. QED BY <1>0, <1>12, <2>1 DEF Shown
<1>16. RootQueue'
  BY <1>0, <1>1, Zenon DEF RootQueue
<1>. QED BY <1>5, <1>6, <1>7, <1>10, <1>11, <1>13, <1>14, <1>15, <1>16 DEF HInv

(* One more branch: what it holds is found now, or marked later. *)
LEMMA LookupVisit ==
    ASSUME HInv, NEW t \in Proc, LookupBranch(t) PROVE HInv'
<1>. USE DirFacts
<1>. DEFINE n == pc[t].n
            b == pc[t].step
            d == dent[n]
            found == IsThere(b, Parent[n]) /\ (IF n = Sub THEN b \in there ELSE h[b][n] # None)
            end == b = 1 \/ (n # Sub /\ (found \/ (b = 0 /\ IsThere(0, Parent[n]) /\ n \in wh)))
            x == IF found THEN Dentry(d.at \cup {b}, IF n = Sub THEN None ELSE h[b][n],
                                      d.reval, FALSE) ELSE d
            k == IF end THEN 2 ELSE b + 1
            c == [pc[t] EXCEPT !.step = k]
<1>0. /\ TypeOK /\ PcOK /\ LockOK /\ WatchOK /\ SubHeld
      /\ LookupOK /\ OwnOK /\ Shown /\ RootQueue
      /\ pc \in [Proc -> PcType] /\ dent \in [Name -> DentryType \cup {None}]
      /\ h \in [Branch -> [File -> Obj \cup {None}]] /\ there \subseteq Branch
  BY DEF HInv, PcOK, TypeOK
<1>1. /\ pc[t].op = "lookup" /\ b < 2
      /\ dent' = [dent EXCEPT ![n] = x] /\ pc' = [pc EXCEPT ![t] = c]
      /\ UNCHANGED <<h, there, wh, mask, queue, vdir, ilock, hlock>>
  BY <1>0 DEF LookupBranch, hidden
<1>2. /\ n \in Name /\ d \in DentryType /\ d # None /\ ~d.hashed /\ b \in {0, 1}
      /\ (n # Sub => n \in File)
      /\ n = Sub => \A a \in there : a < b => a \in d.at
      /\ n \in File /\ d.reval = 0 /\ Trusted(n) =>
            /\ d.obj = None
            /\ b = 1 /\ IsThere(0, Parent[n]) => h[0][n] = None /\ n \notin wh
  <2>1. n \in Name /\ b \in {0, 1}
    BY <1>0, <1>1 DEF PcOK, PcType
  <2>2. d # None /\ ~d.hashed
    BY <1>0, <1>1 DEF LookupOK, LookupAt
  <2>3. d \in DentryType
    BY <1>0, <2>1, <2>2
  <2>4. LookupAt(t)
    BY <1>0, <1>1 DEF LookupOK
  <2>. QED BY <1>1, <2>1, <2>2, <2>3, <2>4 DEF LookupAt, Name
<1>3. /\ x \in DentryType /\ x # None /\ ~x.hashed /\ x.reval = d.reval
      /\ ~found => x = d
      /\ found => x.at = d.at \cup {b} /\ x.obj = IF n = Sub THEN None ELSE h[b][n]
  <2>. DEFINE o == IF n = Sub THEN None ELSE h[b][n]
  <2>1. o \in Obj \cup {None} /\ d.at \cup {b} \in SUBSET Branch /\ d.reval \in 0 .. 1
    BY <1>0, <1>2 DEF DentryType, Branch
  <2>. HIDE DEF o, found
  <2>2. /\ Dentry(d.at \cup {b}, o, d.reval, FALSE) \in DentryType
        /\ Dentry(d.at \cup {b}, o, d.reval, FALSE).at = d.at \cup {b}
        /\ Dentry(d.at \cup {b}, o, d.reval, FALSE).obj = o
        /\ Dentry(d.at \cup {b}, o, d.reval, FALSE).reval = d.reval
        /\ Dentry(d.at \cup {b}, o, d.reval, FALSE).hashed = FALSE
    BY <2>1 DEF Dentry, DentryType
  <2>3. x = IF found THEN Dentry(d.at \cup {b}, o, d.reval, FALSE) ELSE d
    BY DEF o
  <2>. HIDE DEF x
  <2>4. x \in DentryType /\ ~x.hashed /\ x.reval = d.reval
    BY <1>2, <2>2, <2>3
  <2>. QED BY <2>2, <2>3, <2>4, HinotifyAssumption DEF o
<1>4. c \in PcType /\ c.op = "lookup" /\ c.n = n /\ c.step = k /\ k \in 1 .. 2
  <2>1. k \in 1 .. 2
    BY <1>2
  <2>. HIDE DEF k
  <2>. QED BY <1>0, <1>1, <2>1 DEF PcType
<1>5. n = Sub => \A a \in there : a < k => a \in x.at
  <2>1. ASSUME n = Sub, NEW a \in there, a < k PROVE a \in x.at
    <3>1. k = b + 1 /\ a \in {0, 1} /\ (found <=> b \in there)
      BY <1>0, <1>2, <2>1 DEF IsThere, Branch
    <3>2. a = b \/ a < b
      BY <1>2, <2>1, <3>1
    <3>3. CASE a = b
      BY <1>3, <2>1, <3>1, <3>3
    <3>4. CASE a < b
      BY <1>2, <1>3, <2>1, <3>4
    <3>. QED BY <3>2, <3>3, <3>4
  <2>. QED BY <2>1
<1>6. ASSUME n \in File, d.reval = 0, Trusted(n)
      PROVE  /\ k = 1 => x.obj = None
             /\ k = 1 /\ IsThere(0, Parent[n]) => h[0][n] = None /\ n \notin wh
             /\ k = 2 => x.obj = View(n)
  <2>. DEFINE On(a) == IsThere(a, Parent[n]) /\ h[a][n] # None
              Wh == IsThere(0, Parent[n]) /\ n \in wh
  <2>1. /\ found <=> On(b)
        /\ n # Sub /\ d.obj = None
        /\ b = 1 => ~On(0) /\ ~Wh
    BY <1>2, <1>6
  <2>2. k = 2 <=> b = 1 \/ On(b) \/ (b = 0 /\ Wh)
    BY <1>2, <2>1
  <2>3. x.obj = IF On(b) THEN h[b][n] ELSE None
    BY <1>3, <2>1
  <2>4. View(n) = IF On(0) THEN h[0][n] ELSE IF On(1) /\ ~Wh THEN h[1][n] ELSE None
    BY DEF View
  <2>5. k = 1 => b = 0 /\ ~On(0) /\ ~Wh
    BY <1>2, <1>4, <2>2
  <2>. HIDE DEF x, k
  <2>6. k = 2 => x.obj = View(n)
    BY <1>2, <2>1, <2>2, <2>3, <2>4
  <2>. QED BY <2>3, <2>5, <2>6
<1>. HIDE DEF x, k, c, found, end
<1>7. /\ pc' \in [Proc -> PcType] /\ \A u \in Proc : pc'[u] = IF u = t THEN c ELSE pc[u]
      /\ dent' \in [Name -> DentryType \cup {None}]
      /\ \A m \in Name : dent'[m] = IF m = n THEN x ELSE dent[m]
  BY <1>0, <1>1, <1>2, <1>3, <1>4
<1>8. TypeOK'
  <2>1. \A a \in Branch, p \in Dir : mask'[a][p] = "off" => hlock'[a][p] # None
    BY <1>0, <1>1 DEF TypeOK
  <2>. QED BY <1>0, <1>1, <1>7, <2>1 DEF TypeOK
<1>9. PcOK'
  BY <1>0, <1>2, <1>4, <1>7 DEF PcOK
<1>10. LockOK'
  BY <1>0, <1>1, <1>4, <1>7 DEF LockOK, DirOf
<1>11. \A m \in Name : (Cached(m)' <=> Cached(m)) /\ (Cached(m) => dent'[m] = dent[m])
  BY <1>2, <1>3, <1>7 DEF Cached
<1>12. WatchOK'
  BY <1>0, <1>1, <1>11 DEF WatchOK
<1>13. SubHeld'
  BY <1>0, <1>1, <1>2, <1>7, <1>11 DEF SubHeld
<1>14. \A m \in File : (Trusted(m)' <=> Trusted(m)) /\ View(m)' = View(m)
  BY <1>1, <1>3, <1>7 DEF Trusted, View, IsThere
<1>15. LookupOK'
  <2>1. ASSUME NEW u \in Proc, u # t, pc'[u].op = "lookup"
        PROVE  LookupAt(u)'
    <3>1. pc'[u] = pc[u] /\ pc[u].op = "lookup" /\ pc[u].n \in Name
      BY <1>0, <1>7, <2>1 DEF PcOK
    <3>2. pc[u].n # n
      BY <1>0, <1>1, <2>1, <3>1 DEF LockOK, DirOf
    <3>3. dent'[pc[u].n] = dent[pc[u].n]
      BY <1>7, <3>1, <3>2
    <3>4. LookupAt(u)
      BY <1>0, <3>1 DEF LookupOK
    <3>. QED BY <1>1, <1>14, <3>1, <3>3, <3>4 DEF LookupAt, IsThere
  <2>2. LookupAt(t)'
    <3>1. pc'[t] = c /\ c.n = n /\ c.step = k /\ dent'[n] = x
      BY <1>2, <1>4, <1>7
    <3>2. \A m \in File : IsThere(0, Parent[m])' = IsThere(0, Parent[m])
      BY <1>1 DEF IsThere
    <3>3. ASSUME NEW m \in File, m = n, x.reval = 0, Trusted(m)'
          PROVE  /\ k < 2 => x.obj = None
                 /\ k = 1 /\ IsThere(0, Parent[m])' => h'[0][m] = None /\ m \notin wh'
                 /\ k = 2 => x.obj = View(m)'
      <4>1. d.reval = 0 /\ Trusted(m) /\ View(m)' = View(m)
        BY <1>3, <1>14, <3>3
      <4>. HIDE DEF n, d, b
      <4>. QED BY <1>1, <1>4, <1>6, <3>2, <3>3, <4>1
    <3>4. /\ dent'[pc'[t].n] = x /\ pc'[t].step = k /\ pc'[t].n = n
          /\ x # None /\ ~x.hashed
          /\ n = Sub => \A a \in there' : a < k => a \in x.at
      BY <1>1, <1>3, <1>5, <3>1
    <3>. HIDE DEF n, d, b
    <3>. QED BY <3>3, <3>4 DEF LookupAt
  <2>. QED BY <2>1, <2>2 DEF LookupOK
<1>16. OwnOK'
  BY <1>0, <1>1, <1>4, <1>7, <1>14 DEF OwnOK, IsThere, PcOK
<1>17. Shown'
  BY <1>0, <1>11, <1>14 DEF Shown
<1>18. RootQueue'
  BY <1>0, <1>1, Zenon DEF RootQueue
<1>. QED BY <1>8, <1>9, <1>10, <1>12, <1>13, <1>15, <1>16, <1>17, <1>18 DEF HInv

LEMMA LookupEnd ==
    ASSUME HInv, NEW t \in Proc, EndLookup(t) PROVE HInv'
<1>. USE DirFacts
<1>. DEFINE n == pc[t].n
            x == [dent[n] EXCEPT !.hashed = TRUE]
<1>0. /\ TypeOK /\ PcOK /\ LockOK /\ WatchOK /\ SubHeld
      /\ LookupOK /\ OwnOK /\ Shown /\ RootQueue
      /\ pc \in [Proc -> PcType] /\ dent \in [Name -> DentryType \cup {None}]
      /\ ilock \in [Dir -> Proc \cup {None}] /\ there \subseteq Branch
      /\ mask \in [Branch -> [Dir -> {"none", "on", "off"}]]
  BY DEF HInv, PcOK, TypeOK
<1>1. /\ pc[t].op = "lookup" /\ pc[t].step = 2
      /\ dent' = [dent EXCEPT ![n] = x]
      /\ mask' = IF n # Sub THEN mask
                 ELSE [b \in Branch |->
                        [mask[b] EXCEPT ![Sub] = IF b \in dent[n].at THEN "on" ELSE "none"]]
      /\ ilock' = [ilock EXCEPT ![Parent[n]] = None] /\ pc' = [pc EXCEPT ![t] = Idle]
      /\ UNCHANGED <<h, there, wh, queue, vdir, hlock>>
  BY <1>0 DEF EndLookup, hidden, Done
<1>2. /\ n \in Name /\ (n # Sub => n \in File) /\ dent[n] # None /\ ~dent[n].hashed
      /\ ilock[Parent[n]] = t
      /\ n = Sub => there \subseteq dent[n].at
      /\ n \in File /\ dent[n].reval = 0 /\ Trusted(n) => dent[n].obj = View(n)
  <2>1. n \in Name /\ ilock[Parent[n]] = t
    BY <1>0, <1>1 DEF PcOK, LockOK, DirOf
  <2>2. LookupAt(t)
    BY <1>0, <1>1 DEF LookupOK
  <2>. QED BY <1>0, <1>1, <2>1, <2>2 DEF LookupAt, Name, Branch
<1>3. /\ x \in DentryType /\ x # None /\ x.hashed /\ x.at = dent[n].at
      /\ x.obj = dent[n].obj /\ x.reval = dent[n].reval
  <2>1. dent[n] \in DentryType
    BY <1>0, <1>2
  <2>2. x \in DentryType
    BY <2>1 DEF DentryType
  <2>. QED BY <2>1, <2>2, HinotifyAssumption DEF DentryType
<1>. HIDE DEF x
<1>4. /\ pc' \in [Proc -> PcType] /\ \A u \in Proc : pc'[u] = IF u = t THEN Idle ELSE pc[u]
      /\ dent' \in [Name -> DentryType \cup {None}]
      /\ \A m \in Name : dent'[m] = IF m = n THEN x ELSE dent[m]
      /\ ilock' \in [Dir -> Proc \cup {None}]
      /\ \A p \in Dir : ilock'[p] = IF p = Parent[n] THEN None ELSE ilock[p]
  BY <1>0, <1>1, <1>2, <1>3, IdleFacts
<1>5. /\ mask' \in [Branch -> [Dir -> {"none", "on", "off"}]]
      /\ \A b \in Branch, p \in Dir :
            mask'[b][p] = IF n = Sub /\ p = Sub
                          THEN IF b \in dent[Sub].at THEN "on" ELSE "none" ELSE mask[b][p]
  <2>1. CASE n = Sub
    BY <1>0, <1>1, <2>1
  <2>2. CASE n # Sub
    BY <1>0, <1>1, <2>2
  <2>. QED BY <2>1, <2>2
<1>6. TypeOK'
  <2>1. \A b \in Branch, p \in Dir : mask'[b][p] = "off" => hlock'[b][p] # None
    BY <1>0, <1>1, <1>5 DEF TypeOK
  <2>. QED BY <1>0, <1>1, <1>4, <1>5, <2>1 DEF TypeOK
<1>7. PcOK'
  BY <1>0, <1>4, IdleFacts DEF PcOK
<1>8. LockOK'
  <2>1. ASSUME NEW u \in Proc, pc'[u].op # "idle" PROVE ilock'[DirOf(u)'] = u
    <3>1. u # t /\ pc'[u] = pc[u]
      BY <1>4, <2>1, IdleFacts
    <3>2. DirOf(u)' = DirOf(u) /\ ilock[DirOf(u)] = u
      BY <1>0, <2>1, <3>1 DEF DirOf, LockOK
    <3>3. DirOf(u) \in Dir
      BY <1>0, <2>1, <3>1 DEF DirOf, PcOK, PcType
    <3>. QED BY <1>2, <1>4, <3>1, <3>2, <3>3
  <2>. QED BY <2>1 DEF LockOK
<1>9. WatchOK'
  <2>1. \A b \in Branch : mask'[b][Root] # "none"
    BY <1>0, <1>5 DEF WatchOK
  <2>2. ASSUME Cached(Sub)', NEW b \in there PROVE b \in dent'[Sub].at /\ mask'[b][Sub] # "none"
    <3>1. CASE n = Sub
      BY <1>0, <1>2, <1>3, <1>4, <1>5, <3>1
    <3>2. CASE n # Sub
      BY <1>0, <1>4, <1>5, <2>2, <3>2 DEF WatchOK, Cached
    <3>. QED BY <3>1, <3>2
  <2>. QED BY <1>1, <2>1, <2>2 DEF WatchOK
<1>10. SubHeld'
  BY <1>0, <1>2, <1>3, <1>4 DEF SubHeld, Cached
<1>11. \A m \in File : (Trusted(m)' <=> Trusted(m)) /\ View(m)' = View(m)
  BY <1>1, <1>3, <1>4 DEF Trusted, View, IsThere
<1>12. LookupOK'
  <2>1. ASSUME NEW u \in Proc, pc'[u].op = "lookup" PROVE LookupAt(u)'
    <3>1. u # t /\ pc'[u] = pc[u] /\ pc[u].op = "lookup" /\ pc[u].n \in Name
      BY <1>0, <1>4, <2>1, IdleFacts DEF PcOK
    <3>2. pc[u].n # n
      BY <1>0, <1>2, <3>1 DEF LockOK, DirOf
    <3>3. dent'[pc[u].n] = dent[pc[u].n]
      BY <1>4, <3>1, <3>2
    <3>4. LookupAt(u)
      BY <1>0, <3>1 DEF LookupOK
    <3>. QED BY <1>1, <1>11, <3>1, <3>3, <3>4 DEF LookupAt, IsThere
  <2>. QED BY <2>1 DEF LookupOK
<1>13. OwnOK'
  BY <1>0, <1>1, <1>4, <1>11, IdleFacts DEF OwnOK, IsThere, PcOK
<1>14. Shown'
  BY <1>0, <1>2, <1>3, <1>4, <1>11 DEF Shown, Cached
<1>15. RootQueue'
  BY <1>0, <1>1, Zenon DEF RootQueue
<1>. QED BY <1>6, <1>7, <1>8, <1>9, <1>10, <1>12, <1>13, <1>14, <1>15 DEF HInv

-----------------------------------------------------------------------------
(* aufs_create and aufs_unlink. *)

(* Both change file n on branch 0 under the i_mutex of its directory, and   *)
(* leave no dentry, or one that shows the new file.                         *)
LEMMA OwnInv ==
    ASSUME HInv, NEW t \in Proc, NEW n \in File, NEW o \in Obj \cup {None},
           NEW x \in DentryType \cup {None}, NEW Ev,
           pc[t].op = "own", pc[t].n = n, pc[t].step = 1,
           Ev = {Event(0, Parent[n], n, FALSE)},
           h' = [h EXCEPT ![0][n] = o], wh' \subseteq File,
           \A m \in File : m # n => (m \in wh' <=> m \in wh),
           dent' = [DentOf(Ev) EXCEPT ![n] = x],
           x # None => dent[n] # None /\ o # None /\ x.obj = o,
           queue' = QueueOf(Ev), vdir' \in [Dir -> {"none", "good", "stale"}],
           pc' = [pc EXCEPT ![t].step = @ + 1],
           UNCHANGED <<there, mask, ilock, hlock>>
    PROVE  HInv'
<1>. USE DirFacts
<1>. DEFINE c == [pc[t] EXCEPT !.step = 2]
<1>0. /\ TypeOK /\ PcOK /\ LockOK /\ WatchOK /\ SubHeld
      /\ LookupOK /\ OwnOK /\ Shown /\ RootQueue
      /\ pc \in [Proc -> PcType] /\ dent \in [Name -> DentryType \cup {None}]
      /\ h \in [Branch -> [File -> Obj \cup {None}]]
      /\ vdir \in [Dir -> {"none", "good", "stale"}]
  BY DEF HInv, PcOK, TypeOK
<1>1. /\ queue' \in [Dir -> [BOOLEAN -> Nat]] /\ RootQueue'
  <2>1. IsFiniteSet(Ev)
    BY FS_Singleton
  <2>2. \A e \in Ev : e.self \in BOOLEAN /\ e.name # Root /\ (e.dir = Root => e.self = FALSE)
    <3>. DEFINE e == Event(0, Parent[n], n, FALSE)
    <3>1. e.self = FALSE /\ e.name = n
      BY DEF Event
    <3>. HIDE DEF e
    <3>. QED BY <3>1 DEF e
  <2>. QED BY <1>0, <2>1, <2>2, QueueOfFacts DEF RootQueue
<1>2. /\ dent' \in [Name -> DentryType \cup {None}] /\ dent'[n] = x
      /\ \A m \in Name : m # n =>
            /\ dent'[m] = None <=> dent[m] = None
            /\ dent[m] # None => /\ dent'[m].at = dent[m].at
                                 /\ dent'[m].obj = dent[m].obj
                                 /\ dent'[m].hashed = dent[m].hashed
                                 /\ dent'[m].reval = 0 => dent[m].reval = 0
  BY <1>0, DentOfFacts
<1>3. c \in PcType /\ c.op = "own" /\ c.n = n /\ c.step = 2 /\ pc' = [pc EXCEPT ![t] = c]
  <2>1. pc[t] \in PcType
    BY <1>0
  <2>2. c \in PcType /\ c.op = "own" /\ c.n = n /\ c.step = 2
    BY <2>1 DEF PcType
  <2>3. pc' = [pc EXCEPT ![t] = c]
    BY <1>0
  <2>. QED BY <2>2, <2>3
<1>. HIDE DEF c
<1>4. pc' \in [Proc -> PcType] /\ \A u \in Proc : pc'[u] = IF u = t THEN c ELSE pc[u]
  BY <1>0, <1>3
<1>5. /\ h' \in [Branch -> [File -> Obj \cup {None}]] /\ h'[0][n] = o
      /\ \A b \in Branch, m \in File : m # n => h'[b][m] = h[b][m]
  BY <1>0 DEF Branch
<1>6. TypeOK'
  <2>1. \A b \in Branch, p \in Dir : mask'[b][p] = "off" => hlock'[b][p] # None
    BY <1>0 DEF TypeOK
  <2>2. vdir' \in [Dir -> {"none", "good", "stale"}]
    BY <1>0
  <2>. QED BY <1>0, <1>1, <1>2, <1>5, <2>1, <2>2 DEF TypeOK
<1>7. PcOK'
  BY <1>0, <1>3, <1>4 DEF PcOK
<1>8. LockOK'
  BY <1>0, <1>3, <1>4 DEF LockOK, DirOf
<1>9. (Cached(Sub)' <=> Cached(Sub)) /\ (Cached(Sub) => dent'[Sub].at = dent[Sub].at)
  BY <1>2 DEF Cached
<1>10. WatchOK'
  BY <1>0, <1>9 DEF WatchOK
<1>11. SubHeld'
  <2>1. ASSUME NEW m \in File, dent'[m] # None PROVE dent[m] # None
    BY <1>2, <2>1
  <2>. QED BY <1>0, <1>9, <2>1 DEF SubHeld
<1>12. \A b, p : IsThere(b, p)' = IsThere(b, p)
  BY DEF IsThere
<1>13. ASSUME NEW m \in File, dent[m] # None \/ ilock[Parent[m]] # None, Trusted(m)'
       PROVE  Trusted(m)
  BY <1>0, <1>2, <1>13 DEF SubHeld, Trusted, Cached
<1>14. \A m \in File : m # n => View(m)' = View(m)
  BY <1>5, <1>12 DEF View, Branch
<1>15. ilock[Parent[n]] = t
  BY <1>0 DEF LockOK, DirOf
<1>16. LookupOK'
  <2>1. ASSUME NEW u \in Proc, pc'[u].op = "lookup" PROVE LookupAt(u)'
    <3>1. u # t /\ pc'[u] = pc[u] /\ pc[u].op = "lookup" /\ pc[u].n \in Name
      BY <1>0, <1>3, <1>4, <2>1 DEF PcOK
    <3>2. pc[u].n # n
      BY <1>0, <1>15, <3>1 DEF LockOK, DirOf
    <3>3. LookupAt(u)
      BY <1>0, <3>1 DEF LookupOK
    <3>4. PICK m \in Name : m = pc[u].n /\ m # n /\ pc'[u].n = m /\ pc'[u].step = pc[u].step
      BY <3>1, <3>2
    <3>5. /\ dent[m] # None /\ ~dent[m].hashed
          /\ m = Sub => \A b \in there : b < pc[u].step => b \in dent[m].at
          /\ m \in File /\ dent[m].reval = 0 /\ Trusted(m) =>
                /\ pc[u].step < 2 => dent[m].obj = None
                /\ pc[u].step = 1 /\ IsThere(0, Parent[m]) => h[0][m] = None /\ m \notin wh
                /\ pc[u].step = 2 => dent[m].obj = View(m)
      BY <3>3, <3>4 DEF LookupAt
    <3>6. ASSUME m \in File, dent'[m].reval = 0, Trusted(m)'
          PROVE  /\ pc[u].step < 2 => dent'[m].obj = None
                 /\ pc[u].step = 1 /\ IsThere(0, Parent[m])' => h'[0][m] = None /\ m \notin wh'
                 /\ pc[u].step = 2 => dent'[m].obj = View(m)'
      <4>1. Trusted(m) /\ dent[m].reval = 0 /\ dent'[m].obj = dent[m].obj
        BY <1>2, <1>13, <3>4, <3>5, <3>6
      <4>2. View(m)' = View(m) /\ h'[0][m] = h[0][m] /\ (m \in wh' <=> m \in wh)
        BY <1>5, <1>14, <3>4, <3>6 DEF Branch
      <4>. QED BY <1>12, <3>5, <3>6, <4>1, <4>2
    <3>7. /\ dent'[m] # None /\ ~dent'[m].hashed
          /\ m = Sub => \A b \in there' : b < pc[u].step => b \in dent'[m].at
      BY <1>2, <3>4, <3>5
    <3>. QED BY <3>4, <3>6, <3>7 DEF LookupAt
  <2>. QED BY <2>1 DEF LookupOK
<1>17. OwnOK'
  <2>1. ASSUME NEW u \in Proc, NEW m \in File, m = pc'[u].n, pc'[u].op = "own", Trusted(m)'
        PROVE  IsThere(0, Parent[m])'
    <3>1. pc[u].op = "own" /\ pc[u].n = m
      BY <1>3, <1>4, <2>1
    <3>2. ilock[Parent[m]] # None
      BY <1>0, <3>1 DEF LockOK, DirOf
    <3>3. Trusted(m)
      BY <1>13, <2>1, <3>2
    <3>. QED BY <1>0, <1>12, <3>1, <3>3 DEF OwnOK
  <2>. QED BY <1>7, <2>1 DEF OwnOK, PcOK
<1>18. Shown'
  <2>1. ASSUME NEW m \in File, Cached(m)', dent'[m].reval = 0, Trusted(m)'
        PROVE  dent'[m].obj = View(m)'
    <3>1. CASE m = n
      <4>1. x # None /\ x.obj = o /\ o # None
        BY <1>2, <2>1, <3>1 DEF Cached
      <4>2. Trusted(n)
        BY <1>13, <1>15, <2>1, <3>1
      <4>3. IsThere(0, Parent[n])'
        BY <1>0, <1>12, <4>2 DEF OwnOK
      <4>4. View(n)' = h'[0][n]
        BY <1>5, <4>1, <4>3 DEF View
      <4>. QED BY <1>2, <1>5, <3>1, <4>1, <4>4
    <3>2. CASE m # n
      <4>1. dent[m] # None /\ Cached(m) /\ dent[m].reval = 0 /\ dent'[m].obj = dent[m].obj
        BY <1>2, <2>1, <3>2 DEF Cached
      <4>2. Trusted(m) /\ View(m)' = View(m)
        BY <1>13, <1>14, <2>1, <3>2, <4>1
      <4>. QED BY <1>0, <4>1, <4>2 DEF Shown
    <3>. QED BY <3>1, <3>2
  <2>. QED BY <2>1 DEF Shown
<1>. QED BY <1>1, <1>6, <1>7, <1>8, <1>10, <1>11, <1>16, <1>17, <1>18 DEF HInv

LEMMA OwnStep ==
    ASSUME HInv, NEW t \in Proc, OwnChange(t) PROVE HInv'
<1>. USE DirFacts
<1>. DEFINE d == pc[t].acc
<1>0. /\ TypeOK /\ PcOK /\ OwnOK /\ LockOK /\ SubHeld
      /\ pc \in [Proc -> PcType] /\ dent \in [Name -> DentryType \cup {None}]
      /\ h \in [Branch -> [File -> Obj \cup {None}]] /\ wh \subseteq File
  BY DEF HInv, PcOK, TypeOK
<1>1. /\ pc[t].op = "own" /\ pc[t].step = 1
      /\ pc' = [pc EXCEPT ![t].step = @ + 1]
      /\ UNCHANGED <<there, mask, ilock, hlock>>
  BY DEF OwnChange, Step
<1>2. PICK n \in File : n = pc[t].n
  BY <1>0, <1>1 DEF PcOK
<1>. DEFINE Ev == {Event(0, Parent[n], n, FALSE)}
<1>3. \/ /\ \E o \in Obj :
               /\ h' = [h EXCEPT ![0][n] = o]
               /\ dent' = [DentOf(Ev) EXCEPT ![n] = IF @ = None THEN None
                                                    ELSE Dentry({0}, o, @.reval, TRUE)]
         /\ wh' = wh \ {n} /\ queue' = QueueOf(Ev)
      \/ /\ dent' = [DentOf(Ev) EXCEPT ![n] = None] /\ queue' = QueueOf(Ev)
         /\ UNCHANGED <<h, wh>>
      \/ /\ h' = [h EXCEPT ![0][n] = IF 0 \in d.at THEN None ELSE @]
         /\ wh' = IF IsThere(1, Parent[n]) /\ h[1][n] # None THEN wh \cup {n} ELSE wh
         /\ dent' = [DentOf(Ev) EXCEPT ![n] = None] /\ queue' = QueueOf(Ev)
      \/ UNCHANGED <<h, wh, dent, queue>>
  BY <1>2 DEF OwnChange
<1>7. vdir' \in [Dir -> {"none", "good", "stale"}]
  <2>1. vdir \in [Dir -> {"none", "good", "stale"}]
    BY <1>0 DEF TypeOK
  <2>2. vdir' = vdir \/ vdir' = [vdir EXCEPT ![Parent[n]] = "none"]
    BY <1>2 DEF OwnChange
  <2>. QED BY <2>1, <2>2
<1>. HIDE DEF Ev
<1>4. ASSUME NEW o \in Obj, h' = [h EXCEPT ![0][n] = o],
             dent' = [DentOf(Ev) EXCEPT ![n] = IF @ = None THEN None
                                               ELSE Dentry({0}, o, @.reval, TRUE)],
             wh' = wh \ {n}, queue' = QueueOf(Ev)
      PROVE  HInv'
  <2>. DEFINE x == IF DentOf(Ev)[n] = None THEN None
                   ELSE Dentry({0}, o, DentOf(Ev)[n].reval, TRUE)
  <2>1. /\ DentOf(Ev) \in [Name -> DentryType \cup {None}]
        /\ DentOf(Ev)[n] = None <=> dent[n] = None
    BY <1>0, DentOfFacts
  <2>2. x \in DentryType \cup {None} /\ (x # None => dent[n] # None /\ x.obj = o)
    <3>1. CASE DentOf(Ev)[n] = None
      BY <3>1
    <3>2. CASE DentOf(Ev)[n] # None
      <4>1. DentOf(Ev)[n].reval \in 0 .. 1
        BY <2>1, <3>2 DEF DentryType
      <4>. QED BY <2>1, <3>2, <4>1 DEF Dentry, DentryType, Branch
    <3>. QED BY <3>1, <3>2
  <2>3. dent' = [DentOf(Ev) EXCEPT ![n] = x]
    BY <1>4, <2>1
  <2>4. o # None /\ o \in Obj \cup {None} /\ wh' \subseteq File
        /\ \A m \in File : m # n => (m \in wh' <=> m \in wh)
    BY <1>0, <1>4, HinotifyAssumption
  <2>. HIDE DEF x
  <2>. QED BY <1>1, <1>2, <1>4, <1>7, <2>2, <2>3, <2>4, OwnInv DEF Ev
<1>5. ASSUME h' = [h EXCEPT ![0][n] = IF 0 \in d.at THEN None ELSE @],
             wh' = IF IsThere(1, Parent[n]) /\ h[1][n] # None THEN wh \cup {n} ELSE wh,
             dent' = [DentOf(Ev) EXCEPT ![n] = None],
             queue' = QueueOf(Ev)
      PROVE  HInv'
  <2>. DEFINE o == IF 0 \in d.at THEN None ELSE h[0][n]
  <2>1. o \in Obj \cup {None} /\ h' = [h EXCEPT ![0][n] = o]
    BY <1>0, <1>5 DEF Branch
  <2>2. wh' \subseteq File /\ \A m \in File : m # n => (m \in wh' <=> m \in wh)
    BY <1>0, <1>5
  <2>. HIDE DEF o
  <2>3. PICK x \in DentryType \cup {None} : x = None
    OBVIOUS
  <2>4. /\ dent' = [DentOf(Ev) EXCEPT ![n] = x] /\ queue' = QueueOf(Ev)
        /\ x # None => dent[n] # None /\ o # None /\ x.obj = o
    BY <1>5, <2>3
  <2>. QED BY <1>1, <1>2, <1>7, <2>1, <2>2, <2>4, OwnInv DEF Ev
<1>6. CASE UNCHANGED <<h, wh, dent, queue>>
  <2>. DEFINE c == [pc[t] EXCEPT !.step = 2]
  <2>1. pc[t] \in PcType /\ pc' = [pc EXCEPT ![t] = c]
    BY <1>0, <1>1
  <2>2. c \in PcType /\ c.op = "own" /\ c.n = n
    BY <1>1, <1>2, <2>1 DEF PcType
  <2>. HIDE DEF c
  <2>3. /\ Trusted(n) => IsThere(0, Parent[n])
        /\ ilock[Parent[n]] = t /\ (ilock[Sub] # None => Cached(Sub))
    BY <1>0, <1>1, <1>2 DEF OwnOK, LockOK, DirOf, SubHeld
  <2>4. /\ ilock' \in [Dir -> Proc \cup {None}] /\ vdir' \in [Dir -> {"none", "good", "stale"}]
        /\ mask' \in [Branch -> [Dir -> {"none", "on", "off"}]]
        /\ hlock' \in [Branch -> [Dir -> Proc \cup {None}]]
        /\ \A b \in Branch, p \in Dir :
                /\ mask'[b][p] = "none" => mask[b][p] = "none"
                /\ mask'[b][p] = "off" => hlock'[b][p] # None
    BY <1>0, <1>1, <1>7 DEF TypeOK
  <2>. QED BY <1>1, <1>6, <2>1, <2>2, <2>3, <2>4, CallInv
<1>8. CASE /\ dent' = [DentOf(Ev) EXCEPT ![n] = None] /\ queue' = QueueOf(Ev)
           /\ UNCHANGED <<h, wh>>
  <2>. DEFINE o == h[0][n]
  <2>1. o \in Obj \cup {None} /\ h' = [h EXCEPT ![0][n] = o]
    BY <1>0, <1>8 DEF Branch
  <2>2. wh' \subseteq File /\ \A m \in File : m # n => (m \in wh' <=> m \in wh)
    BY <1>0, <1>8
  <2>. HIDE DEF o
  <2>3. PICK x \in DentryType \cup {None} : x = None
    OBVIOUS
  <2>4. /\ dent' = [DentOf(Ev) EXCEPT ![n] = x] /\ queue' = QueueOf(Ev)
        /\ x # None => dent[n] # None /\ o # None /\ x.obj = o
    BY <1>8, <2>3
  <2>. QED BY <1>1, <1>2, <1>7, <2>1, <2>2, <2>4, OwnInv DEF Ev
<1>. QED BY <1>3, <1>4, <1>5, <1>6, <1>8

-----------------------------------------------------------------------------
LEMMA InitHInv ==
    ASSUME Init PROVE HInv
<1>. USE DirFacts
<1>1. TypeOK
  BY DEF Init, TypeOK, Branch
<1>2. PcOK
  BY IdleFacts DEF Init, PcOK
<1>3. LockOK /\ LookupOK /\ OwnOK
  BY IdleFacts DEF Init, LockOK, LookupOK, OwnOK
<1>4. WatchOK /\ SubHeld /\ Shown
  BY DEF Init, WatchOK, SubHeld, Shown, Cached
<1>5. RootQueue
  BY Zenon DEF Init, RootQueue
<1>. QED BY <1>1, <1>2, <1>3, <1>4, <1>5 DEF HInv

LEMMA NextHInv ==
    ASSUME HInv, [Next]_vars PROVE HInv'
<1>1. CASE UNCHANGED vars
  <2>1. UNCHANGED <<h, there, wh, mask, dent, queue, vdir, ilock, hlock, pc>>
    BY <1>1 DEF vars
  <2>2. /\ queue' \in [Dir -> [BOOLEAN -> Nat]]
        /\ vdir' \in [Dir -> {"none", "good", "stale"}]
    BY <2>1 DEF HInv, TypeOK
  <2>3. RootQueue'
    BY <2>1, Zenon DEF HInv, RootQueue
  <2>. QED BY <2>1, <2>2, <2>3, IdleInv
<1>2. CASE Foreign
  BY <1>2, ForeignStep
<1>3. ASSUME NEW n \in Name, Invalidate(n) PROVE HInv'
  BY <1>3, InvalidateStep
<1>4. ASSUME NEW t \in Proc, Run(t) PROVE HInv'
  <2>1. CASE LookupBranch(t)
    BY <2>1, LookupVisit
  <2>2. CASE EndLookup(t)
    BY <2>2, LookupEnd
  <2>3. CASE HdirLock(t) \/ HdirUnlock(t)
    BY <2>3, OwnLock
  <2>4. CASE OwnChange(t)
    BY <2>4, OwnStep
  <2>5. CASE ReaddirBranch(t) \/ EndReaddir(t)
    BY <2>5, ReaddirStep
  <2>. QED BY <1>4, <2>1, <2>2, <2>3, <2>4, <2>5 DEF Run
<1>5. ASSUME NEW t \in Proc, Begin(t) PROVE HInv'
  BY <1>5, LookupBegin, OwnBegin, ReaddirStep DEF Begin
<1>6. ASSUME NEW p \in Dir, NEW s \in BOOLEAN, Postproc(p, s) PROVE HInv'
  BY <1>6, PostprocStep
<1>. QED BY <1>1, <1>2, <1>3, <1>4, <1>5, <1>6 DEF Next

(* The invariant of the inotify handler: locks, watches and marks fit       *)
(* together in every state that direct changes, lookups, creates, unlinks   *)
(* and the kernel thread can reach.                                         *)
THEOREM HInvHolds == Spec => []HInv
<1>1. Init => HInv
  BY InitHInv
<1>2. HInv /\ [Next]_vars => HInv'
  BY NextHInv
<1>. QED BY <1>1, <1>2, PTL DEF Spec

(* Every variable keeps its type, and the mask of a watch is empty only     *)
(* while aufs holds the directory (do_hdir_lock, hdir_unlock).              *)
THEOREM TypeCorrect == Spec => []TypeOK
<1>1. HInv => TypeOK
  BY DEF HInv
<1>. QED BY <1>1, HInvHolds, PTL

(* A dentry that a path walk accepts shows what the branches hold, whoever  *)
(* changed a branch and in the middle of which call on the union.           *)
THEOREM FreshSafe == Spec => []Fresh
<1>1. HInv => Fresh
  <2>. SUFFICES ASSUME HInv, NEW n \in File, Cached(n), Valid(n),
                       Parent[n] = Sub => Valid(Sub)
                PROVE  dent[n].obj = View(n)
    BY DEF Fresh
  <2>. QED BY DEF HInv, Shown, Valid, Trusted
<1>. QED BY <1>1, HInvHolds, PTL

-----------------------------------------------------------------------------
(* Merged lists that lack a change, on top of HInv. *)

(* A change that a list under way lacks has its postproc queued as well. *)
ReadDue == \A t \in Proc : pc[t].op = "readdir" /\ pc[t].acc = "stale" => Due(pc[t].n)

(* A list goes with the inode of its directory, so one that is there is    *)
(* the list of a directory with watches.                                   *)
SubList == vdir[Sub] # "none" => Cached(Sub)

LInv == ListDue /\ ReadDue /\ SubList

(* Nothing is taken from the queue. *)
LEMMA DueKept ==
    ASSUME \A p \in Dir, s \in BOOLEAN : queue'[p][s] \in Nat /\ queue[p][s] \in Nat /\ queue'[p][s] >= queue[p][s]
    PROVE  \A p \in Dir : Due(p) => Due(p)'
<1>. SUFFICES ASSUME NEW p \in Dir, Due(p) PROVE Due(p)'
  OBVIOUS
<1>1. PICK s \in BOOLEAN : queue[p][s] > 0
  BY DEF Due
<1>2. queue'[p][s] > 0
  <2>. DEFINE a == queue[p][s]
              b == queue'[p][s]
  <2>1. a \in Nat /\ b \in Nat /\ b >= a /\ a > 0
    BY <1>1, Zenon
  <2>. HIDE DEF a, b
  <2>2. b > 0
    BY <2>1
  <2>. QED BY <2>2, Zenon DEF b
<1>. QED BY <1>2 DEF Due

(* A step that makes no list and no list outdated. *)
LEMMA KeepList ==
    ASSUME LInv, \A p \in Dir : Due(p) => Due(p)',
           \A p \in Dir : vdir'[p] \in {vdir[p], "none"}, Cached(Sub) => Cached(Sub)',
           \A t \in Proc : pc'[t].op = "readdir" /\ pc'[t].acc = "stale" =>
                /\ pc[t].op = "readdir" /\ pc[t].acc = "stale"
                /\ pc'[t].n = pc[t].n /\ pc[t].n \in Dir
    PROVE  LInv'
<1>1. ListDue'
  BY DEF LInv, ListDue
<1>2. ReadDue'
  BY DEF LInv, ReadDue
<1>3. SubList'
  BY DirFacts DEF LInv, SubList
<1>. QED BY <1>1, <1>2, <1>3 DEF LInv

(* A direct change to the directory p of branch b: its event is delivered, *)
(* because who has a list of the directory has it in the cache.            *)
LEMMA OutdateInv ==
    ASSUME HInv, LInv, NEW b \in Branch, NEW p \in Dir, NEW Ev, NEW e \in Ev,
           e.b = b, e.dir = p, e.self \in BOOLEAN, IsFiniteSet(Ev),
           \A x \in Ev : x.self \in BOOLEAN /\ x.name # Root /\ (x.dir = Root => x.self = FALSE),
           IsThere(b, p), hlock[b][p] = None, Handle(Ev), Outdate(b, p)
    PROVE  LInv'
<1>. USE DirFacts
<1>0. /\ TypeOK /\ PcOK /\ LockOK /\ WatchOK /\ SubHeld /\ RootQueue
      /\ ListDue /\ ReadDue /\ SubList
      /\ queue \in [Dir -> [BOOLEAN -> Nat]] /\ vdir \in [Dir -> {"none", "good", "stale"}]
      /\ mask \in [Branch -> [Dir -> {"none", "on", "off"}]]
      /\ mask[b][p] = "off" => hlock[b][p] # None
  BY DEF HInv, LInv, TypeOK
<1>1. /\ queue' \in [Dir -> [BOOLEAN -> Nat]]
      /\ \A q \in Dir, s \in BOOLEAN : queue'[q][s] >= queue[q][s]
      /\ e \in Hit(Ev) => queue'[p][e.self] > 0
  BY <1>0, QueueOfFacts DEF Handle
<1>2. \A q \in Dir : Due(q) => Due(q)'
  BY <1>0, <1>1, DueKept
<1>3. p = Root \/ Cached(Sub) => Due(p)'
  <2>1. ASSUME p = Root \/ Cached(Sub) PROVE mask[b][p] # "none"
    BY <1>0, <2>1 DEF WatchOK, IsThere
  <2>2. ASSUME p = Root \/ Cached(Sub) PROVE e \in Hit(Ev)
    BY <1>0, <2>1, <2>2 DEF Hit
  <2>. QED BY <1>1, <2>2 DEF Due
<1>4. \A q \in Dir : vdir'[q] = vdir[q] \/ (q = p /\ vdir[q] = "good" /\ vdir'[q] = "stale")
  BY <1>0 DEF Outdate
<1>5. ListDue'
  <2>. SUFFICES ASSUME NEW q \in Dir, vdir'[q] = "stale" PROVE Due(q)'
    BY DEF ListDue
  <2>1. CASE vdir[q] = "stale"
    BY <1>0, <1>2, <2>1 DEF ListDue
  <2>2. CASE vdir[q] # "stale"
    <3>1. q = p /\ vdir[p] = "good"
      BY <1>4, <2>2
    <3>. QED BY <1>0, <1>3, <3>1 DEF SubList
  <2>. QED BY <2>1, <2>2
<1>6. ReadDue'
  <2>1. ASSUME NEW t \in Proc, pc'[t].op = "readdir", pc'[t].acc = "stale"
        PROVE  \E q \in Dir : pc'[t].n = q /\ Due(q)'
    <3>1. PICK q \in Dir : pc[t].op = "readdir" /\ pc[t].n = q /\ pc'[t].n = q
      BY <1>0, <2>1, OutdateFacts DEF PcOK
    <3>2. pc'[t] = pc[t] \/ q = p
      BY <3>1 DEF Outdate
    <3>3. CASE pc'[t] = pc[t]
      <4>1. Due(q)
        BY <1>0, <2>1, <3>1, <3>3 DEF ReadDue
      <4>. QED BY <1>2, <3>1, <4>1
    <3>4. CASE q = p
      <4>1. ilock[p] = t
        BY <1>0, <3>1, <3>4 DEF LockOK, DirOf
      <4>2. p = Root \/ Cached(Sub)
        BY <1>0, <4>1 DEF SubHeld
      <4>. QED BY <1>3, <3>1, <3>4, <4>2
    <3>. QED BY <3>2, <3>3, <3>4
  <2>. QED BY <2>1 DEF ReadDue, Due
<1>7. SubList'
  <2>1. Cached(Sub) => Cached(Sub)'
    BY <1>0, DentOfFacts DEF Handle, Cached
  <2>2. vdir'[Sub] # "none" => vdir[Sub] # "none"
    BY <1>4
  <2>. QED BY <1>0, <2>1, <2>2 DEF SubList
<1>. QED BY <1>5, <1>6, <1>7 DEF LInv

LEMMA ForeignList ==
    ASSUME HInv, LInv, Foreign PROVE LInv'
<1>. USE DirFacts
<1>1. ASSUME NEW b \in Branch, NEW n \in File, NEW o \in Obj \cup {None}, ForeignFile(b, n, o)
      PROVE  LInv'
  <2>. DEFINE e == Event(b, Parent[n], n, FALSE)
              Ev == {e}
  <2>1. IsThere(b, Parent[n]) /\ hlock[b][Parent[n]] = None /\ Handle(Ev) /\ Outdate(b, Parent[n])
    BY <1>1 DEF ForeignFile
  <2>2. e.b = b /\ e.dir = Parent[n] /\ e.name = n /\ e.self = FALSE
    BY DEF Event
  <2>. HIDE DEF e
  <2>3. /\ IsFiniteSet(Ev) /\ e \in Ev
        /\ \A x \in Ev : x.self \in BOOLEAN /\ x.name # Root /\ (x.dir = Root => x.self = FALSE)
    BY <2>2, FS_Singleton
  <2>. HIDE DEF Ev
  <2>. QED BY <2>1, <2>2, <2>3, OutdateInv
<1>2. ASSUME NEW b \in Branch, ForeignMove(b) PROVE LInv'
  <2>. DEFINE e == Event(b, Root, Sub, FALSE)
              f == Event(b, Sub, Sub, TRUE)
              Ev == {e, f}
  <2>1. hlock[b][Root] = None /\ IsThere(b, Root) /\ Handle(Ev) /\ Outdate(b, Root)
    BY <1>2 DEF ForeignMove, IsThere
  <2>2. /\ e.b = b /\ e.dir = Root /\ e.name = Sub /\ e.self = FALSE
        /\ f.b = b /\ f.dir = Sub /\ f.name = Sub /\ f.self = TRUE
    BY DEF Event
  <2>. HIDE DEF e, f
  <2>3. IsFiniteSet(Ev)
    <3>1. IsFiniteSet({e}) /\ Ev = {e} \cup {f}
      BY FS_Singleton
    <3>. QED BY <3>1, FS_AddElement
  <2>4. /\ e \in Ev
        /\ \A x \in Ev : x.self \in BOOLEAN /\ x.name # Root /\ (x.dir = Root => x.self = FALSE)
    BY <2>2
  <2>. HIDE DEF Ev
  <2>. QED BY <2>1, <2>2, <2>3, <2>4, OutdateInv
<1>. QED BY <1>1, <1>2 DEF Foreign

(* Whoever drops the subdirectory drops its list. *)
LEMMA DropList ==
    ASSUME TypeOK, NEW n \in Name, Drop({n})
    PROVE  /\ \A p \in Dir : vdir'[p] = IF p = Sub /\ n = Sub THEN "none" ELSE vdir[p]
           /\ n # Sub /\ Cached(Sub) => Cached(Sub)'
<1>. USE DirFacts
<1>0. vdir \in [Dir -> {"none", "good", "stale"}]
  BY DEF TypeOK
<1>1. \A p \in Dir : vdir'[p] = IF p = Sub /\ n = Sub THEN "none" ELSE vdir[p]
  BY <1>0 DEF Drop
<1>2. n # Sub => dent'[Sub] = dent[Sub]
  BY DEF Drop, Below
<1>. QED BY <1>1, <1>2 DEF Cached

LEMMA InvalidateList ==
    ASSUME HInv, LInv, NEW n \in Name, Invalidate(n) PROVE LInv'
<1>. USE DirFacts
<1>1. TypeOK /\ PcOK /\ ListDue /\ ReadDue /\ SubList
  BY DEF HInv, LInv
<1>2. Drop({n}) /\ UNCHANGED <<queue, pc>>
  BY DEF Invalidate
<1>3. /\ \A p \in Dir : vdir'[p] = IF p = Sub /\ n = Sub THEN "none" ELSE vdir[p]
      /\ n # Sub /\ Cached(Sub) => Cached(Sub)'
  BY <1>1, <1>2, DropList
<1>4. \A p \in Dir : Due(p)' <=> Due(p)
  BY <1>2 DEF Due
<1>5. ListDue'
  BY <1>1, <1>3, <1>4 DEF ListDue
<1>6. ReadDue'
  BY <1>1, <1>2, <1>4 DEF ReadDue, PcOK
<1>7. SubList'
  BY <1>1, <1>3 DEF SubList
<1>. QED BY <1>5, <1>6, <1>7 DEF LInv

(* postproc takes a call from the queue and makes the list obsolete under   *)
(* the i_mutex of the directory, so that no list of it is under way.       *)
LEMMA PostprocList ==
    ASSUME HInv, LInv, NEW p \in Dir, NEW s \in BOOLEAN, Postproc(p, s) PROVE LInv'
<1>. USE DirFacts
<1>1. /\ TypeOK /\ PcOK /\ LockOK /\ RootQueue /\ ListDue /\ ReadDue /\ SubList
      /\ queue \in [Dir -> [BOOLEAN -> Nat]] /\ vdir \in [Dir -> {"none", "good", "stale"}]
  BY DEF HInv, LInv, TypeOK
<1>2. /\ queue[p][s] > 0 /\ ilock[p] = None /\ UNCHANGED pc
      /\ queue' = [queue EXCEPT ![p][s] = @ - 1]
  BY DEF Postproc
<1>3. \A q \in Dir : q # p => (Due(q)' <=> Due(q))
  BY <1>1, <1>2 DEF Due
<1>9. s => p = Sub
  <2>. DEFINE a == queue[p][s]
  <2>1. a > 0
    BY <1>2, Zenon
  <2>. HIDE DEF a
  <2>2. a # 0
    BY <2>1
  <2>3. ASSUME s, p = Root PROVE FALSE
    <3>1. s = TRUE
      BY <2>3, Zenon
    <3>2. a = 0
      BY <1>1, <2>3, <3>1, Zenon DEF RootQueue, a
    <3>. QED BY <2>2, <3>2
  <2>. QED BY <2>3
<1>4. \A q \in Dir : vdir'[q] = IF q = p THEN "none" ELSE vdir[q]
  <2>1. CASE s /\ Cached(p)
    <3>1. p = Sub /\ Drop({Sub})
      <4>1. p = Sub
        BY <1>9, <2>1
      <4>. QED BY <2>1, <4>1 DEF Postproc
    <3>. QED BY <1>1, <3>1, DropList
  <2>2. CASE ~(s /\ Cached(p))
    <3>1. vdir' = [vdir EXCEPT ![p] = "none"]
      BY <2>2 DEF Postproc
    <3>. QED BY <1>1, <3>1
  <2>. QED BY <2>1, <2>2
<1>5. p # Sub /\ Cached(Sub) => Cached(Sub)'
  <2>1. ASSUME p # Sub PROVE UNCHANGED dent
    <3>1. ~s
      BY <1>9, <2>1
    <3>. QED BY <3>1 DEF Postproc
  <2>. QED BY <2>1 DEF Cached
<1>6. ListDue'
  BY <1>1, <1>3, <1>4 DEF ListDue
<1>7. ReadDue'
  <2>1. \A t \in Proc : pc[t].op = "readdir" => pc[t].n \in Dir /\ pc[t].n # p
    BY <1>1, <1>2 DEF PcOK, LockOK, DirOf
  <2>. QED BY <1>1, <1>2, <1>3, <2>1 DEF ReadDue
<1>8. SubList'
  BY <1>1, <1>4, <1>5 DEF SubList
<1>. QED BY <1>6, <1>7, <1>8 DEF LInv

(* The list of a readdir was outdated under way, or is up to date. *)
LEMMA EndReaddirList ==
    ASSUME HInv, LInv, NEW t \in Proc, EndReaddir(t) PROVE LInv'
<1>. USE DirFacts
<1>1. /\ PcOK /\ LockOK /\ SubHeld /\ ListDue /\ ReadDue /\ SubList
      /\ pc \in [Proc -> PcType] /\ vdir \in [Dir -> {"none", "good", "stale"}]
  BY DEF HInv, LInv, TypeOK, PcOK
<1>2. /\ pc[t].op = "readdir" /\ vdir' = [vdir EXCEPT ![pc[t].n] = pc[t].acc]
      /\ pc' = [pc EXCEPT ![t] = Idle] /\ UNCHANGED <<dent, queue>>
  BY DEF EndReaddir, Done
<1>3. pc[t].n \in Dir /\ ilock[pc[t].n] = t
  BY <1>1, <1>2 DEF PcOK, LockOK, DirOf
<1>4. \A p \in Dir : Due(p)' <=> Due(p)
  BY <1>2 DEF Due
<1>5. ListDue'
  BY <1>1, <1>2, <1>3, <1>4 DEF ListDue, ReadDue
<1>6. ReadDue'
  BY <1>1, <1>2, <1>4, IdleFacts DEF ReadDue, PcOK
<1>7. SubList'
  <2>1. Cached(Sub)' <=> Cached(Sub)
    BY <1>2 DEF Cached
  <2>2. pc[t].n = Sub => Cached(Sub)
    BY <1>1, <1>3 DEF SubHeld
  <2>3. pc[t].n # Sub => vdir'[Sub] = vdir[Sub]
    BY <1>1, <1>2, <1>3
  <2>. QED BY <1>1, <2>1, <2>2, <2>3 DEF SubList
<1>. QED BY <1>5, <1>6, <1>7 DEF LInv

(* The other steps of a process: the list may become obsolete, and what a  *)
(* create or unlink does to the branch takes nothing from the queue.       *)
LEMMA ProcList ==
    ASSUME HInv, LInv, NEW t \in Proc,
           \/ \E n \in Name : BeginLookup(t, n)
           \/ \E n \in File : BeginOwn(t, n)
           \/ \E p \in Dir : BeginReaddir(t, p)
           \/ LookupBranch(t) \/ EndLookup(t) \/ HdirLock(t) \/ HdirUnlock(t)
           \/ OwnChange(t) \/ ReaddirBranch(t)
    PROVE  LInv'
<1>. USE DirFacts
<1>1. /\ TypeOK /\ PcOK /\ LookupOK /\ RootQueue
      /\ pc \in [Proc -> PcType] /\ dent \in [Name -> DentryType \cup {None}]
      /\ queue \in [Dir -> [BOOLEAN -> Nat]] /\ vdir \in [Dir -> {"none", "good", "stale"}]
  BY DEF HInv, PcOK, TypeOK
<1>2. ASSUME ~OwnChange(t) PROVE UNCHANGED <<queue, vdir>>
  BY <1>2 DEF BeginLookup, BeginOwn, BeginReaddir, LookupBranch, EndLookup, HdirLock, HdirUnlock, ReaddirBranch
<1>3. \A p \in Dir : Due(p) => Due(p)'
  <2>1. CASE UNCHANGED queue
    BY <2>1 DEF Due
  <2>2. CASE OwnChange(t) /\ ~UNCHANGED queue
    <3>1. PICK n \in File : n = pc[t].n /\ queue' = QueueOf({Event(0, Parent[n], n, FALSE)})
      BY <1>1, <2>2 DEF OwnChange, PcOK
    <3>. DEFINE e == Event(0, Parent[n], n, FALSE)
                Ev == {e}
    <3>2. e.name = n /\ e.self = FALSE
      BY DEF Event
    <3>. HIDE DEF e
    <3>3. /\ IsFiniteSet(Ev)
          /\ \A x \in Ev : x.self \in BOOLEAN /\ x.name # Root /\ (x.dir = Root => x.self = FALSE)
      BY <3>2, FS_Singleton
    <3>4. queue' = QueueOf(Ev)
      BY <3>1 DEF e
    <3>. HIDE DEF Ev
    <3>5. /\ queue' \in [Dir -> [BOOLEAN -> Nat]]
          /\ \A q \in Dir, s \in BOOLEAN : queue'[q][s] >= queue[q][s]
      BY <1>1, <3>3, <3>4, QueueOfFacts
    <3>. QED BY <1>1, <3>5, DueKept
  <2>. QED BY <1>2, <2>1, <2>2
<1>4. \A p \in Dir : vdir'[p] \in {vdir[p], "none"}
  <2>1. CASE OwnChange(t)
    <3>1. vdir' = vdir \/ vdir' = [vdir EXCEPT ![Parent[pc[t].n]] = "none"]
      BY <2>1 DEF OwnChange
    <3>. QED BY <1>1, <3>1
  <2>. QED BY <1>2, <2>1
<1>5. Cached(Sub) => Cached(Sub)'
  <2>. SUFFICES ASSUME Cached(Sub) PROVE Cached(Sub)'
    OBVIOUS
  <2>1. CASE \E n \in Name : BeginLookup(t, n)
    BY <1>1, <2>1 DEF BeginLookup, Cached
  <2>2. CASE LookupBranch(t)
    <3>1. pc[t].n \in Name /\ pc[t].n # Sub
      BY <1>1, <2>2 DEF LookupBranch, LookupOK, LookupAt, PcOK, Cached
    <3>2. dent'[Sub] = dent[Sub]
      BY <1>1, <2>2, <3>1 DEF LookupBranch
    <3>. QED BY <3>2 DEF Cached
  <2>3. CASE EndLookup(t)
    <3>1. pc[t].n \in Name /\ pc[t].n # Sub
      BY <1>1, <2>3 DEF EndLookup, LookupOK, LookupAt, PcOK, Cached
    <3>2. dent'[Sub] = dent[Sub]
      BY <1>1, <2>3, <3>1 DEF EndLookup
    <3>. QED BY <3>2 DEF Cached
  <2>4. CASE OwnChange(t)
    <3>1. PICK n \in File : n = pc[t].n
      BY <1>1, <2>4 DEF OwnChange, PcOK
    <3>. DEFINE Ev == {Event(0, Parent[n], n, FALSE)}
    <3>2. dent' = dent \/ \E x : dent' = [DentOf(Ev) EXCEPT ![n] = x]
      BY <2>4, <3>1 DEF OwnChange
    <3>. HIDE DEF Ev
    <3>3. dent' = dent \/ dent'[Sub] = DentOf(Ev)[Sub]
      BY <1>1, <3>2, DentOfFacts
    <3>. QED BY <1>1, <3>3, DentOfFacts DEF Cached
  <2>5. CASE UNCHANGED dent
    BY <2>5 DEF Cached
  <2>. QED BY <2>1, <2>2, <2>3, <2>4, <2>5
        DEF BeginOwn, BeginReaddir, HdirLock, HdirUnlock, ReaddirBranch
<1>6. ASSUME NEW u \in Proc, pc'[u].op = "readdir", pc'[u].acc = "stale"
      PROVE  /\ pc[u].op = "readdir" /\ pc[u].acc = "stale"
             /\ pc'[u].n = pc[u].n /\ pc[u].n \in Dir
  <2>1. pc[u] \in PcType
    BY <1>1
  <2>2. u = t => ~EndLookup(t) /\ ~HdirUnlock(t)
    BY <1>1, <1>6, IdleFacts DEF EndLookup, HdirUnlock, Done
  <2>3. u = t => (\A n \in Name : ~BeginLookup(t, n)) /\ (\A n \in File : ~BeginOwn(t, n))
    <3>1. ASSUME NEW n \in Name, BeginLookup(t, n) PROVE u # t
      BY <1>1, <1>6, <3>1 DEF BeginLookup, Go
    <3>2. ASSUME NEW n \in File, BeginOwn(t, n) PROVE u # t
      <4>. DEFINE c == [op |-> "own", n |-> n, step |-> 0, acc |-> dent[n]]
      <4>1. pc' = [pc EXCEPT ![t] = c] /\ c.op = "own"
        BY <3>2 DEF BeginOwn
      <4>. HIDE DEF c
      <4>. QED BY <1>1, <1>6, <4>1
    <3>. QED BY <3>1, <3>2
  <2>4. u = t => \A p \in Dir : ~BeginReaddir(t, p)
    BY <1>1, <1>6 DEF BeginReaddir
  <2>5. pc'[u] = pc[u] \/ \E k : pc'[u] = [pc[u] EXCEPT !.step = k]
    <3>1. CASE u # t
      BY <1>1, <3>1 DEF BeginLookup, BeginOwn, BeginReaddir, LookupBranch, EndLookup, HdirLock, HdirUnlock,
                OwnChange, ReaddirBranch, Step, Done, Go
    <3>2. CASE u = t
      <4>1. LookupBranch(t) \/ HdirLock(t) \/ OwnChange(t) \/ ReaddirBranch(t)
        BY <2>2, <2>3, <2>4, <3>2
      <4>2. \E k : pc' = [pc EXCEPT ![t].step = k]
        BY <4>1 DEF LookupBranch, HdirLock, OwnChange, ReaddirBranch, Step
      <4>. QED BY <1>1, <3>2, <4>2
    <3>. QED BY <3>1, <3>2
  <2>6. /\ pc[u].op = pc'[u].op /\ pc[u].acc = pc'[u].acc /\ pc'[u].n = pc[u].n
    BY <2>1, <2>5 DEF PcType
  <2>. QED BY <1>1, <1>6, <2>6 DEF PcOK
<1>. QED BY <1>3, <1>4, <1>5, <1>6, KeepList

LEMMA NextLInv ==
    ASSUME HInv, LInv, [Next]_vars PROVE LInv'
<1>1. CASE UNCHANGED vars
  BY <1>1 DEF LInv, ListDue, ReadDue, SubList, Due, Cached, vars
<1>2. CASE Foreign
  BY <1>2, ForeignList
<1>3. ASSUME NEW n \in Name, Invalidate(n) PROVE LInv'
  BY <1>3, InvalidateList
<1>4. ASSUME NEW t \in Proc, Run(t) PROVE LInv'
  BY <1>4, ProcList, EndReaddirList DEF Run
<1>5. ASSUME NEW t \in Proc, Begin(t) PROVE LInv'
  BY <1>5, ProcList DEF Begin
<1>6. ASSUME NEW p \in Dir, NEW s \in BOOLEAN, Postproc(p, s) PROVE LInv'
  BY <1>6, PostprocList
<1>. QED BY <1>1, <1>2, <1>3, <1>4, <1>5, <1>6 DEF Next

(* A merged list that lacks a direct change has its postproc still queued:  *)
(* the directory was watched when the change came, and postproc, which      *)
(* takes the i_mutex, does not run while aufs_readdir makes the list.       *)
THEOREM ListDueSafe == Spec => []ListDue
<1>1. Init => LInv
  BY DirFacts, IdleFacts DEF Init, LInv, ListDue, ReadDue, SubList
<1>2. HInv /\ LInv /\ [Next]_vars => LInv'
  BY NextLInv
<1>3. LInv => ListDue
  BY DEF LInv
<1>. QED BY <1>1, <1>2, <1>3, HInvHolds, PTL DEF Spec

=============================================================================
