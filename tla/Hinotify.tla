------------------------------ MODULE Hinotify -------------------------------
(***************************************************************************)
(* udba=inotify: changes that users make to the branches directly.         *)
(*                                                                         *)
(* Aufs watches every directory of a branch whose inode it has in memory.  *)
(* The handler of an event runs in the process that made the change: it    *)
(* marks the cached dentries of the directory and of the name (di_reval)   *)
(* and queues postproc, which makes the merged list of the directory       *)
(* obsolete later, in a kernel thread.  While aufs itself changes a        *)
(* directory of a branch, it holds its i_mutex and clears the mask of the  *)
(* watch.                                                                  *)
(*                                                                         *)
(* Two branches, 0 above 1; files may exist on both, a whiteout on branch 0 *)
(* hides the file of branch 1.  The subdirectory exists on both branches   *)
(* until a user moves it away from one of them.                            *)
(***************************************************************************)
EXTENDS Integers, FiniteSets

CONSTANTS
    Root, Sub,      \* the root of the union and its subdirectory
    File, Parent,   \* files, and the directory of each name
    Proc,           \* processes that use the union
    Obj,            \* hidden inodes of files
    None,
    MaxForeign      \* bound: changes made to the branches directly

Dir    == {Root, Sub}
Name   == File \cup {Sub}
Branch == {0, 1}

(* A dentry: the branches its hidden dentries are on, the hidden inode it  *)
(* starts with, di_reval; it is not hashed while aufs_lookup runs.         *)
DentryType == [at : SUBSET Branch, obj : Obj \cup {None}, reval : 0 .. 1, hashed : BOOLEAN]

ASSUME HinotifyAssumption ==
    /\ Root \notin Name /\ Sub \notin File
    /\ Parent \in [Name -> Dir] /\ Parent[Sub] = Root
    /\ None \notin Obj \cup Proc \cup {Root, Sub} \cup DentryType
    /\ MaxForeign \in Nat

VARIABLES
    h,          \* the file of a name on a branch
    there,      \* the branches that have the subdirectory
    wh,         \* names with a whiteout on branch 0
    mask,       \* the watch of a hidden directory: "none", "on", "off" (mask 0)
    dent,       \* the cached dentry of a name, or None
    queue,      \* queued calls of postproc: how many per directory and kind
    vdir,       \* the merged list of a directory: "none", "good", "stale"
    ilock,      \* i_mutex of the directories of the union
    hlock,      \* i_mutex of the hidden directories
    pc,         \* what each process is doing
    foreign     \* number of direct changes

vars == <<h, there, wh, mask, dent, queue, vdir, ilock, hlock, pc, foreign>>

hidden == <<h, there, wh, foreign>>

-----------------------------------------------------------------------------

IsThere(b, p) == p = Root \/ b \in there

(* What a lookup of file n returns now. *)
View(n) ==
    LET On(b) == IsThere(b, Parent[n]) /\ h[b][n] # None
    IN  IF On(0) THEN h[0][n]
        ELSE IF On(1) /\ ~(IsThere(0, Parent[n]) /\ n \in wh) THEN h[1][n]
        ELSE None

Dentry(at, o, r, hashed) == [at |-> at, obj |-> o, reval |-> r, hashed |-> hashed]

Cached(n) == dent[n] # None /\ dent[n].hashed

(* hidden_d_revalidate: the hidden dentries are positive or negative like   *)
(* the dentry and have the hidden inodes of its inode.  Those of a directory *)
(* that was moved away keep theirs.                                        *)
HiddenOk(n) ==
    LET d == dent[n]
    IN  CASE n = Sub -> TRUE
          [] n \in File /\ d.obj = None -> ~(IsThere(0, Parent[n]) /\ h[0][n] # None)
          [] n \in File /\ d.obj # None -> \A b \in d.at : h[b][n] = d.obj

(* aufs_d_revalidate. *)
Valid(n) == dent[n].reval = 0 /\ HiddenOk(n)

(* A name can be reached: its directory is the root or is cached. *)
Reach(n) == Parent[n] = Root \/ Cached(Sub)

-----------------------------------------------------------------------------
(* The handler of events. *)

Event(b, p, n, s) == [b |-> b, dir |-> p, name |-> n, self |-> s]

MarkParent(e) == {e.dir} \* mutant: the child of that name is not marked

(* aufs_inotify marks the dentry of the directory and reval_child the one  *)
(* of the name.                                                            *)
MarkedBy(e) == {e.dir, e.name}

(* What the events Ev do: those of a directory without watch or with an    *)
(* empty mask are not delivered.  di_reval is only compared with zero, so  *)
(* it is 0 or 1 here.                                                      *)
Hit(Ev)     == {e \in Ev : mask[e.b][e.dir] = "on"}
Reval(Ev)   == UNION {MarkedBy(e) : e \in Hit(Ev)}
DentOf(Ev)  == [n \in Name |-> IF n \in Reval(Ev) /\ dent[n] # None THEN [dent[n] EXCEPT !.reval = 1]
                               ELSE dent[n]]
QueueOf(Ev) == [p \in Dir |-> [s \in BOOLEAN |->
                    queue[p][s] + Cardinality({e \in Hit(Ev) : e.dir = p /\ e.self = s})]]
Handle(Ev)  == dent' = DentOf(Ev) /\ queue' = QueueOf(Ev)

(* The list of p no longer shows what the branch b holds: as history, for  *)
(* lists that are there and for those that a process is reading.           *)
Outdate(b, p) ==
    /\ vdir' = [vdir EXCEPT ![p] = IF @ = "good" THEN "stale" ELSE @]
    /\ pc' = [t \in Proc |-> IF pc[t].op = "readdir" /\ pc[t].n = p /\ pc[t].step > b
                             THEN [pc[t] EXCEPT !.acc = "stale"] ELSE pc[t]]

(* An inode number that the branch may give to a new file. *)
Unused(o) ==
    /\ \A b \in Branch, n \in File : h[b][n] # o
    /\ \A n \in File : dent[n] # None => dent[n].obj # o

(* A user makes, replaces or removes file n on branch b. *)
ForeignFile(b, n, o) ==
    LET p == Parent[n]
    IN  /\ foreign < MaxForeign /\ IsThere(b, p) /\ hlock[b][p] = None
        /\ h[b][n] # o /\ (o = None \/ Unused(o))
        /\ h' = [h EXCEPT ![b][n] = o]
        /\ Handle({Event(b, p, n, FALSE)})
        /\ Outdate(b, p)
        /\ foreign' = foreign + 1
        /\ UNCHANGED <<there, wh, mask, ilock, hlock>>

(* A user moves the subdirectory away from branch b: an event with a name  *)
(* for the root, and one for the directory itself.  Its own list stays     *)
(* right, what was in the directory is still in it.                        *)
ForeignMove(b) ==
    /\ foreign < MaxForeign /\ b \in there /\ hlock[b][Root] = None
    /\ there' = there \ {b}
    /\ Handle({Event(b, Root, Sub, FALSE), Event(b, Sub, Sub, TRUE)})
    /\ Outdate(b, Root)
    /\ foreign' = foreign + 1
    /\ UNCHANGED <<h, wh, mask, ilock, hlock>>

(* A user makes or removes the whiteout of n on branch 0: the handler does *)
(* not look for the child of a whiteout.                                   *)
ForeignWh(n) ==
    LET p == Parent[n]
    IN  /\ foreign < MaxForeign /\ IsThere(0, p) /\ hlock[0][p] = None
        /\ wh' = IF n \in wh THEN wh \ {n} ELSE wh \cup {n}
        /\ Handle({Event(0, p, p, FALSE)})
        /\ Outdate(0, p)
        /\ foreign' = foreign + 1
        /\ UNCHANGED <<h, there, mask, ilock, hlock>>

-----------------------------------------------------------------------------
(* Processes on the union. *)

Idle  == [op |-> "idle", n |-> None, step |-> 0, acc |-> None]
Go(t, op, n) == pc' = [pc EXCEPT ![t] = [op |-> op, n |-> n, step |-> 0, acc |-> None]]
Step(t)      == pc' = [pc EXCEPT ![t].step = @ + 1]
Done(t)      == pc' = [pc EXCEPT ![t] = Idle]

(* The dentries of S and of what is below them leave the cache; with the   *)
(* inode of the subdirectory go its watches and its list.                  *)
Below(S)  == S \cup {n \in Name : Parent[n] \in S}
Drop(S) ==
    /\ dent' = [n \in Name |-> IF n \in Below(S) THEN None ELSE dent[n]]
    /\ IF Sub \notin S THEN UNCHANGED <<mask, vdir>>
       ELSE /\ mask' = [b \in Branch |-> [mask[b] EXCEPT ![Sub] = "none"]]
            /\ vdir' = [vdir EXCEPT ![Sub] = "none"]

(* d_invalidate does not drop a directory in use: a queued postproc or an  *)
(* operation in it.                                                        *)
Busy(n) == n = Sub /\ (ilock[Sub] # None \/ \E s \in BOOLEAN : queue[Sub][s] > 0)

(* A path walk meets a dentry that is not valid, or the cache is shrunk. *)
Invalidate(n) ==
    /\ Cached(n) /\ Reach(n) /\ ~Busy(n)
    /\ Drop({n})
    /\ UNCHANGED <<hidden, queue, ilock, hlock, pc>>

(* aufs_lookup under the i_mutex of the directory. *)
BeginLookup(t, n) ==
    /\ pc[t] = Idle /\ dent[n] = None /\ Reach(n) /\ ilock[Parent[n]] = None
    /\ ilock' = [ilock EXCEPT ![Parent[n]] = t]
    /\ dent' = [dent EXCEPT ![n] = Dentry({}, None, 0, FALSE)]
    /\ Go(t, "lookup", n)
    /\ UNCHANGED <<hidden, mask, queue, vdir, hlock>>

(* lkup_dentry, one branch; acc is what was found. *)
LookupBranch(t) ==
    LET n == pc[t].n
        b == pc[t].step
        d == dent[n]
        found == IsThere(b, Parent[n]) /\ (IF n = Sub THEN b \in there ELSE h[b][n] # None)
        end == b = 1 \/ (n # Sub /\ (found \/ (b = 0 /\ IsThere(0, Parent[n]) /\ n \in wh)))
    IN  /\ pc[t].op = "lookup" /\ b < 2 /\ hlock[b][Parent[n]] = None
        /\ dent' = [dent EXCEPT ![n] = IF found THEN Dentry(d.at \cup {b}, IF n = Sub THEN None ELSE h[b][n],
                                                            d.reval, FALSE)
                                       ELSE d]
        /\ pc' = [pc EXCEPT ![t].step = IF end THEN 2 ELSE @ + 1]
        /\ UNCHANGED <<hidden, mask, queue, vdir, ilock, hlock>>

EndLookupTopWatch(t) == \* mutant: only the uppermost hidden directory is watched
    LET n == pc[t].n
    IN  /\ pc[t].op = "lookup" /\ pc[t].step = 2
        /\ dent' = [dent EXCEPT ![n].hashed = TRUE]
        /\ mask' = IF n # Sub THEN mask
                   ELSE [b \in Branch |-> [mask[b] EXCEPT ![Sub] = IF b = 0 /\ b \in dent[n].at THEN "on" ELSE "none"]]
        /\ ilock' = [ilock EXCEPT ![Parent[n]] = None]
        /\ Done(t)
        /\ UNCHANGED <<hidden, queue, vdir, hlock>>

(* au_new_inode puts watches on the hidden directories, d_splice_alias     *)
(* hashes the dentry.                                                      *)
EndLookup(t) ==
    LET n == pc[t].n
    IN  /\ pc[t].op = "lookup" /\ pc[t].step = 2
        /\ dent' = [dent EXCEPT ![n].hashed = TRUE]
        /\ mask' = IF n # Sub THEN mask
                   ELSE [b \in Branch |-> [mask[b] EXCEPT ![Sub] = IF b \in dent[n].at THEN "on" ELSE "none"]]
        /\ ilock' = [ilock EXCEPT ![Parent[n]] = None]
        /\ Done(t)
        /\ UNCHANGED <<hidden, queue, vdir, hlock>>

(* aufs_create and aufs_unlink of file n.  The VFS has revalidated the     *)
(* dentry.                                                                 *)
BeginOwn(t, n) ==
    /\ pc[t] = Idle /\ Cached(n) /\ Reach(n) /\ Valid(n)
    /\ ilock[Parent[n]] = None /\ IsThere(0, Parent[n])
    /\ ilock' = [ilock EXCEPT ![Parent[n]] = t]
    /\ pc' = [pc EXCEPT ![t] = [op |-> "own", n |-> n, step |-> 0, acc |-> dent[n]]]
    /\ UNCHANGED <<hidden, mask, dent, queue, vdir, hlock>>

(* do_hdir_lock suspends the watch, if there is one. *)
HdirLock(t) ==
    LET p == Parent[pc[t].n]
    IN  /\ pc[t].op = "own" /\ pc[t].step = 0 /\ hlock[0][p] = None
        /\ hlock' = [hlock EXCEPT ![0][p] = t]
        /\ mask' = [mask EXCEPT ![0][p] = IF @ = "none" THEN @ ELSE "off"]
        /\ Step(t)
        /\ UNCHANGED <<hidden, dent, queue, vdir, ilock>>

(* The calls on the branch, and the dentry after them.  They may fail, and *)
(* do when the hidden dentry is not what the dentry said; i_version of the *)
(* directory, and with it the list, changes only if they do not.           *)
OwnChange(t) ==
    LET n  == pc[t].n
        p  == Parent[n]
        d  == pc[t].acc
        Ev == {Event(0, p, n, FALSE)}
        Obsolete == vdir' = [vdir EXCEPT ![p] = "none"]
    IN  /\ pc[t].op = "own" /\ pc[t].step = 1
        /\ \/ /\ d.obj = None /\ h[0][n] = None
              /\ \E o \in Obj :
                    /\ Unused(o)
                    /\ h' = [h EXCEPT ![0][n] = o]
                    /\ dent' = [DentOf(Ev) EXCEPT ![n] = IF @ = None THEN None ELSE Dentry({0}, o, @.reval, TRUE)]
              /\ wh' = wh \ {n}
              /\ queue' = QueueOf(Ev) /\ Obsolete
           \/ /\ d.obj = None \* add_simple drops the dentry
              /\ dent' = [DentOf(Ev) EXCEPT ![n] = None]
              /\ queue' = QueueOf(Ev)
              /\ UNCHANGED <<h, wh, vdir>>
           \/ /\ d.obj # None /\ (0 \in d.at => h[0][n] = d.obj)
              /\ h' = [h EXCEPT ![0][n] = IF 0 \in d.at THEN None ELSE @]
              /\ wh' = IF IsThere(1, p) /\ h[1][n] # None THEN wh \cup {n} ELSE wh
              /\ dent' = [DentOf(Ev) EXCEPT ![n] = None]
              /\ queue' = QueueOf(Ev) /\ Obsolete
           \/ d.obj # None /\ UNCHANGED <<h, wh, dent, queue, vdir>>
        /\ Step(t)
        /\ UNCHANGED <<there, mask, ilock, hlock, foreign>>

UnlockOnly(t) == \* mutant: the mask of the watch is not restored
    LET p == Parent[pc[t].n]
    IN  /\ pc[t].op = "own" /\ pc[t].step = 2
        /\ hlock' = [hlock EXCEPT ![0][p] = None]
        /\ ilock' = [ilock EXCEPT ![p] = None]
        /\ Done(t)
        /\ UNCHANGED <<hidden, mask, dent, queue, vdir>>

(* hdir_unlock restores the mask before it releases the i_mutex. *)
HdirUnlock(t) ==
    LET p == Parent[pc[t].n]
    IN  /\ pc[t].op = "own" /\ pc[t].step = 2
        /\ mask' = [mask EXCEPT ![0][p] = IF @ = "none" THEN @ ELSE "on"]
        /\ hlock' = [hlock EXCEPT ![0][p] = None]
        /\ ilock' = [ilock EXCEPT ![p] = None]
        /\ Done(t)
        /\ UNCHANGED <<hidden, dent, queue, vdir>>

(* aufs_readdir: the list is made from one branch after the other, unless  *)
(* there is one.                                                           *)
BeginReaddir(t, p) ==
    /\ pc[t] = Idle /\ ilock[p] = None /\ vdir[p] = "none" /\ (p = Sub => Cached(Sub))
    /\ ilock' = [ilock EXCEPT ![p] = t]
    /\ pc' = [pc EXCEPT ![t] = [op |-> "readdir", n |-> p, step |-> 0, acc |-> "good"]]
    /\ UNCHANGED <<hidden, mask, dent, queue, vdir, hlock>>

ReaddirBranch(t) ==
    /\ pc[t].op = "readdir" /\ pc[t].step < 2
    /\ Step(t)
    /\ UNCHANGED <<hidden, mask, dent, queue, vdir, ilock, hlock>>

EndReaddir(t) ==
    /\ pc[t].op = "readdir" /\ pc[t].step = 2
    /\ vdir' = [vdir EXCEPT ![pc[t].n] = pc[t].acc]
    /\ ilock' = [ilock EXCEPT ![pc[t].n] = None]
    /\ Done(t)
    /\ UNCHANGED <<hidden, mask, dent, queue, hlock>>

PostprocEarly(p, s) == \* mutant: the list is made obsolete without the i_mutex of the directory
    /\ queue[p][s] > 0 /\ (s => ilock[p] = None)
    /\ queue' = [queue EXCEPT ![p][s] = @ - 1]
    /\ vdir' = [vdir EXCEPT ![p] = "none"]
    /\ UNCHANGED <<hidden, mask, dent, ilock, hlock, pc>>

(* postproc in the kernel thread. *)
Postproc(p, s) ==
    /\ queue[p][s] > 0 /\ ilock[p] = None
    /\ queue' = [queue EXCEPT ![p][s] = @ - 1]
    /\ IF s /\ Cached(p)
       THEN Drop({p})
       ELSE vdir' = [vdir EXCEPT ![p] = "none"] /\ UNCHANGED <<dent, mask>>
    /\ UNCHANGED <<hidden, ilock, hlock, pc>>

-----------------------------------------------------------------------------

(* A union with udba=inotify that was just mounted, over an empty branch 0. *)
Init ==
    /\ h \in [Branch -> [File -> Obj \cup {None}]]
    /\ \A b, c \in Branch, n, m \in File : h[b][n] = h[c][m] /\ h[b][n] # None => b = c /\ n = m
    /\ \A n \in File : h[0][n] = None
    /\ there = Branch /\ wh = {}
    /\ mask = [b \in Branch |-> [p \in Dir |-> IF p = Root THEN "on" ELSE "none"]]
    /\ dent = [n \in Name |-> None]
    /\ queue = [p \in Dir |-> [s \in BOOLEAN |-> 0]]
    /\ vdir = [p \in Dir |-> "none"]
    /\ ilock = [p \in Dir |-> None] /\ hlock = [b \in Branch |-> [p \in Dir |-> None]]
    /\ pc = [t \in Proc |-> Idle]
    /\ foreign = 0

Foreign == \E b \in Branch : ForeignMove(b) \/ \E n \in File, o \in Obj \cup {None} : ForeignFile(b, n, o)

Run(t) == LookupBranch(t) \/ EndLookup(t) \/ HdirLock(t) \/ OwnChange(t) \/ HdirUnlock(t)
          \/ ReaddirBranch(t) \/ EndReaddir(t)

Begin(t) == \/ \E n \in Name : BeginLookup(t, n)
            \/ \E n \in File : BeginOwn(t, n)
            \/ \E p \in Dir : BeginReaddir(t, p)

Next ==
    \/ Foreign
    \/ \E n \in Name : Invalidate(n)
    \/ \E t \in Proc : Run(t) \/ Begin(t)
    \/ \E p \in Dir, s \in BOOLEAN : Postproc(p, s)

(* The scheduler runs processes in the middle of a call, and i_mutex is    *)
(* handed out in the order of arrival, so that the kernel thread gets it.  *)
Fairness == /\ \A t \in Proc : WF_vars(Run(t))
            /\ \A p \in Dir : SF_vars(\E s \in BOOLEAN : Postproc(p, s))

Spec == Init /\ [][Next]_vars /\ Fairness

-----------------------------------------------------------------------------

(* The shape of the state; the mask of a watch is empty only while aufs     *)
(* itself holds the hidden directory (do_hdir_lock, hdir_unlock).          *)
TypeOK ==
    /\ h \in [Branch -> [File -> Obj \cup {None}]] /\ there \subseteq Branch /\ wh \subseteq File
    /\ mask \in [Branch -> [Dir -> {"none", "on", "off"}]]
    /\ dent \in [Name -> DentryType \cup {None}]
    /\ queue \in [Dir -> [BOOLEAN -> Nat]]
    /\ vdir \in [Dir -> {"none", "good", "stale"}]
    /\ ilock \in [Dir -> Proc \cup {None}] /\ hlock \in [Branch -> [Dir -> Proc \cup {None}]]
    /\ \A b \in Branch, p \in Dir : mask[b][p] = "off" => hlock[b][p] # None

(* The file of a cached dentry is being created or removed. *)
Changing(n) == \E t \in Proc : pc[t].op = "own" /\ pc[t].n = n

(* A cached dentry that a path walk would accept shows what the branches   *)
(* hold: whoever changed the branch, and in the middle of which lookup,    *)
(* create, unlink or copy of the list.                                     *)
Fresh ==
    \A n \in File :
        /\ Cached(n) /\ Valid(n) /\ ~Changing(n)
        /\ (Parent[n] = Sub => Cached(Sub) /\ Valid(Sub))
        => dent[n].obj = View(n)

(* A call of postproc for directory p is queued. *)
Due(p) == \E s \in BOOLEAN : queue[p][s] > 0

(* A merged list that lacks a change to a branch is never forgotten: the    *)
(* postproc that makes it obsolete is still to come, whether the change    *)
(* came before, between or after the branches that aufs_readdir had read,  *)
(* and whatever calls of postproc were over by then.                       *)
ListDue == \A p \in Dir : vdir[p] = "stale" => Due(p)

(* A merged list that lacks a change to a branch is given up in the end.   *)
ListSeen == \A p \in Dir : vdir[p] = "stale" ~> vdir[p] # "stale"

-----------------------------------------------------------------------------
(* What the handler does not see. *)

SpecWh == Init /\ [][Next \/ \E n \in File : ForeignWh(n)]_vars
=============================================================================
