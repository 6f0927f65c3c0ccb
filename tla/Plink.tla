------------------------------- MODULE Plink --------------------------------
(***************************************************************************)
(* Inode numbers and hard links over two branches.                         *)
(*                                                                         *)
(* Branch 0 is writable and on top of branch 1, which is read-only and may *)
(* hold hard links.  The table of external inode numbers (xino) maps the   *)
(* inodes of both branches to inode numbers of the union, so that all      *)
(* names of a file get one inode.  When one of the names is copied up, the *)
(* others follow through a pseudo link: the inode is put on the list       *)
(* si_plink and a link to the copy, named after both inode numbers, is     *)
(* made in the directory br_plink of the branch.                           *)
(*                                                                         *)
(* fid and ver are history: the file that a name stands for and how often  *)
(* it was written, as on a filesystem without branches.                    *)
(***************************************************************************)
EXTENDS Integers, FiniteSets, FiniteSetsExt

CONSTANTS
    Name,
    LowIno,     \* inodes of branch 1, also the names of the files they hold
    UpIno,      \* inode numbers of branch 0, used again when they are free
    NewFile,    \* files that are created in the union
    None,
    Gens,       \* values of i_generation
    MaxIno,     \* bound: inode numbers of the union
    MaxWrite,   \* bound: writes to a file
    Fault,      \* the steps that may fail: a subset of {"nomem", "link", "xino"}
    MaxFail,    \* bound: failing steps
    Quiet,      \* does auplink have the union for itself
    Unfollowed  \* is a name truncated whose pseudo link was not followed yet

ASSUME PlinkAssumption ==
    /\ None \notin UNION {Name, LowIno, UpIno, NewFile, Gens}
    /\ UpIno \cap LowIno = {} /\ NewFile \cap LowIno = {}
    /\ {MaxIno, MaxWrite, MaxFail} \subseteq Nat
    /\ Fault \subseteq {"nomem", "link", "xino"} /\ {Quiet, Unfollowed} \subseteq BOOLEAN

Inode == UpIno \cup LowIno
File  == LowIno \cup NewFile
Ino   == 1 .. MaxIno

VARIABLES
    low, up,    \* the hidden inode of a name on branch 1 and on branch 0
    wh,         \* whiteouts on branch 0
    pldir,      \* br_plink: the links <<ino, hidden inode>>
    data, gen,  \* contents of the inodes of branch 0, i_generation of all
    xon,        \* AuFlag_XINO
    xino,       \* the tables of both branches
    last,       \* si_xino
    dent,       \* the inode number in the cached dentry of a name, or 0
    inode,      \* the inodes in memory: their hidden inodes and generation
    list,       \* si_plink
    job,        \* the auplink script
    fails,
    fid, ver

ghost == <<fid, ver>>
vars  == <<low, up, wh, pldir, data, gen, xon, xino, last, dent, inode, list,
           job, fails, ghost>>

-----------------------------------------------------------------------------

Visible(n) == up[n] # None \/ (n \notin wh /\ low[n] # None)
Top(n)     == IF up[n] # None THEN 0 ELSE 1
Hidden(n)  == IF up[n] # None THEN up[n] ELSE low[n]

(* i_nlink of an inode of branch 0 is not 0. *)
Linked(h) == (\E n \in Name : up[n] = h) \/ (\E l \in pldir : l[2] = h)

NoInode   == [hi |-> [b \in 0 .. 1 |-> None], gen |-> None]
InCore(i) == inode[i] # NoInode

(* The number of h can be given to a new file: no name and no inode in     *)
(* memory holds it.                                                        *)
Free(h)   == ~Linked(h) /\ \A i \in Ino : inode[i].hi[0] # h

Content(n) == IF up[n] # None THEN data[up[n]] ELSE [f |-> low[n], v |-> 0]

(* The step that fails, or "ok". *)
Outcome(S) == {"ok"} \cup (IF fails < MaxFail THEN S \cap Fault ELSE {})
Count(r)   == fails' = fails + (IF r = "ok" THEN 0 ELSE 1)

IputKeep(D, L) == inode \* mutant: an inode that nothing refers to is kept

(* drop_inode is generic_delete_inode: an inode is in memory as long as a  *)
(* dentry or the list si_plink refers to it.                               *)
Iput(D, L) == [i \in Ino |-> IF i \in L \/ \E n \in Name : D[n] = i THEN inode[i] ELSE NoInode]

-----------------------------------------------------------------------------
(* External inode numbers. *)

(* xino_read. *)
XinoRead(h) == IF xon THEN xino[h] ELSE 0

(* xino_new_ino. *)
NewIno == last + 1

(* au_new_inode: the number for hidden inode h of generation g. *)
NewInode(h, g) ==
    LET x == XinoRead(h)
    IN  IF x = 0 \/ (InCore(x) /\ inode[x].gen # g) THEN NewIno ELSE x

(* set_inode for an inode that was not in memory; au_refresh_hinode adds   *)
(* the hidden inode to one that was.                                       *)
SetInode(i, b, h, g) ==
    IF ~InCore(i) THEN [hi |-> [NoInode.hi EXCEPT ![b] = h], gen |-> g]
    ELSE [inode[i] EXCEPT !.hi[b] = h,
                          !.gen = IF b = 0 /\ inode[i].hi[0] = None THEN g ELSE @]

(* A hidden inode that differs from the one the inode has is ESTALE. *)
Estale(i, b, h) == InCore(i) /\ inode[i].hi[b] \notin {None, h}

XinoForget(h, i, r) == \* mutant: the number of a hidden inode is not saved
    UNCHANGED <<xino, xon>>

(* set_h_iptr saves the number; when that fails xino is turned off. *)
XinoWrite(h, i, r) ==
    /\ xino' = IF xon /\ r # "xino" THEN [xino EXCEPT ![h] = i] ELSE xino
    /\ xon' = (xon /\ r # "xino")

(* The dentry of n gets its inode; b is the branch of hidden inode h. *)
Instantiate(n, b, h, g) ==
    LET i == NewInode(h, g)
    IN  \E r \in Outcome({"xino"}) :
        /\ i <= MaxIno /\ ~Estale(i, b, h)
        /\ XinoWrite(h, i, r) /\ Count(r)
        /\ last' = Max({last, i})
        /\ dent' = [dent EXCEPT ![n] = i]
        /\ inode' = [inode EXCEPT ![i] = SetInode(i, b, h, g)]
        /\ UNCHANGED list

-----------------------------------------------------------------------------
(* Copy-up and pseudo links. *)

(* append_plink: no memory for the list entry, or the link on the branch   *)
(* cannot be made.                                                         *)
AppendPlink(i, h, r) ==
    /\ list' = IF r = "nomem" THEN list ELSE list \cup {i}
    /\ pldir' = IF r \in {"nomem", "link"} THEN pldir ELSE pldir \cup {<<i, h>>}

(* cpup_single for the inode of name s under name n of branch 0, with      *)
(* contents c: h is a new hidden inode.  A hidden inode without links that *)
(* the inode still has is put first (au_update_brange).                    *)
Copy(s, n, h, isplink, c) ==
    LET i == dent[s]
    IN  \E r \in Outcome({"xino"} \cup (IF isplink THEN {"nomem", "link"} ELSE {})) :
        /\ ~(r = "nomem" /\ i \in list)
        /\ Free(h)
        /\ \E g \in Gens : gen' = [gen EXCEPT ![h] = g]
        /\ data' = [data EXCEPT ![h] = c]
        /\ up' = [up EXCEPT ![n] = h]
        /\ inode' = [inode EXCEPT ![i].hi[0] = h]
        /\ XinoWrite(h, i, r) /\ Count(r)
        /\ IF isplink THEN AppendPlink(i, h, r) ELSE UNCHANGED <<list, pldir>>
        /\ UNCHANGED last

(* cpup_single where the inode already has a hidden inode on branch 0: a   *)
(* link to it, found through br_plink.                                     *)
Follow(n, c) ==
    LET i == dent[n]
        u == inode[i].hi[0]
    IN  /\ u # None /\ Linked(u) /\ <<i, u>> \in pldir
        /\ up' = [up EXCEPT ![n] = u]
        /\ data' = [data EXCEPT ![u] = c]
        /\ UNCHANGED <<gen, inode, xino, xon, last, list, pldir, fails>>

NoPlink(n) == FALSE \* mutant: the names of a copied-up hard link are not remembered

(* i_nlink of the hidden inode on branch 1 is more than 1. *)
IsPlink(n) == \E m \in Name \ {n} : low[m] = low[n]

(* The contents c after w writes. *)
Changed(c, w) == [c EXCEPT !.v = @ + w]

(* cpup_simple: the file is copied and changed by w writes, or the inode   *)
(* is linked and changed by x.                                             *)
Cpup(n, w, x) ==
    LET u == inode[dent[n]].hi[0]
    IN  \/ u # None /\ Follow(n, Changed(data[u], x))
        \/ /\ u = None \/ ~Linked(u)
           /\ \E h \in UpIno : Copy(n, n, h, IsPlink(n), Changed(Content(n), w))

-----------------------------------------------------------------------------
(* The operations of the union. *)

Cached(n) == dent[n] # 0 /\ Visible(n)
User == Quiet => job.pc = "idle"

(* aufs_lookup. *)
Lookup(n) ==
    /\ Visible(n) /\ dent[n] = 0
    /\ User \/ job.pc = "find"
    /\ Instantiate(n, Top(n), Hidden(n), gen[Hidden(n)])
    /\ UNCHANGED <<low, up, wh, pldir, data, gen, job, ghost>>

(* fillvdir gives the entry of a name a number and saves it. *)
Readdir(n) ==
    /\ User /\ Visible(n) /\ XinoRead(Hidden(n)) = 0 /\ NewIno <= MaxIno
    /\ last' = NewIno
    /\ xino' = IF xon THEN [xino EXCEPT ![Hidden(n)] = NewIno] ELSE xino
    /\ UNCHANGED <<low, up, wh, pldir, data, gen, xon, dent, inode, list, job, fails, ghost>>

(* The dentry is shrunk. *)
Shrink(n) ==
    /\ User /\ dent[n] # 0
    /\ dent' = [dent EXCEPT ![n] = 0]
    /\ inode' = Iput(dent', list)
    /\ UNCHANGED <<low, up, wh, pldir, data, gen, xon, xino, last, list, job, fails, ghost>>

(* refresh_file: a file whose inode starts on a branch above the dentry's  *)
(* and is on the list is linked there before it is read.                   *)
Read(n) ==
    /\ User /\ Cached(n) /\ Top(n) = 1
    /\ inode[dent[n]].hi[0] # None /\ dent[n] \in list
    /\ Cpup(n, 0, 0)
    /\ UNCHANGED <<low, wh, dent, job, ghost>>

(* aufs_write: au_ready_to_write copies up a file that is not on branch 0. *)
Write(n) ==
    /\ User /\ Cached(n) /\ ver[fid[n]] < MaxWrite
    /\ \/ /\ Top(n) = 0
          /\ data' = [data EXCEPT ![up[n]] = Changed(@, 1)]
          /\ UNCHANGED <<up, pldir, gen, xon, xino, last, inode, list, fails>>
       \/ Top(n) = 1 /\ Cpup(n, 1, 1)
    /\ ver' = [ver EXCEPT ![fid[n]] = @ + 1]
    /\ UNCHANGED <<low, wh, dent, job, fid>>

(* aufs_setattr of a smaller size on a name of branch 1: ATTR_SIZE is      *)
(* cleared, since cpup_simple copies no more than the new size; when it    *)
(* links instead, nothing is cut off.                                      *)
Truncate(n) ==
    /\ User /\ Cached(n) /\ Top(n) = 1 /\ ver[fid[n]] < MaxWrite
    /\ Unfollowed \/ inode[dent[n]].hi[0] = None
    /\ Cpup(n, 1, 0)
    /\ ver' = [ver EXCEPT ![fid[n]] = @ + 1]
    /\ UNCHANGED <<low, wh, dent, job, fid>>

(* aufs_setattr of anything else copies up too. *)
Setattr(n) ==
    /\ Cached(n) /\ Top(n) = 1
    /\ Cpup(n, 0, 0)
    /\ UNCHANGED <<low, wh, dent, ghost>>

(* aufs_link with plink; cpup_or_link when the source is on branch 1. *)
Link(s, n) ==
    LET i == dent[s]
        u == inode[i].hi[0]
    IN  /\ User /\ Cached(s) /\ ~Visible(n)
        /\ \/ /\ Top(s) = 0
              /\ up' = [up EXCEPT ![n] = up[s]]
              /\ UNCHANGED <<pldir, data, gen, xon, xino, last, inode, list, fails>>
           \/ /\ Top(s) = 1 /\ u # None /\ Linked(u)
              /\ up' = [up EXCEPT ![n] = u]
              /\ \E r \in Outcome({"nomem", "link"}) :
                    ~(r = "nomem" /\ i \in list) /\ AppendPlink(i, u, r) /\ Count(r)
              /\ UNCHANGED <<data, gen, xon, xino, last, inode>>
           \/ /\ Top(s) = 1 /\ u = None
              /\ \E h \in UpIno : Copy(s, n, h, TRUE, Content(s))
        /\ wh' = wh \ {n}
        /\ dent' = [dent EXCEPT ![n] = i]
        /\ fid' = [fid EXCEPT ![n] = fid[s]]
        /\ UNCHANGED <<low, job, ver>>

(* aufs_create: branch 0 gives the new file a free inode. *)
Create(n, f) ==
    /\ User /\ ~Visible(n) /\ ver[f] = -1
    /\ \E h \in UpIno, g \in Gens :
        /\ Free(h)
        /\ up' = [up EXCEPT ![n] = h]
        /\ data' = [data EXCEPT ![h] = [f |-> f, v |-> 0]]
        /\ gen' = [gen EXCEPT ![h] = g]
        /\ Instantiate(n, 0, h, g)
    /\ wh' = wh \ {n}
    /\ fid' = [fid EXCEPT ![n] = f]
    /\ ver' = [ver EXCEPT ![f] = 0]
    /\ UNCHANGED <<low, pldir, job>>

(* aufs_unlink. *)
Unlink(n) ==
    /\ User /\ Cached(n)
    /\ up' = [up EXCEPT ![n] = None]
    /\ wh' = IF low[n] = None THEN wh ELSE wh \cup {n}
    /\ dent' = [dent EXCEPT ![n] = 0]
    /\ inode' = Iput(dent', list)
    /\ fid' = [fid EXCEPT ![n] = None]
    /\ UNCHANGED <<low, pldir, data, gen, xon, xino, last, list, job, fails, ver>>

-----------------------------------------------------------------------------
(* The script auplink: it lists br_plink, finds the names of these inodes, *)
(* touches them, remounts with clean_plink and removes the links it listed. *)

Idle == [pc |-> "idle", links |-> {}, names |-> {}]

AuplinkList ==
    /\ job.pc = "idle" /\ pldir # {}
    /\ job' = [pc |-> "find", links |-> pldir, names |-> {}]
    /\ UNCHANGED <<low, up, wh, pldir, data, gen, xon, xino, last, dent, inode, list, fails, ghost>>

(* find looks up every name. *)
AuplinkFind ==
    /\ job.pc = "find"
    /\ \A n \in Name : Visible(n) => dent[n] # 0
    /\ job' = [job EXCEPT !.pc = "touch",
                          !.names = {n \in Name : \E l \in job.links : Cached(n) /\ dent[n] = l[1]}]
    /\ UNCHANGED <<low, up, wh, pldir, data, gen, xon, xino, last, dent, inode, list, fails, ghost>>

(* A name that is gone or on branch 0 needs nothing; when the copy-up      *)
(* fails the script stops.                                                 *)
AuplinkTouch(n) ==
    /\ job.pc = "touch" /\ n \in job.names
    /\ \/ Setattr(n) /\ job' = [job EXCEPT !.names = @ \ {n}]
       \/ /\ job' = IF Visible(n) /\ Top(n) = 1 THEN Idle ELSE [job EXCEPT !.names = @ \ {n}]
          /\ UNCHANGED <<low, up, wh, pldir, data, gen, xon, xino, last, dent, inode, list, fails, ghost>>

(* clean_plink. *)
AuplinkClean ==
    /\ job.pc = "touch" /\ job.names = {}
    /\ list' = {}
    /\ inode' = Iput(dent, {})
    /\ job' = [job EXCEPT !.pc = "rm"]
    /\ UNCHANGED <<low, up, wh, pldir, data, gen, xon, xino, last, dent, fails, ghost>>

AuplinkRm ==
    /\ job.pc = "rm"
    /\ pldir' = pldir \ job.links
    /\ job' = Idle
    /\ UNCHANGED <<low, up, wh, data, gen, xon, xino, last, dent, inode, list, fails, ghost>>

-----------------------------------------------------------------------------

(* A union that was just mounted, with empty branch 0 and new tables. *)
Init ==
    /\ low \in [Name -> LowIno \cup {None}]
    /\ up = [n \in Name |-> None] /\ wh = {} /\ pldir = {}
    /\ data = [h \in UpIno |-> [f |-> None, v |-> 0]]
    /\ \E g \in [LowIno -> Gens], o \in Gens : gen = [h \in Inode |-> IF h \in LowIno THEN g[h] ELSE o]
    /\ xon = TRUE /\ xino = [h \in Inode |-> 0] /\ last = 0
    /\ dent = [n \in Name |-> 0] /\ inode = [i \in Ino |-> NoInode] /\ list = {}
    /\ job = Idle /\ fails = 0
    /\ fid = low /\ ver = [f \in File |-> IF f \in LowIno THEN 0 ELSE -1]

Next ==
    \/ \E n \in Name :
        \/ Lookup(n) \/ Readdir(n) \/ Shrink(n)
        \/ Read(n) \/ Write(n) \/ Truncate(n) \/ Unlink(n)
        \/ User /\ Setattr(n) /\ UNCHANGED job
        \/ \E s \in Name \ {n} : Link(s, n)
        \/ \E f \in NewFile : Create(n, f)
        \/ AuplinkTouch(n)
    \/ AuplinkList \/ AuplinkFind \/ AuplinkClean \/ AuplinkRm

Spec == Init /\ [][Next]_vars

-----------------------------------------------------------------------------

TypeOK ==
    /\ low \in [Name -> LowIno \cup {None}] /\ up \in [Name -> UpIno \cup {None}]
    /\ wh \subseteq Name /\ pldir \subseteq Ino \X UpIno
    /\ data \in [UpIno -> [f : File \cup {None}, v : Nat]]
    /\ gen \in [Inode -> Gens]
    /\ xon \in BOOLEAN /\ xino \in [Inode -> Ino \cup {0}] /\ last \in Ino \cup {0}
    /\ dent \in [Name -> Ino \cup {0}]
    /\ inode \in [Ino -> [hi : [0 .. 1 -> Inode \cup {None}], gen : Gens \cup {None}]]
    /\ list \subseteq Ino /\ fails \in 0 .. MaxFail
    /\ job \in [pc : {"idle", "find", "touch", "rm"}, links : SUBSET (Ino \X UpIno),
               names : SUBSET Name]
    /\ fid \in [Name -> File \cup {None}] /\ ver \in [File -> Nat \cup {-1}]
    \* an inode that a dentry or the list refers to is in memory
    /\ \A i \in Ino : (i \in list \/ \E n \in Name : dent[n] = i) <=> InCore(i)

(* What a read of a cached name returns: refresh_file follows the pseudo   *)
(* link of an inode on the list; if it is not on the list the hidden file  *)
(* of the dentry is opened again; a link that is missing is an error.      *)
ReadOf(n) ==
    LET i == dent[n]
        u == inode[i].hi[0]
    IN  IF Top(n) = 0 \/ u = None \/ i \notin list \/ ~Linked(u) THEN Content(n)
        ELSE IF <<i, u>> \in pldir THEN data[u]
        ELSE None

(* As long as nothing failed, every name of a file shows the last write to *)
(* it through any name, in memory or not, whatever was copied up, linked,  *)
(* removed, shrunk or flushed before.                                      *)
DataRight ==
    (fails = 0) => \A n \in Name :
        Cached(n) => ReadOf(n) = [f |-> fid[n], v |-> ver[fid[n]]]

(* As long as append_plink did not fail, a name never shows the contents   *)
(* of another file, also after the table was lost: the hidden inode that   *)
(* an inode number, a pseudo link or a table entry refers to was not given *)
(* to another file in the meantime.                                        *)
NoForeign ==
    \A n \in Name : Cached(n) => \/ ReadOf(n) = None
                                 \/ ReadOf(n).f = fid[n]

(* stat(2) and readdir(3) agree: as long as nothing failed two names in    *)
(* memory have the same inode number exactly if they are links to one file, *)
(* and it is the number that the table gives for their hidden inode.       *)
Identity ==
    (fails = 0) =>
        /\ \A n, m \in Name : Cached(n) /\ Cached(m) => (dent[n] = dent[m] <=> fid[n] = fid[m])
        /\ \A n \in Name : Cached(n) => xino[Hidden(n)] = dent[n]
=============================================================================
