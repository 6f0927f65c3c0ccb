-------------------------------- MODULE Vdir --------------------------------
(***************************************************************************)
(* readdir(2) on a directory of the union.                                 *)
(*                                                                         *)
(* The merged list of names is built once per change of the directory and  *)
(* kept in the inode (ivdir); an open file takes a private copy of it      *)
(* (fvdir_cache) and walks through the copy over several calls.  The list  *)
(* is stored in blocks of Blk units; file positions are offsets in these   *)
(* blocks, so that a process can seek to a position it was given.          *)
(*                                                                         *)
(* The branches are read through the hidden files that the open file has   *)
(* on them; each of those has a position of its own.  A hidden directory   *)
(* returns its entries, whiteouts included, in an order of its own, and    *)
(* each of them is a step.                                                 *)
(***************************************************************************)
EXTENDS Integers, Sequences, FiniteSetsExt, Functions

CONSTANTS
    NBranch,    \* branch 0 is on top and is not mounted at first
    Names,      \* names in the directory
    Dot,        \* a name that every branch always has, as "." is
    Size,       \* Size[n]: calc_size() of an entry of that name, in units
    Blk,        \* AUFS_DEBLK_SIZE in units
    EndSize,    \* calc_size(0): what the end mark of a block takes
    Files,      \* open directories
    Rank,       \* bound: a hidden directory returns names of a smaller rank first
    MaxVer,     \* bound: changes of the directory
    MaxEvent    \* bound: lseek(2) calls and failing reads together

Br     == 0 .. NBranch - 1
AllNames == Names \cup {Dot}

ASSUME SizeAssumption == /\ Blk \in Nat /\ EndSize \in 1 .. Blk /\ Size \in [AllNames -> EndSize .. Blk]
                         /\ Dot \notin Names
ASSUME VdirBoundAssumption ==
    /\ NBranch \in Nat \ {0, 1} /\ MaxVer \in Nat \ {0} /\ MaxEvent \in Nat
    /\ Rank \in [AllNames -> Nat]

VARIABLES
    ent, wh,    \* the entries and the whiteouts in the hidden directories
    mounted,    \* the branches of the union
    iver,       \* i_version
    ivdir,      \* the inode's list and its version
    file,       \* the open files
    rd,         \* the readdir(2) that is under way
    seeks, fails

vars == <<ent, wh, mounted, iver, ivdir, file, rd, seeks, fails>>

-----------------------------------------------------------------------------
(* The list and its blocks: room is where the next entry goes. *)

NoVdir == [ents |-> <<>>, room |-> -1, ver |-> 0]
EmptyVdir == [ents |-> <<>>, room |-> 0, ver |-> 0]

BlkEnd(p) == (p \div Blk + 1) * Blk

AppendAnywhere(v, n) == \* mutant: the end of the block is not tested
    [v EXCEPT !.ents = Append(@, [name |-> n, pos |-> v.room]), !.room = @ + Size[n]]

AppendDe(v, n) ==
    LET at  == IF Size[n] > BlkEnd(v.room) - v.room THEN BlkEnd(v.room) ELSE v.room
        end == at + Size[n]
    IN  [v EXCEPT !.ents = Append(@, [name |-> n, pos |-> at]),
                  !.room = IF BlkEnd(at) - end < EndSize THEN BlkEnd(at) ELSE end]

NamesOf(v) == [i \in DOMAIN v.ents |-> v.ents[i].name]

(* The file position after k entries. *)
PosOf(v, k) == IF k < Len(v.ents) THEN v.ents[k + 1].pos ELSE v.room

(* seek_vdir: the number of entries before position p. *)
EntsAtOrBefore(v, p) == Cardinality({i \in DOMAIN v.ents : v.ents[i].pos <= p})  \* mutant
EntsBefore(v, p) == Cardinality({i \in DOMAIN v.ents : v.ents[i].pos < p})

-----------------------------------------------------------------------------
(* The merge. *)

(* What the hidden directories of the branches M hold. *)
HEntry == [b : Br, n : AllNames, wh : BOOLEAN]
HEntries(M) == {e \in HEntry : e.b \in M /\ e.n \in (IF e.wh THEN wh[e.b] ELSE ent[e.b])}

(* delist and whlist: an entry of that name, or a whiteout of it, was found *)
(* in a branch above b.                                                    *)
Known(r, b, n)   == \E c \in Br : c < b /\ <<c, n>> \in r.known
KnownWh(r, b, n) == \E c \in Br : c < b /\ <<c, n>> \in r.white

FillVdirAll(r, e) == \* mutant: the whiteouts of upper branches are not looked at
    IF e.wh THEN [r EXCEPT !.white = @ \cup {<<e.b, e.n>>}]
    ELSE IF Known(r, e.b, e.n) THEN r
    ELSE [r EXCEPT !.v = AppendDe(@, e.n), !.known = @ \cup {<<e.b, e.n>>}]

(* fillvdir: a name known or whiteouted in an upper branch is left out. *)
FillVdir(r, e) ==
    IF e.wh THEN [r EXCEPT !.white = @ \cup {<<e.b, e.n>>}]
    ELSE IF Known(r, e.b, e.n) \/ KnownWh(r, e.b, e.n) THEN r
    ELSE [r EXCEPT !.v = AppendDe(@, e.n), !.known = @ \cup {<<e.b, e.n>>}]

(* What lookup finds. *)
Visible == {n \in AllNames : \E b \in mounted :
               /\ n \in ent[b]
               /\ \A c \in mounted : c <= b => n \notin wh[c]}

-----------------------------------------------------------------------------

Closed == [open |-> FALSE, hend |-> {}, hseen |-> {}, pos |-> 0, ver |-> 0, cache |-> NoVdir,
           from |-> 0, got |-> <<>>, eof |-> FALSE, want |-> {}]

NoCall == [pc |-> "idle"]
Idle == rd.pc = "idle"

Init ==
    /\ \E E, W \in [Br -> SUBSET Names] :
          /\ \A b \in Br : E[b] \cap W[b] = {}
          /\ W[NBranch - 1] = {}
          /\ ent = [b \in Br |-> E[b] \cup {Dot}]
          /\ wh = W
    /\ mounted = Br \ {0}
    /\ iver = 1
    /\ ivdir = NoVdir
    /\ file = [f \in Files |-> Closed]
    /\ rd = NoCall
    /\ seeks = 0 /\ fails = 0

disk == <<ent, wh, mounted, iver>>

(* A readdir of f is under way. *)
Busy(f) == ~Idle /\ rd.f = f

(* do_open_dir *)
Open(f) ==
    /\ ~file[f].open
    /\ file' = [file EXCEPT ![f] = [Closed EXCEPT !.open = TRUE, !.ver = iver]]
    /\ UNCHANGED <<disk, ivdir, rd, seeks, fails>>

ReleaseDir(f) ==
    /\ file[f].open /\ ~Busy(f)
    /\ file' = [file EXCEPT ![f] = Closed]
    /\ UNCHANGED <<disk, ivdir, rd, seeks, fails>>

(* lseek(2) of the VFS, to the start or to a position it has returned.  A  *)
(* new position clears f_version.                                          *)
Lseek(f, k) ==
    LET x == file[f]
        p == IF k = 0 THEN 0 ELSE PosOf(x.cache, k)
    IN  /\ x.open /\ x.cache # NoVdir /\ ~Busy(f) /\ seeks + fails < MaxEvent
        /\ k <= x.from + Len(x.got)
        /\ seeks' = seeks + 1
        /\ file' = [file EXCEPT ![f] =
              [x EXCEPT !.pos = p, !.ver = IF p = x.pos THEN @ ELSE 0,
                        !.from = k, !.got = <<>>, !.eof = FALSE]]
        /\ UNCHANGED <<disk, ivdir, rd, fails>>

-----------------------------------------------------------------------------
(* aufs_readdir, with i_mutex, si_rwsem and fi_rwsem held: the directory    *)
(* and the branches do not change.                                         *)

DoRead(f, expired) ==
    \/ ivdir = NoVdir
    \/ file[f].pos = 0 /\ (ivdir.ver # iver \/ expired)

NeedCopy(f) ==
    \/ file[f].cache = NoVdir
    \/ file[f].pos = 0 /\ file[f].cache.ver # file[f].ver

(* read_vdir: hidden files that are at their end return nothing.  n is the  *)
(* room of the caller, and want what a lookup would find now.              *)
Readdir(f, n, expired) ==
    LET call == [pc |-> "copy", f |-> f, n |-> n, v |-> EmptyVdir, known |-> {}, white |-> {},
                 todo |-> {}]
    IN  /\ file[f].open /\ Idle
        /\ rd' = IF DoRead(f, expired)
                 THEN [call EXCEPT !.pc = "read",
                                   !.todo = HEntries(mounted \ file[f].hend) \ file[f].hseen]
                 ELSE call
        /\ file' = [file EXCEPT ![f].want = IF file[f].pos = 0 THEN Visible ELSE @]
        /\ UNCHANGED <<disk, ivdir, seeks, fails>>

(* The hidden files are read from the top. *)
ReadEntry(e) ==
    /\ rd.pc = "read" /\ e \in rd.todo
    /\ \A d \in rd.todo : e.b < d.b \/ (e.b = d.b /\ Rank[e.n] <= Rank[d.n])
    /\ rd' = [FillVdir(rd, e) EXCEPT !.todo = @ \ {e}]
    /\ UNCHANGED <<disk, ivdir, file, seeks, fails>>

ReadVdir ==
    /\ rd.pc = "read" /\ rd.todo = {}
    /\ ivdir' = [rd.v EXCEPT !.ver = iver]
    /\ file' = [file EXCEPT ![rd.f].hend = @ \cup mounted, ![rd.f].hseen = {}]
    /\ rd' = [rd EXCEPT !.pc = "copy"]
    /\ UNCHANGED <<disk, seeks, fails>>

(* Reading branch b fails, or there is no memory: a list that was there     *)
(* already is left as it is, with version 0.  The hidden file is left where *)
(* it was.                                                                 *)
ReadFail(b) ==
    LET f == rd.f
    IN  /\ rd.pc = "read" /\ seeks + fails < MaxEvent
        /\ (\E e \in rd.todo : e.b = b) /\ \A e \in rd.todo : b <= e.b
        /\ fails' = fails + 1
        /\ ivdir' = IF ivdir = NoVdir THEN NoVdir ELSE rd.v
        /\ file' = [file EXCEPT ![f].hend = @ \cup {c \in mounted : c < b},
                                ![f].hseen = {e \in HEntries({b}) : e \notin rd.todo}]
        /\ rd' = NoCall
        /\ UNCHANGED <<disk, seeks>>

FillDeAdd(x, n) == \* mutant: at the end of a block f_pos is moved a whole block on
    LET v == x.cache
        k == EntsBefore(v, x.pos)
        cnt == Min({n, Len(v.ents) - k})
        p == PosOf(v, k + cnt)
    IN  [x EXCEPT !.pos = IF p \div Blk > @ \div Blk THEN p + Blk ELSE p,
                  !.got = @ \o SubSeq(NamesOf(v), k + 1, k + cnt), !.eof = (cnt = 0)]

(* au_fill_de: x is the file with its copy, n the room of the caller. *)
FillDe(x, n) ==
    LET v == x.cache
        k == EntsBefore(v, x.pos)
        cnt == Min({n, Len(v.ents) - k})
    IN  [x EXCEPT !.pos = PosOf(v, k + cnt),
                  !.got = @ \o SubSeq(NamesOf(v), k + 1, k + cnt),
                  !.eof = (cnt = 0)]

(* au_init_vdir after read_vdir, and au_fill_de. *)
CopyVdir ==
    LET x == file[rd.f]
        y == IF NeedCopy(rd.f) THEN [x EXCEPT !.cache = ivdir, !.ver = iver] ELSE x
    IN  /\ rd.pc = "copy"
        /\ file' = [file EXCEPT ![rd.f] = FillDe(y, rd.n)]
        /\ rd' = NoCall
        /\ UNCHANGED <<disk, ivdir, seeks, fails>>

(* No memory for the copy: one that was there already is left empty.       *)
CopyFail ==
    /\ rd.pc = "copy" /\ seeks + fails < MaxEvent /\ NeedCopy(rd.f)
    /\ fails' = fails + 1
    /\ file' = [file EXCEPT ![rd.f].cache = IF @ = NoVdir THEN NoVdir ELSE EmptyVdir]
    /\ rd' = NoCall
    /\ UNCHANGED <<disk, ivdir, seeks>>

-----------------------------------------------------------------------------
(* Changes of the directory, each of which increments i_version, under the  *)
(* same i_mutex or with si_rwsem for writing.                              *)

Create(n) ==
    /\ Idle /\ iver < MaxVer /\ n \notin Visible
    /\ ent' = [ent EXCEPT ![Min(mounted)] = @ \cup {n}]
    /\ wh' = [wh EXCEPT ![Min(mounted)] = @ \ {n}]
    /\ iver' = iver + 1
    /\ UNCHANGED <<mounted, ivdir, file, rd, seeks, fails>>

Unlink(n) ==
    LET t == Min(mounted)
        low == \E b \in mounted \ {t} : n \in ent[b]
    IN  /\ Idle /\ iver < MaxVer /\ n \in Visible \ {Dot}
        /\ ent' = [ent EXCEPT ![t] = @ \ {n}]
        /\ wh' = IF low THEN [wh EXCEPT ![t] = @ \cup {n}] ELSE wh
        /\ iver' = iver + 1
        /\ UNCHANGED <<mounted, ivdir, file, rd, seeks, fails>>

(* A remount adds the top branch; reopen_dir opens it when the file is     *)
(* next used.                                                              *)
AddBranch ==
    /\ Idle /\ iver < MaxVer /\ 0 \notin mounted
    /\ mounted' = mounted \cup {0}
    /\ iver' = iver + 1
    /\ UNCHANGED <<ent, wh, ivdir, file, rd, seeks, fails>>

Next ==
    \/ \E f \in Files : \/ Open(f) \/ ReleaseDir(f)
                        \/ \E k \in 0 .. Len(file[f].cache.ents) : Lseek(f, k)
                        \/ \E n \in 1 .. 2, x \in BOOLEAN : Readdir(f, n, x)
    \/ \E e \in HEntry : ReadEntry(e)
    \/ ReadVdir \/ CopyVdir \/ CopyFail
    \/ \E b \in Br : ReadFail(b)
    \/ \E n \in Names : Create(n) \/ Unlink(n)
    \/ AddBranch

Spec == Init /\ [][Next]_vars

-----------------------------------------------------------------------------
(* Properties. *)

TypeOK ==
    /\ ent \in [Br -> SUBSET AllNames] /\ wh \in [Br -> SUBSET Names]
    /\ mounted \subseteq Br /\ iver \in 1 .. MaxVer
    /\ ~Idle => rd.f \in Files /\ file[rd.f].open
    /\ \A f \in Files : file[f].pos \in 0 .. Max({0, file[f].cache.room})

(* No entry of a list crosses the end of a block, and entries do not       *)
(* overlap, whatever the lengths of the names (append_de, append_deblk).   *)
InBlock ==
    \A i \in DOMAIN ivdir.ents :
        LET e == ivdir.ents[i]
        IN  /\ e.pos + Size[e.name] <= BlkEnd(e.pos)
            /\ i < Len(ivdir.ents) => e.pos + Size[e.name] <= ivdir.ents[i + 1].pos

(* A process gets the entries of its copy one after the other from where   *)
(* it started or sought to, none skipped and none repeated, however the    *)
(* calls are cut and whatever other processes do to the directory          *)
(* (seek_vdir, au_fill_de).                                                *)
ListedInOrder ==
    \A f \in Files :
        LET x == file[f]
        IN  x.open /\ x.got # <<>> =>
                x.got = SubSeq(NamesOf(x.cache), x.from + 1, x.from + Len(x.got))

(* A process that has read the directory from the start to the end got     *)
(* exactly the names that a lookup would have found when it started, each  *)
(* once (read_vdir, fillvdir and the copies of the list).                  *)
PassComplete ==
    \A f \in Files :
        LET x == file[f]
        IN  x.open /\ x.eof /\ x.from = 0 =>
                Range(x.got) = x.want /\ IsInjective(x.got)

(* The same, as long as no process has gone back and no read has failed.   *)
FirstPassComplete == seeks = 0 /\ fails = 0 => PassComplete
=============================================================================
