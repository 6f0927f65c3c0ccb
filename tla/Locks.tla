-------------------------------- MODULE Locks --------------------------------
(***************************************************************************)
(* The locks of aufs and the order in which its operations take them.      *)
(*                                                                         *)
(* si_rwsem of the union, fi_rwsem of an open file, di_rwsem of a dentry,  *)
(* ii_rwsem of an inode, and around them i_mutex of the inodes of the      *)
(* union (taken by the VFS), i_mutex of the inodes of the writable branch, *)
(* of the lower one and of the directory of pseudo links, and mmap_sem.    *)
(* An operation is the sequence of its lock calls.  Where the mount        *)
(* options, the arguments or what it finds on the branches decide how it   *)
(* goes on, the sequence has a choice of its variants.                     *)
(*                                                                         *)
(* A rw_semaphore is fair: a reader that comes after a waiting writer      *)
(* waits too.  The releases at one place of the code are one step, and so  *)
(* are a lock that is taken twice in a row and nothing in between.         *)
(***************************************************************************)
EXTENDS Naturals, Sequences, FiniteSets, FiniteSetsExt

CONSTANTS
    Root, Dir, File,    \* the root, the other directories, the files
    Neg,                \* names that do not exist, with a negative dentry
    Parent,             \* the directory of each name but the root
    User,               \* processes and threads of the work queue
    Writer,             \* those that take si_rwsem for writing
    Op,                 \* bound: the operations of this instance
    Variant             \* bound: the variants of them

Name == {Root} \cup Dir \cup File \cup Neg
Proc == User \cup Writer

ASSUME LocksAssumption ==
    /\ Root \notin Dir \cup File \cup Neg /\ Dir \cap File = {} /\ Neg \cap (Dir \cup File) = {}
    /\ Parent \in [Name \ {Root} -> {Root} \cup Dir]
    /\ User \cap Writer = {}

VARIABLES
    todo,   \* the lock calls a process has still to make
    hold,   \* who holds a lock, and how
    wait    \* who waits for a lock, in order

vars == <<todo, hold, wait>>

-----------------------------------------------------------------------------
(* Lock calls. *)

Lock == {"si", "mm", "sv", "pl"} \X {Root} \cup {"i", "di", "ii", "fi", "h", "l"} \X Name

R(k, n) == <<[a |-> "R", on |-> {<<k, n>>}]>>
W(k, n) == <<[a |-> "W", on |-> {<<k, n>>}]>>
U(S)    == <<[a |-> "U", on |-> S]>>
D(S)    == <<[a |-> "D", on |-> S]>>
Nothing == <<>>
Pass(k, n) == W(k, n) \o U({<<k, n>>})

If(c, s)    == IF c THEN s ELSE Nothing
Each(S, P(_)) == FoldSet(LAMBDA n, s : s \o P(n), Nothing, S)

(* One of the P(v), for the variants of V in this instance. *)
Some(V, P(_)) ==
    LET S == {P(v) : v \in SUBSET (V \cap Variant)}
    IN  IF Cardinality(S) = 1 THEN CHOOSE s \in S : TRUE ELSE <<[a |-> "?", of |-> S]>>

Maybe(x, s) == Some({x}, LAMBDA v : If(x \in v, s))

Si    == {<<"si", Root>>}
I(n)  == {<<"i", n>>}
Ii(n) == {<<"ii", n>>}
Fi(n) == {<<"fi", n>>}
H(n)  == {<<"h", n>>}
L(n)  == {<<"l", n>>}
Di(n) == {<<"di", n>>}
DiIi(n) == Di(n) \cup IF n \in Neg THEN {} ELSE Ii(n)

si_read_lock        == R("si", Root)
si_write_lock       == W("si", Root)
di_read_lock(n)     == R("di", n) \o If(n \notin Neg, R("ii", n))   \* with AUFS_I_RLOCK
di_write_lock(n)    == W("di", n) \o If(n \notin Neg, W("ii", n))
di_downgrade_lock(n) == D(DiIi(n))

(* An ancestor of n. *)
Above(a, n) == n # Root /\ (Parent[n] = a \/ (Parent[n] # Root /\ Parent[Parent[n]] = a))

-----------------------------------------------------------------------------
(* Looking up and copying up. *)

(* lkup_dentry and do_lookup on one branch: "h" or "l". *)
lkup_dentry(n, k) ==
    LET p == Parent[n]
    IN  W(k, p) \o If(n \in Dir, Pass(k, n)) \o U({<<k, p>>})

(* whplink: a name of the inode in the directory of pseudo links. *)
whplink(n) == W("pl", Root) \o Pass("h", n) \o U({<<"pl", Root>>})

(* The inode is on the branch already, under its name of a pseudo link. *)
cpup_by_link(n) == Pass("pl", Root) \o Pass("h", n)

(* The parent on the branch is locked.  A file with other names becomes a  *)
(* pseudo link, or is one and linked to.                                   *)
cpup_single(n) ==
    IF n \notin File THEN Pass("h", n)
    ELSE Some({"plink", "linked"}, LAMBDA v :
              IF "linked" \in v THEN cpup_by_link(n)
              ELSE Pass("h", n) \o If("plink" \in v, whplink(n)))

(* cpup_dirs, one turn of the loop: walk up from p to the topmost directory *)
(* d that is missing on the branch and copy it.  The lock of `locked' is   *)
(* held by the caller.                                                     *)
cpup_dir(p, d, locked, v) ==
    LET q == Parent[d]
        Peek(x) == If(x # locked, R("di", x) \o U(Di(x)))
        gdir == "udba" \in v /\ q # Root
    IN  If(d # p, Peek(d)) \o Peek(q)
        \o If(d # p, di_write_lock(d))
        \o If(q # locked, di_read_lock(q))
        \o If(gdir, W("h", Parent[q])) \o W("h", q) \o cpup_single(d)
        \o U(H(q) \cup (IF gdir THEN H(Parent[q]) ELSE {})
             \cup (IF q # locked THEN DiIi(q) ELSE {}) \cup (IF d # p THEN DiIi(d) ELSE {}))

(* A copy-up, of two directories that are missing ("deep"), with udba=inotify. *)
Cpup == {"cpup", "deep", "udba"}

(* At most two directories are missing. *)
cpup_dirs(p, locked, v) ==
    If(p # Root /\ "cpup" \in v,
       If("deep" \in v /\ Parent[p] # Root, cpup_dir(p, Parent[p], locked, v)) \o cpup_dir(p, p, locked, v))

test_and_cpup_dirs(p, locked, v) ==
    If(p # Root /\ "cpup" \in v,
       U(DiIi(p)) \o di_write_lock(p) \o cpup_dirs(p, locked, v) \o di_downgrade_lock(p))

(* wr_dir for a new entry in p, the name is looked up on the new branch. *)
wr_dir(p, locked, v) == If("cpup" \in v, cpup_dirs(p, locked, v) \o Pass("h", p))

(* The source, below the writable branch, is locked while it is copied up. *)
cpup_locked(n) == W("l", n) \o cpup_single(n) \o U(L(n))

(* simple_reval_dpath, and the slow loop when a directory above n is stale. *)
au_reval_dpath(n) ==
    LET One(d) == di_read_lock(Parent[d]) \o lkup_dentry(d, "h") \o lkup_dentry(d, "l") \o U(DiIi(Parent[d]))
        p == Parent[n]
    IN  If(p # Root, Maybe("deep", di_write_lock(p) \o One(p) \o U(DiIi(p)))) \o One(n)

-----------------------------------------------------------------------------
(* Operations on names. *)

LookupUnlockI(n) == \* mutant: the flag of the unlock is not that of the lock
    LET p == Parent[n]
    IN  W("i", p) \o si_read_lock \o R("di", p)
        \o lkup_dentry(n, "h") \o lkup_dentry(n, "l")
        \o U(DiIi(p) \cup Si \cup I(p))

(* An inode that is in memory under another name is refreshed under its    *)
(* i_mutex.                                                                *)
aufs_lookup(n) ==
    LET p == Parent[n]
    IN  W("i", p) \o si_read_lock \o R("di", p)
        \o lkup_dentry(n, "h") \o lkup_dentry(n, "l")
        \o Maybe("known", Each(File, LAMBDA x : W("i", x) \o W("ii", x) \o U(I(x)) \o U(Ii(x))))
        \o U(Di(p) \cup Si \cup I(p))

(* With "nd", hidden_d_revalidate locks the directory of the nameidata. *)
aufs_d_revalidate(n) ==
    si_read_lock
    \o Some({"reval"}, LAMBDA v :
            IF "reval" \in v THEN di_write_lock(n) \o au_reval_dpath(n) \o di_downgrade_lock(n)
            ELSE di_read_lock(n))
    \o Maybe("nd", R("di", Parent[n]) \o U(Di(Parent[n])))
    \o U(DiIi(n) \cup Si)

(* silly_lock: without nameidata, with that of the directory, with its own *)
(* ("self"; aufs_readlink and aufs_follow_link take these locks too).      *)
aufs_permission(n) ==
    si_read_lock
    \o Some({"nd", "self"}, LAMBDA v :
            CASE "self" \in v -> di_read_lock(n) \o U(DiIi(n) \cup Si)
              [] v = {"nd"} -> R("ii", n) \o R("di", Parent[n]) \o U(Di(Parent[n]) \cup Ii(n) \cup Si)
              [] v = {} -> R("ii", n) \o U(Ii(n) \cup Si))

(* aufs_create, aufs_symlink, aufs_mknod; aufs_mkdir.  "opq": a directory  *)
(* is made opaque, or the new entry is removed again.                      *)
add_simple(n) ==
    LET p == Parent[n]
    IN  W("i", p) \o si_read_lock \o di_write_lock(n) \o di_write_lock(p)
        \o Some(Cpup, LAMBDA v : wr_dir(p, n, v))
        \o W("h", p) \o Maybe("opq", Pass("h", n))
        \o U(H(p) \cup DiIi(p) \cup DiIi(n) \cup Si \cup I(p))

(* test_empty: every branch has the directory. *)
test_empty(n) == If(n \in Dir, Pass("h", n) \o Pass("l", n))

(* wr_dir_need_wh: the name is on the writable branch and is looked up     *)
(* below it, or the directory is copied up.                                *)
wr_dir_need_wh(n, locked, v) ==
    IF "cpup" \in v THEN cpup_dirs(Parent[n], locked, v) ELSE lkup_dentry(n, "l")

UnlinkParentFirst(n) == \* mutant: the parent is locked before the child
    LET p == Parent[n]
    IN  W("i", p) \o W("i", n) \o si_read_lock \o di_write_lock(p) \o di_write_lock(n)
        \o test_empty(n)
        \o Some(Cpup, LAMBDA v : wr_dir_need_wh(n, n, v) \o W("h", p) \o If("cpup" \notin v, Pass("h", n)))
        \o U(H(p) \cup DiIi(p) \cup DiIi(n) \cup Si \cup I(n) \cup I(p))

(* aufs_unlink and aufs_rmdir; the VFS holds both inodes. *)
aufs_unlink(n) ==
    LET p == Parent[n]
    IN  W("i", p) \o W("i", n) \o si_read_lock \o di_write_lock(n) \o di_write_lock(p)
        \o test_empty(n)
        \o Some(Cpup, LAMBDA v : wr_dir_need_wh(n, n, v) \o W("h", p) \o If("cpup" \notin v, Pass("h", n)))
        \o U(H(p) \cup DiIi(p) \cup DiIi(n) \cup Si \cup I(n) \cup I(p))

(* With udba=inotify the directory, and the one above it, are locked to    *)
(* suspend their watches.                                                  *)
setattr_body(n, v) ==
    LET p == Parent[n]
        g == Parent[p]
        cpup == "cpup" \in v /\ n # Root
        dir  == n # Root /\ (cpup \/ "udba" \in v)
        gdir == dir /\ "udba" \in v /\ p # Root
    IN  If(cpup, R("di", p) \o U(Di(p)) \o di_write_lock(p) \o cpup_dirs(p, n, v) \o U(DiIi(p)))
        \o If(dir, di_read_lock(p) \o If(gdir, R("ii", g) \o W("h", g)) \o W("h", p))
        \o If(cpup, cpup_locked(n))
        \o Pass("h", n)
        \o If(dir, U(H(p) \cup DiIi(p)) \o If(gdir, U(H(g) \cup Ii(g))))

aufs_setattr(n) ==
    W("i", n) \o si_read_lock \o di_write_lock(n)
    \o Some(Cpup, LAMBDA v : setattr_body(n, v))
    \o U(DiIi(n) \cup Si \cup I(n))

(* lock_rename of the VFS and of the branch: the upper directory first. *)
Both(k, p, q) == IF Above(q, p) THEN W(k, q) \o W(k, p) ELSE W(k, p) \o W(k, q)

di_write_lock2_parent(p, q) ==
    IF Above(q, p) THEN di_write_lock(p) \o di_write_lock(q) ELSE di_write_lock(q) \o di_write_lock(p)

aufs_rename(n, m) ==
    LET p == Parent[n]
        q == Parent[m]
        exists == m \notin Neg
    IN  (IF p = q THEN W("i", p) ELSE W("sv", Root) \o Both("i", p, q)) \o If(exists, W("i", m))
        \o si_read_lock \o di_write_lock(n) \o di_write_lock(m)
        \o (IF p = q THEN di_write_lock(p) ELSE di_write_lock2_parent(p, q))
        \o Some(Cpup, LAMBDA v :
               wr_dir(q, IF p = q THEN n ELSE p, v)
               \o If(exists, test_empty(m)) \o test_empty(n)
               \o If(p # q \/ "cpup" \notin v, wr_dir_need_wh(n, q, v))
               \o (IF p = q THEN W("h", p) ELSE Both("h", p, q))
               \o If("cpup" \in v, cpup_locked(n)))
        \o If(exists, Pass("h", m)) \o If(n \in Dir, Maybe("opq", Pass("h", n)))
        \o U(H(p) \cup H(q))
        \o U(DiIi(p) \cup DiIi(q) \cup DiIi(n) \cup DiIi(m) \cup Si \cup I(p) \cup I(q)
             \cup (IF exists THEN I(m) ELSE {}) \cup (IF p # q THEN {<<"sv", Root>>} ELSE {}))

(* cpup_before_link, when there are no pseudo links: the source is copied  *)
(* up under its own name, and its parent is locked for it.                 *)
cpup_before_link(n, q, v) ==
    LET p == Parent[n]
    IN  IF p = q THEN cpup_locked(n)
        ELSE di_read_lock(p) \o U(H(q)) \o test_and_cpup_dirs(p, q, v) \o W("h", p)
             \o cpup_locked(n) \o U(H(p)) \o W("h", q) \o U(DiIi(p))

(* The source is linked to, is copied up as the new name (cpup_or_link),   *)
(* or is copied up and linked to.                                          *)
aufs_link(n, m) ==
    LET p == Parent[n]
        q == Parent[m]
    IN  W("i", q) \o W("i", n) \o si_read_lock \o di_write_lock(n) \o di_write_lock(m) \o di_write_lock(q)
        \o Some(Cpup \cup {"plink", "noplink"}, LAMBDA v :
               If("cpup" \in v,
                  If(p # q, di_write_lock(p)) \o wr_dir(q, p, v) \o If(p # q, U(DiIi(p))))
               \o W("h", q)
               \o (CASE "noplink" \in v -> cpup_before_link(n, q, v)
                     [] "noplink" \notin v /\ "plink" \in v -> cpup_locked(n) \o whplink(n)
                     [] OTHER -> Nothing))
        \o Pass("h", n)
        \o U(H(q) \cup DiIi(q) \cup DiIi(m) \cup DiIi(n) \cup Si \cup I(n) \cup I(q))

-----------------------------------------------------------------------------
(* Operations on open files. *)

(* The copy-up of a name whose inode is a pseudo link already. *)
refresh_file(n) ==
    LET p == Parent[n]
    IN  R("di", p) \o U(Di(p)) \o U(DiIi(n)) \o di_write_lock(n) \o di_read_lock(p)
        \o Some(Cpup, LAMBDA v : test_and_cpup_dirs(p, n, v)) \o W("h", p) \o cpup_by_link(n)
        \o U(H(p) \cup DiIi(p)) \o di_downgrade_lock(n)

(* Up to the point where au_reval_dpath returns. *)
RevalDpath(n) ==
    W("fi", n) \o di_read_lock(n) \o U(DiIi(n))
    \o Maybe("reval", di_write_lock(n) \o au_reval_dpath(n) \o U(DiIi(n)))

au_reval_and_lock_finfo(n, wlock) ==
    RevalDpath(n)
    \o Maybe("reval", di_read_lock(n) \o If(n \in File, Maybe("plink", refresh_file(n))) \o U(DiIi(n)))
    \o If(~wlock, D(Fi(n)))

(* The hidden file is below the writable branch, or ("rw") it was opened   *)
(* before its branch became writable.                                      *)
au_ready_to_write(n) ==
    LET p == Parent[n]
    IN  R("ii", n) \o U(Ii(n))
        \o Some(Cpup \cup {"rw"}, LAMBDA v :
               If("cpup" \in v \/ "rw" \in v,
                  di_write_lock(n) \o di_write_lock(p) \o cpup_dirs(p, n, v) \o W("h", p)
                  \o (IF "cpup" \in v THEN cpup_locked(n) ELSE Pass("h", n))
                  \o U(H(p) \cup DiIi(p) \cup DiIi(n))))

(* The data of the process is paged in or out. *)
Fault == Maybe("fault", R("mm", Root) \o U({<<"mm", Root>>}))

(* An error of au_reval_dpath leaves fi_rwsem locked. *)
FailedReval(n) == si_read_lock \o RevalDpath(n) \o U(Si)

(* With udba=inotify the directory is locked on the branch of the file.    *)
(* aufs_poll, aufs_sendfile and aufs_fasync are without that lock.         *)
aufs_read(n) ==
    LET Under(k) == W(k, Parent[n]) \o Fault \o U({<<k, Parent[n]>>})
    IN  si_read_lock \o au_reval_and_lock_finfo(n, FALSE)
        \o Some({"udba", "lower"}, LAMBDA v :
               CASE "udba" \notin v -> Fault
                 [] v = {"udba"} -> Under("h")
                 [] v = {"udba", "lower"} -> Under("l"))
        \o U(Fi(n) \cup Si)

aufs_write(n) ==
    LET p == Parent[n]
        Under == W("h", n) \o Fault \o U(H(n))
    IN  W("i", n) \o si_read_lock \o au_reval_and_lock_finfo(n, TRUE) \o au_ready_to_write(n)
        \o Some({"udba"}, LAMBDA v : IF v = {} THEN Under ELSE W("h", p) \o Under \o U(H(p)))
        \o Pass("ii", n)
        \o U(Fi(n) \cup Si \cup I(n))

(* aufs_fsync_nondir and aufs_fsync_dir, which may have no file. *)
aufs_fsync(n) ==
    LET Sync(S) == W("ii", n) \o Pass("h", n) \o U(Ii(n)) \o U(S \cup Si \cup I(n))
    IN  W("i", n) \o si_read_lock
        \o (IF n \in File
            THEN au_reval_and_lock_finfo(n, TRUE) \o au_ready_to_write(n) \o Sync(Fi(n))
            ELSE Some({"nofile"}, LAMBDA v :
                      IF v = {} THEN au_reval_and_lock_finfo(n, TRUE) \o Sync(Fi(n))
                      ELSE R("di", n) \o Sync(Di(n))))

aufs_mmap(n) ==
    W("mm", Root) \o si_read_lock \o au_reval_and_lock_finfo(n, TRUE) \o au_ready_to_write(n)
    \o U(Fi(n) \cup Si \cup {<<"mm", Root>>})

FlushNoSi(n) == R("fi", n) \o R("di", n) \o U(Di(n) \cup Fi(n)) \* mutant: without si_rwsem

aufs_flush(n) == si_read_lock \o R("fi", n) \o R("di", n) \o U(Di(n) \cup Fi(n) \cup Si)

au_do_open(n) ==
    LET p == IF n = Root THEN Root ELSE Parent[n]
        rest == (IF n # Root THEN Ii(p) ELSE {}) \cup DiIi(n) \cup Si
    IN  si_read_lock \o di_read_lock(n) \o If(n # Root, R("ii", p))
        \o Some({"lower"}, LAMBDA v : IF v = {} THEN Pass("h", p) ELSE Pass("l", p))
        \o U(rest)

(* au_init_vdir reads the directory on every branch. *)
aufs_readdir(n) ==
    W("i", n) \o si_read_lock \o au_reval_and_lock_finfo(n, TRUE)
    \o W("ii", n) \o Pass("h", n) \o Pass("l", n) \o D(Ii(n)) \o Fault
    \o U(Ii(n) \cup Fi(n) \cup Si \cup I(n))

aufs_release_dir(n) == si_read_lock \o W("fi", n) \o U(Fi(n)) \o U(Si)

(* aufs_statfs and aufs_show_options. *)
aufs_statfs(n) == si_read_lock \o R("di", n) \o U(Di(n) \cup Si)

-----------------------------------------------------------------------------
(* mount(8) and the kernel threads. *)

aufs_remount_fs(n) ==
    W("i", n) \o si_write_lock \o di_write_lock(n)
    \* init_br_wh of br_add and br_mod
    \o Pass("h", n)
    \* br_mod to read-only
    \o U(DiIi(n)) \o Each(File, LAMBDA x : R("fi", x) \o U(Fi(x))) \o di_write_lock(n)
    \* test_children_busy in br_del, the longer way: every dentry is stale
    \o U(DiIi(n))
    \o Each(Dir \cup File, LAMBDA x :
            di_write_lock(x) \o au_reval_dpath(x) \o di_downgrade_lock(x) \o U(DiIi(x)))
    \o di_write_lock(n)
    \* half_refresh_plink
    \o Each(File, LAMBDA x : Pass("ii", x))
    \* refresh_dir
    \o U(DiIi(n))
    \o Each(Dir, LAMBDA x : di_write_lock(x) \o di_read_lock(Parent[x])
                            \o lkup_dentry(x, "h") \o lkup_dentry(x, "l") \o U(DiIi(Parent[x]) \cup DiIi(x)))
    \o di_write_lock(n)
    \o U(DiIi(n) \cup Si \cup I(n))

reinit_br_wh(n) == si_write_lock \o W("h", n) \o U(H(n) \cup Si)

do_rmdir_whtmp(n) ==
    LET p == Parent[n]
    IN  W("i", p) \o si_read_lock \o W("ii", n) \o W("ii", p) \o W("h", p) \o Pass("h", n)
        \o U(H(p) \cup Ii(p) \cup Ii(n) \cup Si \cup I(p))

(* With a dentry of the directory, or without. *)
postproc(n) ==
    W("i", n) \o si_read_lock
    \o Some({"noalias"}, LAMBDA v :
           IF v = {} THEN di_write_lock(n) \o U(DiIi(n) \cup Si \cup I(n))
           ELSE W("ii", n) \o U(Ii(n) \cup Si \cup I(n)))

-----------------------------------------------------------------------------

(* The programs of an operation. *)
Programs ==
    LET On(S, P(_)) == {P(n) : n \in S}
        (* The target is a negative dentry, not below the source. *)
        To(S, P(_, _)) == UNION {{P(n, m) : m \in {x \in Neg : ~Above(n, x)}} : n \in S}
        Any == Dir \cup File
    IN  [lookup  |-> On(Any \cup Neg, aufs_lookup),
         reval   |-> On(Any, aufs_d_revalidate),
         perm    |-> On(Any, aufs_permission),
         create  |-> On(Neg, add_simple),
         unlink  |-> On(Any, aufs_unlink),
         setattr |-> On(Any \cup {Root}, aufs_setattr),
         rename  |-> To(Any, aufs_rename),
         link    |-> To(File, aufs_link),
         read    |-> On(File, aufs_read),
         failed  |-> On(File, FailedReval),
         write   |-> On(File, aufs_write),
         fsync   |-> On(Any, aufs_fsync),
         mmap    |-> On(File, aufs_mmap),
         flush   |-> On(File, aufs_flush),
         open    |-> On(Any, au_do_open),
         readdir |-> On(Dir, aufs_readdir),
         release |-> On(Dir, aufs_release_dir),
         statfs  |-> On({Root}, aufs_statfs),
         rmdirwh |-> On(Dir, do_rmdir_whtmp),
         postproc |-> On(Dir \cup {Root}, postproc),
         remount |-> On({Root}, aufs_remount_fs),
         reinit  |-> On({Root}, reinit_br_wh)]

UserCode   == UNION {Programs[o] : o \in Op \ {"remount", "reinit"}}
WriterCode == UNION {Programs[o] : o \in Op \cap {"remount", "reinit"}}

-----------------------------------------------------------------------------
(* Steps. *)

In(p)  == todo[p] # <<>>
Now(p) == Head(todo[p])
The(p) == CHOOSE l \in Now(p).on : TRUE

Waiting(p) == In(p) /\ Now(p).a \in {"R", "W"} /\ \E i \in DOMAIN wait[The(p)] : wait[The(p)][i].p = p

(* down_read and down_write of a rw_semaphore; a mutex is only taken "W". *)
Free(l, m) == IF m = "R" THEN \A x \in hold[l] : x.m = "R" ELSE hold[l] = {}

Advance(p) == todo' = [todo EXCEPT ![p] = Tail(@)]

Begin(p, code) ==
    /\ ~In(p)
    /\ todo' = [todo EXCEPT ![p] = code]
    /\ UNCHANGED <<hold, wait>>

Choose(p) ==
    /\ In(p) /\ Now(p).a = "?"
    /\ \E s \in Now(p).of : todo' = [todo EXCEPT ![p] = s \o Tail(@)]
    /\ UNCHANGED <<hold, wait>>

Acquire(p) ==
    /\ In(p) /\ Now(p).a \in {"R", "W"} /\ ~Waiting(p)
    /\ LET l == The(p)
           x == [p |-> p, m |-> Now(p).a]
       IN  IF wait[l] = <<>> /\ Free(l, x.m)
           THEN hold' = [hold EXCEPT ![l] = @ \cup {x}] /\ Advance(p) /\ UNCHANGED wait
           ELSE wait' = [wait EXCEPT ![l] = Append(@, x)] /\ UNCHANGED <<todo, hold>>

(* The first waiter gets the lock. *)
Wake(p) ==
    /\ Waiting(p)
    /\ LET l == The(p)
       IN  /\ Head(wait[l]).p = p /\ Free(l, Now(p).a)
           /\ hold' = [hold EXCEPT ![l] = @ \cup {Head(wait[l])}]
           /\ wait' = [wait EXCEPT ![l] = Tail(@)]
           /\ Advance(p)

Release(p) ==
    /\ In(p) /\ Now(p).a = "U"
    /\ hold' = [l \in Lock |-> IF l \in Now(p).on THEN {x \in hold[l] : x.p # p} ELSE hold[l]]
    /\ Advance(p) /\ UNCHANGED wait

Downgrade(p) ==
    /\ In(p) /\ Now(p).a = "D"
    /\ hold' = [l \in Lock |-> IF l \in Now(p).on THEN {[p |-> p, m |-> "R"]} ELSE hold[l]]
    /\ Advance(p) /\ UNCHANGED wait

(* A choice, a release inside si_rwsem and the hand-over of a free lock to *)
(* its first waiter never wait, only let others go on and cannot let a     *)
(* writer in behind a reader: they are the next step.  This loses no       *)
(* deadlock and nothing that BigLock is about.                             *)
Quick(p) ==
    /\ In(p)
    /\ \/ Now(p).a = "?"
       \/ Waiting(p) /\ Head(wait[The(p)]).p = p /\ Free(The(p), Now(p).a)
       \/ /\ Now(p).a \in {"U", "D"} /\ Si \cap Now(p).on = {}
          /\ \E x \in hold[<<"si", Root>>] : x.p = p

Turn(p) == Quick(p) \/ ~\E q \in Proc : Quick(q)

Init ==
    /\ todo = [p \in Proc |-> <<>>]
    /\ hold = [l \in Lock |-> {}]
    /\ wait = [l \in Lock |-> <<>>]

Next == \E p \in Proc : /\ Turn(p)
                        /\ \/ \E code \in (IF p \in User THEN UserCode ELSE WriterCode) : Begin(p, code)
                           \/ Choose(p) \/ Acquire(p) \/ Wake(p) \/ Release(p) \/ Downgrade(p)

Spec == Init /\ [][Next]_vars

-----------------------------------------------------------------------------

Holds(p, l, m) == [p |-> p, m |-> m] \in hold[l]

(* A writer is alone, and a process releases and downgrades only what it   *)
(* holds: every unlock call has the flags of its lock call.                *)
TypeOK ==
    /\ \A p \in Proc : In(p) => Now(p).a = "?" \/ Now(p) \in [a : {"R", "W", "U", "D"}, on : SUBSET Lock]
    /\ hold \in [Lock -> SUBSET [p : Proc, m : {"R", "W"}]]
    /\ \A l \in Lock : \A i \in DOMAIN wait[l] : wait[l][i] \in [p : Proc, m : {"R", "W"}]
    /\ \A l \in Lock : \A x, y \in hold[l] : x.m = "W" => x = y
    /\ \A p \in Proc : In(p) => /\ Now(p).a = "U" => \A l \in Now(p).on : \E x \in hold[l] : x.p = p
                                /\ Now(p).a = "D" => \A l \in Now(p).on : Holds(p, l, "W")

(* Whom p waits for: who holds the lock, and who came before. *)
Blockers(p) ==
    LET q == wait[The(p)]
        i == CHOOSE j \in DOMAIN q : q[j].p = p
    IN  {x.p : x \in hold[The(p)]} \cup {q[j].p : j \in 1 .. i - 1}

(* No processes wait for each other, whatever operations they are in. *)
NoDeadlock ==
    ~\E S \in SUBSET {p \in Proc : Waiting(p)} : S # {} /\ \A p \in S : Blockers(p) \cap S # {}

(* While a process has si_rwsem for writing, nobody else holds or waits    *)
(* for a lock below it, and it never waits for one: DiMustNoWaiters,       *)
(* IiMustNoWaiters and FiMustNoWaiters of br_mod and test_children_busy.   *)
BigLock ==
    \A p \in Proc : Holds(p, <<"si", Root>>, "W") =>
        \A k \in {"di", "ii", "fi"}, n \in Name :
            wait[<<k, n>>] = <<>> /\ \A x \in hold[<<k, n>>] : x.p = p
=============================================================================
