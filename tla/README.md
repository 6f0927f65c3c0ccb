# A TLA+ model of aufs

aufs is a stackable union filesystem for Linux: several directories of other
filesystems, the *branches*, are shown as one tree.  Branch 0 is the uppermost.
Each branch is writable or read-only.  Names are removed from lower branches by
*whiteouts* (`.wh.<name>`), directories cut off what is below them by an *opaque
mark*, and a write to a file on a read-only branch first *copies it up*.

The models are of `fs/aufs/`.  "Hidden" is aufs' word for what is on a branch.

## The parts of the system

| Part | State | Operations | What is hard |
|---|---|---|---|
| lookup (`dentry.c`) | hidden dentries, dbstart, dbend, dbwh, dbdiropq of a dentry | `lkup_dentry`, `lkup_neg`, `d_revalidate`, `au_refresh_hdentry` | mixtures of types and permissions; cached indices after a remount |
| create (`i_op_add.c`) | the branches | `add_simple`, `aufs_mkdir`, `aufs_link` | each step can fail, the undo too; power failure between steps |
| remove (`i_op_del.c`, `dir.c`) | the branches | `aufs_unlink`, `aufs_rmdir`, `test_empty` | is a whiteout needed?  revert |
| rename (`i_op_ren.c`) | the branches | `aufs_rename` | whiteouts and opaque marks at both ends |
| copy-up (`cpup.c`, `file.c`) | the branches | `cpup_dirs`, `cpup_single`, `au_ready_to_write` | partial copies, revert |
| whiteouts (`whout.c`) | base file and plink directory of a branch, `br_wh_running` | `init_wh`, `reinit_br_wh`, `link_or_create_wh`, `do_rmdir_whtmp` | jobs that run after a remount |
| branches (`branch.c`, `sbinfo.c`) | `si_branch`, `si_bend`, `si_last_br_id`, `br_count`, `br_perm` | `br_add`, `br_del`, `br_mod`, `new_br_id` | indices shift under everybody who kept one |
| remount (`super.c`, `opts.c`) | `si_generation`, flags | `aufs_remount_fs`, `verify_opts`, `refresh_dir` | several options in one call, errors half-way |
| open files (`file.c`, `finfo.c`, `f_op.c`) | hidden files, fbstart, generation | `au_do_open`, `refresh_file`, `aufs_write` | stale index and mode |
| work queue (`wkq.c`) | queued items | `au_wkq_nowait`, `au_wkq_wait` | runs later, without the caller's locks |
| pseudo links (`plink.c`) | list of inodes, links on disk | `append_plink`, `half_refresh_plink` | list and disk disagree after an error |
| xino (`xino.c`) | hidden inode number to union inode number | `xino_read`, `xino_write` | reuse of numbers |
| readdir (`vdir.c`) | cached merged directory | `au_init_vdir`, `au_fill_de` | merge through whiteouts |
| inotify (`hinotify.c`) | watches, queued events | `aufs_inotify`, `postproc` | own and foreign events, late events |
| locks (`dinfo.c`, `iinfo.c`, `super.h`) | rwsems | `di_*`, `ii_*`, `fi_*`, `si_*` | order, release on error paths |
| export, sysfs, vfsub, dcsub, misc, debug, util | - | - | no state of their own that a property is about |

They meet in three ways: all operations on names call lookup and then the branch
filesystems (`vfsub_*`); all of them take `si_rwsem` for reading while a remount
takes it for writing; work items and open files keep references to branches (an
object with `br_count`, an index, or both) across remounts.

What makes the system correct:

* a system call on the union is atomic, also when one of its steps fails ("revert a
  single systemcall when an error occurs in aufs", `README`);
* nothing is ever written to a read-only branch;
* whatever happens, a name that was not named by the call keeps its contents;
* a branch that is referred to stays, and an index that is used names the branch that
  was meant;
* work that was queued is done.

## The modules

| Module | Models |
|---|---|
| `Namespace` | the promise: one tree, calls that commit, abort, or are cut by a crash |
| `UnionFS`, `MCUnionFS` | lookup, create, mkdir, unlink, rmdir, write with copy-up, as sequences of calls on the branches |
| `Rename`, `MCRename` | rename over the branches of `UnionFS`, with every undo step |
| `BranchTable`, `MCBranchTable` | branch table, remount, open files, base files, work items |
| `Refresh`, `MCRefresh` | slots of cached dentries and inodes across remounts, revalidation |
| `Vdir`, `MCVdir` | the merged list of readdir, its copies and file positions |
| `Plink`, `MCPlink` | inode numbers (xino), hard links, pseudo links, `auplink` |
| `Hinotify`, `MCHinotify` | watches on the branches, the event handler, the queued post-processing |
| `Locks`, `MCLocks` | the lock calls of the operations, against each other |
| `UnionFSProofs`, `RenameProofs`, `BranchTableProofs`, `RefreshProofs`, `VdirProofs`, `PlinkProofs`, `HinotifyProofs` | theorems about the module of that name |
| `NatLemmas` | facts about numbers that several proofs use |

`Rename` extends `UnionFS` and uses its disks, lookup and crash.  The other modules each take
the part of the state that one kind of hazard is about and treat the rest as a free choice:
`BranchTable` has no names, `Refresh` no open files, `Locks` only locks.

### UnionFS

State: `perm` is `br_perm` of each branch; `ent[b][p]`, `wh[b]`, `opq[b]` are what is on
the disk of branch `b`; `op` is the call in progress with its program counter `pc`, the
branch of the entry (`bs`, dbstart), the branch to be written (`b`, bcpup), whether a
whiteout is involved (`w`), the errors so far (`nf`) and the tree when it began
(`before`, a history variable used only by properties and the refinement mapping).

`BeginAdd`, `BeginRemove` and `BeginWrite` are the part of a call before its first change:
lookup, permission tests, `wr_dir`, `find_rw_parent_br`, `wr_dir_need_wh`, `test_empty`.
Every further action is one call on a hidden filesystem with its error path:

    create  [CpDir DirIattr Negative] Make [RmWh] Inode        undo: ReWh UnMake
    mkdir   [CpDir DirIattr Negative] Make [MkOpq] [RmWh] Inode undo: ReWh RmOpq UnMake
    unlink  [CpDir DirIattr] [MkWh] [Del]                       undo: UnWh
    rmdir   as unlink, Del is rename to a temporary name        undo: UnWh
    write   [[CpDir DirIattr] CpFile Copy Iattr] Store          undo: UnMake
    (UnDir undoes CpDir)

The lookup loops are sets: `Pos` is what is above the first whiteout, `HDentries` what the
merged dentry keeps, `View` what a process sees.  Calls that fail before their first change
(EROFS, EEXIST, ENOTEMPTY) change nothing and are no steps.

One call is in flight at a time: VFS holds the i_mutex of the parent directory and aufs the
dinfo and iinfo locks of entry and parent for all of it.  Two calls in different directories
can meet only in `cpup_dirs`, whose locks are in `Locks`.  Every call starts from a
fresh lookup; cached dentries are in `Refresh` and `Hinotify`.  Removing a temporary
directory (`rmdir_whtmp`) changes no name; that it may come late is in `BranchTable`.
A write is one step for the data, a copy-up two (empty file, then the contents).

`Init` allows every content of the branches that well-formed filesystems can have, with the
whiteouts that the manual allows (none on a plain `ro` branch, none beside the entry).
`DirOverGap = FALSE` leaves out directories over a gap, on which `rmdir` goes wrong (see
`union_gap`); the run of the refinement uses it, all others do not.

### BranchTable

A branch object is named by its root directory; `idx` is its place in `si_branch`.  The
remount is a sequence of options (`BrAdd`, `BrDel`, `BrMod`, `SetPlink`) between
`BeginRemount` and `EndRemount`, with `si_rwsem` held; `EndRemount` is `verify_opts` and
`sigen_inc`.  An open file has its branch by object (`br`, hf_br), by index (`bs`, fbstart),
the mode asked for and the mode of the hidden file, and whether its generation is current.
Work items are `reinit` (with the unlocked test before the lock as a step of its own) and
`later` (`do_rmdir_whtmp`).  `oops` records a DEBUG_ON or NULL pointer; nothing happens
after it.  `wrote` is the branch a work item wrote to in the last step.

Where the code asks about things outside the model the answer is nondeterministic: is a
cached dentry in the way of `br_del`, which hidden call of `init_wh` fails, on which branch
does a refreshed file come to lie, is the file mapped.

### Rename

`op` is a call of `aufs_rename` from its lookups to its last undo step; `bs` and `bd` are the
branches of source and target, `b` the branch on which the rename happens (`btgt`), `tmp` what
was put aside under a temporary name, `cp` the copy-up in progress.  The steps are those of
`do_rename` in its order: whiteout of the source, removal of the target's whiteout, the target
directory put aside, rename on the branch or copy-up under the new name, opaque mark, removal of
what the whiteout leaves over; each has its error path and `UnOpaque`, `UnMove`, `UnTmp`
and `UnWhSrc` undo in the code's order.  A failed undo ends the call with `EIO`.

### Refresh

A dentry is an array `hd` of hidden dentries with `bstart`, `bend`, `bwh`, `bopq`, its inode an
array `hi` of hidden inodes that know the id of their branch.  `BrAdd` and `BrDel` shift the slots
of the root only; `DirsRefresh` is `refresh_dir` at the end of a remount, `RevalStep` is
`au_reval_dpath` when a stale dentry is next used.  The two loops are modelled turn by turn:
`HdKeep`, `HdMove`, `HdRange`, `HdLkup` are `au_refresh_hdentry`, `HiKeep`, `HiMove`, `HiAdopt`
are `au_refresh_hinode`.  The swap loop goes back one slot after a swap, which is why
`SwapProgress` is checked as an action property: every turn makes a measure smaller.

### Vdir

The list is a sequence of entries with their offsets in blocks of `Blk` units.  `ivdir` is the list
in the inode, every open file has its own copy, version and position, and the positions of its
hidden files (`hend`: at the end, `hseen`: the entries of the next one it has returned).  `rd` is the readdir
under way: `Readdir` decides whether a list is to be built (`DoRead`), `ReadEntry` is one call of
`fillvdir`, with a name or a whiteout from the topmost branch that has some left, `ReadVdir` the end of
`read_vdir`, and `CopyVdir` the copy in `au_init_vdir` together with `au_fill_de`.  Building a list reads each
hidden file from where an earlier reading left it.  Other files may be opened, closed and sought meanwhile;
the directory itself is locked.  `Rank` restricts the order in which a hidden directory returns
entries: names of one rank come in any order.

### Plink

`low` and `up` are the hidden inodes of the names on the two branches, `xino` the two tables,
`inode` the inodes in memory, `list` and `pldir` the two halves of a pseudo link.  Inode numbers of
the writable branch are used again as soon as they are free.  `fid` and `ver` are history: the file
a name stands for and its last write.  `auplink` is a job of four steps; the passing run gives
it the union for itself, as its manual asks (`PlinkBusy.cfg` does not).

### Hinotify

`dent` is the cached dentry of a name with the branches it was found on, its hidden inode and
`di_reval`; `mask` the watch of each hidden directory.  A lookup takes one step per branch and one
to hash the dentry and set the watches, so that a direct change of a branch can come anywhere in
between.  The handler runs in the process that made the change and is part of that step;
`Postproc` is the queued rest.  A list read from the branches is `stale` when a change came after
its branch had been read.  `d_invalidate` and shrinking are one action, `Invalidate`.  Creates and unlinks
are by `OwnChange`, which may fail: a failed create drops its dentry, a failed unlink changes nothing, and
neither makes the list obsolete.  There is no mkdir and no rmdir, the subdirectory only goes when a user moves it
away, and the `di_reval` of the root is left out (see below).

### Locks

An operation is the sequence of its lock calls, written with the names of the functions it calls
(`di_write_lock`, `cpup_dirs`, `test_and_cpup_dirs`, `au_reval_dpath`, ...), so that each of
them is translated once.  Locks are `si_rwsem`, `fi_rwsem`, `di_rwsem` and `ii_rwsem`, the `i_mutex` of
the union's inodes ("i"), of those of the writable branch ("h"), of a lower branch ("l") and of the directory of pseudo
links ("pl"), `s_vfs_rename_mutex` and `mmap_sem`.  `hold` and `wait` are their holders and waiters:
rw_semaphores in the order of arrival (a reader queues behind a writer, so a second read lock can deadlock), and mutexes.

Where the options of the mount, the arguments or the branches decide how an operation goes on, its sequence has
a choice (`Some`, `Maybe`) over these variants, made when the process gets there:

| Variant | |
|---|---|
| `reval` | a dentry or file is of an older generation |
| `cpup`, `deep`, `rw` | the parent and the entry have to be copied up; two levels of parents; a file opened before its branch became writable |
| `plink`, `linked`, `noplink` | a copy-up makes a pseudo link, or follows one; pseudo links are disabled |
| `udba` | udba=inotify: `aufs_setattr`, `aufs_read`, `aufs_write` and `cpup_dirs` lock the hidden parent, and the one above it, to suspend their watches |
| `nd`, `self` | `hidden_d_revalidate` and `aufs_permission` lock the dentry of the nameidata |
| `lower` | the hidden file is on the lower branch |
| `opq` | a new directory is made opaque, or a new entry is taken away again |
| `known` | a lookup finds an inode that is in memory under another name |
| `fault` | copying to or from the process faults |
| `nofile`, `noalias` | fsync without a file, post-processing without a dentry |

Choices, releases inside `si_rwsem` and the hand-over of a free lock to its first waiter are taken at once
(`Quick`, `Turn`).  They never wait and only let others go on.  A process that has them ahead is in no set of
processes that wait for each other, and whoever waits for it alone is in none either, so no deadlock needs such a
step to be late.  `BigLock` speaks of states in which a process has `si_rwsem` for writing; everybody else is then outside of
`si_rwsem`, where releases are not brought forward.

Not among the locks are those under which nothing else is taken: the rwsem of a branch's whiteout base, spinlocks, and the
`i_mutex` of the whiteout base and of the xino files.  NFS export is not modelled, and the copy-on-open code
of `file.c` is disabled in the source (`#if 0`).

## Runs

Passing:

* `union_atomic` (`UnionFS.cfg`): `UnionFS` implements `Namespace`, with one failure per call
  and one crash, on the usual `rw, ro+wh, ro`, on `ro, rw, rr+wh` (a writable branch in the
  middle) and on `rw, rw, ro`.
* `union_faults` (`UnionFaults.cfg`): two failures per call (a step and its undo) and two
  crashes, `diropq=always`, permissions that include `rw+nolwh`: types, `OthersIntact`,
  `HiddenWF`, `ReadOnlyUntouched`.  Here calls are no longer atomic (a failed undo is `EIO`),
  but the damage is confined to the name and to one branch.
* `branch_table` (`BranchTable.cfg`): two roots with four permissions, an open file, a queued job,
  ids modulo 3 so that they wrap: the table, its ids and indices agree, `br_count` and
  `br_wh_running` are exact (`CountExact`), and the base files a branch has fit its permission
  (`BaseFitsPerm`), between the options of a remount as well.
* `rename` (`Rename.cfg`): every pair of names over every content of `rw, ro` and `rw, rw` (the
  lower branch holds no whiteout at first, where it would hide nothing), two failures and a crash: `RenameOkPlain` and `RenameUndone` say what a successful and a failed
  rename leave, `TargetStays` that a replaced file is never missing, also after a crash,
  `BystandersIntact` that no other name changes; `HiddenWF` and `ReadOnlyUntouched` as for `union_faults`.
* `refresh` (`Refresh.cfg`): two remounts of one option each over six kinds of content of three branches, with
  one failing step: every hidden dentry and inode is in the slot of its branch, the refreshed dentry
  shows what a fresh lookup would (`SeenAfreshPlain`, without whiteouts and opaque marks), parents
  are refreshed before children, and the loops end.
* `vdir` (`Vdir.cfg`): two open directories, names of different sizes in blocks that they fill
  exactly, a seek or a failing read, an added branch.
* `plink` (`Plink.cfg`): three names of a hard link, a new file, two reusable hidden inode numbers,
  and an xino table that may be lost once.
  With two hard-linked files below (3.3 million states) it passes too.
* `hinotify` (`Hinotify.cfg`): a file in the root and one in the subdirectory, one direct change.
  A dentry that revalidation accepts shows what the branches hold (`Fresh`); a list that lacks a change has a
  `postproc` queued that makes it obsolete (`ListDue`), and is given up in the end (`ListSeen`).
  With two changes (1.9 million states) the safety properties hold too.
* `locks` (`Locks.cfg`): two processes and one that takes `si_rwsem` for writing, any operation of
  nineteen each, with twelve of the variants above.  Three are needed: a reader of `si_rwsem` that holds something else is only
  dangerous when a writer waits between it and another reader.  With two processes the same
  holds in a tree with two directories side by side, and in one with a directory in a directory
  when there is no rename (`LocksDeep.cfg` is about that rename).

Violations, each a disagreement of the code with its manual, comments or assertions (details in
`PROJECT.json`):

* `union_gap` (`UnionGap.cfg`): `wr_dir_need_wh` searches below with a stale dbwh.
* `branch_stale_job` (`BranchStaleJob.cfg`): a deferred rmdir tests the permission of the branch that
  has its old index now.
* `plink_truncate` (`PlinkTruncate.cfg`): a truncation whose copy-up follows a pseudo link is lost.

### Further configurations

Each of these asks a question of the same modules that is not among the runs above.  All but
`BranchLive.cfg` end with a counterexample, which marks the limits of
what the runs claim.

| Configuration | Property | What TLC finds |
|---|---|---|
| `UnionNolwh.cfg` | `RemovedIsGone` | whiteouts on a `rw+nolwh` branch are made but not looked up (`branch.h:77`) |
| `UnionOops.cfg` | `BranchIndexOK` | a crash leaves an entry beside its whiteout; the next create uses branch -1 (`i_op.c:305`, against the assertion `sbinfo.c:40`) |
| `BranchStaleJob.cfg` with `INVARIANT IndexInTable` | `IndexInTable` | the index of a deferred rmdir is beyond `sbend` after a `del` (`whout.c:887`) |
| `BranchStaleFile.cfg` | `NoWriterOnReadOnly` | `br_mod` after another option of the same remount misses the writers (`branch.c:790`) |
| `BranchReinit.cfg` | `ReinitHasBase` | `br_mod` takes the base file from a queued `reinit_br_wh` (`whout.c:475`) |
| `BranchLive.cfg` | `ReinitEnds` | holds under `FairSpec` |
| `RenameMerged.cfg` | `RenameOk` | a directory renamed over an emptied one is not made opaque: the names hidden by the old whiteouts are back (`i_op_ren.c:147`) |
| `RenameEio.cfg` | `OneFailureUndone` | the undo of a directory renamed by copy-up calls `vfsub_unlink` on it: `EIO` after one failure (`i_op_ren.c:274`) |
| `RefreshMarks.cfg` | `SeenAfreshMarked` | a refreshed lookup goes on below an opaque directory (`dentry.c:300`) |
| `RefreshBusy.cfg` | `LastBranchStays` | `del` after `add` in one remount tests slots of the old generation and takes a busy branch for free (`branch.c:577`) |
| `RefreshRace.cfg` | `PositiveRefreshed` | a negative dentry of the old generation survives the remount and meets `DEBUG_ON(!inode)` (`dentry.c:809`) |
| `VdirRewind.cfg` | `PassComplete` | a list built again through the same open file starts where its hidden files were left: names are missing (`vdir.c:552`) |
| `PlinkGen.cfg` | `Identity` | with several values of `i_generation` a copied-up name gets a second inode number (`inode.c:265`) |
| `PlinkNomem.cfg` | `NoForeign` | after a failed allocation in `append_plink` a hidden inode number is reused under an inode in memory |
| `PlinkLink.cfg` | `NoForeign` | a failed `whplink` leaves the inode on the list without a link; once `auplink` clears the list its hidden inode number is reused under the same inode number |
| `PlinkBusy.cfg` | `DataRight` | `auplink` while the union is in use clears pseudo links it has not copied up (the manual forbids it, `aufs.in.5:542`) |
| `HinotifyWh.cfg` | `Fresh` | the handler skips names of whiteouts (`hinotify.c:500`): a whiteout made directly leaves the dentry valid |
| `LocksLeak.cfg` | `BigLock` | an error of `au_reval_dpath` leaves `fi_rwsem` locked (`file.c:681`), and the next remount waits for it under `si_rwsem` |
| `LocksLink.cfg` | `NoDeadlock` | `aufs_link` takes the parent of the source after that of the target ("todo: dead lock?", `i_op_add.c:294`) |
| `LocksDeep.cfg` | `NoDeadlock` | a rename up the tree holds both parents while `cpup_dirs` locks a directory between them (`cpup.c:685`) |
| `LocksKnown.cfg` | `NoDeadlock` | `au_new_inode` takes an `i_mutex` under the locks of aufs (`inode.c:269`; "lock vfs_inode first, then aufs", `super.c:636`) |
| `LocksMmap.cfg` | `NoDeadlock` | `aufs_mmap` takes `fi_rwsem` under `mmap_sem`, `aufs_read` faults under `fi_rwsem` (`f_op.c:406`) |

So the `locks` run shows that the order is right *except* for link(2), renames out of a directory
that is more than one level below the other, lookups of inodes that are in memory under another
name, and page faults on mapped files of the union itself.  The first two are operations or trees that the run
leaves out, the other two the variants `known` and `fault`; `deep` needs a deeper tree, and `noplink` is about link(2) only.

### Bounds

Three branches are the fewest with something above, at and below the branch of interest, and
with a gap.  One directory and one name in it exercise parents, merging and emptiness; names
in different directories do not influence each other (this is what `OthersIntact` says, which is
proved for any two-level tree).  Two contents
tell old from new.  One failure reaches every undo path, a second one every failing undo; a
second crash starts from the leftovers of the first.  Two options per remount are enough for
an option to meet the shift of the one before.  Ids wrap at 3 with 2 branches, so the search of
`new_br_id` has to skip.  `MaxJobs = 1`: jobs do not interact.

`Rename` needs two directories with a name of the same last component in each, so two branches
and three contents.  `Refresh` starts with two branches and has a third to add; an insertion
or removal at each end and in the middle is then possible.  `Vdir`: `Blk = 6`, `EndSize = 2`
and sizes 2, 3 and 4 make entries that end at a block, leave exactly an end mark, less than one, and do not fit;
`MaxEvent = 1`, one seek or one failure; the hidden directories return names in one order, and the whiteout of a
name before or after the name (`VdirProofs` is about any order).
`Plink`: two hidden inode numbers, so that a copy meets a reused number.  `Hinotify`: one direct change
at any point of a lookup, create, unlink or readdir.

Deadlock is not checked where the system may rest: `UnionFS` when no call is possible on a union
without a writable branch, `BranchTable` and `Plink` where the kernel would stop at a DEBUG_ON or a
bound is reached.

### Fairness

`FairSpec` of `BranchTable`: a queued work item is started (the kernel's work queue runs every
item), a remount ends (it is a loop over a list of options), and the job gets `si_rwsem`
though remounts come again and again (strong fairness of `ReinitRun`; Linux rwsems queue
writers in order, so none is overtaken for ever).  Nothing is assumed of the processes.

`Spec` of `Hinotify`, for `ListSeen`: a process in the middle of a call goes on (weak fairness of
`Run`; calls do not block for ever on the branches), and the kernel thread gets the `i_mutex` of
the directory though processes take it again and again (strong fairness of `Postproc`; waiters
of an `i_mutex` are served in the order of arrival).  Nothing is assumed of when users change a branch,
start a call or shrink the cache.

## Proofs

Every theorem holds for all values of the constants that the module's ASSUME allows.  The
assumptions say that names, branches and values are of different kinds, that a tree has two levels
and that tables have fewer slots than ids; TLC evaluates them in the runs.  Every inductive invariant below was
checked with TLC on the instance of the run before it was proved.

### UnionFSProofs

For any number of branches, any two-level tree, any permissions and any bounds on failures and
crashes:

* `TypeCorrect`: `Spec => []TypeOK`.  Needs `CallShape` (which steps belong to which calls) to
  be inductive, and that `Min` and `Max` of a non-empty set of branches are in it (`MinBr`, `MaxBr`).
* `ReadOnlySafe`: `Spec => ReadOnlyUntouched`.  Inductive invariant `TypeInv /\ TargetWritable`:
  `WrBranch` returns writable branches only (`WrBranchWritable`), the permission does not change
  during a call, and every step, undo steps included, writes to `op.b` only (`StepTarget`).
* `WellFormedSafe`: `Spec => []HiddenWF`.  `HiddenWF` is not inductive: `UnDir` and `UnMake`
  remove a directory, and only the history of the call says that it is empty.  `CallWF` adds
  what each step knows: the parent is a directory on the target branch, what is about to be
  made does not exist yet (so by `HiddenWF` has nothing inside), what has been made is still
  empty, the source of a copy-up is a file.
* `OthersSafe`: `Spec => []OthersIntact`.  What a lookup shows is written as a function (`Shown`, from
  `Found`, `Merged`, `Inside`) of what the branches hold for one name and its parent.  A
  step of a call changes the arguments of that function for other names in two ways only: it
  makes, or removes again, an empty directory that is the copy of a parent found below (`DirTouches`), or it
  changes the name itself.  `AddDir` and `AddBranch` show that the first leaves the function's
  value alone.  The invariant `SeenInv` adds `ParentKnown`, that such a parent really was found
  below and nothing above it is hidden.

### RenameProofs

For any number of branches, any two-level tree, any permissions, any number of failures and crashes:

* `RenameWellFormed` and `RenameReadOnlySafe`: `HiddenWF` and `ReadOnlyUntouched` of `RenameSpec`.
* `BystandersSafe`: `RenameSpec => []BystandersIntact`.
* `TargetSafe`: `RenameSpec => []TargetStays`, when no branch is `rw+nolwh`.  The hypothesis is needed: on
  such a branch a whiteout can lie beside the file, its removal can fail after the move, and
  renaming back leaves the new name empty (TLC finds this with two branches, the upper one `rw+nolwh`).
* `UndoneSafe`: `RenameSpec => []RenameUndone`, under the same hypothesis and for the same reason: what
  `RenameUndone` says is false of a file replaced beside such a whiteout.

The invariant `RenInv` adds to the types what the steps of `do_rename` rely on: neither name is inside
the other (`NamesApart`, from the checks of VFS), what the record of a copy-up in progress refers to
(`ParentCopy`, `EntryCopy`), which parents exist on the branch already (`Parents`), and what
the branch holds under the two names at every step (`Names`: what is moved onto holds no
directory, what was moved away left the name free).  `Bystanders` rests on the lemmas about lookup of
`UnionFSProofs`.  For `TargetStays`, `TargetInv` adds that the branch on which lookup found the file
has one all the time and nothing hides it (`TargetThere`), and that the steps for directories and for a
whiteout of the new name, and so `unmove`, are not reached (`TargetCall`).

For `RenameUndone` the state must say what the branch held when `do_rename` began, although no variable
keeps it.  It is a function of the branch and of the call (`OldEnt`, `OldWh`, `OldOpq`): what the undo steps
still ahead would leave.  `UndoInv` says that lookup over the branch as it was (`HadSeen`) shows the tree the
call began with, as long as no undo step has failed (`HadBefore`).  A forward step changes the branch
and adds the undo step that takes the change back, an undo step takes it off both sides; either way the function's
value stays (`UndoFrom`, `HadKept`).  What remains is:

* the first step and the last, where the branch as it was is the branch (`HadWas`, `HadBack`);
* that renaming back is the inverse of renaming, for the entries, the whiteouts and the opaque marks of the
  directory and of what is in it (`EntsBack`, `WhsBack`, `OpqsBack`); this is where `TwinAssumption`, that every last component
  can be in every directory, is used;
* a rename on the branch that fails after the entry was copied up under its old name: `do_rename` does not
  remove the copy, and it shows what the entry below showed (`UndoMoveFail`, from `AddFile` and
  `SrcThere`, that lookup found the entry first at `op.bs`);
* that a replaced file has no way back once it is gone: no whiteout and no opaque mark can be involved
  (`TargetFree`), so no step after the rename can fail;
* the copy-up of a parent directory, after which lookup finds the old name where it was (`SrcParent`).

### BranchTableProofs

For any roots, files, permissions, table size, number of jobs and options: `TypeCorrect`, `TableSafe`, `IdsSafe`,
`FreeSafe`, `CountSafe`, `IndexSafe` and `BaseSafe`, one for each invariant of the run
`branch_table`.  They are inductive together (`IInv`): a branch that is referred to is not freed
because its count is not zero, which holds because the count is exact; the id that
`new_br_id` returns is free because fewer ids are in use than there are, which needs the table to
be an array; and the index of an open file is right only as long as no option has moved a branch,
so `IndexClean` says it between the options of a remount too.

### RefreshProofs

For any set of branches with any contents, any table size, any number of failures, and as many remounts
as leave `si_last_br_id` without a wrap (`IdAssumption`; what `new_br_id` does at the wrap is in
`BranchTable`), under the hypothesis `MaxOpt <= 1`: one branch option per remount.  Several in one remount do go
wrong (`RefreshBusy.cfg`), because the later option reads slots that the earlier one has made stale.

* `TypeInvariant`, `SlotsInvariant`, `InodeInvariant`, `ParentInvariant`: `TypeOK`, `SlotsRight`,
  `InodeMatches` and `ParentFirst`, from the inductive invariant `RefInv` (`RefInvariant`).
* `SwapLoopsEnd`: `Spec => SwapProgress`.  A swap puts one slot right and none wrong, so the set
  `Placed` grows in cardinality.
* `LastBranchInvariant`: `Spec => []LastBranchStays`, under the further hypothesis `~Race`, that no path
  walk comes between the shrinking of the dcache and the write lock (`RefreshRace.cfg`).
* `AfreshInvariant`: `Spec => []SeenAfreshPlain`, under the same two hypotheses.

`SlotsRight` speaks of refreshed objects only; the induction needs to know of stale ones what the
loops start from.  `HdOk` and `HiOk` say that a dentry or inode, however old, has each branch at most
once and inside its range, and that a hidden inode has an id that no later branch gets again;
`CacheOk` that a cached child has a cached parent and that no inode is refreshed before its dentry; `ParentOk`
and `JobOk` who is being refreshed and that its parent is done; `LoopOk` that in the middle
of a loop the slots outside the interval still to visit (for inodes: those already visited) are right already;
`HdNow` and `HiNow` that what has the current generation agrees with the table, as long as the options have not
changed it.  The new id being fresh (`TabOk`) is what makes a hidden inode of a removed branch
not find a slot.

For `LastBranchStays` this is not enough: `br_del` tests slots, and a dentry that slept through
remounts has them in old places.  `KeepInv` adds that every positive dentry has a hidden dentry
on a branch that is mounted, which its parent has too (`Stays`), that `bstart` and `bend` are
slots in use outside the loop (`Ends`), and that during a remount only dentries in use
are cached, which are the ones `test_children_busy` brings up to date before it tests them.

`SlotsRight` says that the slots are right; `SeenAfreshPlain` also that none is missing.  `AfreshInv`, which
holds where no branch has a mark, adds for that: no record has a whiteout or opaque index; all hidden
dentries of a record are of its type, however old it is (`OneKind`); a current file has a current directory,
so that its directory is not changed under it; and a current record is `Whole`: a directory has every
slot of its parent that holds a directory, a file begins no later than the first slot that
holds a file.  Both ways to become current lead there: `lkup_dentry` (`LkupPlain`: the loop ends at no
slot of a directory and at the first of a file, whether that was there or is new), and the shortcut of
`au_refresh_hdentry` for a file whose first slot is the parent's.  A new lookup gives such a
record too (`FreshPlain`), and two of them of the same type over the same parent show the same
branches (`SeenIn`).

### VdirProofs

For any number of branches, names of any sizes that fit a block, any number of open directories, changes,
seeks and failures, and any order in which hidden directories return their entries: `TypeCorrect`, `InBlockSafe`, `ListedSafe`
and `FirstPassSafe`, one for each invariant of the run `vdir`.  The inductive invariant `VdirInv` has four parts.

* `ListsInv`: every list, in the inode, in a file or in the making, was built by `append_de` (`Good`): its
  entries lie in their blocks, one after the other, the first at 0.  The arithmetic is in `BlkFacts` and `AtFacts`,
  `AppendGood` is the step.  It follows that positions grow with the entries, so that `seek_vdir` finds the entry
  that `calc_offset` gave the position of (`PosFacts`, `SeekFinds`), and that position 0 is the start and no other.
* `WalkInv`: the position of a file is that of the entry after the ones it returned.  `FillWalk` is the
  step of `au_fill_de`; a new copy is taken at position 0 only, where nothing has been returned.
* `DirInv`: "." is in every branch and no name is beside its whiteout.
* `PassInv`, as long as nobody has sought and nothing failed: a file without a copy has its hidden files at their
  start, so a list that is being built for it starts empty and meets every entry.  `MergeInv` says what it
  holds so far: each name that was returned is in the list once or a whiteout of an upper branch hides it.
  The upper branch has been read completely by then, which is why the order inside a branch does not matter
  (`MergeStep`); at the end the list is what a lookup finds (`MergeDone`).

### PlinkProofs

For any number of names, files and hidden inodes.  `BaseInv` holds whatever fails and whenever
`auplink` runs, and gives `TypeCorrect`.  The other theorems have hypotheses, each of which the
manual asks for or a configuration shows to be needed:

* `Steady`: `auplink` has the union for itself (asked for by the manual, `PlinkBusy.cfg`), and
  `i_generation` has one value (`PlinkGen.cfg`).
* `Fault \subseteq {"xino"}`, for `NoForeignSafe` only: appending a pseudo link does not fail
  (`PlinkNomem.cfg`, `PlinkLink.cfg`).
* `~Unfollowed`, for `DataSafe` only: no truncation meets a pseudo link that its name has not followed yet
  (`plink_truncate`).

Under `Steady`, `IdentitySafe` gives `[]Identity`, `NoForeignSafe` `[]NoForeign` and `DataSafe`
`[]DataRight`.  The invariant is conditional, because the properties are: as long as nothing
failed, `DeepInv` (the tables agree with the inodes in memory, a file has one copy, a copied-up file
with names left below is on the list and has its link, the list and the links agree but for the
moment in which `auplink` is between them); as long as at most a table was lost, `FileInv` (a hidden inode
holds the file of its names).  `VerInv` says that the one copy has all the writes.

### HinotifyProofs

For any files, hidden inodes, processes and number of direct changes, on two branches (`Branch` is `{0, 1}`) and
one subdirectory: `TypeCorrect`, `FreshSafe` and `ListDueSafe`.
`Fresh` is about dentries that a path walk accepts; the invariant `HInv` needs the same of a dentry that
is in the making: at every step of a lookup the dentry, unless marked, agrees with the branches
visited so far (`LookupOK`); every hidden directory that such a step may still read is watched
(`WatchOK`), so a change cannot come unseen; the mask is off only while the process holds the
`i_mutex` (`LockOK`); and the subdirectory stays cached while something in it is in use (`SubHeld`).

`ListDue` is not inductive, because a change may come while a list is being read.  `LInv`, on top of `HInv`, adds that
such a list under way has its `postproc` queued too (`ReadDue`), and that a list of the subdirectory is there only
as long as its inode is, which has the watches (`SubList`).  A direct change finds the watch on and adds to the
queue (`OutdateInv`), and `postproc`, which takes from the queue, holds the `i_mutex`, so that no list of the directory is
under way (`PostprocList`).

### Only model-checked

* Liveness (`ReinitEnds`, `ListSeen`): fairness and `ENABLED` are out of the prover's reach.
* The refinement of `Namespace`, which holds only for one failure per call, without `nolwh` and
  without directories over a gap.
* `RenameOkPlain`: it is a statement about the runs' two branches.  With three, `NeedWhBelow` may rely on a whiteout that
  does not lie where a lookup meets it first, the gap that the run `union_gap` is about, so that there is no
  theorem for every number of branches without first excluding those states.
* `Locks`: the programs are sequences put together by operators, and the deadlocks a matter of all their
  prefixes.

## Plan

1. Proof: the refinement of `Namespace` without failures.
2. Copy-up of an unlinked file (`cpup_wh_file`), `half_refresh_plink`.
3. Placing and replacing the xino files (`xino_set`, `xino_clr`).

## Not modelled

* In `Refresh`, ids of removed branches given again after `si_last_br_id` has wrapped: an inode that is not
  used during 255 additions (65535 with the wider `aufs_bindex_t`) would have its hidden inode taken for
  one of the new branch (`inode.c:57`).
* NFS export (`export.c`): looks up and reads through the exporting filesystem, without state of its
  own.  `aufs_decode_fh` holds `si_rwsem` for reading while it opens and reads directories of the
  union, which take it again; with a remount waiting in between both stop (`export.c:396`).
* sysfs, option parsing, `show_options`, debugging: text.
* Delegation of credentials (`vfsub.c`): a call on a hidden filesystem is one step that succeeds or
  fails.  What the hidden filesystem does inside is outside.
* The data of a file beyond "old, new, partial"; `mmap` of it.
* Umount.  Nothing waits there for queued post-processing of events (`hinotify.c:519`).
* Three small error paths that no module has the state for: the `dbstart` that `cpup_simple` restores
  (`cpup.c:588`), the mark that `rmdir` leaves on the parent, possibly the root, after a failed `rename_whtmp`
  (`i_op_del.c:151`), and the wrap of the inode number counter (`xino.c:203`).
* The mark of the root under udba=inotify.  Revalidation of the root sleeps until the mark is gone (`dentry.c:797`), on a wait
  queue that nobody wakes, and the mark of a failed `rename_whtmp` has no `postproc` that would remove it;
  the source has "todo: bug" at both places.  There is nothing to prove of this wait.
* Scripts other than `auplink`: they wrap mount(8).
