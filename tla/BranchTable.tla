---------------------------- MODULE BranchTable ----------------------------
(***************************************************************************)
(* The branches of a mounted aufs while they are added, deleted and        *)
(* modified by remount, and what refers to a branch from outside the lock: *)
(* open files (by branch and by index), the queued re-creation of the      *)
(* whiteout base file, and the queued removal of a renamed directory.      *)
(*                                                                         *)
(* A branch object is named by its root directory.  idx[r] is its index in *)
(* si_branch, -1 when it is not mounted; the memmove()s of br_add and      *)
(* br_del shift the indices.  A remount holds si_rwsem for writing over    *)
(* all its options, every other step takes it for reading, except the      *)
(* first line of reinit_br_wh, which runs before the lock.                 *)
(***************************************************************************)
EXTENDS Integers, FiniteSets

CONSTANTS
    Root,       \* root directories that can be mounted as branches
    File,       \* open file slots
    None,       \* no branch
    Perms,      \* permissions the run uses
    Plinks,     \* values of the mount option plink the run uses
    MaxBr,      \* AUFS_BRANCH_MAX
    IdMod,      \* number of values of br_id (2^8 or 2^16 in C)
    MaxOpts,    \* bound: options of one remount
    MaxJobs,    \* bound: queued directory removals
    Xino        \* AuFlag_XINO: every remount refreshes

BrPerm == {"rw", "rw+nolwh", "ro", "ro+wh", "rr", "rr+wh"}

ASSUME RootAssumption == IsFiniteSet(Root) /\ None \notin Root /\ IsFiniteSet(File)
ASSUME PermAssumption == Perms \subseteq BrPerm
ASSUME BoundAssumption == /\ MaxBr \in Nat \ {0} /\ IdMod \in Nat /\ IdMod > MaxBr
                          /\ MaxOpts \in Nat /\ MaxJobs \in Nat
                          /\ Xino \in BOOLEAN /\ Plinks \subseteq BOOLEAN

VARIABLES
    idx,    \* index of each root in si_branch, -1 when not mounted
    bend,   \* si_bend
    br,     \* the branch objects
    lastId, \* si_last_br_id
    plink,  \* AuFlag_PLINK
    file,   \* finfo of each open file, reduced to its hidden file
    reinit, \* the work item of reinit_br_wh for each branch
    later,  \* the queued do_rmdir_whtmp work items
    rem,    \* the remount in progress
    wrote,  \* the branch that a work item of the queue wrote to in the last step
    oops    \* a DEBUG_ON or a NULL pointer that was hit

vars  == <<idx, bend, br, lastId, plink, file, reinit, later, rem, wrote, oops>>
table == <<idx, bend, lastId, plink>>
users == <<file, reinit, later>>

Writable(p) == p \in {"rw", "rw+nolwh"}
Whable(p)   == p \in {"rw", "ro+wh", "rr+wh"}
Mounted     == {r \in Root : idx[r] >= 0}
BrAt(b)     == CHOOSE r \in Root : idx[r] = b

NoBranch == [perm |-> "ro", id |-> 0, count |-> 0, wh |-> FALSE, plink |-> FALSE,
             running |-> 0]
Closed   == [br |-> None, bs |-> 0, want |-> FALSE, w |-> FALSE, fresh |-> TRUE]
NoRem    == [on |-> FALSE, opts |-> 0, dirty |-> FALSE]

TypeOK ==
    /\ idx \in [Root -> -1 .. MaxBr - 1]
    /\ bend \in -1 .. MaxBr - 1
    /\ br \in [Root -> [perm : BrPerm, id : 0 .. IdMod - 1, count : Nat, wh : BOOLEAN,
                        plink : BOOLEAN, running : {0, 1}]]
    /\ lastId \in 0 .. IdMod - 1
    /\ plink \in BOOLEAN
    /\ file \in [File -> [br : Root \cup {None}, bs : 0 .. MaxBr - 1, want : BOOLEAN,
                          w : BOOLEAN, fresh : BOOLEAN]]
    /\ reinit \in [Root -> {"none", "queued", "locking"}]
    /\ later \subseteq [r : Root, b : 0 .. MaxBr - 1]
    /\ rem \in [on : BOOLEAN, opts : 0 .. MaxOpts, dirty : BOOLEAN]
    /\ wrote \in Root \cup {None}
    /\ oops \in {"none", "stobr", "reinit_br_wh", "nobase"}

-----------------------------------------------------------------------------
(* init_wh: which of the whiteout base and the plink directory a branch of  *)
(* permission p gets; when one cannot be made both pointers have already    *)
(* been reset.  (A failing lookup before that leaves them as they are.)     *)
InitWh(p, ok) ==
    [wh |-> ok /\ p = "rw", plink |-> ok /\ Writable(p) /\ plink]

WithWh(b, i) == [b EXCEPT !.wh = i.wh, !.plink = i.plink]

(* new_br_id: the next value of the counter that is neither zero nor in use. *)
UsedIds == {br[r].id : r \in Mounted}
FreeId(id) == id # 0 /\ id \notin UsedIds
NewBrIdNoSearch == (lastId + 1) % IdMod \* mutant: no test against the table

NewBrId ==
    LET dist == CHOOSE k \in 1 .. IdMod :
                    /\ FreeId((lastId + k) % IdMod)
                    /\ \A j \in 1 .. k - 1 : ~FreeId((lastId + j) % IdMod)
    IN  (lastId + dist) % IdMod

(* Mutant: br_put forgotten. *)
MovedNoPut(b, r, s) ==
    [q \in Root |-> [b[q] EXCEPT !.count = @ + (IF q = s THEN 1 ELSE 0)]]

(* br_get and br_put: a hidden file of f moves from branch r to branch s.   *)
Moved(b, r, s) ==
    [q \in Root |-> [b[q] EXCEPT !.count =
        @ + (IF q = s THEN 1 ELSE 0) - (IF q = r THEN 1 ELSE 0)]]

(* The branch of the mount, with the base files that init_wh made for it.   *)
FirstBr(p, pl) ==
    [perm |-> p, id |-> 1, count |-> 0, wh |-> p = "rw", plink |-> Writable(p) /\ pl,
     running |-> 0]

Init ==
    \E r \in Root, p \in Perms, pl \in Plinks :
        /\ idx = [q \in Root |-> IF q = r THEN 0 ELSE -1]
        /\ bend = 0
        /\ lastId = 1
        /\ plink = pl
        /\ br = [q \in Root |-> IF q = r THEN FirstBr(p, pl) ELSE NoBranch]
        /\ file = [f \in File |-> Closed]
        /\ reinit = [q \in Root |-> "none"]
        /\ later = {}
        /\ rem = NoRem
        /\ wrote = None
        /\ oops = "none"

Running == oops = "none" /\ ~rem.on /\ rem' = rem
Quiet   == wrote' = None /\ oops' = oops

-----------------------------------------------------------------------------
(* aufs_remount_fs: options one after the other, then verify_opts.          *)

BeginRemount ==
    /\ oops = "none" /\ ~rem.on
    /\ rem' = [NoRem EXCEPT !.on = TRUE]
    /\ Quiet
    /\ UNCHANGED <<table, br, users>>

Option == oops = "none" /\ rem.on /\ rem.opts < MaxOpts
OptDone(dirty) == rem' = [rem EXCEPT !.opts = @ + 1, !.dirty = @ \/ dirty]
OptFailed      == rem' = [rem EXCEPT !.opts = MaxOpts]

(* Mutant: the memmove() starts one slot too late. *)
BrAddOffByOne(r, i, p) ==
    /\ Option
    /\ idx[r] = -1 /\ bend < MaxBr - 1 /\ i \in 0 .. bend + 1
    /\ idx' = [q \in Root |-> IF q = r THEN i
                              ELSE IF idx[q] > i THEN idx[q] + 1 ELSE idx[q]]
    /\ bend' = bend + 1
    /\ lastId' = NewBrId
    /\ br' = [br EXCEPT ![r] =
                WithWh([NoBranch EXCEPT !.perm = p, !.id = NewBrId], InitWh(p, TRUE))]
    /\ OptDone(TRUE)
    /\ Quiet
    /\ UNCHANGED <<plink, users>>

(* br_add: a writable branch needs its base files before it is linked in.   *)
BrAdd(r, i, p) ==
    /\ Option
    /\ idx[r] = -1 /\ bend < MaxBr - 1 /\ i \in 0 .. bend + 1
    /\ idx' = [q \in Root |-> IF q = r THEN i
                              ELSE IF idx[q] >= i THEN idx[q] + 1 ELSE idx[q]]
    /\ bend' = bend + 1
    /\ lastId' = NewBrId
    /\ br' = [br EXCEPT ![r] =
                WithWh([NoBranch EXCEPT !.perm = p, !.id = NewBrId], InitWh(p, TRUE))]
    /\ OptDone(TRUE)
    /\ Quiet
    /\ UNCHANGED <<plink, users>>

(* Mutant: br_count is not tested. *)
BrDelBusy(r) ==
    /\ Option
    /\ r \in Mounted /\ bend # 0
    /\ idx' = [q \in Root |-> IF q = r THEN -1
                              ELSE IF idx[q] > idx[r] THEN idx[q] - 1 ELSE idx[q]]
    /\ bend' = bend - 1
    /\ br' = [br EXCEPT ![r] = NoBranch]
    /\ OptDone(TRUE)
    /\ Quiet
    /\ UNCHANGED <<lastId, plink, users>>

(* br_del: the last branch and a branch in use stay.  The base files are    *)
(* let go before the cached dentries are tested; when one of them is in the *)
(* way (the first disjunct) they are re-created, or not.                    *)
BrDel(r) ==
    /\ Option
    /\ r \in Mounted /\ bend # 0 /\ br[r].count = 0
    /\ \/ /\ \E ok \in BOOLEAN :
                 br' = IF br[r].wh \/ br[r].plink
                       THEN [br EXCEPT ![r] = WithWh(@, InitWh(@.perm, ok))] ELSE br
          /\ OptFailed
          /\ UNCHANGED table
       \/ /\ idx' = [q \in Root |-> IF q = r THEN -1
                                    ELSE IF idx[q] > idx[r] THEN idx[q] - 1 ELSE idx[q]]
          /\ bend' = bend - 1
          /\ br' = [br EXCEPT ![r] = NoBranch]
          /\ OptDone(TRUE)
          /\ UNCHANGED <<lastId, plink>>
    /\ Quiet
    /\ UNCHANGED users

(* br_mod: the base files of a writable branch are removed.  When it        *)
(* becomes read-only the files open for writing on it lose that mode; they  *)
(* are found by comparing fbstart(file) with the index of the branch.       *)
LosesWrite(f, r) == file[f].br # None /\ file[f].bs = idx[r]

(* Mutant: the base files stay when the permission changes. *)
BrModKeepsWh(r, p) ==
    /\ Option
    /\ r \in Mounted /\ br[r].perm # p
    /\ br' = [br EXCEPT ![r].perm = p]
    /\ OptDone(Whable(br[r].perm) # Whable(p))
    /\ Quiet
    /\ UNCHANGED <<table, file, reinit, later>>

BrMod(r, p) ==
    /\ Option
    /\ r \in Mounted /\ br[r].perm # p
    /\ br' = [br EXCEPT ![r] =
                LET b == IF Writable(@.perm) THEN WithWh(@, InitWh("ro", TRUE)) ELSE @
                IN  [b EXCEPT !.perm = p]]
    /\ file' = [f \in File |->
                    IF Writable(br[r].perm) /\ ~Writable(p) /\ LosesWrite(f, r)
                    THEN [file[f] EXCEPT !.w = FALSE] ELSE file[f]]
    /\ OptDone(Whable(br[r].perm) # Whable(p))
    /\ Quiet
    /\ UNCHANGED <<table, reinit, later>>

(* plink and noplink. *)
SetPlink(v) ==
    /\ Option
    /\ plink' = v
    /\ OptDone(FALSE)
    /\ Quiet
    /\ UNCHANGED <<idx, bend, lastId, br, users>>

(* verify_opts: every branch whose base files do not fit its permission is  *)
(* initialised again, up to the first one that fails (branch k); the error  *)
(* is dropped.  Then sigen_inc, which makes every cached index stale.       *)
Fits(b) == b.wh = InitWh(b.perm, TRUE).wh /\ b.plink = InitWh(b.perm, TRUE).plink

Verified(q, k, atLookup) ==
    IF q \notin Mounted \/ Fits(br[q]) \/ idx[q] > k \/ (idx[q] = k /\ atLookup)
    THEN br[q] ELSE WithWh(br[q], InitWh(br[q].perm, idx[q] < k))

(* Mutant: sigen_inc is left out. *)
EndRemountNoSigen ==
    /\ oops = "none" /\ rem.on
    /\ br' = br
    /\ rem' = NoRem
    /\ Quiet
    /\ UNCHANGED <<table, users>>

EndRemount ==
    /\ oops = "none" /\ rem.on
    /\ \E k \in 0 .. bend + 1, atLookup \in BOOLEAN :
           br' = [q \in Root |-> Verified(q, k, atLookup)]
    /\ rem' = NoRem
    /\ file' = [f \in File |-> [file[f] EXCEPT !.fresh = @ /\ ~(rem.dirty \/ Xino)]]
    /\ Quiet
    /\ UNCHANGED <<table, reinit, later>>

-----------------------------------------------------------------------------
(* Open files. *)

(* au_do_open, hidden_open. *)
Open(f, r, want) ==
    /\ Running
    /\ file[f].br = None /\ r \in Mounted
    /\ file' = [file EXCEPT ![f] = [br |-> r, bs |-> idx[r], want |-> want,
                                    w |-> want /\ Writable(br[r].perm), fresh |-> TRUE]]
    /\ br' = Moved(br, None, r)
    /\ Quiet
    /\ UNCHANGED <<table, reinit, later>>

(* au_fin_finfo. *)
Close(f) ==
    /\ Running
    /\ file[f].br # None
    /\ br' = Moved(br, file[f].br, None)
    /\ file' = [file EXCEPT ![f] = Closed]
    /\ Quiet
    /\ UNCHANGED <<table, reinit, later>>

(* refresh_file finds the hidden file's branch by its object.  A file that  *)
(* is mapped or unlinked keeps its hidden file; another one is reopened on  *)
(* the first branch that has the name now, unless it is open there already  *)
(* in the right mode.  An error closes the hidden file.                     *)
Refresh(f) ==
    /\ Running
    /\ file[f].br # None /\ ~file[f].fresh
    /\ LET r == file[f].br
           want == file[f].want
           New(s, w) == [br |-> s, bs |-> idx[s], want |-> want, w |-> w, fresh |-> TRUE]
       IN  \/ /\ file' = [file EXCEPT ![f] = New(r, @.w)]
              /\ br' = br
           \/ \E s \in Mounted :
                  /\ idx[s] <= idx[r]
                  /\ file' = [file EXCEPT ![f] =
                                New(s, IF s = r /\ @.w = want THEN @.w
                                       ELSE want /\ Writable(br[s].perm))]
                  /\ br' = Moved(br, r, s)
           \/ /\ file' = [file EXCEPT ![f] = Closed]
              /\ br' = Moved(br, r, None)
    /\ Quiet
    /\ UNCHANGED <<table, reinit, later>>

(* au_ready_to_write: copy up, then reopen on the branch copied to.         *)
ReadyToWrite(f) ==
    /\ Running
    /\ file[f].br # None /\ file[f].fresh /\ file[f].want
    /\ ~(file[f].w /\ Writable(br[file[f].br].perm))
    /\ \E s \in Mounted :
           /\ idx[s] <= file[f].bs /\ Writable(br[s].perm)
           /\ file' = [file EXCEPT ![f].br = s, ![f].bs = idx[s], ![f].w = TRUE]
           /\ br' = Moved(br, file[f].br, s)
    /\ Quiet
    /\ UNCHANGED <<table, reinit, later>>

-----------------------------------------------------------------------------
(* Whiteouts and the work queue. *)

(* Mutant: br_wh_running is counted and not tested. *)
CreateWhTwice(r) ==
    /\ Running
    /\ r \in Mounted /\ Writable(br[r].perm) /\ br[r].wh
    /\ br' = [br EXCEPT ![r].running = @ + 1, ![r].count = @ + 1]
    /\ reinit' = [reinit EXCEPT ![r] = "queued"]
    /\ Quiet
    /\ UNCHANGED <<table, file, later>>

(* link_or_create_wh: EMLINK queues the re-creation of the base file, at    *)
(* most once at a time.                                                     *)
CreateWh(r) ==
    /\ Running
    /\ r \in Mounted /\ Writable(br[r].perm)
    /\ br[r].wh /\ br[r].running = 0
    /\ br' = [br EXCEPT ![r].running = 1, ![r].count = @ + 1]
    /\ reinit' = [reinit EXCEPT ![r] = "queued"]
    /\ Quiet
    /\ UNCHANGED <<table, file, later>>

(* reinit_br_wh before si_write_lock: the DEBUG_ON reads br_wh unlocked.    *)
ReinitStart(r) ==
    /\ oops = "none" /\ reinit[r] = "queued"
    /\ reinit' = [reinit EXCEPT ![r] = "locking"]
    /\ oops' = IF br[r].wh THEN oops ELSE "reinit_br_wh"
    /\ wrote' = None
    /\ UNCHANGED <<table, br, file, later, rem>>

(* Mutant: the early return of a read-only branch skips atomic_dec. *)
ReinitRunNoDec(r) ==
    /\ Running
    /\ reinit[r] = "locking" /\ ~Writable(br[r].perm)
    /\ br' = [br EXCEPT ![r].count = @ - 1]
    /\ reinit' = [reinit EXCEPT ![r] = "none"]
    /\ Quiet
    /\ UNCHANGED <<table, file, later>>

(* ... and under the lock: unlink the base file and make a new one.         *)
ReinitRun(r) ==
    /\ Running
    /\ reinit[r] = "locking"
    /\ LET done == [br[r] EXCEPT !.running = 0, !.count = @ - 1]
           free == reinit' = [reinit EXCEPT ![r] = "none"]
       IN  \/ /\ ~Writable(br[r].perm)
              /\ br' = [br EXCEPT ![r] = done]
              /\ free /\ Quiet
           \/ /\ Writable(br[r].perm) /\ br[r].wh
              /\ \E p \in {InitWh(br[r].perm, TRUE), InitWh(br[r].perm, FALSE),
                           [wh |-> FALSE, plink |-> br[r].plink]} :
                     br' = [br EXCEPT ![r] = WithWh(done, p)]
              /\ free /\ wrote' = r /\ oops' = oops
           \/ /\ Writable(br[r].perm) /\ ~br[r].wh \* dget(NULL)
              /\ oops' = "nobase" /\ wrote' = None /\ UNCHANGED <<br, reinit>>
    /\ UNCHANGED <<table, file, later>>

(* kick_rmdir_whtmp keeps the index of the branch, not the branch.          *)
RmdirLater(r) ==
    /\ Running
    /\ r \in Mounted /\ Writable(br[r].perm) /\ Cardinality(later) < MaxJobs
    /\ later' = later \cup {[r |-> r, b |-> idx[r]]}
    /\ Quiet
    /\ UNCHANGED <<table, br, file, reinit>>

(* do_rmdir_whtmp: test_ro(sb, bindex), then rmdir on the branch of h_dentry. *)
RmdirWhtmp(j) ==
    /\ Running
    /\ j \in later
    /\ later' = later \ {j}
    /\ \/ j.b > bend /\ oops' = "stobr" /\ wrote' = None
       \/ j.b <= bend /\ Writable(br[BrAt(j.b)].perm) /\ wrote' = j.r /\ oops' = oops
       \/ j.b <= bend /\ ~Writable(br[BrAt(j.b)].perm) /\ Quiet
    /\ UNCHANGED <<table, br, file, reinit>>

-----------------------------------------------------------------------------
Remounting ==
    \/ \E r \in Root, i \in 0 .. MaxBr - 1, p \in Perms : BrAdd(r, i, p)
    \/ \E r \in Root : BrDel(r)
    \/ \E r \in Root, p \in Perms : BrMod(r, p)
    \/ \E v \in Plinks : SetPlink(v)
    \/ EndRemount

Next ==
    \/ BeginRemount
    \/ Remounting
    \/ \E f \in File, r \in Root, w \in BOOLEAN : Open(f, r, w)
    \/ \E f \in File : Close(f) \/ Refresh(f) \/ ReadyToWrite(f)
    \/ \E r \in Root : CreateWh(r) \/ ReinitStart(r) \/ ReinitRun(r)
                       \/ RmdirLater(r)
    \/ \E j \in later : RmdirWhtmp(j)

Spec == Init /\ [][Next]_vars

(* The work queue runs every queued item; a remount ends; si_rwsem is fair. *)
FairSpec == Spec /\ WF_vars(EndRemount)
                 /\ \A r \in Root : WF_vars(ReinitStart(r)) /\ SF_vars(ReinitRun(r))
                 /\ SF_vars(\E j \in later : RmdirWhtmp(j))

-----------------------------------------------------------------------------
(* Properties. *)

(* The indices of the mounted branches are exactly 0 .. si_bend, whatever   *)
(* br_add and br_del moved: no hole, no two branches in one slot.           *)
TableIsArray ==
    /\ \A r \in Mounted : idx[r] <= bend
    /\ \A b \in 0 .. bend : \E r \in Mounted : idx[r] = b
    /\ \A r, s \in Mounted : idx[r] = idx[s] => r = s

(* new_br_id never hands out zero or the id of another branch, also when    *)
(* the counter has wrapped: find_brindex finds the branch that was meant.   *)
UniqueIds ==
    /\ \A r \in Mounted : br[r].id # 0
    /\ \A r, s \in Mounted : br[r].id = br[s].id => r = s

(* br_del frees no branch that an open file or the queued reinit_br_wh      *)
(* still points to (hf_br, a->br).                                          *)
NoUseAfterFree ==
    /\ \A f \in File : file[f].br # None => file[f].br \in Mounted
    /\ \A r \in Root : reinit[r] # "none" => r \in Mounted

(* br_count is the number of hidden files and queued jobs of the branch,    *)
(* and br_wh_running is set exactly while its base file is re-created: no   *)
(* path of reinit_br_wh leaves it set, none resets it too early.            *)
CountExact ==
    \A r \in Mounted :
        /\ br[r].count = Cardinality({f \in File : file[f].br = r})
                         + (IF reinit[r] = "none" THEN 0 ELSE 1)
        /\ br[r].running = 1 <=> reinit[r] # "none"

(* au_ready_to_write: DEBUG_ON(ftobr(file, bstart) != stobr(sb, bstart)).   *)
(* A file of the current generation has the right index.                    *)
FreshIndexRight ==
    ~rem.on => \A f \in File : file[f].br # None /\ file[f].fresh
                                   => file[f].bs = idx[file[f].br]

(* Only a branch of permission rw has a whiteout base and only a writable   *)
(* one a plink directory, also between two options of a remount (br_mod,    *)
(* verify_opts, reinit_br_wh).                                              *)
BaseFitsPerm ==
    \A r \in Mounted : /\ br[r].wh => br[r].perm = "rw"
                       /\ br[r].plink => Writable(br[r].perm)

(* The re-creation of the base file ends, so that the next EMLINK can start *)
(* another one: br_wh_running never stays set, unless the job itself stops  *)
(* at its DEBUG_ON or at the NULL base.                                     *)
ReinitEnds ==
    \A r \in Root : br[r].running = 1 ~> (br[r].running = 0 \/ oops # "none")

(* aufs.5 of a read-only branch: "Aufs never issue write operation to this  *)
(* branch".                                                                 *)
NoWriteToReadOnly ==
    [][wrote' # None => wrote' \in Mounted /\ Writable(br[wrote'].perm)]_vars

(* br_mod: "rw --> ro, file might be mmapped": after it no hidden file on   *)
(* the branch is open for writing.                                          *)
NoWriterOnReadOnly ==
    ~rem.on => \A f \in File : file[f].br # None /\ file[f].w
                                   => Writable(br[file[f].br].perm)

(* reinit_br_wh: DEBUG_ON(!a->br->br_wh ...).                               *)
ReinitHasBase == oops # "reinit_br_wh"

(* stobr: DEBUG_ON(bindex < 0 || sbend(sb) < bindex ...).                   *)
IndexInTable == oops # "stobr"
=============================================================================
