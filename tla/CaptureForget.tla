--------------------------- MODULE CaptureForget ---------------------------
(***************************************************************************)
(* The hard forget of Capture: agc_runtime/capture_forget_service.py and   *)
(* capture_forget_transaction.py, with everything that writes the files it *)
(* purges: the runner, the scanner, the hook, the reviews, a recovery, an  *)
(* audit, a backup and a restore.                                          *)
(*                                                                         *)
(* One revision is followed, with the observations that may be found in    *)
(* it and, as one file, a second revision of the same task.  A forget      *)
(* holds both locks from its first read to its last write: it plans every  *)
(* write, keeps a before-image of each file it is about to change, and     *)
(* puts the images back if a write raises or, after a crash, at the start  *)
(* of the next forget.  The clean-up of derived metrics is left out.       *)
(***************************************************************************)
EXTENDS Naturals, FiniteSets, SequencesExt

CONSTANTS
  Observations,  \* of the revision
  Findings,      \* the sets of them an extraction may end with
  Members,       \* the sets of revisions a census may freeze
  None,          \* no file
  OthersWait,    \* assumption: a forget that was interrupted is repeated first
  MaxForgets,    \* bound: calls of capture_forget
  MaxFaults,     \* bound: writes that raise and processes that die
  MaxScans,      \* bound: full scans
  MaxRestores    \* bound: restores of the managed backup

ASSUME ForgetAssumption ==
  /\ Findings \subseteq SUBSET Observations
  /\ Members \subseteq {{"target"}, {"target", "sibling"}}
  /\ OthersWait \in BOOLEAN
  /\ MaxForgets \in Nat /\ MaxFaults \in Nat /\ MaxScans \in Nat /\ MaxRestores \in Nat

VARIABLES
  disk,    \* from the name of a file to what it holds
  pc,      \* where the call of capture_forget is
  todo,    \* the writes it still makes
  job,     \* what it remembers
  runner,  \* the background runner
  scan,    \* the full scan
  gone,    \* history: targets whose forget was answered with success; of the
           \* observations those that no extraction has found since
  count    \* history, for the bounds

vars == <<disk, pc, todo, job, runner, scan, gone, count>>

-----------------------------------------------------------------------------
(* The files                                                               *)

Budgets == <<"budgets">>      \* a reservation, with the key of the revision
Catalog == <<"census-catalog">>
Census == <<"census-runs">>   \* the members of the frozen run
Index == <<"indexes">>        \* the manifest: observations
Journal == <<"journals">>     \* of an extraction that was killed
Lease == <<"leases">>
Ledger == <<"ledger">>
Receipt == <<"receipts">>
Sibling == <<"receipts", "sibling">>
Hint == <<"source-cache">>    \* and the scan state that vouches for it
Tombstone == <<"tombstones">>
Observation(o) == <<"observations", o>>
Review(o) == <<"reviews", o>>
Stage(o) == <<"staging", o>>

\* _apply_files goes through them in the order of their names.
OfEach(File(_)) == [i \in 1 .. Cardinality(Observations) |->
                      File(SetToSeq(Observations)[i])]

Order == <<Budgets, Catalog, Census, Index, Journal, Lease, Ledger>>
           \o OfEach(Observation) \o <<Receipt, Sibling>> \o OfEach(Review)
           \o <<Hint>> \o OfEach(Stage) \o <<Tombstone>>

Files == ToSet(Order)

Dirty == <<"dirty">>          \* the hook's marker; no forget ever changes it
Archive == <<"backups">>      \* the managed backup: a value for each file
ForgetJournal == <<"journals", "capture-forget">>  \* and the images it names
Images == <<"forget-staging">>                     \* their directory
Workset == <<"active-workset">>                    \* and the scheduling view
Generation == <<"source-generation">>

AllFiles == Files \cup {Dirty, Archive, ForgetJournal, Images, Workset, Generation}

\* managed_backup._CAPTURE_ALLOWLIST.
Archived == {Census, Index, Ledger, Receipt, Sibling, Tombstone}
              \cup {Observation(o) : o \in Observations}
              \cup {Review(o) : o \in Observations}

Statuses == {"queued", "extracting", "complete", "retryable"}
Ready == {"queued", "retryable"}

Receipts == [status : Statuses, count : 0 .. Cardinality(Observations),
             redacted : BOOLEAN]
Fresh == [status |-> "queued", count |-> 0, redacted |-> FALSE]

Targets == {"revision"} \cup Observations

NoJob == [target |-> None, before |-> None, plan |-> << >>]

TypeOK ==
  /\ DOMAIN disk = AllFiles
  /\ disk[Receipt] \in Receipts \cup {None}
  /\ disk[Ledger] \in Statuses \cup {None}
  /\ disk[Index] = None \/ disk[Index] \subseteq Observations
  /\ disk[Journal] = None \/ disk[Journal] \subseteq Observations
  /\ disk[Census] = None \/ disk[Census] \in SUBSET {"target", "sibling"} \ {{}}
  /\ disk[ForgetJournal] = None \/ DOMAIN disk[ForgetJournal] \subseteq Files \cup {Archive}
  /\ disk[Images] \in {"there", None}
  /\ pc \in {"idle", "recovering", "purging", "closing", "undoing"}
  /\ gone \subseteq Targets
  /\ runner.at \in {"idle", "selected", "leased", "validated", "reserved", "begun"}
  /\ scan.at \in {"idle", "recovered", "frozen", "registered"}

\* The revision has been scanned, and an audit has found everything healthy.
Init ==
  /\ disk = [f \in AllFiles |->
               CASE f = Generation -> 0
                 [] f = Workset -> "healthy"
                 [] f = Catalog -> "catalog"
                 [] f = Census -> {"target"}
                 [] f = Receipt -> Fresh
                 [] f = Ledger -> Fresh.status
                 [] f = Hint -> "text"
                 [] OTHER -> None]
  /\ pc = "idle" /\ todo = << >> /\ job = NoJob
  /\ runner = [at |-> "idle", expected |-> None]
  /\ scan = [at |-> "idle", generation |-> 0]
  /\ gone = {}
  /\ count = [forgets |-> 0, faults |-> 0, scans |-> 0, restores |-> 0]

\* The write lock is free.
Unlocked == pc = "idle" /\ (OthersWait => disk[ForgetJournal] = None)

Entries(value) == IF value = None THEN {} ELSE value

-----------------------------------------------------------------------------
(* What a target's forget makes of a tree; the same for the root and for   *)
(* the archive.                                                            *)

ObservationsIn(d) == {o \in Observations : d[Observation(o)] # None}
Bound(d, o) == o \in Entries(d[Index])

\* _validate_capture_entries, for this receipt.
GraphIsValid(d) ==
  /\ d[Receipt] = None => d[Ledger] = None /\ d[Index] = None /\ ObservationsIn(d) = {}
  /\ d[Receipt] # None =>
       /\ d[Ledger] = d[Receipt].status
       /\ IF d[Receipt].status = "complete"
          THEN /\ d[Index] # None
               /\ d[Receipt].count = Cardinality(d[Index])
               /\ ObservationsIn(d) = d[Index]
          ELSE ObservationsIn(d) = {}
  /\ \A o \in Observations : d[Review(o)] # None => o \in ObservationsIn(d)

\* _updated_observation raises nothing.
ObservationIsFound(d, o) ==
  IF Bound(d, o) THEN d[Receipt] # None /\ d[Receipt].status = "complete"
  ELSE d[Observation(o)] = None

\* Also the mutant: the receipt keeps its count.
Stripped(d, o) ==
  [f \in Files |->
     IF f \in {Hint, Observation(o), Review(o), Stage(o)} THEN None
     ELSE IF f = Index /\ Bound(d, o) THEN d[Index] \ {o}
     ELSE IF f = Journal /\ o \in Entries(d[Journal]) THEN None
     ELSE d[f]]

WithoutObservation(d, o) ==
  [Stripped(d, o) EXCEPT ![Receipt] =
     IF Bound(d, o)
     THEN [@ EXCEPT !.count = Cardinality(d[Index] \ {o}), !.redacted = TRUE]
     ELSE @]

\* _updated_revision raises nothing.  No name of the task or of the revision
\* may remain anywhere: another revision of the task, captured or frozen, and
\* a marker of the hook are in the way, for they name the task too.
RevisionIsFound(d) ==
  /\ d[Dirty] = None
  /\ d[Sibling] = None
  /\ "sibling" \notin Entries(d[Census])

\* A review goes with its observation.
WithoutRevision(d) ==
  [f \in Files |->
     IF f = Tombstone THEN "user_forget"
     ELSE IF \E o \in Observations : f = Review(o) /\ d[Observation(o)] = None
       THEN d[f]
     ELSE None]

IsFound(d, t) == IF t = "revision" THEN RevisionIsFound(d) ELSE ObservationIsFound(d, t)

Without(d, t) == IF t = "revision" THEN WithoutRevision(d) ELSE WithoutObservation(d, t)

\* The root and the archive: a call that one of them makes fail does nothing.
Copies == {disk} \cup ({disk[Archive]} \ {None})

-----------------------------------------------------------------------------
(* The plan                                                                *)

Write(file, value) == [file |-> file, value |-> value]

\* _remember: the image of the file, then the journal with one line more.  An
\* image without its line is never read, so both are one step; of a file that
\* is absent only the line is kept.
Remember(plan, i) ==
  Write(ForgetJournal, [f \in {plan[j].file : j \in 1 .. i} |-> disk[f]])

\* CaptureForgetTransaction.write and .delete for the i-th file of plan.
\* Mutant: the file is changed before it is remembered.
ChangesUnremembered(plan, i) == <<plan[i], Remember(plan, i)>>

Changes(plan, i) == <<Remember(plan, i), plan[i]>>

\* The files of the root that change, in order.
RootPlan(t) ==
  LET after == Without(disk, t)
      changed == SelectSeq(Order, LAMBDA f : disk[f] # after[f])
  IN  [i \in 1 .. Len(changed) |-> Write(changed[i], after[changed[i]])]

\* The managed backup is rewritten the same way, after the root.
ArchivePlan(t) ==
  IF disk[Archive] = None THEN << >>
  ELSE LET after == Without(disk[Archive], t)
       IN  IF \A f \in Files : after[f] = disk[Archive][f] THEN << >>
           ELSE <<Write(Archive, [f \in DOMAIN disk[Archive] |->
                                    IF f \in Archived THEN after[f] ELSE None])>>

\* invalidate_locked and a new source generation, if the root changes.
Invalidations(t) ==
  IF RootPlan(t) = << >> THEN << >>
  ELSE <<Write(Workset, None), Write(Generation, disk[Generation] + 1)>>

PlanOf(t) == RootPlan(t) \o ArchivePlan(t)

Cleanup == <<Write(Images, None), Write(ForgetJournal, None)>>

-----------------------------------------------------------------------------
(* The call                                                                *)

Step(w) == disk' = [disk EXCEPT ![w.file] = w.value]

WriteNext ==
  /\ todo # << >>
  /\ Step(Head(todo))
  /\ todo' = Tail(todo)
  /\ UNCHANGED <<pc, job, runner, scan, gone, count>>

Finish(answered) ==
  /\ pc' = "idle" /\ todo' = << >> /\ job' = NoJob
  /\ gone' = gone \cup answered
  /\ UNCHANGED <<disk, runner, scan, count>>

\* Every image a journal names is there.
ImagesAreWhole == disk[Images] # None

\* CaptureForgetTransaction.recover puts the images back, last one first; a
\* journal without its directory is quarantined instead.
ImageWrites ==
  LET recorded == SelectSeq(Order \o <<Archive>>, LAMBDA f :
                    f \in DOMAIN disk[ForgetJournal])
  IN  [i \in 1 .. Len(recorded) |-> Write(recorded[i], disk[ForgetJournal][recorded[i]])]

Call(t) ==
  /\ pc = "idle"
  /\ count.forgets < MaxForgets
  /\ count' = [count EXCEPT !.forgets = @ + 1]
  /\ pc' = "recovering"
  /\ todo' = IF disk[ForgetJournal] = None THEN << >>
             ELSE IF ImagesAreWhole THEN Reverse(ImageWrites) \o Cleanup
             ELSE Cleanup
  \* A journal that cannot be used ends the call.
  /\ job' = [NoJob EXCEPT !.target =
               IF disk[ForgetJournal] # None /\ ~ImagesAreWhole THEN None ELSE t]
  /\ UNCHANGED <<disk, runner, scan, gone>>

\* capture_forget_target_not_found, invalid_capture_forget_journal or
\* capture_forget_backup_verification_failed: nothing is changed.
IsRefused ==
  IF job.target = None THEN TRUE ELSE \E d \in Copies : ~IsFound(d, job.target)

Refuse ==
  /\ pc = "recovering" /\ todo = << >>
  /\ IsRefused
  /\ Finish({})

Plan ==
  /\ pc = "recovering" /\ todo = << >>
  /\ ~IsRefused
  /\ pc' = "purging"
  /\ todo' = Invalidations(job.target)
               \o <<Write(Images, "there"), Write(ForgetJournal, << >>)>>
               \o FlattenSeq([i \in 1 .. Len(PlanOf(job.target)) |->
                                Changes(PlanOf(job.target), i)])
  /\ job' = [job EXCEPT !.before = disk, !.plan = PlanOf(job.target)]
  /\ UNCHANGED <<disk, runner, scan, gone, count>>

\* CaptureForgetTransaction.rollback, from what the call remembers.
UndoWrites ==
  LET changed == SelectSeq(job.plan, LAMBDA w : disk[w.file] # job.before[w.file])
  IN  [i \in 1 .. Len(changed) |->
         Write(changed[i].file, job.before[changed[i].file])]

RollBack ==
  /\ pc' = "undoing"
  /\ todo' = Reverse(UndoWrites) \o Cleanup
  /\ UNCHANGED <<disk, job, runner, scan, gone>>

\* The planned graph is validated, then the images go, then the journal.
Commit ==
  /\ pc = "purging" /\ todo = << >>
  /\ IF GraphIsValid(disk)
     THEN pc' = "closing" /\ todo' = Cleanup
          /\ UNCHANGED <<disk, job, runner, scan, gone, count>>
     ELSE RollBack /\ UNCHANGED count

Answer == pc = "closing" /\ todo = << >> /\ Finish({job.target})
AnswerFailed == pc = "undoing" /\ todo = << >> /\ Finish({})

MayFail == count.faults < MaxFaults /\ count' = [count EXCEPT !.faults = @ + 1]

\* A write raises: while purging or committing the call rolls back, otherwise
\* the exception leaves it.
WriteFails ==
  /\ todo # << >>
  /\ MayFail
  /\ IF pc \in {"purging", "closing"} THEN RollBack
     ELSE /\ pc' = "idle" /\ todo' = << >> /\ job' = NoJob
          /\ UNCHANGED <<disk, runner, scan, gone>>

Crash ==
  /\ pc # "idle"
  /\ MayFail
  /\ pc' = "idle" /\ todo' = << >> /\ job' = NoJob
  /\ UNCHANGED <<disk, runner, scan, gone>>

-----------------------------------------------------------------------------
(* The background runner, which takes the lock for each step               *)

Become(next) == runner' = next /\ UNCHANGED <<pc, todo, job, scan, count>>

Finds(found) == gone' = gone \ found
FindsNothing == UNCHANGED gone

IdleRunner == [at |-> "idle", expected |-> None]

\* release_lease; a lease that is no longer there is no error.
Release(d) == [d EXCEPT ![Lease] = None]

\* read_background_scheduling_view.
SelectRevision ==
  /\ Unlocked /\ runner.at = "idle"
  /\ disk[Workset] # None
  /\ disk[Receipt] # None /\ disk[Receipt].status \in Ready
  /\ Become([at |-> "selected", expected |-> disk[Receipt]])
  /\ UNCHANGED <<disk, gone>>

\* acquire_lease looks at no receipt and at no tombstone.
AcquireLease ==
  /\ Unlocked /\ runner.at = "selected"
  /\ disk' = [disk EXCEPT ![Lease] = "held"]
  /\ Become([runner EXCEPT !.at = "leased"]) /\ FindsNothing

IsSelectable ==
  /\ disk[Lease] # None
  /\ disk[Tombstone] = None
  /\ disk[Census] # None /\ "target" \in disk[Census]
  /\ disk[Receipt] = runner.expected
  /\ disk[Ledger] = disk[Receipt].status

ValidateSelected ==
  /\ Unlocked /\ runner.at = "leased"
  /\ IF IsSelectable
     THEN Become([runner EXCEPT !.at = "validated"]) /\ UNCHANGED disk
     ELSE Become(IdleRunner) /\ disk' = Release(disk)
  /\ FindsNothing

\* CaptureTokenBudget.reserve: only the backfill pool asks for the membership
\* of the revision in its census.
Reserve ==
  /\ Unlocked /\ runner.at = "validated"
  /\ disk' = [disk EXCEPT ![Budgets] = "reserved"]
  /\ Become([runner EXCEPT !.at = "reserved"]) /\ FindsNothing

\* begin_extraction.  A redacted receipt may hold no hashes again.
BeginExtraction ==
  /\ Unlocked /\ runner.at = "reserved"
  /\ IF /\ disk[Lease] # None
        /\ disk[Receipt] # None
        /\ disk[Receipt].status \in Ready
        /\ ~disk[Receipt].redacted
     THEN /\ disk' = [disk EXCEPT ![Receipt].status = "extracting",
                                  ![Ledger] = "extracting"]
          /\ Become([runner EXCEPT !.at = "begun"])
     ELSE Become(IdleRunner) /\ disk' = Release(disk)
  /\ FindsNothing

\* _assert_lease, and the receipt must be the one that was begun.
MayCommit ==
  /\ disk[Lease] # None
  /\ disk[Receipt] # None /\ disk[Receipt].status = "extracting"

\* commit_extraction as a whole; the module CaptureStore shows its steps.
CommitExtraction(found) ==
  /\ Unlocked /\ runner.at = "begun"
  /\ Become(IdleRunner)
  /\ IF MayCommit THEN Finds(found) ELSE FindsNothing
  /\ disk' = IF ~MayCommit THEN Release(disk)
             ELSE [f \in AllFiles |->
                     IF f = Receipt THEN [status |-> "complete", redacted |-> FALSE,
                                          count |-> Cardinality(found)]
                     ELSE IF f = Ledger THEN "complete"
                     ELSE IF f = Index THEN found
                     ELSE IF \E o \in found : f = Observation(o) THEN "text"
                     ELSE IF f = Lease THEN None
                     ELSE disk[f]]

\* transition_with_settlement after a failed extraction.
ParkExtraction ==
  /\ Unlocked /\ runner.at = "begun"
  /\ Become(IdleRunner) /\ FindsNothing
  /\ disk' = IF ~MayCommit THEN Release(disk)
             ELSE [disk EXCEPT ![Receipt].status = "retryable",
                               ![Ledger] = "retryable", ![Lease] = None]

\* The process is killed inside the commit, when everything is staged.
CommitIsKilled(found) ==
  /\ Unlocked /\ runner.at = "begun"
  /\ MayCommit
  /\ count.faults < MaxFaults
  /\ count' = [count EXCEPT !.faults = @ + 1]
  /\ disk' = [f \in AllFiles |->
                IF f = Journal THEN found
                ELSE IF \E o \in found : f = Stage(o) THEN "text"
                ELSE disk[f]]
  /\ runner' = IdleRunner
  /\ Finds(found)
  /\ UNCHANGED <<pc, todo, job, scan>>

-----------------------------------------------------------------------------
(* The full scan, the audit and the hook                                   *)

\* recover_transactions, for one revision.  A journal of capture_forget is
\* none of its own: it is unlinked as corrupt.
IsBroken(d) ==
  /\ d[Receipt] # None
  /\ \/ d[Receipt].status = "extracting"
     \/ d[Receipt].status = "complete"
          /\ (d[Index] = None \/ d[Receipt].count # Cardinality(d[Index])
                \/ ~d[Index] \subseteq ObservationsIn(d))
     \/ d[Receipt].status \in Ready /\ d[Journal] # None

Referenced(d) == IF d[Receipt] # None /\ d[Receipt].status = "complete" /\ ~IsBroken(d)
                 THEN d[Index] ELSE {}

Recovered(d) ==
  [f \in AllFiles |->
     IF f \in {Journal, ForgetJournal} THEN None
     ELSE IF f \in {Stage(o) : o \in Observations} THEN None
     ELSE IF f \in {Observation(o) : o \in Observations \ Referenced(d)} THEN None
     ELSE IF f = Receipt /\ IsBroken(d) THEN [d[Receipt] EXCEPT !.status = "retryable",
                                                                !.count = 0]
     ELSE IF f = Ledger /\ IsBroken(d) THEN "retryable"
     ELSE IF f = Index /\ IsBroken(d) THEN None
     ELSE d[f]]

Scan(next) == scan' = next /\ UNCHANGED <<pc, todo, job, runner, gone>>

StartScan ==
  /\ Unlocked /\ scan.at = "idle"
  /\ count.scans < MaxScans
  /\ count' = [count EXCEPT !.scans = @ + 1]
  /\ LET d == Recovered(disk)
     IN  disk' = IF d = disk THEN disk ELSE [d EXCEPT ![Workset] = None]
  /\ Scan([at |-> "recovered", generation |-> disk[Generation]])

\* freeze_census takes what the source shows, forgotten or not.
Freeze(members) ==
  /\ Unlocked /\ scan.at = "recovered"
  /\ disk' = [disk EXCEPT ![Census] = members, ![Catalog] = "catalog"]
  /\ Scan([scan EXCEPT !.at = "frozen"]) /\ UNCHANGED count

\* Mutant: the scanner does not look for a tombstone.
RegisterAnyway ==
  IF disk[Receipt] = None
  THEN [disk EXCEPT ![Receipt] = Fresh, ![Ledger] = Fresh.status]
  ELSE disk

\* _register_receipt.
Registered ==
  IF disk[Tombstone] # None THEN disk
  ELSE IF disk[Receipt] = None
  THEN [disk EXCEPT ![Receipt] = Fresh, ![Ledger] = Fresh.status]
  ELSE [disk EXCEPT ![Ledger] = disk[Receipt].status]

Register ==
  /\ Unlocked /\ scan.at = "frozen"
  /\ disk' = [Registered EXCEPT ![Sibling] =
                IF disk[Census] # None /\ "sibling" \in disk[Census] THEN "text" ELSE @]
  /\ Scan([scan EXCEPT !.at = "registered"]) /\ UNCHANGED count

\* advance_scan_state: a conflict is ignored, a suppressed task not cached.
Advanced ==
  IF scan.generation # disk[Generation] \/ disk[Tombstone] # None THEN disk
  ELSE [disk EXCEPT ![Hint] = "text"]

\* is_key_accounted.
Accounted ==
  \/ disk[Tombstone] # None
  \/ disk[Receipt] # None /\ disk[Ledger] = disk[Receipt].status

FinishScan ==
  /\ Unlocked /\ scan.at = "registered"
  /\ disk' = [Advanced EXCEPT ![Dirty] = IF Accounted THEN None ELSE @]
  /\ Scan([scan EXCEPT !.at = "idle"]) /\ UNCHANGED count

\* The hook takes no lock; a marker written during a call is as one after it,
\* for the call looks at markers once, when it plans.
Mark ==
  /\ todo = << >>
  /\ disk[Dirty] = None
  /\ disk' = [disk EXCEPT ![Dirty] = "marker"]
  /\ UNCHANGED <<pc, todo, job, runner, scan, gone, count>>

Elsewhere == UNCHANGED <<pc, todo, job, runner, scan, gone, count>>

\* run_full_audit; a journal of any kind or a broken graph fails it.
Audit ==
  /\ Unlocked
  /\ disk[Workset] = None
  /\ disk[ForgetJournal] = None /\ disk[Journal] = None
  /\ GraphIsValid(disk)
  /\ disk[Receipt] # None => disk[Receipt].status # "extracting"
  /\ disk' = [disk EXCEPT ![Workset] = "healthy"]
  /\ Elsewhere

-----------------------------------------------------------------------------
(* Reviews, backup and restore                                             *)

\* record_reviews.
RecordReview(o) ==
  /\ Unlocked
  /\ disk[Observation(o)] # None /\ disk[Review(o)] = None
  /\ disk[Receipt] # None /\ disk[Receipt].status = "complete"
  /\ Bound(disk, o)
  /\ disk' = [disk EXCEPT ![Review(o)] = "accepted"]
  /\ Elsewhere

Backup ==
  /\ Unlocked
  /\ disk[Archive] = None
  /\ GraphIsValid(disk)
  /\ disk' = [disk EXCEPT ![Archive] =
                [f \in Files \cup {Dirty} |-> IF f \in Archived THEN disk[f] ELSE None]]
  /\ Elsewhere

\* _handle_restore, as a whole: everything but the backups and the generation
\* is cleared, Capture's tombstones and a journal of a forget included.
Restore ==
  /\ Unlocked
  /\ disk[Archive] # None
  /\ count.restores < MaxRestores
  /\ count' = [count EXCEPT !.restores = @ + 1]
  /\ disk' = [f \in AllFiles |->
                IF f = Archive THEN disk[f]
                ELSE IF f = Generation THEN disk[f] + 1
                ELSE IF f \in Archived THEN disk[Archive][f]
                ELSE None]
  /\ UNCHANGED <<pc, todo, job, runner, scan, gone>>

-----------------------------------------------------------------------------
Forgetting ==
  \/ \E t \in Targets : Call(t)
  \/ Refuse \/ Plan \/ WriteNext \/ Commit \/ Answer \/ AnswerFailed
  \/ WriteFails \/ Crash

Running ==
  \/ SelectRevision \/ AcquireLease \/ ValidateSelected \/ Reserve
  \/ BeginExtraction \/ ParkExtraction
  \/ \E found \in Findings : CommitExtraction(found) \/ CommitIsKilled(found)

Scanning ==
  \/ StartScan \/ Register \/ FinishScan \/ Mark \/ Audit
  \/ \E members \in Members : Freeze(members)

Keeping ==
  \/ \E o \in Observations : RecordReview(o)
  \/ Backup \/ Restore

Next == Forgetting \/ Running \/ Scanning \/ Keeping

Spec == Init /\ [][Next]_vars

-----------------------------------------------------------------------------
(* Properties                                                              *)

Settled == pc = "idle" /\ disk[ForgetJournal] = None

HoldsRevision(d) ==
  \/ d[Receipt] # None \/ d[Ledger] # None \/ d[Index] # None
  \/ \E o \in Observations : d[Observation(o)] # None \/ d[Review(o)] # None

\* A revision whose forget was answered with success stays forgotten whatever
\* happens afterwards: its tombstone stays, no scan registers or caches it
\* again, no runner that selected it before commits what it found, and
\* neither the root nor the managed backup holds anything found in it.
ForgottenRevisionStaysGone ==
  "revision" \in gone /\ Settled =>
    /\ disk[Tombstone] # None
    /\ ~HoldsRevision(disk)
    /\ disk[Hint] = None /\ disk[Journal] = None
    /\ \A o \in Observations : disk[Stage(o)] = None
    /\ disk[Archive] # None => disk[Archive][Tombstone] # None /\ ~HoldsRevision(disk[Archive])

HoldsObservation(d, o) ==
  \/ d[Observation(o)] # None \/ d[Review(o)] # None \/ d[Stage(o)] # None
  \/ o \in Entries(d[Index]) \cup Entries(d[Journal])

\* An observation whose forget was answered with success is in no file of the
\* root and of the managed backup, unless an extraction has found it again:
\* not the manifest, a journal or a staged copy of a killed commit, nor by a
\* roll back, a recovery or a restore.
ForgottenObservationIsGone ==
  \A o \in gone \cap Observations : \A d \in Copies : Settled => ~HoldsObservation(d, o)

\* What the user was told is forgotten is, one or the other.
ForgottenStaysGone == ForgottenRevisionStaysGone /\ ForgottenObservationIsGone

\* Whatever was interrupted, once no call is in progress and no journal is left
\* a complete receipt has its manifest and exactly its observations, no other
\* observation is left, and the ledger says the same or is to be written again
\* by the next scan.
GraphAgrees ==
  Settled =>
    /\ disk[Ledger] \in {None, IF disk[Receipt] = None THEN None ELSE disk[Receipt].status}
    /\ IF disk[Receipt] # None /\ disk[Receipt].status = "complete"
       THEN /\ disk[Index] # None
            /\ disk[Receipt].count = Cardinality(disk[Index])
            /\ ObservationsIn(disk) = disk[Index]
       ELSE ObservationsIn(disk) = {} /\ disk[Index] = None

\* A purge that raises nothing is never taken back: whatever crashes, recoveries
\* and restores left behind, what it makes of the files is a graph that its own
\* validation accepts, and so a call that is repeated ends with success.
PurgeConverges ==
  pc = "purging" /\ todo = << >> => GraphIsValid(disk)

\* What the documentation says: a captured revision can be forgotten.  With
\* nothing broken and no marker pending, the call finds it.
ACapturedRevisionIsFound ==
  /\ pc = "recovering" /\ todo = << >> /\ job.target = "revision"
  /\ disk[Receipt] # None /\ disk[Receipt].status = "complete" /\ disk[Dirty] = None
  => IsFound(disk, "revision")

=============================================================================
