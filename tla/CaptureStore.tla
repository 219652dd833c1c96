---------------------------- MODULE CaptureStore ----------------------------
(***************************************************************************)
(* One revision's way through Capture: agc_runtime/capture_store.py and    *)
(* the callers that drive it -- the runner (capture_runner.py), the        *)
(* scanner (capture_scanner.py), explicit retry and the full audit         *)
(* (capture_maintenance.py).  Revisions share nothing but the write lock,  *)
(* the runner lock and the set of active receipts, so one is followed.     *)
(*                                                                         *)
(* Every handler reads the disk once, under the write lock, and then       *)
(* replaces files in a fixed order.  A handler is therefore one action     *)
(* that leaves the list of its writes in todo; WriteNext makes them one by *)
(* one, and a crash or an exception forgets the rest.  The write lock is   *)
(* taken as what locking.py promises: whoever has writes to do holds it.   *)
(***************************************************************************)
EXTENDS CaptureStatus, Naturals, FiniteSets, SequencesExt

CONSTANTS
  Workers,        \* processes: a runner, a scanner, a retry or an audit each
  Observations,   \* what an extractor may find in this revision
  MaxAttempts,    \* config runner.max_attempts
  ConfigReturns,  \* assumption: an edited config.yaml may be edited back
  None,           \* no file
  MaxEpoch,       \* bound: leases that are taken between two restores
  MaxConfig,      \* bound: versions of config.yaml
  MaxRestores     \* bound: backups that are restored

ASSUME CaptureAssumption ==
  /\ MaxAttempts \in Nat \ {0}
  /\ MaxEpoch \in Nat /\ MaxConfig \in Nat \ {0} /\ MaxRestores \in Nat
  /\ ConfigReturns \in BOOLEAN
  /\ IsFiniteSet(Observations)
  /\ None \notin Statuses /\ \A batch \in SUBSET Observations : batch # None

VARIABLES
  disk,  \* the files of the revision, a record
  todo,  \* the writes a process still makes under the write lock
  pc,    \* where a process goes on after them
  job,   \* what it remembers
  kept   \* a backup, the disk a restore may have to bring back, and how
         \* many restores there were

vars == <<disk, todo, pc, job, kept>>

\* What the last settled attempt was charged: nothing yet, less than its
\* reservation, all of it.
Charges == 0 .. 2
Maximum == 2

\* bound: the receipt carries the metadata of an extraction.
Receipt == [status : Statuses, attempt : Nat, bound : BOOLEAN, count : Nat,
            usage : Charges]
Batch == SUBSET Observations
Workset == [baseline : {"healthy", "recovery_needed"}, active : BOOLEAN,
            config : 1 .. MaxConfig]

Leased == {"leased", "checked", "unreadable", "requeued", "reserved", "begun",
           "empty"}
Running == {"running", "selected", "release", "handled", "identity_raised"}
             \cup Leased
Restoring == {"restoring", "reverting"}
Labels == {"idle", "scanning", "scan_raised", "retrying", "parked", "retried"}
            \cup Restoring
            \cup Running

NoJob == [token |-> 0, era |-> 0, seen |-> None, reserved |-> 0, attempt |-> 0,
          full |-> FALSE]

Lease == [token : Nat, era : Nat, live : BOOLEAN]

Disk == [receipt : Receipt \cup {None},
         ledger : Statuses \cup {None},
         manifest : Batch \cup {None},     \* indexes/<receipt>.json
         observations : Batch,
         staged : Batch,
         journal : Batch \cup {None},      \* journals/<receipt>.json
         transition : [from : Statuses, to : Statuses] \cup {None},
         lease : Lease \cup {None},
         epoch : Nat,
         workset : Workset \cup {None},    \* None: absent or unsealed
         config : 1 .. MaxConfig,
         reserved : SUBSET Nat,            \* attempts, one file each
         settled : SUBSET Nat]

Job == [token : Nat, era : Nat, seen : Statuses \cup {None}, reserved : Nat,
        attempt : Nat, full : BOOLEAN]

TypeOK ==
  /\ disk \in Disk
  /\ pc \in [Workers -> Labels]
  /\ \A w \in Workers : Len(todo[w]) \in Nat
  /\ kept \in [zip : Disk \cup {None}, former : Disk \cup {None}, restores : Nat]
  /\ job \in [Workers -> Job]

Blank ==
  [receipt |-> None, ledger |-> None, manifest |-> None,
   observations |-> {}, staged |-> {}, journal |-> None,
   transition |-> None, lease |-> None, epoch |-> 0,
   workset |-> None, config |-> 1, reserved |-> {}, settled |-> {}]

Init ==
  /\ disk = Blank
  /\ todo = [w \in Workers |-> << >>]
  /\ pc = [w \in Workers |-> "idle"]
  /\ job = [w \in Workers |-> NoJob]
  /\ kept = [zip |-> None, former |-> None, restores |-> 0]

-----------------------------------------------------------------------------
(* The disk, read under the lock                                           *)

receipt == disk.receipt
Status == IF receipt = None THEN None ELSE receipt.status
\* load_workset_locked: the digest of the config is part of a workset.
Usable == disk.workset # None /\ disk.workset.config = disk.config

ActiveNow == Usable /\ disk.workset.active

\* _manifest_valid; the length of the manifest stands for the count.
ManifestValid ==
  /\ Status = "complete"
  /\ disk.manifest # None
  /\ receipt.count = Cardinality(disk.manifest)
  /\ disk.manifest \subseteq disk.observations

HoldsLease(w) ==
  /\ disk.lease # None
  /\ disk.lease.token = job[w].token /\ disk.lease.era = job[w].era
  /\ disk.epoch = job[w].token

\* What a lease is asserted for: the receipt that is read after it.
HoldsReceipt(w) == receipt # None /\ HoldsLease(w)

Files(value) == IF value = None THEN {} ELSE value

-----------------------------------------------------------------------------
(* Lists of writes                                                         *)

Write(file, value) == << [file |-> file, value |-> value] >>

\* mark_active_locked and retire_active_locked.
MarkActive == Write("active", TRUE)
RetireActive == Write("active", FALSE)

Unlink(file) == IF disk[file] = None THEN << >> ELSE Write(file, None)

\* One write for each member of batch.
Growing(file, before, batch) ==
  LET s == SetToSeq(batch)
  IN  [i \in 1 .. Len(s) |->
        [file |-> file, value |-> before \cup {s[j] : j \in 1 .. i}]]

Shrinking(file, before, batch) ==
  LET s == SetToSeq(batch \cap before)
  IN  [i \in 1 .. Len(s) |->
        [file |-> file, value |-> before \ {s[j] : j \in 1 .. i}]]

\* Mutant: the receipt is replaced before it is marked.
ChangeUnmarked(r) ==
  Write("receipt", r) \o MarkActive \o Write("ledger", r.status)

\* _write_receipt and _write_ledger.
Change(r) == MarkActive \o Write("receipt", r) \o Write("ledger", r.status)

-----------------------------------------------------------------------------
At(w, label) == pc[w] = label /\ todo[w] = << >>

\* The write lock is free.
Free == \A w \in Workers : todo[w] = << >>

Goto(w, label) == pc' = [pc EXCEPT ![w] = label]

Remember(w, field, value) == job' = [job EXCEPT ![w][field] = value]

\* A call's locals die with it.
Carry(w) == job' = IF pc'[w] = "idle" THEN [job EXCEPT ![w] = NoJob] ELSE job

\* A critical section that makes these writes and goes on at label.
Section(w, writes, label) ==
  /\ Free
  /\ todo' = [todo EXCEPT ![w] = writes]
  /\ Goto(w, label)
  /\ UNCHANGED disk

WriteNext(w) ==
  /\ todo[w] # << >>
  /\ Head(todo[w]).file # "active"
  /\ disk' = [disk EXCEPT ![Head(todo[w]).file] = Head(todo[w]).value]
  /\ todo' = [todo EXCEPT ![w] = Tail(todo[w])]
  /\ UNCHANGED <<pc, job>>

\* The workset and its seal are two files: between them it is unusable.
PublishNext(w) ==
  /\ todo[w] # << >>
  /\ Head(todo[w]).file = "active"
  /\ LET active == Head(todo[w]).value
     IN  IF ~Usable \/ disk.workset.active = active
         THEN UNCHANGED disk /\ todo' = [todo EXCEPT ![w] = Tail(todo[w])]
         ELSE /\ disk' = [disk EXCEPT !.workset = None]
              /\ todo' = [todo EXCEPT ![w] =
                   Write("workset", [disk.workset EXCEPT !.active = active])
                     \o Tail(todo[w])]
  /\ UNCHANGED <<pc, job>>

-----------------------------------------------------------------------------
(* Recovery                                                                *)

\* A transition journal whose receipt is gone, or at neither of its statuses.
TransitionCorrupt ==
  /\ disk.transition # None
  /\ Status \notin {disk.transition.from, disk.transition.to}

RecoverTransition ==
  (IF TransitionCorrupt THEN Write("workset", None)
   ELSE IF disk.transition # None /\ Status = disk.transition.to
   THEN MarkActive \o Write("ledger", receipt.status)
   ELSE << >>)
    \o Unlink("transition")

Whole == ManifestValid

\* Mutant: the loop goes on after a whole receipt.
BrokenOrWhole ==
  /\ receipt # None
  /\ Status \in {"extracting", "complete"} \/ disk.journal # None

Broken ==
  /\ receipt # None /\ ~Whole
  /\ Status \in {"extracting", "complete"} \/ disk.journal # None

\* The journal of a receipt that a restore took away.
Lost == receipt = None /\ disk.journal # None

\* Whatever an unfinished commit may have left behind.
Leftovers ==
  Files(disk.journal) \cup IF receipt = None THEN {} ELSE Files(disk.manifest)

\* Mutant: the manifest and the observations of the broken commit stay.
BackToRetryableKeeping ==
  Shrinking("staged", disk.staged, Leftovers) \o Unlink("journal")
    \o Change([receipt EXCEPT !.status = "retryable", !.count = 0])

\* _safe_cleanup_bound
CleanUpBound ==
  Shrinking("staged", disk.staged, Leftovers)
    \o Shrinking("observations", disk.observations, Leftovers)
    \o Unlink("manifest") \o Unlink("journal")

\* and _retryable.
BackToRetryable ==
  CleanUpBound \o Change([receipt EXCEPT !.status = "retryable", !.count = 0])

\* What the full recovery still finds without an owner after that.
OrphanObservations ==
  disk.observations \ (IF Whole THEN disk.manifest
                       ELSE IF Broken \/ Lost THEN Leftovers ELSE {})

OrphanStages ==
  disk.staged \ (IF Broken \/ Lost THEN Leftovers
                 ELSE IF Whole /\ disk.journal = disk.manifest
                 THEN disk.manifest ELSE {})

\* recover_transactions reports zero of everything.
NothingToRecover ==
  /\ disk.transition = None
  /\ ~Broken /\ ~Lost /\ ~(Whole /\ disk.journal # None)
  /\ OrphanObservations = {} /\ OrphanStages = {}

\* recover_transactions looks at everything and asks for no lease.  Of a
\* complete receipt it cleans the stages; a journal that names the batch of
\* the manifest stays where it is.
FullRecovery ==
  IF NothingToRecover THEN << >>
  ELSE RecoverTransition
       \o (IF Broken THEN BackToRetryable
           ELSE IF Lost THEN CleanUpBound
           ELSE IF ~Whole \/ disk.journal = None THEN << >>
           ELSE IF disk.journal = disk.manifest
           THEN Shrinking("staged", disk.staged, disk.manifest)
           ELSE Unlink("journal"))
       \o Shrinking("observations", disk.observations \ (IF Broken \/ Lost THEN Leftovers ELSE {}),
                    OrphanObservations)
       \o Shrinking("staged", OrphanStages, OrphanStages)
       \o Write("workset", None)

\* Mutant: an extraction that never got to its journal counts as finished.
InterruptedWithJournal ==
  receipt.status = "complete" \/ Files(disk.journal) # {}

Interrupted ==
  receipt.status \in {"extracting", "complete"} \/ Files(disk.journal) # {}

\* recover_active_transactions looks at a marked receipt without live lease.
Recoverable == ActiveNow /\ ~(disk.lease # None /\ disk.lease.live)

\* _missing_receipt_has_bound_artifacts
Stray ==
  /\ receipt = None
  /\ \/ disk.ledger # None \/ disk.manifest # None
     \/ disk.lease # None \/ disk.epoch # 0
     \/ disk.observations # {} \/ disk.staged # {}

RecoveryFails ==
  \/ disk.lease # None /\ disk.lease.token # disk.epoch
  \/ TransitionCorrupt \/ Stray
  \/ Whole /\ disk.journal \notin {None, disk.manifest}

ActiveRecovery ==
  IF disk.lease # None /\ disk.lease.token # disk.epoch
  THEN Write("workset", None)
  ELSE RecoverTransition
       \o (IF TransitionCorrupt THEN << >>
           ELSE IF RecoveryFails THEN Write("workset", None)
           ELSE (IF receipt = None THEN Unlink("journal")
                 ELSE IF Whole
                 THEN Shrinking("staged", disk.staged, Files(disk.journal))
                        \o Unlink("journal") \o Write("ledger", "complete")
                 ELSE IF Interrupted THEN BackToRetryable
                 ELSE Write("ledger", receipt.status))
                \o RetireActive)

-----------------------------------------------------------------------------
(* Recovery and audit as calls                                             *)

\* capture_runner_lock admits one run; scans and retries take no such lock.
MayStart(w, next) ==
  next = "running" => \A v \in Workers \ {w} : pc[v] \notin Running

\* A census scan or a manual backfill starts with a full recovery.
RecoverAll(w, next) ==
  /\ At(w, "idle") /\ MayStart(w, next)
  /\ Section(w, FullRecovery, next)
  /\ job' = [job EXCEPT ![w] = [NoJob EXCEPT !.full = TRUE]]

\* An incremental scan or a background run recovers what is marked active and
\* stops unless that leaves a healthy baseline.
RecoverActive(w, next) ==
  /\ At(w, "idle") /\ MayStart(w, next)
  /\ Usable
  /\ Section(w, IF Recoverable THEN ActiveRecovery ELSE << >>,
             IF /\ disk.workset.baseline = "healthy"
                /\ ~(Recoverable /\ RecoveryFails)
             THEN next ELSE "idle")
  /\ Carry(w)

\* run_full_audit: what is unfinished becomes active; a defect that no active
\* receipt explains leaves the root without a workset.
Audit(w) ==
  LET active == \/ Status = "extracting"
                \/ receipt # None /\ disk.ledger # Status
                \/ disk.journal # None \/ disk.transition # None
      sound == /\ receipt = None => disk.ledger = None
               /\ disk.staged \subseteq Files(disk.journal)
               /\ active \/ OrphanObservations = {}
               /\ active \/ Whole \/ disk.manifest = None
  IN  /\ At(w, "idle")
      /\ Section(w,
           Unlink("workset")
             \o (IF sound
                 THEN Write("workset",
                        [baseline |-> IF active THEN "recovery_needed"
                                      ELSE "healthy",
                         active |-> active, config |-> disk.config])
                 ELSE << >>),
           "idle")
      /\ Carry(w)

-----------------------------------------------------------------------------
(* The scanner                                                             *)

New(status) ==
  [status |-> status, attempt |-> 0, bound |-> FALSE, count |-> 0, usage |-> 0]

\* register_census_receipt(discovered); of a receipt that is there already it
\* repairs the ledger, unless extraction metadata make the two incomparable.
\* An incremental scan passes over the receipts it knows.
Register(w) ==
  /\ At(w, "scanning")
  /\ receipt # None => job[w].full
  /\ Section(w, IF receipt = None THEN Change(New("discovered")) \o RetireActive
                ELSE IF ~receipt.bound /\ disk.ledger # receipt.status
                THEN MarkActive \o Write("ledger", receipt.status) \o RetireActive
                ELSE << >>,
             "idle")
  /\ Carry(w)

\* register_census_receipt(excluded), for a task the config excludes by now.
Exclude(w) ==
  /\ At(w, "scanning")
  /\ IF \/ receipt = None
        \/ ValidCaptureTransition(receipt.status, "excluded")
     THEN Section(w, Change(IF receipt = None THEN New("excluded")
                            ELSE [receipt EXCEPT !.status = "excluded"])
                       \o RetireActive, "idle")
     ELSE Section(w, << >>, IF receipt.status = "excluded" THEN "idle"
                            ELSE "scan_raised")
  /\ Carry(w)

\* register_quarantined_revision, when two sightings of a revision differ.
\* The conflict file it leaves for source_health is not followed.
Quarantine(w) ==
  /\ At(w, "scanning")
  /\ Section(w, IF \/ receipt = None
                   \/ ValidCaptureTransition(receipt.status, "quarantined")
                THEN Change(IF receipt = None THEN New("quarantined")
                            ELSE [receipt EXCEPT !.status = "quarantined"])
                       \o RetireActive
                ELSE << >>,
             "idle")
  /\ Carry(w)

-----------------------------------------------------------------------------
(* Leases                                                                  *)

LeaseLive == disk.lease # None /\ disk.lease.live

\* Mutant: the high-water mark of the epoch file is forgotten.
NextTokenOfLease == 1 + IF disk.lease # None THEN disk.lease.token ELSE 0

NextToken ==
  1 + IF disk.lease # None /\ disk.lease.token > disk.epoch
      THEN disk.lease.token ELSE disk.epoch

\* acquire_lease: the epoch first, then the lease that carries it.  Its times
\* tell it from one with the same token before a restore.
TakeLease(w, from, next) ==
  /\ At(w, from)
  /\ ~LeaseLive /\ NextToken <= MaxEpoch
  /\ Section(w, Write("epoch", NextToken)
                  \o Write("lease", [token |-> NextToken, era |-> kept.restores,
                                     live |-> TRUE]),
             next)
  /\ job' = [job EXCEPT ![w].token = NextToken, ![w].era = kept.restores]

\* Somebody else has it: the item is skipped, the retry is refused.
Contended(w, from) ==
  /\ At(w, from)
  /\ LeaseLive \/ NextToken > MaxEpoch
  /\ Section(w, << >>, "idle")
  /\ Carry(w)

\* release_lease in the finally block; a lost lease is not an error there.
Release(w) ==
  /\ pc[w] \in {"release", "handled", "identity_raised", "retried"}
  /\ todo[w] = << >>
  /\ Section(w, IF HoldsLease(w) THEN Write("lease", None) ELSE << >>, "idle")
  /\ Carry(w)

\* The expiry time passes.  The owner, whose clock stands still for the whole
\* of its run, does not see it.
LeaseExpires ==
  /\ LeaseLive
  /\ disk' = [disk EXCEPT !.lease.live = FALSE]
  /\ UNCHANGED <<todo, pc, job>>

-----------------------------------------------------------------------------
(* Transitions under a lease                                               *)

\* transition and transition_with_settlement after their checks.
Transition(target, bound, settle, usage) ==
  MarkActive \o settle
    \o Write("transition", [from |-> receipt.status, to |-> target])
    \o Write("receipt", [receipt EXCEPT !.status = target, !.bound = bound,
                                        !.usage = usage])
    \o Write("ledger", target)
    \o Write("transition", None) \o RetireActive

\* Otherwise the call raises: the lease is lost, the status is another, or
\* the change is not a legal one.
MayTransition(w, expected, target) ==
  /\ HoldsReceipt(w)
  /\ receipt.status = expected
  /\ ValidCaptureTransition(expected, target)

TryTransition(w, expected, target, next, otherwise) ==
  IF MayTransition(w, expected, target)
  THEN Section(w, Transition(target, receipt.bound /\ target # "queued", << >>,
                             receipt.usage),
               next)
  ELSE Section(w, << >>, otherwise)

\* retry_capture_receipt: read, lease, transition, release.
Retry(w) ==
  /\ At(w, "idle")
  /\ Status \in {"failed", "quarantined"}
  /\ Goto(w, "retrying")
  /\ job' = [job EXCEPT ![w] = [NoJob EXCEPT !.seen = receipt.status]]
  /\ UNCHANGED <<disk, todo>>

Requeue(w) ==
  /\ At(w, "parked")
  /\ TryTransition(w, job[w].seen, "queued", "retried", "retried")
  /\ Carry(w)

-----------------------------------------------------------------------------
(* The runner: one item of _run_manual_backfill_locked                     *)

\* A retryable receipt is due at some time or other; a background run passes
\* over what the workset still calls active.
Select(w) ==
  /\ At(w, "running")
  /\ Status \in Ready
  /\ job[w].full \/ (Usable /\ ~ActiveNow)
  /\ Goto(w, "selected")
  /\ job' = [job EXCEPT ![w].seen = receipt.status,
                        ![w].attempt = receipt.attempt]
  /\ UNCHANGED <<disk, todo>>

\* Nothing to do, or a scan that does not come upon this revision.
Finish(w) ==
  /\ pc[w] \in {"running", "scanning", "scan_raised"} /\ todo[w] = << >>
  /\ Goto(w, "idle")
  /\ UNCHANGED <<disk, todo>> /\ Carry(w)

\* validate_background_selected.  It also reads census membership, source
\* health and tombstones; what it finds there ends the run just the same.
Check(w, refused) ==
  /\ At(w, "leased")
  /\ job[w].full => ~refused
  /\ LET same == /\ HoldsReceipt(w)
                 /\ receipt.status = job[w].seen
                 /\ disk.ledger = receipt.status
     IN  IF job[w].full
         THEN Goto(w, "checked") /\ UNCHANGED <<disk, todo>>
         ELSE Section(w, << >>, IF same /\ ~refused THEN "checked" ELSE "handled")
  /\ Carry(w)

\* load_capsule raised OSError or capsule_source_unavailable.
Unavailable(w) ==
  /\ At(w, "checked")
  /\ Goto(w, "unreadable")
  /\ UNCHANGED <<disk, todo, job>>

\* The handler for that: retryable receipts go through queued.
BackOff(w) ==
  /\ \/ At(w, "unreadable")
     \/ At(w, "requeued")
  /\ IF pc[w] = "unreadable" /\ job[w].seen = "retryable"
     THEN TryTransition(w, "retryable", "queued", "requeued", "handled")
     ELSE TryTransition(w, IF pc[w] = "requeued" THEN "queued" ELSE job[w].seen,
                        "retryable", "handled", "handled")
  /\ Carry(w)

\* load_capsule raised capsule_source_identity_changed.
SourceChanged(w) ==
  /\ At(w, "checked")
  /\ TryTransition(w, job[w].seen, "quarantined", "handled",
                   IF ValidCaptureTransition(job[w].seen, "quarantined")
                   THEN "handled" ELSE "identity_raised")
  /\ Carry(w)

\* budget.reserve: the reservation of an attempt is found again.
Reserve(w) ==
  /\ At(w, "checked")
  /\ Section(w, Write("reserved", disk.reserved \cup {job[w].attempt + 1}),
             "reserved")
  /\ Remember(w, "reserved", job[w].attempt + 1)

\* BudgetUnavailable.
Defer(w) ==
  /\ At(w, "checked")
  /\ job[w].attempt + 1 \notin disk.reserved
  /\ TryTransition(w, job[w].seen, "deferred_budget", "release", "release")
  /\ Carry(w)

Begun ==
  [receipt EXCEPT !.status = "extracting", !.bound = TRUE, !.attempt = @ + 1]

\* begin_extraction, with a reservation or for a capsule without a durable
\* signal; a revision that ever reserved tokens has one.
BeginExtraction(w) ==
  /\ \/ At(w, "reserved")
     \/ At(w, "checked") /\ disk.reserved = {}
  /\ LET next == IF pc[w] = "reserved" THEN "begun" ELSE "empty"
     IN  IF HoldsReceipt(w) /\ receipt.status \in Ready
         THEN /\ Section(w, Change(Begun), next)
              /\ Remember(w, "attempt", receipt.attempt + 1)
         ELSE Section(w, << >>, "release") /\ Carry(w)

Settle(w) ==
  IF job[w].reserved = 0 THEN << >>
  ELSE Write("settled", disk.settled \cup {job[w].reserved})

Prepare(batch) == MarkActive \o Write("journal", batch) \o Growing("staged", disk.staged, batch)

Publish(batch) == Write("manifest", batch) \o Growing("observations", disk.observations, batch)

Conclude(batch, usage) ==
  Write("ledger", "complete")
    \o Write("receipt", [receipt EXCEPT !.status = "complete", !.usage = usage,
                                        !.count = Cardinality(batch)])

CleanUp(batch) ==
  Shrinking("staged", disk.staged \cup batch, batch)
    \o Write("journal", None) \o RetireActive

\* Mutant: the tokens are settled after everything else.
CommitSettlingLast(w, batch, usage) ==
  Prepare(batch) \o Publish(batch) \o Conclude(batch, usage) \o Settle(w) \o CleanUp(batch)

CommitWrites(w, batch, usage) ==
  Prepare(batch) \o Publish(batch) \o Settle(w) \o Conclude(batch, usage) \o CleanUp(batch)

\* commit_extraction.  The terminal receipt is made from the one that
\* begin_extraction returned and must agree with the one on disk in all that
\* an extraction binds; of the status of the latter it is only asked that it
\* is not complete, and its usage must not be above that of this attempt.
Commit(w, batch, usage) ==
  /\ \/ At(w, "begun") /\ usage # 0
     \/ At(w, "empty") /\ batch = {} /\ usage = (IF receipt = None THEN 0 ELSE receipt.usage)
  /\ Section(w, IF /\ HoldsReceipt(w)
                   /\ receipt.attempt = job[w].attempt /\ receipt.bound
                   /\ receipt.status # "complete"
                   /\ usage >= receipt.usage
                THEN CommitWrites(w, batch, usage) ELSE << >>,
             "release")
  /\ Carry(w)

\* The extractor reports a failure, which never comes with a usage.
ExtractFails(w) ==
  /\ At(w, "begun")
  /\ LET target == IF job[w].attempt >= MaxAttempts THEN "failed"
                   ELSE "retryable"
     IN  Section(w, IF MayTransition(w, "extracting", target)
                    THEN Transition(target, receipt.bound, Settle(w), Maximum)
                    ELSE << >>, "release")
  /\ Carry(w)

\* The extractor, or the gate behind it, raises.
ExtractRaises(w) ==
  /\ pc[w] \in {"begun", "empty"} /\ todo[w] = << >>
  /\ Goto(w, "handled")
  /\ UNCHANGED <<disk, todo, job>>

-----------------------------------------------------------------------------
(* Backup and restore of these files, under both locks                     *)

\* backup_files: what a worker keeps for itself stays behind.
Archived ==
  [Blank EXCEPT !.receipt = receipt, !.ledger = disk.ledger,
     !.manifest = disk.manifest, !.observations = disk.observations]

\* _validate_capture_entries: every object is bound to a receipt, its ledger
\* agrees, and what a complete one refers to is what there is.
Archivable ==
  /\ disk.ledger = Status
  /\ receipt = None => disk.manifest = None
  /\ Status = "complete" => ManifestValid
  /\ disk.observations = IF Status = "complete" THEN disk.manifest ELSE {}

Backup ==
  /\ Free /\ Archivable
  /\ kept.zip = None /\ kept.restores < MaxRestores
  /\ kept' = [kept EXCEPT !.zip = Archived]
  /\ UNCHANGED <<disk, todo, pc, job>>

Reset(file) == IF disk[file] = Blank[file] THEN << >> ELSE Write(file, Blank[file])

\* _clear_replaceable_files, in the reverse order of the names.
Cleared ==
  Shrinking("staged", disk.staged, disk.staged) \o Reset("receipt")
    \o Shrinking("observations", disk.observations, disk.observations)
    \o Reset("ledger") \o Reset("lease") \o Reset("epoch")
    \o Reset("transition") \o Reset("journal") \o Reset("manifest")
    \o Reset("settled") \o Reset("reserved")

Put(file, value) == IF value = Blank[file] THEN << >> ELSE Write(file, value)

\* Mutant: the files are written in the order they were removed.
BringBackwards(d) ==
  Growing("staged", {}, d.staged) \o Put("workset", d.workset)
    \o Put("receipt", d.receipt) \o Growing("observations", {}, d.observations)
    \o Put("ledger", d.ledger) \o Put("lease", d.lease) \o Put("epoch", d.epoch)
    \o Put("transition", d.transition) \o Put("journal", d.journal)
    \o Put("manifest", d.manifest)
    \o Put("settled", d.settled) \o Put("reserved", d.reserved)

\* The entries of the archive, or the former files, in the order of the names.
Bring(d) ==
  Put("reserved", d.reserved) \o Put("settled", d.settled)
    \o Put("manifest", d.manifest)
    \o Put("journal", d.journal) \o Put("transition", d.transition)
    \o Put("epoch", d.epoch) \o Put("lease", d.lease) \o Put("ledger", d.ledger)
    \o Growing("observations", {}, d.observations) \o Put("receipt", d.receipt)
    \o Put("workset", d.workset) \o Growing("staged", {}, d.staged)

\* No runner or lease is asked; what is being extracted goes on.  (Bound: of a
\* backup there is one restore.  The former files are in memory; a restore that
\* will not need them again is told from one that may.)
Restore(w) ==
  /\ At(w, "idle")
  /\ kept.zip # None /\ kept.restores < MaxRestores
  /\ Section(w, Reset("workset") \o Cleared \o Bring(kept.zip), "restoring")
  /\ \E former \in {None, disk} :
       kept' = [zip |-> None, former |-> former, restores |-> kept.restores + 1]
  /\ UNCHANGED job

\* A restore that ends forgets the former files.
Leaves(w) ==
  kept' = IF pc[w] \in Restoring THEN [kept EXCEPT !.former = None] ELSE kept

RestoreEnds(w) ==
  /\ pc[w] \in Restoring /\ todo[w] = << >>
  /\ Goto(w, "idle") /\ Leaves(w)
  /\ UNCHANGED <<disk, todo, job>>

\* _restore_file_snapshot, and the workset invalidated again.
RestoreFails(w) ==
  /\ pc[w] = "restoring" /\ todo[w] # << >> /\ kept.former # None
  /\ Goto(w, "reverting")
  /\ todo' = [todo EXCEPT ![w] =
                Cleared \o Bring(kept.former) \o Write("workset", None)]
  /\ UNCHANGED <<disk, job, kept>>

-----------------------------------------------------------------------------
(* What goes wrong                                                         *)

\* Where an exception takes a process that was to go on at label: OSError
\* before the reservation has a handler, a lease a finally.
Raised(w, label) ==
  IF label \in {"reserved", "empty"} \/ (label = "release" /\ job[w].reserved = 0)
  THEN {"unreadable", "release"}
  ELSE IF label \in {"checked", "requeued", "begun", "release", "handled",
                    "identity_raised"}
  THEN {"handled"}
  ELSE IF label = "retried" THEN {"retried"} ELSE {"idle"}

\* A write fails: the rest of the section is not made.
Fail(w) ==
  /\ todo[w] # << >> /\ pc[w] # "restoring"
  /\ todo' = [todo EXCEPT ![w] = << >>]
  /\ \E label \in Raised(w, pc[w]) : Goto(w, label)
  /\ IF pc[w] = "reserved" THEN Remember(w, "reserved", 0) ELSE Carry(w)
  /\ UNCHANGED disk /\ Leaves(w)

\* The write lock is taken: a RuntimeError, which no handler catches.
LockBusy(w) ==
  /\ ~Free /\ todo[w] = << >> /\ pc[w] \notin {"idle"} \cup Restoring
  /\ Goto(w, IF pc[w] \in Leased THEN "handled"
             ELSE IF pc[w] = "parked" THEN "retried" ELSE "idle")
  /\ UNCHANGED <<disk, todo>> /\ Carry(w)

\* The process dies.  Its runner lock and its write lock are reclaimed.
Crash(w) ==
  /\ pc[w] # "idle" \/ todo[w] # << >>
  /\ todo' = [todo EXCEPT ![w] = << >>]
  /\ Goto(w, "idle")
  /\ UNCHANGED disk /\ Carry(w) /\ Leaves(w)

\* config.yaml is edited, and perhaps edited back.
ConfigChanges ==
  /\ \E c \in 1 .. MaxConfig :
       /\ c > disk.config \/ (ConfigReturns /\ c # disk.config)
       /\ disk' = [disk EXCEPT !.config = c]
  /\ UNCHANGED <<todo, pc, job>>

-----------------------------------------------------------------------------
Step(w) ==
  \/ WriteNext(w) \/ PublishNext(w)
  \/ \E refused \in BOOLEAN : Check(w, refused)
  \/ Select(w) \/ Finish(w)
  \/ TakeLease(w, "selected", "leased") \/ Contended(w, "selected")
  \/ TakeLease(w, "retrying", "parked") \/ Contended(w, "retrying")
  \/ Requeue(w) \/ Release(w)
  \/ Unavailable(w) \/ BackOff(w) \/ SourceChanged(w)
  \/ Reserve(w) \/ Defer(w) \/ BeginExtraction(w)
  \/ \E batch \in Batch, usage \in Charges : Commit(w, batch, usage)
  \/ ExtractFails(w) \/ ExtractRaises(w)
  \/ Register(w) \/ Exclude(w) \/ Quarantine(w)
  \/ LockBusy(w)

Work(w) == Step(w) /\ UNCHANGED kept

Recovers(w, next) == RecoverActive(w, next) /\ UNCHANGED kept

Start(w) ==
  \/ \E next \in {"running", "scanning"} : RecoverAll(w, next) \/ RecoverActive(w, next)
  \/ Audit(w) \/ Retry(w)

Calm ==
  \/ /\ \/ \E w \in Workers : Step(w) \/ Start(w)
        \/ LeaseExpires \/ ConfigChanges
     /\ UNCHANGED kept
  \/ Backup \/ \E w \in Workers : Restore(w) \/ RestoreEnds(w)

Next == Calm \/ \E w \in Workers : Fail(w) \/ Crash(w) \/ RestoreFails(w)

Spec == Init /\ [][Next]_vars

\* The scheduled cycle comes round however often something else comes first,
\* processes go on, clocks run.  Audits, full recoveries, retries and edits of
\* the configuration are up to the user.
FairSpec ==
  /\ Spec
  /\ \A w \in Workers :
       WF_vars(Work(w)) /\ SF_vars(Recovers(w, "running"))
  /\ WF_vars(LeaseExpires /\ UNCHANGED kept)

-----------------------------------------------------------------------------
(* The readers                                                             *)

\* _read_snapshot_locked: what of this revision a search returns.
Visible == IF ManifestValid THEN disk.manifest ELSE {}

\* What it calls degraded.
Diagnostics ==
  {code \in {"missing_ledger", "ledger_receipt_mismatch", "orphan_ledger",
             "invalid_manifest", "orphan_manifest", "orphan_observation"} :
     CASE code = "missing_ledger" -> receipt # None /\ disk.ledger = None
       [] code = "ledger_receipt_mismatch" ->
            receipt # None /\ disk.ledger # None /\ disk.ledger # receipt.status
       [] code = "orphan_ledger" -> receipt = None /\ disk.ledger # None
       [] code = "invalid_manifest" -> Status = "complete" /\ ~ManifestValid
       [] code = "orphan_manifest" -> disk.manifest # None /\ ~ManifestValid
       [] OTHER -> disk.observations \ Visible # {}}

\* read_committed_receipt of one observation: the batch it belongs to.
Committed(o) ==
  IF /\ o \in disk.observations /\ ManifestValid /\ o \in disk.manifest
     /\ disk.ledger = "complete"
  THEN disk.manifest ELSE {}

\* read_review_snapshot takes no lock: it listed the observations earlier.
Reviewable(listed) ==
  IF /\ listed # {} /\ Status = "complete" /\ disk.ledger = "complete"
     /\ disk.manifest # None /\ receipt.count = Cardinality(disk.manifest)
     /\ disk.manifest \subseteq listed
  THEN disk.manifest ELSE {}

-----------------------------------------------------------------------------
(* Safety                                                                  *)

Complete == Status = "complete"

Unfinished ==
  /\ receipt # None
  /\ \/ Status = "extracting" \/ disk.ledger # Status
     \/ Complete /\ disk.journal # None

\* What a usable workset does not call active needs no recovery: background
\* cycles, which look at nothing else, miss no extraction, no half-recorded
\* status and no commit that crashed before its end (mark_active_locked before,
\* retire_active_locked after the writes of every section).
UnfinishedIsActive == Usable /\ Unfinished => disk.workset.active

\* At every instant, after every crash and without the lock, every reader sees
\* the whole batch of a complete receipt or nothing: a search all of it, a
\* look-up all of it for each member, a review what it had listed in time (the
\* order of writes in commit_extraction, and recovery's never touching what a
\* complete receipt refers to).
ReadersSeeCommits ==
  LET batch == IF Complete THEN disk.manifest ELSE {}
  IN  /\ Complete => "invalid_manifest" \notin Diagnostics
      /\ Visible = batch
      /\ \A o \in Observations : Committed(o) = IF o \in batch THEN batch ELSE {}
      /\ \A listed \in Batch : Reviewable(listed) \in {{}, batch}

\* No two processes both pass _assert_lease, whatever crashed between the
\* epoch and the lease and however often leases expired or were released.
OneOwner ==
  \A v, w \in Workers :
    v # w /\ pc[v] \in Leased \cup {"parked"} /\ pc[w] \in Leased \cup {"parked"}
      => ~(HoldsLease(v) /\ HoldsLease(w))

\* Of an attempt that reserved tokens and became complete the tokens used are
\* on record, so that a crash never leaves the maximum charged for it.
SettledBeforeComplete ==
  Complete /\ receipt.attempt \in disk.reserved
    => receipt.attempt \in disk.settled

\* Nothing reopens a complete receipt or takes one of its observations away:
\* no recovery, no scan, no retry, no stale owner, only a restore -- and none
\* of those whose lease was lost in a restore.
CompleteIsFinal ==
  [][Complete /\ (\A w \in Workers : pc[w] \notin Restoring)
       => /\ Complete' /\ receipt' = receipt
          /\ disk'.manifest = disk.manifest
          /\ disk.manifest \subseteq disk'.observations]_vars

Recovering(w) == pc[w] \in {"running", "scanning"} /\ todo[w] # << >>

\* One full recovery suffices, after any crash, that of an earlier recovery
\* included: what it leaves has no half-made transition or commit and no file
\* without an owner.  (The journal of a complete receipt does stay.)
RecoveryConverges ==
  [][\A w \in Workers :
       job[w].full /\ Recovering(w) /\ (~Recovering(w))' /\ pc'[w] = pc[w]
         => (/\ disk.transition = None /\ ~Broken /\ ~Lost
             /\ OrphanObservations = {} /\ OrphanStages = {})']_vars

-----------------------------------------------------------------------------
(* Liveness                                                                *)

Quiet == <>[][Calm]_vars

\* Once processes stop dying, an extraction does not stay unfinished: its
\* runner ends it, or its lease expires and a later cycle recovers it -- or
\* the workset has become unusable and cycles wait for an audit.
ExtractionEnds ==
  Quiet => (Status = "extracting" ~> Status # "extracting" \/ ~Usable)

-----------------------------------------------------------------------------
(* What the documents say and the code does not do                         *)

\* Only what is being extracted becomes complete.  commit_extraction does not
\* ask, and a full recovery or a scan may change the status in the meantime.
OnlyExtractionsComplete ==
  [][Complete' /\ ~Complete => Status = "extracting"]_vars
=============================================================================
