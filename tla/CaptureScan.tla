---------------------------- MODULE CaptureScan ----------------------------
(***************************************************************************)
(* From the sources to the view that background work is scheduled by:      *)
(* the scanner (capture_scanner.py), the frozen census and its catalog     *)
(* (capture_store.py), the workset and the scheduling view                 *)
(* (capture_maintenance.py, capture_schedule.py), the hook's markers, the  *)
(* background runner, the explicit retry and the full audit.               *)
(*                                                                         *)
(* One source, several revisions.  A revision is known by its metadata, a  *)
(* version; two versions of one revision are a conflict.  A background     *)
(* scan trusts the view instead of reading every receipt, and so do the    *)
(* freeze and the runner: the view has to be right whenever it can be      *)
(* loaded.  A critical section is one action; the process in it may die    *)
(* after any of its writes (Section).  The contents of an extraction are   *)
(* in CaptureStore, tombstones in CaptureForget.                           *)
(***************************************************************************)
EXTENDS CaptureStatus, Naturals, FiniteSets, SequencesExt

CONSTANTS
  Revisions,      \* a set
  Versions,       \* how many versions of its metadata a revision may show
  Hooked,         \* bound: the revisions that the hook reports
  Scanners,       \* processes that scan
  None,           \* no file
  MaxAttempts,    \* config runner.max_attempts
  RetryIsApart,   \* assumption: a receipt marked active is not retried
  MaxScans,       \* bound: scans that freeze a census
  MaxFaults,      \* bound: processes that die
  MaxCalls,       \* bound: calls of the operator, a retry or a full audit
  MaxEvents       \* bound: these three together

ASSUME ScanAssumption ==
  /\ IsFiniteSet(Revisions) /\ Hooked \subseteq Revisions
  /\ Versions \in [Revisions -> Nat \ {0}]
  /\ RetryIsApart \in BOOLEAN
  /\ MaxAttempts \in Nat \ {0}
  /\ MaxScans \in Nat /\ MaxFaults \in Nat /\ MaxCalls \in Nat /\ MaxEvents \in Nat

VARIABLES
  disk,    \* the files, a record
  source,  \* the version each revision shows in the source; 0: not yet there
  pc,      \* where each process is
  job,     \* what it remembers
  faults,  \* how many processes have died
  count    \* history, for the other bounds

vars == <<disk, source, pc, job, faults, count>>

Processes == Scanners \cup {"runner", "operator"}

Nothing == [r \in Revisions |-> 0]
Runs == 1 .. MaxScans

Sources == {now \in [Revisions -> UNION {0 .. Versions[r] : r \in Revisions}] :
              \A r \in Revisions : now[r] <= Versions[r]}

Receipts == [status : Statuses, version : Nat, bound : BOOLEAN, attempt : Nat]

NoJob == [full |-> FALSE, seen |-> Nothing, markers |-> {},
          durable |-> Nothing, run |-> 0, failed |-> FALSE, trusted |-> {},
          revision |-> None, version |-> 0, receipt |-> None]

TypeOK ==
  /\ disk.runs \in [Runs -> [Revisions -> Nat] \cup {None}]
  /\ disk.receipt \in [Revisions -> Receipts \cup {None}]
  /\ disk.ledger \in [Revisions -> Statuses \cup {None}]
  /\ disk.dirty \subseteq Revisions /\ disk.quarantine \in BOOLEAN
  /\ disk.workset # None => disk.workset.active \subseteq Revisions
  /\ disk.view # None => disk.view.pending \subseteq Runs
  /\ source \in [Revisions -> Nat]
  /\ pc \in [Processes -> {"idle", "recovered", "viewed", "marked", "frozen", "durable",
                           "compared", "registered", "finished", "selected",
                           "validated", "begun"}]
  /\ faults \in 0 .. MaxFaults

\* A new root that was audited.
Init ==
  LET workset == [base |-> 0, generation |-> 0, active |-> {}, healthy |-> TRUE]
      view == [bound |-> workset, catalog |-> None, runs |-> {}, revisions |-> Nothing,
               receipts |-> [r \in Revisions |-> None], pending |-> {}]
      none == [r \in Revisions |-> None]
  IN  /\ disk = [runs |-> [i \in Runs |-> None], catalog |-> None,
                 receipt |-> none, ledger |-> none, transition |-> none,
                 workset |-> workset, worksetSeal |-> workset,
                 view |-> view, viewSeal |-> view,
                 quarantine |-> FALSE, dirty |-> {}]
      /\ source = Nothing
      /\ pc = [p \in Processes |-> "idle"]
      /\ job = [p \in Processes |-> NoJob]
      /\ faults = 0
      /\ count = [scans |-> 0, calls |-> 0]

-----------------------------------------------------------------------------
(* Lists of writes.  Each operator reads a state d of the files and yields *)
(* the writes that the code then makes, in order.                          *)

After(d, writes) ==
  FoldLeft(LAMBDA e, w : [e EXCEPT ![w.file] = w.value], d, writes)

\* A file that is replaced by what it holds, or removed when absent, is no step.
Write(d, file, value) ==
  IF d[file] = value THEN << >> ELSE <<[file |-> file, value |-> value]>>

Then(d, writes, Next(_)) == writes \o Next(After(d, writes))

\* Step(e, r) for each r of a set, one after the other.
ForEach(d, set, Step(_, _)) ==
  FoldLeft(LAMBDA writes, r : writes \o Step(After(d, writes), r), << >>, SetToSeq(set))

Publish(d, file, seal, value) ==
  <<[file |-> file, value |-> value], [file |-> seal, value |-> value]>>

-----------------------------------------------------------------------------
(* The census: runs are frozen for good, the catalog packs them            *)

Frozen(d) == {i \in Runs : d.runs[i] # None}

VersionsOf(d, r) == {d.runs[i][r] : i \in Frozen(d)} \ {0}

HasConflict(d) == \E r \in Revisions : Cardinality(VersionsOf(d, r)) > 1

\* _read_cold_census_truth; of several versions the one of the first run.
ColdTruth(d) ==
  [r \in Revisions |->
     LET holding == {i \in Frozen(d) : d.runs[i][r] # 0}
     IN  IF holding = {} THEN 0
         ELSE d.runs[CHOOSE i \in holding : \A j \in holding : i <= j][r]]

\* Mutant: a catalog that lists every key is current.
CatalogHasKeys(d) ==
  /\ d.catalog # None
  /\ \A r \in Revisions : d.catalog.revisions[r] = 0 <=> VersionsOf(d, r) = {}

\* _read_census_catalog finds nothing stale: it compares the runs and the keys.
CatalogIsCurrent(d) ==
  /\ d.catalog # None
  /\ d.catalog.runs = Frozen(d)
  /\ \A r \in Revisions : d.catalog.revisions[r] = 0 <=> VersionsOf(d, r) = {}

\* _rebuild_census_catalog_locked; it raises on a conflict.
RebuildCatalog(d) ==
  IF HasConflict(d) THEN << >>
  ELSE Write(d, "catalog", [runs |-> Frozen(d), revisions |-> ColdTruth(d)])

\* _ensure_census_catalog_locked.
EnsureCatalog(d) ==
  IF Frozen(d) = {} \/ CatalogIsCurrent(d) THEN << >> ELSE RebuildCatalog(d)

-----------------------------------------------------------------------------
(* The workset and the view                                                *)

\* load_workset_locked.
Usable(d) == d.workset # None /\ d.worksetSeal = d.workset

ActiveIn(d) == IF Usable(d) THEN d.workset.active ELSE {}

\* load_locked of the schedule.
IsLoaded(d, workset, allowPending, allowMismatch) ==
  /\ d.view # None /\ d.viewSeal = d.view
  /\ d.view.bound = workset
  /\ \/ d.view.catalog = d.catalog
     \/ allowMismatch /\ d.view.pending # {}
     \/ d.catalog = [runs |-> d.view.runs, revisions |-> d.view.revisions]
  /\ allowPending \/ d.view.pending = {}

\* read_background_scheduling_view returns a view.
ViewIsReadable(d) ==
  Usable(d) /\ d.workset.healthy /\ IsLoaded(d, d.workset, FALSE, FALSE)

PublishView(d, value) == Publish(d, "view", "viewSeal", value)
PublishWorkset(d, value) == Publish(d, "workset", "worksetSeal", value)

InvalidateView(d) == Write(d, "viewSeal", None) \o Write(d, "view", None)

\* invalidate_locked.
Invalidate(d) ==
  InvalidateView(d) \o Write(d, "worksetSeal", None) \o Write(d, "workset", None)

\* mark_active_locked: the workset first, then the view is bound to it.
MarkActive(d, r) ==
  IF ~Usable(d) \/ r \in ActiveIn(d) THEN << >>
  ELSE LET next == [d.workset EXCEPT !.active = @ \cup {r}, !.generation = @ + 1]
       IN  PublishWorkset(d, next)
             \o (IF IsLoaded(d, d.workset, TRUE, FALSE)
                 THEN PublishView(d, [d.view EXCEPT !.bound = next]) ELSE << >>)

\* prepare_retire_locked.
PrepareRetire(d, r, next) ==
  IF ~IsLoaded(d, d.workset, TRUE, FALSE) THEN << >>
  ELSE IF d.receipt[r] # None /\ d.ledger[r] # d.receipt[r].status THEN InvalidateView(d)
  ELSE PublishView(d, [d.view EXCEPT !.bound = next, !.receipts[r] = d.receipt[r]])

\* retire_active_locked: the view for the next workset first, then the workset.
RetireActive(d, r) ==
  IF r \notin ActiveIn(d) THEN << >>
  ELSE LET next == [d.workset EXCEPT !.active = @ \ {r}, !.generation = @ + 1]
       IN  PrepareRetire(d, r, next) \o PublishWorkset(d, next)

\* premark_census_locked, publish_census_locked and complete_census_locked.
Premark(d, i) ==
  IF ~IsLoaded(d, d.workset, TRUE, FALSE) THEN << >>
  ELSE PublishView(d, [d.view EXCEPT !.pending = @ \cup {i}])

PublishCensus(d, i) ==
  IF ~IsLoaded(d, d.workset, TRUE, TRUE) THEN << >>
  ELSE IF \E r \in Revisions : d.runs[i][r] # 0
                               /\ d.view.revisions[r] \notin {0, d.runs[i][r]}
  THEN InvalidateView(d)
  ELSE PublishView(d,
         [d.view EXCEPT !.runs = @ \cup {i},
                        !.revisions = [r \in Revisions |->
                           IF d.runs[i][r] # 0 THEN d.runs[i][r] ELSE @[r]],
                        !.catalog = d.catalog])

CompleteCensus(d, i) ==
  IF ~Usable(d) THEN << >>
  ELSE IF ~IsLoaded(d, d.workset, TRUE, FALSE) THEN << >>
  ELSE IF i \notin d.view.pending THEN << >>
  ELSE PublishView(d, [d.view EXCEPT !.pending = @ \ {i}])

-----------------------------------------------------------------------------
(* Receipts                                                                *)

SetReceipt(d, r, receipt) == Write(d, "receipt", [d.receipt EXCEPT ![r] = receipt])
SetLedger(d, r, status) == Write(d, "ledger", [d.ledger EXCEPT ![r] = status])
SetTransition(d, r, value) == Write(d, "transition", [d.transition EXCEPT ![r] = value])

\* _write_receipt and _write_ledger; both mark the receipt first.
WriteReceipt(d, r, receipt) ==
  Then(d, MarkActive(d, r), LAMBDA e : SetReceipt(e, r, receipt))

WriteLedger(d, r, status) ==
  Then(d, MarkActive(d, r), LAMBDA e : SetLedger(e, r, status))

Change(d, r, receipt) ==
  Then(d, WriteReceipt(d, r, receipt), LAMBDA e : WriteLedger(e, r, receipt.status))

Settle(d, r, receipt) ==
  Then(d, Change(d, r, receipt), LAMBDA e : RetireActive(e, r))

\* transition: its journal is there from before the receipt until after the ledger.
Transition(d, r, receipt) ==
  LET journal == [from |-> d.receipt[r].status, to |-> receipt.status]
  IN  Then(d, MarkActive(d, r), LAMBDA e :
        Then(e, SetTransition(e, r, journal), LAMBDA f :
          Then(f, Change(f, r, receipt), LAMBDA g :
            Then(g, SetTransition(g, r, None), LAMBDA h : RetireActive(h, r)))))

\* validate_receipt_revision_truth.
Agrees(receipt, version) == receipt.version = version

New(status, version) ==
  [status |-> status, version |-> version, bound |-> FALSE, attempt |-> 0]

-----------------------------------------------------------------------------
(* Recovery                                                                *)

\* _recover_transition_journal.
RecoverTransition(d, r) ==
  IF d.transition[r] = None THEN << >>
  ELSE (IF d.receipt[r].status = d.transition[r].to
        THEN WriteLedger(d, r, d.receipt[r].status)
        ELSE IF d.receipt[r].status # d.transition[r].from THEN Invalidate(d)
        ELSE << >>)
       \o SetTransition(d, r, None)

Retryable(receipt) == [receipt EXCEPT !.status = "retryable"]

\* One receipt of recover_active_transactions.
RecoverOne(d, r) ==
  Then(d, RecoverTransition(d, r), LAMBDA e :
    IF e.receipt[r] = None THEN RetireActive(e, r)
    ELSE IF e.receipt[r].status = "extracting" THEN Settle(e, r, Retryable(e.receipt[r]))
    ELSE Settle(e, r, e.receipt[r]))

\* A lease of a process that died has expired.
Leased == {job[p].revision : p \in {q \in Processes : pc[q] \in {"selected", "validated", "begun"}}}

RecoverActive(d) == ForEach(d, ActiveIn(d) \ Leased, RecoverOne)

RecoversToHealthy(d) == Usable(d) /\ d.workset.healthy

\* recover_transactions asks for no lease; a recovery ends the baseline.
RecoverAll(d) ==
  LET broken(e) == {r \in Revisions : e.receipt[r] # None /\ e.receipt[r].status = "extracting"}
      journals == {r \in Revisions : d.transition[r] # None}
      Fix(e, r) == Change(e, r, Retryable(e.receipt[r]))
  IN  IF journals \cup broken(d) = {} THEN << >>
      ELSE Then(d, ForEach(d, journals, RecoverTransition), LAMBDA e :
             Then(e, ForEach(e, broken(e), Fix), Invalidate))

-----------------------------------------------------------------------------
(* Processes and the write lock                                            *)

EventsAreLeft == count.scans + faults + count.calls < MaxEvents

Goto(p, label) == pc' = [pc EXCEPT ![p] = label]

Remember(p, value) == job' = [job EXCEPT ![p] = value]

Dies(p) ==
  /\ faults < MaxFaults /\ EventsAreLeft
  /\ faults' = faults + 1
  /\ Goto(p, "idle") /\ Remember(p, NoJob)

\* A critical section of p: all its writes, and p goes on from label with what
\* it remembers then, or p dies when it has made some of them.
Section(p, writes, label, value) ==
  /\ \/ /\ disk' = After(disk, writes)
        /\ Goto(p, label) /\ Remember(p, value)
        /\ UNCHANGED faults
     \/ /\ Dies(p)
        /\ \E n \in 1 .. Len(writes) - 1 : disk' = After(disk, SubSeq(writes, 1, n))

\* Its call is over.
LastSection(p, writes) == Section(p, writes, "idle", NoJob)

\* A process dies between two of its critical sections.
Crash(p) ==
  /\ pc[p] # "idle"
  /\ Dies(p)
  /\ UNCHANGED <<disk, source, count>>

-----------------------------------------------------------------------------
(* The scanner                                                             *)

\* A scan sees the source as it is when it starts: revisions were completed,
\* and their metadata changed, since anybody looked.
StartScan(p, full) ==
  /\ pc[p] = "idle"
  /\ count.scans < MaxScans
  /\ \E now \in Sources :
       LET j == [NoJob EXCEPT !.full = full, !.seen = now]
       IN  /\ \A r \in Revisions : source[r] <= now[r]
           /\ source' = now
           /\ IF full THEN Section(p, RecoverAll(disk), "viewed", j)
              ELSE IF RecoversToHealthy(disk)
              THEN Section(p, RecoverActive(disk), "recovered", j)
              ELSE LastSection(p, RecoverActive(disk))
  /\ UNCHANGED count

\* read_background_scheduling_view, or capture_bootstrap_required.
ReadView(p) ==
  /\ pc[p] = "recovered" /\ p \in Scanners
  /\ IF ViewIsReadable(disk)
     THEN Section(p, << >>, "viewed", [job[p] EXCEPT
            !.durable = disk.view.revisions,
            !.trusted = {r \in Revisions : disk.view.receipts[r] # None}])
     ELSE LastSection(p, << >>)
  /\ UNCHANGED <<source, count>>

\* Markers are read once and without the lock.
ReadMarkers(p) ==
  /\ pc[p] = "viewed"
  /\ Section(p, << >>, "marked", [job[p] EXCEPT !.markers = disk.dirty])
  /\ UNCHANGED <<source, count>>

\* Mutant: the pending mark is set with the catalog, after the run.
FreezeMarkedLate(d, i, found) ==
  LET install == Write(d, "runs", [d.runs EXCEPT ![i] = found])
  IN  Then(d, install, LAMBDA e :
        Then(e, RebuildCatalog(e), LAMBDA f :
          IF Usable(f) THEN PublishCensus(f, i) ELSE << >>))

\* freeze_census: mark the run pending in the view, install it, pack the
\* catalog from the view or from the catalog before it -- or from the runs
\* themselves if that is stale -- and put the run into the view.
FreezeCensus(d, i, found) ==
  LET scheduled == ViewIsReadable(d)
      prior == IF scheduled THEN [runs |-> d.view.runs, revisions |-> d.view.revisions]
               ELSE IF CatalogIsCurrent(d) THEN d.catalog
               ELSE None
      install == [d.runs EXCEPT ![i] = found]
      merged == [r \in Revisions |-> IF prior.revisions[r] # 0 THEN prior.revisions[r]
                                     ELSE found[r]]
      Pack(e) ==
        IF prior = None THEN Then(e, Write(e, "catalog", None), RebuildCatalog)
        ELSE IF \E r \in Revisions : found[r] \notin {0, merged[r]}
        THEN Write(e, "catalog", None)
        ELSE Write(e, "catalog", [runs |-> prior.runs \cup {i}, revisions |-> merged])
  IN  Then(d, IF scheduled THEN Premark(d, i) ELSE << >>, LAMBDA e :
        Then(e, Write(e, "runs", install), LAMBDA f :
          Then(f, Pack(f), LAMBDA g :
            IF scheduled THEN PublishCensus(g, i) ELSE << >>)))

\* The source may fail to show a revision, and says so in a diagnostic.
Freeze(p, missed) ==
  LET found == [r \in Revisions |-> IF r \in missed THEN 0 ELSE job[p].seen[r]]
      i == count.scans + 1
  IN  /\ pc[p] = "marked"
      /\ count.scans < MaxScans /\ EventsAreLeft
      /\ \A r \in missed : job[p].seen[r] # 0
      /\ Section(p, FreezeCensus(disk, i, found)
                      \o (IF missed = {} THEN << >> ELSE Write(disk, "quarantine", TRUE)),
                 "frozen",
                 [job[p] EXCEPT !.seen = found, !.run = i, !.failed = missed # {}])
      /\ count' = [count EXCEPT !.scans = i]
      /\ UNCHANGED source

\* A background scan goes on with the view it read, a full one with the
\* catalog or, if there is a conflict, with the runs.
ReadDurable(p) ==
  LET ensure == EnsureCatalog(disk)
      durable == IF HasConflict(disk) THEN ColdTruth(disk)
                 ELSE After(disk, ensure).catalog.revisions
  IN  /\ pc[p] = "frozen"
      /\ IF job[p].full
         THEN Section(p, ensure, "durable", [job[p] EXCEPT !.durable = durable])
         ELSE Section(p, << >>, "durable", job[p])
      /\ UNCHANGED <<source, count>>

Known(j) == {r \in Revisions : j.durable[r] # 0 \/ j.seen[r] # 0}

\* A full scan reads every version that was frozen, a background scan one.
Conflicts(j) ==
  {r \in Known(j) :
     \/ j.durable[r] # 0 /\ j.seen[r] \notin {0, j.durable[r]}
     \/ j.full /\ Cardinality(VersionsOf(disk, r)) > 1}

Unresolved(j) == j.markers \ Known(j)

\* What a scan goes by for r: what was just seen, unless the scan has failed
\* closed and r was not frozen before.
Truth(j, r) ==
  IF j.seen[r] # 0 /\ (~j.failed \/ j.seen[r] = j.durable[r]) THEN j.seen[r] ELSE j.durable[r]

\* register_quarantined_revision; a receipt of another version stays as it is.
QuarantineRevision(d, r, version) ==
  IF d.receipt[r] = None THEN Settle(d, r, New("quarantined", version))
  ELSE IF \/ ~Agrees(d.receipt[r], version)
          \/ ~ValidCaptureTransition(d.receipt[r].status, "quarantined")
  THEN << >>
  ELSE Settle(d, r, [d.receipt[r] EXCEPT !.status = "quarantined"])

\* Conflicts and markers of unknown revisions degrade the source, and the
\* scan fails closed.
Compare(p) ==
  LET j == job[p]
      conflicts == Conflicts(j)
      Quarantine(d, r) ==
        QuarantineRevision(d, r, IF j.seen[r] # 0 THEN j.seen[r] ELSE j.durable[r])
  IN  /\ pc[p] = "durable"
      /\ Section(p, ForEach(disk, conflicts, Quarantine)
                      \o (IF conflicts \cup Unresolved(j) = {} THEN << >>
                          ELSE Write(disk, "quarantine", TRUE)),
                 "compared",
                 [j EXCEPT !.failed = @ \/ conflicts \cup Unresolved(j) # {}])
      /\ UNCHANGED <<source, count>>

\* _register_receipt; a receipt that carries the hashes of an extraction is
\* left alone.
RegisterReceipt(d, r, version) ==
  IF d.receipt[r] = None THEN Settle(d, r, New("discovered", version))
  ELSE IF d.receipt[r].bound \/ d.ledger[r] = d.receipt[r].status THEN << >>
  ELSE Then(d, WriteLedger(d, r, d.receipt[r].status), LAMBDA e : RetireActive(e, r))

\* The batch skips what the view accounts for.
Register(p) ==
  LET j == job[p]
      eligible == {r \in Known(j) \ Conflicts(j) : Truth(j, r) # 0 /\ r \notin j.trusted}
      contradicted == {r \in eligible : disk.receipt[r] # None
                                          /\ ~Agrees(disk.receipt[r], Truth(j, r))}
      RegisterOne(d, r) == RegisterReceipt(d, r, Truth(j, r))
  IN  /\ pc[p] = "compared"
      /\ Section(p, ForEach(disk, eligible \ contradicted, RegisterOne)
                      \o (IF contradicted = {} THEN << >> ELSE Write(disk, "quarantine", TRUE)),
                 "registered",
                 [j EXCEPT !.failed = @ \/ contradicted # {},
                           !.trusted = IF j.full THEN {}
                                       ELSE @ \cup (eligible \ contradicted)])
      /\ UNCHANGED <<source, count>>

\* is_revision_accounted, or trusted by a background scan.
IsAccounted(j, r) ==
  IF ~j.full THEN r \in j.trusted
  ELSE /\ disk.receipt[r] # None
       /\ disk.ledger[r] = disk.receipt[r].status
       /\ Agrees(disk.receipt[r], Truth(j, r))

Accounted(j) == {r \in Known(j) : Truth(j, r) # 0 /\ IsAccounted(j, r)}

\* A full scan reads receipts and ledgers without the lock; between two writes
\* of another process they disagree, and a revision is not accounted for.
MayFindAccounted(j) == IF j.full THEN SUBSET Accounted(j) ELSE {Accounted(j)}

\* complete_background_census; the hints that are advanced with it are a cache.
Finish(p) ==
  LET j == job[p]
      needed == {r \in Known(j) : Truth(j, r) # 0}
  IN  /\ pc[p] = "registered"
      /\ \E found \in MayFindAccounted(j) :
           Section(p, IF ~j.failed /\ found = needed THEN CompleteCensus(disk, j.run) ELSE << >>,
                   "finished", j)
      /\ UNCHANGED <<source, count>>

\* Mutant: a marker is acknowledged when its revision is known.
AcknowledgedKnown(j, found) == j.markers \cap Known(j)

Acknowledged(j, found) == j.markers \cap found

Acknowledge(p) ==
  /\ pc[p] = "finished"
  /\ \E found \in MayFindAccounted(job[p]) :
       LastSection(p, Write(disk, "dirty", disk.dirty \ Acknowledged(job[p], found)))
  /\ UNCHANGED <<source, count>>

-----------------------------------------------------------------------------
(* The background runner, the explicit retry and the full audit            *)

StartRun ==
  /\ pc["runner"] = "idle"
  /\ IF RecoversToHealthy(disk)
     THEN Section("runner", RecoverActive(disk), "recovered", NoJob)
     ELSE LastSection("runner", RecoverActive(disk))
  /\ UNCHANGED <<source, count>>

\* What is ready in the latest run of the view.
Selectable(view, active) ==
  {r \in Revisions \ active :
     /\ view.runs # {}
     /\ \E i \in view.runs : (\A k \in view.runs : k <= i) /\ disk.runs[i][r] # 0
     /\ view.receipts[r] # None /\ view.receipts[r].status \in Ready}

\* The receipt to work on is leased.
Select ==
  /\ pc["runner"] = "recovered"
  /\ IF ~ViewIsReadable(disk) \/ Selectable(disk.view, disk.workset.active) = {}
     THEN LastSection("runner", << >>)
     ELSE \E r \in Selectable(disk.view, disk.workset.active) :
            Section("runner", << >>, "selected", [NoJob EXCEPT
              !.revision = r, !.version = disk.view.revisions[r],
              !.receipt = disk.view.receipts[r],
              !.run = CHOOSE i \in disk.view.runs : \A k \in disk.view.runs : k <= i])
  /\ UNCHANGED <<source, count>>

\* validate_background_selected.
Validate ==
  LET j == job["runner"]
      r == j.revision
  IN  /\ pc["runner"] = "selected"
      /\ IF /\ ~disk.quarantine
            /\ disk.runs[j.run][r] = j.version
            /\ disk.receipt[r] = j.receipt
            /\ disk.ledger[r] = disk.receipt[r].status
         THEN Section("runner", << >>, "validated", [NoJob EXCEPT !.revision = r])
         ELSE LastSection("runner", << >>)
      /\ UNCHANGED <<source, count>>

\* begin_extraction, unless the receipt is no longer ready.
Begin ==
  LET r == job["runner"].revision
      extracting == [disk.receipt[r] EXCEPT !.status = "extracting", !.bound = TRUE,
                                            !.attempt = @ + 1]
  IN  /\ pc["runner"] = "validated"
      /\ IF disk.receipt[r].status \in Ready
         THEN Section("runner", Change(disk, r, extracting), "begun", job["runner"])
         ELSE LastSection("runner", << >>)
      /\ UNCHANGED <<source, count>>

\* commit_extraction: the ledger before the receipt.
Commit ==
  LET r == job["runner"].revision
      complete == [disk.receipt[r] EXCEPT !.status = "complete"]
  IN  /\ pc["runner"] = "begun"
      /\ LastSection("runner",
           Then(disk, WriteLedger(disk, r, "complete"), LAMBDA e :
             Then(e, WriteReceipt(e, r, complete), LAMBDA f : RetireActive(f, r))))
      /\ UNCHANGED <<source, count>>

\* transition_with_settlement, unless the receipt is no longer extracting.
Fail ==
  LET r == job["runner"].revision
      target == IF disk.receipt[r].attempt >= MaxAttempts THEN "failed" ELSE "retryable"
  IN  /\ pc["runner"] = "begun"
      /\ LastSection("runner",
           IF disk.receipt[r].status = "extracting"
           THEN Transition(disk, r, [disk.receipt[r] EXCEPT !.status = target])
           ELSE << >>)
      /\ UNCHANGED <<source, count>>

\* retry_capture_receipt recovers nothing first.
Retry(r) ==
  /\ pc["operator"] = "idle"
  /\ count.calls < MaxCalls /\ EventsAreLeft
  /\ disk.receipt[r] # None /\ disk.receipt[r].status \in {"failed", "quarantined"}
  /\ r \notin Leased
  /\ RetryIsApart => r \notin ActiveIn(disk)
  /\ LastSection("operator", Transition(disk, r, [disk.receipt[r] EXCEPT
                        !.status = "queued", !.bound = FALSE]))
  /\ count' = [count EXCEPT !.calls = @ + 1]
  /\ UNCHANGED source

\* bootstrap_locked.
Bootstrap(d, workset) ==
  PublishView(d, [bound |-> workset, catalog |-> d.catalog, runs |-> Frozen(d),
                  revisions |-> IF d.catalog = None THEN Nothing ELSE d.catalog.revisions,
                  receipts |-> d.receipt, pending |-> {}])

\* run_full_audit; a conflict in the census fails it.
Audit ==
  LET active == {r \in Revisions : disk.receipt[r] # None /\
                   (\/ disk.receipt[r].status = "extracting"
                    \/ disk.ledger[r] # disk.receipt[r].status
                    \/ disk.transition[r] # None)}
      workset == [base |-> count.calls + 1, generation |-> 0, active |-> active,
                  healthy |-> active = {}]
  IN  /\ count.calls < MaxCalls /\ EventsAreLeft
      /\ count' = [count EXCEPT !.calls = @ + 1]
      /\ UNCHANGED source
      /\ LastSection("operator",
           Then(disk, Invalidate(disk), LAMBDA d :
             Then(d, EnsureCatalog(d), LAMBDA e :
               IF HasConflict(e) THEN << >>
               ELSE PublishWorkset(e, workset)
                      \o (IF active = {} THEN Bootstrap(e, workset) ELSE << >>))))

-----------------------------------------------------------------------------
(* The hook                                                                *)

\* The hook of a completed turn writes one marker.
Mark(r) ==
  /\ disk' = [disk EXCEPT !.dirty = @ \cup {r}]
  /\ source' = [source EXCEPT ![r] = IF @ = 0 THEN 1 ELSE @]
  /\ UNCHANGED <<pc, job, faults, count>>

-----------------------------------------------------------------------------
Scanning(p) ==
  \/ \E full \in BOOLEAN : StartScan(p, full)
  \/ ReadView(p) \/ ReadMarkers(p) \/ ReadDurable(p) \/ Compare(p)
  \/ \E missed \in SUBSET Revisions : Freeze(p, missed)
  \/ Register(p) \/ Finish(p) \/ Acknowledge(p)

Running == StartRun \/ Select \/ Validate \/ Begin \/ Commit \/ Fail

Operating == Audit \/ \E r \in Revisions : Retry(r)

Next ==
  \/ \E p \in Scanners : Scanning(p)
  \/ Running \/ Operating
  \/ \E p \in Processes : Crash(p)
  \/ \E r \in Hooked : Mark(r)

Spec == Init /\ [][Next]_vars

-----------------------------------------------------------------------------
(* Properties                                                              *)

Ends(p) == pc[p] = "finished" /\ pc'[p] = "idle" /\ UNCHANGED faults

\* Whenever the write lock is free and the scheduling view can be loaded, it
\* is what a full audit would find: the runs and the revisions of the frozen
\* census, and for every receipt that is not marked active exactly the receipt
\* on disk, with a ledger that agrees.  So no cut between the publications of
\* workset, view, run and catalog is ever taken for a finished one.
ViewIsTruth ==
  ViewIsReadable(disk) =>
    /\ ~HasConflict(disk)
    /\ disk.view.runs = Frozen(disk)
    /\ disk.view.revisions = ColdTruth(disk)
    /\ \A r \in Revisions \ disk.workset.active :
         /\ disk.view.receipts[r] = disk.receipt[r]
         /\ disk.receipt[r] # None => disk.ledger[r] = disk.receipt[r].status

\* A marker goes only when its revision is frozen in a census and has a
\* receipt, whatever the scan that removes it has trusted; and a scan that
\* ends without having failed closed leaves no revision it saw without both.
ScanLosesNothing ==
  [][\A p \in Scanners : Ends(p) =>
       \A r \in Revisions :
         r \in disk.dirty \ disk'.dirty \/ (~job[p].failed /\ job[p].seen[r] # 0) =>
            disk.receipt[r] # None /\ VersionsOf(disk, r) # {}]_vars

=============================================================================
