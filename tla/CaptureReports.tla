--------------------------- MODULE CaptureReports ---------------------------
(***************************************************************************)
(* What a user is told of the Capture files, at any time beside the        *)
(* scanner, the runner and the operator of CaptureScan: capture_overview   *)
(* (capture_read_service.py) and capture_status                            *)
(* (capture_status_service.py).  Both count on one snapshot that is read   *)
(* under the lock (capture_store.py), and each in a way of its own.  The   *)
(* snapshot is not a mere reading: it packs the census catalog again when  *)
(* that is stale.                                                          *)
(*                                                                         *)
(* One source, which is configured, and no revision is forgotten here.     *)
(***************************************************************************)
EXTENDS CaptureScan

HasReceipt(d) == {r \in Revisions : d.receipt[r] # None}

OfStatus(d, statuses) == {r \in HasReceipt(d) : d.receipt[r].status \in statuses}

-----------------------------------------------------------------------------
(* The snapshot                                                            *)

\* _ensure_census_catalog_locked raises revision_metadata_conflict.
CensusIsConflicting(d) == HasConflict(d) /\ ~CatalogIsCurrent(d)

\* The census it shows: the catalog; what it is packed from if it is stale, or
\* cannot be packed.
SnapshotCensus(d) == IF CatalogIsCurrent(d) THEN d.catalog.revisions ELSE ColdTruth(d)

CensusKeys(d) == LET census == SnapshotCensus(d) IN {r \in Revisions : census[r] # 0}

BoundToLedger(d) == {r \in HasReceipt(d) : d.ledger[r] = d.receipt[r].status}

\* missing_ledger, ledger_receipt_mismatch, orphan_ledger and
\* conflicting_census_revision.
IsDegraded(d) ==
  \/ HasReceipt(d) # BoundToLedger(d)
  \/ \E r \in Revisions \ HasReceipt(d) : d.ledger[r] # None
  \/ CensusIsConflicting(d)

AccountedKeys(d) ==
  LET census == SnapshotCensus(d)
  IN  {r \in CensusKeys(d) \cap BoundToLedger(d) : Agrees(d.receipt[r], census[r])}

-----------------------------------------------------------------------------
(* The two reports                                                         *)

\* _overview counts every receipt, bound or not.
Overview(d) ==
  [silentLoss |-> Cardinality(CensusKeys(d) \ HasReceipt(d)),
   unresolved |-> Cardinality(OfStatus(d, Ready \cup {"extracting", "deferred_budget"})),
   parked |-> Cardinality(OfStatus(d, {"failed", "quarantined"})),
   covered |-> /\ ~d.quarantine /\ ~IsDegraded(d)
               /\ CensusKeys(d) # {} /\ CensusKeys(d) \subseteq HasReceipt(d)]

\* _scanner_status counts what is accounted for, _runner_status what is not
\* terminal.
Status(d) ==
  LET isAbsent == Frozen(d) = {} /\ d.dirty = {} /\ ~d.quarantine
  IN  [silentLoss |-> Cardinality(CensusKeys(d) \ AccountedKeys(d)),
       backlog |-> Cardinality(HasReceipt(d) \ OfStatus(d, {"complete", "excluded", "coalesced"})),
       assessment |-> IF IsDegraded(d) THEN "corrupt"
                      ELSE IF isAbsent THEN "absent"
                      ELSE IF d.quarantine THEN "degraded" ELSE "ready"]

\* read_snapshot, for either of them.
ReadSnapshot ==
  /\ pc["operator"] = "idle"
  /\ LastSection("operator", EnsureCatalog(disk))
  /\ UNCHANGED <<source, count>>

ReportsNext == Next \/ ReadSnapshot

ReportsSpec == Init /\ [][ReportsNext]_vars

-----------------------------------------------------------------------------
(* Properties                                                              *)

\* What the user is told is one story, and it is true.  As long as nothing is
\* reported as degraded, both reports count the same losses and the same
\* unfinished work, though one goes by the receipts and the other by ledgers
\* and frozen metadata.  And when capture_overview calls the source completely
\* covered, capture_status is ready and every revision of every frozen run has
\* a receipt made from just what was frozen, whatever died in between.
ReportsAreTrue ==
  LET overview == Overview(disk)
      status == Status(disk)
  IN  /\ ~IsDegraded(disk) =>
           /\ overview.silentLoss = status.silentLoss
           /\ status.backlog = overview.unresolved + overview.parked
      /\ overview.covered =>
           /\ status.assessment = "ready" /\ status.silentLoss = 0
           /\ \A r \in Revisions : \A v \in VersionsOf(disk, r) :
                /\ disk.receipt[r].version = v
                /\ disk.ledger[r] = disk.receipt[r].status

=============================================================================
