--------------------------- MODULE MCCaptureScan ---------------------------
(***************************************************************************)
(* CaptureScan and its reports for TLC: two revisions, the first of which   *)
(* may change.  What a status tells of activation is checked beside them,   *)
(* for hosts that are ready for all, but for one thing or two.              *)
(***************************************************************************)
EXTENDS CaptureReports, CaptureActivation

CONSTANTS r1, r2, s1

OneChanges == [r \in Revisions |-> IF r = r1 THEN 2 ELSE 1]

\* A host on which continuous work needs nothing but the approval.
ReadyStatus ==
  [runtime |-> r1, isCurrent |-> TRUE, config |-> r1, root |-> r1, isBound |-> TRUE,
   sources |-> 1, ids |-> r1, extractor |-> r1, window |-> 7, backfill |-> 100000,
   incremental |-> 1, enabled |-> TRUE, paused |-> FALSE, mode |-> "runner",
   excluded |-> r1]

ReadyEvidence ==
  [NotAssessed EXCEPT
     !.v2Skills = 1, !.v1Skills = 0, !.mcpBlocks = 1, !.memoryRoots = 1,
     !.runtimeMatches = TRUE, !.configMatches = TRUE, !.recallGate = TRUE,
     !.extractor = "ready", !.hookEnabled = TRUE, !.hookTrusted = TRUE,
     !.hookLatency = TRUE, !.scheduler = TRUE, !.frozenCensus = TRUE]

NearStatuses ==
  {s \in {ReadyStatus, [ReadyStatus EXCEPT !.config = r2], [ReadyStatus EXCEPT !.isBound = FALSE],
          [ReadyStatus EXCEPT !.isCurrent = FALSE], [ReadyStatus EXCEPT !.sources = 2],
          [ReadyStatus EXCEPT !.window = 8], [ReadyStatus EXCEPT !.backfill = 1],
          [ReadyStatus EXCEPT !.incremental = Unassessed], [ReadyStatus EXCEPT !.paused = TRUE],
          [ReadyStatus EXCEPT !.mode = "scanner_only"]}
        \cup {[ReadyStatus EXCEPT !.enabled = FALSE, !.mode = "off", !.sources = n] : n \in 0 .. 1} :
     IsLegal(s)}

NearEvidence ==
  {ReadyEvidence, NotAssessed}
    \cup {[ReadyEvidence EXCEPT ![f] = v] :
            f \in {"v2Skills", "v1Skills", "mcpBlocks", "memoryRoots"},
            v \in {Unassessed, 0, 1, 2}}
    \cup {[ReadyEvidence EXCEPT ![f] = v] :
            f \in {"runtimeMatches", "configMatches", "recallGate", "hookEnabled",
                   "hookTrusted", "hookLatency", "scheduler", "frozenCensus"},
            v \in {Unassessed, FALSE}}
    \cup {[ReadyEvidence EXCEPT !.extractor = v] : v \in Capabilities}

\* The theorems of CaptureActivation, on instances that satisfy them one
\* by one and not for want of a host that is ready.
ASSUME ActivationIsSound ==
  /\ ContinuousReady(ReadyStatus, ReadyEvidence, Authorization(ReadyStatus, ReadyEvidence))
  /\ \A s, t \in NearStatuses : \A e, f \in NearEvidence :
        /\ ApprovalIsExact(s, e, t, f, Authorization(s, e))
        /\ ApprovalComesLast(s, e, t, f)
  /\ \A s \in NearStatuses : \A e \in NearEvidence :
        \A consent \in {Authorization(s, e), Unassessed} :
          ProjectionIsDiagnosis(s, consent) /\ EligibleIsReady(s, e, consent)

=============================================================================
