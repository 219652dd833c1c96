------------------------- MODULE CaptureActivation -------------------------
(***************************************************************************)
(* What Capture may be switched on for: the diagnosis of a host            *)
(* (capture_activation.py), which weighs the status of a memory root       *)
(* against evidence collected on the host and against the digest that the  *)
(* user approved, and the projection of it that every status carries       *)
(* without looking at the host (capture_status_service.py).  The two are   *)
(* written separately in the code.                                         *)
(*                                                                         *)
(* Nothing is stored: the module consists of operators.  A digest stands   *)
(* for what it is computed from; the hash of a file, a set of roots or a   *)
(* version is a value of Hashes.                                           *)
(***************************************************************************)
EXTENDS Naturals, TLAPS

CONSTANTS
  Hashes,      \* what stands for a version of a file, a set of roots, a boundary
  Unassessed   \* not assessed, or not configured

ASSUME ActivationAssumption == Unassessed \notin Nat /\ Unassessed \notin BOOLEAN

Maybe(S) == S \cup {Unassessed}

Modes == {"off", "scanner_only", "runner"}

Capabilities == {"not_assessed", "ready", "invalid", "unavailable"}

\* load_runtime_config: what is enabled has a mode and a source.
IsLegal(s) == s.enabled = (s.mode # "off") /\ (s.enabled => s.sources > 0)

\* capture_status, and whether bind_capture_status has bound it to the root.
\* It lists the roots of an enabled configuration only.
HostStatuses ==
  {s \in [runtime : Hashes, isCurrent : BOOLEAN, config : Hashes, root : Hashes,
          isBound : BOOLEAN, sources : Nat, ids : Hashes, extractor : Hashes,
          window : Nat, backfill : Nat, incremental : Maybe(Nat),
          enabled : BOOLEAN, paused : BOOLEAN, mode : Modes, excluded : Hashes] :
     IsLegal(s)}

Evidence ==
  [v2Skills : Maybe(Nat), v1Skills : Maybe(Nat), mcpBlocks : Maybe(Nat),
   memoryRoots : Maybe(Nat), runtimeMatches : Maybe(BOOLEAN),
   configMatches : Maybe(BOOLEAN), recallGate : Maybe(BOOLEAN),
   extractor : Capabilities, hookEnabled : Maybe(BOOLEAN),
   hookTrusted : Maybe(BOOLEAN), hookLatency : Maybe(BOOLEAN),
   scheduler : Maybe(BOOLEAN), frozenCensus : Maybe(BOOLEAN)]

NotAssessed ==
  [f \in {"v2Skills", "v1Skills", "mcpBlocks", "memoryRoots", "runtimeMatches",
          "configMatches", "recallGate", "hookEnabled", "hookTrusted",
          "hookLatency", "scheduler", "frozenCensus", "extractor"} |->
     IF f = "extractor" THEN "not_assessed" ELSE Unassessed]

-----------------------------------------------------------------------------
(* The diagnosis                                                           *)

RouteConflicts(e) ==
  (CASE e.v2Skills = 0 -> {"effective_v2_skill_missing"}
     [] e.v2Skills \in {Unassessed, 1} -> {}
     [] OTHER -> {"multiple_effective_v2_skills"})
  \cup (IF e.v1Skills \in {Unassessed, 0} THEN {} ELSE {"legacy_v1_route_present"})
  \cup (CASE e.mcpBlocks = 0 -> {"mcp_block_missing"}
          [] e.mcpBlocks \in {Unassessed, 1} -> {}
          [] OTHER -> {"multiple_mcp_blocks"})
  \cup (CASE e.memoryRoots = 0 -> {"memory_root_missing"}
          [] e.memoryRoots \in {Unassessed, 1} -> {}
          [] OTHER -> {"multiple_memory_roots"})
  \cup (IF e.runtimeMatches = FALSE THEN {"runtime_hash_stale"} ELSE {})
  \cup (IF e.configMatches = FALSE THEN {"config_hash_stale"} ELSE {})

Route(e) ==
  IF RouteConflicts(e) # {} THEN "conflict"
  ELSE IF Unassessed \in {e.v2Skills, e.v1Skills, e.mcpBlocks, e.memoryRoots,
                    e.runtimeMatches, e.configMatches}
  THEN "not_assessed"
  ELSE "ready"

\* _authorization_payload: what the user's digest is computed from.
Authorization(s, e) ==
  [runtime |-> s.runtime, isCurrent |-> s.isCurrent, config |-> s.config,
   root |-> s.root, ids |-> s.ids, extractor |-> s.extractor,
   budgets |-> [window |-> s.window, backfill |-> s.backfill, incremental |-> s.incremental],
   state |-> [enabled |-> s.enabled, paused |-> s.paused, mode |-> s.mode],
   excluded |-> s.excluded, evidence |-> e]

ScannerReady(s, e) ==
  /\ Route(e) = "ready" /\ e.recallGate = TRUE
  /\ e.runtimeMatches = TRUE /\ e.configMatches = TRUE
  /\ s.isBound /\ s.sources > 0
  /\ s.enabled /\ ~s.paused /\ s.mode \in {"scanner_only", "runner"}
  /\ s.window = 7

HookReady(s, e) ==
  ScannerReady(s, e) /\ e.hookEnabled = TRUE /\ e.hookTrusted = TRUE /\ e.hookLatency = TRUE

BackfillReady(s, e) ==
  /\ ScannerReady(s, e)
  /\ e.frozenCensus = TRUE /\ e.extractor = "ready" /\ s.backfill = 100000

ContinuousReady(s, e, consent) ==
  /\ BackfillReady(s, e)
  /\ s.mode = "runner" /\ e.scheduler = TRUE /\ s.incremental # Unassessed
  /\ consent = Authorization(s, e)

IsInert(s) == s.isCurrent /\ ~s.enabled /\ s.mode = "off" /\ ~s.paused

Readiness(s, e, consent) ==
  [installed_inert |-> IsInert(s), scanner |-> ScannerReady(s, e), hook |-> HookReady(s, e),
   backfill |-> BackfillReady(s, e), continuous |-> ContinuousReady(s, e, consent)]

If(reason, P) == IF P THEN {reason} ELSE {}

StateReasons(s) ==
  If("capture_disabled", ~s.enabled) \cup If("capture_mode_off", s.mode = "off")
    \cup If("capture_paused", s.paused)
    \cup If("source_roots_unavailable", s.sources = 0)
    \cup If("memory_root_binding_not_assessed", ~s.isBound)

Reasons(s, e, consent) ==
  RouteConflicts(e) \cup StateReasons(s)
    \cup If("route_not_assessed", Route(e) = "not_assessed")
    \cup If("recall_gate_not_passed", e.recallGate # TRUE)
    \cup If("extractor_capability_not_assessed", e.extractor = "not_assessed")
    \cup If("extractor_capability_not_ready", e.extractor \in {"invalid", "unavailable"})
    \cup If("activation_digest_required",
            s.mode = "runner" /\ consent # Authorization(s, e))

-----------------------------------------------------------------------------
(* The projection in every status                                          *)

AttachedReadiness(s) ==
  [installed_inert |-> IsInert(s), scanner |-> FALSE, hook |-> FALSE,
   backfill |-> FALSE, continuous |-> FALSE]

AttachedAuthorization(s) ==
  [runtime |-> s.runtime, isCurrent |-> s.isCurrent, config |-> s.config,
   root |-> s.root, ids |-> s.ids, extractor |-> s.extractor,
   budgets |-> [window |-> s.window, backfill |-> s.backfill, incremental |-> s.incremental],
   state |-> [enabled |-> s.enabled, paused |-> s.paused, mode |-> s.mode],
   excluded |-> s.excluded, evidence |-> NotAssessed]

AttachedReasons(s) ==
  {"route_not_assessed", "recall_gate_not_passed", "extractor_capability_not_assessed"}
    \cup StateReasons(s)

\* _scanner_reasons, without the one that bind_capture_status takes out: a
\* bound status calls the scanner eligible when there is none.
ScannerReasons(s) ==
  If("capture_disabled", ~s.enabled) \cup If("capture_mode_off", s.mode = "off")
    \cup If("capture_paused", s.paused) \cup If("source_roots_unavailable", s.sources = 0)
    \cup If("capture_window_unsupported", s.window # 7)

-----------------------------------------------------------------------------
(* Properties, for all statuses and evidence                               *)

\* The user's approval is for exactly what becomes ready by it: of two hosts
\* with the same digest, and as well bound, the same is ready.  (Nothing that
\* readiness depends on is missing in the digest.)
ApprovalIsExact(s, e, t, f, consent) ==
  Authorization(s, e) = Authorization(t, f) /\ s.isBound = t.isBound
    => Readiness(s, e, consent) = Readiness(t, f, consent)

\* So nobody can approve of continuous work in advance: a digest that was
\* shown before the runner or its scheduler was enabled, or with other
\* evidence, never makes it ready.
ApprovalComesLast(s, e, t, f) ==
  ContinuousReady(t, f, Authorization(s, e)) =>
    /\ s.mode = "runner" /\ s.enabled /\ ~s.paused /\ s.incremental # Unassessed
    /\ e.scheduler = TRUE /\ e.frozenCensus = TRUE /\ e.recallGate = TRUE
    /\ Route(e) = "ready"

\* What a status says without looking at the host is what the diagnosis says
\* of evidence in which nothing is assessed ("the exact not-assessed
\* projection"), but for the reason that a runner's approval is missing.
ProjectionIsDiagnosis(s, consent) ==
  /\ AttachedAuthorization(s) = Authorization(s, NotAssessed)
  /\ AttachedReadiness(s) = Readiness(s, NotAssessed, consent)
  /\ Reasons(s, NotAssessed, consent) \ AttachedReasons(s) \subseteq {"activation_digest_required"}
  /\ AttachedReasons(s) \subseteq Reasons(s, NotAssessed, consent)

\* The scanner is ready on a host whose route and recall gate are, if and only
\* if the status calls it eligible; and who is given no reason is ready, but
\* for a window that is not of seven days, of which no reason tells.
EligibleIsReady(s, e, consent) ==
  /\ ScannerReady(s, e) <=>
       s.isBound /\ ScannerReasons(s) = {} /\ Route(e) = "ready" /\ e.recallGate = TRUE
  /\ Reasons(s, e, consent) = {} => (ScannerReady(s, e) <=> s.window = 7)

-----------------------------------------------------------------------------
(* Proofs                                                                  *)

\* The digest holds everything readiness goes by; of the sources, of which it
\* has the roots alone, a legal configuration that is enabled has one.
THEOREM ApprovalExact ==
  ASSUME NEW s \in HostStatuses, NEW e \in Evidence, NEW t \in HostStatuses, NEW f \in Evidence,
         NEW consent
  PROVE  ApprovalIsExact(s, e, t, f, consent)
<1> SUFFICES ASSUME Authorization(s, e) = Authorization(t, f), s.isBound = t.isBound
             PROVE  Readiness(s, e, consent) = Readiness(t, f, consent)
  BY DEF ApprovalIsExact
<1>1. /\ e = f /\ s.isCurrent = t.isCurrent
      /\ s.window = t.window /\ s.backfill = t.backfill /\ s.incremental = t.incremental
      /\ s.enabled = t.enabled /\ s.paused = t.paused /\ s.mode = t.mode
  BY DEF Authorization
<1>2. s.enabled => s.sources > 0 /\ t.sources > 0
  BY <1>1 DEF HostStatuses, IsLegal
<1>3. IsInert(s) = IsInert(t)
  BY <1>1 DEF IsInert
<1>4. ScannerReady(s, e) = ScannerReady(t, f)
  BY <1>1, <1>2 DEF ScannerReady
<1>5. HookReady(s, e) = HookReady(t, f) /\ BackfillReady(s, e) = BackfillReady(t, f)
  BY <1>1, <1>4 DEF HookReady, BackfillReady
<1>6. ContinuousReady(s, e, consent) = ContinuousReady(t, f, consent)
  BY <1>1, <1>5 DEF ContinuousReady
<1> QED
  BY <1>3, <1>4, <1>5, <1>6 DEF Readiness

\* The state and the evidence are part of what is approved.
THEOREM ApprovalLast ==
  ASSUME NEW s \in HostStatuses, NEW e \in Evidence, NEW t \in HostStatuses, NEW f \in Evidence
  PROVE  ApprovalComesLast(s, e, t, f)
<1> SUFFICES ASSUME ContinuousReady(t, f, Authorization(s, e))
             PROVE  /\ s.mode = "runner" /\ s.enabled /\ ~s.paused /\ s.incremental # Unassessed
                    /\ e.scheduler = TRUE /\ e.frozenCensus = TRUE /\ e.recallGate = TRUE
                    /\ Route(e) = "ready"
  BY DEF ApprovalComesLast
<1>1. Authorization(s, e) = Authorization(t, f)
  BY DEF ContinuousReady
<1>2. /\ e = f /\ s.incremental = t.incremental
      /\ s.enabled = t.enabled /\ s.paused = t.paused /\ s.mode = t.mode
  BY <1>1 DEF Authorization
<1> QED
  BY <1>2 DEF ContinuousReady, BackfillReady, ScannerReady

LEMMA NothingIsAssessed ==
  /\ RouteConflicts(NotAssessed) = {}
  /\ Route(NotAssessed) = "not_assessed"
  /\ NotAssessed.recallGate # TRUE /\ NotAssessed.extractor = "not_assessed"
<1>1. /\ NotAssessed.v2Skills = Unassessed /\ NotAssessed.v1Skills = Unassessed
      /\ NotAssessed.mcpBlocks = Unassessed /\ NotAssessed.memoryRoots = Unassessed
      /\ NotAssessed.runtimeMatches = Unassessed /\ NotAssessed.configMatches = Unassessed
      /\ NotAssessed.recallGate = Unassessed /\ NotAssessed.extractor = "not_assessed"
  BY DEF NotAssessed
<1>2. Unassessed # 0
  BY ActivationAssumption, SMT
<1>3. Unassessed # TRUE /\ Unassessed # FALSE
  BY ActivationAssumption, Zenon
<1>4. RouteConflicts(NotAssessed) = {}
  BY <1>1, <1>2, <1>3 DEF RouteConflicts
<1> QED
  BY <1>1, <1>3, <1>4 DEF Route

\* Both documents are put together from the same fields.
THEOREM ProjectionExact ==
  ASSUME NEW s \in HostStatuses, NEW consent
  PROVE  ProjectionIsDiagnosis(s, consent)
<1>1. AttachedAuthorization(s) = Authorization(s, NotAssessed)
  BY DEF AttachedAuthorization, Authorization
<1>2. ScannerReady(s, NotAssessed) = FALSE
  BY NothingIsAssessed DEF ScannerReady
<1>3. /\ HookReady(s, NotAssessed) = FALSE /\ BackfillReady(s, NotAssessed) = FALSE
      /\ ContinuousReady(s, NotAssessed, consent) = FALSE
  BY <1>2 DEF HookReady, BackfillReady, ContinuousReady
<1>4. AttachedReadiness(s) = Readiness(s, NotAssessed, consent)
  BY <1>2, <1>3 DEF AttachedReadiness, Readiness
<1>5. /\ AttachedReasons(s) \subseteq Reasons(s, NotAssessed, consent)
      /\ Reasons(s, NotAssessed, consent) \ AttachedReasons(s)
           \subseteq {"activation_digest_required"}
  BY NothingIsAssessed DEF AttachedReasons, Reasons, If
<1> QED
  BY <1>1, <1>4, <1>5 DEF ProjectionIsDiagnosis

LEMMA NoReason ==
  ASSUME NEW s \in HostStatuses
  PROVE  StateReasons(s) = {} <=>
           s.enabled /\ s.mode # "off" /\ ~s.paused /\ s.sources # 0 /\ s.isBound
  BY DEF StateReasons, If, HostStatuses

\* A legal configuration that is enabled has a mode and a source.
THEOREM EligibleReady ==
  ASSUME NEW s \in HostStatuses, NEW e \in Evidence, NEW consent
  PROVE  EligibleIsReady(s, e, consent)
<1>1. ScannerReasons(s) = {} <=>
        s.enabled /\ s.mode # "off" /\ ~s.paused /\ s.sources # 0 /\ s.window = 7
  BY DEF ScannerReasons, If, HostStatuses
<1>2. s.mode # "off" <=> s.mode \in {"scanner_only", "runner"}
  BY DEF HostStatuses, Modes
<1>3. s.sources # 0 <=> s.sources > 0
  BY DEF HostStatuses
<1>4. Route(e) = "ready" => e.runtimeMatches = TRUE /\ e.configMatches = TRUE
  BY DEF Route, RouteConflicts, Evidence, Maybe
<1>5. ScannerReady(s, e) <=>
        s.isBound /\ ScannerReasons(s) = {} /\ Route(e) = "ready" /\ e.recallGate = TRUE
  BY <1>1, <1>2, <1>3, <1>4 DEF ScannerReady
<1>6. ASSUME Reasons(s, e, consent) = {}
      PROVE  ScannerReady(s, e) <=> s.window = 7
  <2>1. /\ StateReasons(s) = {} /\ RouteConflicts(e) = {}
        /\ Route(e) # "not_assessed" /\ e.recallGate = TRUE
    BY <1>6 DEF Reasons, If
  <2>2. Route(e) = "ready"
    BY <2>1 DEF Route
  <2> QED
    BY <1>1, <1>5, <2>1, <2>2, NoReason
<1> QED
  BY <1>5, <1>6 DEF EligibleIsReady

=============================================================================
