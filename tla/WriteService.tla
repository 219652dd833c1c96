---------------------------- MODULE WriteService ----------------------------
(***************************************************************************)
(* The write calls of agc_runtime/write_service.py.  One call takes the    *)
(* root lock for the memory, the Capture lock for the reviews of the       *)
(* observations it draws on and the root lock again for the catalog, so    *)
(* calls of several processes interleave between the three, and any of     *)
(* them may die or fail there.  The caller may send a request again.       *)
(*                                                                         *)
(* A memory is its status, whether its impact is high, and how often it    *)
(* was written.  Each lock section is one step; MemoryStore follows the    *)
(* first of them write by write.  Left out: the forgets, which HardForget  *)
(* models, malformed requests, and observe_batch, which makes one call     *)
(* after the other.  The evidence a caller states itself is taken to be    *)
(* none.                                                                   *)
(***************************************************************************)
EXTENDS Policy, FiniteSetsExt

CONSTANTS
  Procs, Ids, Sources, Candidates,
  Observations,  \* Capture observations that can be reviewed
  Requests,      \* what callers may ask: records of Request
  Session, Day,  \* of each source
  Absent,
  MaxFaults      \* bound: deaths and failed writes

Impacts == {"low", "high"}

Request == [
  action : {"observe", "propose", "confirm", "update", "supersede", "archive",
            "reject", "capture_review"},
  id : Ids, source : Sources, candidate : Candidates,
  observations : SUBSET Observations,
  disposition : Dispositions, mode : Modes, modality : Modalities,
  confidence : Confidences, sensitivity : Sensitivities,
  impact : Impacts,
  outcome : {"draft", "needs_context", "discard"}]

Review == [outcome : {"draft", "needs_context", "discard"},
           target : Ids \cup {Absent}]

\* What the handlers take observations with, and a review without a memory is.
Reviewing == {"confirm", "update", "capture_review"}

Memory == [status : Lifecycles, impact : Impacts, writes : Nat]

ASSUME RequestsAssumption ==
  /\ Requests \subseteq Request
  /\ \A r \in Requests : r.observations # {} =>
       r.action \in Reviewing \/ (r.action = "observe" /\ r.disposition = "reinforce")
  /\ \A r \in Requests : r.action = "capture_review" => r.outcome # "draft"
ASSUME FaultsAssumption == MaxFaults \in Nat
ASSUME AbsentAssumption == Absent \notin Ids /\ Absent \notin Memory /\ Absent \notin Review
ASSUME EvidenceAssumption == Day \in [Sources -> Nat] /\ DOMAIN Session = Sources

VARIABLES
  memory,      \* the formal memories
  written,     \* receipts/source-keys.json: the memory each source wrote
  candidates,  \* candidates/ordinary/<digest>.json: status and sources
  reviews,     \* .runtime/capture/reviews/<observation>.json
  catalog,     \* catalog.json
  pc, req,     \* where each process is in its call, and with what
  answer,      \* the response so far
  owing,       \* history: a call that wrote has ended without a new catalog
  faults

files == <<memory, written, candidates, reviews, catalog>>
vars == <<files, pc, req, answer, owing, faults>>

NoAnswer == [status |-> Absent, id |-> Absent, warned |-> FALSE]

Init ==
  /\ memory = [id \in Ids |-> Absent]
  /\ written = [s \in Sources |-> Absent]
  /\ candidates = [c \in Candidates |-> Absent]
  /\ reviews = [o \in Observations |-> Absent]
  /\ catalog = [id \in Ids |-> Absent]
  /\ pc = [p \in Procs |-> "idle"]
  /\ req = [p \in Procs |-> Absent]
  /\ answer = [p \in Procs |-> NoAnswer]
  /\ owing = FALSE
  /\ faults = 0

Go(p, label) == pc' = [pc EXCEPT ![p] = label]

\* The handler answers; dispatch_write makes a new catalog of what was written.
Answer(p, status, id) ==
  /\ answer' = [answer EXCEPT ![p] = [status |-> status, id |-> id, warned |-> FALSE]]
  /\ Go(p, "answered")

-----------------------------------------------------------------------------
(* Reviews                                                                 *)

\* Mutant: what was validated before the memory was written is valid still.
AgreeingUnchecked(obs, review) == TRUE

\* _validate_review_batch_locked
Agreeing(obs, review) == \A o \in obs : reviews[o] \in {Absent, review}

\* record_reviews
Recorded(obs, review) ==
  [o \in Observations |->
     IF o \in obs /\ reviews[o] = Absent THEN review ELSE reviews[o]]

Draft(r) == [outcome |-> "draft", target |-> r.id]

-----------------------------------------------------------------------------
(* The policy decides where a request goes                                 *)

Effective(r) ==
  CASE r.action = "confirm" -> [r EXCEPT !.disposition = "new", !.confidence = "confirmed"]
    [] r.action = "update" -> [r EXCEPT !.disposition = "update"]
    [] OTHER -> r

Transitions == {"supersede", "archive"}

\* _evidence_summary
Evidence(sources) ==
  [count |-> Cardinality(sources),
   sessions |-> Cardinality({Session[s] : s \in sources}),
   days |-> IF sources = {} THEN 0
            ELSE Max({Day[s] : s \in sources}) - Min({Day[s] : s \in sources})]

Decision(r) == Evaluate(r, Evidence({})).status

Route(r) ==
  LET d == Decision(r)
  IN  IF r.action \in {"reject", "capture_review"} THEN r.action
      ELSE IF d = "rejected_policy" THEN "refused"
      ELSE IF r.action = "propose" THEN "candidate"
      ELSE IF r.action \in Transitions
           THEN IF d = "needs_adjudication" THEN "refused" ELSE "mutate"
      ELSE IF r.disposition = "ignore" /\ d = "accepted" THEN "ignored"
      ELSE IF \/ r.mode = "behavior_observed"
              \/ d = "deferred"
              \/ r.disposition = "need_more_evidence" THEN "candidate"
      ELSE IF r.disposition = "conflict" THEN "look"
      ELSE "mutate"

-----------------------------------------------------------------------------
(* The calls                                                               *)

Receive(p, r) ==
  /\ pc[p] = "idle"
  /\ req' = [req EXCEPT ![p] = Effective(r)]
  /\ Go(p, IF r.observations # {} /\ r.action # "capture_review"
           THEN "prevalidate" ELSE Route(Effective(r)))
  /\ UNCHANGED <<files, answer, owing, faults>>

Prevalidate(p) ==
  /\ pc[p] = "prevalidate"
  /\ IF Agreeing(req[p].observations, Draft(req[p]))
     THEN Go(p, Route(req[p])) /\ UNCHANGED answer
     ELSE Answer(p, "failed", Absent)
  /\ UNCHANGED <<files, req, owing, faults>>

\* Nothing is written: rejected_policy, ignored.
Refuse(p) ==
  /\ pc[p] \in {"refused", "ignored"}
  /\ Answer(p, IF pc[p] = "ignored" THEN "accepted" ELSE Decision(req[p]), Absent)
  /\ UNCHANGED <<files, req, owing, faults>>

\* _record_candidate: the sources seen so far decide.
RecordCandidate(p) ==
  LET c == req[p].candidate
      sources == {req[p].source} \cup (IF candidates[c] = Absent THEN {}
                                       ELSE candidates[c].sources)
      decision == Evaluate(req[p], Evidence(sources))
  IN  /\ pc[p] = "candidate"
      /\ candidates' = [candidates EXCEPT ![c] =
           [sources |-> sources, status |-> decision.candidate]]
      /\ Answer(p, IF req[p].action = "propose" THEN "deferred"
                   ELSE decision.status, Absent)
      /\ UNCHANGED <<memory, written, reviews, catalog, req, owing, faults>>

Reject(p) ==
  /\ pc[p] = "reject"
  /\ candidates' = [candidates EXCEPT ![req[p].candidate] = Absent]
  /\ Answer(p, "accepted", Absent)
  /\ UNCHANGED <<memory, written, reviews, catalog, req, owing, faults>>

CaptureReview(p) ==
  LET review == [outcome |-> req[p].outcome, target |-> Absent]
      agreeing == Agreeing(req[p].observations, review)
  IN  /\ pc[p] = "capture_review"
      /\ reviews' = IF agreeing THEN Recorded(req[p].observations, review) ELSE reviews
      /\ Answer(p, IF agreeing THEN "accepted" ELSE "failed", Absent)
      /\ UNCHANGED <<memory, written, candidates, catalog, req, owing, faults>>

\* A conflict looks at the memory before the lock is taken to challenge it.
Look(p) ==
  LET m == memory[req[p].id]
  IN  /\ pc[p] = "look"
      /\ CASE m = Absent -> Answer(p, "failed", Absent)
           [] m # Absent /\ m.impact = "high" -> Answer(p, "needs_adjudication", req[p].id)
           [] OTHER -> Go(p, "mutate") /\ UNCHANGED answer
      /\ UNCHANGED <<files, req, owing, faults>>

Creates(r) == r.action \notin Transitions /\ r.disposition = "new"

\* What a request makes of a memory that is there.
Changed(r, m) ==
  IF r.action = "supersede" THEN [m EXCEPT !.status = "superseded"]
  ELSE IF r.action = "archive" THEN [m EXCEPT !.status = "historical"]
  ELSE IF r.disposition = "conflict" THEN [m EXCEPT !.status = "challenged"]
  ELSE IF r.disposition = "update" THEN [m EXCEPT !.status = "active", !.impact = r.impact]
  ELSE m

\* replace_memory and transition_memory ask for a legal change, add_evidence
\* changes no status.
Legal(r, m) ==
  \/ r.action \notin Transitions /\ r.disposition = "reinforce"
  \/ ValidTransition(m.status, Changed(r, m).status)

OnRecord(r) == written[r.source] # Absent

\* Mutant: a source on record is somebody else's to settle.
DuplicateAnswerPassed == "needs_adjudication"

DuplicateAnswer == "accepted"

\* create_memory, add_evidence, replace_memory, transition_memory.
Mutate(p) ==
  LET r == req[p]
      m == memory[r.id]
      next == IF r.action \notin Transitions /\ r.disposition \in {"new", "update"}
              THEN "attach" ELSE "reread"
      Result(status) ==
        /\ answer' = [answer EXCEPT ![p] =
             [status |-> status, id |-> r.id, warned |-> FALSE]]
        /\ Go(p, next)
      Store(new) ==
        /\ memory' = [memory EXCEPT ![r.id] = new]
        /\ written' = [written EXCEPT ![r.source] = r.id]
        /\ Result("accepted")
  IN  /\ pc[p] = "mutate"
      /\ CASE OnRecord(r) ->
                Result(DuplicateAnswer) /\ UNCHANGED <<memory, written>>
           [] ~OnRecord(r) /\ Creates(r) ->
                IF m # Absent
                THEN Result("needs_adjudication") /\ UNCHANGED <<memory, written>>
                ELSE Store([status |-> "active", impact |-> r.impact, writes |-> 1])
           [] ~OnRecord(r) /\ ~Creates(r) ->
                IF m = Absent \/ ~Legal(r, m)
                THEN Answer(p, "failed", Absent) /\ UNCHANGED <<memory, written>>
                ELSE Store([Changed(r, m) EXCEPT !.writes = @ + 1])
      /\ UNCHANGED <<candidates, reviews, catalog, req, owing, faults>>

\* get_memory, for the response; without a memory it raises.
Reread(p) ==
  /\ pc[p] = "reread"
  /\ IF memory[req[p].id] = Absent THEN Answer(p, "failed", Absent)
     ELSE Go(p, "attach") /\ UNCHANGED answer
  /\ UNCHANGED <<files, req, owing, faults>>

\* Mutant: every answer that names a memory gets its reviews.
AttachesAny(p) == req[p].observations # {} /\ answer[p].id # Absent

Attaches(p) ==
  /\ answer[p].status = "accepted"
  /\ req[p].observations # {} /\ answer[p].id # Absent

\* _attach_draft_reviews
Attach(p) ==
  LET obs == req[p].observations
      agreeing == Agreeing(obs, Draft(req[p]))
  IN  /\ pc[p] = "attach"
      /\ reviews' = IF Attaches(p) /\ agreeing THEN Recorded(obs, Draft(req[p])) ELSE reviews
      /\ answer' = [answer EXCEPT ![p].warned = @ \/ (Attaches(p) /\ ~agreeing)]
      /\ Go(p, "refresh")
      /\ UNCHANGED <<memory, written, candidates, catalog, req, owing, faults>>

\* Mutant: the catalog is made anew for new memories only.
RefreshesNew(p) == answer[p].status = "accepted" /\ Creates(req[p])

Refreshes(p) == answer[p].status = "accepted"

\* _refresh_catalog_after_formal_memory
Refresh(p) ==
  /\ pc[p] = "refresh"
  /\ catalog' = IF Refreshes(p) THEN memory ELSE catalog
  /\ owing' = (owing /\ ~Refreshes(p))
  /\ Go(p, "answered")
  /\ UNCHANGED <<memory, written, candidates, reviews, req, answer, faults>>

Return(p) ==
  /\ pc[p] = "answered"
  /\ Go(p, "idle")
  /\ req' = [req EXCEPT ![p] = Absent]
  /\ answer' = [answer EXCEPT ![p] = NoAnswer]
  /\ UNCHANGED <<files, owing, faults>>

-----------------------------------------------------------------------------
(* Faults                                                                  *)

Pending(p) ==
  pc[p] \in {"reread", "attach", "refresh"} /\ answer[p].status = "accepted"

\* The process dies, or a RuntimeError -- the lock is taken -- leaves the call.
Die(p) ==
  /\ pc[p] \notin {"idle", "answered"}
  /\ Go(p, "idle")
  /\ req' = [req EXCEPT ![p] = Absent]
  /\ answer' = [answer EXCEPT ![p] = NoAnswer]
  /\ owing' = (owing \/ Pending(p))
  /\ UNCHANGED files

\* Some reviews of the batch are written, the next raises.
AttachFails(p) ==
  /\ pc[p] = "attach" /\ Attaches(p)
  /\ Agreeing(req[p].observations, Draft(req[p]))
  /\ \E some \in SUBSET req[p].observations :
       reviews' = Recorded(some, Draft(req[p]))
  /\ answer' = [answer EXCEPT ![p].warned = TRUE]
  /\ Go(p, "refresh")
  /\ UNCHANGED <<memory, written, candidates, catalog, req, owing>>

RefreshFails(p) ==
  /\ pc[p] = "refresh" /\ Refreshes(p)
  /\ answer' = [answer EXCEPT ![p].warned = TRUE]
  /\ owing' = TRUE
  /\ Go(p, "answered")
  /\ UNCHANGED <<files, req>>

Fault == \E p \in Procs : Die(p) \/ AttachFails(p) \/ RefreshFails(p)

-----------------------------------------------------------------------------
Continue(p) ==
  \/ Prevalidate(p) \/ Refuse(p) \/ RecordCandidate(p) \/ Reject(p)
  \/ CaptureReview(p) \/ Look(p) \/ Mutate(p) \/ Reread(p) \/ Attach(p)
  \/ Refresh(p) \/ Return(p)

Next ==
  \/ \E p \in Procs : Continue(p) \/ \E r \in Requests : Receive(p, r)
  \/ faults < MaxFaults /\ Fault /\ faults' = faults + 1

Spec == Init /\ [][Next]_vars

Formalizing == {r \in Requests : r.observations # {} /\ r.action # "capture_review"}

\* A process goes on with its call, and callers keep sending what they want
\* reviewed: the only repair there is after a warning or an error.
FairSpec ==
  /\ Spec
  /\ \A p \in Procs : WF_vars(Continue(p))
  /\ \A r \in Formalizing : SF_vars(\E p \in Procs : Receive(p, r))

-----------------------------------------------------------------------------
(* Properties                                                              *)

TypeOK ==
  /\ \A id \in Ids : memory[id] # Absent =>
       memory[id] \in Memory /\ memory[id].writes \in 1 .. Cardinality(Sources)
  /\ written \in [Sources -> Ids \cup {Absent}]
  /\ \A c \in Candidates : candidates[c] = Absent \/ candidates[c].sources \subseteq Sources
  /\ \A o \in Observations : reviews[o] = Absent \/ reviews[o] \in Review
  /\ \A id \in Ids : catalog[id] = Absent \/ catalog[id] \in Memory
  /\ \A p \in Procs : (req[p] = Absent) = (pc[p] = "idle")
  /\ owing \in BOOLEAN /\ faults \in 0 .. MaxFaults

\* A draft review names a memory that a request about this observation wrote:
\* whatever failed, and however requests about the same memory or the same
\* observation interleaved, no observation is put away as used when it was not.
DraftsAreWritten ==
  \A o \in Observations :
    (reviews[o] # Absent /\ reviews[o].outcome = "draft") =>
      \E r \in Formalizing :
        /\ o \in r.observations /\ r.id = reviews[o].target
        /\ written[r.source] = r.id /\ memory[r.id] # Absent

\* A call that answers without a warning has reviewed its whole batch for its
\* own memory, also when another call decided about a part of it in between.
BatchesAreWhole ==
  \A p \in Procs :
    (pc[p] = "answered" /\ Attaches(p) /\ ~answer[p].warned) =>
      \A o \in req[p].observations : reviews[o] = Draft(req[p])

\* The catalog differs from the memories only while a call that wrote is on
\* its way, or after one has ended in a fault and until the next refresh.
CatalogIsOwed ==
  catalog # memory => owing \/ \E p \in Procs : Pending(p)

\* A memory that was written comes to be reviewed for, after whatever faults,
\* when the request is sent again -- unless somebody else decided about one
\* of the observations.
ReviewsCatchUp ==
  \A r \in Formalizing :
    written[r.source] = r.id ~>
      \/ \A o \in r.observations : reviews[o] = Draft(r)
      \/ \E o \in r.observations : reviews[o] \notin {Absent, Draft(r)}
=============================================================================
