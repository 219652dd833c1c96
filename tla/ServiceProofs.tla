--------------------------- MODULE ServiceProofs ---------------------------
(***************************************************************************)
(* What agc.write and agc.read promise.  The properties of WriteService    *)
(* hold for every set of processes, memories, sources, observations and    *)
(* requests, as long as no source is used for two memories; the estimate   *)
(* of ReadService for every response whose estimate has up to seven        *)
(* digits.                                                                 *)
(***************************************************************************)
EXTENDS WriteService, ReadService, TLAPS

\* What MCWriteService's SharedSource breaks.
OneMemoryPerSource ==
  \A r1, r2 \in Requests : r1.source = r2.source => r1.id = r2.id

(***************************************************************************)
(* The inductive invariant, one named part per fact.                       *)
(***************************************************************************)

Labels == {"idle", "prevalidate", "refused", "ignored", "candidate", "reject",
           "capture_review", "look", "mutate", "reread", "attach", "refresh",
           "answered"}

Answers == [status : {Absent, "accepted", "deferred", "rejected_policy",
                      "needs_adjudication", "failed"},
            id : Ids \cup {Absent}, warned : BOOLEAN]

ShapeOK ==
  /\ memory \in [Ids -> Memory \cup {Absent}]
  /\ DOMAIN reviews = Observations
  /\ written \in [Sources -> Ids \cup {Absent}]
  /\ pc \in [Procs -> Labels] /\ answer \in [Procs -> Answers]
  /\ DOMAIN req = Procs
  /\ owing \in BOOLEAN

\* What a call works on is what somebody asked for.
Asked(p) == \E r \in Requests : req[p] = Effective(r)

\* Only the reviews without a memory take this way, and they no other.
RequestOK == \A p \in Procs :
  /\ pc[p] # "idle" => Asked(p)
  /\ pc[p] = "capture_review" => req[p].action = "capture_review"
  /\ pc[p] \in {"look", "mutate", "reread", "attach"} =>
       req[p].action # "capture_review"

\* A source on record wrote what somebody asked for with it, and it is there.
WrittenOK == \A s \in Sources : written[s] # Absent =>
  /\ memory[written[s]] # Absent
  /\ \E r \in Requests : r.source = s /\ r.id = written[s]

\* A call that says accepted is on record with its memory.
AcceptedOK == \A p \in Procs :
  pc[p] \in {"reread", "attach"} /\ answer[p].status = "accepted" =>
    written[req[p].source] = req[p].id /\ memory[req[p].id] # Absent

\* What BatchesAreWhole says of the end of a call holds since Attach.
BatchOK == \A p \in Procs :
  pc[p] \in {"refresh", "answered"} /\ Attaches(p) /\ ~answer[p].warned =>
    \A o \in req[p].observations : reviews[o] = Draft(req[p])

CallInv == ShapeOK /\ RequestOK /\ WrittenOK /\ AcceptedOK

-----------------------------------------------------------------------------
(* The policy and the routing                                              *)

\* A call that warns still has an answer.
LEMMA WarnedType ==
  ASSUME answer \in [Procs -> Answers], NEW p \in Procs, NEW w \in BOOLEAN
  PROVE  [answer EXCEPT ![p].warned = w] \in [Procs -> Answers]
<1>1. answer[p] \in Answers
  OBVIOUS
<1>2. [answer[p] EXCEPT !.warned = w] \in Answers
  BY <1>1 DEF Answers
<1>3. QED BY <1>2

\* A handler that rewrites a request keeps what it is about.
LEMMA EffectiveKeeps ==
  ASSUME NEW r \in Requests
  PROVE  /\ Effective(r) \in Request
         /\ Effective(r).id = r.id /\ Effective(r).source = r.source
         /\ Effective(r).observations = r.observations
         /\ Effective(r).action = r.action
         /\ Effective(r).outcome = r.outcome
<1>1. r \in Request
  BY RequestsAssumption
<1>2. QED
  BY <1>1 DEF Effective, Request, Dispositions, Confidences

LEMMA DecisionType ==
  ASSUME NEW r, NEW evidence
  PROVE  Evaluate(r, evidence).status \in
           {"accepted", "deferred", "rejected_policy", "needs_adjudication"}
BY DEF Evaluate

LEMMA RouteType ==
  ASSUME NEW r
  PROVE  /\ Route(r) \in Labels \ {"idle", "prevalidate", "reread", "attach",
                                   "refresh", "answered"}
         /\ Route(r) = "capture_review" <=> r.action = "capture_review"
BY DEF Route, Labels, Transitions

-----------------------------------------------------------------------------
(* The calls                                                               *)

LEMMA CallInit == Init => CallInv
<1> SUFFICES ASSUME Init PROVE CallInv
  OBVIOUS
<1>1. ShapeOK
  BY DEF Init, ShapeOK, Labels, Answers, NoAnswer
<1>2. RequestOK /\ WrittenOK /\ AcceptedOK
  BY DEF Init, RequestOK, WrittenOK, AcceptedOK
<1>3. QED BY <1>1, <1>2 DEF CallInv

LEMMA AnswerShape ==
  ASSUME ShapeOK, NEW p \in Procs, NEW a \in Answers
  PROVE  [answer EXCEPT ![p] = a] \in [Procs -> Answers]
BY DEF ShapeOK

\* Where Mutate goes, and what it leaves: an answer, or a memory as well.
AfterWrite(r) ==
  IF r.action \notin Transitions /\ r.disposition \in {"new", "update"}
  THEN "attach" ELSE "reread"

Made(p, status) ==
  /\ answer' = [answer EXCEPT ![p] =
       [status |-> status, id |-> req[p].id, warned |-> FALSE]]
  /\ pc' = [pc EXCEPT ![p] = AfterWrite(req[p])]

Stored(p, new) ==
  /\ memory' = [memory EXCEPT ![req[p].id] = new]
  /\ written' = [written EXCEPT ![req[p].source] = req[p].id]
  /\ Made(p, "accepted")

Kept == UNCHANGED <<memory, written>>

LEMMA MutateCases ==
  ASSUME ShapeOK, RequestOK, NEW p \in Procs, Mutate(p)
  PROVE  \/ OnRecord(req[p]) /\ Made(p, "accepted") /\ Kept
         \/ Made(p, "needs_adjudication") /\ Kept
         \/ Answer(p, "failed", Absent) /\ Kept
         \/ \E new \in Memory : ~OnRecord(req[p]) /\ Stored(p, new)
<1> DEFINE r == req[p]
           m == memory[r.id]
<1>1. r.id \in Ids /\ r.impact \in Impacts
  BY EffectiveKeeps DEF Mutate, RequestOK, Asked, Request
<1>2. [status |-> "active", impact |-> r.impact, writes |-> 1] \in Memory
  BY <1>1 DEF Memory, Lifecycles
<1>3. ASSUME m # Absent
      PROVE  [Changed(r, m) EXCEPT !.writes = @ + 1] \in Memory
  <2>1. m \in Memory
    BY <1>3, <1>1 DEF ShapeOK
  <2>2. Changed(r, m) \in Memory
    BY <2>1, <1>1 DEF Changed, Memory, Lifecycles
  <2>3. QED BY <2>2 DEF Memory
<1>4. QED
  BY <1>2, <1>3 DEF Mutate, DuplicateAnswer, Go, Made, Stored, Kept, AfterWrite

LEMMA CallStep ==
  ASSUME OneMemoryPerSource, CallInv, [Next]_vars
  PROVE  CallInv'
<1> USE DEF CallInv
<1>1. ASSUME NEW p \in Procs, NEW r \in Requests, Receive(p, r)
      PROVE  CallInv'
  BY <1>1, EffectiveKeeps, RouteType DEF Receive, Go, files, ShapeOK, RequestOK,
     WrittenOK, AcceptedOK, Asked, Labels
<1>2. ASSUME NEW p \in Procs, Prevalidate(p)
      PROVE  CallInv'
  <2> USE <1>2 DEF Prevalidate, Answer, Go, files
  <2>1. ShapeOK'
    <3>1. answer' \in [Procs -> Answers]
      <4>1. \A st \in {"failed", "needs_adjudication"}, id \in Ids \cup {Absent} :
              [status |-> st, id |-> id, warned |-> FALSE] \in Answers
        BY DEF Answers
      <4>2. QED BY <4>1, AnswerShape, EffectiveKeeps DEF ShapeOK, RequestOK, Asked, Request
    <3>2. pc' \in [Procs -> Labels]
      BY RouteType DEF ShapeOK, Labels
    <3>3. QED BY <3>1, <3>2 DEF ShapeOK
  <2>2. RequestOK'
    BY RouteType DEF ShapeOK, RequestOK, Asked
  <2>3. WrittenOK'
    BY DEF WrittenOK
  <2>4. AcceptedOK'
    BY RouteType DEF ShapeOK, AcceptedOK, Labels
  <2>5. QED BY <2>1, <2>2, <2>3, <2>4
<1>3. ASSUME NEW p \in Procs, Refuse(p)
      PROVE  CallInv'
  BY <1>3, DecisionType DEF Refuse, Decision, Answer, Go, files, ShapeOK,
     RequestOK, WrittenOK, AcceptedOK, Asked, Labels, Answers
<1>4. ASSUME NEW p \in Procs, RecordCandidate(p)
      PROVE  CallInv'
  BY <1>4, DecisionType DEF RecordCandidate, Answer, Go, files, ShapeOK,
     RequestOK, WrittenOK, AcceptedOK, Asked, Labels, Answers
<1>5. ASSUME NEW p \in Procs, Reject(p)
      PROVE  CallInv'
  BY <1>5 DEF Reject, Answer, Go, files, ShapeOK,
     RequestOK, WrittenOK, AcceptedOK, Asked, Labels, Answers
<1>6. ASSUME NEW p \in Procs, CaptureReview(p)
      PROVE  CallInv'
  BY <1>6 DEF CaptureReview, Recorded, Answer, Go, files, ShapeOK,
     RequestOK, WrittenOK, AcceptedOK, Asked, Labels, Answers
<1>7. ASSUME NEW p \in Procs, Look(p)
      PROVE  CallInv'
  <2> USE <1>7 DEF Look, Answer, Go, files
  <2>1. ShapeOK'
    <3>1. answer' \in [Procs -> Answers]
      <4>1. \A st \in {"failed", "needs_adjudication"}, id \in Ids \cup {Absent} :
              [status |-> st, id |-> id, warned |-> FALSE] \in Answers
        BY DEF Answers
      <4>2. QED BY <4>1, AnswerShape, EffectiveKeeps DEF ShapeOK, RequestOK, Asked, Request
    <3>2. pc' \in [Procs -> Labels]
      BY RouteType DEF ShapeOK, Labels
    <3>3. QED BY <3>1, <3>2 DEF ShapeOK
  <2>2. RequestOK'
    BY RouteType DEF ShapeOK, RequestOK, Asked
  <2>3. WrittenOK'
    BY DEF WrittenOK
  <2>4. AcceptedOK'
    BY DEF ShapeOK, AcceptedOK, RequestOK, Answers
  <2>5. QED BY <2>1, <2>2, <2>3, <2>4
<1>8. ASSUME NEW p \in Procs, Mutate(p)
      PROVE  CallInv'
  <2> DEFINE r == req[p]
  <2>1. PICK r0 \in Requests : r = Effective(r0)
    BY <1>8 DEF Mutate, RequestOK, Asked
  <2>2. r.id = r0.id /\ r.source = r0.source
    BY <2>1, EffectiveKeeps
  <2>3. r.id \in Ids /\ r.source \in Sources
    BY <2>1, EffectiveKeeps DEF Request
  <2>4. UNCHANGED <<reviews, req, owing>> /\ pc[p] = "mutate"
    BY <1>8 DEF Mutate
  <2>5. \/ OnRecord(r) /\ Made(p, "accepted") /\ Kept
        \/ Made(p, "needs_adjudication") /\ Kept
        \/ Answer(p, "failed", Absent) /\ Kept
        \/ \E new \in Memory : ~OnRecord(r) /\ Stored(p, new)
    BY <1>8, MutateCases
  <2>6. CASE OnRecord(r) /\ Made(p, "accepted") /\ Kept
    <3>1. written[r.source] = r.id /\ memory[r.id] # Absent
      BY <2>2, <2>3, <2>6 DEF OnRecord, WrittenOK, OneMemoryPerSource, Kept
    <3>2. ShapeOK'
      <4>1. [status |-> "accepted", id |-> r.id, warned |-> FALSE] \in Answers
        BY <2>3 DEF Answers
      <4>2. QED BY <2>4, <2>6, <4>1 DEF ShapeOK, Labels, Made, Stored, AfterWrite, Kept
    <3>3. RequestOK'
      BY <1>8, <2>4, <2>6 DEF RequestOK, ShapeOK, Asked, Made, Stored, AfterWrite, Kept
    <3>4. WrittenOK'
      BY <2>6 DEF WrittenOK, Kept
    <3>5. AcceptedOK'
      BY <2>4, <2>6, <3>1 DEF AcceptedOK, ShapeOK, Made, AfterWrite, Kept
    <3>6. QED BY <3>2, <3>3, <3>4, <3>5
  <2>7. CASE Made(p, "needs_adjudication") /\ Kept
    <3>2. ShapeOK'
      <4>1. [status |-> "needs_adjudication", id |-> r.id, warned |-> FALSE] \in Answers
        BY <2>3 DEF Answers
      <4>2. QED BY <2>4, <2>7, <4>1 DEF ShapeOK, Labels, Made, Stored, AfterWrite, Kept
    <3>3. RequestOK'
      BY <1>8, <2>4, <2>7 DEF RequestOK, ShapeOK, Asked, Made, Stored, AfterWrite, Kept
    <3>4. WrittenOK'
      BY <2>7 DEF WrittenOK, Kept
    <3>5. AcceptedOK'
      BY <2>4, <2>7 DEF AcceptedOK, ShapeOK, Made, AfterWrite, Kept
    <3>6. QED BY <3>2, <3>3, <3>4, <3>5
  <2>8. CASE Answer(p, "failed", Absent) /\ Kept
    <3>2. ShapeOK'
      <4>1. [status |-> "failed", id |-> Absent, warned |-> FALSE] \in Answers
        BY DEF Answers
      <4>2. QED BY <2>4, <2>8, <4>1 DEF ShapeOK, Labels, Answer, Go, Kept
    <3>3. RequestOK'
      BY <1>8, <2>4, <2>8 DEF RequestOK, ShapeOK, Asked, Answer, Go, Kept
    <3>4. WrittenOK'
      BY <2>8 DEF WrittenOK, Kept
    <3>5. AcceptedOK'
      BY <2>4, <2>8 DEF AcceptedOK, ShapeOK, Answer, Go, Kept
    <3>6. QED BY <3>2, <3>3, <3>4, <3>5
  <2>9. ASSUME NEW new \in Memory, ~OnRecord(r), Stored(p, new)
        PROVE  CallInv'
    <3>1. /\ \A id \in Ids : memory'[id] = IF id = r.id THEN new ELSE memory[id]
          /\ \A s \in Sources : written'[s] = IF s = r.source THEN r.id ELSE written[s]
          /\ new # Absent /\ written[r.source] = Absent
      BY <2>3, <2>9, AbsentAssumption DEF ShapeOK, OnRecord, Stored
    <3>2. ShapeOK'
      <4>1. [status |-> "accepted", id |-> r.id, warned |-> FALSE] \in Answers
        BY <2>3 DEF Answers
      <4>2. QED BY <2>3, <2>4, <2>9, <4>1 DEF ShapeOK, Labels, Made, Stored, AfterWrite
    <3>3. RequestOK'
      BY <1>8, <2>4, <2>9 DEF RequestOK, ShapeOK, Asked, Made, Stored, AfterWrite
    <3>4. WrittenOK'
      BY <2>2, <2>3, <3>1 DEF WrittenOK, ShapeOK
    <3>5. AcceptedOK'
      <4>1. ASSUME NEW q \in Procs, pc'[q] \in {"reread", "attach"},
                   answer'[q].status = "accepted"
            PROVE  written'[req[q].source] = req[q].id /\ memory'[req[q].id] # Absent
        <5>1. CASE q = p
          BY <2>3, <3>1, <5>1
        <5>2. CASE q # p
          <6>1. pc[q] \in {"reread", "attach"} /\ answer[q].status = "accepted"
            BY <2>9, <4>1, <5>2 DEF ShapeOK, Stored, Made
          <6>2. req[q].id \in Ids /\ req[q].source \in Sources
            BY <6>1, EffectiveKeeps DEF RequestOK, Asked, Request
          <6>3. written[req[q].source] = req[q].id /\ memory[req[q].id] # Absent
            BY <6>1 DEF AcceptedOK
          <6>4. QED BY <3>1, <6>2, <6>3, AbsentAssumption
        <5>3. QED BY <5>1, <5>2
      <4>2. QED BY <2>4, <4>1 DEF AcceptedOK
    <3>6. QED BY <3>2, <3>3, <3>4, <3>5
  <2>10. QED BY <2>5, <2>6, <2>7, <2>8, <2>9
<1>9. ASSUME NEW p \in Procs, Reread(p)
      PROVE  CallInv'
  <2> USE <1>9 DEF Reread, Answer, Go, files
  <2>1. ShapeOK'
    <3>1. answer' \in [Procs -> Answers]
      <4>1. \A st \in {"failed", "needs_adjudication"}, id \in Ids \cup {Absent} :
              [status |-> st, id |-> id, warned |-> FALSE] \in Answers
        BY DEF Answers
      <4>2. QED BY <4>1, AnswerShape, EffectiveKeeps DEF ShapeOK, RequestOK, Asked, Request
    <3>2. pc' \in [Procs -> Labels]
      BY RouteType DEF ShapeOK, Labels
    <3>3. QED BY <3>1, <3>2 DEF ShapeOK
  <2>2. RequestOK'
    BY RouteType DEF ShapeOK, RequestOK, Asked
  <2>3. WrittenOK'
    BY DEF WrittenOK
  <2>4. AcceptedOK'
    BY DEF ShapeOK, AcceptedOK, RequestOK, Answers
  <2>5. QED BY <2>1, <2>2, <2>3, <2>4
<1>10. ASSUME NEW p \in Procs, Attach(p)
       PROVE  CallInv'
  <2> USE <1>10 DEF Attach, Answer, Go, files
  <2>1. ShapeOK'
    <3>0. \E w \in BOOLEAN : answer' = [answer EXCEPT ![p].warned = w]
      <4>1. answer[p].warned \in BOOLEAN
        BY DEF ShapeOK, Answers
      <4>2. QED BY ONLY <4>1, <1>10 DEF Attach
    <3>1. answer' \in [Procs -> Answers]
      BY <3>0, WarnedType DEF ShapeOK
    <3>2. DOMAIN reviews' = Observations
      BY DEF ShapeOK, Recorded
    <3>3. pc' \in [Procs -> Labels]
      BY DEF ShapeOK, Labels
    <3>4. QED BY <3>1, <3>2, <3>3 DEF ShapeOK
  <2>2. RequestOK'
    BY RouteType DEF ShapeOK, RequestOK, Asked
  <2>3. WrittenOK'
    BY DEF WrittenOK
  <2>4. AcceptedOK'
    BY DEF ShapeOK, AcceptedOK, RequestOK, Answers
  <2>5. QED BY <2>1, <2>2, <2>3, <2>4
<1>11. ASSUME NEW p \in Procs, Refresh(p)
       PROVE  CallInv'
  BY <1>11 DEF Refresh, Go, ShapeOK, RequestOK, WrittenOK, AcceptedOK, Asked, Labels
<1>12. ASSUME NEW p \in Procs, Return(p)
       PROVE  CallInv'
  BY <1>12 DEF Return, Go, files, NoAnswer, ShapeOK, RequestOK, WrittenOK,
     AcceptedOK, Asked, Labels, Answers
<1>13. ASSUME NEW p \in Procs, Die(p)
       PROVE  CallInv'
  BY <1>13 DEF Die, Go, files, NoAnswer, Pending, ShapeOK, RequestOK, WrittenOK,
     AcceptedOK, Asked, Labels, Answers
<1>14. ASSUME NEW p \in Procs, AttachFails(p)
       PROVE  CallInv'
  <2> USE <1>14 DEF AttachFails, Answer, Go, files
  <2>1. ShapeOK'
    <3>0. answer' = [answer EXCEPT ![p].warned = TRUE]
      OBVIOUS
    <3>1. answer' \in [Procs -> Answers]
      <4>1. answer \in [Procs -> Answers]
        BY DEF ShapeOK
      <4>2. QED BY ONLY <3>0, <4>1, p \in Procs, WarnedType
    <3>2. DOMAIN reviews' = Observations
      BY DEF ShapeOK, Recorded
    <3>3. pc' \in [Procs -> Labels]
      BY DEF ShapeOK, Labels
    <3>4. QED BY <3>1, <3>2, <3>3 DEF ShapeOK
  <2>2. RequestOK'
    BY RouteType DEF ShapeOK, RequestOK, Asked
  <2>3. WrittenOK'
    BY DEF WrittenOK
  <2>4. AcceptedOK'
    BY DEF ShapeOK, AcceptedOK, RequestOK, Answers
  <2>5. QED BY <2>1, <2>2, <2>3, <2>4
<1>15. ASSUME NEW p \in Procs, RefreshFails(p)
       PROVE  CallInv'
  <2> USE <1>15 DEF RefreshFails, Answer, Go, files
  <2>1. ShapeOK'
    BY RouteType DEF ShapeOK, Labels, Answers, Recorded
  <2>2. RequestOK'
    BY RouteType DEF ShapeOK, RequestOK, Asked
  <2>3. WrittenOK'
    BY DEF WrittenOK
  <2>4. AcceptedOK'
    BY DEF ShapeOK, AcceptedOK, RequestOK, Answers
  <2>5. QED BY <2>1, <2>2, <2>3, <2>4
<1>16. CASE UNCHANGED vars
  BY <1>16 DEF vars, files, ShapeOK, RequestOK, WrittenOK, AcceptedOK, Asked
<1>17. QED
  BY <1>1, <1>2, <1>3, <1>4, <1>5, <1>6, <1>7, <1>8, <1>9, <1>10, <1>11, <1>12,
     <1>13, <1>14, <1>15, <1>16 DEF Next, Continue, Fault

-----------------------------------------------------------------------------
(* The properties                                                          *)

\* Reviews are for ever, and each one is made by a call on its own observations.
LEMMA ReviewStep ==
  ASSUME ShapeOK, [Next]_vars
  PROVE  /\ \A o \in Observations : reviews[o] # Absent => reviews'[o] = reviews[o]
         /\ \A o \in Observations : reviews'[o] # reviews[o] =>
              \E p \in Procs : o \in req[p].observations /\
                \/ pc[p] = "attach" /\ Attaches(p) /\ reviews'[o] = Draft(req[p])
                \/ pc[p] = "capture_review"
                   /\ reviews'[o] = [outcome |-> req[p].outcome, target |-> Absent]
<1>1. ASSUME NEW p \in Procs, CaptureReview(p) \/ Attach(p) \/ AttachFails(p)
      PROVE  /\ \A o \in Observations : reviews[o] # Absent => reviews'[o] = reviews[o]
             /\ \A o \in Observations : reviews'[o] # reviews[o] =>
                  o \in req[p].observations /\
                    \/ pc[p] = "attach" /\ Attaches(p) /\ reviews'[o] = Draft(req[p])
                    \/ pc[p] = "capture_review"
                       /\ reviews'[o] = [outcome |-> req[p].outcome, target |-> Absent]
  BY <1>1 DEF CaptureReview, Attach, AttachFails, Recorded
<1>2. CASE \E p \in Procs : CaptureReview(p) \/ Attach(p) \/ AttachFails(p)
  BY <1>1, <1>2
<1>3. CASE UNCHANGED reviews
  BY <1>3
<1>4. QED
  BY <1>2, <1>3 DEF Next, Continue, Fault, vars, files, Receive, Prevalidate, Refuse,
     RecordCandidate, Reject, Look, Mutate, Reread, Refresh, Return, Die, RefreshFails

\* What is on record stays there, and so do the memories.
LEMMA RecordStep ==
  ASSUME CallInv, [Next]_vars
  PROVE  /\ \A s \in Sources : written[s] # Absent => written'[s] = written[s]
         /\ \A id \in Ids : memory[id] # Absent => memory'[id] # Absent
<1>1. ASSUME NEW p \in Procs, Mutate(p)
      PROVE  /\ \A s \in Sources : written[s] # Absent => written'[s] = written[s]
             /\ \A id \in Ids : memory[id] # Absent => memory'[id] # Absent
  <2>1. CASE Kept
    BY <2>1 DEF Kept
  <2>2. ASSUME NEW new \in Memory, ~OnRecord(req[p]), Stored(p, new)
        PROVE  /\ \A s \in Sources : written[s] # Absent => written'[s] = written[s]
               /\ \A id \in Ids : memory[id] # Absent => memory'[id] # Absent
    BY <2>2, AbsentAssumption DEF Stored, OnRecord, CallInv, ShapeOK
  <2>3. QED BY <1>1, <2>1, <2>2, MutateCases DEF CallInv
<1>2. CASE UNCHANGED <<memory, written>>
  BY <1>2
<1>3. QED
  BY <1>1, <1>2 DEF Next, Continue, Fault, vars, files, Receive, Prevalidate, Refuse,
     RecordCandidate, Reject, CaptureReview, Look, Reread, Attach, Refresh, Return, Die,
     AttachFails, RefreshFails

LEMMA DraftStep ==
  ASSUME CallInv, DraftsAreWritten, [Next]_vars
  PROVE  DraftsAreWritten'
<1> SUFFICES ASSUME NEW o \in Observations,
                    reviews'[o] # Absent, reviews'[o].outcome = "draft"
             PROVE  \E r \in Formalizing :
                      /\ o \in r.observations /\ r.id = reviews'[o].target
                      /\ written'[r.source] = r.id /\ memory'[r.id] # Absent
  BY DEF DraftsAreWritten
<1>1. ASSUME NEW r \in Requests, written[r.source] = r.id, memory[r.id] # Absent
      PROVE  written'[r.source] = r.id /\ memory'[r.id] # Absent
  BY <1>1, RecordStep, RequestsAssumption, AbsentAssumption DEF Request
<1>2. CASE reviews'[o] = reviews[o]
  BY <1>1, <1>2 DEF DraftsAreWritten, Formalizing
<1>3. CASE reviews'[o] # reviews[o]
  <2>1. PICK p \in Procs : o \in req[p].observations /\
          \/ pc[p] = "attach" /\ Attaches(p) /\ reviews'[o] = Draft(req[p])
          \/ pc[p] = "capture_review"
             /\ reviews'[o] = [outcome |-> req[p].outcome, target |-> Absent]
    BY <1>3, ReviewStep DEF CallInv
  <2>2. PICK r \in Requests : req[p] = Effective(r)
    BY <2>1 DEF CallInv, RequestOK, Asked
  <2>3. pc[p] = "attach"
    BY <2>1, <2>2, EffectiveKeeps, RequestsAssumption DEF CallInv, RequestOK
  <2>4. r \in Formalizing
    BY <2>1, <2>2, <2>3, EffectiveKeeps DEF CallInv, RequestOK, Formalizing
  <2>5. o \in r.observations /\ r.id = reviews'[o].target
    BY <2>1, <2>2, <2>3, EffectiveKeeps DEF Draft
  <2>6. written[r.source] = r.id /\ memory[r.id] # Absent
    BY <2>1, <2>2, <2>3, EffectiveKeeps DEF CallInv, AcceptedOK, Attaches
  <2>7. QED BY <1>1, <2>4, <2>5, <2>6
<1>4. QED BY <1>2, <1>3

LEMMA CatalogStep ==
  ASSUME CallInv, CatalogIsOwed, [Next]_vars
  PROVE  CatalogIsOwed'
<1> USE DEF CallInv, CatalogIsOwed, Pending
<1>1. ASSUME NEW p \in Procs, NEW r \in Requests, Receive(p, r)
      PROVE  CatalogIsOwed'
  BY <1>1 DEF Receive, Go, files, ShapeOK
<1>2. ASSUME NEW p \in Procs, \/ Prevalidate(p) \/ Refuse(p) \/ RecordCandidate(p)
                              \/ Reject(p) \/ CaptureReview(p) \/ Look(p) \/ Return(p)
      PROVE  CatalogIsOwed'
  <2>1. /\ UNCHANGED <<memory, catalog, owing>>
        /\ pc[p] \notin {"reread", "attach", "refresh"}
        /\ \A q \in Procs \ {p} : pc'[q] = pc[q] /\ answer'[q] = answer[q]
    BY <1>2 DEF Prevalidate, Refuse, RecordCandidate, Reject, CaptureReview, Look,
       Return, Answer, Go, files, ShapeOK
  <2>2. QED BY <2>1
<1>3. ASSUME NEW p \in Procs, Mutate(p)
      PROVE  CatalogIsOwed'
  <2>1. UNCHANGED <<catalog, owing>> /\ pc[p] = "mutate"
    BY <1>3 DEF Mutate
  <2>2. CASE Kept /\ \A q \in Procs \ {p} : pc'[q] = pc[q] /\ answer'[q] = answer[q]
    BY <2>1, <2>2 DEF Kept
  <2>3. ASSUME Made(p, "accepted")
        PROVE  pc'[p] \in {"reread", "attach", "refresh"} /\ answer'[p].status = "accepted"
    BY <2>3 DEF Made, AfterWrite, ShapeOK
  <2>4. QED
    BY <1>3, <2>2, <2>3, MutateCases DEF Stored, Made, Answer, Go, ShapeOK
<1>4. ASSUME NEW p \in Procs, Reread(p) \/ Attach(p) \/ AttachFails(p)
      PROVE  CatalogIsOwed'
  <2>1. UNCHANGED <<memory, catalog, owing>>
    BY <1>4 DEF Reread, Attach, AttachFails, files
  <2>2. ASSUME NEW q \in Procs, Pending(q)
        PROVE  Pending(q)'
    BY <1>4, <2>2 DEF Reread, Attach, AttachFails, Go, Answer, ShapeOK, AcceptedOK, Answers
  <2>3. QED BY <2>1, <2>2
<1>5. ASSUME NEW p \in Procs, Refresh(p)
      PROVE  CatalogIsOwed'
  <2>1. CASE Refreshes(p)
    BY <1>5, <2>1 DEF Refresh
  <2>2. CASE ~Refreshes(p)
    BY <1>5, <2>2 DEF Refresh, Refreshes, Go, ShapeOK
  <2>3. QED BY <2>1, <2>2
<1>6. ASSUME NEW p \in Procs, Die(p) \/ RefreshFails(p)
      PROVE  CatalogIsOwed'
  BY <1>6 DEF Die, RefreshFails, Go, files, ShapeOK
<1>7. CASE UNCHANGED vars
  BY <1>7 DEF vars, files
<1>8. QED
  BY <1>1, <1>2, <1>3, <1>4, <1>5, <1>6, <1>7 DEF Next, Continue, Fault

\* A call gets to its end with its reviews attached through Attach alone.
LEMMA BatchStep ==
  ASSUME CallInv, BatchOK, [Next]_vars
  PROVE  BatchOK'
<1> SUFFICES ASSUME NEW q \in Procs, pc'[q] \in {"refresh", "answered"},
                    Attaches(q)', ~answer'[q].warned,
                    NEW o \in req'[q].observations
             PROVE  reviews'[o] = Draft(req'[q])
  BY DEF BatchOK, Draft
<1>1. CASE /\ pc[q] \in {"refresh", "answered"}
           /\ answer'[q] = answer[q] /\ req'[q] = req[q]
  <2>1. o \in Observations
    BY <1>1, EffectiveKeeps DEF CallInv, RequestOK, Asked, Request
  <2>2. reviews[o] = Draft(req[q])
    BY <1>1 DEF BatchOK, Attaches
  <2>3. req[q].id \in Ids
    BY <1>1, EffectiveKeeps DEF CallInv, RequestOK, Asked, Request
  <2>4. reviews[o] # Absent
    BY <2>2, <2>3, AbsentAssumption DEF Draft, Review
  <2>5. QED BY <1>1, <2>1, <2>2, <2>4, ReviewStep DEF CallInv
<1>2. CASE Attach(q)
  <2>1. Attaches(q) /\ Agreeing(req[q].observations, Draft(req[q])) /\ req'[q] = req[q]
    BY <1>2 DEF Attach, Attaches, CallInv, ShapeOK, Answers
  <2>2. o \in Observations
    <3>1. PICK r \in Requests : req[q] = Effective(r)
      BY <1>2 DEF Attach, CallInv, RequestOK, Asked
    <3>2. req[q] \in Request
      BY <3>1, EffectiveKeeps
    <3>3. req[q].observations \subseteq Observations
      BY ONLY <3>2 DEF Request
    <3>4. o \in req[q].observations
      BY <1>2, <2>1 DEF Attach, Recorded
    <3>5. QED BY <3>3, <3>4
  <2>3. QED BY <1>2, <2>1, <2>2 DEF Attach, Agreeing, Recorded
<1>3. CASE \/ UNCHANGED <<pc, answer, req>>
           \/ \E p \in Procs \ {q} : \E r \in Requests : Receive(p, r)
           \/ \E p \in Procs \ {q} : Continue(p) \/ Die(p) \/ AttachFails(p) \/ RefreshFails(p)
  <2>1. pc'[q] = pc[q] /\ answer'[q] = answer[q] /\ req'[q] = req[q]
    <3>1. ASSUME NEW p \in Procs \ {q}, Mutate(p)
          PROVE  pc'[q] = pc[q] /\ answer'[q] = answer[q] /\ req'[q] = req[q]
      <4>1. \E a \in Answers, l \in Labels :
              /\ answer' = [answer EXCEPT ![p] = a] /\ pc' = [pc EXCEPT ![p] = l]
              /\ req' = req
        <5>1. ShapeOK /\ RequestOK
          BY DEF CallInv
        <5>2. req[p].id \in Ids
          BY <3>1, <5>1, EffectiveKeeps DEF Mutate, RequestOK, Asked, Request
        <5>3. \A st \in {"accepted", "needs_adjudication", "failed"}, id \in Ids \cup {Absent} :
                [status |-> st, id |-> id, warned |-> FALSE] \in Answers
          BY DEF Answers
        <5>4. {"attach", "reread", "answered"} \subseteq Labels
          BY DEF Labels
        <5>5. req' = req
          BY <3>1 DEF Mutate
        <5>6. \/ \E st \in {"accepted", "needs_adjudication"} : Made(p, st)
              \/ Answer(p, "failed", Absent)
          BY <3>1, <5>1, MutateCases DEF Stored
        <5>7. AfterWrite(req[p]) \in Labels
          BY <5>4 DEF AfterWrite
        <5>8. CASE Answer(p, "failed", Absent)
          BY ONLY <5>3, <5>4, <5>5, <5>8 DEF Answer, Go
        <5>9. CASE \E st \in {"accepted", "needs_adjudication"} : Made(p, st)
          BY ONLY <5>2, <5>3, <5>5, <5>7, <5>9 DEF Made
        <5>10. QED BY <5>6, <5>8, <5>9
      <4>2. QED BY ONLY <4>1, q \in Procs, p \in Procs \ {q}, CallInv DEF CallInv, ShapeOK
    <3>2. ASSUME NEW p \in Procs \ {q}, NEW r \in Requests, Receive(p, r)
          PROVE  pc'[q] = pc[q] /\ answer'[q] = answer[q] /\ req'[q] = req[q]
      BY <3>2 DEF Receive, Go, CallInv, ShapeOK
    <3>3. ASSUME NEW p \in Procs \ {q},
                 \/ Prevalidate(p) \/ Refuse(p) \/ RecordCandidate(p) \/ Reject(p)
                 \/ CaptureReview(p) \/ Look(p) \/ Reread(p) \/ Return(p) \/ Die(p)
          PROVE  pc'[q] = pc[q] /\ answer'[q] = answer[q] /\ req'[q] = req[q]
      BY <3>3 DEF Prevalidate, Refuse, RecordCandidate, Reject, CaptureReview, Look,
         Reread, Return, Die, Answer, Go, CallInv, ShapeOK
    <3>4. ASSUME NEW p \in Procs \ {q},
                 Attach(p) \/ Refresh(p) \/ AttachFails(p) \/ RefreshFails(p)
          PROVE  pc'[q] = pc[q] /\ answer'[q] = answer[q] /\ req'[q] = req[q]
      BY <3>4 DEF Attach, Refresh, AttachFails, RefreshFails, Go, CallInv, ShapeOK
    <3>5. QED BY <1>3, <3>1, <3>2, <3>3, <3>4 DEF Continue
  <2>2. QED BY <1>1, <2>1
<1>4. CASE Refresh(q)
  BY <1>1, <1>4 DEF Refresh
<1>5. ASSUME \/ \E r \in Requests : Receive(q, r)
             \/ Prevalidate(q) \/ Refuse(q) \/ RecordCandidate(q) \/ Reject(q)
             \/ CaptureReview(q) \/ Look(q) \/ Reread(q) \/ Return(q)
             \/ Die(q) \/ AttachFails(q) \/ RefreshFails(q)
      PROVE  FALSE
  BY <1>5, RouteType, DecisionType DEF Receive, Prevalidate, Refuse, RecordCandidate,
     Reject, CaptureReview, Look, Reread, Return, Die, AttachFails, RefreshFails,
     Answer, Go, Attaches, CallInv, ShapeOK, Answers, Labels
<1>6. CASE Mutate(q)
  BY <1>6, MutateCases DEF Made, Stored, AfterWrite, Answer, Go, Attaches, CallInv, ShapeOK
<1>7. QED
  BY <1>2, <1>3, <1>4, <1>5, <1>6 DEF Next, Continue, Fault, vars

-----------------------------------------------------------------------------
(* The theorems                                                            *)

\* However calls interleave and wherever they end, each draft review names a
\* memory that was written for its observation.
THEOREM DraftsHold ==
  ASSUME OneMemoryPerSource
  PROVE  Spec => []DraftsAreWritten
<1>1. Init => CallInv /\ DraftsAreWritten
  BY CallInit DEF Init, DraftsAreWritten
<1>2. CallInv /\ DraftsAreWritten /\ [Next]_vars => CallInv' /\ DraftsAreWritten'
  BY CallStep, DraftStep
<1>3. QED BY <1>1, <1>2, PTL DEF Spec

\* A call that answers without a warning has reviewed its whole batch.
THEOREM BatchesHold ==
  ASSUME OneMemoryPerSource
  PROVE  Spec => []BatchesAreWhole
<1>1. Init => CallInv /\ BatchOK
  BY CallInit DEF Init, BatchOK
<1>2. CallInv /\ BatchOK /\ [Next]_vars => CallInv' /\ BatchOK'
  BY CallStep, BatchStep
<1>3. BatchOK => BatchesAreWhole
  BY DEF BatchOK, BatchesAreWhole
<1>4. QED BY <1>1, <1>2, <1>3, PTL DEF Spec

\* A stale catalog is one that a call on its way, or cut short, owes.
THEOREM CatalogHolds ==
  ASSUME OneMemoryPerSource
  PROVE  Spec => []CatalogIsOwed
<1>1. Init => CallInv /\ CatalogIsOwed
  BY CallInit DEF Init, CatalogIsOwed
<1>2. CallInv /\ CatalogIsOwed /\ [Next]_vars => CallInv' /\ CatalogIsOwed'
  BY CallStep, CatalogStep
<1>3. QED BY <1>1, <1>2, PTL DEF Spec

-----------------------------------------------------------------------------
(* The estimate of a response                                              *)

MaxChars == 29999990

LEMMA Thirds ==
  ASSUME NEW n \in Nat
  PROVE  /\ n \div 3 \in Nat
         /\ 3 * (n \div 3) <= n /\ n < 3 * (n \div 3) + 3
  BY SMT

LEMMA DigitsAreFew ==
  ASSUME NEW n \in Nat
  PROVE  Digits(n) \in 1 .. 7
  BY SMT DEF Digits, Step

\* More digits, more tokens; one digit, at most one token; six, at most two.
LEMMA RoundGrows ==
  ASSUME NEW chars \in Nat, chars <= MaxChars, NEW e \in Nat, NEW f \in Nat
  PROVE  /\ Round(chars, e) \in Nat /\ Round(chars, e) <= 9999999
         /\ Digits(e) = Digits(f) => Round(chars, e) = Round(chars, f)
         /\ Digits(e) <= Digits(f) => Round(chars, e) <= Round(chars, f)
         /\ Digits(f) <= Digits(e) + 1 => Round(chars, f) <= Round(chars, e) + 1
         /\ Round(chars, f) <= Round(chars, e) + 2
<1>1. Digits(e) \in 1 .. 7 /\ Digits(f) \in 1 .. 7
  BY DigitsAreFew, SMT
<1> DEFINE m == chars + Digits(e) + 2
           n == chars + Digits(f) + 2
<1>2. /\ m \in Nat /\ n \in Nat
      /\ Round(chars, e) = m \div 3 /\ Round(chars, f) = n \div 3
  BY <1>1, SMT DEF Round, Tokens
<1>3. /\ m \div 3 \in Nat /\ 3 * (m \div 3) <= m /\ m < 3 * (m \div 3) + 3
      /\ n \div 3 \in Nat /\ 3 * (n \div 3) <= n /\ n < 3 * (n \div 3) + 3
  BY <1>2, Thirds, SMT
<1>4. m <= 29999999
  BY <1>1, SMT DEF MaxChars
<1>5. m \div 3 <= 9999999
  BY <1>2, <1>3, <1>4, SMT
<1>6. Digits(e) = Digits(f) => m \div 3 = n \div 3
  BY SMT
<1>7. Digits(e) <= Digits(f) => m \div 3 <= n \div 3
  <2>1. Digits(e) <= Digits(f) => m <= n
    BY <1>1, SMT DEF MaxChars
  <2> HIDE DEF m, n
  <2> QED
    BY <2>1, <1>2, <1>3, SMT
<1>8. Digits(f) <= Digits(e) + 1 => n \div 3 <= m \div 3 + 1
  <2>1. Digits(f) <= Digits(e) + 1 => n <= m + 1
    BY <1>1, SMT DEF MaxChars
  <2> HIDE DEF m, n
  <2> QED
    BY <2>1, <1>2, <1>3, SMT
<1>9. n \div 3 <= m \div 3 + 2
  <2>1. n <= m + 6
    BY <1>1, SMT
  <2> HIDE DEF m, n
  <2> QED
    BY <2>1, <1>2, <1>3, SMT
<1> QED
  BY <1>2, <1>3, <1>5, <1>6, <1>7, <1>8, <1>9, SMT

\* Among numbers that are close to each other the digits grow once at most.
LEMMA DigitsGrowOnce ==
  ASSUME NEW a \in Nat, NEW b \in Nat, NEW c \in Nat,
         a <= b, b <= c, b <= a + 2, c <= b + 1
  PROVE  /\ Digits(a) <= Digits(b) /\ Digits(b) <= Digits(a) + 1
         /\ Digits(b) = Digits(a) \/ Digits(c) = Digits(b)
  BY SMT DEF Digits, Step

\* The first round leaves out all digits of the estimate but one.  The second
\* then adds two tokens at most, so its estimate has one digit more at most;
\* the third adds one at most, and no digit if the second did.
LEMMA RoundsSettle ==
  ASSUME NEW chars \in Nat, chars <= MaxChars
  PROVE  LET settled == Round(chars, TwoRounds(chars, 0))
         IN  Round(chars, settled) = settled
<1> DEFINE a == Round(chars, 0)
           b == Round(chars, a)
           c == Round(chars, b)
<1>1. a \in Nat /\ b \in Nat /\ c \in Nat
  BY RoundGrows
<1>2. Digits(0) = 1
  BY SMT DEF Digits, Step
<1>3. Digits(0) <= Digits(a)
  BY <1>1, <1>2, DigitsAreFew, SMT
<1>4. a <= b /\ b <= a + 2
  BY <1>1, <1>3, RoundGrows, SMT
<1>5. Digits(a) <= Digits(b) /\ Digits(b) <= Digits(a) + 1
  BY <1>1, <1>4, SMT DEF Digits, Step
<1>6. b <= c /\ c <= b + 1
  BY <1>1, <1>5, RoundGrows, SMT
<1>7. Digits(b) = Digits(a) \/ Digits(c) = Digits(b)
  BY <1>1, <1>4, <1>6, DigitsGrowOnce, SMT
<1>8. Round(chars, c) = c
  <2>1. CASE Digits(b) = Digits(a)
    BY <2>1, <1>1, RoundGrows
  <2>2. CASE Digits(c) = Digits(b)
    BY <2>2, <1>1, RoundGrows
  <2> QED
    BY <1>7, <2>1, <2>2
<1> QED
  BY <1>8 DEF TwoRounds

\* So ten rounds end in an estimate that counts itself.
THEOREM EstimateTrue ==
  ASSUME NEW chars \in Nat, chars <= MaxChars
  PROVE  EstimateIsTrue(chars)
<1> DEFINE settled == Round(chars, TwoRounds(chars, 0))
<1>1. Round(chars, settled) = settled
  BY RoundsSettle
<1>2. FourRounds(chars, 0) = settled
  BY <1>1 DEF FourRounds, TwoRounds
<1> HIDE DEF settled
<1>3. Estimate(chars) = settled
  BY <1>1, <1>2 DEF Estimate, FourRounds, TwoRounds
<1> QED
  BY <1>1, <1>3 DEF EstimateIsTrue, Round

=============================================================================
