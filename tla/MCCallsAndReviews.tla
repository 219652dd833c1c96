-------------------------- MODULE MCCallsAndReviews --------------------------
(* Two instances side by side: the calls of the memory store with exceptions *)
(* between two statements, and what Capture puts before its user.  A         *)
(* behavior is of one of the two parts, and the other stands still.          *)
EXTENDS MemoryStore, CaptureReviews

VARIABLE part

\* Two observations of one run, and one of a run that began before and may
\* end after it.
TwoRuns == <<2, 1, 2>>

Everything == {Findings}

PartsInit == part \in {"calls", "reviews"} /\ Init /\ ReviewsInit

CallsPart(A) == part = "calls" /\ A /\ UNCHANGED <<part, rvars>>
ReviewsPart(A) == part = "reviews" /\ A /\ UNCHANGED <<part, vars>>

PartsSpec ==
  /\ PartsInit
  /\ [][CallsPart(Next) \/ ReviewsPart(ReviewsNext)]_<<part, vars, rvars>>
  /\ \A t \in Tasks : WF_rvars(ReviewsPart(Goes(t) /\ Meanwhile))
  /\ \A o \in Findings : WF_rvars(ReviewsPart(Ages(o) /\ Meanwhile))
  /\ WF_rvars(ReviewsPart(CoolsDown /\ Meanwhile))

\* Bound: a listing is read as long as no task has done anything.  (The two
\* have nothing to do with one another but through what is visible.)
ListingApart ==
  listing # Unread =>
    /\ pending = {} /\ fresh = {} /\ old = {}
    /\ \A t \in Tasks : task[t] = Idle

\* Bound: one observation is forgotten.
OneForgotten == Cardinality(forgotten) <= 1
==============================================================================
