--------------------------- MODULE CaptureReviews ---------------------------
(***************************************************************************)
(* How what Capture has found comes before its user: batches of the oldest *)
(* observations that scheduled tasks put up for review                     *)
(* (capture_review_notification.py), and listings that are read page by    *)
(* page (capture_read_service.py).                                         *)
(*                                                                         *)
(* A task reads the status, takes its time over the batch and only then    *)
(* records that the batch was put up; other tasks, the user's reviews and  *)
(* forgets, and runners that commit what they found go on meanwhile.  So   *)
(* they do between two pages of a listing.                                 *)
(*                                                                         *)
(* Observations are numbers, in the order of their identifiers.  A batch   *)
(* and a page are sets, for their order is that of captured_at and         *)
(* identifier; a batch stands for its digest.  A day passes as a whole for *)
(* an observation or for all notices.  What readers make of a root in the  *)
(* middle of a commit is in CaptureStore; here each of them sees a moment. *)
(***************************************************************************)
EXTENDS Naturals, FiniteSets, Sequences

CONSTANTS
  Findings,    \* the observations that Capture ever makes
  CapturedAt,  \* when: the time of a run, which stands still for all of it
  Tasks,       \* scheduled review tasks
  Filters,     \* what listings may ask for
  Threshold,   \* REVIEW_COUNT_THRESHOLD
  BatchLimit,  \* REVIEW_BATCH_LIMIT
  PageLimit,   \* limit of a listing
  MaxMishaps   \* bound: tasks that end early or only record a notice, lost caches

ASSUME ReviewsAssumption ==
  /\ Findings \subseteq Nat /\ IsFiniteSet(Findings)
  /\ CapturedAt \in [Findings -> Nat]
  /\ Filters \subseteq SUBSET Findings
  /\ Threshold \in Nat \ {0} /\ BatchLimit \in Nat \ {0} /\ PageLimit \in Nat \ {0}
  /\ MaxMishaps \in Nat

VARIABLES
  visible,   \* committed observations
  decided,   \* those with a review receipt
  forgotten, \* those whose tombstone there is
  old,       \* those captured at least a day ago
  pending,   \* the files of cache/capture-review-pending
  fresh,     \* of them and of capture-review-notice.json, those of the last day
  task,      \* what each task is at, and with which batch
  listing,   \* what a reader is at
  since,     \* history: what it would have been shown at every moment so far
  mishaps

found == <<visible, decided, forgotten, old>>
cache == <<pending, fresh>>
reading == <<listing, since>>
rvars == <<found, cache, task, reading, mishaps>>

Notice == {}    \* as a member of fresh; no batch is empty

Idle == [at |-> "idle", batch |-> {}]
Unread == [at |-> "idle", all |-> FALSE, filter |-> {}, pages |-> << >>]

ReviewsInit ==
  /\ visible = {} /\ decided = {} /\ forgotten = {} /\ old = {}
  /\ pending = {} /\ fresh = {}
  /\ task = [t \in Tasks |-> Idle]
  /\ listing = Unread /\ since = {}
  /\ mishaps = 0

-----------------------------------------------------------------------------
(* capture_review_status                                                   *)

\* The order in which observations are put up.
Before(o, p) ==
  \/ CapturedAt[o] < CapturedAt[p]
  \/ CapturedAt[o] = CapturedAt[p] /\ o < p

Unreviewed == visible \ decided

Eligible == Unreviewed \ UNION pending

FirstOf(S, limit) == {o \in S : Cardinality({p \in S : Before(p, o)}) < limit}

Batch == FirstOf(Eligible, BatchLimit)

\* Mutant: a few wait for more.
ReadyWhenMany == Cardinality(Eligible) >= Threshold

Ready ==
  \/ Cardinality(Eligible) >= Threshold
  \/ Eligible # {} /\ FirstOf(Eligible, 1) \subseteq old

-----------------------------------------------------------------------------
(* A scheduled review task                                                 *)

Turns(t, at, batch) == task' = [task EXCEPT ![t] = [at |-> at, batch |-> batch]]

\* should_notify
ReadsStatus(t) ==
  /\ task[t].at = "idle"
  /\ Ready /\ fresh = {}
  /\ Turns(t, "notified", Batch)
  /\ UNCHANGED <<found, cache, mishaps>>

\* capture_get of each member; one that cannot be read ends the task.
ReadsBatch(t) ==
  /\ task[t].at = "notified"
  /\ IF task[t].batch \subseteq visible
     THEN Turns(t, "prepared", task[t].batch) ELSE Turns(t, "idle", {})
  /\ UNCHANGED <<found, cache, mishaps>>

\* Mutant: what the task has read is not compared with what there is now.
IsCurrentUnasked(batch) == TRUE

IsCurrent(batch) == batch = Batch

\* record_capture_review_notice, as far as it holds the Capture lock: a batch
\* that is on record already, or is not the oldest any more, ends it.
Records(t) ==
  /\ task[t].at = "prepared"
  /\ IF task[t].batch \notin pending /\ IsCurrent(task[t].batch)
     THEN /\ pending' = pending \cup {task[t].batch}
          /\ fresh' = fresh \cup {task[t].batch}
          /\ Turns(t, "recorded", task[t].batch)
     ELSE Turns(t, "idle", {}) /\ UNCHANGED cache
  /\ UNCHANGED <<found, mishaps>>

\* and after it: the notice.
Notes(t) ==
  /\ task[t].at = "recorded"
  /\ fresh' = fresh \cup {Notice}
  /\ Turns(t, "idle", {})
  /\ UNCHANGED <<found, pending, mishaps>>

\* The call without batch_observation_ids.
NotesOnly(t) ==
  /\ task[t].at = "prepared"
  /\ mishaps < MaxMishaps /\ mishaps' = mishaps + 1
  /\ fresh' = fresh \cup {Notice}
  /\ Turns(t, "idle", {})
  /\ UNCHANGED <<found, pending>>

\* A lock that is taken, an error of a model, a process that dies.
EndsEarly(t) ==
  /\ task[t].at # "idle"
  /\ mishaps < MaxMishaps /\ mishaps' = mishaps + 1
  /\ Turns(t, "idle", {})
  /\ UNCHANGED <<found, cache>>

Goes(t) == ReadsStatus(t) \/ ReadsBatch(t) \/ Records(t) \/ Notes(t)

-----------------------------------------------------------------------------
(* What happens meanwhile                                                  *)

\* A runner commits what it found in one revision.
Commits(S) ==
  /\ S # {} /\ S \cap (visible \cup forgotten) = {}
  /\ \A o, p \in S : CapturedAt[o] = CapturedAt[p]
  /\ visible' = visible \cup S
  /\ UNCHANGED <<decided, forgotten, old, cache, task, mishaps>>

\* The user decides about some, put up or not (WriteService).
Decides(S) ==
  /\ S # {} /\ S \subseteq Unreviewed
  /\ decided' = decided \cup S
  /\ UNCHANGED <<visible, forgotten, old, cache, task, mishaps>>

\* capture_forget takes an observation with its review (CaptureForget), and
\* leaves the cache alone.
Forgets(o) ==
  /\ o \in visible
  /\ visible' = visible \ {o} /\ decided' = decided \ {o}
  /\ forgotten' = forgotten \cup {o}
  /\ UNCHANGED <<old, cache, task, mishaps>>

\* REVIEW_MAX_AGE_SECONDS pass for what was captured first.
Ages(o) ==
  /\ o \in visible \ old
  /\ \A p \in visible \ old : CapturedAt[o] <= CapturedAt[p]
  /\ old' = old \cup {o}
  /\ UNCHANGED <<visible, decided, forgotten, cache, task, mishaps>>

\* REVIEW_NOTICE_COOLDOWN_SECONDS pass for every notice.
CoolsDown ==
  /\ fresh # {} /\ fresh' = {}
  /\ UNCHANGED <<found, pending, task, mishaps>>

\* .runtime/cache is lost, for example to the restore of a backup.
LosesCache ==
  /\ mishaps < MaxMishaps /\ mishaps' = mishaps + 1
  /\ pending # {} \/ fresh # {}
  /\ pending' = {} /\ fresh' = {}
  /\ UNCHANGED <<found, task>>

-----------------------------------------------------------------------------
(* A listing: capture_search, its page and its cursor                      *)

\* The other order of pages: the latest first.
After(o, p) ==
  \/ CapturedAt[o] < CapturedAt[p]
  \/ CapturedAt[o] = CapturedAt[p] /\ p < o

LatestOf(S) == {o \in S : Cardinality({p \in S : After(o, p)}) < PageLimit}

\* What a query finds among the observations and reviews there are.
Hits(all, filter, seen, reviewed) == (IF all THEN seen ELSE seen \ reviewed) \cap filter

\* Mutant: of several captured at the time of the cursor the rest is left out.
BehindEarlier(items, cursor) == {o \in items : CapturedAt[o] < CapturedAt[cursor]}

Behind(items, cursor) == {o \in items : After(o, cursor)}

\* The cursor names the last of a page.
IsLast(cursor, page) == cursor \in page /\ \A o \in page \ {cursor} : After(cursor, o)

\* What a page leaves decides whether there is a cursor.
Shows(all, filter, pages, items) ==
  LET page == LatestOf(items)
  IN  listing' = [at |-> IF items = page THEN "listed" ELSE "paging",
                  all |-> all, filter |-> filter, pages |-> Append(pages, page)]

Begins(all, filter) ==
  /\ listing.at = "idle"
  /\ LET items == Hits(all, filter, visible, decided)
     IN  Shows(all, filter, << >>, items) /\ since' = items
  /\ UNCHANGED <<found, cache, task, mishaps>>

\* "cursor does not identify a visible observation" ends the listing.
Continues ==
  /\ listing.at = "paging"
  /\ LET items == Hits(listing.all, listing.filter, visible, decided)
     IN  \E cursor \in listing.pages[Len(listing.pages)] :
           /\ IsLast(cursor, listing.pages[Len(listing.pages)])
           /\ IF cursor \in items
              THEN Shows(listing.all, listing.filter, listing.pages, Behind(items, cursor))
              ELSE listing' = Unread
  /\ UNCHANGED <<found, cache, task, since, mishaps>>

\* The reader goes away, or its cursor's key was lost.
Leaves ==
  /\ listing.at # "idle" /\ listing' = Unread /\ since' = {}
  /\ UNCHANGED <<found, cache, task, mishaps>>

-----------------------------------------------------------------------------
\* Whatever happens, what is hidden now was not there at every moment.
Meanwhile ==
  /\ listing' = listing
  /\ since' = since \cap Hits(listing.all, listing.filter, visible', decided')

ReviewsNext ==
  \/ /\ \/ \E t \in Tasks : Goes(t) \/ NotesOnly(t) \/ EndsEarly(t)
        \/ \E S \in SUBSET Findings : Commits(S) \/ Decides(S)
        \/ \E o \in Findings : Forgets(o) \/ Ages(o)
        \/ CoolsDown \/ LosesCache
     /\ Meanwhile
  \/ \E all \in BOOLEAN, filter \in Filters : Begins(all, filter)
  \/ Continues \/ Leaves

ReviewsSpec == ReviewsInit /\ [][ReviewsNext]_rvars

\* Time passes, and the tasks are scheduled again and again.
ReviewsFairSpec ==
  /\ ReviewsSpec
  /\ \A t \in Tasks : WF_rvars(Goes(t) /\ Meanwhile)
  /\ \A o \in Findings : WF_rvars(Ages(o) /\ Meanwhile)
  /\ WF_rvars(CoolsDown /\ Meanwhile)

-----------------------------------------------------------------------------
(* Properties                                                              *)

ReviewsTypeOK ==
  /\ visible \subseteq Findings /\ decided \subseteq visible
  /\ forgotten \subseteq Findings /\ old \subseteq Findings
  /\ pending \subseteq SUBSET Findings /\ fresh \subseteq pending \cup {Notice}
  /\ task \in [Tasks -> [at : {"idle", "notified", "prepared", "recorded"},
                         batch : SUBSET Findings]]
  /\ listing \in [at : {"idle", "paging", "listed"}, all : BOOLEAN,
                  filter : SUBSET Findings, pages : Seq(SUBSET Findings)]
  /\ since \subseteq Findings /\ mishaps \in 0 .. MaxMishaps

\* No observation is put up twice, however many tasks have read the same
\* status, and whatever was committed, decided or forgotten before they record
\* it ("bind selection and publication under the same writer guard").
DispatchedOnce == \A b, c \in pending : b # c => b \cap c = {}

\* Every observation comes before the user, with others or after a day alone:
\* what has been put up and still waits, is decided or forgotten, stands in
\* nobody's way.
QueueMovesOn ==
  \A o \in Findings :
    o \in visible ~> o \in UNION pending \/ o \in decided \/ o \notin visible

\* A listing that comes to its end has shown everything that was there all the
\* time, and nothing twice, whatever was committed, decided or forgotten
\* between its pages and however many were captured at the same time.
ListingIsWhole ==
  listing.at = "listed" =>
    /\ \A o \in since : \E i \in DOMAIN listing.pages : o \in listing.pages[i]
    /\ \A i, j \in DOMAIN listing.pages :
         i # j => listing.pages[i] \cap listing.pages[j] = {}
=============================================================================
