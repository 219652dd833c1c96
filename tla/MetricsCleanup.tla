--------------------------- MODULE MetricsCleanup ---------------------------
(***************************************************************************)
(* The results and reports that the metrics commands derive from a Capture *)
(* source, and how capture_forget removes them (metrics_execution.py,      *)
(* metrics_runner.py, metrics_report_artifacts.py, metrics_forget.py).     *)
(*                                                                         *)
(* Evaluators run a plan: each entry is an attempt in an output directory, *)
(* with one call of a paid model, made outside the root lock.  What is     *)
(* derived from the source is written only inside the lock, after the      *)
(* source was looked up again: the two files of an attempt, and a report   *)
(* at the end.  Users forget the source: the source goes and a clean-up    *)
(* intent comes in one transaction (CaptureForget), and the files go after *)
(* it, now or in a later capture_forget.                                   *)
(*                                                                         *)
(* The root lock is what FileLock promises of it: one owner, and a dead    *)
(* one's is taken over.  One source, the entries of one plan, and reports  *)
(* of one file stand for all; a user whose process dies calls again.       *)
(***************************************************************************)
EXTENDS Naturals, FiniteSets, Sequences

CONSTANTS
  Evaluators, \* processes that evaluate the plan, once each
  Users,      \* processes that call capture_forget or restore
  Free,       \* no owner
  Dirs,       \* output directories
  OutputsOf,  \* for each evaluator those it may be given
  DependsOn,  \* for each entry of the plan the one it needs, or 0
  MaxMishaps  \* bound: deaths, deletions that fail, and restores

ASSUME MetricsAssumption ==
  /\ Users \cap Evaluators = {} /\ Free \notin Users \cup Evaluators
  /\ OutputsOf \in [Evaluators -> SUBSET Dirs]
  /\ DependsOn \in Seq(Nat) \ {<< >>} /\ \A n \in DOMAIN DependsOn : DependsOn[n] < n
  /\ MaxMishaps \in Nat

Processes == Evaluators \cup Users
Entries == DOMAIN DependsOn
Places == Dirs \X Entries

VARIABLES
  root,        \* the living owner of the root lock
  cmd,         \* what each process is at
  attempts,    \* the attempt directories
  reserved,    \* entries whose single call of the model is taken
  registered,  \* attempts in the artifact registry
  reports,     \* the files of each evaluator's report
  live,        \* the source can still be resolved
  intent,      \* a clean-up intent is on disk
  answered,    \* a user was told that the source is forgotten
  sent,        \* how often the model was given each entry
  torn,        \* a process died while it wrote a record that is read back
  dropped,     \* a restore removed an intent
  count        \* of the mishaps

ledger == <<reserved, registered, sent>>
truth == <<live, intent, answered>>
mishaps == <<torn, dropped, count>>
data == <<attempts, reports, ledger, truth, mishaps>>
mvars == <<root, cmd, data>>

Files == {"result", "receipt"}

\* An attempt: its status, its files, and the process that holds its lock file.
Attempt(p) == [status |-> "in_progress", files |-> {}, by |-> p]
NoAttempt == [status |-> "none", files |-> {}, by |-> Free]

\* at: the next step; entry, dir, usable: an evaluator's place, and the entries
\* it has verified; todo, found, own: what a clean-up has yet to delete, the
\* inventory it found, and whether it is of the present request.
Idle == [at |-> "idle", entry |-> 1, dir |-> Free, usable |-> {},
         todo |-> {}, found |-> {}, own |-> FALSE]

MetricsInit ==
  /\ root = Free
  /\ cmd = [p \in Processes |-> Idle]
  /\ attempts = [x \in Places |-> NoAttempt]
  /\ reserved = {} /\ registered = {}
  /\ reports = [p \in Evaluators |-> {}]
  /\ live = TRUE /\ intent = FALSE /\ answered = FALSE
  /\ sent = [n \in Entries |-> 0]
  /\ torn = FALSE /\ dropped = FALSE
  /\ count = 0

-----------------------------------------------------------------------------
IsAt(p, step) == cmd[p].at = step
Holds(p, step) == IsAt(p, step) /\ root = p

To(p, step) == cmd' = [cmd EXCEPT ![p].at = step]

Place(p) == <<cmd[p].dir, cmd[p].entry>>
Sets(x, attempt) == attempts' = [attempts EXCEPT ![x] = attempt]

\* At step, a command takes the root lock to do one of its sections.
Enters(p, step, section) ==
  /\ IsAt(p, step)
  /\ root = Free
  /\ root' = p
  /\ To(p, section)
  /\ UNCHANGED data

\* root_write_lock raised: what follows is another step.
IsRefused(p, step, next) ==
  /\ IsAt(p, step)
  /\ root # Free
  /\ To(p, next)
  /\ UNCHANGED <<root, data>>

Leaves(p, step) == root' = Free /\ To(p, step)

-----------------------------------------------------------------------------
(* An evaluator: run_plan and execute_entry                                *)

\* The source of the plan is bound in the ledger before anything else.
Evaluates(p) ==
  /\ p \in Evaluators /\ IsAt(p, "idle")
  /\ \E d \in OutputsOf[p] : cmd' = [cmd EXCEPT ![p].at = "next", ![p].dir = d]
  /\ UNCHANGED <<root, data>>

IsBound == \E p \in Evaluators : cmd[p].at # "idle"

\* What an entry rests on, itself included.
Chain[n \in Entries] == {n} \cup IF DependsOn[n] = 0 THEN {} ELSE Chain[DependsOn[n]]

\* verify_saved_step: the attempts of the chain are complete, registered and
\* have their files, and the source can be resolved.
IsVerified(d, n) ==
  /\ live
  /\ \A m \in Chain[n] :
       /\ <<d, m>> \in registered
       /\ attempts[<<d, m>>].status = "completed" /\ attempts[<<d, m>>].files = Files

GoesOn(p, usable) ==
  cmd' = [cmd EXCEPT ![p].at = IF cmd[p].entry + 1 \in Entries THEN "next" ELSE "planned",
                     ![p].entry = @ + 1, ![p].usable = @ \cup usable]

\* Judged insufficient, an entry that can be verified is of no use to another.
Verifies(p) ==
  \E usable \in SUBSET (IF IsVerified(cmd[p].dir, cmd[p].entry) THEN {cmd[p].entry} ELSE {}) :
    GoesOn(p, usable)

LacksDependency(n, usable) == DependsOn[n] # 0 /\ DependsOn[n] \notin usable

\* dependency_unavailable; an attempt that is there already; no source.
Skips(p) ==
  /\ IsAt(p, "next")
  /\ LET n == cmd[p].entry
     IN  CASE LacksDependency(n, cmd[p].usable) -> GoesOn(p, {})
           [] attempts[Place(p)] # NoAttempt -> Verifies(p)
           [] ~ live -> GoesOn(p, {})
           [] OTHER -> FALSE
  /\ UNCHANGED <<root, data>>

\* The directory is made, locked and gets started.json and dependencies.json.
Opens(p) ==
  /\ IsAt(p, "next") /\ ~ LacksDependency(cmd[p].entry, cmd[p].usable)
  /\ attempts[Place(p)] = NoAttempt /\ live
  /\ Sets(Place(p), Attempt(p))
  /\ To(p, "opened")
  /\ UNCHANGED <<root, reports, ledger, truth, mishaps>>

\* Mutant: a reservation of another directory's run is not seen.
ReservesAnyway(p) ==
  /\ IsAt(p, "opened")
  /\ IF live
     THEN reserved' = reserved \cup {cmd[p].entry} /\ To(p, "reserved")
     ELSE UNCHANGED reserved /\ To(p, "failing")
  /\ UNCHANGED <<root, attempts, reports, registered, sent, truth, mishaps>>

\* Checked again, and the one call of the entry is taken, never to be returned.
Reserves(p) ==
  /\ IsAt(p, "opened")
  /\ IF live /\ cmd[p].entry \notin reserved
     THEN reserved' = reserved \cup {cmd[p].entry} /\ To(p, "reserved")
     ELSE UNCHANGED reserved /\ To(p, "failing")
  /\ UNCHANGED <<root, attempts, reports, registered, sent, truth, mishaps>>

Registers(p) ==
  /\ IsAt(p, "reserved")
  /\ registered' = registered \cup {Place(p)}
  /\ To(p, "registered")
  /\ UNCHANGED <<root, attempts, reports, reserved, sent, truth, mishaps>>

\* The gateway's before_send binds the host to the memory root, in a section that
\* has no other effect.
Binds(p) == Holds(p, "binding") /\ Leaves(p, "sending") /\ UNCHANGED data

Sends(p) ==
  /\ IsAt(p, "sending")
  /\ sent' = [sent EXCEPT ![cmd[p].entry] = @ + 1]
  /\ To(p, "sent")
  /\ UNCHANGED <<root, attempts, reports, reserved, registered, truth, mishaps>>

\* The model fails, or what it says is no assessment.
FailsToAnswer(p) ==
  /\ IsAt(p, "sent")
  /\ To(p, "failing")
  /\ UNCHANGED <<root, data>>

Gains(p, file) ==
  /\ Sets(Place(p), [attempts[Place(p)] EXCEPT !.files = @ \cup {file}])
  /\ UNCHANGED <<reports, ledger, truth, mishaps>>

\* Mutant: the source is not looked up again inside the lock.
WritesUnchecked(p) ==
  Holds(p, "committing") /\ Gains(p, "result") /\ To(p, "written") /\ UNCHANGED root

\* The commit guard: source and registration are checked, then both files written.
WritesResult(p) ==
  /\ Holds(p, "committing")
  /\ IF live
     THEN Gains(p, "result") /\ To(p, "written") /\ UNCHANGED root
     ELSE Leaves(p, "failing") /\ UNCHANGED data

WritesReceipt(p) == Holds(p, "written") /\ Gains(p, "receipt") /\ Leaves(p, "completing")

\* finished.json, outside the root lock; the attempt's own lock goes with it.
Finishes(p) ==
  /\ IsAt(p, "completing") \/ IsAt(p, "failing")
  /\ Sets(Place(p), [attempts[Place(p)] EXCEPT
                       !.status = IF IsAt(p, "completing") THEN "completed" ELSE "error"])
  /\ To(p, "finished")
  /\ UNCHANGED <<root, reports, ledger, truth, mishaps>>

\* What the run just wrote, or gave up, is verified as if it were found.
ReadsBack(p) == IsAt(p, "finished") /\ Verifies(p) /\ UNCHANGED <<root, data>>

-----------------------------------------------------------------------------
(* Its report: publish_bundle, inside the lock to the end                  *)

\* The source of every case is looked up, then the report is registered.
Publishes(p) ==
  /\ Holds(p, "publishing")
  /\ IF live THEN To(p, "staging") /\ UNCHANGED root ELSE Leaves(p, "ended")
  /\ UNCHANGED data

HasReport(p, files) ==
  /\ reports' = [reports EXCEPT ![p] = files]
  /\ UNCHANGED <<attempts, ledger, truth, mishaps>>

\* The file comes by a hard link from a staging file.
Stages(p) ==
  Holds(p, "staging") /\ HasReport(p, {"staging"}) /\ To(p, "linking") /\ UNCHANGED root
Links(p) ==
  Holds(p, "linking") /\ HasReport(p, {"staging", "final"}) /\ To(p, "unstaging") /\ UNCHANGED root
Unstages(p) == Holds(p, "unstaging") /\ HasReport(p, {"final"}) /\ Leaves(p, "ended")

-----------------------------------------------------------------------------
(* capture_forget                                                          *)

\* Whatever the answer is, the user may ask again.
Answers(u) == Leaves(u, "idle")

\* Mutant: what an earlier request left is not resumed.
ForgetsAtOnce(u) ==
  Holds(u, "recovering") /\ To(u, "forgetting") /\ UNCHANGED <<root, data>>

\* A pending intent comes first; only then is the source looked for.
Recovers(u) ==
  /\ Holds(u, "recovering")
  /\ IF intent
     THEN cmd' = [cmd EXCEPT ![u].at = "collecting", ![u].own = FALSE]
     ELSE To(u, "forgetting")
  /\ UNCHANGED <<root, data>>

NotFound(u) == Holds(u, "forgetting") /\ ~ live /\ Answers(u) /\ UNCHANGED data

\* Source and intent change in one transaction.
Commits(u) ==
  /\ Holds(u, "forgetting") /\ live
  /\ live' = FALSE /\ intent' = TRUE
  /\ cmd' = [cmd EXCEPT ![u].at = "collecting", ![u].own = TRUE]
  /\ UNCHANGED <<root, attempts, reports, ledger, answered, mishaps>>

\* attempt_state: its process holds the lock of an unfinished attempt.
IsActive(x) == attempts[x].status = "in_progress" /\ cmd[attempts[x].by].at # "dead"

\* cleanup_candidates: every record can be read, and no attempt is pending.
CanCollect == ~ torn /\ registered # {} /\ \A x \in registered : ~ IsActive(x)

\* capture_metrics_cleanup_pending
Defers(u) == Answers(u) /\ UNCHANGED data

\* A host that never prepared a plan has nothing to clean.
Collects(u) ==
  /\ Holds(u, "collecting")
  /\ CASE ~ IsBound -> To(u, "clearing") /\ UNCHANGED <<root, data>>
       [] IsBound /\ CanCollect ->
            /\ cmd' = [cmd EXCEPT ![u].at = "deleting", ![u].found = registered,
                         ![u].todo = {t \in registered \X Files : t[2] \in attempts[t[1]].files}]
            /\ UNCHANGED <<root, data>>
       [] OTHER -> Defers(u)

\* apply_cleanup
Deletes(u) ==
  /\ Holds(u, "deleting")
  /\ \E t \in cmd[u].todo :
       /\ Sets(t[1], [attempts[t[1]] EXCEPT !.files = @ \ {t[2]}])
       /\ cmd' = [cmd EXCEPT ![u].todo = @ \ {t}]
  /\ UNCHANGED <<root, reports, ledger, truth, mishaps>>

\* The postcondition: nothing else was registered meanwhile.
Confirms(u) ==
  /\ Holds(u, "deleting") /\ cmd[u].todo = {}
  /\ IF registered = cmd[u].found
     THEN To(u, "reporting") /\ UNCHANGED <<root, data>>
     ELSE Defers(u)

\* cleanup_reports: the report goes before its staging file.
DeletesReport(u) ==
  /\ Holds(u, "reporting")
  /\ \E p \in Evaluators :
       /\ reports[p] # {}
       /\ reports' = [reports EXCEPT ![p] = IF "final" \in @ THEN @ \ {"final"} ELSE {}]
  /\ UNCHANGED <<root, cmd, attempts, ledger, truth, mishaps>>

EndsReports(u) ==
  /\ Holds(u, "reporting") /\ \A p \in Evaluators : reports[p] = {}
  /\ To(u, "clearing")
  /\ UNCHANGED <<root, data>>

\* The intent goes last; the request goes on, or is answered.
Clears(u) ==
  /\ Holds(u, "clearing")
  /\ intent' = FALSE
  /\ answered' = (answered \/ cmd[u].own)
  /\ IF cmd[u].own THEN Answers(u) ELSE To(u, "forgetting") /\ UNCHANGED root
  /\ UNCHANGED <<attempts, reports, ledger, live, mishaps>>

Strikes == count < MaxMishaps /\ count' = count + 1

FailsToDelete(u) ==
  /\ Holds(u, "deleting") \/ Holds(u, "reporting") \/ Holds(u, "clearing")
  /\ Strikes
  /\ Answers(u)
  /\ UNCHANGED <<attempts, reports, ledger, truth, torn, dropped>>

\* backup_restore, under the same lock, keeps no intents.
Restores(u) ==
  /\ Holds(u, "recovering")
  /\ Strikes
  /\ intent' = FALSE
  /\ dropped' = (dropped \/ intent)
  /\ Answers(u)
  /\ UNCHANGED <<attempts, reports, ledger, live, answered, torn>>

-----------------------------------------------------------------------------
\* A process that dies while it writes a registration, the terminal of a
\* registered attempt or the record of a report leaves a part of it.
MayTear(p) ==
  \/ cmd[p].at = "reserved"
  \/ cmd[p].at \in {"completing", "failing"} /\ Place(p) \in registered
  \/ cmd[p].at = "staging"

Dies(p) ==
  /\ cmd[p].at \notin {"idle", "ended", "dead"}
  /\ Strikes
  /\ cmd' = [cmd EXCEPT ![p] = IF p \in Users THEN Idle ELSE [@ EXCEPT !.at = "dead"]]
  /\ root' = IF root = p THEN Free ELSE root
  /\ torn' \in {torn} \cup IF MayTear(p) THEN {TRUE} ELSE {}
  /\ UNCHANGED <<attempts, reports, ledger, truth, dropped>>

EvaluatorStep(p) ==
  \/ Skips(p) \/ Opens(p) \/ Reserves(p) \/ Registers(p)
  \/ Enters(p, "registered", "binding") \/ IsRefused(p, "registered", "failing") \/ Binds(p)
  \/ Sends(p) \/ FailsToAnswer(p)
  \/ Enters(p, "sent", "committing") \/ IsRefused(p, "sent", "failing")
  \/ WritesResult(p) \/ WritesReceipt(p) \/ Finishes(p) \/ ReadsBack(p)
  \/ Enters(p, "planned", "publishing") \/ IsRefused(p, "planned", "ended")
  \/ Publishes(p) \/ Stages(p) \/ Links(p) \/ Unstages(p)

UserStep(u) ==
  \/ Enters(u, "idle", "recovering")
  \/ Recovers(u) \/ NotFound(u) \/ Commits(u) \/ Collects(u) \/ Deletes(u) \/ Confirms(u)
  \/ DeletesReport(u) \/ EndsReports(u) \/ Clears(u)

MetricsNext ==
  \/ \E p \in Processes : Dies(p)
  \/ \E p \in Evaluators : Evaluates(p) \/ EvaluatorStep(p)
  \/ \E u \in Users : UserStep(u) \/ FailsToDelete(u) \/ Restores(u)

MetricsSpec == MetricsInit /\ [][MetricsNext]_mvars

\* A process that lives runs on; a user repeats the request, and one that runs
\* finds the lock free again and again, for the evaluators come to their ends.
MetricsFairSpec ==
  /\ MetricsSpec
  /\ \A p \in Evaluators : WF_mvars(EvaluatorStep(p))
  /\ \A u \in Users : WF_mvars(UserStep(u))

-----------------------------------------------------------------------------
(* Properties                                                              *)

IsGone ==
  /\ \A x \in Places : attempts[x].files = {}
  /\ \A p \in Evaluators : reports[p] = {}

\* Once a user was told that the source is forgotten, no file that was derived
\* from it is left, and none comes from what was under way: the model's answer
\* of an attempt that began before, or the report of a run that verified its
\* results before.
NoResultOutlivesForget == answered => IsGone

\* The model is given an entry at most once, in whatever directories and by
\* however many runs its plan is evaluated: "cannot return a slot".
SentOnce == \A n \in Entries : sent[n] <= 1

\* What no capture_forget gets past, see the README: a torn record, a plan that
\* was bound and none of whose attempts was registered, an intent lost in a restore.
IsBlocked ==
  \/ torn \/ dropped
  \/ IsBound /\ registered = {}

\* A source whose forgetting was committed is followed by its results, whoever
\* died at whatever point: "A later explicit capture_forget first resumes".
CleanupEnds == intent ~> (IsGone /\ ~ intent) \/ IsBlocked

=============================================================================
