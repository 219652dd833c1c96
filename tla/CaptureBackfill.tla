-------------------------- MODULE CaptureBackfill --------------------------
(***************************************************************************)
(* What the model is paid for: agc_runtime/capture_budget.py, the          *)
(* preparation and authorization of a backfill (capture_backfill.py), the  *)
(* manual and the background run over several revisions                    *)
(* (capture_runner.py), their commands (capture_cli.py) and the calls of   *)
(* the extractor (codex_extractor.py).                                     *)
(*                                                                         *)
(* The files of one receipt are CaptureStore's business and those of a     *)
(* scan CaptureScan's: a receipt changes here in one step, and a scan is   *)
(* its recovery and the census it freezes.  One runner is at work at a     *)
(* time, capture_runner_lock sees to that; the user edits config.yaml,     *)
(* prepares backfills and retries beside it.                               *)
(***************************************************************************)
EXTENDS CaptureStatus, Naturals, FiniteSetsExt, Sequences

CONSTANTS
  Revisions,
  Configs,      \* the contents config.yaml may be given
  FirstConfig,
  Models,       \* what the executable may report as its model
  None,         \* no file, no limit, no explicit model
  HostIsStill,  \* assumption: what the executable calls by default does not
                \* change under a run
  MaxAttempts,  \* bound: extractions of one revision
  MaxCensuses,  \* bound: full scans
  MaxEdits,     \* bound: edits of config.yaml and changes of the host
  MaxFaults     \* bound: commands that raise or die

\* Capture is enabled unless its mode is off.  most: the maximum of one call,
\* which follows from capsule.max_tokens.
Config == [mode : {"off", "scanner_only", "runner"}, paused : BOOLEAN,
           backfill : Nat \ {0}, incremental : (Nat \ {0}) \cup {None},
           model : Models \cup {None}, most : Nat \ {0}, attempts : Nat \ {0}]

Receipt == [status : Statuses, attempt : Nat, usage : Nat]

ASSUME BackfillAssumption ==
  /\ Configs \subseteq Config /\ FirstConfig \in Configs
  /\ HostIsStill \in BOOLEAN /\ None \notin Nat \cup Receipt
  /\ MaxAttempts \in Nat /\ MaxCensuses \in Nat /\ MaxEdits \in Nat
  /\ MaxFaults \in Nat

VARIABLES
  config,        \* config.yaml
  host,          \* the model the executable calls when none is named
  receipts,      \* of each revision, or None
  held,          \* revisions with a live lease
  censuses,      \* the frozen runs: sets of revisions
  preparations,  \* the files of the authorized backfills
  pools,         \* the ceiling each pool file names
  entries,       \* the reservations, with what they were settled at
  prepare,       \* the command prepare-backfill
  run,           \* the command backfill or run
  spent,         \* history: tokens of each pool the calls consumed
  calls,         \* history: the extractor calls
  edits,         \* history, for the bounds
  faults

outside == <<config, host, edits>>
frozen == <<censuses, preparations>>
budget == <<pools, entries>>
history == <<spent, calls, faults>>

vars == <<outside, receipts, held, frozen, budget, prepare, run, history>>

CensusIds == 1 .. MaxCensuses
Incremental == 0
Pools == CensusIds \cup {Incremental}

\* What one call may consume.  More than the maximum is charged as the maximum
\* and left out.
Usages == UNION {1 .. c.most : c \in Configs}

New == [status |-> "discovered", attempt |-> 0, usage |-> 0]

Idle == [at |-> "idle"]
At(command, stage) == command.at = stage

\* A command comes to know something more.
With(command, field, value) ==
  [f \in DOMAIN command \cup {field} |-> IF f = field THEN value ELSE command[f]]

Init ==
  /\ config = FirstConfig /\ host \in Models
  /\ receipts = [r \in Revisions |-> None]
  /\ held = {} /\ censuses = << >> /\ preparations = {}
  /\ pools = [p \in Pools |-> None] /\ entries = {}
  /\ prepare = Idle /\ run = Idle
  /\ spent = [p \in Pools |-> 0] /\ calls = {} /\ edits = 0 /\ faults = 0

-----------------------------------------------------------------------------
(* The budget                                                              *)

Of(pool) == {e \in entries : e.pool = pool}

\* A settlement is a file of its own; None stands for its absence.
Cost(e) == IF e.charged = None THEN e.most ELSE e.charged

Charged(pool) == MapThenSumSet(Cost, Of(pool))

\* _ensure_pool_locked: the first to ask fixes the ceiling of the pool.
PoolAgrees(pool, ceiling) == pools[pool] \in {None, ceiling}

Snapshot(pool, ceiling) == pools' = [pools EXCEPT ![pool] = ceiling]

Reservation(pool, r, attempt) ==
  {e \in Of(pool) : e.key = r /\ e.attempt = attempt}

Fits(pool, most, ceiling) == Charged(pool) + most <= ceiling

\* prepare_settlement: a usage that is unknown or above the maximum is
\* charged at the maximum.
Charge(usage) ==
  IF usage # None /\ usage <= run.config.most THEN usage ELSE run.config.most

\* persist_settlement_locked.
Settle(usage) ==
  LET own == Reservation(run.pool, run.item, run.attempt)
  IN  entries' = (entries \ own)
                   \cup {[e EXCEPT !.charged = Charge(usage)] : e \in own}

-----------------------------------------------------------------------------
(* The extractor                                                           *)

\* What a call goes to, and what the smoke call of probe_capabilities
\* reports.  The probe itself is a call that no budget is charged with.
Boundary(model) == IF model = None THEN host ELSE model

-----------------------------------------------------------------------------
(* prepare-backfill                                                        *)

MayPrepare(c) == c.mode = "scanner_only" /\ ~c.paused

\* The command builds the extractor from the config it reads.
PrepareCalled ==
  /\ At(prepare, "idle") /\ MayPrepare(config)
  /\ Len(censuses) < MaxCensuses
  /\ prepare' = [at |-> "called", model |-> config.model]
  /\ UNCHANGED <<outside, receipts, held, frozen, budget, run, history>>

\* prepare_backfill reads it again, and then probes the extractor.
PrepareChecked ==
  /\ At(prepare, "called")
  /\ prepare' = IF MayPrepare(config)
                THEN [at |-> "checked", config |-> config,
                      boundary |-> Boundary(prepare.model)]
                ELSE Idle
  /\ UNCHANGED <<outside, receipts, held, frozen, budget, run, history>>

\* recover_transactions asks for no lease.
Recovered(r) ==
  IF receipts[r] # None /\ receipts[r].status = "extracting"
  THEN [receipts[r] EXCEPT !.status = "retryable"] ELSE receipts[r]

\* The full scan: it recovers, freezes what the window shows and registers it.
PrepareScans(window) ==
  /\ At(prepare, "checked")
  /\ censuses' = Append(censuses, window)
  /\ receipts' = [r \in Revisions |->
                    IF r \in window /\ receipts[r] = None THEN New
                    ELSE Recovered(r)]
  /\ prepare' = With([prepare EXCEPT !.at = "scanned"], "census", Len(censuses'))
  /\ UNCHANGED <<outside, held, preparations, budget, run, history>>

\* The pool of the new census, then the file of the preparation.
PreparePools ==
  /\ At(prepare, "scanned")
  /\ Snapshot(prepare.census, prepare.config.backfill)
  /\ prepare' = [prepare EXCEPT !.at = "pooled"]
  /\ UNCHANGED <<outside, receipts, held, frozen, entries, run, history>>

PrepareWrites ==
  /\ At(prepare, "pooled")
  /\ preparations' = preparations \cup
       {[census |-> prepare.census, config |-> prepare.config,
         boundary |-> prepare.boundary]}
  /\ prepare' = Idle
  /\ UNCHANGED <<outside, receipts, held, censuses, budget, run, history>>

Fault == faults < MaxFaults /\ faults' = faults + 1

\* A scan that is not healthy, an exception, or the end of the process.
PrepareStops ==
  /\ prepare # Idle /\ Fault
  /\ prepare' = Idle
  /\ UNCHANGED <<outside, receipts, held, frozen, budget, run, spent, calls>>

-----------------------------------------------------------------------------
(* The start of a run                                                      *)

Called(preparation) ==
  /\ At(run, "idle")
  /\ run' = [at |-> "called", model |-> config.model,
             preparation |-> preparation]
  /\ UNCHANGED <<outside, receipts, held, frozen, budget, prepare, history>>

\* The command reads the config for its extractor; backfill loads the
\* preparation the user names.
BackfillCalled == \E p \in preparations : Called(p)

\* run, or the scheduled worker.  The incremental scan it may start with
\* registers and freezes as PrepareScans does, and is left out here.
RunOnceCalled == config.mode = "runner" /\ Called(None)

\* Mutant: the report of the probe is not compared.
ConfigIsPrepared(p) == config = p.config

\* _validate_authorization: the config, read again, and the extractor, built
\* from the config as it was, must both be those of the preparation.
IsAuthorized(p) == config = p.config /\ Boundary(run.model) = p.boundary

\* The run reads the config again.  A manual one recovers everything.
StartManual ==
  /\ At(run, "called") /\ run.preparation # None
  /\ IF config.paused \/ ~IsAuthorized(run.preparation)
     THEN run' = Idle /\ UNCHANGED receipts
     ELSE /\ run' = [at |-> "started", model |-> run.model, config |-> config,
                     pool |-> run.preparation.census,
                     ceiling |-> config.backfill,
                     census |-> run.preparation.census]
          /\ receipts' = [r \in Revisions |-> Recovered(r)]
  /\ UNCHANGED <<outside, held, frozen, budget, prepare, history>>

\* A background run recovers what no live lease protects, and takes the
\* latest census.  Without a healthy baseline it raises (RunRaises).
StartBackground ==
  /\ At(run, "called") /\ run.preparation = None
  /\ receipts' = [r \in Revisions |->
                    IF r \in held THEN receipts[r] ELSE Recovered(r)]
  /\ run' = IF /\ config.mode = "runner" /\ ~config.paused
               /\ config.incremental # None /\ censuses # << >>
            THEN [at |-> "started", model |-> run.model, config |-> config,
                  pool |-> Incremental, ceiling |-> config.incremental,
                  census |-> Len(censuses)]
            ELSE Idle
  /\ UNCHANGED <<outside, held, frozen, budget, prepare, history>>

IsReady(r) == receipts[r] # None /\ receipts[r].status \in Ready

\* Those that are due are chosen by CaptureSelection's rules, here any of
\* them; a ceiling other than the one the pool was created with is a conflict.
Select(chosen) ==
  /\ At(run, "started")
  /\ \A r \in chosen : r \in censuses[run.census] /\ IsReady(r)
  /\ IF PoolAgrees(run.pool, run.ceiling)
     THEN /\ Snapshot(run.pool, run.ceiling)
          /\ run' = With([run EXCEPT !.at = "item"], "todo", chosen)
     ELSE run' = Idle /\ UNCHANGED pools
  /\ UNCHANGED <<outside, receipts, held, frozen, entries, prepare, history>>

-----------------------------------------------------------------------------
(* One item of a run                                                       *)

\* The next item is taken up under a lease; somebody else may hold it.
Lease(r) ==
  /\ At(run, "item") /\ r \in run.todo
  /\ IF r \in held
     THEN run' = [run EXCEPT !.todo = @ \ {r}] /\ UNCHANGED held
     ELSE /\ held' = held \cup {r}
          /\ run' = With(With([run EXCEPT !.at = "leased", !.todo = @ \ {r}], "item", r),
                         "attempt", receipts[r].attempt + 1)
  /\ UNCHANGED <<outside, receipts, frozen, budget, prepare, history>>

\* The finally block: the lease is released and the next item comes.
NextItem ==
  /\ held' = held \ {run.item}
  /\ run' = [f \in DOMAIN run \ {"item", "attempt", "usage"} |->
               IF f = "at" THEN "item" ELSE run[f]]

Becomes(status) == receipts' = [receipts EXCEPT ![run.item].status = status]

\* load_capsule raises: a source that is not there is tried again later and
\* costs no attempt, one that changed is parked, of any other error the
\* receipt says nothing.  For queued there is no way to quarantined: that
\* exception ends the run (RunRaises).
Unreadable(target) ==
  /\ At(run, "leased")
  /\ \/ target = "retryable"
     \/ target = "quarantined" /\ receipts[run.item].status # "queued"
     \/ target = receipts[run.item].status
  /\ Becomes(target)
  /\ NextItem
  /\ UNCHANGED <<outside, frozen, budget, prepare, history>>

\* Nothing durable in the capsule: complete without a reservation or a call.
NoSignal ==
  /\ At(run, "leased") /\ IsReady(run.item)
  /\ receipts[run.item].attempt < MaxAttempts
  /\ receipts' = [receipts EXCEPT ![run.item].status = "complete",
                                  ![run.item].attempt = @ + 1]
  /\ NextItem
  /\ UNCHANGED <<outside, frozen, budget, prepare, history>>

\* reserve: what is there already for this attempt is taken again, unless its
\* maximum was another; otherwise there must be room under the ceiling.
Reserve ==
  LET present == Reservation(run.pool, run.item, run.attempt)
      fresh == [pool |-> run.pool, key |-> run.item, attempt |-> run.attempt,
                most |-> run.config.most, charged |-> None]
  IN  /\ At(run, "leased")
      /\ \A e \in present : e.most = run.config.most
      /\ present = {} => Fits(run.pool, run.config.most, run.ceiling)
      /\ entries' = IF present = {} THEN entries \cup {fresh} ELSE entries
      /\ run' = [run EXCEPT !.at = "reserved"]
      /\ UNCHANGED <<outside, receipts, held, frozen, pools, prepare, history>>

\* capture_budget_conflict: the item has failed, its receipt is as before.
Conflicting ==
  /\ At(run, "leased")
  /\ \E e \in Reservation(run.pool, run.item, run.attempt) :
       e.most # run.config.most
  /\ NextItem
  /\ UNCHANGED <<outside, receipts, frozen, budget, prepare, history>>

\* BudgetUnavailable.
Defer ==
  /\ At(run, "leased")
  /\ Reservation(run.pool, run.item, run.attempt) = {}
  /\ ~Fits(run.pool, run.config.most, run.ceiling)
  /\ Becomes("deferred_budget")
  /\ NextItem
  /\ UNCHANGED <<outside, frozen, budget, prepare, history>>

\* Mutant: attempts are counted when they end.
BegunUncounted(r) == [r EXCEPT !.status = "extracting"]

Begun(r) == [r EXCEPT !.status = "extracting", !.attempt = @ + 1]

BeginExtraction ==
  /\ At(run, "reserved") /\ IsReady(run.item)
  /\ receipts[run.item].attempt < MaxAttempts
  /\ receipts' = [receipts EXCEPT ![run.item] = Begun(@)]
  /\ run' = [run EXCEPT !.at = "begun"]
  /\ UNCHANGED <<outside, held, frozen, budget, prepare, history>>

\* extract: from here on the tokens are gone whatever becomes of the run.
Extract(usage) ==
  /\ At(run, "begun")
  /\ usage \in 1 .. run.config.most
  /\ spent' = [spent EXCEPT ![run.pool] = @ + usage]
  /\ calls' = calls \cup {[pool |-> run.pool, key |-> run.item,
                           attempt |-> run.attempt, most |-> run.config.most,
                           boundary |-> Boundary(run.model)]}
  /\ run' = With([run EXCEPT !.at = "extracted"], "usage", usage)
  /\ UNCHANGED <<outside, receipts, held, frozen, budget, prepare, faults>>

\* commit_extraction settles and completes; a charge below that of an earlier
\* attempt is refused, and the receipt stays as it is.
MayCommit(charge) ==
  LET r == receipts[run.item]
  IN  r.status # "complete" /\ r.attempt = run.attempt /\ charge >= r.usage

\* The usage of a call may not be known.
Succeed(usage) ==
  /\ At(run, "extracted") /\ usage \in {run.usage, None}
  /\ IF MayCommit(Charge(usage))
     THEN /\ Settle(usage)
          /\ receipts' = [receipts EXCEPT ![run.item].status = "complete",
                                          ![run.item].usage = Charge(usage)]
     ELSE UNCHANGED <<entries, receipts>>
  /\ NextItem
  /\ UNCHANGED <<outside, frozen, pools, prepare, history>>

\* transition_with_settlement, from extracting only; a failure has no usage.
ExtractFails ==
  /\ At(run, "extracted")
  /\ IF receipts[run.item].status = "extracting"
     THEN /\ Settle(None)
          /\ receipts' = [receipts EXCEPT
               ![run.item].status = IF run.attempt >= run.config.attempts
                                    THEN "failed" ELSE "retryable",
               ![run.item].usage = run.config.most]
     ELSE UNCHANGED <<entries, receipts>>
  /\ NextItem
  /\ UNCHANGED <<outside, frozen, pools, prepare, history>>

Finish ==
  /\ At(run, "item") /\ run.todo = {}
  /\ run' = Idle
  /\ UNCHANGED <<outside, receipts, held, frozen, budget, prepare, history>>

Item == IF "item" \in DOMAIN run THEN {run.item} ELSE {}

\* A busy write lock, a census that no longer validates, a transition that is
\* refused: the exception ends the run, the finally releases the lease.
RunRaises ==
  /\ run # Idle /\ Fault
  /\ held' = held \ Item
  /\ run' = Idle
  /\ UNCHANGED <<outside, receipts, frozen, budget, prepare, spent, calls>>

\* The process dies; the lease stays until its time is up.
RunDies ==
  /\ run # Idle /\ Fault
  /\ run' = Idle
  /\ UNCHANGED <<outside, receipts, held, frozen, budget, prepare, spent,
                 calls>>

LeaseExpires(r) ==
  /\ r \in held \ Item
  /\ held' = held \ {r}
  /\ UNCHANGED <<outside, receipts, frozen, budget, prepare, run, history>>

-----------------------------------------------------------------------------
(* The user                                                                *)

\* retry_capture_receipt; what was deferred for lack of budget is not parked.
Retry(r) ==
  /\ receipts[r] # None /\ receipts[r].status \in {"failed", "quarantined"}
  /\ r \notin held
  /\ receipts' = [receipts EXCEPT ![r].status = "queued"]
  /\ UNCHANGED <<outside, held, frozen, budget, prepare, run, history>>

Edit(c) ==
  /\ edits < MaxEdits /\ c # config
  /\ config' = c /\ edits' = edits + 1
  /\ UNCHANGED <<host, receipts, held, frozen, budget, prepare, run, history>>

HostChanges(model) ==
  /\ edits < MaxEdits /\ model # host
  /\ HostIsStill => run = Idle
  /\ host' = model /\ edits' = edits + 1
  /\ UNCHANGED <<config, receipts, held, frozen, budget, prepare, run, history>>

-----------------------------------------------------------------------------
RunnerNext ==
  \/ BackfillCalled \/ RunOnceCalled
  \/ StartManual \/ StartBackground
  \/ \E chosen \in SUBSET Revisions : Select(chosen)
  \/ \E r \in Revisions : Lease(r)
  \/ \E target \in Statuses : Unreadable(target)
  \/ NoSignal \/ Reserve \/ Conflicting \/ Defer \/ BeginExtraction
  \/ \E usage \in Usages : Extract(usage)
  \/ \E usage \in Usages \cup {None} : Succeed(usage)
  \/ ExtractFails \/ Finish \/ RunRaises \/ RunDies

PrepareNext ==
  \/ PrepareCalled \/ PrepareChecked
  \/ \E window \in SUBSET Revisions : PrepareScans(window)
  \/ PreparePools \/ PrepareWrites \/ PrepareStops

Next ==
  \/ RunnerNext \/ PrepareNext
  \/ \E r \in Revisions : LeaseExpires(r) \/ Retry(r)
  \/ \E c \in Configs : Edit(c)
  \/ \E model \in Models : HostChanges(model)

Spec == Init /\ [][Next]_vars

-----------------------------------------------------------------------------
(* Properties                                                              *)

TypeOK ==
  /\ config \in Configs /\ host \in Models
  /\ receipts \in [Revisions -> Receipt \cup {None}]
  /\ held \subseteq Revisions /\ censuses \in Seq(SUBSET Revisions)
  /\ \A p \in preparations : p.config \in Configs /\ p.boundary \in Models
  /\ pools \in [Pools -> Nat \cup {None}]
  /\ \A e \in entries : e.pool \in Pools /\ e.key \in Revisions
  /\ spent \in [Pools -> Nat] /\ edits \in 0 .. MaxEdits
  /\ faults \in 0 .. MaxFaults

\* Whatever a call consumed its pool is charged with, even if the process died
\* before it could settle, was recovered and called again: no two calls share a
\* reservation (reservation_id_for, begin_extraction).  And a pool never owes
\* more than its ceiling: what open reservations of other revisions, of runs
\* that died among them, may still cost is counted before a call is allowed
\* (CaptureTokenBudget.reserve).
PoolsBalance ==
  \A p \in Pools :
    /\ spent[p] <= Charged(p)
    /\ pools[p] # None => Charged(p) <= pools[p]

\* No call is paid from the pool of a backfill that the user did not
\* authorize as it is: with this model, this maximum, this ceiling, for a
\* revision of the frozen census (_validate_authorization).
CallsAreAuthorized ==
  \A c \in calls :
    c.pool # Incremental =>
      \E p \in preparations :
        /\ p.census = c.pool /\ c.key \in censuses[c.pool]
        /\ p.boundary = c.boundary
        /\ p.config.most = c.most /\ p.config.backfill = pools[c.pool]

=============================================================================
