----------------------- MODULE CaptureBackfillProofs -----------------------
(***************************************************************************)
(* No call is paid from the pool of a backfill that was not authorized as  *)
(* it is, as long as what the executable calls by default stays the same   *)
(* under a run (HostIsStill); and the pools balance, whether it does or    *)
(* not: for any number of revisions, censuses, models, edits and faults.   *)
(*                                                                         *)
(* A pool is charged with a sum over its reservations.  The sum is a fold  *)
(* of the community modules; SumIsCount shows that it counts tokens, and   *)
(* rests on the smallest set for which it would not (SmallestSet).         *)
(***************************************************************************)
EXTENDS CaptureBackfill, FiniteSetTheorems, TLAPS

-----------------------------------------------------------------------------
(* The authorization                                                       *)

\* The records that the two commands keep, by what they are at.
Common == {"at", "model", "config", "pool", "ceiling", "census"}
Underway == {"leased", "reserved", "begun", "extracted"}
Running == {"started", "item"} \cup Underway

FieldsOK ==
  /\ prepare.at \in {"idle", "called", "checked", "scanned", "pooled"}
  /\ prepare.at = "called" => DOMAIN prepare = {"at", "model"}
  /\ prepare.at = "checked" => DOMAIN prepare = {"at", "config", "boundary"}
  /\ prepare.at \in {"scanned", "pooled"} =>
       DOMAIN prepare = {"at", "config", "boundary", "census"}
  /\ run.at \in {"idle", "called"} \cup Running
  /\ run.at = "called" => DOMAIN run = {"at", "model", "preparation"}
  /\ run.at = "started" => DOMAIN run = Common
  /\ run.at = "item" => DOMAIN run = Common \cup {"todo"}
  /\ run.at \in Underway \ {"extracted"} => DOMAIN run = Common \cup {"todo", "item", "attempt"}
  /\ run.at = "extracted" => DOMAIN run = Common \cup {"todo", "item", "attempt", "usage"}

CensusesOK ==
  /\ censuses \in Seq(SUBSET Revisions)
  /\ Len(censuses) <= MaxCensuses
  /\ prepare.at \in {"called", "checked"} => Len(censuses) < MaxCensuses
  /\ DOMAIN pools = Pools

\* The pool of an authorized backfill has the ceiling that was authorized, and
\* the census of a preparation is its own.
PreparationsOK ==
  /\ prepare.at \in {"scanned", "pooled"} => prepare.census \in 1 .. Len(censuses)
  /\ prepare.at = "pooled" => pools[prepare.census] = prepare.config.backfill
  /\ \A p \in preparations :
       /\ p.census \in 1 .. Len(censuses)
       /\ pools[p.census] = p.config.backfill
       /\ prepare.at \in {"scanned", "pooled"} => p.census # prepare.census

\* A run from the pool of a census goes by one of its preparations to the end.
IsPrepared ==
  \E p \in preparations :
    /\ p.census = run.pool /\ p.census = run.census
    /\ HostIsStill => p.boundary = Boundary(run.model)
    /\ p.config = run.config /\ run.ceiling = p.config.backfill

RunOK ==
  /\ run.at = "called" => run.preparation \in preparations \cup {None}
  /\ run.at \in Running =>
       /\ run.pool \in Pools /\ (run.pool # Incremental => IsPrepared)
       /\ run.census \in 1 .. Len(censuses)
  /\ run.at \in Running \ {"started"} => run.todo \subseteq censuses[run.census]
  /\ run.at \in Underway => run.item \in censuses[run.census]

\* The boundary is the prepared one as long as the host is still.
CallsOK == HostIsStill => CallsAreAuthorized

PaidInv == FieldsOK /\ CensusesOK /\ PreparationsOK /\ RunOK /\ CallsOK

-----------------------------------------------------------------------------
\* A run that goes on, with what it was authorized for.
Follows ==
  /\ run'.at \in Running /\ run.at \in Running
  /\ run'.pool = run.pool /\ run'.census = run.census /\ run'.config = run.config
  /\ run'.ceiling = run.ceiling /\ run'.model = run.model

LEMMA FollowsPrepared ==
  ASSUME PaidInv, Follows, UNCHANGED <<censuses, preparations, host>>
  PROVE  /\ run'.pool \in Pools /\ (run'.pool # Incremental => IsPrepared')
         /\ run'.census \in 1 .. Len(censuses')
<1>1. Boundary(run.model)' = Boundary(run.model)
  BY DEF Boundary, Follows
<1>2. ASSUME IsPrepared PROVE IsPrepared'
  BY <1>1, <1>2 DEF IsPrepared, Follows
<1>3. QED BY <1>2 DEF PaidInv, RunOK, Follows

\* Nothing but the run moves.
LEMMA RunMoves ==
  ASSUME PaidInv, UNCHANGED <<prepare, censuses, preparations, pools, calls>>,
         RunOK', FieldsOK'
  PROVE  PaidInv'
BY DEF PaidInv, CensusesOK, PreparationsOK, CallsOK, CallsAreAuthorized

\* An item is given up, or done.
LEMMA NextItemRun ==
  ASSUME PaidInv, run.at \in Underway, NextItem
  PROVE  /\ DOMAIN run' = Common \cup {"todo"} /\ run'.at = "item"
         /\ run'.pool = run.pool /\ run'.census = run.census /\ run'.config = run.config
         /\ run'.ceiling = run.ceiling /\ run'.model = run.model /\ run'.todo = run.todo
<1>1. /\ {"item", "attempt"} \subseteq DOMAIN run
      /\ DOMAIN run \ {"item", "attempt", "usage"} = Common \cup {"todo"}
  BY DEF PaidInv, FieldsOK, Underway, Common
<1>2. QED BY <1>1 DEF NextItem, Common

LEMMA NextItemKeeps ==
  ASSUME PaidInv, run.at \in Underway, NextItem,
         UNCHANGED <<host, prepare, censuses, preparations, pools, calls>>
  PROVE  PaidInv'
<1>1. /\ DOMAIN run' = Common \cup {"todo"} /\ run'.at = "item"
      /\ run'.pool = run.pool /\ run'.census = run.census /\ run'.config = run.config
      /\ run'.ceiling = run.ceiling /\ run'.model = run.model /\ run'.todo = run.todo
  BY NextItemRun
<1>2. Follows
  BY <1>1 DEF Follows, Running
<1>3. RunOK'
  BY <1>1, <1>2, FollowsPrepared DEF PaidInv, RunOK, Running, Underway
<1>4. FieldsOK'
  BY <1>1 DEF PaidInv, FieldsOK, Running, Underway
<1>5. QED BY <1>3, <1>4, RunMoves

-----------------------------------------------------------------------------
(* The steps of a run                                                      *)

LEMMA RunIsCalled ==
  ASSUME PaidInv, BackfillCalled \/ RunOnceCalled
  PROVE  PaidInv'
<1>1. PICK p \in preparations \cup {None} : Called(p)
  BY DEF BackfillCalled, RunOnceCalled
<1>2. /\ run' = [at |-> "called", model |-> config.model, preparation |-> p]
      /\ UNCHANGED <<host, prepare, censuses, preparations, pools, calls>>
  BY <1>1 DEF Called, outside, frozen, budget, history
<1>3. RunOK'
  BY <1>2 DEF RunOK, Running, Underway
<1>4. FieldsOK'
  BY <1>2 DEF PaidInv, FieldsOK, Running, Underway
<1>5. QED BY <1>2, <1>3, <1>4, RunMoves

\* From here on nothing the run goes by is read again.
LEMMA RunStarts ==
  ASSUME PaidInv, BackfillAssumption, StartManual \/ StartBackground
  PROVE  PaidInv'
<1>1. UNCHANGED <<host, prepare, censuses, preparations, pools, calls>>
  BY DEF StartManual, StartBackground, outside, frozen, budget, history
<1>2. CASE run' = Idle
  <2>1. RunOK' /\ FieldsOK'
    BY <1>1, <1>2 DEF PaidInv, RunOK, FieldsOK, Running, Underway, Idle
  <2>2. QED BY <1>1, <2>1, RunMoves
<1>3. CASE StartManual /\ run' # Idle
  <2> DEFINE p == run.preparation
  <2>1. /\ run' = [at |-> "started", model |-> run.model, config |-> config, pool |-> p.census,
                   ceiling |-> config.backfill, census |-> p.census]
        /\ IsAuthorized(p) /\ p \in preparations
    BY <1>3 DEF StartManual, At, PaidInv, RunOK
  <2>2. p.census \in 1 .. Len(censuses)
    BY <2>1 DEF PaidInv, PreparationsOK
  <2>3. p.census \in Pools
    BY <2>2, SMT DEF PaidInv, CensusesOK, Pools, CensusIds, BackfillAssumption
  <2>4. Boundary(run.model)' = p.boundary
    BY <1>1, <2>1 DEF Boundary, IsAuthorized
  <2> HIDE DEF p
  <2>5. IsPrepared'
    <3>1. p \in preparations' /\ p.census = run'.pool /\ p.census = run'.census
      BY <1>1, <2>1
    <3>2. p.boundary = Boundary(run.model)'
      BY <2>4
    <3>3. p.config = run'.config /\ run'.ceiling = p.config.backfill
      BY <2>1 DEF IsAuthorized
    <3>4. QED BY <3>1, <3>2, <3>3 DEF IsPrepared
  <2>6. RunOK'
    BY <1>1, <2>1, <2>2, <2>3, <2>5 DEF RunOK, Running, Underway
  <2>7. FieldsOK'
    BY <1>1, <2>1 DEF PaidInv, FieldsOK, Running, Underway, Common
  <2>8. QED BY <1>1, <2>6, <2>7, RunMoves
<1>4. CASE StartBackground /\ run' # Idle
  <2>1. run' = [at |-> "started", model |-> run.model, config |-> config, pool |-> Incremental,
                ceiling |-> config.incremental, census |-> Len(censuses)]
    BY <1>4 DEF StartBackground
  <2>0. Len(censuses) \in 1 .. Len(censuses)
    BY <1>4 DEF StartBackground, PaidInv, CensusesOK
  <2>2. RunOK'
    BY <1>1, <2>0, <2>1 DEF RunOK, Running, Underway, Pools
  <2>3. FieldsOK'
    BY <1>1, <2>1 DEF PaidInv, FieldsOK, Running, Underway, Common
  <2>4. QED BY <1>1, <2>2, <2>3, RunMoves
<1>5. QED BY <1>2, <1>3, <1>4

LEMMA SelectedRun ==
  ASSUME PaidInv, NEW chosen, run.at = "started",
         run' = With([run EXCEPT !.at = "item"], "todo", chosen)
  PROVE  /\ DOMAIN run' = Common \cup {"todo"} /\ run'.at = "item" /\ run'.todo = chosen
         /\ \A f \in Common \ {"at"} : run'[f] = run[f]
<1> DEFINE r == [run EXCEPT !.at = "item"]
<1>1. DOMAIN run = Common
  BY DEF PaidInv, FieldsOK
<1>2. DOMAIN r = Common /\ r.at = "item" /\ \A f \in Common \ {"at"} : r[f] = run[f]
  BY <1>1 DEF Common
<1>3. run' = With(r, "todo", chosen)
  OBVIOUS
<1> HIDE DEF r
<1>4. /\ DOMAIN run' = DOMAIN r \cup {"todo"} /\ run'["todo"] = chosen
      /\ \A f \in DOMAIN r : f # "todo" => run'[f] = r[f]
  BY <1>3 DEF With
<1>5. QED BY <1>2, <1>4 DEF Common

\* A run that is authorized finds the pool as it was prepared; the incremental
\* pool is of no census.
LEMMA RunSelects ==
  ASSUME PaidInv, NEW chosen \in SUBSET Revisions, Select(chosen)
  PROVE  PaidInv'
<1>1. /\ run.at = "started" /\ \A r \in chosen : r \in censuses[run.census]
      /\ UNCHANGED <<host, prepare, censuses, preparations, calls>>
  BY DEF Select, At, outside, frozen, history
<1>2. CASE PoolAgrees(run.pool, run.ceiling)
  <2>1. /\ pools' = [pools EXCEPT ![run.pool] = run.ceiling]
        /\ run' = With([run EXCEPT !.at = "item"], "todo", chosen)
    BY <1>2 DEF Select, Snapshot
  <2>2. /\ DOMAIN run' = Common \cup {"todo"} /\ run'.at = "item" /\ run'.todo = chosen
        /\ \A f \in Common \ {"at"} : run'[f] = run[f]
    BY <1>1, <2>1, SelectedRun
  <2>3. Follows
    BY <1>1, <2>2 DEF Follows, Running, Common
  <2>4. RunOK'
    BY <1>1, <2>2, <2>3, FollowsPrepared DEF RunOK, Running, Underway, Follows
  <2>5. FieldsOK'
    BY <1>1, <2>2 DEF PaidInv, FieldsOK, Running, Underway
  <2>6. \A c \in 1 .. Len(censuses) :
          (\E p \in preparations : p.census = c) => pools'[c] = pools[c]
    <3> SUFFICES ASSUME NEW c \in 1 .. Len(censuses), NEW p \in preparations, p.census = c,
                        run.pool = c
                 PROVE  run.ceiling = pools[c]
      BY <2>1
    <3>1. c # Incremental
      BY DEF Incremental
    <3>2. PICK q \in preparations : q.census = run.pool /\ run.ceiling = q.config.backfill
      BY <1>1, <3>1 DEF PaidInv, RunOK, Running, IsPrepared
    <3>3. QED BY <3>2 DEF PaidInv, PreparationsOK
  <2>7. prepare.at = "pooled" => pools'[prepare.census] = pools[prepare.census]
    <3> SUFFICES ASSUME prepare.at = "pooled", run.pool = prepare.census PROVE FALSE
      BY <2>1
    <3>1. run.pool # Incremental
      BY DEF PaidInv, PreparationsOK, Incremental
    <3>2. PICK q \in preparations : q.census = run.pool
      BY <1>1, <3>1 DEF PaidInv, RunOK, Running, IsPrepared
    <3>3. QED BY <3>2 DEF PaidInv, PreparationsOK
  <2>8. CensusesOK' /\ PreparationsOK'
    BY <1>1, <2>1, <2>6, <2>7 DEF PaidInv, CensusesOK, PreparationsOK
  <2>9. CallsOK'
    BY <1>1, <2>6 DEF PaidInv, PreparationsOK, CallsOK, CallsAreAuthorized
  <2>10. QED BY <2>4, <2>5, <2>8, <2>9 DEF PaidInv
<1>3. CASE ~ PoolAgrees(run.pool, run.ceiling)
  <2>1. run' = Idle /\ pools' = pools
    BY <1>3 DEF Select
  <2>2. RunOK' /\ FieldsOK'
    BY <1>1, <2>1 DEF PaidInv, RunOK, FieldsOK, Running, Underway, Idle
  <2>3. QED BY <1>1, <2>1, <2>2, RunMoves
<1>4. QED BY <1>2, <1>3

LEMMA LeasedRun ==
  ASSUME PaidInv, NEW r, NEW attempt, run.at = "item",
         run' = With(With([run EXCEPT !.at = "leased", !.todo = @ \ {r}], "item", r),
                     "attempt", attempt)
  PROVE  /\ DOMAIN run' = Common \cup {"todo", "item", "attempt"}
         /\ run'.at = "leased" /\ run'.todo = run.todo \ {r} /\ run'.item = r
         /\ run'.attempt = attempt /\ \A f \in Common \ {"at"} : run'[f] = run[f]
<1> DEFINE left == [run EXCEPT !.at = "leased", !.todo = @ \ {r}]
           given == With(left, "item", r)
<1>1. DOMAIN run = Common \cup {"todo"}
  BY DEF PaidInv, FieldsOK
<1>2. /\ DOMAIN left = Common \cup {"todo"} /\ left.at = "leased" /\ left.todo = run.todo \ {r}
      /\ \A f \in Common \ {"at"} : left[f] = run[f]
  BY <1>1 DEF Common
<1>3. run' = With(given, "attempt", attempt)
  OBVIOUS
<1> HIDE DEF left
<1>4. /\ DOMAIN given = DOMAIN left \cup {"item"} /\ given["item"] = r
      /\ \A f \in DOMAIN left : f # "item" => given[f] = left[f]
  BY DEF With
<1> HIDE DEF given
<1>5. /\ DOMAIN run' = DOMAIN given \cup {"attempt"} /\ run'["attempt"] = attempt
      /\ \A f \in DOMAIN given : f # "attempt" => run'[f] = given[f]
  BY <1>3 DEF With
<1>6. QED BY <1>2, <1>4, <1>5 DEF Common

\* An item of the census that was chosen is taken up, or left to whoever holds it.
LEMMA RunLeases ==
  ASSUME PaidInv, NEW r \in Revisions, Lease(r)
  PROVE  PaidInv'
<1>1. /\ run.at = "item" /\ r \in run.todo /\ DOMAIN run = Common \cup {"todo"}
      /\ UNCHANGED <<host, prepare, censuses, preparations, pools, calls>>
  BY DEF Lease, At, PaidInv, FieldsOK, outside, frozen, budget, history
<1>2. CASE r \in held
  <2>1. run' = [run EXCEPT !.todo = @ \ {r}]
    BY <1>2 DEF Lease
  <2>2. /\ DOMAIN run' = Common \cup {"todo"} /\ run'.todo = run.todo \ {r}
        /\ \A f \in Common : run'[f] = run[f]
    BY <1>1, <2>1 DEF Common
  <2>3. Follows
    BY <1>1, <2>2 DEF Follows, Running, Common
  <2>4. RunOK'
    BY <1>1, <2>2, <2>3, FollowsPrepared DEF PaidInv, RunOK, Running, Underway, Follows, Common
  <2>5. FieldsOK'
    BY <1>1, <2>2 DEF PaidInv, FieldsOK, Running, Underway, Common
  <2>6. QED BY <1>1, <2>4, <2>5, RunMoves
<1>3. CASE r \notin held
  <2>1. /\ DOMAIN run' = Common \cup {"todo", "item", "attempt"}
        /\ run'.at = "leased" /\ run'.todo = run.todo \ {r} /\ run'.item = r
        /\ \A f \in Common \ {"at"} : run'[f] = run[f]
    <3>1. run' = With(With([run EXCEPT !.at = "leased", !.todo = @ \ {r}], "item", r),
                      "attempt", receipts[r].attempt + 1)
      BY <1>3 DEF Lease
    <3>2. QED BY <1>1, <3>1, LeasedRun
  <2>2. Follows
    BY <1>1, <2>1 DEF Follows, Running, Underway, Common
  <2>3. RunOK'
    BY <1>1, <2>1, <2>2, FollowsPrepared DEF PaidInv, RunOK, Running, Underway, Follows, Common
  <2>4. FieldsOK'
    BY <1>1, <2>1 DEF PaidInv, FieldsOK, Running, Underway, Common
  <2>5. QED BY <1>1, <2>3, <2>4, RunMoves
<1>4. QED BY <1>2, <1>3

LEMMA RunGoesOn ==
  ASSUME PaidInv,
         (\E target \in Statuses : Unreadable(target)) \/ NoSignal \/ Conflicting \/ Defer
           \/ (\E usage \in Usages \cup {None} : Succeed(usage)) \/ ExtractFails
  PROVE  PaidInv'
<1>1. run.at \in Underway /\ NextItem
      /\ UNCHANGED <<host, prepare, censuses, preparations, pools, calls>>
  BY DEF Unreadable, NoSignal, Conflicting, Defer, Succeed, ExtractFails, At, Underway,
         outside, frozen, budget, history
<1>2. QED BY <1>1, NextItemKeeps

LEMMA RunReservesOrBegins ==
  ASSUME PaidInv, Reserve \/ BeginExtraction
  PROVE  PaidInv'
<1>1. PICK step \in {"reserved", "begun"} : run' = [run EXCEPT !.at = step]
  BY DEF Reserve, BeginExtraction
<1>2. /\ run.at \in Underway \ {"extracted"} /\ DOMAIN run = Common \cup {"todo", "item", "attempt"}
      /\ UNCHANGED <<host, prepare, censuses, preparations, pools, calls>>
  BY DEF Reserve, BeginExtraction, At, Underway, PaidInv, FieldsOK, outside, frozen, budget, history
<1>3. DOMAIN run' = DOMAIN run /\ run'.at = step /\ \A f \in DOMAIN run \ {"at"} : run'[f] = run[f]
  BY <1>1, <1>2 DEF Common
<1>4. Follows /\ run'.todo = run.todo /\ run'.item = run.item
  BY <1>2, <1>3 DEF Follows, Running, Underway, Common
<1>5. RunOK'
  BY <1>2, <1>3, <1>4, FollowsPrepared DEF PaidInv, RunOK, Running, Underway, Follows
<1>6. FieldsOK'
  BY <1>2, <1>3 DEF PaidInv, FieldsOK, Running, Underway, Common
<1>7. QED BY <1>2, <1>5, <1>6, RunMoves

LEMMA ExtractedRun ==
  ASSUME PaidInv, NEW usage, run.at = "begun",
         run' = With([run EXCEPT !.at = "extracted"], "usage", usage)
  PROVE  /\ DOMAIN run' = Common \cup {"todo", "item", "attempt", "usage"} /\ run'.at = "extracted"
         /\ run'.usage = usage /\ \A f \in DOMAIN run \ {"at"} : run'[f] = run[f]
<1> DEFINE r == [run EXCEPT !.at = "extracted"]
<1>1. DOMAIN run = Common \cup {"todo", "item", "attempt"}
  BY DEF PaidInv, FieldsOK, Underway
<1>2. DOMAIN r = DOMAIN run /\ r.at = "extracted" /\ \A f \in DOMAIN run \ {"at"} : r[f] = run[f]
  BY <1>1 DEF Common
<1>3. run' = With(r, "usage", usage)
  OBVIOUS
<1> HIDE DEF r
<1>4. /\ DOMAIN run' = DOMAIN r \cup {"usage"} /\ run'["usage"] = usage
      /\ \A f \in DOMAIN r : f # "usage" => run'[f] = r[f]
  BY <1>3 DEF With
<1>5. QED BY <1>1, <1>2, <1>4 DEF Common

\* The call that is made is the one that was authorized.
LEMMA RunExtracts ==
  ASSUME PaidInv, NEW usage, Extract(usage)
  PROVE  PaidInv'
<1>1. /\ run.at = "begun" /\ DOMAIN run = Common \cup {"todo", "item", "attempt"}
      /\ run' = With([run EXCEPT !.at = "extracted"], "usage", usage)
      /\ UNCHANGED <<host, prepare, censuses, preparations, pools>>
  BY DEF Extract, At, Underway, PaidInv, FieldsOK, outside, frozen, budget
<1>2. /\ DOMAIN run' = Common \cup {"todo", "item", "attempt", "usage"} /\ run'.at = "extracted"
      /\ \A f \in DOMAIN run \ {"at"} : run'[f] = run[f]
  BY <1>1, ExtractedRun
<1>3. Follows /\ run'.todo = run.todo /\ run'.item = run.item
  BY <1>1, <1>2 DEF Follows, Running, Underway, Common
<1>4. RunOK'
  BY <1>1, <1>2, <1>3, FollowsPrepared DEF PaidInv, RunOK, Running, Underway, Follows
<1>5. FieldsOK'
  BY <1>1, <1>2 DEF PaidInv, FieldsOK, Running, Underway, Common
<1>6. CensusesOK' /\ PreparationsOK'
  BY <1>1 DEF PaidInv, CensusesOK, PreparationsOK
<1>7. CallsOK'
  <2> DEFINE call == [pool |-> run.pool, key |-> run.item, attempt |-> run.attempt,
                      most |-> run.config.most, boundary |-> Boundary(run.model)]
  <2>1. calls' = calls \cup {call}
    BY DEF Extract
  <2>2. run.pool # Incremental =>
          \E p \in preparations :
            /\ p.census = run.pool /\ run.item \in censuses[run.pool]
            /\ HostIsStill => p.boundary = Boundary(run.model)
            /\ p.config.most = run.config.most /\ p.config.backfill = pools[run.pool]
    BY <1>1 DEF PaidInv, RunOK, Running, Underway, IsPrepared, PreparationsOK
  <2>3. QED BY <1>1, <2>1, <2>2 DEF PaidInv, CallsOK, CallsAreAuthorized
<1>8. QED BY <1>4, <1>5, <1>6, <1>7 DEF PaidInv

LEMMA RunEnds ==
  ASSUME PaidInv, Finish \/ RunRaises \/ RunDies
  PROVE  PaidInv'
<1>1. run' = Idle /\ UNCHANGED <<host, prepare, censuses, preparations, pools, calls>>
  BY DEF Finish, RunRaises, RunDies, outside, frozen, budget, history
<1>2. RunOK' /\ FieldsOK'
  BY <1>1 DEF PaidInv, RunOK, FieldsOK, Running, Underway, Idle
<1>3. QED BY <1>1, <1>2, RunMoves

LEMMA RunnerKeeps ==
  ASSUME PaidInv, BackfillAssumption, RunnerNext
  PROVE  PaidInv'
BY RunIsCalled, RunStarts, RunSelects, RunLeases, RunGoesOn, RunReservesOrBegins, RunExtracts,
   RunEnds DEF RunnerNext

-----------------------------------------------------------------------------
(* The steps of prepare-backfill                                           *)

\* What is added beside a run is nothing to it.
LEMMA RunStays ==
  ASSUME PaidInv, UNCHANGED <<run, host>>, preparations \subseteq preparations',
         Len(censuses) <= Len(censuses'),
         \A c \in 1 .. Len(censuses) : censuses'[c] = censuses[c]
  PROVE  RunOK'
<1>1. Boundary(run.model)' = Boundary(run.model)
  BY DEF Boundary
<1>2. ASSUME IsPrepared PROVE IsPrepared'
  BY <1>1, <1>2 DEF IsPrepared
<1>3. run.at = "called" => run'.preparation \in preparations' \cup {None}
  BY DEF PaidInv, RunOK
<1>4. run.at \in Running =>
        /\ run'.pool \in Pools /\ (run'.pool # Incremental => IsPrepared')
        /\ run'.census \in 1 .. Len(censuses')
        /\ censuses'[run'.census] = censuses[run.census]
  BY <1>2 DEF PaidInv, RunOK, CensusesOK
<1>5. QED BY <1>3, <1>4 DEF PaidInv, RunOK, Running, Underway

LEMMA PrepareIsCalled ==
  ASSUME PaidInv, PrepareCalled \/ PrepareChecked \/ PrepareStops
  PROVE  PaidInv'
<1>1. UNCHANGED <<host, run, censuses, preparations, pools, calls>>
  BY DEF PrepareCalled, PrepareChecked, PrepareStops, outside, frozen, budget, history
<1>2. \/ prepare' = Idle
      \/ prepare' = [at |-> "called", model |-> config.model] /\ Len(censuses) < MaxCensuses
      \/ /\ prepare' = [at |-> "checked", config |-> config, boundary |-> Boundary(prepare.model)]
         /\ Len(censuses) < MaxCensuses
  BY DEF PrepareCalled, PrepareChecked, PrepareStops, At, PaidInv, CensusesOK
<1>3. RunOK'
  BY <1>1, RunStays DEF PaidInv, CensusesOK
<1>4. FieldsOK' /\ CensusesOK' /\ PreparationsOK'
  BY <1>1, <1>2 DEF PaidInv, FieldsOK, CensusesOK, PreparationsOK, Idle
<1>5. CallsOK'
  BY <1>1 DEF PaidInv, CallsOK, CallsAreAuthorized
<1>6. QED BY <1>3, <1>4, <1>5 DEF PaidInv

\* The census that is frozen is not yet one of any preparation.
LEMMA PrepareFreezes ==
  ASSUME PaidInv, BackfillAssumption, NEW window \in SUBSET Revisions, PrepareScans(window)
  PROVE  PaidInv'
<1>1. /\ prepare.at = "checked" /\ DOMAIN prepare = {"at", "config", "boundary"}
      /\ Len(censuses) < MaxCensuses /\ censuses \in Seq(SUBSET Revisions)
      /\ censuses' = Append(censuses, window)
      /\ UNCHANGED <<host, run, preparations, pools, calls>>
  BY DEF PrepareScans, At, PaidInv, FieldsOK, CensusesOK, outside, budget, history
<1>2. /\ censuses' \in Seq(SUBSET Revisions) /\ Len(censuses') = Len(censuses) + 1
      /\ Len(censuses) \in Nat /\ Len(censuses') <= MaxCensuses
      /\ \A c \in 1 .. Len(censuses) : censuses'[c] = censuses[c]
  BY <1>1 DEF BackfillAssumption
<1>3. /\ DOMAIN prepare' = {"at", "config", "boundary", "census"} /\ prepare'.at = "scanned"
      /\ prepare'.census = Len(censuses')
  <2> DEFINE p == [prepare EXCEPT !.at = "scanned"]
  <2>1. DOMAIN p = DOMAIN prepare /\ p.at = "scanned"
    BY <1>1
  <2>2. prepare' = With(p, "census", Len(censuses'))
    BY DEF PrepareScans
  <2> HIDE DEF p
  <2>3. /\ DOMAIN prepare' = DOMAIN p \cup {"census"} /\ prepare'["census"] = Len(censuses')
        /\ \A f \in DOMAIN p : f # "census" => prepare'[f] = p[f]
    BY <2>2 DEF With
  <2>4. QED BY <1>1, <2>1, <2>3
<1>4. RunOK'
  BY <1>1, <1>2, RunStays
<1>5. FieldsOK' /\ CensusesOK'
  BY <1>1, <1>2, <1>3 DEF PaidInv, FieldsOK, CensusesOK
<1>6. PreparationsOK'
  BY <1>1, <1>2, <1>3 DEF PaidInv, PreparationsOK
<1>7. CallsOK'
  BY <1>1, <1>2 DEF PaidInv, PreparationsOK, CallsOK, CallsAreAuthorized
<1>8. QED BY <1>4, <1>5, <1>6, <1>7 DEF PaidInv

LEMMA PrepareIsPooled ==
  ASSUME PaidInv, BackfillAssumption, PreparePools
  PROVE  PaidInv'
<1>1. /\ prepare.at = "scanned" /\ DOMAIN prepare = {"at", "config", "boundary", "census"}
      /\ prepare' = [prepare EXCEPT !.at = "pooled"]
      /\ pools' = [pools EXCEPT ![prepare.census] = prepare.config.backfill]
      /\ UNCHANGED <<host, run, censuses, preparations, calls>>
  BY DEF PreparePools, Snapshot, At, PaidInv, FieldsOK, outside, frozen, history
<1>2. prepare.census \in DOMAIN pools
  BY <1>1, SMT DEF PaidInv, PreparationsOK, CensusesOK, Pools, CensusIds, BackfillAssumption
<1>3. /\ DOMAIN prepare' = DOMAIN prepare /\ prepare'.at = "pooled"
      /\ prepare'.config = prepare.config /\ prepare'.census = prepare.census
      /\ prepare'.boundary = prepare.boundary
  BY <1>1
<1>4. /\ DOMAIN pools' = DOMAIN pools /\ pools'[prepare.census] = prepare.config.backfill
      /\ \A c : c # prepare.census /\ c \in DOMAIN pools => pools'[c] = pools[c]
  BY <1>1, <1>2
<1>5. \A p \in preparations : pools'[p.census] = pools[p.census]
  <2> SUFFICES ASSUME NEW p \in preparations PROVE pools'[p.census] = pools[p.census]
    OBVIOUS
  <2>1. p.census \in 1 .. Len(censuses) /\ p.census # prepare.census
    BY <1>1 DEF PaidInv, PreparationsOK
  <2>2. p.census \in DOMAIN pools
    BY <2>1, SMT DEF PaidInv, CensusesOK, Pools, CensusIds, BackfillAssumption
  <2>3. QED BY <1>4, <2>1, <2>2
<1>6. RunOK'
  BY <1>1, RunStays DEF PaidInv, CensusesOK
<1>7. FieldsOK' /\ CensusesOK'
  BY <1>1, <1>3, <1>4 DEF PaidInv, FieldsOK, CensusesOK
<1>8. PreparationsOK'
  BY <1>1, <1>3, <1>4, <1>5 DEF PaidInv, PreparationsOK
<1>9. CallsOK'
  BY <1>1, <1>5 DEF PaidInv, CallsOK, CallsAreAuthorized
<1>10. QED BY <1>6, <1>7, <1>8, <1>9 DEF PaidInv

LEMMA PrepareIsWritten ==
  ASSUME PaidInv, PrepareWrites
  PROVE  PaidInv'
<1> DEFINE new == [census |-> prepare.census, config |-> prepare.config,
                   boundary |-> prepare.boundary]
<1>1. /\ prepare.at = "pooled" /\ prepare' = Idle
      /\ preparations' = preparations \cup {new}
      /\ UNCHANGED <<host, run, censuses, pools, calls>>
  BY DEF PrepareWrites, At, outside, budget, history
<1>2. new.census = prepare.census /\ new.config = prepare.config
  OBVIOUS
<1> HIDE DEF new
<1>3. RunOK'
  BY <1>1, RunStays DEF PaidInv, CensusesOK
<1>4. FieldsOK' /\ CensusesOK' /\ PreparationsOK'
  BY <1>1, <1>2 DEF PaidInv, FieldsOK, CensusesOK, PreparationsOK, Idle
<1>5. CallsOK'
  BY <1>1 DEF PaidInv, CallsOK, CallsAreAuthorized
<1>6. QED BY <1>3, <1>4, <1>5 DEF PaidInv

LEMMA PrepareKeeps ==
  ASSUME PaidInv, BackfillAssumption, PrepareNext
  PROVE  PaidInv'
BY PrepareIsCalled, PrepareFreezes, PrepareIsPooled, PrepareIsWritten DEF PrepareNext

-----------------------------------------------------------------------------
(* The user, and the clock                                                 *)

\* What the executable calls by default changes between two runs only, or it
\* matters to nothing.
LEMMA HostKeeps ==
  ASSUME PaidInv, NEW model \in Models, HostChanges(model)
  PROVE  PaidInv'
<1>1. /\ HostIsStill => run = Idle
      /\ UNCHANGED <<prepare, censuses, preparations, pools, calls, run>>
  BY DEF HostChanges, frozen, budget, history
<1>2. RunOK' /\ FieldsOK'
  <2>1. CASE run = Idle
    BY <1>1, <2>1 DEF PaidInv, RunOK, FieldsOK, Running, Underway, Idle
  <2>2. CASE ~HostIsStill
    <3>1. IsPrepared => IsPrepared'
      BY <1>1, <2>2 DEF IsPrepared
    <3>2. QED BY <1>1, <3>1 DEF PaidInv, RunOK, FieldsOK
  <2>3. QED BY <1>1, <2>1, <2>2
<1>3. QED BY <1>1, <1>2, RunMoves

LEMMA OthersKeep ==
  ASSUME PaidInv,
         \/ \E r \in Revisions : LeaseExpires(r) \/ Retry(r)
         \/ \E c \in Configs : Edit(c)
         \/ UNCHANGED vars
  PROVE  PaidInv'
<1>1. UNCHANGED <<host, prepare, run, censuses, preparations, pools, calls>>
  BY DEF LeaseExpires, Retry, Edit, vars, outside, frozen, budget, history
<1>2. RunOK'
  BY <1>1, RunStays DEF PaidInv, CensusesOK
<1>3. FieldsOK'
  BY <1>1 DEF PaidInv, FieldsOK
<1>4. QED BY <1>1, <1>2, <1>3, RunMoves

LEMMA InitPaid ==
  ASSUME BackfillAssumption, Init
  PROVE  PaidInv
BY DEF Init, BackfillAssumption, PaidInv, FieldsOK, CensusesOK, PreparationsOK, RunOK,
       Running, Underway, Idle, CallsOK, CallsAreAuthorized

LEMMA NextPaid ==
  ASSUME PaidInv, BackfillAssumption, [Next]_vars
  PROVE  PaidInv'
BY RunnerKeeps, PrepareKeeps, HostKeeps, OthersKeep DEF Next

\* What the user authorized is what the calls are: no call goes to another
\* model, at another maximum, from a pool of another ceiling or for a revision
\* outside the census, whatever is edited, prepared, scanned or retried beside
\* the run and wherever a command stops (_validate_authorization, and the
\* config the run keeps from then on).
THEOREM CallsStayAuthorized ==
  ASSUME HostIsStill
  PROVE  Spec => []CallsAreAuthorized
<1>1. PaidInv => CallsAreAuthorized
  BY DEF PaidInv, CallsOK
<1>2. QED BY <1>1, InitPaid, NextPaid, BackfillAssumption, PTL DEF Spec

-----------------------------------------------------------------------------
(* A sum of costs                                                          *)

\* What remains of a set of finite sets when none is smaller.
LEMMA SmallestSet ==
  ASSUME NEW D, IsFiniteSet(D), NEW T, T \subseteq SUBSET D, T # {}
  PROVE  \E s \in T : \A t \in T : t \subseteq s => t = s
<1>1. SUBSET D = FiniteSubsetsOf(D)
  BY FS_FiniteSubsetsOfFinite
<1>2. IsWellFoundedOn(StrictSubsetOrdering(D), SUBSET D)
  BY <1>1, FS_StrictSubsetOrderingWellFounded
<1>3. \E s \in T : \A t \in T : <<t, s>> \notin StrictSubsetOrdering(D)
  BY <1>2, WFMin
<1>4. \A s, t \in T : t \subseteq s /\ t # s => <<t, s>> \in StrictSubsetOrdering(D)
  BY DEF StrictSubsetOrdering
<1>5. QED BY <1>3, <1>4

\* The tokens that reservations may cost, one by one.
Tokens(E) == UNION {{e} \X (1 .. Cost(e)) : e \in E}

LEMMA TokensOfOne ==
  ASSUME NEW E, NEW x \in E, Cost(x) \in Nat,
         IsFiniteSet(Tokens(E \ {x}))
  PROVE  /\ IsFiniteSet(Tokens(E))
         /\ Cardinality(Tokens(E)) = Cost(x) + Cardinality(Tokens(E \ {x}))
<1> DEFINE own == {x} \X (1 .. Cost(x))
           rest == Tokens(E \ {x})
<1>1. Tokens(E) = rest \cup own /\ rest \cap own = {}
  BY DEF Tokens
<1>2. IsFiniteSet({x}) /\ Cardinality({x}) = 1
  BY FS_Singleton
<1>3. IsFiniteSet(1 .. Cost(x)) /\ Cardinality(1 .. Cost(x)) = Cost(x)
  BY FS_Interval
<1>4. IsFiniteSet(own) /\ Cardinality(own) = Cost(x)
  <2> DEFINE one == {x}
             each == 1 .. Cost(x)
  <2>1. IsFiniteSet(one) /\ Cardinality(one) = 1 /\ IsFiniteSet(each) /\ Cardinality(each) = Cost(x)
    BY <1>2, <1>3
  <2>2. own = one \X each
    OBVIOUS
  <2> HIDE DEF one, each, own
  <2>3. IsFiniteSet(one \X each) /\ Cardinality(one \X each) = Cardinality(one) * Cardinality(each)
    BY <2>1, FS_Product
  <2>4. QED BY <2>1, <2>2, <2>3
<1>5. Cardinality(rest) \in Nat
  BY FS_CardinalityType
<1> HIDE DEF own, rest
<1>6. IsFiniteSet(rest \cup own)
      /\ Cardinality(rest \cup own) = Cardinality(rest) + Cardinality(own) - Cardinality(rest \cap own)
  BY <1>4, FS_Union DEF rest
<1>7. Cardinality({}) = 0
  BY FS_EmptySet
<1>8. IsFiniteSet(Tokens(E)) /\ Cardinality(Tokens(E)) = Cardinality(rest) + Cost(x) - 0
  BY <1>1, <1>4, <1>6, <1>7
<1>9. QED BY <1>5, <1>8 DEF rest

LEMMA TokensAreFinite ==
  ASSUME NEW D, IsFiniteSet(D), \A e \in D : Cost(e) \in Nat
  PROVE  \A s \in SUBSET D : IsFiniteSet(Tokens(s))
<1> DEFINE T == {s \in SUBSET D : ~IsFiniteSet(Tokens(s))}
<1>1. SUFFICES ASSUME T # {} PROVE FALSE
  OBVIOUS
<1>0. T \subseteq SUBSET D
  OBVIOUS
<1>2. PICK s \in T : \A t \in T : t \subseteq s => t = s
  <2> HIDE DEF T
  <2>1. QED BY <1>0, <1>1, SmallestSet
<1>3. CASE s = {}
  <2>1. Tokens(s) = {}
    BY <1>3 DEF Tokens
  <2>2. QED BY <2>1, FS_EmptySet
<1>4. CASE s # {}
  <2>1. PICK x \in s : TRUE
    BY <1>4
  <2>2. s \ {x} \notin T
    BY <1>2, <2>1
  <2>3. QED BY <2>1, <2>2, TokensOfOne
<1>5. QED BY <1>3, <1>4

IsSum(f, D) ==
  f = [s \in SUBSET D |-> IF s = {} THEN 0
                          ELSE LET x == CHOOSE x \in s : TRUE IN Cost(x) + f[s \ {x}]]

LEMMA ChargedIsSum ==
  ASSUME NEW pool
  PROVE  Charged(pool) = (CHOOSE f : IsSum(f, Of(pool)))[Of(pool)]
  BY DEF Charged, MapThenSumSet, MapThenFoldSet, IsSum

LEMMA SumIsCount ==
  ASSUME NEW D, IsFiniteSet(D), \A e \in D : Cost(e) \in Nat
  PROVE  (CHOOSE f : IsSum(f, D))[D] = Cardinality(Tokens(D))
<1> DEFINE g == [s \in SUBSET D |-> Cardinality(Tokens(s))]
           f == CHOOSE h : IsSum(h, D)
<1>1. \A s \in SUBSET D : \A x \in s :
        Cardinality(Tokens(s)) = Cost(x) + Cardinality(Tokens(s \ {x}))
  BY TokensAreFinite, TokensOfOne
<1>2. Cardinality(Tokens({})) = 0
  <2>1. Tokens({}) = {}
    BY DEF Tokens
  <2>2. QED BY <2>1, FS_EmptySet
<1>3. IsSum(g, D)
  <2>1. ASSUME NEW s \in SUBSET D
        PROVE  g[s] = IF s = {} THEN 0
                      ELSE LET x == CHOOSE x \in s : TRUE IN Cost(x) + g[s \ {x}]
    <3>1. CASE s = {}
      BY <1>2, <3>1
    <3>2. CASE s # {}
      <4> DEFINE x == CHOOSE x \in s : TRUE
      <4>1. x \in s
        BY <3>2
      <4> HIDE DEF x
      <4>2. g[s] = Cost(x) + g[s \ {x}]
        BY <1>1, <4>1
      <4>3. QED BY <3>2, <4>2 DEF x
    <3>3. QED BY <3>1, <3>2
  <2>2. g = [s \in SUBSET D |-> g[s]]
    OBVIOUS
  <2> HIDE DEF g
  <2>3. QED BY <2>1, <2>2, Zenon DEF IsSum
<1>4. IsSum(f, D)
  <2> HIDE DEF g
  <2>1. QED BY <1>3, Zenon
<1> HIDE DEF f
<1>5. \A s \in SUBSET D : f[s] = Cardinality(Tokens(s))
  <2> DEFINE T == {s \in SUBSET D : f[s] # Cardinality(Tokens(s))}
  <2>1. SUFFICES ASSUME T # {} PROVE FALSE
    OBVIOUS
  <2>2. PICK s \in T : \A t \in T : t \subseteq s => t = s
    <3>1. T \subseteq SUBSET D
      OBVIOUS
    <3> HIDE DEF T
    <3>2. QED BY <2>1, <3>1, SmallestSet
  <2>3. f[s] = IF s = {} THEN 0
               ELSE LET x == CHOOSE x \in s : TRUE IN Cost(x) + f[s \ {x}]
    BY <1>4, Zenon DEF IsSum
  <2>4. CASE s = {}
    BY <1>2, <2>3, <2>4
  <2>5. CASE s # {}
    <3> DEFINE x == CHOOSE x \in s : TRUE
    <3>1. x \in s
      BY <2>5
    <3>2. f[s] = Cost(x) + f[s \ {x}]
      BY <2>3, <2>5
    <3> HIDE DEF x
    <3>3. s \ {x} \notin T
      BY <2>2, <3>1
    <3>4. QED BY <1>1, <3>1, <3>2, <3>3
  <2>6. QED BY <2>4, <2>5
<1>6. QED BY <1>5 DEF f

\* What a pool is charged with is counted token by token.
Weight(E) == Cardinality(Tokens(E))

LEMMA WeightFacts ==
  ASSUME NEW D, IsFiniteSet(D), \A e \in D : Cost(e) \in Nat
  PROVE  \A E \in SUBSET D :
           /\ Weight(E) \in Nat
           /\ E = {} => Weight(E) = 0
           /\ \A F \in SUBSET E : Weight(F) <= Weight(E)
           /\ \A x \in E : Weight(E) = Cost(x) + Weight(E \ {x})
<1> SUFFICES ASSUME NEW E \in SUBSET D
             PROVE  /\ Weight(E) \in Nat
                    /\ E = {} => Weight(E) = 0
                    /\ \A F \in SUBSET E : Weight(F) <= Weight(E)
                    /\ \A x \in E : Weight(E) = Cost(x) + Weight(E \ {x})
  OBVIOUS
<1>1. IsFiniteSet(Tokens(E))
  BY TokensAreFinite
<1>2. Weight(E) \in Nat
  BY <1>1, FS_CardinalityType DEF Weight
<1>3. E = {} => Weight(E) = 0
  <2>1. E = {} => Tokens(E) = {}
    BY DEF Tokens
  <2>2. QED BY <2>1, FS_EmptySet DEF Weight
<1>4. ASSUME NEW F \in SUBSET E PROVE Weight(F) <= Weight(E)
  <2>1. Tokens(F) \in SUBSET Tokens(E)
    BY DEF Tokens
  <2>2. QED BY <1>1, <2>1, FS_Subset DEF Weight
<1>5. ASSUME NEW x \in E PROVE Weight(E) = Cost(x) + Weight(E \ {x})
  BY TokensAreFinite, TokensOfOne DEF Weight
<1>6. QED BY <1>2, <1>3, <1>4, <1>5

-----------------------------------------------------------------------------
(* The invariant of the accounts                                           *)

Entry == [pool : Pools, key : Revisions, attempt : Nat, most : Nat, charged : Nat \cup {None}]

Attempts(r) == IF receipts[r] = None THEN 0 ELSE receipts[r].attempt

\* The reservations that calls may have been paid from.
Used(pool) == {e \in Of(pool) : e.attempt <= Attempts(e.key)}

EntriesOK ==
  /\ IsFiniteSet(entries) /\ entries \subseteq Entry
  /\ \A e \in entries :
       /\ Cost(e) <= e.most /\ pools[e.pool] # None
       /\ e.pool # Incremental => \E p \in preparations : p.census = e.pool
       /\ e.charged # None => e.attempt <= Attempts(e.key)
  /\ \A e, f \in entries :
       e.pool = f.pool /\ e.key = f.key /\ e.attempt = f.attempt => e = f

Calling == {"begun", "extracted"}

RunPays ==
  /\ run.at \in Running => run.config \in Configs /\ run.ceiling \in Nat
  /\ run.at \in Running \ {"started"} =>
       pools[run.pool] = run.ceiling /\ \A r \in run.todo : receipts[r] # None
  /\ run.at \in Underway => receipts[run.item] # None
  /\ run.at \in {"leased", "reserved"} => run.attempt = receipts[run.item].attempt + 1
  /\ run.at \in Calling => run.attempt = receipts[run.item].attempt
  /\ run.at \in Underway \ {"leased"} =>
       \E e \in Reservation(run.pool, run.item, run.attempt) :
         e.most = run.config.most /\ e.charged = None
  /\ run.at = "extracted" => run.usage \in 1 .. run.config.most

Own(pool) ==
  IF run.at \in Calling /\ run.pool = pool
  THEN Reservation(run.pool, run.item, run.attempt) ELSE {}
Consumed(pool) == IF run.at = "extracted" /\ run.pool = pool THEN run.usage ELSE 0

SpentOK == \A p \in Pools : spent[p] <= Weight(Used(p) \ Own(p)) + Consumed(p)
CeilingsHold == \A p \in Pools : pools[p] # None => Weight(Of(p)) <= pools[p]

TypesOK ==
  /\ TypeOK
  /\ prepare.at = "called" => prepare.model \in Models \cup {None}
  /\ prepare.at \in {"checked", "scanned", "pooled"} =>
       prepare.config \in Configs /\ prepare.boundary \in Models

BalanceInv == PaidInv /\ TypesOK /\ EntriesOK /\ RunPays /\ SpentOK /\ CeilingsHold

-----------------------------------------------------------------------------
LEMMA CostsAreNatural ==
  ASSUME EntriesOK
  PROVE  \A e \in entries : Cost(e) \in Nat
BY DEF EntriesOK, Entry, Cost

\* The same for any set of reservations.
LEMMA Weights ==
  ASSUME EntriesOK
  PROVE  \A E \in SUBSET entries :
           /\ Weight(E) \in Nat
           /\ E = {} => Weight(E) = 0
           /\ \A F \in SUBSET E : Weight(F) <= Weight(E)
           /\ \A x \in E : Weight(E) = Cost(x) + Weight(E \ {x})
BY CostsAreNatural, WeightFacts DEF EntriesOK

LEMMA ChargedIsWeight ==
  ASSUME EntriesOK
  PROVE  \A p \in Pools : Charged(p) = Weight(Of(p))
<1> SUFFICES ASSUME NEW p \in Pools PROVE Charged(p) = Weight(Of(p))
  OBVIOUS
<1>1. IsFiniteSet(Of(p)) /\ \A e \in Of(p) : Cost(e) \in Nat
  BY CostsAreNatural, FS_Subset DEF EntriesOK, Of
<1>2. QED BY <1>1, ChargedIsSum, SumIsCount DEF Weight

\* The reservation of the item that is called is one, and open.
LEMMA OwnIsOne ==
  ASSUME BalanceInv, run.at \in Underway \ {"leased"}
  PROVE  \E o \in entries :
           /\ Reservation(run.pool, run.item, run.attempt) = {o}
           /\ o.pool = run.pool /\ o.key = run.item /\ o.attempt = run.attempt
           /\ o.most = run.config.most /\ o.charged = None /\ Cost(o) = o.most
           /\ o \in Of(run.pool)
<1>1. PICK o \in Reservation(run.pool, run.item, run.attempt) :
        o.most = run.config.most /\ o.charged = None
  BY DEF BalanceInv, RunPays
<1>2. o \in entries /\ o.pool = run.pool /\ o.key = run.item /\ o.attempt = run.attempt
  BY DEF Reservation, Of
<1>3. Reservation(run.pool, run.item, run.attempt) = {o}
  BY <1>2 DEF Reservation, Of, BalanceInv, EntriesOK
<1>4. QED BY <1>1, <1>2, <1>3 DEF Cost, Of

LEMMA AllIsPaid ==
  ASSUME BalanceInv
  PROVE  \A p \in Pools : spent[p] <= Weight(Used(p))
<1> SUFFICES ASSUME NEW p \in Pools PROVE spent[p] <= Weight(Used(p))
  OBVIOUS
<1>1. Used(p) \in SUBSET entries /\ spent[p] \in Nat
  BY DEF Used, Of, BalanceInv, TypesOK, TypeOK
<1>2. Weight(Used(p)) \in Nat /\ Weight(Used(p) \ Own(p)) \in Nat
      /\ Weight(Used(p) \ Own(p)) <= Weight(Used(p))
  BY <1>1, Weights DEF BalanceInv
<1>3. spent[p] <= Weight(Used(p) \ Own(p)) + Consumed(p)
  BY DEF BalanceInv, SpentOK
<1>4. CASE Consumed(p) = 0
  BY <1>1, <1>2, <1>3, <1>4
<1>5. CASE Consumed(p) # 0
  <2>1. run.at = "extracted" /\ run.pool = p /\ Consumed(p) = run.usage
    BY <1>5 DEF Consumed
  <2>2. run.usage \in 1 .. run.config.most
    BY <2>1 DEF BalanceInv, RunPays
  <2>3. PICK o \in entries :
          /\ Reservation(run.pool, run.item, run.attempt) = {o}
          /\ o.pool = run.pool /\ o.key = run.item /\ o.attempt = run.attempt
          /\ o.most = run.config.most /\ o.charged = None /\ Cost(o) = o.most
          /\ o \in Of(run.pool)
    BY <2>1, OwnIsOne DEF Underway
  <2>4. o \in Used(p) /\ Own(p) = {o}
    <3>1. receipts[run.item] # None /\ run.attempt = receipts[run.item].attempt
      BY <2>1 DEF BalanceInv, RunPays, Underway, Calling
    <3>2. o.attempt \in Nat
      BY DEF BalanceInv, EntriesOK, Entry
    <3>3. QED BY <2>1, <2>3, <3>1, <3>2 DEF Used, Own, Calling, Attempts
  <2>5. Weight(Used(p)) = Cost(o) + Weight(Used(p) \ {o})
    BY <1>1, <2>4, Weights DEF BalanceInv
  <2>6. o.most \in Nat
    BY DEF BalanceInv, EntriesOK, Entry
  <2>7. QED BY <1>1, <1>2, <1>3, <2>1, <2>2, <2>3, <2>4, <2>5, <2>6
<1>6. QED BY <1>4, <1>5

-----------------------------------------------------------------------------
(* What stands still                                                       *)

AttemptsStay ==
  /\ receipts' \in [Revisions -> Receipt \cup {None}]
  /\ \A r \in Revisions :
       /\ Attempts(r)' = Attempts(r)
       /\ receipts[r] # None => receipts'[r] # None /\ receipts'[r].attempt = receipts[r].attempt

PoolsStay ==
  /\ pools' \in [Pools -> Nat \cup {None}]
  /\ \A p \in Pools : pools'[p] = pools[p] \/ Of(p) = {}

\* The receipts may have begun more attempts.
AttemptsGrow == \A r \in Revisions : Attempts(r) \in Nat /\ Attempts(r)' \in Nat /\ Attempts(r) <= Attempts(r)'

LEMMA AttemptsAreNatural ==
  ASSUME TypeOK
  PROVE  \A r \in Revisions : Attempts(r) \in Nat
BY DEF TypeOK, Attempts, Receipt

LEMMA StayGrows ==
  ASSUME TypeOK, AttemptsStay
  PROVE  AttemptsGrow
BY AttemptsAreNatural DEF AttemptsStay, AttemptsGrow

LEMMA UsedGrows ==
  ASSUME EntriesOK, AttemptsGrow, entries \subseteq entries'
  PROVE  \A p \in Pools : Used(p) \subseteq Used(p)' /\ Of(p) \subseteq Of(p)'
<1> SUFFICES ASSUME NEW p \in Pools, NEW e \in Of(p)
             PROVE  e \in Of(p)' /\ (e \in Used(p) => e \in Used(p)')
  BY DEF Used
<1>1. e \in entries /\ e.pool = p
  BY DEF Of
<1>2. e \in Of(p)'
  BY <1>1 DEF Of
<1>3. e.key \in Revisions /\ e.attempt \in Nat
  BY <1>1 DEF EntriesOK, Entry
<1>4. QED BY <1>2, <1>3 DEF Used, AttemptsGrow

LEMMA EntriesStand ==
  ASSUME BalanceInv, AttemptsGrow, PoolsStay, UNCHANGED entries, preparations \subseteq preparations'
  PROVE  EntriesOK'
<1>1. \A e \in entries : e.pool \in Pools /\ e.key \in Revisions /\ e.attempt \in Nat /\ e \in Of(e.pool)
  BY DEF BalanceInv, EntriesOK, Entry, Of
<1>2. \A e \in entries : pools'[e.pool] # None
  BY <1>1 DEF PoolsStay, BalanceInv, EntriesOK
<1>3. \A e \in entries : e.charged # None => e.attempt <= Attempts(e.key)'
  BY <1>1 DEF AttemptsGrow, BalanceInv, EntriesOK
<1>4. \A e \in entries : e.pool # Incremental => \E p \in preparations' : p.census = e.pool
  BY DEF BalanceInv, EntriesOK
<1>5. QED BY <1>2, <1>3, <1>4 DEF BalanceInv, EntriesOK

LEMMA CeilingsStand ==
  ASSUME BalanceInv, PoolsStay, UNCHANGED entries
  PROVE  CeilingsHold'
<1> SUFFICES ASSUME NEW p \in Pools, pools'[p] # None PROVE Weight(Of(p)') <= pools'[p]
  BY DEF CeilingsHold
<1>1. Of(p)' = Of(p) /\ Of(p) \in SUBSET entries
  BY DEF Of
<1>2. CASE Of(p) = {}
  <2>1. Weight(Of(p)) = 0 /\ pools'[p] \in Nat
    BY <1>1, <1>2, Weights DEF BalanceInv, PoolsStay
  <2>2. QED BY <1>1, <2>1
<1>3. CASE Of(p) # {}
  BY <1>1, <1>3 DEF PoolsStay, BalanceInv, CeilingsHold
<1>4. QED BY <1>2, <1>3

\* A run that has nothing open any more has paid for all.
LEMMA SpentWhenClosed ==
  ASSUME BalanceInv, AttemptsGrow, EntriesOK', entries \subseteq entries', UNCHANGED spent,
         run'.at \notin Calling
  PROVE  SpentOK'
<1> SUFFICES ASSUME NEW p \in Pools
             PROVE  spent'[p] <= Weight(Used(p)' \ Own(p)') + Consumed(p)'
  BY DEF SpentOK
<1>1. Own(p)' = {} /\ Consumed(p)' = 0
  BY DEF Own, Consumed, Calling
<1>2. spent'[p] \in Nat /\ spent'[p] <= Weight(Used(p))
  BY AllIsPaid DEF BalanceInv, TypesOK, TypeOK
<1>3. Used(p) \subseteq Used(p)'
  BY UsedGrows DEF BalanceInv
<1>4. Used(p)' \in SUBSET entries'
  BY DEF Used, Of
<1>5. \A E \in SUBSET entries' : Weight(E) \in Nat /\ \A F \in SUBSET E : Weight(F) <= Weight(E)
  <2>1. \A e \in entries' : Cost(e) \in Nat
    BY DEF EntriesOK, Entry, Cost
  <2>2. QED BY <2>1, WeightFacts DEF EntriesOK
<1>6. Weight(Used(p)) \in Nat /\ Weight(Used(p)') \in Nat /\ Weight(Used(p)) <= Weight(Used(p)')
  BY <1>3, <1>4, <1>5
<1>7. Used(p)' \ Own(p)' = Used(p)'
  BY <1>1
<1>8. QED BY <1>1, <1>2, <1>6, <1>7

\* Nothing the accounts depend on moves.
LEMMA AccountsStand ==
  ASSUME BalanceInv, AttemptsStay, PoolsStay, UNCHANGED <<run, entries, spent>>,
         run.at \in Running => pools'[run.pool] = pools[run.pool],
         preparations \subseteq preparations'
  PROVE  EntriesOK' /\ RunPays' /\ SpentOK' /\ CeilingsHold'
<1>1. AttemptsGrow
  BY StayGrows DEF BalanceInv, TypesOK
<1>2. EntriesOK' /\ CeilingsHold'
  BY <1>1, EntriesStand, CeilingsStand
<1>3. RunPays'
  <2>1. run.at \in Underway => run.item \in Revisions
    BY DEF BalanceInv, PaidInv, RunOK, CensusesOK, Running, Underway
  <2>2. run.at \in Running \ {"started"} => run.todo \subseteq Revisions
    BY DEF BalanceInv, PaidInv, RunOK, CensusesOK, Running, Underway
  <2>3. Reservation(run.pool, run.item, run.attempt)' = Reservation(run.pool, run.item, run.attempt)
    BY DEF Reservation, Of
  <2>4. QED BY <2>1, <2>2, <2>3 DEF BalanceInv, RunPays, AttemptsStay, Underway, Running, Calling
<1>4. SpentOK'
  <2> SUFFICES ASSUME NEW p \in Pools
               PROVE  spent'[p] <= Weight(Used(p)' \ Own(p)') + Consumed(p)'
    BY DEF SpentOK
  <2>1. Own(p)' = Own(p) /\ Consumed(p)' = Consumed(p)
    BY DEF Own, Consumed, Reservation, Of
  <2>2. Used(p)' = Used(p)
    <3>1. \A e \in entries : e.key \in Revisions
      BY DEF BalanceInv, EntriesOK, Entry
    <3>2. QED BY <3>1 DEF Used, Of, AttemptsStay
  <2>3. QED BY <2>1, <2>2 DEF BalanceInv, SpentOK
<1>5. QED BY <1>2, <1>3, <1>4

\* The run goes on, or ends, without a call being open.
LEMMA RunGoesClosed ==
  ASSUME BalanceInv, AttemptsGrow, PoolsStay, UNCHANGED <<entries, spent, preparations>>,
         run'.at \notin Calling
  PROVE  EntriesOK' /\ SpentOK' /\ CeilingsHold'
<1>1. EntriesOK' /\ CeilingsHold'
  BY EntriesStand, CeilingsStand
<1>2. QED BY <1>1, SpentWhenClosed

\* A receipt goes to another state.
LEMMA StatusChanges ==
  ASSUME TypeOK, NEW r \in Revisions, receipts[r] # None, NEW status \in Statuses,
         receipts' = [receipts EXCEPT ![r].status = status]
  PROVE  AttemptsStay
<1> DEFINE new == [receipts[r] EXCEPT !.status = status]
<1>1. receipts[r] \in Receipt
  BY DEF TypeOK
<1>2. new \in Receipt /\ new.attempt = receipts[r].attempt
  BY <1>1 DEF Receipt
<1>3. receipts' = [receipts EXCEPT ![r] = new]
  OBVIOUS
<1>4. new # None
  BY <1>2, BackfillAssumption
<1> HIDE DEF new
<1>5. QED BY <1>2, <1>3, <1>4 DEF TypeOK, AttemptsStay, Attempts

LEMMA ReceiptsStay ==
  ASSUME TypeOK, UNCHANGED receipts
  PROVE  AttemptsStay
BY DEF TypeOK, AttemptsStay, Attempts

-----------------------------------------------------------------------------
(* prepare-backfill, the user and the clock                                *)

LEMMA RecoveredStays ==
  ASSUME TypeOK, NEW r \in Revisions
  PROVE  /\ Recovered(r) \in Receipt \cup {None}
         /\ receipts[r] # None => Recovered(r) # None /\ Recovered(r).attempt = receipts[r].attempt
         /\ receipts[r] = None => Recovered(r) = None
<1>1. CASE receipts[r] = None
  BY <1>1 DEF Recovered
<1>2. CASE receipts[r] # None
  <2> DEFINE new == [receipts[r] EXCEPT !.status = "retryable"]
  <2>1. receipts[r] \in Receipt
    BY <1>2 DEF TypeOK
  <2>2. new \in Receipt /\ new.attempt = receipts[r].attempt
    BY <2>1 DEF Receipt, Statuses
  <2>3. new # None
    BY <2>2, BackfillAssumption
  <2>4. Recovered(r) = new \/ Recovered(r) = receipts[r]
    BY DEF Recovered
  <2> HIDE DEF new
  <2>5. QED BY <1>2, <2>1, <2>2, <2>3, <2>4
<1>3. QED BY <1>1, <1>2

LEMMA RecoveryStays ==
  ASSUME TypeOK, NEW fresh \in SUBSET Revisions, NEW kept \in SUBSET Revisions,
         receipts' = [r \in Revisions |-> IF r \in fresh /\ receipts[r] = None THEN New
                                          ELSE IF r \in kept THEN receipts[r] ELSE Recovered(r)]
  PROVE  AttemptsStay
<1>1. New \in Receipt /\ New.attempt = 0 /\ New # None
  <2>1. New \in Receipt /\ New.attempt = 0
    BY DEF New, Receipt, Statuses
  <2>2. QED BY <2>1, BackfillAssumption
<1>2. \A r \in Revisions :
        /\ receipts'[r] \in Receipt \cup {None}
        /\ receipts[r] # None => receipts'[r] # None /\ receipts'[r].attempt = receipts[r].attempt
        /\ receipts[r] = None => receipts'[r] \in {New, None}
  <2> SUFFICES ASSUME NEW r \in Revisions
               PROVE  /\ receipts'[r] \in Receipt \cup {None}
                      /\ receipts[r] # None =>
                           receipts'[r] # None /\ receipts'[r].attempt = receipts[r].attempt
                      /\ receipts[r] = None => receipts'[r] \in {New, None}
    OBVIOUS
  <2>1. \/ receipts[r] = None /\ receipts'[r] = New
        \/ receipts'[r] = receipts[r]
        \/ receipts'[r] = Recovered(r)
    BY Zenon
  <2>2. receipts[r] \in Receipt \cup {None}
    BY DEF TypeOK
  <2>3. QED BY <1>1, <2>1, <2>2, RecoveredStays
<1>3. receipts' \in [Revisions -> Receipt \cup {None}]
  BY <1>2
<1>4. QED BY <1>1, <1>2, <1>3 DEF AttemptsStay, Attempts

LEMMA PrepareBalances ==
  ASSUME BalanceInv, PaidInv', PrepareNext
  PROVE  BalanceInv'
<1>1. UNCHANGED <<run, entries, spent, held, config, host, edits>>
  BY DEF PrepareNext, PrepareCalled, PrepareChecked, PrepareScans, PreparePools, PrepareWrites,
         PrepareStops, outside, budget, frozen, history
<1>2. TypeOK /\ \A c \in Configs : c.backfill \in Nat /\ c.model \in Models \cup {None}
  BY BackfillAssumption DEF BalanceInv, TypesOK, Config
<1>3. AttemptsStay
  <2>1. ASSUME NEW window \in SUBSET Revisions, PrepareScans(window) PROVE AttemptsStay
    <3> DEFINE kept == {}
    <3>1. receipts' = [r \in Revisions |-> IF r \in window /\ receipts[r] = None THEN New
                                            ELSE IF r \in kept THEN receipts[r] ELSE Recovered(r)]
      BY <2>1 DEF PrepareScans
    <3>2. kept \in SUBSET Revisions
      OBVIOUS
    <3> HIDE DEF kept
    <3>3. QED BY <1>2, <3>1, <3>2, RecoveryStays
  <2>2. ~(\E window \in SUBSET Revisions : PrepareScans(window)) => UNCHANGED receipts
    BY DEF PrepareNext, PrepareCalled, PrepareChecked, PreparePools, PrepareWrites, PrepareStops
  <2>3. QED BY <1>2, <2>1, <2>2, ReceiptsStay
<1>4. /\ PoolsStay /\ (run.at \in Running => pools'[run.pool] = pools[run.pool])
  <2>1. CASE PreparePools
    <3> DEFINE c == prepare.census
    <3>1. /\ pools' = [pools EXCEPT ![c] = prepare.config.backfill]
          /\ prepare.at = "scanned" /\ c \in 1 .. Len(censuses)
          /\ \A p \in preparations : p.census # c
          /\ prepare.config \in Configs
      BY <2>1 DEF PreparePools, Snapshot, At, BalanceInv, PaidInv, PreparationsOK, TypesOK
    <3> HIDE DEF c
    <3>2. c # Incremental
      BY <3>1 DEF Incremental
    <3>3. Of(c) = {}
      BY <3>1, <3>2 DEF Of, BalanceInv, EntriesOK
    <3>4. PoolsStay
      BY <1>2, <3>1, <3>3 DEF PoolsStay, TypeOK
    <3>5. run.at \in Running => run.pool # c
      BY <3>1, <3>2 DEF BalanceInv, PaidInv, RunOK, IsPrepared
    <3>6. QED BY <3>1, <3>4, <3>5
  <2>2. CASE ~PreparePools
    <3>1. UNCHANGED pools
      BY <2>2 DEF PrepareNext, PrepareCalled, PrepareChecked, PrepareScans, PrepareWrites,
         PrepareStops, budget
    <3>2. QED BY <1>2, <3>1 DEF PoolsStay, TypeOK
  <2>3. QED BY <2>1, <2>2
<1>5. preparations \subseteq preparations'
  BY DEF PrepareNext, PrepareCalled, PrepareChecked, PrepareScans, PreparePools, PrepareWrites,
         PrepareStops, frozen
<1>6. EntriesOK' /\ RunPays' /\ SpentOK' /\ CeilingsHold'
  BY <1>1, <1>3, <1>4, <1>5, AccountsStand
<1>7. TypesOK'
  <2>1. faults' \in 0 .. MaxFaults
    BY <1>2, BackfillAssumption DEF TypeOK, Fault, PrepareNext, PrepareCalled, PrepareChecked,
       PrepareScans, PreparePools, PrepareWrites, PrepareStops, history
  <2>2. censuses' \in Seq(SUBSET Revisions)
    BY DEF PaidInv, CensusesOK
  <2>3. /\ \A p \in preparations' : p.config \in Configs /\ p.boundary \in Models
        /\ prepare'.at = "called" => prepare'.model \in Models \cup {None}
        /\ prepare'.at \in {"checked", "scanned", "pooled"} =>
             prepare'.config \in Configs /\ prepare'.boundary \in Models
    <3>1. CASE PrepareCalled
      BY <1>2, <3>1 DEF PrepareCalled, BalanceInv, TypesOK, TypeOK, frozen
    <3>2. CASE PrepareChecked
      BY <1>2, <3>2 DEF PrepareChecked, At, Idle, Boundary, BalanceInv, TypesOK, TypeOK, frozen
    <3>3. ASSUME NEW window \in SUBSET Revisions, PrepareScans(window)
          PROVE  /\ prepare'.at = "scanned" /\ preparations' = preparations
                 /\ prepare'.config = prepare.config /\ prepare'.boundary = prepare.boundary
                 /\ prepare.at = "checked"
      <4> DEFINE p == [prepare EXCEPT !.at = "scanned"]
      <4>0. prepare.at = "checked" /\ DOMAIN prepare = {"at", "config", "boundary"}
        BY <3>3 DEF PrepareScans, At, BalanceInv, PaidInv, FieldsOK
      <4>1. /\ DOMAIN p = DOMAIN prepare /\ p.at = "scanned"
            /\ p.config = prepare.config /\ p.boundary = prepare.boundary
        BY <4>0
      <4>2. prepare' = With(p, "census", Len(censuses')) /\ preparations' = preparations
        BY <3>3 DEF PrepareScans
      <4> HIDE DEF p
      <4>3. DOMAIN p \subseteq DOMAIN prepare' /\ \A f \in DOMAIN p : f # "census" => prepare'[f] = p[f]
        BY <4>2 DEF With
      <4>4. QED BY <4>0, <4>1, <4>2, <4>3
    <3>4. CASE PreparePools
      <4>1. /\ prepare.at = "scanned" /\ prepare' = [prepare EXCEPT !.at = "pooled"]
            /\ DOMAIN prepare = {"at", "config", "boundary", "census"} /\ preparations' = preparations
        BY <3>4 DEF PreparePools, At, BalanceInv, PaidInv, FieldsOK, frozen
      <4>2. /\ prepare'.at = "pooled" /\ prepare'.config = prepare.config
            /\ prepare'.boundary = prepare.boundary
        BY <4>1
      <4>3. QED BY <1>2, <4>1, <4>2 DEF BalanceInv, TypesOK, TypeOK
    <3>5. CASE PrepareWrites
      <4>1. \A p \in preparations' \ preparations :
              p.config = prepare.config /\ p.boundary = prepare.boundary
        BY <3>5 DEF PrepareWrites
      <4>2. prepare.at = "pooled" /\ prepare'.at = "idle"
        BY <3>5 DEF PrepareWrites, At, Idle
      <4>3. QED BY <4>1, <4>2 DEF BalanceInv, TypesOK, TypeOK
    <3>6. CASE PrepareStops
      BY <3>6 DEF PrepareStops, Idle, BalanceInv, TypesOK, TypeOK, frozen
    <3>7. QED BY <3>1, <3>2, <3>3, <3>4, <3>5, <3>6 DEF PrepareNext, BalanceInv, TypesOK, TypeOK
  <2>4. entries' = entries /\ pools' \in [Pools -> Nat \cup {None}]
    BY <1>1, <1>4 DEF PoolsStay
  <2>5. QED BY <1>1, <1>2, <1>3, <2>1, <2>2, <2>3, <2>4 DEF TypesOK, TypeOK, AttemptsStay
<1>8. QED BY <1>6, <1>7 DEF BalanceInv

LEMMA OthersBalance ==
  ASSUME BalanceInv, PaidInv',
         \/ \E r \in Revisions : LeaseExpires(r) \/ Retry(r)
         \/ \E c \in Configs : Edit(c)
         \/ \E model \in Models : HostChanges(model)
         \/ UNCHANGED vars
  PROVE  BalanceInv'
<1>1. UNCHANGED <<run, entries, spent, censuses, preparations, pools, prepare, faults>>
  BY DEF LeaseExpires, Retry, Edit, HostChanges, vars, outside, frozen, budget, history
<1>2. TypeOK
  BY DEF BalanceInv, TypesOK
<1>3. AttemptsStay
  <2>1. ASSUME NEW r \in Revisions, Retry(r) PROVE AttemptsStay
    BY <1>2, <2>1, StatusChanges DEF Retry, Statuses
  <2>2. ~(\E r \in Revisions : Retry(r)) => UNCHANGED receipts
    BY DEF LeaseExpires, Edit, HostChanges, vars
  <2>3. QED BY <1>2, <2>1, <2>2, ReceiptsStay
<1>4. PoolsStay
  BY <1>1, <1>2 DEF PoolsStay, TypeOK
<1>5. EntriesOK' /\ RunPays' /\ SpentOK' /\ CeilingsHold'
  BY <1>1, <1>3, <1>4, AccountsStand
<1>6. config' \in Configs /\ host' \in Models /\ held' \subseteq Revisions /\ edits' \in 0 .. MaxEdits
  BY <1>2, BackfillAssumption
     DEF TypeOK, LeaseExpires, Retry, Edit, HostChanges, vars, outside, history
<1>7. TypesOK'
  BY <1>1, <1>2, <1>3, <1>6 DEF BalanceInv, TypesOK, TypeOK, AttemptsStay
<1>8. QED BY <1>5, <1>7 DEF BalanceInv

-----------------------------------------------------------------------------
(* The runner                                                              *)

LEMMA RunnerTypes ==
  ASSUME TypesOK, UNCHANGED <<outside, frozen, prepare>>, EntriesOK',
         receipts' \in [Revisions -> Receipt \cup {None}], held' \subseteq Revisions,
         pools' \in [Pools -> Nat \cup {None}], spent' \in [Pools -> Nat],
         faults' \in 0 .. MaxFaults
  PROVE  TypesOK'
<1>1. \A e \in entries' : e.pool \in Pools /\ e.key \in Revisions
  BY DEF EntriesOK, Entry
<1>2. UNCHANGED <<config, host, edits, censuses, preparations, prepare>>
  BY DEF outside, frozen
<1>3. QED BY <1>1, <1>2 DEF TypesOK, TypeOK

\* The run moves, no call is open, and of the accounts at most a pool changes.
LEMMA ClosedBalances ==
  ASSUME BalanceInv, PaidInv', AttemptsGrow, PoolsStay,
         UNCHANGED <<outside, frozen, entries, prepare, spent>>,
         receipts' \in [Revisions -> Receipt \cup {None}], held' \subseteq Revisions,
         faults' \in 0 .. MaxFaults, run'.at \notin Calling, RunPays'
  PROVE  BalanceInv'
<1>1. UNCHANGED preparations
  BY DEF frozen
<1>2. EntriesOK' /\ SpentOK' /\ CeilingsHold'
  BY <1>1, RunGoesClosed
<1>3. TypesOK'
  <2>1. spent' \in [Pools -> Nat] /\ pools' \in [Pools -> Nat \cup {None}]
    BY DEF BalanceInv, TypesOK, TypeOK, PoolsStay
  <2>2. QED BY <1>2, <2>1, RunnerTypes DEF BalanceInv
<1>4. QED BY <1>2, <1>3 DEF BalanceInv

LEMMA StartAndEndBalance ==
  ASSUME BalanceInv, PaidInv',
         BackfillCalled \/ RunOnceCalled \/ StartManual \/ StartBackground
           \/ Finish \/ RunRaises \/ RunDies
  PROVE  BalanceInv'
<1>1. UNCHANGED <<outside, frozen, entries, pools, prepare, spent>>
  BY DEF BackfillCalled, RunOnceCalled, Called, StartManual, StartBackground, Finish, RunRaises,
         RunDies, budget, history
<1>2. TypeOK
  BY DEF BalanceInv, TypesOK
<1>3. AttemptsStay
  <2>1. CASE StartManual /\ UNCHANGED receipts
    BY <1>2, <2>1, ReceiptsStay
  <2>2. CASE StartManual /\ receipts' = [r \in Revisions |-> Recovered(r)]
    <3> DEFINE none == {}
    <3>1. receipts' = [r \in Revisions |-> IF r \in none /\ receipts[r] = None THEN New
                                            ELSE IF r \in none THEN receipts[r] ELSE Recovered(r)]
      BY <2>2
    <3>2. none \in SUBSET Revisions
      OBVIOUS
    <3> HIDE DEF none
    <3>3. QED BY <1>2, <3>1, <3>2, RecoveryStays
  <2>3. CASE StartBackground
    <3> DEFINE none == {}
    <3>1. receipts' = [r \in Revisions |-> IF r \in none /\ receipts[r] = None THEN New
                                            ELSE IF r \in held THEN receipts[r] ELSE Recovered(r)]
      BY <2>3 DEF StartBackground
    <3>2. none \in SUBSET Revisions /\ held \in SUBSET Revisions
      BY <1>2 DEF TypeOK
    <3> HIDE DEF none
    <3>3. QED BY <1>2, <3>1, <3>2, RecoveryStays
  <2>4. CASE ~(StartManual \/ StartBackground)
    <3>1. UNCHANGED receipts
      BY <2>4 DEF BackfillCalled, RunOnceCalled, Called, Finish, RunRaises, RunDies
    <3>2. QED BY <1>2, <3>1, ReceiptsStay
  <2>5. StartManual => UNCHANGED receipts \/ receipts' = [r \in Revisions |-> Recovered(r)]
    BY DEF StartManual
  <2>6. QED BY <2>1, <2>2, <2>3, <2>4, <2>5
<1>4. AttemptsGrow /\ PoolsStay
  BY <1>1, <1>2, <1>3, StayGrows DEF PoolsStay, TypeOK
<1>5. held' \subseteq Revisions /\ faults' \in 0 .. MaxFaults
  BY <1>2, BackfillAssumption
     DEF TypeOK, BackfillCalled, RunOnceCalled, Called, StartManual, StartBackground, Finish,
         RunRaises, RunDies, Fault, history
<1>6. run'.at \in {"idle", "called", "started"}
      /\ (run'.at = "started" => run'.config \in Configs /\ run'.ceiling \in Nat)
  <2>1. CASE StartManual
    <3>1. config \in Configs /\ config.backfill \in Nat
      BY <1>2, BackfillAssumption DEF TypeOK, Config
    <3>2. \/ run' = Idle
          \/ run' = [at |-> "started", model |-> run.model, config |-> config,
                     pool |-> run.preparation.census, ceiling |-> config.backfill,
                     census |-> run.preparation.census]
      BY <2>1 DEF StartManual
    <3>3. QED BY <3>1, <3>2 DEF Idle
  <2>2. CASE StartBackground
    <3>1. config \in Configs /\ config.incremental \in Nat \cup {None}
      BY <1>2, BackfillAssumption DEF TypeOK, Config
    <3>2. \/ run' = Idle
          \/ /\ run' = [at |-> "started", model |-> run.model, config |-> config,
                        pool |-> Incremental, ceiling |-> config.incremental,
                        census |-> Len(censuses)]
             /\ config.incremental # None
      BY <2>2 DEF StartBackground
    <3>3. QED BY <3>1, <3>2 DEF Idle
  <2>3. CASE BackfillCalled \/ RunOnceCalled
    BY <2>3 DEF BackfillCalled, RunOnceCalled, Called
  <2>4. CASE Finish \/ RunRaises \/ RunDies
    BY <2>4 DEF Finish, RunRaises, RunDies, Idle
  <2>5. QED BY <2>1, <2>2, <2>3, <2>4
<1>7. run'.at \notin Calling /\ RunPays'
  BY <1>6 DEF RunPays, Running, Underway, Calling
<1>8. QED BY <1>1, <1>3, <1>4, <1>5, <1>7, ClosedBalances DEF AttemptsStay

\* The pool of a run that goes on has the ceiling the run reads.
LEMMA SelectBalances ==
  ASSUME BalanceInv, PaidInv', NEW chosen \in SUBSET Revisions, Select(chosen)
  PROVE  BalanceInv'
<1>1. /\ UNCHANGED <<outside, frozen, entries, prepare, spent, receipts, held, faults>>
      /\ run.at = "started" /\ \A r \in chosen : receipts[r] # None
  BY DEF Select, At, IsReady, history
<1>2. TypeOK /\ PaidInv /\ EntriesOK
  BY DEF BalanceInv, TypesOK
<1>3. AttemptsStay /\ AttemptsGrow
  BY <1>1, <1>2, ReceiptsStay, StayGrows
<1>4. run.pool \in Pools /\ run.ceiling \in Nat /\ run.config \in Configs
  BY <1>1 DEF BalanceInv, RunPays, PaidInv, RunOK, Running
<1>5. CASE PoolAgrees(run.pool, run.ceiling)
  <2>1. /\ pools' = [pools EXCEPT ![run.pool] = run.ceiling]
        /\ run' = With([run EXCEPT !.at = "item"], "todo", chosen)
    BY <1>5 DEF Select, Snapshot
  <2>2. /\ run'.at = "item" /\ run'.todo = chosen
        /\ run'.pool = run.pool /\ run'.ceiling = run.ceiling /\ run'.config = run.config
    BY <1>1, <1>2, <2>1, SelectedRun DEF Common
  <2>3. pools[run.pool] = None => Of(run.pool) = {}
    BY <1>2 DEF EntriesOK, Of
  <2>4. PoolsStay
    BY <1>2, <1>4, <1>5, <2>1, <2>3 DEF PoolsStay, TypeOK, PoolAgrees
  <2>5. pools'[run.pool] = run.ceiling
    BY <1>2, <1>4, <2>1 DEF TypeOK
  <2>6. run'.at \notin Calling /\ RunPays'
    BY <1>1, <1>4, <2>2, <2>5 DEF RunPays, Running, Underway, Calling
  <2>7. QED BY <1>1, <1>2, <1>3, <2>4, <2>6, ClosedBalances DEF TypeOK
<1>6. CASE ~PoolAgrees(run.pool, run.ceiling)
  <2>1. run' = Idle /\ pools' = pools
    BY <1>6 DEF Select
  <2>2. PoolsStay
    BY <1>2, <2>1 DEF PoolsStay, TypeOK
  <2>3. run'.at \notin Calling /\ RunPays'
    BY <2>1 DEF Idle, RunPays, Running, Underway, Calling
  <2>4. QED BY <1>1, <1>2, <1>3, <2>2, <2>3, ClosedBalances DEF TypeOK
<1>7. QED BY <1>5, <1>6

\* An item is taken up for its next attempt.
LEMMA LeaseBalances ==
  ASSUME BalanceInv, PaidInv', NEW r \in Revisions, Lease(r)
  PROVE  BalanceInv'
<1>1. /\ UNCHANGED <<outside, frozen, entries, pools, prepare, spent, receipts, faults>>
      /\ run.at = "item" /\ r \in run.todo /\ held' \subseteq held \cup {r}
  BY DEF Lease, At, budget, history
<1>2. TypeOK /\ PaidInv /\ EntriesOK
  BY DEF BalanceInv, TypesOK
<1>3. AttemptsStay /\ AttemptsGrow /\ PoolsStay
  BY <1>1, <1>2, ReceiptsStay, StayGrows DEF PoolsStay, TypeOK
<1>4. /\ run.ceiling \in Nat /\ run.config \in Configs /\ pools[run.pool] = run.ceiling
      /\ \A q \in run.todo : receipts[q] # None
  BY <1>1 DEF BalanceInv, RunPays, Running
<1>5. run'.at \notin Calling /\ RunPays'
  <2>1. CASE r \in held
    <3>1. run' = [run EXCEPT !.todo = @ \ {r}] /\ DOMAIN run = Common \cup {"todo"}
      BY <1>1, <1>2, <2>1 DEF Lease, PaidInv, FieldsOK
    <3>2. /\ run'.at = "item" /\ run'.todo = run.todo \ {r}
          /\ run'.pool = run.pool /\ run'.ceiling = run.ceiling /\ run'.config = run.config
      BY <1>1, <3>1 DEF Common
    <3>3. QED BY <1>1, <1>4, <3>2 DEF RunPays, Running, Underway, Calling
  <2>2. CASE r \notin held
    <3>1. run' = With(With([run EXCEPT !.at = "leased", !.todo = @ \ {r}], "item", r),
                      "attempt", receipts[r].attempt + 1)
      BY <2>2 DEF Lease
    <3>2. /\ run'.at = "leased" /\ run'.todo = run.todo \ {r} /\ run'.item = r
          /\ run'.attempt = receipts[r].attempt + 1
          /\ \A f \in Common \ {"at"} : run'[f] = run[f]
      BY <1>1, <1>2, <3>1, LeasedRun
    <3>3. run'.pool = run.pool /\ run'.ceiling = run.ceiling /\ run'.config = run.config
      BY <3>2 DEF Common
    <3>4. QED BY <1>1, <1>4, <3>2, <3>3 DEF RunPays, Running, Underway, Calling
  <2>3. QED BY <2>1, <2>2
<1>6. QED BY <1>1, <1>2, <1>3, <1>5, ClosedBalances DEF TypeOK

\* The item that is underway is a receipt of its own.
LEMMA ItemIsReceipt ==
  ASSUME BalanceInv, run.at \in Underway
  PROVE  /\ run.item \in Revisions /\ receipts[run.item] \in Receipt /\ receipts[run.item] # None
         /\ Attempts(run.item) = receipts[run.item].attempt /\ receipts[run.item].attempt \in Nat
         /\ run.pool \in Pools /\ run.config \in Configs /\ run.config.most \in Nat
         /\ run.ceiling \in Nat /\ pools[run.pool] = run.ceiling
         /\ \A r \in run.todo : receipts[r] # None
<1>1. run.item \in Revisions /\ receipts[run.item] # None /\ run.pool \in Pools
  BY DEF BalanceInv, PaidInv, RunOK, CensusesOK, Running, RunPays
<1>2. receipts[run.item] \in Receipt
  BY <1>1 DEF BalanceInv, TypesOK, TypeOK
<1>3. run.config \in Configs /\ run.ceiling \in Nat /\ pools[run.pool] = run.ceiling
      /\ \A r \in run.todo : receipts[r] # None
  BY DEF BalanceInv, RunPays, Running, Underway
<1>4. run.config.most \in Nat
  BY <1>3, BackfillAssumption DEF Config
<1>5. QED BY <1>1, <1>2, <1>3, <1>4 DEF Attempts, Receipt

\* Whatever a step makes of a receipt is one.
LEMMA ReceiptChanges ==
  ASSUME NEW old \in Receipt, NEW status \in Statuses, NEW usage \in Nat
  PROVE  /\ old.attempt \in Nat
         /\ [old EXCEPT !.status = status] \in Receipt
         /\ [old EXCEPT !.status = status].attempt = old.attempt
         /\ [old EXCEPT !.status = status, !.attempt = @ + 1] \in Receipt
         /\ [old EXCEPT !.status = status, !.attempt = @ + 1].attempt = old.attempt + 1
         /\ [old EXCEPT !.status = status, !.usage = usage] \in Receipt
         /\ [old EXCEPT !.status = status, !.usage = usage].attempt = old.attempt
<1>1. old.attempt \in Nat /\ old.attempt + 1 \in Nat
  BY DEF Receipt
<1>2. [old EXCEPT !.status = status] \in Receipt
      /\ [old EXCEPT !.status = status].attempt = old.attempt
  BY DEF Receipt
<1>3. ASSUME NEW n \in Nat
      PROVE  /\ [old EXCEPT !.status = status, !.attempt = n] \in Receipt
             /\ [old EXCEPT !.status = status, !.attempt = n].attempt = n
  BY DEF Receipt
<1>4. /\ [old EXCEPT !.status = status, !.usage = usage] \in Receipt
      /\ [old EXCEPT !.status = status, !.usage = usage].attempt = old.attempt
  BY DEF Receipt
<1>5. QED BY <1>1, <1>2, <1>3, <1>4

\* A receipt is put where another one was; its attempts do not fall.
LEMMA ReceiptPut ==
  ASSUME TypeOK, NEW r \in Revisions, receipts[r] # None, NEW new \in Receipt,
         receipts[r].attempt <= new.attempt, receipts' = [receipts EXCEPT ![r] = new]
  PROVE  /\ receipts' \in [Revisions -> Receipt \cup {None}] /\ AttemptsGrow
         /\ \A q \in Revisions : receipts[q] # None => receipts'[q] # None
         /\ receipts'[r] = new /\ Attempts(r)' = new.attempt
<1>1. receipts' \in [Revisions -> Receipt \cup {None}]
  BY DEF TypeOK
<1>2. receipts'[r] = new /\ \A q \in Revisions \ {r} : receipts'[q] = receipts[q]
  BY DEF TypeOK
<1>3. new # None /\ new.attempt \in Nat
  BY BackfillAssumption DEF Receipt
<1>4. \A q \in Revisions : Attempts(q) \in Nat
  BY AttemptsAreNatural
<1>5. Attempts(r) = receipts[r].attempt /\ Attempts(r)' = new.attempt
  BY <1>2, <1>3 DEF Attempts
<1>6. \A q \in Revisions \ {r} : Attempts(q)' = Attempts(q)
  BY <1>2 DEF Attempts
<1>7. AttemptsGrow
  BY <1>3, <1>4, <1>5, <1>6 DEF AttemptsGrow
<1>8. QED BY <1>1, <1>2, <1>3, <1>5, <1>7

\* The run turns to the next item.
LEMMA NextItemPays ==
  ASSUME BalanceInv, run.at \in Underway, NextItem,
         pools'[run.pool] = pools[run.pool],
         \A r \in Revisions : receipts[r] # None => receipts'[r] # None
  PROVE  /\ run'.at \notin Calling /\ RunPays'
<1>1. /\ run'.at = "item" /\ run'.pool = run.pool /\ run'.config = run.config
      /\ run'.ceiling = run.ceiling /\ run'.todo = run.todo
  BY NextItemRun DEF BalanceInv
<1>2. run.todo \subseteq Revisions
  BY DEF BalanceInv, PaidInv, RunOK, CensusesOK, Running, Underway
<1>3. QED BY <1>1, <1>2, ItemIsReceipt DEF RunPays, Running, Underway, Calling

LEMMA GivenUpBalances ==
  ASSUME BalanceInv, PaidInv',
         (\E target \in Statuses : Unreadable(target)) \/ NoSignal \/ Conflicting \/ Defer
  PROVE  BalanceInv'
<1>1. /\ UNCHANGED <<outside, frozen, entries, pools, prepare, spent, faults>>
      /\ run.at = "leased" /\ NextItem /\ held' \subseteq held
  BY DEF Unreadable, NoSignal, Conflicting, Defer, NextItem, At, budget, history
<1>2. TypeOK /\ PaidInv /\ EntriesOK /\ run.at \in Underway
  BY <1>1 DEF BalanceInv, TypesOK, Underway
<1>3. /\ receipts' \in [Revisions -> Receipt \cup {None}] /\ AttemptsGrow
      /\ \A r \in Revisions : receipts[r] # None => receipts'[r] # None
  <2>1. CASE NoSignal
    <3> DEFINE new == [receipts[run.item] EXCEPT !.status = "complete", !.attempt = @ + 1]
    <3>1. receipts[run.item] \in Receipt /\ receipts[run.item] # None /\ run.item \in Revisions
      BY <1>2, ItemIsReceipt
    <3>2. "complete" \in Statuses
      BY DEF Statuses
    <3>3. new \in Receipt /\ new.attempt = receipts[run.item].attempt + 1
          /\ receipts[run.item].attempt \in Nat
      BY <3>1, <3>2, ReceiptChanges
    <3>4. receipts' = [receipts EXCEPT ![run.item] = new]
      BY <1>2, <2>1, <3>1 DEF NoSignal, TypeOK
    <3> HIDE DEF new
    <3>5. receipts[run.item].attempt <= new.attempt
      BY <3>3
    <3>6. QED BY <1>2, <3>1, <3>3, <3>4, <3>5, ReceiptPut
  <2>2. CASE ~NoSignal
    <3>1. receipts' = receipts \/ \E status \in Statuses :
            receipts' = [receipts EXCEPT ![run.item].status = status]
      BY <2>2 DEF Unreadable, Conflicting, Defer, Becomes, Statuses
    <3>2. AttemptsStay
      BY <1>2, <3>1, StatusChanges, ReceiptsStay, ItemIsReceipt
    <3>3. QED BY <1>2, <3>2, StayGrows DEF AttemptsStay
  <2>3. QED BY <2>1, <2>2
<1>4. PoolsStay
  BY <1>1, <1>2 DEF PoolsStay, TypeOK
<1>5. run'.at \notin Calling /\ RunPays'
  BY <1>1, <1>2, <1>3, NextItemPays
<1>6. QED BY <1>1, <1>2, <1>3, <1>4, <1>5, ClosedBalances DEF TypeOK

-----------------------------------------------------------------------------
(* One call                                                                *)

\* The run keeps what it goes by while it reserves and begins.
LEMMA RunSteps ==
  ASSUME BalanceInv, run.at \in {"leased", "reserved"}, NEW step \in {"reserved", "begun"},
         run' = [run EXCEPT !.at = step]
  PROVE  /\ run'.at = step /\ run'.pool = run.pool /\ run'.config = run.config
         /\ run'.ceiling = run.ceiling /\ run'.todo = run.todo /\ run'.item = run.item
         /\ run'.attempt = run.attempt
<1>1. DOMAIN run = Common \cup {"todo", "item", "attempt"}
  BY DEF BalanceInv, PaidInv, FieldsOK, Underway
<1>2. QED BY <1>1 DEF Common

\* There is room for what is reserved, or it was counted before.
LEMMA ReserveBalances ==
  ASSUME BalanceInv, PaidInv', Reserve
  PROVE  BalanceInv'
<1> DEFINE present == Reservation(run.pool, run.item, run.attempt)
           fresh == [pool |-> run.pool, key |-> run.item, attempt |-> run.attempt,
                     most |-> run.config.most, charged |-> None]
<1>1. /\ UNCHANGED <<outside, frozen, pools, prepare, spent, receipts, held, faults>>
      /\ run.at = "leased" /\ run' = [run EXCEPT !.at = "reserved"]
      /\ \A e \in present : e.most = run.config.most
      /\ present = {} => Fits(run.pool, run.config.most, run.ceiling)
      /\ entries' = IF present = {} THEN entries \cup {fresh} ELSE entries
  BY DEF Reserve, At, history
<1>2. TypeOK /\ PaidInv /\ EntriesOK /\ run.at \in Underway
  BY <1>1 DEF BalanceInv, TypesOK, Underway
<1>3. AttemptsStay /\ AttemptsGrow /\ PoolsStay /\ UNCHANGED preparations
  BY <1>1, <1>2, ReceiptsStay, StayGrows DEF PoolsStay, TypeOK, frozen
<1>4. /\ run.item \in Revisions /\ receipts[run.item] # None
      /\ Attempts(run.item) = receipts[run.item].attempt /\ receipts[run.item].attempt \in Nat
      /\ run.pool \in Pools /\ run.config \in Configs /\ run.config.most \in Nat
      /\ run.ceiling \in Nat /\ pools[run.pool] = run.ceiling
      /\ \A r \in run.todo : receipts[r] # None
  BY <1>2, ItemIsReceipt
<1>5. run.attempt = receipts[run.item].attempt + 1
  BY <1>1 DEF BalanceInv, RunPays
<1>6. /\ fresh \in Entry /\ Cost(fresh) = run.config.most /\ fresh.pool = run.pool
      /\ fresh.key = run.item /\ fresh.attempt = run.attempt /\ fresh.most = run.config.most
      /\ fresh.charged = None
  BY <1>4, <1>5 DEF Entry, Cost
<1> HIDE DEF fresh
<1>7. entries \subseteq entries'
  BY <1>1
<1>8. EntriesOK'
  <2>1. CASE present # {}
    <3>1. UNCHANGED entries
      BY <1>1, <2>1
    <3>2. QED BY <1>3, <3>1, EntriesStand
  <2>2. CASE present = {}
    <3>1. entries' = entries \cup {fresh}
      BY <1>1, <2>2
    <3>2. IsFiniteSet(entries')
      BY <1>2, <3>1, FS_AddElement DEF EntriesOK
    <3>3. \A e \in entries :
            ~(e.pool = fresh.pool /\ e.key = fresh.key /\ e.attempt = fresh.attempt)
      BY <1>6, <2>2 DEF Reservation, Of
    <3>4. pools'[fresh.pool] # None
      BY <1>1, <1>4, <1>6, BackfillAssumption
    <3>5. fresh.pool # Incremental => \E p \in preparations : p.census = fresh.pool
      BY <1>2, <1>6 DEF PaidInv, RunOK, IsPrepared, Running
    <3>6. /\ \A e \in entries' : e \in Entry /\ Cost(e) <= e.most /\ pools'[e.pool] # None
          /\ \A e \in entries' : e.pool # Incremental => \E p \in preparations : p.census = e.pool
      BY <1>1, <1>2, <1>4, <1>6, <3>1, <3>4, <3>5 DEF EntriesOK
    <3>7. \A e \in entries' : e.charged # None => e.attempt <= Attempts(e.key)'
      <4>1. \A r : Attempts(r)' = Attempts(r)
        BY <1>1 DEF Attempts
      <4>2. QED BY <1>2, <1>6, <3>1, <4>1 DEF EntriesOK
    <3>8. \A e, f \in entries' :
            e.pool = f.pool /\ e.key = f.key /\ e.attempt = f.attempt => e = f
      BY <1>2, <3>1, <3>3 DEF EntriesOK
    <3>9. QED BY <1>3, <3>2, <3>6, <3>7, <3>8 DEF EntriesOK
  <2>3. QED BY <2>1, <2>2
<1>9. CeilingsHold'
  <2>1. CASE present # {}
    BY <1>1, <1>3, <2>1, CeilingsStand
  <2>2. CASE present = {}
    <3> SUFFICES ASSUME NEW p \in Pools, pools'[p] # None PROVE Weight(Of(p)') <= pools'[p]
      BY DEF CeilingsHold
    <3>1. entries' = entries \cup {fresh} /\ pools'[p] = pools[p]
      BY <1>1, <2>2
    <3>2. CASE p # run.pool
      <4>1. Of(p)' = Of(p)
        BY <1>6, <3>1, <3>2 DEF Of
      <4>2. QED BY <3>1, <4>1 DEF BalanceInv, CeilingsHold
    <3>3. CASE p = run.pool
      <4>1. Of(p)' = Of(p) \cup {fresh} /\ Of(p) \subseteq entries
        BY <1>6, <3>1, <3>3 DEF Of
      <4>2. fresh \notin Of(p)
        BY <1>6, <2>2, <3>3 DEF Reservation
      <4>3. \A e \in Of(p)' : Cost(e) \in Nat
        BY <1>2, <1>4, <1>6, <4>1, CostsAreNatural
      <4>4. IsFiniteSet(Of(p)')
        BY <1>8, FS_Subset DEF EntriesOK, Of
      <4>5. Weight(Of(p)') = Cost(fresh) + Weight(Of(p)' \ {fresh})
        BY <4>1, <4>3, <4>4, WeightFacts
      <4>6. Of(p)' \ {fresh} = Of(p)
        BY <4>1, <4>2
      <4>7. Weight(Of(p)) \in Nat /\ Charged(p) = Weight(Of(p))
        BY <1>2, <4>1, Weights, ChargedIsWeight
      <4>8. Charged(p) + run.config.most <= run.ceiling
        BY <1>1, <2>2, <3>3 DEF Fits
      <4>9. Weight(Of(p)') = run.config.most + Weight(Of(p))
        BY <1>6, <4>5, <4>6
      <4>10. Weight(Of(p)) + run.config.most <= pools'[p]
        BY <1>4, <3>1, <3>3, <4>7, <4>8
      <4> DEFINE w == Weight(Of(p))
                 v == Weight(Of(p)')
      <4>11. v = run.config.most + w /\ w + run.config.most <= pools'[p] /\ w \in Nat
        BY <4>7, <4>9, <4>10
      <4> HIDE DEF w, v
      <4>12. v <= pools'[p]
        BY <1>4, <4>11
      <4>13. QED BY <4>12 DEF v
    <3>4. QED BY <3>2, <3>3
  <2>3. QED BY <2>1, <2>2
<1>10. /\ run'.at = "reserved" /\ run'.pool = run.pool /\ run'.config = run.config
       /\ run'.ceiling = run.ceiling /\ run'.todo = run.todo /\ run'.item = run.item
       /\ run'.attempt = run.attempt
  BY <1>1, RunSteps
<1>11. SpentOK'
  BY <1>1, <1>3, <1>7, <1>8, <1>10, SpentWhenClosed DEF Calling
<1>12. RunPays'
  <2>1. \E e \in Reservation(run.pool, run.item, run.attempt)' :
          e.most = run.config.most /\ e.charged = None
    <3>1. CASE present = {}
      <4>1. fresh \in entries'
        BY <1>1, <3>1
      <4>2. fresh \in Reservation(run.pool, run.item, run.attempt)'
        BY <1>6, <1>10, <4>1 DEF Reservation, Of
      <4>3. QED BY <1>6, <4>2
    <3>2. CASE present # {}
      <4>1. PICK e \in present : e.most = run.config.most
        BY <1>1, <3>2
      <4>2. e \in entries /\ e.key = run.item /\ e.attempt = run.attempt
        BY DEF Reservation, Of
      <4>3. e.charged = None
        BY <1>2, <1>4, <1>5, <4>2 DEF EntriesOK
      <4>4. e \in Reservation(run.pool, run.item, run.attempt)'
        BY <1>1, <1>10, <3>2, <4>1 DEF Reservation, Of
      <4>5. QED BY <4>1, <4>3, <4>4
    <3>3. QED BY <3>1, <3>2
  <2>2. QED BY <1>1, <1>4, <1>5, <1>10, <2>1 DEF RunPays, Running, Underway, Calling
<1>13. TypesOK'
  BY <1>1, <1>2, <1>8, RunnerTypes DEF BalanceInv, TypeOK
<1>14. QED BY <1>8, <1>9, <1>11, <1>12, <1>13 DEF BalanceInv

\* Once the attempt is counted its reservation is one that may be used.
LEMMA BeginBalances ==
  ASSUME BalanceInv, PaidInv', BeginExtraction
  PROVE  BalanceInv'
<1> DEFINE new == Begun(receipts[run.item])
<1>1. /\ UNCHANGED <<outside, frozen, entries, pools, prepare, spent, held, faults>>
      /\ run.at = "reserved" /\ run' = [run EXCEPT !.at = "begun"]
      /\ receipts' = [receipts EXCEPT ![run.item] = new]
  BY DEF BeginExtraction, At, budget, history
<1>2. TypeOK /\ PaidInv /\ EntriesOK /\ run.at \in Underway
  BY <1>1 DEF BalanceInv, TypesOK, Underway
<1>3. /\ run.item \in Revisions /\ receipts[run.item] \in Receipt /\ receipts[run.item] # None
      /\ Attempts(run.item) = receipts[run.item].attempt /\ receipts[run.item].attempt \in Nat
      /\ run.pool \in Pools /\ run.config \in Configs /\ run.config.most \in Nat
      /\ run.ceiling \in Nat /\ pools[run.pool] = run.ceiling
      /\ \A r \in run.todo : receipts[r] # None
  BY <1>2, ItemIsReceipt
<1>4. new \in Receipt /\ new.attempt = receipts[run.item].attempt + 1
  <2>1. "extracting" \in Statuses
    BY DEF Statuses
  <2>2. QED BY <1>3, <2>1, ReceiptChanges DEF Begun
<1> HIDE DEF new
<1>5. receipts[run.item].attempt <= new.attempt
  BY <1>3, <1>4
<1>6. /\ receipts' \in [Revisions -> Receipt \cup {None}] /\ AttemptsGrow
      /\ \A q \in Revisions : receipts[q] # None => receipts'[q] # None
      /\ receipts'[run.item] = new
  BY <1>1, <1>2, <1>3, <1>4, <1>5, ReceiptPut
<1>7. PoolsStay /\ UNCHANGED preparations
  BY <1>1, <1>2 DEF PoolsStay, TypeOK, frozen
<1>8. EntriesOK' /\ CeilingsHold'
  BY <1>1, <1>6, <1>7, EntriesStand, CeilingsStand
<1>9. /\ run'.at = "begun" /\ run'.pool = run.pool /\ run'.config = run.config
      /\ run'.ceiling = run.ceiling /\ run'.todo = run.todo /\ run'.item = run.item
      /\ run'.attempt = run.attempt
  BY <1>1, RunSteps
<1>10. run.attempt = receipts[run.item].attempt + 1
  BY <1>1 DEF BalanceInv, RunPays
<1>11. PICK o \in entries :
         /\ Reservation(run.pool, run.item, run.attempt) = {o}
         /\ o.pool = run.pool /\ o.key = run.item /\ o.attempt = run.attempt
         /\ o.most = run.config.most /\ o.charged = None /\ Cost(o) = o.most
         /\ o \in Of(run.pool)
  BY <1>1, OwnIsOne DEF Underway
<1>12. Reservation(run.pool, run.item, run.attempt)' = {o}
  BY <1>1, <1>9, <1>11 DEF Reservation, Of
<1>13. RunPays'
  <2>1. run.todo \subseteq Revisions
    BY <1>1 DEF BalanceInv, PaidInv, RunOK, CensusesOK, Running, Underway
  <2>2. \A r \in run'.todo : receipts'[r] # None
    BY <1>3, <1>6, <1>9, <2>1
  <2>3. receipts'[run'.item] # None /\ run'.attempt = receipts'[run'.item].attempt
    BY <1>3, <1>4, <1>6, <1>9, <1>10
  <2>4. QED BY <1>1, <1>3, <1>9, <1>11, <1>12, <2>2, <2>3 DEF RunPays, Running, Underway, Calling
<1>14. SpentOK'
  <2> SUFFICES ASSUME NEW p \in Pools
               PROVE  spent'[p] <= Weight(Used(p)' \ Own(p)') + Consumed(p)'
    BY DEF SpentOK
  <2>1. Consumed(p)' = 0 /\ Own(p)' \subseteq {o}
    BY <1>9, <1>12 DEF Consumed, Own
  <2>2. o \notin Used(p)
    BY <1>3, <1>10, <1>11 DEF Used
  <2>3. Used(p) \subseteq Used(p)'
    BY <1>1, <1>2, <1>6, UsedGrows
  <2>4. Used(p) \in SUBSET (Used(p)' \ Own(p)') /\ (Used(p)' \ Own(p)') \in SUBSET entries
    BY <1>1, <2>1, <2>2, <2>3 DEF Used, Of
  <2>5. /\ Weight(Used(p)) <= Weight(Used(p)' \ Own(p)')
        /\ Weight(Used(p)) \in Nat /\ Weight(Used(p)' \ Own(p)') \in Nat
    <3> DEFINE E == Used(p)' \ Own(p)'
               F == Used(p)
    <3>1. E \in SUBSET entries /\ F \in SUBSET E /\ F \in SUBSET entries
      BY <2>4
    <3> HIDE DEF E, F
    <3>2. Weight(F) <= Weight(E) /\ Weight(F) \in Nat /\ Weight(E) \in Nat
      BY <1>2, <3>1, Weights
    <3>3. QED BY <3>2 DEF E, F
  <2>6. spent'[p] \in Nat /\ spent'[p] <= Weight(Used(p))
    BY <1>1, <1>2, AllIsPaid DEF TypeOK
  <2>7. QED BY <2>1, <2>5, <2>6
<1>15. TypesOK'
  BY <1>1, <1>2, <1>6, <1>8, RunnerTypes DEF BalanceInv, TypeOK
<1>16. QED BY <1>8, <1>13, <1>14, <1>15 DEF BalanceInv

\* What a call consumes is not more than was reserved for it.
LEMMA ExtractBalances ==
  ASSUME BalanceInv, PaidInv', NEW usage, Extract(usage)
  PROVE  BalanceInv'
<1>1. /\ UNCHANGED <<outside, frozen, entries, pools, prepare, receipts, held, faults>>
      /\ run.at = "begun" /\ usage \in 1 .. run.config.most
      /\ spent' = [spent EXCEPT ![run.pool] = @ + usage]
      /\ run' = With([run EXCEPT !.at = "extracted"], "usage", usage)
  BY DEF Extract, At, budget
<1>2. TypeOK /\ PaidInv /\ EntriesOK /\ run.at \in Underway
  BY <1>1 DEF BalanceInv, TypesOK, Underway
<1>3. AttemptsStay /\ AttemptsGrow /\ PoolsStay /\ UNCHANGED preparations
  BY <1>1, <1>2, ReceiptsStay, StayGrows DEF PoolsStay, TypeOK, frozen
<1>4. EntriesOK' /\ CeilingsHold'
  BY <1>1, <1>3, EntriesStand, CeilingsStand
<1>5. /\ run.item \in Revisions /\ receipts[run.item] # None
      /\ run.pool \in Pools /\ run.config \in Configs /\ run.config.most \in Nat
      /\ run.ceiling \in Nat /\ pools[run.pool] = run.ceiling
      /\ \A r \in run.todo : receipts[r] # None
  BY <1>2, ItemIsReceipt
<1>6. /\ run'.at = "extracted" /\ run'.usage = usage /\ DOMAIN run = Common \cup {"todo", "item", "attempt"}
      /\ \A f \in DOMAIN run \ {"at"} : run'[f] = run[f]
  BY <1>1, <1>2, ExtractedRun DEF PaidInv, FieldsOK
<1>7. /\ run'.pool = run.pool /\ run'.config = run.config
      /\ run'.ceiling = run.ceiling /\ run'.todo = run.todo /\ run'.item = run.item
      /\ run'.attempt = run.attempt
  BY <1>6 DEF Common
<1>8. Reservation(run.pool, run.item, run.attempt)' = Reservation(run.pool, run.item, run.attempt)
  BY <1>1, <1>7 DEF Reservation, Of
<1>9. RunPays'
  <2>1. /\ run.attempt = receipts[run.item].attempt
        /\ \E e \in Reservation(run.pool, run.item, run.attempt) :
             e.most = run.config.most /\ e.charged = None
    BY <1>1 DEF BalanceInv, RunPays, Underway, Calling
  <2>2. QED BY <1>1, <1>5, <1>6, <1>7, <1>8, <2>1 DEF RunPays, Running, Underway, Calling
<1>10. spent' \in [Pools -> Nat]
  BY <1>1, <1>2, <1>5 DEF TypeOK
<1>11. SpentOK'
  <2> SUFFICES ASSUME NEW p \in Pools
               PROVE  spent'[p] <= Weight(Used(p)' \ Own(p)') + Consumed(p)'
    BY DEF SpentOK
  <2>1. Own(p)' = Own(p)
    BY <1>1, <1>6, <1>7, <1>8 DEF Own, Calling
  <2>2. Used(p)' = Used(p) /\ Consumed(p) = 0
    BY <1>1 DEF Used, Of, Attempts, Consumed
  <2>3. Consumed(p)' = IF run.pool = p THEN usage ELSE 0
    BY <1>6, <1>7 DEF Consumed
  <2>4. spent'[p] = spent[p] + IF run.pool = p THEN usage ELSE 0
    BY <1>1, <1>2, <1>5 DEF TypeOK
  <2>5. Weight(Used(p) \ Own(p)) \in Nat
    <3>1. Used(p) \ Own(p) \in SUBSET entries
      BY DEF Used, Of
    <3>2. QED BY <1>2, <3>1, Weights
  <2>6. spent[p] <= Weight(Used(p) \ Own(p)) + 0
    BY <2>2 DEF BalanceInv, SpentOK
  <2>7. spent[p] \in Nat
    BY <1>2 DEF TypeOK
  <2>8. QED BY <1>1, <1>5, <2>1, <2>2, <2>3, <2>4, <2>5, <2>6, <2>7
<1>12. TypesOK'
  BY <1>1, <1>2, <1>4, <1>10, RunnerTypes DEF BalanceInv, TypeOK
<1>13. QED BY <1>4, <1>9, <1>11, <1>12 DEF BalanceInv

\* A settlement takes the place of the open reservation, and costs no more.
LEMMA SettledBalances ==
  ASSUME BalanceInv, PaidInv', run.at = "extracted", NextItem,
         NEW charge \in Nat, run.usage <= charge, charge <= run.config.most,
         NEW new \in Receipt, new.attempt = receipts[run.item].attempt,
         receipts' = [receipts EXCEPT ![run.item] = new],
         LET own == Reservation(run.pool, run.item, run.attempt)
         IN  entries' = (entries \ own) \cup {[e EXCEPT !.charged = charge] : e \in own},
         UNCHANGED <<outside, frozen, pools, prepare, spent, faults>>
  PROVE  BalanceInv'
<1>1. TypeOK /\ PaidInv /\ EntriesOK /\ run.at \in Underway
  BY DEF BalanceInv, TypesOK, Underway
<1>2. /\ run.item \in Revisions /\ receipts[run.item] \in Receipt /\ receipts[run.item] # None
      /\ Attempts(run.item) = receipts[run.item].attempt /\ receipts[run.item].attempt \in Nat
      /\ run.pool \in Pools /\ run.config \in Configs /\ run.config.most \in Nat
      /\ run.ceiling \in Nat /\ pools[run.pool] = run.ceiling
      /\ \A r \in run.todo : receipts[r] # None
  BY <1>1, ItemIsReceipt
<1>3. /\ receipts' \in [Revisions -> Receipt \cup {None}] /\ AttemptsGrow
      /\ \A q \in Revisions : receipts[q] # None => receipts'[q] # None
      /\ receipts'[run.item] = new
  <2>1. receipts[run.item].attempt <= new.attempt
    BY <1>2
  <2>2. QED BY <1>1, <1>2, <2>1, ReceiptPut
<1>4. PoolsStay /\ UNCHANGED <<pools, preparations, spent>>
  BY <1>1 DEF PoolsStay, TypeOK, frozen
<1>5. run'.at = "item" /\ run'.at \notin Calling /\ RunPays'
  BY <1>1, <1>3, <1>4, NextItemPays, NextItemRun
<1>6. PICK o \in entries :
        /\ Reservation(run.pool, run.item, run.attempt) = {o}
        /\ o.pool = run.pool /\ o.key = run.item /\ o.attempt = run.attempt
        /\ o.most = run.config.most /\ o.charged = None /\ Cost(o) = o.most
        /\ o \in Of(run.pool)
  BY <1>1, OwnIsOne DEF Underway
<1> DEFINE n == [o EXCEPT !.charged = charge]
<1>7. entries' = (entries \ {o}) \cup {n}
  BY <1>6
<1>8. /\ n \in Entry /\ n.pool = o.pool /\ n.key = o.key /\ n.attempt = o.attempt
      /\ n.most = o.most /\ n.charged = charge
  BY <1>1, <1>6 DEF EntriesOK, Entry
<1> HIDE DEF n
<1>9. Cost(n) = charge \/ Cost(n) = n.most
  BY <1>8 DEF Cost
<1>10. run.usage <= Cost(n) /\ Cost(n) \in Nat /\ Cost(n) <= Cost(o) /\ Cost(n) <= n.most
  <2>1. run.usage \in 1 .. run.config.most
    BY DEF BalanceInv, RunPays
  <2>2. QED BY <1>2, <1>6, <1>8, <1>9, <2>1
<1>11. run.attempt = receipts[run.item].attempt
  BY DEF BalanceInv, RunPays, Calling
<1>12. \A e \in entries : e.key \in Revisions /\ e.attempt \in Nat /\ e \in Entry
  BY <1>1 DEF EntriesOK, Entry
<1>13. \A r \in Revisions : Attempts(r)' = Attempts(r)
  <2>1. \A q \in Revisions \ {run.item} : receipts'[q] = receipts[q]
    BY <1>1 DEF TypeOK
  <2>2. \A q \in Revisions \ {run.item} : Attempts(q)' = Attempts(q)
    BY <2>1 DEF Attempts
  <2>3. \A q \in Revisions : q = run.item => Attempts(q)' = Attempts(q)
    BY <1>2, <1>3 DEF Attempts
  <2>4. QED BY <2>2, <2>3
<1>14. EntriesOK'
  <2>1. IsFiniteSet(entries')
    <3>1. IsFiniteSet(entries \ {o})
      BY <1>1, FS_RemoveElement DEF EntriesOK
    <3>2. QED BY <1>7, <3>1, FS_AddElement
  <2>2. entries' \subseteq Entry /\ \A e \in entries' : Cost(e) <= e.most
    BY <1>1, <1>7, <1>8, <1>10 DEF EntriesOK
  <2>3. \A e \in entries' : /\ pools'[e.pool] # None
                            /\ e.pool # Incremental => \E p \in preparations' : p.census = e.pool
    BY <1>1, <1>4, <1>6, <1>7, <1>8 DEF EntriesOK
  <2>4. \A e \in entries' : e.charged # None => e.attempt <= Attempts(e.key)'
    <3>1. n.key \in Revisions /\ n.attempt = Attempts(n.key) /\ n.attempt \in Nat
      BY <1>2, <1>6, <1>8, <1>11
    <3>2. n.attempt <= Attempts(n.key)'
      BY <1>13, <3>1
    <3>3. QED BY <1>1, <1>7, <1>12, <1>13, <3>2 DEF EntriesOK
  <2>5. \A e, f \in entries' :
          e.pool = f.pool /\ e.key = f.key /\ e.attempt = f.attempt => e = f
    BY <1>1, <1>6, <1>7, <1>8 DEF EntriesOK
  <2>6. QED BY <2>1, <2>2, <2>3, <2>4, <2>5 DEF EntriesOK
<1>15. \A e \in entries' \cup entries : Cost(e) \in Nat
  BY <1>1, <1>7, <1>10, CostsAreNatural
<1>16. IsFiniteSet(entries' \cup entries)
  BY <1>1, <1>14, FS_Union DEF EntriesOK
<1>17. \A E \in SUBSET (entries' \cup entries) :
         /\ Weight(E) \in Nat
         /\ \A F \in SUBSET E : Weight(F) <= Weight(E)
         /\ \A x \in E : Weight(E) = Cost(x) + Weight(E \ {x})
  BY <1>15, <1>16, WeightFacts
<1>18. n \notin entries \ {o}
  BY <1>1, <1>6, <1>8 DEF EntriesOK
<1>19. CeilingsHold'
  <2> SUFFICES ASSUME NEW p \in Pools, pools'[p] # None PROVE Weight(Of(p)') <= pools'[p]
    BY DEF CeilingsHold
  <2>1. pools'[p] = pools[p] /\ Weight(Of(p)) <= pools[p] /\ pools[p] \in Nat
    BY <1>1, <1>4 DEF BalanceInv, CeilingsHold, TypeOK
  <2>2. CASE p # run.pool
    <3>1. Of(p)' = Of(p)
      BY <1>6, <1>7, <1>8, <2>2 DEF Of
    <3>2. QED BY <2>1, <3>1
  <2>3. CASE p = run.pool
    <3> DEFINE D == Of(p)
               E == Of(p)'
    <3>1. E = (D \ {o}) \cup {n} /\ o \in D /\ D \subseteq entries /\ n \notin D \ {o}
      BY <1>6, <1>7, <1>8, <1>18, <2>3 DEF Of
    <3>2. E \subseteq entries'
      BY DEF Of
    <3> HIDE DEF D, E
    <3>3. E \ {n} = D \ {o}
      BY <3>1
    <3>4. /\ Weight(D) = Cost(o) + Weight(D \ {o}) /\ Weight(D) \in Nat
          /\ Weight(E) = Cost(n) + Weight(E \ {n}) /\ Weight(E) \in Nat
          /\ Weight(D \ {o}) \in Nat
      BY <1>17, <3>1, <3>2
    <3>5. Cost(o) \in Nat /\ Weight(E) = Cost(n) + Weight(D \ {o})
      BY <1>15, <3>3, <3>4
    <3>6. Weight(E) <= Weight(D)
      BY ONLY <1>10, <3>4, <3>5
    <3>7. QED BY <2>1, <3>4, <3>6 DEF D, E
  <2>4. QED BY <2>2, <2>3
<1>20. SpentOK'
  <2> SUFFICES ASSUME NEW p \in Pools
               PROVE  spent'[p] <= Weight(Used(p)' \ Own(p)') + Consumed(p)'
    BY DEF SpentOK
  <2>1. Own(p)' = {} /\ Consumed(p)' = 0
    BY <1>5 DEF Own, Consumed, Calling
  <2>2. spent'[p] = spent[p] /\ spent[p] \in Nat /\ spent[p] <= Weight(Used(p) \ Own(p)) + Consumed(p)
    BY <1>1, <1>4 DEF BalanceInv, SpentOK, TypeOK
  <2>3. CASE p # run.pool
    <3>1. Own(p) = {} /\ Consumed(p) = 0
      BY <2>3 DEF Own, Consumed
    <3>2. Used(p)' = Used(p)
      BY <1>6, <1>7, <1>8, <1>12, <1>13, <2>3 DEF Used, Of
    <3>3. Used(p) \ {} = Used(p)
      OBVIOUS
    <3>4. QED BY <2>1, <2>2, <3>1, <3>2, <3>3
  <2>4. CASE p = run.pool
    <3> DEFINE D == Used(p) \ {o}
               E == Used(p)'
    <3>1. Own(p) = {o} /\ Consumed(p) = run.usage
      BY <1>6, <2>4 DEF Own, Consumed, Calling
    <3>2. E = D \cup {n} /\ n \notin D /\ D \subseteq entries
      <4>1. n.key \in Revisions /\ n.attempt = Attempts(n.key)' /\ n.attempt \in Nat
        BY <1>2, <1>6, <1>8, <1>11, <1>13
      <4>2. n \in E
        BY <1>6, <1>7, <1>8, <2>4, <4>1 DEF Used, Of
      <4>3. \A e \in entries \ {o} : e \in E <=> e \in D
        BY <1>7, <1>12, <1>13 DEF Used, Of
      <4>4. E \subseteq entries' /\ D \subseteq entries \ {o}
        BY DEF Used, Of
      <4>5. QED BY <1>7, <1>18, <4>2, <4>3, <4>4
    <3>3. E \subseteq entries'
      BY DEF Used, Of
    <3> HIDE DEF D, E
    <3>4. E \ {n} = D /\ n \in E
      BY <3>2
    <3>5. Weight(E) = Cost(n) + Weight(D) /\ Weight(D) \in Nat
      BY <1>17, <3>2, <3>3, <3>4
    <3>6. spent[p] <= Weight(D) + run.usage
      BY <2>2, <3>1 DEF D
    <3>7. run.usage \in Nat
      BY DEF BalanceInv, RunPays
    <3>8. spent[p] <= Weight(E)
      BY ONLY <1>10, <2>2, <3>5, <3>6, <3>7
    <3>9. E \ {} = E /\ Weight(E) \in Nat
      BY <1>10, <3>5
    <3>10. Used(p)' \ Own(p)' = E
      BY <2>1 DEF E
    <3>11. QED BY <2>1, <2>2, <3>8, <3>9, <3>10
  <2>5. QED BY <2>3, <2>4
<1>21. TypesOK'
  <2>1. held' \subseteq Revisions /\ spent' \in [Pools -> Nat] /\ pools' \in [Pools -> Nat \cup {None}]
        /\ faults' \in 0 .. MaxFaults
    BY <1>1 DEF NextItem, TypeOK
  <2>2. UNCHANGED <<outside, frozen, prepare>>
    OBVIOUS
  <2>3. TypesOK
    BY DEF BalanceInv
  <2>4. QED BY <1>3, <1>14, <2>1, <2>2, <2>3, RunnerTypes
<1>22. QED BY <1>5, <1>14, <1>19, <1>20, <1>21 DEF BalanceInv

\* An answer is used or an attempt has failed; a commit that is refused leaves
\* the reservation open.
LEMMA CallEndsBalances ==
  ASSUME BalanceInv, PaidInv',
         (\E usage \in Usages \cup {None} : Succeed(usage)) \/ ExtractFails
  PROVE  BalanceInv'
<1>1. /\ run.at = "extracted" /\ NextItem /\ held' \subseteq held
      /\ UNCHANGED <<outside, frozen, pools, prepare, spent, faults>>
  BY DEF Succeed, ExtractFails, NextItem, At, history
<1>2. TypeOK /\ EntriesOK /\ run.at \in Underway
  BY <1>1 DEF BalanceInv, TypesOK, Underway
<1>3. /\ run.item \in Revisions /\ receipts[run.item] \in Receipt
      /\ run.config.most \in Nat
  BY <1>2, ItemIsReceipt
<1>4. run.usage \in 1 .. run.config.most
  BY <1>1 DEF BalanceInv, RunPays
<1>5. CASE UNCHANGED <<entries, receipts>>
  <2>1. AttemptsStay /\ AttemptsGrow /\ PoolsStay
    BY <1>1, <1>2, <1>5, ReceiptsStay, StayGrows DEF PoolsStay, TypeOK
  <2>2. run'.at \notin Calling /\ RunPays'
    BY <1>1, <1>2, <1>5, NextItemPays
  <2>3. QED BY <1>1, <1>2, <1>5, <2>1, <2>2, ClosedBalances DEF TypeOK
<1>6. ASSUME NEW usage \in {run.usage, None}, NEW status \in Statuses, Settle(usage),
             receipts' = [receipts EXCEPT ![run.item].status = status,
                                          ![run.item].usage = Charge(usage)]
      PROVE  BalanceInv'
  <2> DEFINE charge == Charge(usage)
             new == [receipts[run.item] EXCEPT !.status = status, !.usage = charge]
  <2>1. charge \in Nat /\ run.usage <= charge /\ charge <= run.config.most
    BY <1>3, <1>4 DEF Charge
  <2>2. LET own == Reservation(run.pool, run.item, run.attempt)
        IN  entries' = (entries \ own) \cup {[e EXCEPT !.charged = charge] : e \in own}
    BY <1>6 DEF Settle
  <2>3. receipts' = [receipts EXCEPT ![run.item] = new]
    BY <1>2, <1>3, <1>6 DEF TypeOK
  <2> HIDE DEF charge
  <2>4. new \in Receipt /\ new.attempt = receipts[run.item].attempt
    <3>1. \A old \in Receipt, n \in Nat :
            /\ [old EXCEPT !.status = status, !.usage = n] \in Receipt
            /\ [old EXCEPT !.status = status, !.usage = n].attempt = old.attempt
      BY <1>6, ReceiptChanges
    <3>2. QED BY ONLY <1>3, <2>1, <3>1
  <2> HIDE DEF new
  <2>5. QED BY <1>1, <2>1, <2>2, <2>3, <2>4, SettledBalances
<1>7. ASSUME NEW usage \in Usages \cup {None}, Succeed(usage)
      PROVE  BalanceInv'
  <2>1. /\ usage \in {run.usage, None}
        /\ \/ UNCHANGED <<entries, receipts>>
           \/ /\ Settle(usage)
              /\ receipts' = [receipts EXCEPT ![run.item].status = "complete",
                                              ![run.item].usage = Charge(usage)]
    BY <1>7 DEF Succeed
  <2>2. "complete" \in Statuses
    BY DEF Statuses
  <2>3. QED BY <1>5, <1>6, <2>1, <2>2
<1>8. CASE ExtractFails
  <2>1. Charge(None) = run.config.most
    BY DEF Charge
  <2>2. \/ UNCHANGED <<entries, receipts>>
        \/ \E status \in {"failed", "retryable"} :
             /\ Settle(None)
             /\ receipts' = [receipts EXCEPT ![run.item].status = status,
                                             ![run.item].usage = Charge(None)]
    BY <1>8, <2>1 DEF ExtractFails
  <2>3. {"failed", "retryable"} \subseteq Statuses
    BY DEF Statuses
  <2>4. QED BY <1>5, <1>6, <2>2, <2>3
<1>9. QED BY <1>7, <1>8

LEMMA InitBalance ==
  ASSUME Init
  PROVE  BalanceInv
<1>1. PaidInv
  BY InitPaid, BackfillAssumption
<1>2. TypesOK
  BY BackfillAssumption DEF Init, TypesOK, TypeOK, Idle
<1>3. EntriesOK
  BY FS_EmptySet DEF Init, EntriesOK
<1>4. RunPays
  BY DEF Init, RunPays, Idle, Running, Underway, Calling
<1>5. SpentOK
  <2> SUFFICES ASSUME NEW p \in Pools PROVE spent[p] <= Weight(Used(p) \ Own(p)) + Consumed(p)
    BY DEF SpentOK
  <2>1. Used(p) \ Own(p) = {} /\ Consumed(p) = 0 /\ spent[p] = 0 /\ {} \in SUBSET entries
    BY DEF Init, Used, Of, Consumed, Idle
  <2>2. Weight({}) = 0
    BY <1>3, <2>1, Weights
  <2>3. QED BY <2>1, <2>2
<1>6. CeilingsHold
  BY DEF Init, CeilingsHold
<1>7. QED BY <1>1, <1>2, <1>3, <1>4, <1>5, <1>6 DEF BalanceInv

LEMMA NextBalance ==
  ASSUME BalanceInv, [Next]_vars
  PROVE  BalanceInv'
<1>1. PaidInv'
  BY NextPaid, BackfillAssumption DEF BalanceInv
<1>2. CASE RunnerNext
  BY <1>1, <1>2, StartAndEndBalance, SelectBalances, LeaseBalances, GivenUpBalances,
     ReserveBalances, BeginBalances, ExtractBalances, CallEndsBalances DEF RunnerNext
<1>3. CASE PrepareNext
  BY <1>1, <1>3, PrepareBalances
<1>4. CASE ~RunnerNext /\ ~PrepareNext
  BY <1>1, <1>4, OthersBalance DEF Next
<1>5. QED BY <1>2, <1>3, <1>4

LEMMA BalanceHolds == Spec => []BalanceInv
BY InitBalance, NextBalance, PTL DEF Spec

\* What the commands keep is of the types the code gives it.
THEOREM BackfillTypeCorrect == Spec => []TypeOK
<1>1. BalanceInv => TypeOK
  BY DEF BalanceInv, TypesOK
<1>2. QED BY <1>1, BalanceHolds, PTL

\* Whatever the calls consumed their pool is charged with, and no pool owes
\* more than its ceiling, for any number of revisions, censuses, configurations,
\* retries and faults, and for a host that changes under a run as well
\* (CaptureTokenBudget.reserve, begin_extraction, prepare_settlement).
THEOREM PoolsStayBalanced == Spec => []PoolsBalance
<1>1. BalanceInv => PoolsBalance
  <2> SUFFICES ASSUME BalanceInv, NEW p \in Pools
               PROVE  /\ spent[p] <= Charged(p)
                      /\ pools[p] # None => Charged(p) <= pools[p]
    BY DEF PoolsBalance
  <2>1. EntriesOK /\ Used(p) \in SUBSET Of(p) /\ Of(p) \in SUBSET entries
        /\ Used(p) \in SUBSET entries
    BY DEF BalanceInv, Used, Of
  <2>2. Charged(p) = Weight(Of(p)) /\ spent[p] <= Weight(Used(p))
    BY <2>1, ChargedIsWeight, AllIsPaid
  <2>3. Weight(Used(p)) \in Nat /\ Weight(Of(p)) \in Nat /\ Weight(Used(p)) <= Weight(Of(p))
        /\ spent[p] \in Nat
    BY <2>1, Weights DEF BalanceInv, TypesOK, TypeOK
  <2>4. pools[p] # None => Weight(Of(p)) <= pools[p]
    BY DEF BalanceInv, CeilingsHold
  <2>5. QED BY <2>2, <2>3, <2>4
<1>2. QED BY <1>1, BalanceHolds, PTL

=============================================================================
