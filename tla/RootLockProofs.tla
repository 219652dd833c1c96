--------------------------- MODULE RootLockProofs ---------------------------
(***************************************************************************)
(* The lock files, and what rests on the root lock.                        *)
(*                                                                         *)
(* Mutual exclusion of FileLock for any number of processes, hosts and     *)
(* deaths, as long as nothing dies, or reclaims do not overlap in the two  *)
(* ways in which the code lets them (LoneReclaimer, OwnersOutlive).        *)
(*                                                                         *)
(* What capture_forget promises of derived results (MetricsCleanup), and   *)
(* that no entry of a plan is paid for twice, for any number of            *)
(* evaluators, users, output directories, entries and mishaps.             *)
(***************************************************************************)
EXTENDS FileLock, MetricsCleanup, FiniteSetTheorems, TLAPS

-----------------------------------------------------------------------------
(* The lock files                                                          *)

\* What a reclaim relies on and locking.py does not check: see the README for
\* the two races.  Without a death nothing is ever reclaimed.
ReclaimsAreApart == (LoneReclaimer /\ OwnersOutlive) \/ MaxDeaths = 0

\* The file at the path is that of whoever has not yet left.
OwnersHaveFile == \A p \in alive : pc[p] \in Owning => lock = p

\* An owner that is seen dead left its file behind; nobody has replaced it.
SeenIsStale ==
  \A p \in alive :
    /\ pc[p] \in Reclaiming => seen[p] \in Procs
    /\ pc[p] \in Reclaiming /\ seen[p] \notin alive => lock = seen[p]
    /\ pc[p] = "move" => seen[p] \notin alive

ReclaimsAlone ==
  LoneReclaimer =>
    \A p, q \in alive : pc[p] \in Reclaiming /\ pc[q] \in Reclaiming => p = q

NoDeaths == MaxDeaths = 0 => alive = Procs

LockInv == TypeOK /\ OwnersHaveFile /\ SeenIsStale /\ ReclaimsAlone /\ NoDeaths

LEMMA InitLockInv == Init => LockInv
BY DEF Init, LockInv, TypeOK, OwnersHaveFile, SeenIsStale, ReclaimsAlone, NoDeaths,
       Labels, Owning, Reclaiming

LEMMA NextLockInv ==
  ASSUME ReclaimsAreApart, LockInv, [Next]_vars
  PROVE  LockInv'
<1> USE LockAssumption
    DEF LockInv, TypeOK, OwnersHaveFile, SeenIsStale, ReclaimsAlone, NoDeaths,
        Labels, Owning, Reclaiming, At, Goto, Busy
<1>1. CASE UNCHANGED vars
  BY <1>1 DEF vars
<1>2. ASSUME NEW p \in Procs, Call(p) PROVE LockInv'
  BY <1>2 DEF Call
<1>3. ASSUME NEW p \in Procs, Create(p) PROVE LockInv'
  <2>1. p \in alive /\ lock = Absent /\ pc[p] \in {"create", "retry"}
    BY <1>3 DEF Create
  <2>2. \A q \in alive : pc[q] \notin Owning
    BY <2>1
  <2>3. \A q \in alive : pc[q] \in Reclaiming => seen[q] \in alive
    BY <2>1
  <2>4. /\ pc' = [pc EXCEPT ![p] = "fill"] /\ seen' = [seen EXCEPT ![p] = Unread]
        /\ lock' = p /\ filled' = FALSE /\ alive' = alive
    BY <1>3 DEF Create
  <2>5. TypeOK' /\ NoDeaths'
    BY <2>1, <2>4
  <2>6. OwnersHaveFile'
    BY <2>1, <2>2, <2>4
  <2>7. SeenIsStale'
    BY <2>1, <2>3, <2>4
  <2>8. ReclaimsAlone'
    BY <2>1, <2>4
  <2>9. QED BY <2>5, <2>6, <2>7, <2>8
<1>4. ASSUME NEW p \in Procs, FindTaken(p) \/ FindTakenAgain(p) PROVE LockInv'
  BY <1>4 DEF FindTaken, FindTakenAgain
<1>5. ASSUME NEW p \in Procs, ReadOwner(p) PROVE LockInv'
  BY <1>5 DEF ReadOwner
<1>6. ASSUME NEW p \in Procs, ProbeOwner(p) PROVE LockInv'
  BY <1>6 DEF ProbeOwner
<1>7. ASSUME NEW p \in Procs, MoveAside(p) PROVE LockInv'
  <2>1. p \in alive /\ pc[p] = "move" /\ seen[p] \in Procs \ alive /\ lock = seen[p]
    BY <1>7 DEF MoveAside
  <2>2. MaxDeaths # 0 /\ LoneReclaimer
    BY <2>1 DEF ReclaimsAreApart
  <2>3. \A q \in alive : pc[q] \notin Owning
    BY <2>1
  <2>4. UNCHANGED <<alive, seen>> /\ lock' = Absent /\ filled' = FALSE
        /\ pc' = [pc EXCEPT ![p] = "retry"]
    BY <1>7 DEF MoveAside
  <2>5. TypeOK' /\ NoDeaths' /\ OwnersHaveFile'
    BY <2>1, <2>3, <2>4
  <2>6. \A q \in alive : pc[q] \in Reclaiming => q = p
    BY <2>1, <2>2
  <2>7. SeenIsStale' /\ ReclaimsAlone'
    BY <2>1, <2>4, <2>6
  <2>8. QED BY <2>5, <2>7
<1>8. ASSUME NEW p \in Procs, Fill(p) PROVE LockInv'
  BY <1>8 DEF Fill
<1>9. ASSUME NEW p \in Procs, FillFails(p) \/ Leave(p) PROVE LockInv'
  BY <1>9 DEF FillFails, Leave
<1>10. ASSUME NEW p \in Procs, CheckExists(p) \/ Reread(p) PROVE LockInv'
  BY <1>10 DEF CheckExists, Reread
<1>11. ASSUME NEW p \in Procs, Unlink(p) PROVE LockInv'
  <2>1. p \in alive /\ lock = p /\ \A q \in alive : pc[q] \in Owning => q = p
    BY <1>11 DEF Unlink
  <2>2. \A q \in alive : pc[q] \in Reclaiming => seen[q] \in alive
    BY <2>1
  <2>3. UNCHANGED <<alive, seen>> /\ pc' = [pc EXCEPT ![p] = "idle"] /\ lock' = Absent /\ filled' = FALSE
    BY <1>11 DEF Unlink
  <2>4. TypeOK' /\ NoDeaths'
    BY <2>3
  <2>5. ReclaimsAlone'
    <3>1. \A q \in alive : pc'[q] \in Reclaiming => pc[q] \in Reclaiming
      BY <2>3
    <3>2. QED BY <2>3, <3>1
  <2>6. OwnersHaveFile'
    BY <2>1, <2>3
  <2>7. SeenIsStale'
    BY <2>2, <2>3
  <2>8. QED BY <2>4, <2>5, <2>6, <2>7
<1>12. ASSUME NEW p \in Procs, Die(p) PROVE LockInv'
  <2>1. MaxDeaths # 0 /\ OwnersOutlive
    <3>1. MaxDeaths # 0
      <4>1. SUFFICES ASSUME MaxDeaths = 0 PROVE FALSE
        OBVIOUS
      <4>2. Procs \ alive = {}
        BY <4>1
      <4>3. QED BY <1>12, <4>1, <4>2, FS_EmptySet DEF Die
    <3>2. QED BY <3>1 DEF ReclaimsAreApart
  <2>2. pc[p] \in Owning \/ \A q \in Procs : seen[q] # p
    BY <1>12, <2>1 DEF Die
  <2>3. QED BY <1>12, <2>1, <2>2 DEF Die
<1>13. QED
  BY <1>1, <1>2, <1>3, <1>4, <1>5, <1>6, <1>7, <1>8, <1>9, <1>10, <1>11, <1>12
     DEF Next, Step

\* No two live processes are inside the with block of one lock, however many
\* of them call, fail to fill their file, run on other hosts or die, as long as
\* reclaims are apart: the one that is inside owns the file at the path.
THEOREM LocksExclude ==
  ASSUME ReclaimsAreApart
  PROVE  Spec => []MutualExclusion
<1>1. LockInv /\ [Next]_vars => LockInv'
  BY NextLockInv
<1>2. LockInv => MutualExclusion
  <2> SUFFICES ASSUME LockInv PROVE Cardinality(Inside) <= 1
    BY DEF MutualExclusion
  <2>1. Inside \subseteq {lock}
    BY DEF LockInv, OwnersHaveFile, Inside, Owning
  <2>2. IsFiniteSet({lock}) /\ Cardinality({lock}) = 1
    BY FS_Singleton
  <2>3. QED BY <2>1, <2>2, FS_Subset, FS_CardinalityType
<1>3. QED BY <1>1, <1>2, InitLockInv, PTL DEF Spec

-----------------------------------------------------------------------------
(* The clean-up of metrics results                                         *)

\* The steps of a command that are taken inside the root lock.
Writing == {"committing", "written"}
Reporting == {"publishing", "staging", "linking", "unstaging"}
Clearing == {"recovering", "forgetting", "collecting", "deleting", "reporting", "clearing"}
UnderLock == {"binding"} \cup Writing \cup Reporting \cup Clearing

\* Those at which an evaluator has taken the one call of its entry.
Unsent == {"reserved", "registered", "binding", "sending"}
Registered == {"registered", "binding", "sending", "sent", "completing"} \cup Writing
AtWork == {"next", "opened", "reserved", "failing", "finished"} \cup Registered

EvaluatorLabels == {"idle", "planned", "ended", "dead"} \cup AtWork \cup Reporting
UserLabels == {"idle"} \cup Clearing

Commands ==
  [at : EvaluatorLabels \cup UserLabels, entry : Nat, dir : Dirs \cup {Free}, usable : SUBSET Nat,
   todo : SUBSET (Places \X Files), found : SUBSET Places, own : BOOLEAN]

Statuses == {"none", "in_progress", "completed", "error"}
AttemptRecords == [status : Statuses, files : SUBSET Files, by : Processes \cup {Free}]

MetricsTypeOK ==
  /\ root \in Processes \cup {Free}
  /\ cmd \in [Processes -> Commands]
  /\ attempts \in [Places -> AttemptRecords]
  /\ reserved \subseteq Entries
  /\ registered \subseteq Places
  /\ reports \in [Evaluators -> SUBSET {"staging", "final"}]
  /\ live \in BOOLEAN /\ intent \in BOOLEAN /\ answered \in BOOLEAN
  /\ sent \in [Entries -> Nat]

\* Evaluators and users do their own steps, an evaluator's in a place of its plan.
InPlace ==
  /\ \A p \in Evaluators :
       /\ cmd[p].at \in EvaluatorLabels
       /\ cmd[p].at = "idle" => cmd[p].entry = 1
       /\ cmd[p].at \in AtWork => Place(p) \in Places
       /\ cmd[p].at \in Registered => Place(p) \in registered
  /\ \A u \in Users : cmd[u].at \in UserLabels

\* The sections of the root lock are its owner's.
LockIsOwned == \A p \in Processes : cmd[p].at \in UnderLock => root = p

\* An entry's call is taken before it is made, by one evaluator.
CallsAreTaken ==
  /\ \A n \in Entries : sent[n] <= 1 /\ (sent[n] = 1 => n \in reserved)
  /\ \A p \in Evaluators : cmd[p].at \in Unsent =>
       cmd[p].entry \in reserved /\ sent[cmd[p].entry] = 0
  /\ \A p, q \in Evaluators :
       cmd[p].at \in Unsent /\ cmd[q].at \in Unsent /\ cmd[p].entry = cmd[q].entry => p = q

\* What is derived from the source is registered, or written by a run of the plan.
OnRecord ==
  /\ \A x \in Places : attempts[x].files # {} => x \in registered
  /\ ~ IsBound => registered = {} /\ \A p \in Evaluators : reports[p] = {}

\* What is being written was found live under the same lock.
WritesAreLive ==
  \A p \in Evaluators : cmd[p].at \in {"written", "staging", "linking", "unstaging"} => live

\* What a clean-up has dealt with stays so while it holds the lock.
CleansUp ==
  \A u \in Users :
    /\ cmd[u].own => ~ live
    /\ cmd[u].at = "deleting" =>
         \A x \in Places : \A f \in attempts[x].files : <<x, f>> \in cmd[u].todo
    /\ cmd[u].at \in {"reporting", "clearing"} => \A x \in Places : attempts[x].files = {}
    /\ cmd[u].at = "clearing" => \A p \in Evaluators : reports[p] = {}

MetricsInv ==
  /\ MetricsTypeOK /\ InPlace /\ LockIsOwned /\ CallsAreTaken
  /\ OnRecord /\ WritesAreLive /\ CleansUp
  /\ answered => ~ live /\ IsGone

-----------------------------------------------------------------------------
(* A step of one command, seen from what it does to the others             *)

\* One command goes on, and the lock is taken, kept or given up.
Moves(p) ==
  /\ cmd' \in [Processes -> Commands]
  /\ \A q \in Processes \ {p} : cmd'[q] = cmd[q]
  /\ \/ root' = root /\ (cmd'[p].at \in UnderLock => root = p)
     \/ root = Free /\ root' = p
     \/ root = p /\ root' = Free /\ cmd'[p].at \notin UnderLock

\* An evaluator is where it may be.
IsInPlace(p) ==
  /\ cmd[p].at \in EvaluatorLabels
  /\ cmd[p].at = "idle" => cmd[p].entry = 1
  /\ cmd[p].at \in AtWork => Place(p) \in Places
  /\ cmd[p].at \in Registered => Place(p) \in registered

\* No file is added; and no call is taken or made either.
AddsNoFile ==
  /\ attempts' \in [Places -> AttemptRecords]
  /\ \A x \in Places : attempts'[x].files \subseteq attempts[x].files
  /\ reports' \in [Evaluators -> SUBSET {"staging", "final"}]
  /\ \A q \in Evaluators : reports'[q] \subseteq reports[q]
  /\ registered \subseteq registered' /\ registered' \subseteq Places
  /\ intent' \in BOOLEAN /\ answered' \in BOOLEAN

AddsNothing == AddsNoFile /\ UNCHANGED <<reserved, sent>>

\* The source goes only inside the lock, and with all of it a user is answered.
Forgets(u) ==
  /\ live' \in BOOLEAN
  /\ live' => live
  /\ live => live' \/ root = u
  /\ answered' => answered \/ (~ live' /\ IsGone')

LEMMA ControlKept ==
  ASSUME MetricsTypeOK, InPlace, LockIsOwned, MetricsAssumption, NEW p \in Processes, Moves(p),
         registered \subseteq registered',
         p \in Evaluators => IsInPlace(p)',
         p \in Users => cmd'[p].at \in UserLabels
  PROVE  InPlace' /\ LockIsOwned' /\ root' \in Processes \cup {Free}
<1>1. ASSUME NEW q \in Evaluators PROVE IsInPlace(q)'
  <2>1. CASE q = p
    BY <2>1
  <2>2. CASE q # p
    <3>1. cmd'[q] = cmd[q]
      BY <2>2 DEF Moves, Processes
    <3>2. QED BY <3>1 DEF InPlace, IsInPlace, Place
  <2>3. QED BY <2>1, <2>2
<1>2. ASSUME NEW q \in Users PROVE cmd'[q].at \in UserLabels
  BY DEF Moves, Processes, InPlace
<1>3. InPlace'
  BY <1>1, <1>2 DEF InPlace, IsInPlace
<1>4. ASSUME NEW q \in Processes, cmd'[q].at \in UnderLock PROVE root' = q
  <2>1. CASE q = p
    BY <1>4, <2>1 DEF Moves
  <2>2. CASE q # p
    <3>1. root = q
      BY <1>4, <2>2 DEF Moves, LockIsOwned
    <3>2. root # Free
      BY <3>1 DEF MetricsAssumption, Processes
    <3>3. root # p
      BY <3>1, <2>2
    <3>4. QED BY <3>1, <3>2, <3>3 DEF Moves
  <2>3. QED BY <2>1, <2>2
<1>5. root' \in Processes \cup {Free}
  BY DEF Moves, MetricsTypeOK
<1>6. QED BY <1>3, <1>4, <1>5 DEF LockIsOwned

LEMMA CallsKept ==
  ASSUME MetricsTypeOK, CallsAreTaken, NEW p \in Processes, Moves(p), UNCHANGED <<reserved, sent>>,
         p \in Evaluators =>
           (cmd'[p].at \in Unsent => cmd[p].at \in Unsent /\ cmd'[p].entry = cmd[p].entry)
  PROVE  CallsAreTaken'
<1>1. \A q \in Evaluators :
        cmd'[q].at \in Unsent => cmd[q].at \in Unsent /\ cmd'[q].entry = cmd[q].entry
  BY DEF Moves, Processes
<1>2. QED BY <1>1 DEF CallsAreTaken

LEMMA FilesKept ==
  ASSUME MetricsInv, MetricsAssumption, NEW p \in Evaluators, Moves(p), AddsNoFile,
         cmd'[p].at # "idle", UNCHANGED <<live, answered>>,
         cmd'[p].at \in {"written", "staging", "linking", "unstaging"} => live
  PROVE  OnRecord' /\ WritesAreLive' /\ CleansUp' /\ (answered' => ~ live' /\ IsGone')
<1> USE DEF MetricsInv
<1>1. p \in Processes /\ \A u \in Users : cmd'[u] = cmd[u]
  BY DEF Moves, Processes, MetricsAssumption
<1>2. IsBound'
  BY DEF IsBound
<1>3. OnRecord'
  <2>1. \A x \in Places : attempts'[x].files # {} => x \in registered'
    BY DEF AddsNoFile, OnRecord
  <2>2. QED BY <1>2, <2>1 DEF OnRecord
<1>4. WritesAreLive'
  BY DEF WritesAreLive, Moves, Processes
<1>5. CleansUp'
  BY <1>1 DEF CleansUp, AddsNoFile
<1>6. answered' => ~ live' /\ IsGone'
  BY DEF AddsNoFile, IsGone
<1>7. QED BY <1>3, <1>4, <1>5, <1>6

\* What an evaluator adds, it adds inside the lock, to a live source.
LEMMA FilesAdded ==
  ASSUME MetricsInv, MetricsAssumption, NEW p \in Evaluators, Moves(p),
         root = p, live, UNCHANGED <<registered, live, answered>>, cmd'[p].at # "idle",
         cmd[p].at \in UnderLock,
         \A x \in Places : attempts'[x].files # attempts[x].files => x \in registered
  PROVE  OnRecord' /\ WritesAreLive' /\ CleansUp' /\ (answered' => ~ live' /\ IsGone')
<1> USE DEF MetricsInv
<1>1. p \in Processes /\ p \notin Users
  BY DEF Processes, MetricsAssumption
<1>2. \A u \in Users : cmd'[u] = cmd[u] /\ cmd[u].at \notin UnderLock
  BY <1>1 DEF Moves, Processes, LockIsOwned
<1>3. OnRecord'
  BY DEF OnRecord, IsBound
<1>4. WritesAreLive'
  BY DEF WritesAreLive
<1>5. CleansUp'
  BY <1>2 DEF CleansUp, UnderLock, Clearing
<1>6. QED BY <1>3, <1>4, <1>5

LEMMA FilesCleaned ==
  ASSUME MetricsInv, MetricsAssumption, NEW u \in Users, Moves(u), AddsNoFile,
         registered' = registered, Forgets(u),
         cmd'[u].own => ~ live',
         cmd'[u].at = "deleting" =>
           \A x \in Places : \A f \in attempts'[x].files : <<x, f>> \in cmd'[u].todo,
         cmd'[u].at \in {"reporting", "clearing"} => \A x \in Places : attempts'[x].files = {},
         cmd'[u].at = "clearing" => \A p \in Evaluators : reports'[p] = {}
  PROVE  OnRecord' /\ WritesAreLive' /\ CleansUp' /\ (answered' => ~ live' /\ IsGone')
<1> USE DEF MetricsInv, Forgets
<1>1. u \in Processes /\ u \notin Evaluators
  BY DEF Processes, MetricsAssumption
<1>2. \A p \in Evaluators : cmd'[p] = cmd[p]
  BY <1>1 DEF Moves, Processes
<1>3. OnRecord'
  BY <1>2 DEF OnRecord, AddsNoFile, IsBound
<1>4. WritesAreLive'
  <2> SUFFICES ASSUME NEW p \in Evaluators, cmd[p].at \in {"written", "staging", "linking", "unstaging"}
               PROVE  live'
    BY <1>2 DEF WritesAreLive
  <2>1. live
    BY DEF WritesAreLive
  <2>2. root = p
    BY DEF LockIsOwned, Processes, UnderLock, Writing, Reporting
  <2>3. QED BY <1>1, <2>1, <2>2
<1>5. CleansUp'
  <2> SUFFICES ASSUME NEW v \in Users, v # u
               PROVE /\ cmd'[v].own => ~ live'
                     /\ cmd'[v].at = "deleting" =>
                          \A x \in Places : \A f \in attempts'[x].files : <<x, f>> \in cmd'[v].todo
                     /\ cmd'[v].at \in {"reporting", "clearing"} =>
                          \A x \in Places : attempts'[x].files = {}
                     /\ cmd'[v].at = "clearing" => \A p \in Evaluators : reports'[p] = {}
    BY DEF CleansUp
  <2>1. cmd'[v] = cmd[v]
    BY DEF Moves, Processes
  <2>2. QED BY <2>1 DEF CleansUp, AddsNoFile
<1>6. answered' => ~ live' /\ IsGone'
  BY DEF AddsNoFile, IsGone
<1>7. QED BY <1>3, <1>4, <1>5, <1>6

LEMMA EvaluatorKeeps ==
  ASSUME MetricsInv, MetricsAssumption, NEW p \in Evaluators, Moves(p), AddsNothing,
         IsInPlace(p)', cmd'[p].at # "idle", UNCHANGED <<live, answered>>,
         cmd'[p].at \in Unsent => cmd[p].at \in Unsent /\ cmd'[p].entry = cmd[p].entry,
         cmd'[p].at \in {"written", "staging", "linking", "unstaging"} => live
  PROVE  MetricsInv'
<1>1. p \in Processes /\ p \notin Users
  BY DEF Processes, MetricsAssumption
<1>2. InPlace' /\ LockIsOwned' /\ root' \in Processes \cup {Free}
  BY <1>1, ControlKept DEF MetricsInv, AddsNothing, AddsNoFile
<1>3. CallsAreTaken'
  BY <1>1, CallsKept DEF MetricsInv, AddsNothing, AddsNoFile
<1>4. OnRecord' /\ WritesAreLive' /\ CleansUp' /\ (answered' => ~ live' /\ IsGone')
  BY FilesKept DEF AddsNothing
<1>5. MetricsTypeOK'
  BY <1>2 DEF MetricsInv, MetricsTypeOK, Moves, AddsNothing, AddsNoFile
<1>6. QED BY <1>2, <1>3, <1>4, <1>5 DEF MetricsInv

LEMMA UserKeeps ==
  ASSUME MetricsInv, MetricsAssumption, NEW u \in Users, Moves(u), AddsNothing,
         cmd'[u].at \in UserLabels,
         registered' = registered, Forgets(u),
         cmd'[u].own => ~ live',
         cmd'[u].at = "deleting" =>
           \A x \in Places : \A f \in attempts'[x].files : <<x, f>> \in cmd'[u].todo,
         cmd'[u].at \in {"reporting", "clearing"} => \A x \in Places : attempts'[x].files = {},
         cmd'[u].at = "clearing" => \A p \in Evaluators : reports'[p] = {}
  PROVE  MetricsInv'
<1>1. u \in Processes /\ u \notin Evaluators
  BY DEF Processes, MetricsAssumption
<1>2. InPlace' /\ LockIsOwned' /\ root' \in Processes \cup {Free}
  BY <1>1, ControlKept DEF MetricsInv, AddsNothing, AddsNoFile
<1>3. CallsAreTaken'
  BY <1>1, CallsKept DEF MetricsInv, AddsNothing, AddsNoFile
<1>4. OnRecord' /\ WritesAreLive' /\ CleansUp' /\ (answered' => ~ live' /\ IsGone')
  BY FilesCleaned DEF AddsNothing
<1>5. MetricsTypeOK'
  BY <1>2 DEF MetricsInv, MetricsTypeOK, Moves, AddsNothing, AddsNoFile, Forgets
<1>6. QED BY <1>2, <1>3, <1>4, <1>5 DEF MetricsInv

LEMMA DataAddsNothing == MetricsTypeOK /\ UNCHANGED data => AddsNothing
BY DEF MetricsTypeOK, AddsNothing, AddsNoFile, data, ledger, truth, mishaps

CommandLabels == EvaluatorLabels \cup UserLabels

LEMMA ToMoves ==
  ASSUME MetricsTypeOK, NEW p \in Processes, NEW step \in CommandLabels, To(p, step)
  PROVE  /\ cmd' \in [Processes -> Commands]
         /\ \A q \in Processes \ {p} : cmd'[q] = cmd[q]
         /\ cmd'[p] = [cmd[p] EXCEPT !.at = step]
BY DEF MetricsTypeOK, To, Commands, CommandLabels

LEMMA SameRest ==
  ASSUME MetricsTypeOK, NEW p \in Processes, NEW step, cmd'[p] = [cmd[p] EXCEPT !.at = step]
  PROVE  /\ cmd'[p].at = step
         /\ cmd'[p].entry = cmd[p].entry /\ cmd'[p].dir = cmd[p].dir
         /\ cmd'[p].todo = cmd[p].todo /\ cmd'[p].found = cmd[p].found
         /\ cmd'[p].own = cmd[p].own
         /\ Place(p)' = Place(p)
<1>1. cmd[p] \in Commands
  BY DEF MetricsTypeOK
<1>2. QED BY <1>1 DEF Commands, Place

\* An evaluator that goes to another step in the same place.
LEMMA EvaluatorMoves ==
  ASSUME MetricsInv, MetricsAssumption, NEW p \in Evaluators, NEW step \in EvaluatorLabels \ {"idle"},
         To(p, step), registered \subseteq registered',
         \/ root' = root /\ (step \in UnderLock => root = p)
         \/ root = Free /\ root' = p
         \/ root = p /\ root' = Free /\ step \notin UnderLock,
         step \in AtWork => cmd[p].at \in AtWork,
         step \in Registered => cmd[p].at \in Registered \/ Place(p) \in registered'
  PROVE  /\ Moves(p) /\ IsInPlace(p)'
         /\ cmd'[p].at = step /\ cmd'[p].entry = cmd[p].entry
<1>1. p \in Processes /\ step \in CommandLabels
  BY DEF Processes, CommandLabels
<1>2. /\ cmd' \in [Processes -> Commands]
      /\ \A q \in Processes \ {p} : cmd'[q] = cmd[q]
      /\ cmd'[p] = [cmd[p] EXCEPT !.at = step]
  BY <1>1, ToMoves DEF MetricsInv
<1>0. MetricsTypeOK
  BY DEF MetricsInv
<1>3. cmd'[p].at = step /\ cmd'[p].entry = cmd[p].entry /\ Place(p)' = Place(p)
  BY ONLY <1>0, <1>1, <1>2, SameRest
<1>4. Moves(p)
  BY <1>2, <1>3 DEF Moves
<1>5. IsInPlace(p)'
  <2>1. cmd[p].at \in AtWork => Place(p) \in Places
    BY DEF MetricsInv, InPlace
  <2>2. cmd[p].at \in Registered => Place(p) \in registered'
    BY DEF MetricsInv, InPlace
  <2>3. QED BY <1>3, <2>1, <2>2 DEF IsInPlace
<1>6. QED BY <1>3, <1>4, <1>5

\* One that adds nothing as it goes.
LEMMA EvaluatorGoes ==
  ASSUME MetricsInv, MetricsAssumption, NEW p \in Evaluators, NEW step \in EvaluatorLabels \ {"idle"},
         To(p, step), AddsNothing, UNCHANGED <<live, answered>>,
         \/ root' = root /\ (step \in UnderLock => root = p)
         \/ root = Free /\ root' = p
         \/ root = p /\ root' = Free /\ step \notin UnderLock,
         step \in AtWork => cmd[p].at \in AtWork,
         step \in Registered => cmd[p].at \in Registered \/ Place(p) \in registered',
         step \in Unsent => cmd[p].at \in Unsent,
         step \in {"written", "staging", "linking", "unstaging"} => live
  PROVE  MetricsInv'
<1>1. registered \subseteq registered'
  BY DEF AddsNothing, AddsNoFile
<1>2. Moves(p) /\ IsInPlace(p)' /\ cmd'[p].at = step /\ cmd'[p].entry = cmd[p].entry
  BY <1>1, EvaluatorMoves
<1>3. QED BY <1>2, EvaluatorKeeps

\* A user who goes to another step and changes nothing.
LEMMA UserGoes ==
  ASSUME MetricsInv, MetricsAssumption, NEW u \in Users, NEW step \in UserLabels \ {"deleting"},
         To(u, step), UNCHANGED data,
         \/ root' = root /\ (step \in UnderLock => root = u)
         \/ root = Free /\ root' = u
         \/ root = u /\ root' = Free /\ step \notin UnderLock,
         step \in {"reporting", "clearing"} => \A x \in Places : attempts[x].files = {},
         step = "clearing" => \A p \in Evaluators : reports[p] = {}
  PROVE  MetricsInv'
<1>1. u \in Processes /\ step \in CommandLabels
  BY DEF Processes, CommandLabels
<1>2. /\ cmd' \in [Processes -> Commands]
      /\ \A q \in Processes \ {u} : cmd'[q] = cmd[q]
      /\ cmd'[u] = [cmd[u] EXCEPT !.at = step]
  BY <1>1, ToMoves DEF MetricsInv
<1>3. cmd'[u].at = step /\ cmd'[u].own = cmd[u].own
  <2>1. MetricsTypeOK
    BY DEF MetricsInv
  <2>2. QED BY ONLY <1>1, <1>2, <2>1, SameRest
<1>4. Moves(u)
  BY <1>2, <1>3 DEF Moves
<1>5. AddsNothing
  BY DataAddsNothing DEF MetricsInv
<1>6. /\ UNCHANGED <<attempts, reports, registered>>
      /\ live' = live /\ answered' = answered /\ live \in BOOLEAN
  BY DEF data, ledger, truth, MetricsInv, MetricsTypeOK
<1>7. cmd'[u].own => ~ live'
  BY <1>3, <1>6 DEF MetricsInv, CleansUp
<1>8. cmd'[u].at \in UserLabels /\ cmd'[u].at # "deleting"
  BY <1>3
<1>9. /\ cmd'[u].at \in {"reporting", "clearing"} => \A x \in Places : attempts'[x].files = {}
      /\ cmd'[u].at = "clearing" => \A p \in Evaluators : reports'[p] = {}
  BY <1>3, <1>6
<1>10. cmd'[u].at = "deleting" =>
         \A x \in Places : \A f \in attempts'[x].files : <<x, f>> \in cmd'[u].todo
  BY <1>8
<1>11. registered' = registered
  BY <1>6
<1>12. Forgets(u)
  BY <1>6 DEF Forgets
<1>13. QED BY <1>4, <1>5, <1>7, <1>8, <1>9, <1>10, <1>11, <1>12, UserKeeps

-----------------------------------------------------------------------------
(* The steps of an evaluator                                               *)

LEMMA EvaluatorEnters ==
  ASSUME MetricsInv, MetricsAssumption, NEW p \in Evaluators
  PROVE  /\ Enters(p, "registered", "binding") => MetricsInv'
         /\ Enters(p, "sent", "committing") => MetricsInv'
         /\ Enters(p, "planned", "publishing") => MetricsInv'
<1> USE DEF EvaluatorLabels, AtWork, Registered, Reporting, Writing, Unsent, IsAt
<1>1. ASSUME UNCHANGED data PROVE AddsNothing /\ UNCHANGED <<live, answered>>
  BY <1>1, DataAddsNothing DEF MetricsInv, data, truth
<1>2. ASSUME Enters(p, "registered", "binding") PROVE MetricsInv'
  BY <1>1, <1>2, EvaluatorGoes DEF Enters
<1>3. ASSUME Enters(p, "sent", "committing") PROVE MetricsInv'
  BY <1>1, <1>3, EvaluatorGoes DEF Enters
<1>4. ASSUME Enters(p, "planned", "publishing") PROVE MetricsInv'
  BY <1>1, <1>4, EvaluatorGoes DEF Enters
<1>5. QED BY <1>2, <1>3, <1>4

LEMMA EvaluatorIsRefused ==
  ASSUME MetricsInv, MetricsAssumption, NEW p \in Evaluators
  PROVE  /\ IsRefused(p, "registered", "failing") => MetricsInv'
         /\ IsRefused(p, "sent", "failing") => MetricsInv'
         /\ IsRefused(p, "planned", "ended") => MetricsInv'
<1> USE DEF EvaluatorLabels, AtWork, Registered, Reporting, Writing, Unsent, IsAt,
            UnderLock, Clearing
<1>1. ASSUME UNCHANGED data PROVE AddsNothing /\ UNCHANGED <<live, answered>>
  BY <1>1, DataAddsNothing DEF MetricsInv, data, truth
<1>2. ASSUME IsRefused(p, "registered", "failing") PROVE MetricsInv'
  BY <1>1, <1>2, EvaluatorGoes DEF IsRefused
<1>3. ASSUME IsRefused(p, "sent", "failing") PROVE MetricsInv'
  BY <1>1, <1>3, EvaluatorGoes DEF IsRefused
<1>4. ASSUME IsRefused(p, "planned", "ended") PROVE MetricsInv'
  BY <1>1, <1>4, EvaluatorGoes DEF IsRefused
<1>5. QED BY <1>2, <1>3, <1>4

LEMMA QuietEvaluator ==
  ASSUME MetricsInv, MetricsAssumption, NEW p \in Evaluators,
         Binds(p) \/ FailsToAnswer(p) \/ Publishes(p)
  PROVE  MetricsInv'
<1> USE DEF EvaluatorLabels, AtWork, Registered, Reporting, Writing, Unsent, IsAt,
            UnderLock, Clearing, Leaves, Holds
<1>1. AddsNothing /\ UNCHANGED <<live, answered>>
  BY DataAddsNothing DEF MetricsInv, data, truth, Binds, FailsToAnswer, Publishes
<1>2. CASE Binds(p)
  BY <1>1, <1>2, EvaluatorGoes DEF Binds
<1>3. CASE FailsToAnswer(p)
  BY <1>1, <1>3, EvaluatorGoes DEF FailsToAnswer
<1>4. CASE Publishes(p)
  <2>1. CASE live
    BY <1>1, <1>4, <2>1, EvaluatorGoes DEF Publishes
  <2>2. CASE ~ live
    BY <1>1, <1>4, <2>2, EvaluatorGoes DEF Publishes
  <2>3. QED BY <2>1, <2>2
<1>5. QED BY <1>2, <1>3, <1>4

\* The next entry is one of the plan, or the plan is done.
LEMMA GoesOnKeeps ==
  ASSUME MetricsInv, MetricsAssumption, NEW p \in Evaluators, NEW usable \in SUBSET Nat,
         cmd[p].at \in AtWork \ UnderLock, GoesOn(p, usable), UNCHANGED <<root, data>>
  PROVE  MetricsInv'
<1>1. p \in Processes /\ cmd[p] \in Commands /\ Place(p) \in Places
  BY DEF Processes, MetricsInv, MetricsTypeOK, InPlace
<1>2. /\ cmd' \in [Processes -> Commands]
      /\ \A q \in Processes \ {p} : cmd'[q] = cmd[q]
      /\ cmd'[p].at = IF cmd[p].entry + 1 \in Entries THEN "next" ELSE "planned"
      /\ cmd'[p].entry = cmd[p].entry + 1 /\ cmd'[p].dir = cmd[p].dir
  <2> DEFINE step == IF cmd[p].entry + 1 \in Entries THEN "next" ELSE "planned"
             new == [cmd[p] EXCEPT !.at = step, !.entry = @ + 1, !.usable = @ \cup usable]
  <2>1. new \in Commands /\ new.at = step /\ new.entry = cmd[p].entry + 1 /\ new.dir = cmd[p].dir
    <3>1. step \in EvaluatorLabels
      BY DEF EvaluatorLabels, AtWork
    <3>2. cmd[p].entry \in Nat /\ cmd[p].usable \in SUBSET Nat
      BY <1>1 DEF Commands
    <3>3. cmd[p].entry + 1 \in Nat
      BY <3>2
    <3>4. cmd[p].usable \cup usable \in SUBSET Nat
      BY <3>2
    <3> HIDE DEF step
    <3>5. QED BY <1>1, <3>1, <3>3, <3>4 DEF Commands
  <2>2. cmd' = [cmd EXCEPT ![p] = new]
    BY <1>1 DEF GoesOn, Commands
  <2> HIDE DEF new
  <2>3. cmd' \in [Processes -> Commands] /\ cmd'[p] = new /\ \A q \in Processes \ {p} : cmd'[q] = cmd[q]
    BY <1>1, <2>1, <2>2 DEF MetricsInv, MetricsTypeOK
  <2>4. QED BY <2>1, <2>3
<1>3. Moves(p) /\ cmd'[p].at \notin Unsent
  BY <1>2 DEF Moves, UnderLock, Writing, Reporting, Clearing, Unsent
<1>4. IsInPlace(p)'
  BY <1>1, <1>2 DEF IsInPlace, Place, Places, EvaluatorLabels, AtWork, Registered, Writing
<1>5. AddsNothing /\ UNCHANGED <<live, answered>>
  BY DataAddsNothing DEF MetricsInv, data, truth
<1>6. QED BY <1>2, <1>3, <1>4, <1>5, EvaluatorKeeps

LEMMA SkipsOrReadsBack ==
  ASSUME MetricsInv, MetricsAssumption, NEW p \in Evaluators, Skips(p) \/ ReadsBack(p)
  PROVE  MetricsInv'
<1>1. cmd[p].at \in AtWork \ UnderLock /\ UNCHANGED <<root, data>>
  BY DEF Skips, ReadsBack, IsAt, AtWork, UnderLock, Writing, Reporting, Clearing
<1>2. cmd[p].entry \in Nat
  BY DEF MetricsInv, MetricsTypeOK, Commands, Processes
<1>3. \E usable \in SUBSET Nat : GoesOn(p, usable)
  <2>1. Verifies(p) => \E usable \in SUBSET Nat : GoesOn(p, usable)
    BY <1>2 DEF Verifies
  <2>2. QED BY <2>1 DEF Skips, ReadsBack
<1>4. QED BY <1>1, <1>3, GoesOnKeeps

LEMMA EvaluatorBegins ==
  ASSUME MetricsInv, MetricsAssumption, NEW p \in Evaluators, Evaluates(p)
  PROVE  MetricsInv'
<1>1. PICK d \in OutputsOf[p] : cmd' = [cmd EXCEPT ![p].at = "next", ![p].dir = d]
  BY DEF Evaluates
<1>2. p \in Processes /\ cmd[p] \in Commands /\ cmd[p].entry = 1 /\ d \in Dirs
  BY DEF Evaluates, IsAt, Processes, MetricsInv, MetricsTypeOK, InPlace, MetricsAssumption
<1>3. /\ cmd' \in [Processes -> Commands]
      /\ \A q \in Processes \ {p} : cmd'[q] = cmd[q]
      /\ cmd'[p].at = "next" /\ cmd'[p].entry = 1 /\ cmd'[p].dir = d
  <2> DEFINE new == [cmd[p] EXCEPT !.at = "next", !.dir = d]
  <2>1. new \in Commands /\ new.at = "next" /\ new.entry = 1 /\ new.dir = d
    BY <1>2 DEF Commands, EvaluatorLabels, AtWork
  <2>2. cmd' = [cmd EXCEPT ![p] = new]
    BY <1>1, <1>2 DEF Commands
  <2> HIDE DEF new
  <2>3. QED BY <1>2, <2>1, <2>2 DEF MetricsInv, MetricsTypeOK
<1>4. Moves(p) /\ cmd'[p].at \notin Unsent
  BY <1>3 DEF Moves, Evaluates, UnderLock, Writing, Reporting, Clearing, Unsent
<1>5. 1 \in Entries
  BY DEF MetricsAssumption, Entries
<1>6. IsInPlace(p)'
  BY <1>2, <1>3, <1>5 DEF IsInPlace, Place, Places, EvaluatorLabels, AtWork, Registered, Writing
<1>7. AddsNothing /\ UNCHANGED <<live, answered>>
  BY DataAddsNothing DEF MetricsInv, data, truth, Evaluates
<1>8. QED BY <1>3, <1>4, <1>6, <1>7, EvaluatorKeeps

\* A change of one attempt, none of whose files is new.
LEMMA AttemptAddsNothing ==
  ASSUME MetricsTypeOK, NEW x \in Places, NEW attempt, Sets(x, attempt),
         attempt \in AttemptRecords,
         attempt.files \subseteq attempts[x].files,
         UNCHANGED <<reports, ledger, truth>>
  PROVE  AddsNothing
BY DEF MetricsTypeOK, AddsNothing, AddsNoFile, Sets, ledger, truth

LEMMA EvaluatorOpens ==
  ASSUME MetricsInv, MetricsAssumption, NEW p \in Evaluators, Opens(p)
  PROVE  MetricsInv'
<1>1. cmd[p].at = "next" /\ Place(p) \in Places
  BY DEF Opens, IsAt, MetricsInv, InPlace, AtWork
<1>2. AddsNothing /\ UNCHANGED <<live, answered>>
  <2>1. Attempt(p) \in AttemptRecords
    <3>1. p \in Processes /\ {} \in SUBSET Files
      BY DEF Processes
    <3>2. QED BY <3>1 DEF Attempt, AttemptRecords, Statuses
  <2>2. Attempt(p).files \subseteq attempts[Place(p)].files
    BY DEF Attempt
  <2>3. QED BY <1>1, <2>1, <2>2, AttemptAddsNothing DEF MetricsInv, Opens, truth
<1>3. To(p, "opened") /\ root' = root
  BY DEF Opens
<1>4. QED
  BY <1>1, <1>2, <1>3, EvaluatorGoes
     DEF EvaluatorLabels, AtWork, UnderLock, Writing, Reporting, Clearing, Registered, Unsent

LEMMA EvaluatorFinishes ==
  ASSUME MetricsInv, MetricsAssumption, NEW p \in Evaluators, Finishes(p)
  PROVE  MetricsInv'
<1>1. cmd[p].at \in {"completing", "failing"} /\ Place(p) \in Places
  BY DEF Finishes, IsAt, MetricsInv, InPlace, AtWork, Registered
<1>2. AddsNothing /\ UNCHANGED <<live, answered>>
  <2> DEFINE finished == [attempts[Place(p)] EXCEPT
                            !.status = IF IsAt(p, "completing") THEN "completed" ELSE "error"]
  <2>1. /\ finished \in AttemptRecords
        /\ finished.files = attempts[Place(p)].files
    <3>1. attempts[Place(p)] \in AttemptRecords
      BY <1>1 DEF MetricsInv, MetricsTypeOK
    <3>2. QED BY <3>1 DEF AttemptRecords, Statuses
  <2>2. Sets(Place(p), finished) /\ UNCHANGED <<reports, ledger, truth>>
    BY DEF Finishes
  <2> HIDE DEF finished
  <2>3. QED BY <1>1, <2>1, <2>2, AttemptAddsNothing DEF MetricsInv, truth
<1>3. To(p, "finished") /\ root' = root
  BY DEF Finishes
<1>4. QED
  BY <1>1, <1>2, <1>3, EvaluatorGoes
     DEF EvaluatorLabels, AtWork, UnderLock, Writing, Reporting, Clearing, Registered, Unsent

LEMMA EvaluatorRegisters ==
  ASSUME MetricsInv, MetricsAssumption, NEW p \in Evaluators, Registers(p)
  PROVE  MetricsInv'
<1>1. cmd[p].at = "reserved" /\ Place(p) \in Places
  BY DEF Registers, IsAt, MetricsInv, InPlace, AtWork
<1>2. AddsNothing /\ UNCHANGED <<live, answered>>
  BY <1>1 DEF AddsNothing, AddsNoFile, Registers, truth, MetricsInv, MetricsTypeOK
<1>3. To(p, "registered") /\ root' = root /\ Place(p) \in registered'
  BY DEF Registers
<1>4. QED
  BY <1>1, <1>2, <1>3, EvaluatorGoes
     DEF EvaluatorLabels, AtWork, UnderLock, Writing, Reporting, Clearing, Registered, Unsent

\* The entry's only call is taken by one evaluator.
LEMMA EvaluatorReserves ==
  ASSUME MetricsInv, MetricsAssumption, NEW p \in Evaluators, Reserves(p)
  PROVE  MetricsInv'
<1>1. p \in Processes /\ p \notin Users /\ cmd[p].at = "opened" /\ Place(p) \in Places
  BY DEF Reserves, IsAt, MetricsInv, InPlace, AtWork, Processes, MetricsAssumption
<1>2. UNCHANGED <<root, attempts, reports, registered, sent, live, intent, answered>>
  BY DEF Reserves, truth
<1> USE DEF EvaluatorLabels, AtWork, UnderLock, Writing, Reporting, Clearing, Registered, Unsent
<1>3. CASE live /\ cmd[p].entry \notin reserved
  <2> DEFINE n == cmd[p].entry
  <2>1. reserved' = reserved \cup {n} /\ To(p, "reserved")
    BY <1>3 DEF Reserves
  <2>2. Moves(p) /\ IsInPlace(p)' /\ cmd'[p].at = "reserved" /\ cmd'[p].entry = n
    BY <1>1, <1>2, <2>1, EvaluatorMoves
  <2>3. n \in Entries /\ sent[n] = 0
    <3>1. n \in Entries
      BY <1>1 DEF Place, Places
    <3>2. sent[n] \in Nat /\ sent[n] <= 1 /\ sent[n] # 1
      BY <1>3, <3>1 DEF MetricsInv, MetricsTypeOK, CallsAreTaken
    <3>3. QED BY <3>1, <3>2
  <2>4. \A q \in Evaluators \ {p} : cmd'[q] = cmd[q] /\ (cmd[q].at \in Unsent => cmd[q].entry # n)
    BY <1>3, <2>2 DEF Moves, Processes, MetricsInv, CallsAreTaken
  <2>5. CallsAreTaken'
    <3>1. \A m \in Entries : sent'[m] <= 1 /\ (sent'[m] = 1 => m \in reserved')
      BY <1>2, <2>1 DEF MetricsInv, CallsAreTaken
    <3>2. \A q \in Evaluators : cmd'[q].at \in Unsent =>
            cmd'[q].entry \in reserved' /\ sent'[cmd'[q].entry] = 0
      BY <1>2, <2>1, <2>2, <2>3, <2>4 DEF MetricsInv, CallsAreTaken
    <3>3. \A q, r \in Evaluators :
            cmd'[q].at \in Unsent /\ cmd'[r].at \in Unsent /\ cmd'[q].entry = cmd'[r].entry => q = r
      BY <2>2, <2>4 DEF MetricsInv, CallsAreTaken
    <3>4. QED BY <3>1, <3>2, <3>3 DEF CallsAreTaken
  <2>6. OnRecord' /\ WritesAreLive' /\ CleansUp' /\ (answered' => ~ live' /\ IsGone')
    <3>1. AddsNoFile
      BY <1>2 DEF AddsNoFile, MetricsInv, MetricsTypeOK
    <3>2. QED BY <1>2, <2>2, <3>1, FilesKept
  <2>7. InPlace' /\ LockIsOwned' /\ root' \in Processes \cup {Free}
    BY <1>1, <1>2, <2>2, ControlKept DEF MetricsInv
  <2>8. MetricsTypeOK'
    BY <1>2, <2>1, <2>2, <2>3, <2>7 DEF MetricsInv, MetricsTypeOK, Moves
  <2>9. QED BY <2>5, <2>6, <2>7, <2>8 DEF MetricsInv
<1>4. CASE ~ (live /\ cmd[p].entry \notin reserved)
  <2>1. UNCHANGED reserved /\ To(p, "failing")
    BY <1>4 DEF Reserves
  <2>2. AddsNothing
    BY <1>2, <2>1 DEF AddsNothing, AddsNoFile, MetricsInv, MetricsTypeOK
  <2>3. QED BY <1>1, <1>2, <2>1, <2>2, EvaluatorGoes
<1>5. QED BY <1>3, <1>4

\* The call that was taken is made.
LEMMA EvaluatorSends ==
  ASSUME MetricsInv, MetricsAssumption, NEW p \in Evaluators, Sends(p)
  PROVE  MetricsInv'
<1> USE DEF EvaluatorLabels, AtWork, UnderLock, Writing, Reporting, Clearing, Registered, Unsent
<1> DEFINE n == cmd[p].entry
<1>1. p \in Processes /\ p \notin Users /\ cmd[p].at = "sending" /\ n \in Entries
  BY DEF Sends, IsAt, MetricsInv, InPlace, Processes, MetricsAssumption, Place, Places
<1>2. /\ UNCHANGED <<root, attempts, reports, reserved, registered, live, intent, answered>>
      /\ sent' = [sent EXCEPT ![n] = @ + 1] /\ To(p, "sent")
  BY DEF Sends, truth
<1>3. Moves(p) /\ IsInPlace(p)' /\ cmd'[p].at = "sent" /\ cmd'[p].entry = n
  BY <1>1, <1>2, EvaluatorMoves
<1>4. sent[n] = 0 /\ n \in reserved /\ sent' \in [Entries -> Nat]
  BY <1>1, <1>2 DEF MetricsInv, MetricsTypeOK, CallsAreTaken
<1>5. sent'[n] = 1 /\ \A m \in Entries \ {n} : sent'[m] = sent[m]
  BY <1>1, <1>2, <1>4 DEF MetricsInv, MetricsTypeOK
<1>6. \A q \in Evaluators \ {p} : cmd'[q] = cmd[q] /\ (cmd[q].at \in Unsent => cmd[q].entry # n)
  BY <1>1, <1>3 DEF Moves, Processes, MetricsInv, CallsAreTaken
<1>7. CallsAreTaken'
  <2>1. \A m \in Entries : sent'[m] <= 1 /\ (sent'[m] = 1 => m \in reserved')
    BY <1>2, <1>4, <1>5 DEF MetricsInv, CallsAreTaken
  <2>2. \A q \in Evaluators : cmd'[q].at \in Unsent =>
          q # p /\ cmd'[q] = cmd[q] /\ cmd[q].entry # n
    BY <1>3, <1>6
  <2>3. \A q \in Evaluators : cmd[q].at \in Unsent => cmd[q].entry \in Entries
    BY DEF MetricsInv, MetricsTypeOK, CallsAreTaken
  <2>4. \A q \in Evaluators : cmd'[q].at \in Unsent =>
          cmd'[q].entry \in reserved' /\ sent'[cmd'[q].entry] = 0
    BY <1>2, <1>5, <2>2, <2>3 DEF MetricsInv, CallsAreTaken
  <2>5. QED BY <2>1, <2>2, <2>4 DEF MetricsInv, CallsAreTaken
<1>8. OnRecord' /\ WritesAreLive' /\ CleansUp' /\ (answered' => ~ live' /\ IsGone')
  <2>1. AddsNoFile
    BY <1>2 DEF AddsNoFile, MetricsInv, MetricsTypeOK
  <2>2. QED BY <1>2, <1>3, <2>1, FilesKept
<1>9. InPlace' /\ LockIsOwned' /\ root' \in Processes \cup {Free}
  BY <1>1, <1>2, <1>3, ControlKept DEF MetricsInv
<1>10. MetricsTypeOK'
  BY <1>2, <1>3, <1>4, <1>9 DEF MetricsInv, MetricsTypeOK, Moves
<1>11. QED BY <1>7, <1>8, <1>9, <1>10 DEF MetricsInv

\* What is added inside the lock, to a source that was found live there.
LEMMA EvaluatorAdds ==
  ASSUME MetricsInv, MetricsAssumption, NEW p \in Evaluators, NEW step \in EvaluatorLabels \ {"idle"},
         To(p, step), root = p, live, cmd[p].at \in UnderLock,
         root' = p \/ (root' = Free /\ step \notin UnderLock),
         step \in AtWork => cmd[p].at \in AtWork,
         step \in Registered => cmd[p].at \in Registered,
         step \notin Unsent,
         attempts' \in [Places -> AttemptRecords],
         reports' \in [Evaluators -> SUBSET {"staging", "final"}],
         \A x \in Places : attempts'[x].files # attempts[x].files => x \in registered,
         UNCHANGED <<ledger, truth>>
  PROVE  MetricsInv'
<1>1. p \in Processes /\ p \notin Users
  BY DEF Processes, MetricsAssumption
<1>2. UNCHANGED <<reserved, registered, sent, live, intent, answered>>
  BY DEF ledger, truth
<1>3. Moves(p) /\ IsInPlace(p)' /\ cmd'[p].at = step
  BY <1>2, EvaluatorMoves
<1>4. InPlace' /\ LockIsOwned' /\ root' \in Processes \cup {Free}
  BY <1>1, <1>2, <1>3, ControlKept DEF MetricsInv
<1>5. CallsAreTaken'
  BY <1>1, <1>2, <1>3, CallsKept DEF MetricsInv
<1>6. OnRecord' /\ WritesAreLive' /\ CleansUp' /\ (answered' => ~ live' /\ IsGone')
  BY <1>2, <1>3, FilesAdded
<1>7. MetricsTypeOK'
  BY <1>2, <1>3, <1>4 DEF MetricsInv, MetricsTypeOK, Moves
<1>8. QED BY <1>4, <1>5, <1>6, <1>7 DEF MetricsInv

\* A registered attempt gains a file.
LEMMA EvaluatorGains ==
  ASSUME MetricsInv, MetricsAssumption, NEW p \in Evaluators, NEW step \in {"written", "completing"},
         NEW file \in Files, Gains(p, file), To(p, step), root = p, live,
         cmd[p].at \in Writing, root' = p \/ (root' = Free /\ step \notin UnderLock)
  PROVE  MetricsInv'
<1> DEFINE gained == [attempts[Place(p)] EXCEPT !.files = @ \cup {file}]
<1>1. Place(p) \in Places /\ Place(p) \in registered
  BY DEF MetricsInv, InPlace, AtWork, Registered
<1>2. attempts' = [attempts EXCEPT ![Place(p)] = gained] /\ UNCHANGED <<reports, ledger, truth>>
  BY DEF Gains, Sets
<1>3. gained \in AttemptRecords
  <2>1. attempts[Place(p)] \in AttemptRecords
    BY <1>1 DEF MetricsInv, MetricsTypeOK
  <2>2. QED BY <2>1 DEF AttemptRecords
<1> HIDE DEF gained
<1>4. /\ attempts' \in [Places -> AttemptRecords]
      /\ \A x \in Places : attempts'[x].files # attempts[x].files => x \in registered
  BY <1>1, <1>2, <1>3 DEF MetricsInv, MetricsTypeOK
<1>5. reports' \in [Evaluators -> SUBSET {"staging", "final"}]
  BY <1>2 DEF MetricsInv, MetricsTypeOK
<1>6. /\ step \in EvaluatorLabels \ {"idle"} /\ step \notin Unsent
      /\ cmd[p].at \in UnderLock /\ cmd[p].at \in AtWork /\ cmd[p].at \in Registered
  BY DEF EvaluatorLabels, AtWork, Registered, UnderLock, Unsent, Writing
<1>7. UNCHANGED <<ledger, truth>>
  BY <1>2
<1>8. QED BY <1>4, <1>5, <1>6, <1>7, EvaluatorAdds

LEMMA EvaluatorWrites ==
  ASSUME MetricsInv, MetricsAssumption, NEW p \in Evaluators, WritesResult(p) \/ WritesReceipt(p)
  PROVE  MetricsInv'
<1>1. root = p
  BY DEF WritesResult, WritesReceipt, Holds
<1>2. CASE WritesResult(p)
  <2>1. cmd[p].at = "committing"
    BY <1>2 DEF WritesResult, Holds, IsAt
  <2>2. CASE live
    <3>1. Gains(p, "result") /\ To(p, "written") /\ root' = p
      BY <1>1, <1>2, <2>2 DEF WritesResult
    <3>2. QED BY <1>1, <2>1, <2>2, <3>1, EvaluatorGains DEF Files, Writing
  <2>3. CASE ~ live
    <3>1. Leaves(p, "failing") /\ UNCHANGED data
      BY <1>2, <2>3 DEF WritesResult
    <3>2. AddsNothing /\ UNCHANGED <<live, answered>>
      BY <3>1, DataAddsNothing DEF MetricsInv, data, truth
    <3>3. QED
      BY <1>1, <2>1, <3>1, <3>2, EvaluatorGoes
         DEF Leaves, EvaluatorLabels, AtWork, UnderLock, Writing, Reporting, Clearing, Registered, Unsent
  <2>4. QED BY <2>2, <2>3
<1>3. CASE WritesReceipt(p)
  <2>1. cmd[p].at = "written" /\ live
    BY <1>3 DEF WritesReceipt, Holds, IsAt, MetricsInv, WritesAreLive
  <2>2. Gains(p, "receipt") /\ To(p, "completing") /\ root' = Free
    BY <1>3 DEF WritesReceipt, Leaves
  <2>3. "completing" \notin UnderLock
    BY DEF UnderLock, Writing, Reporting, Clearing
  <2>4. QED BY <1>1, <2>1, <2>2, <2>3, EvaluatorGains DEF Files, Writing
<1>4. QED BY <1>2, <1>3

LEMMA EvaluatorReports ==
  ASSUME MetricsInv, MetricsAssumption, NEW p \in Evaluators, Stages(p) \/ Links(p) \/ Unstages(p)
  PROVE  MetricsInv'
<1>1. root = p /\ cmd[p].at \in {"staging", "linking", "unstaging"} /\ live
  BY DEF Stages, Links, Unstages, Holds, IsAt, MetricsInv, WritesAreLive
<1>2. /\ UNCHANGED <<attempts, ledger, truth>>
      /\ \E files \in SUBSET {"staging", "final"} : reports' = [reports EXCEPT ![p] = files]
  BY DEF Stages, Links, Unstages, HasReport
<1>3. \E step \in {"linking", "unstaging", "ended"} :
        To(p, step) /\ (root' = p \/ (root' = Free /\ step \notin UnderLock))
  BY <1>1 DEF Stages, Links, Unstages, Leaves, UnderLock, Writing, Reporting, Clearing
<1>4. /\ attempts' \in [Places -> AttemptRecords]
      /\ reports' \in [Evaluators -> SUBSET {"staging", "final"}]
      /\ \A x \in Places : attempts'[x].files # attempts[x].files => x \in registered
  BY <1>2 DEF MetricsInv, MetricsTypeOK
<1>5. PICK step \in {"linking", "unstaging", "ended"} :
        To(p, step) /\ (root' = p \/ (root' = Free /\ step \notin UnderLock))
  BY <1>3
<1>6. /\ step \in EvaluatorLabels \ {"idle"} /\ cmd[p].at \in UnderLock
      /\ step \notin AtWork /\ step \notin Registered /\ step \notin Unsent
  BY <1>1 DEF EvaluatorLabels, AtWork, UnderLock, Writing, Reporting, Registered, Unsent
<1>7. QED BY <1>1, <1>2, <1>4, <1>5, <1>6, EvaluatorAdds

LEMMA EvaluatorDies ==
  ASSUME MetricsInv, MetricsAssumption, NEW p \in Evaluators, Dies(p)
  PROVE  MetricsInv'
<1>1. To(p, "dead") /\ UNCHANGED <<attempts, reports, ledger, truth>>
  BY DEF Dies, To, MetricsAssumption
<1>2. AddsNothing /\ UNCHANGED <<live, answered>>
  BY <1>1 DEF AddsNothing, AddsNoFile, ledger, truth, MetricsInv, MetricsTypeOK
<1>3. root' = root \/ (root = p /\ root' = Free)
  BY DEF Dies
<1>4. /\ "dead" \in EvaluatorLabels \ {"idle"} /\ "dead" \notin UnderLock
      /\ "dead" \notin AtWork /\ "dead" \notin Registered /\ "dead" \notin Unsent
  BY DEF EvaluatorLabels, AtWork, UnderLock, Writing, Reporting, Clearing, Registered, Unsent
<1>5. QED BY <1>1, <1>2, <1>3, <1>4, EvaluatorGoes

LEMMA EvaluatorKeepsInv ==
  ASSUME MetricsInv, MetricsAssumption, NEW p \in Evaluators, Evaluates(p) \/ EvaluatorStep(p)
  PROVE  MetricsInv'
BY EvaluatorBegins, SkipsOrReadsBack, EvaluatorOpens, EvaluatorReserves, EvaluatorRegisters,
   EvaluatorEnters, EvaluatorIsRefused, QuietEvaluator, EvaluatorSends, EvaluatorWrites,
   EvaluatorFinishes, EvaluatorReports DEF EvaluatorStep

-----------------------------------------------------------------------------
(* The steps of a user                                                     *)

LEMMA UserDies ==
  ASSUME MetricsInv, MetricsAssumption, NEW u \in Users, Dies(u)
  PROVE  MetricsInv'
<1>1. u \in Processes
  BY DEF Processes
<1>2. Idle \in Commands /\ Idle.at = "idle" /\ Idle.own = FALSE
  BY DEF Idle, Commands, UserLabels
<1>3. cmd' = [cmd EXCEPT ![u] = Idle] /\ UNCHANGED <<attempts, reports, ledger, truth>>
  BY DEF Dies
<1>4. cmd' \in [Processes -> Commands] /\ cmd'[u] = Idle /\ \A q \in Processes \ {u} : cmd'[q] = cmd[q]
  BY <1>1, <1>2, <1>3 DEF MetricsInv, MetricsTypeOK
<1>5. Moves(u)
  BY <1>2, <1>4 DEF Moves, Dies, UnderLock, Writing, Reporting, Clearing
<1>6. AddsNothing /\ Forgets(u) /\ registered' = registered
  BY <1>3 DEF AddsNothing, AddsNoFile, Forgets, ledger, truth, MetricsInv, MetricsTypeOK
<1>7. cmd'[u].at = "idle" /\ "idle" \in UserLabels /\ ~ cmd'[u].own
  BY <1>2, <1>4 DEF UserLabels
<1>8. QED BY <1>5, <1>6, <1>7, UserKeeps

LEMMA QuietUser ==
  ASSUME MetricsInv, MetricsAssumption, NEW u \in Users,
         Enters(u, "idle", "recovering") \/ NotFound(u) \/ EndsReports(u)
  PROVE  MetricsInv'
<1> USE DEF UserLabels, UnderLock, Writing, Reporting, Clearing
<1>1. CASE Enters(u, "idle", "recovering")
  BY <1>1, UserGoes DEF Enters
<1>2. CASE NotFound(u)
  BY <1>2, UserGoes DEF NotFound, Answers, Leaves, Holds
<1>3. CASE EndsReports(u)
  <2>1. (\A x \in Places : attempts[x].files = {}) /\ \A p \in Evaluators : reports[p] = {}
    BY <1>3 DEF EndsReports, Holds, IsAt, MetricsInv, CleansUp
  <2>2. To(u, "clearing") /\ UNCHANGED data /\ root' = root /\ root = u
    BY <1>3 DEF EndsReports, Holds
  <2>3. QED BY <2>1, <2>2, UserGoes
<1>4. QED BY <1>1, <1>2, <1>3

\* Where no plan was ever bound there is nothing to clean.
LEMMA NothingBound == MetricsInv /\ ~ IsBound =>
  (\A x \in Places : attempts[x].files = {}) /\ \A p \in Evaluators : reports[p] = {}
BY DEF MetricsInv, OnRecord

\* A user goes on with another record of the command.
LEMMA UserSets ==
  ASSUME MetricsInv, NEW u \in Users, NEW new \in Commands, cmd' = [cmd EXCEPT ![u] = new],
         root = u, root' = u \/ (root' = Free /\ new.at \notin UnderLock)
  PROVE  Moves(u) /\ cmd'[u] = new
<1>1. u \in Processes
  BY DEF Processes
<1>2. cmd' \in [Processes -> Commands] /\ cmd'[u] = new /\ \A q \in Processes \ {u} : cmd'[q] = cmd[q]
  BY <1>1 DEF MetricsInv, MetricsTypeOK
<1>3. QED BY <1>2 DEF Moves

LEMMA UserRecovers ==
  ASSUME MetricsInv, MetricsAssumption, NEW u \in Users, Recovers(u)
  PROVE  MetricsInv'
<1>1. cmd[u].at = "recovering" /\ root = u /\ root' = root /\ UNCHANGED data
  BY DEF Recovers, Holds, IsAt
<1>2. CASE intent
  <2> DEFINE new == [cmd[u] EXCEPT !.at = "collecting", !.own = FALSE]
  <2>1. cmd[u] \in Commands
    BY DEF MetricsInv, MetricsTypeOK, Processes
  <2>2. new \in Commands /\ new.at = "collecting" /\ new.own = FALSE
    BY <2>1 DEF Commands, UserLabels, Clearing
  <2>3. cmd' = [cmd EXCEPT ![u] = new]
    BY <1>2, <2>1 DEF Recovers, Commands
  <2> HIDE DEF new
  <2>4. Moves(u) /\ cmd'[u] = new
    BY <1>1, <2>2, <2>3, UserSets
  <2>5. AddsNothing
    BY <1>1, DataAddsNothing DEF MetricsInv
  <2>6. Forgets(u) /\ registered' = registered
    BY <1>1 DEF Forgets, data, ledger, truth, MetricsInv, MetricsTypeOK
  <2>7. "collecting" \in UserLabels
    BY DEF UserLabels, Clearing
  <2>8. QED BY <2>2, <2>4, <2>5, <2>6, <2>7, UserKeeps
<1>3. CASE ~ intent
  <2>1. To(u, "forgetting")
    BY <1>3 DEF Recovers
  <2>2. "forgetting" \in UserLabels
    BY DEF UserLabels, Clearing
  <2>3. QED BY <1>1, <2>1, <2>2, UserGoes
<1>4. QED BY <1>2, <1>3

LEMMA UserCommits ==
  ASSUME MetricsInv, MetricsAssumption, NEW u \in Users, Commits(u)
  PROVE  MetricsInv'
<1> DEFINE new == [cmd[u] EXCEPT !.at = "collecting", !.own = TRUE]
<1>1. root = u /\ root' = root /\ live /\ live' = FALSE /\ UNCHANGED <<attempts, reports, ledger, answered>>
      /\ intent' = TRUE
  BY DEF Commits, Holds
<1>2. cmd[u] \in Commands
  BY DEF MetricsInv, MetricsTypeOK, Processes
<1>3. new \in Commands /\ new.at = "collecting"
  BY <1>2 DEF Commands, UserLabels, Clearing
<1>4. cmd' = [cmd EXCEPT ![u] = new]
  BY <1>2 DEF Commits, Commands
<1> HIDE DEF new
<1>5. Moves(u) /\ cmd'[u] = new
  BY <1>1, <1>3, <1>4, UserSets
<1>6. AddsNothing /\ registered' = registered
  BY <1>1 DEF AddsNothing, AddsNoFile, ledger, MetricsInv, MetricsTypeOK
<1>7. Forgets(u)
  BY <1>1 DEF Forgets, MetricsInv, MetricsTypeOK
<1>8. "collecting" \in UserLabels
  BY DEF UserLabels, Clearing
<1>9. ~ live'
  BY <1>1
<1>10. QED BY <1>3, <1>5, <1>6, <1>7, <1>8, <1>9, UserKeeps

LEMMA UserCollects ==
  ASSUME MetricsInv, MetricsAssumption, NEW u \in Users, Collects(u)
  PROVE  MetricsInv'
<1>1. cmd[u].at = "collecting" /\ root = u /\ UNCHANGED data
  BY DEF Collects, Holds, IsAt, Defers
<1>2. CASE ~ IsBound
  <2>1. To(u, "clearing") /\ root' = root
    BY <1>2 DEF Collects
  <2>2. "clearing" \in UserLabels
    BY DEF UserLabels, Clearing
  <2>3. QED BY <1>1, <1>2, <2>1, <2>2, NothingBound, UserGoes
<1>3. CASE IsBound /\ CanCollect
  <2> DEFINE todo == {t \in registered \X Files : t[2] \in attempts[t[1]].files}
             new == [cmd[u] EXCEPT !.at = "deleting", !.found = registered, !.todo = todo]
  <2>1. cmd[u] \in Commands /\ registered \subseteq Places
    BY DEF MetricsInv, MetricsTypeOK, Processes
  <2>2. todo \in SUBSET (Places \X Files)
    BY <2>1
  <2>3. \A x \in Places : \A f \in attempts[x].files : <<x, f>> \in todo
    <3> TAKE x \in Places
    <3> TAKE f \in attempts[x].files
    <3>1. x \in registered /\ attempts[x].files \subseteq Files
      BY DEF MetricsInv, OnRecord, MetricsTypeOK, AttemptRecords
    <3>2. QED BY <3>1
  <2>4. root' = root /\ cmd' = [cmd EXCEPT ![u] = new]
    <3>1. /\ cmd' = [cmd EXCEPT ![u].at = "deleting", ![u].found = registered, ![u].todo = todo]
          /\ root' = root
      BY <1>3 DEF Collects
    <3>2. u \in DOMAIN cmd
      BY DEF MetricsInv, MetricsTypeOK, Processes
    <3>3. QED BY ONLY <3>1, <3>2 DEF new
  <2> HIDE DEF todo
  <2>5. new \in Commands /\ new.at = "deleting" /\ new.todo = todo /\ new.own = cmd[u].own
    BY <2>1, <2>2 DEF Commands, UserLabels, Clearing
  <2> HIDE DEF new
  <2>6. Moves(u) /\ cmd'[u] = new
    BY <1>1, <2>4, <2>5, UserSets
  <2>7. AddsNothing
    BY <1>1, DataAddsNothing DEF MetricsInv
  <2>8. Forgets(u) /\ registered' = registered /\ attempts' = attempts
    BY <1>1 DEF Forgets, data, ledger, truth, MetricsInv, MetricsTypeOK
  <2>9. cmd'[u].own => ~ live'
    BY <1>1, <2>5, <2>6 DEF MetricsInv, CleansUp, data, truth
  <2>10. \A x \in Places : \A f \in attempts'[x].files : <<x, f>> \in cmd'[u].todo
    BY <2>3, <2>5, <2>6, <2>8
  <2>11. "deleting" \in UserLabels
    BY DEF UserLabels, Clearing
  <2>12. QED BY <2>5, <2>6, <2>7, <2>8, <2>9, <2>10, <2>11, UserKeeps
<1>4. CASE IsBound /\ ~ CanCollect
  <2>1. To(u, "idle") /\ root' = Free
    BY <1>4 DEF Collects, Defers, Answers, Leaves
  <2>2. "idle" \in UserLabels /\ "idle" \notin UnderLock
    BY DEF UserLabels, Clearing, UnderLock, Writing, Reporting
  <2>3. QED BY <1>1, <2>1, <2>2, UserGoes
<1>5. QED BY <1>2, <1>3, <1>4

LEMMA UserConfirms ==
  ASSUME MetricsInv, MetricsAssumption, NEW u \in Users, Confirms(u)
  PROVE  MetricsInv'
<1>1. cmd[u].at = "deleting" /\ cmd[u].todo = {} /\ root = u /\ UNCHANGED data
  BY DEF Confirms, Holds, IsAt, Defers
<1>2. \A x \in Places : attempts[x].files = {}
  BY <1>1 DEF MetricsInv, CleansUp
<1>3. CASE registered = cmd[u].found
  <2>1. To(u, "reporting") /\ root' = root
    BY <1>3 DEF Confirms
  <2>2. "reporting" \in UserLabels
    BY DEF UserLabels, Clearing
  <2>3. QED BY <1>1, <1>2, <2>1, <2>2, UserGoes
<1>4. CASE registered # cmd[u].found
  <2>1. To(u, "idle") /\ root' = Free
    BY <1>4 DEF Confirms, Defers, Answers, Leaves
  <2>2. "idle" \in UserLabels /\ "idle" \notin UnderLock
    BY DEF UserLabels, Clearing, UnderLock, Writing, Reporting
  <2>3. QED BY <1>1, <2>1, <2>2, UserGoes
<1>5. QED BY <1>3, <1>4

LEMMA UserDeletes ==
  ASSUME MetricsInv, MetricsAssumption, NEW u \in Users, Deletes(u)
  PROVE  MetricsInv'
<1>1. PICK t \in cmd[u].todo :
        /\ Sets(t[1], [attempts[t[1]] EXCEPT !.files = @ \ {t[2]}])
        /\ cmd' = [cmd EXCEPT ![u].todo = @ \ {t}]
  BY DEF Deletes
<1>2. cmd[u].at = "deleting" /\ root = u /\ root' = u /\ UNCHANGED <<reports, ledger, truth>>
  BY DEF Deletes, Holds, IsAt
<1>3. cmd[u] \in Commands /\ t \in Places \X Files
  <2>1. cmd[u] \in Commands
    BY DEF MetricsInv, MetricsTypeOK, Processes
  <2>2. QED BY <2>1 DEF Commands
<1> DEFINE new == [cmd[u] EXCEPT !.todo = @ \ {t}]
           rest == [attempts[t[1]] EXCEPT !.files = @ \ {t[2]}]
<1>4. new \in Commands /\ new.at = "deleting" /\ new.todo = cmd[u].todo \ {t} /\ new.own = cmd[u].own
  <2>1. cmd[u].todo \ {t} \in SUBSET (Places \X Files)
    BY <1>3 DEF Commands
  <2> HIDE <1>1
  <2>2. QED BY <1>2, <1>3, <2>1 DEF Commands
<1>5. rest \in AttemptRecords /\ rest.files = attempts[t[1]].files \ {t[2]}
  <2>1. attempts[t[1]] \in AttemptRecords
    BY <1>3 DEF MetricsInv, MetricsTypeOK
  <2>2. QED BY <2>1 DEF AttemptRecords
<1>6. cmd' = [cmd EXCEPT ![u] = new] /\ Sets(t[1], rest)
  BY <1>1, <1>3 DEF Commands
<1> HIDE DEF new, rest
<1>7. Moves(u) /\ cmd'[u] = new
  BY <1>2, <1>4, <1>6, UserSets
<1>8. AddsNothing
  BY <1>2, <1>3, <1>5, <1>6, AttemptAddsNothing DEF MetricsInv
<1>9. Forgets(u) /\ registered' = registered /\ live' = live
  BY <1>2 DEF Forgets, ledger, truth, MetricsInv, MetricsTypeOK
<1>10. cmd'[u].own => ~ live'
  BY <1>4, <1>7, <1>9 DEF MetricsInv, CleansUp
<1>11. \A x \in Places : \A f \in attempts'[x].files : <<x, f>> \in cmd'[u].todo
  <2> SUFFICES ASSUME NEW x \in Places, NEW f \in attempts'[x].files PROVE <<x, f>> \in cmd'[u].todo
    OBVIOUS
  <2>1. f \in attempts[x].files /\ <<x, f>> # t
    <3>1. CASE x = t[1]
      <4>1. attempts'[x] = rest
        BY <1>3, <1>6, <3>1 DEF Sets, MetricsInv, MetricsTypeOK
      <4>2. QED BY <1>5, <3>1, <4>1
    <3>2. CASE x # t[1]
      <4>1. attempts'[x] = attempts[x]
        BY <1>6, <3>2 DEF Sets, MetricsInv, MetricsTypeOK
      <4>2. QED BY <3>2, <4>1
    <3>3. QED BY <3>1, <3>2
  <2>2. <<x, f>> \in cmd[u].todo
    BY <1>2, <2>1 DEF MetricsInv, CleansUp
  <2>3. QED BY <1>4, <1>7, <2>1, <2>2
<1>12. "deleting" \in UserLabels
  BY DEF UserLabels, Clearing
<1>13. QED BY <1>4, <1>7, <1>8, <1>9, <1>10, <1>11, <1>12, UserKeeps

LEMMA UserDeletesReport ==
  ASSUME MetricsInv, MetricsAssumption, NEW u \in Users, DeletesReport(u)
  PROVE  MetricsInv'
<1>1. cmd[u].at = "reporting" /\ root = u /\ UNCHANGED <<root, cmd, attempts, ledger, truth>>
  BY DEF DeletesReport, Holds, IsAt
<1>2. /\ reports' \in [Evaluators -> SUBSET {"staging", "final"}]
      /\ \A p \in Evaluators : reports'[p] \subseteq reports[p]
  BY DEF DeletesReport, MetricsInv, MetricsTypeOK
<1>3. AddsNothing
  BY <1>1, <1>2 DEF AddsNothing, AddsNoFile, ledger, truth, MetricsInv, MetricsTypeOK
<1>4. Moves(u)
  BY <1>1 DEF Moves, MetricsInv, MetricsTypeOK
<1>5. Forgets(u) /\ registered' = registered /\ live' = live
  BY <1>1 DEF Forgets, ledger, truth, MetricsInv, MetricsTypeOK
<1>6. cmd'[u].own => ~ live'
  BY <1>1, <1>5 DEF MetricsInv, CleansUp
<1>7. \A x \in Places : attempts'[x].files = {}
  BY <1>1 DEF MetricsInv, CleansUp
<1>8. cmd'[u].at = "reporting" /\ "reporting" \in UserLabels
  BY <1>1 DEF UserLabels, Clearing
<1>9. QED BY <1>3, <1>4, <1>5, <1>6, <1>7, <1>8, UserKeeps

\* Who is answered has cleaned up what was derived from a source that is gone.
LEMMA UserClears ==
  ASSUME MetricsInv, MetricsAssumption, NEW u \in Users, Clears(u)
  PROVE  MetricsInv'
<1>1. /\ cmd[u].at = "clearing" /\ root = u
      /\ UNCHANGED <<attempts, reports, ledger, live>>
      /\ intent' = FALSE /\ answered' = (answered \/ cmd[u].own)
  BY DEF Clears, Holds, IsAt
<1>2. \E step \in {"idle", "forgetting"} :
        To(u, step) /\ (root' = root \/ (root' = Free /\ step = "idle"))
  BY DEF Clears, Answers, Leaves
<1>3. PICK step \in {"idle", "forgetting"} :
        To(u, step) /\ (root' = root \/ (root' = Free /\ step = "idle"))
  BY <1>2
<1>4. u \in Processes /\ step \in UserLabels /\ step \in CommandLabels /\ "idle" \notin UnderLock
  BY DEF Processes, CommandLabels, UserLabels, Clearing, UnderLock, Writing, Reporting
<1>5. /\ cmd' \in [Processes -> Commands]
      /\ \A q \in Processes \ {u} : cmd'[q] = cmd[q]
      /\ cmd'[u] = [cmd[u] EXCEPT !.at = step]
  BY <1>3, <1>4, ToMoves DEF MetricsInv
<1>6. cmd'[u].at = step /\ cmd'[u].own = cmd[u].own
  <2>1. MetricsTypeOK
    BY DEF MetricsInv
  <2>2. QED BY ONLY <1>4, <1>5, <2>1, SameRest
<1>7. Moves(u)
  BY <1>1, <1>3, <1>4, <1>5, <1>6 DEF Moves
<1>8. AddsNothing /\ registered' = registered
  <2>1. cmd[u].own \in BOOLEAN
    BY <1>4 DEF MetricsInv, MetricsTypeOK, Commands
  <2>2. answered' \in BOOLEAN /\ intent' \in BOOLEAN
    BY <1>1, <2>1 DEF MetricsInv, MetricsTypeOK
  <2>3. QED BY <1>1, <2>2 DEF AddsNothing, AddsNoFile, ledger, MetricsInv, MetricsTypeOK
<1>9. cmd[u].own => ~ live
  BY DEF MetricsInv, CleansUp
<1>10. IsGone'
  BY <1>1 DEF IsGone, MetricsInv, CleansUp
<1>11. Forgets(u)
  BY <1>1, <1>9, <1>10 DEF Forgets, MetricsInv, MetricsTypeOK
<1>12. cmd'[u].own => ~ live'
  BY <1>1, <1>6, <1>9
<1>13. QED BY <1>3, <1>4, <1>6, <1>7, <1>8, <1>11, <1>12, UserKeeps

LEMMA UserGivesUp ==
  ASSUME MetricsInv, MetricsAssumption, NEW u \in Users, FailsToDelete(u) \/ Restores(u)
  PROVE  MetricsInv'
<1>1. /\ root = u /\ root' = Free /\ To(u, "idle")
      /\ UNCHANGED <<attempts, reports, ledger, live, answered>> /\ intent' \in {intent, FALSE}
  BY DEF FailsToDelete, Restores, Holds, Answers, Leaves, truth
<1>2. u \in Processes /\ "idle" \in UserLabels /\ "idle" \in CommandLabels /\ "idle" \notin UnderLock
  BY DEF Processes, CommandLabels, UserLabels, Clearing, UnderLock, Writing, Reporting
<1>3. /\ cmd' \in [Processes -> Commands]
      /\ \A q \in Processes \ {u} : cmd'[q] = cmd[q]
      /\ cmd'[u] = [cmd[u] EXCEPT !.at = "idle"]
  BY <1>1, <1>2, ToMoves DEF MetricsInv
<1>4. cmd'[u].at = "idle" /\ cmd'[u].own = cmd[u].own
  <2>1. MetricsTypeOK
    BY DEF MetricsInv
  <2>2. QED BY ONLY <1>2, <1>3, <2>1, SameRest
<1>5. Moves(u)
  BY <1>1, <1>2, <1>3, <1>4 DEF Moves
<1>6. AddsNothing /\ registered' = registered /\ Forgets(u)
  BY <1>1 DEF AddsNothing, AddsNoFile, Forgets, ledger, MetricsInv, MetricsTypeOK
<1>7. cmd'[u].own => ~ live'
  BY <1>1, <1>4 DEF MetricsInv, CleansUp
<1>8. QED BY <1>2, <1>4, <1>5, <1>6, <1>7, UserKeeps

LEMMA UserKeepsInv ==
  ASSUME MetricsInv, MetricsAssumption, NEW u \in Users,
         UserStep(u) \/ FailsToDelete(u) \/ Restores(u)
  PROVE  MetricsInv'
BY QuietUser, UserRecovers, UserCommits, UserCollects, UserDeletes, UserConfirms,
   UserDeletesReport, UserClears, UserGivesUp DEF UserStep

-----------------------------------------------------------------------------
LEMMA InitMetricsInv == MetricsInit => MetricsInv
<1> SUFFICES ASSUME MetricsInit PROVE MetricsInv
  OBVIOUS
<1>1. Idle \in Commands /\ NoAttempt \in AttemptRecords
  BY DEF Idle, Commands, UserLabels, NoAttempt, AttemptRecords, Statuses
<1>2. MetricsTypeOK
  BY <1>1 DEF MetricsInit, MetricsTypeOK
<1>3. InPlace
  BY DEF MetricsInit, InPlace, Idle, Processes, EvaluatorLabels, UserLabels, AtWork, Registered, Writing
<1>4. LockIsOwned /\ WritesAreLive /\ CleansUp
  BY DEF MetricsInit, LockIsOwned, WritesAreLive, CleansUp, Idle, Processes,
         UnderLock, Writing, Reporting, Clearing
<1>5. CallsAreTaken
  BY DEF MetricsInit, CallsAreTaken, Idle, Processes, Unsent
<1>6. OnRecord
  BY DEF MetricsInit, OnRecord, NoAttempt
<1>7. QED BY <1>2, <1>3, <1>4, <1>5, <1>6 DEF MetricsInv, MetricsInit

LEMMA NextMetricsInv == MetricsInv /\ [MetricsNext]_mvars => MetricsInv'
<1> SUFFICES ASSUME MetricsInv, [MetricsNext]_mvars PROVE MetricsInv'
  OBVIOUS
<1> USE MetricsAssumption
<1>1. CASE UNCHANGED mvars
  BY <1>1 DEF mvars, data, ledger, truth, mishaps, MetricsInv, MetricsTypeOK, InPlace, LockIsOwned,
              CallsAreTaken, OnRecord, IsBound, WritesAreLive, CleansUp, IsGone, Place
<1>2. ASSUME NEW p \in Processes, Dies(p) PROVE MetricsInv'
  BY <1>2, EvaluatorDies, UserDies DEF Processes
<1>3. ASSUME NEW p \in Evaluators, Evaluates(p) \/ EvaluatorStep(p) PROVE MetricsInv'
  BY <1>3, EvaluatorKeepsInv
<1>4. ASSUME NEW u \in Users, UserStep(u) \/ FailsToDelete(u) \/ Restores(u) PROVE MetricsInv'
  BY <1>4, UserKeepsInv
<1>5. QED BY <1>1, <1>2, <1>3, <1>4 DEF MetricsNext

\* No entry of a plan is given to the paid model twice, however many runs of
\* however many output directories evaluate it, and whoever dies: its call is
\* taken before it is made, by one of them, and never returned.
THEOREM CalledOnce == MetricsSpec => []SentOnce
<1>1. MetricsInv => SentOnce
  BY DEF MetricsInv, CallsAreTaken, SentOnce
<1>2. QED BY <1>1, InitMetricsInv, NextMetricsInv, PTL DEF MetricsSpec

\* When a user was told that the source is forgotten nothing that was derived
\* from it is left or ever comes again: what is written is written inside the
\* root lock, where the source was found live, and a clean-up holds that lock
\* from the inventory of the files to the answer.
THEOREM AnsweredIsGone == MetricsSpec => []NoResultOutlivesForget
<1>1. MetricsInv => NoResultOutlivesForget
  BY DEF MetricsInv, NoResultOutlivesForget
<1>2. QED BY <1>1, InitMetricsInv, NextMetricsInv, PTL DEF MetricsSpec

=============================================================================
