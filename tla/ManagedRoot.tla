---------------------------- MODULE ManagedRoot ----------------------------
(***************************************************************************)
(* Mutations, backups, restores and hard forgets of one memory root, in    *)
(* any order, each of which may die or fail at any of its writes.          *)
(***************************************************************************)
EXTENDS HardForget, BackupRestore

CONSTANTS
  Recreate,  \* may a caller create anew what was forgotten?
  MaxCalls,  \* bound: mutations, backups, forgets and restores begun
  MaxFaults  \* bound: calls that die, writes that raise

ASSUME ManagedAssumption ==
  /\ Recreate \in BOOLEAN
  /\ TextMentions \subseteq Ids \X Ids /\ CardMentions \subseteq TextMentions
  /\ Absent \notin Sources \cup Requests \cup {"forgotten", "in_progress"}
  /\ \A log \in SUBSET Entry : log # Absent
  /\ MaxCalls \in Nat /\ MaxFaults \in Nat

VARIABLES calls, faults

all == <<vars, calls, faults>>

Init == ManagedInit /\ calls = 0 /\ faults = 0

Archives == {outside} \cup {root[Archive(z)] : z \in Slots}

MayMutate(id) ==
  Recreate \/ root[Memory(id)] # Absent \/ root[Tombstone(id)] = Absent

\* A call on its way, without faults.
Continue ==
  \/ WriteNext
  \/ Verify \/ DropJournal \/ ForgetReturns
  \/ RestoreReturns

RepeatForget(id, r) == root[Forget(id)] = r /\ StartForget(id, r)

Begin ==
  \/ \E id \in Ids, s \in Sources : MayMutate(id) /\ Mutate(id, s)
  \/ \E id \in Ids, r \in Requests : root[Forget(id)] # r /\ StartForget(id, r)
  \/ \E z \in Slots : Backup(z)
  \/ \E a \in Archives : StartRestore(a)

Other ==
  \/ Continue
  \/ Recover \/ RebuildCatalog
  \/ \E id \in Ids, r \in Requests : RepeatForget(id, r)
  \/ \E z \in Slots : Export(z)

Fault ==
  \/ \E id \in Ids, s \in Sources : MayMutate(id) /\ MutateDies(id, s)
  \/ ForgetFails \/ RestoreFails \/ Crash

Next ==
  \/ calls < MaxCalls /\ Begin /\ calls' = calls + 1 /\ UNCHANGED faults
  \/ Other /\ UNCHANGED <<calls, faults>>
  \/ faults < MaxFaults /\ Fault /\ faults' = faults + 1 /\ UNCHANGED calls

Spec == Init /\ [][Next]_all

\* A process that has started a call goes on, and whoever asked for a forget
\* that has left its journal asks again.
FairSpec ==
  /\ Spec
  /\ WF_all(Continue /\ UNCHANGED <<calls, faults>>)
  /\ \A id \in Ids, r \in Requests :
       SF_all(RepeatForget(id, r) /\ UNCHANGED <<calls, faults>>)

-----------------------------------------------------------------------------
Labels == {"idle", "purging", "entombing", "closing", "undoing",
           "restoring", "reverting"}

TypeOK ==
  /\ DOMAIN root = Files
  /\ \A f \in Files :
       IF f[1] = "zip" THEN root[f] = Absent \/ IsArchive(root[f])
       ELSE root[f] \in Content(f) \cup {Absent}
  /\ outside = Absent \/ IsArchive(outside)
  /\ pc \in Labels
  /\ \A i \in DOMAIN todo : \A w \in todo[i] : w.file \in Files
  /\ job.id \in Ids \cup {Absent} /\ job.done \subseteq Files
  /\ job.clean \in BOOLEAN

-----------------------------------------------------------------------------
(* Properties                                                              *)

\* What was forgotten and not asked for again has no copy of its text in the
\* root: not as a memory, not as the backup of a mutation that a recovery
\* could put back, not in an archive -- whatever was pending when it was
\* forgotten, and whatever is restored, even half, from wherever.
ForgottenTextsAreGone ==
  \A id \in Ids :
    root[Tombstone(id)] = "forgotten" /\ root[Forget(id)] = Absent =>
      /\ root[Memory(id)] = Absent
      /\ \A s \in Sources : root[Undo(s)] # Absent => root[Undo(s)].object # id
      /\ \A z \in Slots : root[Archive(z)] # Absent => root[Archive(z)][Memory(id)] = Absent

\* A forget that raised has put every file back, its journal aside, unless
\* putting one back raised too.
FailedForgetChangesNothing ==
  pc = "undoing" /\ todo = << >> /\ job.clean =>
    \A f \in Files \ {Forget(job.id)} : root[f] = job.before[f]

\* A forget that came to its end took nothing from a memory that does not
\* mention the forgotten one: not its text, log or receipts, not what its own
\* pending mutation needs, not its text in an archive.
OthersAreKept ==
  pc = "closing" =>
    \A b \in Ids \ Names(job.id) :
      /\ root[Memory(b)] = job.before[Memory(b)]
      /\ \A f \in {Events, SourceKeys} : Of(root[f], b) = Of(job.before[f], b)
      /\ \A s \in Sources : \A f \in {Queue(s), Undo(s)} :
           (job.before[f] # Absent /\ job.before[f].object = b) =>
             root[f] = job.before[f]
      /\ \A z \in Slots : root[Archive(z)] # Absent =>
           root[Archive(z)][Memory(b)] = job.before[Archive(z)][Memory(b)]

\* A forget takes all of what it is asked to take and nothing else.
ForgetIsExact == ForgottenTextsAreGone /\ OthersAreKept

\* A restore that came to its end, whatever it found -- a pending mutation,
\* the remains of an earlier restore or forget -- leaves exactly what the
\* archive holds of the memories without tombstone, and nothing pending.
\* (The journal of a forget in the archive suppresses its memory as well.)
RestoreIsWhole ==
  (/\ pc = "restoring" /\ todo = << >>
   /\ \A id \in Ids : job.archive[Forget(id)] = Absent) =>
    LET gone == {id \in Ids : \/ job.before[Tombstone(id)] # Absent
                              \/ job.archive[Tombstone(id)] # Absent}
    IN  /\ \A id \in Ids : root[Memory(id)] =
             IF id \in gone THEN Absent ELSE job.archive[Memory(id)]
        /\ \A f \in {Events, SourceKeys} : Entries(root[f]) =
             {e \in Entries(job.archive[f]) : e.object \notin gone}
        /\ root[Catalog] = CardsOf(root)
        /\ Unfinished(root) = {}
        /\ \A id \in gone : root[Tombstone(id)] # Absent

Calm == (Continue \/ \E id \in Ids, r \in Requests : RepeatForget(id, r))
          /\ UNCHANGED <<calls, faults>>

\* Repeating the request finishes a forget, whatever crash or failure cut it
\* short, once nothing else happens.
ForgetConverges ==
  (<>[][Calm]_all) =>
    \A id \in Ids : root[Forget(id)] # Absent ~>
      /\ root[Forget(id)] = Absent
      /\ root[Memory(id)] = Absent /\ root[Tombstone(id)] = "forgotten"

-----------------------------------------------------------------------------
(* What the documents say and the code does not do                         *)

\* A source that wrote a memory is on record, so that it is not applied a
\* second time.  Archives that a forget has rewritten lack the records of all.
WritersAreOnRecord ==
  pc = "idle" /\ Unfinished(root) = {} /\ (\A id \in Ids : root[Forget(id)] = Absent) =>
    \A id \in Ids : root[Memory(id)] # Absent =>
      \E r \in Entries(root[SourceKeys]) : r.source = root[Memory(id)]
=============================================================================
