------------------------------ MODULE Migration ------------------------------
(***************************************************************************)
(* agc_runtime/migration_service.py, migration_manifest.py and             *)
(* _forget_migration.py: v1 files are migrated into an empty root, and a   *)
(* memory that came from them is forgotten in the registered file, in its  *)
(* snapshot, in the manifest and in the root.                              *)
(*                                                                         *)
(* One migration id.  Of a text only the memories whose terms are in it    *)
(* matter, and whether its user has edited it; that is its hash, too.      *)
(* What is under the root write lock is one action.  It makes a list of    *)
(* writes, and it may die after any of them, or one may raise: a migration *)
(* then leaves what there is, a forget puts it back in reverse order.      *)
(* HardForget has the rest of the purge, other requests for the same id    *)
(* and texts of memories that mention each other; MemoryStore the writes   *)
(* of a creation.                                                          *)
(***************************************************************************)
EXTENDS Naturals, FiniteSets, SequencesExt

CONSTANTS
  Memories,       \* the memories of the migration request
  LegacySources,  \* its sources with disposition snapshot
  SourceOf,       \* the source_path of a memory
  TextOf,         \* the memories whose verification terms are in a source
  Migrators,      \* processes that send the request
  Missing,        \* no file
  MaxFaults,      \* bound: deaths and exceptions
  MaxTouches      \* bound: what the user does to a source

ASSUME MigrationAssumption ==
  /\ IsFiniteSet(Memories) /\ IsFiniteSet(LegacySources)
  /\ SourceOf \in [Memories -> LegacySources]
  /\ TextOf \in [LegacySources -> SUBSET Memories]
  /\ \A m \in Memories : m \in TextOf[SourceOf[m]]
  /\ MaxFaults \in Nat /\ MaxTouches \in Nat

VARIABLES
  tree,       \* the files, by name
  job,        \* of each migrator: the sources as it has validated them
  faults,     \* how many processes have died or failed
  touches,    \* how often the user has touched a source
  disturbed,  \* history: a source was touched, or a rollback was not completed
  forgotten   \* history: the memories whose forget was accepted

mvars == <<tree, job, faults, touches, disturbed, forgotten>>

Legacy(s) == <<"legacy", s>>          \* below the source root
Snapshot(s) == <<"snapshot", s>>      \* .runtime/migrations/<id>/snapshot
Manifest == <<"manifest">>            \* .runtime/migrations/<id>/manifest.json
Memory(m) == <<"memory", m>>
Other == <<"other">>                  \* a memory of another source
Receipts == <<"receipts">>            \* .runtime/receipts/source-keys.json
Queue == <<"queue">>                  \* the journal of a pending creation
ForgetJournal(m) == <<"journal", m>>  \* .runtime/tombstones/in-progress
Tombstone(m) == <<"tombstone", m>>

PerSource(Name(_)) == {Name(s) : s \in LegacySources}
PerMemory(Name(_)) == {Name(m) : m \in Memories}

Files == PerSource(Legacy) \cup PerSource(Snapshot) \cup {Manifest, Other, Receipts, Queue}
           \cup PerMemory(Memory) \cup PerMemory(ForgetJournal) \cup PerMemory(Tombstone)

Hashes == [text : SUBSET Memories, edited : BOOLEAN]
Entries == [sha256 : Hashes, current : Hashes, pending : Hashes \cup {Missing}, inode : Nat]

Hash(file) == [text |-> file.text, edited |-> file.edited]

\* validate_migration_manifest.
IsManifest(v) ==
  /\ v.status \in {"in_progress", "completed"}
  /\ DOMAIN v.sources \subseteq LegacySources
  /\ \A s \in DOMAIN v.sources : v.sources[s] \in Entries
  /\ v.memories \subseteq Memories
  /\ \A m \in v.memories : SourceOf[m] \in DOMAIN v.sources
  /\ v.markers \in [Memories -> {Missing, "in_progress", "completed"}]

MigrationTypeOK ==
  /\ DOMAIN tree = Files
  /\ \A s \in LegacySources : /\ Hash(tree[Legacy(s)]) \in Hashes
                        /\ tree[Legacy(s)].inode \in Nat
                        /\ tree[Snapshot(s)] \in SUBSET Memories \cup {Missing}
  /\ tree[Manifest] # Missing => IsManifest(tree[Manifest])
  /\ tree[Receipts] \subseteq Memories
  /\ tree[Queue] \in Memories \cup {Missing}
  /\ \A m \in Memories : /\ tree[Memory(m)] \in {Missing, "text"}
                         /\ tree[ForgetJournal(m)] \in {Missing, "in_progress"}
                         /\ tree[Tombstone(m)] \in {Missing, "forgotten"}
  /\ faults \in 0 .. MaxFaults /\ touches \in 0 .. MaxTouches
  /\ forgotten \subseteq Memories

MigrationInit ==
  /\ tree = [f \in Files |->
       IF \E s \in LegacySources : f = Legacy(s)
       THEN [text |-> TextOf[f[2]], edited |-> FALSE, inode |-> 0]
       ELSE IF f = Receipts THEN {} ELSE Missing]
  /\ job = [p \in Migrators |-> Missing]
  /\ faults = 0 /\ touches = 0
  /\ disturbed = FALSE
  /\ forgotten = {}

-----------------------------------------------------------------------------
(* Lists of writes                                                         *)

\* A write replaces the file: a source is another file then.
Made(d, w) ==
  [d EXCEPT ![w.file] = IF w.file[1] = "legacy" THEN [w.value EXCEPT !.inode = @ + 1]
                        ELSE w.value]

After(d, writes) == FoldLeft(Made, d, writes)

Write(file, value) == <<[file |-> file, value |-> value]>>

Then(d, writes, Next(_)) == writes \o Next(After(d, writes))

FirstOf(writes, n) == SubSeq(writes, 1, n)

-----------------------------------------------------------------------------
(* The migration                                                           *)

Existing(d) == {m \in Memories : d[Memory(m)] # Missing}

IsCompleted(d) == d[Manifest] # Missing /\ d[Manifest].status = "completed"

\* _ensure_target_allows_migration.
TargetAllows(d) ==
  /\ d[Other] = Missing
  /\ Existing(d) \subseteq d[Receipts]

\* _migration_artifacts_exist.
HasArtifacts(d) ==
  \/ d[Receipts] # {}
  \/ \E s \in LegacySources : d[Snapshot(s)] # Missing

\* request_digest: the same request, about the same sources.
IsSameRequest(manifest, seen) == manifest.request = [s \in LegacySources |-> Hash(seen[s])]

\* _migrate_validated writes; a completed migration is answered from its manifest.
MayMigrate(d, seen) ==
  IF d[Manifest] = Missing THEN ~HasArtifacts(d) /\ TargetAllows(d)
  ELSE /\ IsSameRequest(d[Manifest], seen)
       /\ d[Manifest].status = "in_progress"
       /\ TargetAllows(d)

\* _manifest_value.
ManifestOf(seen, status) ==
  [request |-> [s \in LegacySources |-> Hash(seen[s])],
   status |-> status,
   sources |-> [s \in LegacySources |-> [sha256 |-> Hash(seen[s]), current |-> Hash(seen[s]),
                                   pending |-> Missing, inode |-> seen[s].inode]],
   memories |-> Memories,
   markers |-> [m \in Memories |-> Missing]]

\* _recover_pending_transactions, and the handler of a creation that raised.
Recover(d) ==
  IF d[Queue] = Missing THEN << >>
  ELSE (IF d[Queue] \in d[Receipts] THEN << >> ELSE Write(Memory(d[Queue]), Missing))
       \o Write(Queue, Missing)

\* create_memory; a source that is on record is a duplicate.
Create(d, m) ==
  Then(d, Recover(d), LAMBDA e :
    IF m \in e[Receipts] THEN << >>
    ELSE Write(Queue, m) \o Write(Memory(m), "text")
           \o Write(Receipts, e[Receipts] \cup {m}) \o Write(Queue, Missing))

\* Mutant: the manifest is written when all is done.
MigrationWritesLate(d, seen) ==
  FoldLeft(LAMBDA w, s : w \o Write(Snapshot(s), seen[s].text), << >>, SetToSeq(LegacySources))
    \o FoldLeft(LAMBDA w, m : w \o Create(After(d, w), m), << >>, SetToSeq(Memories))
    \o Write(Manifest, ManifestOf(seen, "completed"))

MigrationWrites(d, seen) ==
  LET snapshots == FoldLeft(LAMBDA w, s : w \o Write(Snapshot(s), seen[s].text),
                            << >>, SetToSeq(LegacySources))
  IN  Write(Manifest, ManifestOf(seen, "in_progress"))
        \o snapshots
        \o FoldLeft(LAMBDA w, m : w \o Create(After(d, w), m), << >>, SetToSeq(Memories))
        \o Write(Manifest, ManifestOf(seen, "completed"))

\* LegacySources are validated, and the target looked at, without the lock.
Validate(p) ==
  LET seen == [s \in LegacySources |-> tree[Legacy(s)]]
  IN  /\ job[p] = Missing
      /\ MayMigrate(tree, seen)
      /\ job' = [job EXCEPT ![p] = seen]
      /\ UNCHANGED <<tree, faults, touches, disturbed, forgotten>>

\* An exception in a creation puts back what that creation wrote.
Migrate(p) ==
  LET writes == MigrationWrites(tree, job[p])
  IN  /\ job[p] # Missing
      /\ job' = [job EXCEPT ![p] = Missing]
      /\ IF ~MayMigrate(tree, job[p]) THEN UNCHANGED <<tree, faults, forgotten>>
         ELSE \/ /\ tree' = After(tree, writes)
                 /\ forgotten' = forgotten \ Memories
                 /\ UNCHANGED faults
              \/ \E n \in 0 .. Len(writes) - 1 :
                   LET partial == After(tree, FirstOf(writes, n))
                   IN  /\ faults < MaxFaults
                       /\ faults' = faults + 1
                       /\ tree' \in {partial, After(partial, Recover(partial))}
                       /\ UNCHANGED forgotten
      /\ UNCHANGED <<touches, disturbed>>

-----------------------------------------------------------------------------
(* What a forget of m is allowed                                           *)

IsMarked(d, m) == d[ForgetJournal(m)] # Missing /\ d[Manifest].markers[m] # Missing

\* matched_manifests.
IsMigrated(d, m) == d[Manifest] # Missing /\ (m \in d[Manifest].memories \/ IsMarked(d, m))

\* validate_completed_manifest_evidence.
HasEvidence(d) ==
  /\ d[Manifest].status = "completed"
  /\ \A m \in d[Manifest].memories : m \in d[Receipts] /\ d[Memory(m)] # Missing

\* The registered source of m, while the manifest lists m.
ToRewrite(d, m) == {SourceOf[k] : k \in {m} \cap d[Manifest].memories}

IsShared(manifest, m, s) == \E k \in manifest.memories \ {m} : SourceOf[k] = s

\* source_operations raises nothing: the source is the registered file with
\* its registered text, or what an interrupted forget has made of it.
SourceIsUsable(d, m, s) ==
  LET file == d[Legacy(s)]
      entry == d[Manifest].sources[s]
      retry == d[ForgetJournal(m)] # Missing
  IN  /\ IF Hash(file) = entry.current THEN file.inode = entry.inode
         ELSE retry /\ Hash(file) = entry.pending /\ m \notin file.text
      /\ \/ d[Snapshot(s)] # Missing
         \/ retry /\ ~IsShared(d[Manifest], m, s)

\* A forget of m makes a plan.
MayForget(d, m) ==
  /\ d[Memory(m)] # Missing \/ d[ForgetJournal(m)] # Missing
  /\ IsMigrated(d, m) =>
       /\ IsMarked(d, m) \/ HasEvidence(d)
       /\ \A s \in ToRewrite(d, m) : SourceIsUsable(d, m, s)

-----------------------------------------------------------------------------
(* The writes of a forget                                                  *)

Cut(file, m) == [file EXCEPT !.text = @ \ {m}]

\* manifest_with_marker, with the hashes that the sources will have.
Marked(d, m) ==
  LET mark == [d[Manifest] EXCEPT !.markers[m] = IF @ = "completed" THEN @ ELSE "in_progress"]
      cut == {s \in ToRewrite(d, m) : \/ m \in d[Legacy(s)].text
                                      \/ Hash(d[Legacy(s)]) # d[Manifest].sources[s].current}
  IN  [mark EXCEPT !.sources = [s \in DOMAIN @ |->
         IF s \in cut THEN [@[s] EXCEPT !.pending = Hash(Cut(d[Legacy(s)], m))] ELSE @[s]]]

LegacyWrites(d, m) ==
  FoldLeft(LAMBDA w, s : w \o IF m \in d[Legacy(s)].text
                              THEN Write(Legacy(s), Cut(d[Legacy(s)], m)) ELSE << >>,
           << >>, SetToSeq(ToRewrite(d, m)))

\* Mutant: a snapshot that other memories still need stays as it is.
SnapshotWritesUnshared(d, m) ==
  FoldLeft(LAMBDA w, s : w \o IF d[Snapshot(s)] = Missing \/ IsShared(d[Manifest], m, s)
                              THEN << >> ELSE Write(Snapshot(s), Missing),
           << >>, SetToSeq(ToRewrite(d, m)))

SnapshotWrites(d, m) ==
  FoldLeft(LAMBDA w, s : w \o IF d[Snapshot(s)] = Missing THEN << >>
                              ELSE IF IsShared(d[Manifest], m, s)
                              THEN Write(Snapshot(s), d[Snapshot(s)] \ {m})
                              ELSE Write(Snapshot(s), Missing),
           << >>, SetToSeq(ToRewrite(d, m)))

\* _refresh_source_state.
Refreshed(entry, file) ==
  [entry EXCEPT !.current = Hash(file), !.pending = Missing, !.inode = file.inode]

\* manifest_without_memory: made from the marked manifest and, when it is
\* written, from the source as it then is.
ManifestWithout(d, marked, m) ==
  LET kept == {s \in DOMAIN marked.sources :
                 m \in marked.memories /\ s = SourceOf[m] => IsShared(marked, m, s)}
      cut == {SourceOf[k] : k \in {m} \cap marked.memories}
  IN  [marked EXCEPT
         !.memories = @ \ {m},
         !.markers[m] = "completed",
         !.sources = [s \in kept |->
            IF s \in cut THEN Refreshed(@[s], d[Legacy(s)]) ELSE @[s]]]

\* The operations on what was migrated, in the order of their categories.
MigrationPurge(d, m) ==
  IF ~IsMigrated(d, m) THEN << >>
  ELSE Then(d, Write(Manifest, Marked(d, m)) \o LegacyWrites(d, m) \o SnapshotWrites(d, m),
         LAMBDA e : Write(Manifest, ManifestWithout(e, e[Manifest], m)))

\* The operations of the plan.
ForgetWrites(d, m) ==
  MigrationPurge(d, m)
    \o Write(Receipts, d[Receipts] \ {m})
    \o (IF d[Memory(m)] = Missing THEN << >> ELSE Write(Memory(m), Missing))
    \o Write(Tombstone(m), "forgotten")

\* Before the operations and after them, outside of what is put back.
JournalWrites(d, m) ==
  IF d[ForgetJournal(m)] # Missing THEN << >> ELSE Write(ForgetJournal(m), "in_progress")

-----------------------------------------------------------------------------
(* The call                                                                *)

\* _rollback_forget_operations: what was there before goes back, last write
\* first.
UndoWrites(d, writes) ==
  [i \in 1 .. Len(writes) |->
     LET file == Reverse(writes)[i].file IN [file |-> file, value |-> d[file]]]

\* rollback_reconciled_manifest: a source that is back has another inode.
Reconciled(d, marked) ==
  [d[Manifest] EXCEPT !.sources = [s \in DOMAIN @ |->
     IF /\ s \in DOMAIN marked.sources /\ marked.sources[s].pending # Missing
        /\ Hash(d[Legacy(s)]) = @[s].current
     THEN Refreshed(@[s], d[Legacy(s)]) ELSE @[s]]]

ReconcileWrites(d, marked) ==
  IF marked = Missing \/ Reconciled(d, marked) = d[Manifest] THEN << >>
  ELSE Write(Manifest, Reconciled(d, marked))

Forget(m) ==
  LET journal == JournalWrites(tree, m)
      begun == After(tree, journal)
      writes == ForgetWrites(begun, m)
      marked == IF IsMigrated(begun, m) THEN Marked(begun, m) ELSE Missing
      done == After(begun, writes)

      Succeeds ==
        /\ tree' = After(done, Write(ForgetJournal(m), Missing))
        /\ forgotten' = forgotten \cup {m}
        /\ UNCHANGED <<faults, disturbed>>

      \* The process dies, or the journal cannot be written or removed.
      Stops ==
        /\ tree' \in {tree, begun} \cup {After(begun, FirstOf(writes, n)) : n \in 1 .. Len(writes)}
        /\ faults' = faults + 1
        /\ UNCHANGED <<disturbed, forgotten>>

      \* The write after the n-th raises, or the verification does, and the
      \* rollback does all it has to.
      Fails ==
        \E n \in 0 .. Len(writes) - 1 :
          LET restored == After(After(begun, FirstOf(writes, n)),
                                UndoWrites(begun, FirstOf(writes, n)))
          IN  /\ tree' = After(restored, ReconcileWrites(restored, marked))
              /\ faults' = faults + 1
              /\ UNCHANGED <<disturbed, forgotten>>

      \* Some restores raise, or the process dies in the rollback: not all is put
      \* back, and no manifest is reconciled.
      FailsTwice ==
        \E n \in 1 .. Len(writes) - 1 :
          LET failed == After(begun, FirstOf(writes, n))
              undo == UndoWrites(begun, FirstOf(writes, n))
              without(lost) ==
                FlattenSeq([i \in 1 .. n |-> IF i \in lost THEN << >> ELSE <<undo[i]>>])
          IN  /\ disturbed' = TRUE
              /\ \/ /\ faults' = faults + 2 /\ faults' <= MaxFaults
                    /\ \E k \in 0 .. n : tree' = After(failed, FirstOf(undo, k))
                 \/ \E lost \in SUBSET (1 .. n) \ {{}} :
                      /\ faults' = faults + 1 + Cardinality(lost) /\ faults' <= MaxFaults
                      /\ tree' = After(failed, without(lost))
              /\ UNCHANGED forgotten
  IN  /\ MayForget(tree, m)
      /\ Succeeds \/ (faults < MaxFaults /\ (Stops \/ Fails \/ FailsTwice))
      /\ UNCHANGED <<job, touches>>

-----------------------------------------------------------------------------
(* Others                                                                  *)

\* The user edits a source, in place or not, or replaces it by a copy.
Touch(s) ==
  /\ touches < MaxTouches
  /\ touches' = touches + 1
  /\ disturbed' = TRUE
  /\ \E edits, replaces \in BOOLEAN :
       /\ edits \/ replaces
       /\ tree' = [tree EXCEPT ![Legacy(s)].edited = @ \/ edits,
                               ![Legacy(s)].inode = IF replaces THEN @ + 1 ELSE @]
  /\ UNCHANGED <<job, faults, forgotten>>

\* Another call of the memory store: it recovers, whatever becomes of it.  A
\* memory it creates matters, and is created, until the migration is completed.
OtherCall ==
  /\ ~IsCompleted(tree)
  /\ \E creates \in BOOLEAN :
       tree' = After(tree, Recover(tree) \o IF creates THEN Write(Other, "text") ELSE << >>)
  /\ UNCHANGED <<job, faults, touches, disturbed, forgotten>>

MigrationNext ==
  \/ \E p \in Migrators : Validate(p) \/ Migrate(p)
  \/ \E m \in Memories : Forget(m)
  \/ \E s \in LegacySources : Touch(s)
  \/ OtherCall

MigrationSpec == MigrationInit /\ [][MigrationNext]_mvars

-----------------------------------------------------------------------------
(* Properties                                                              *)

\* After a forget was accepted nothing that was registered for the memory
\* holds its terms any more, and no later call brings them back: not a second
\* migration that has validated its sources before, not the rollback of
\* another memory's forget, not a manifest that was made from an older one.
ForgottenIsGone ==
  \A m \in forgotten :
    /\ m \notin tree[Legacy(SourceOf[m])].text
    /\ tree[Snapshot(SourceOf[m])] # Missing => m \notin tree[Snapshot(SourceOf[m])]
    /\ tree[Memory(m)] = Missing /\ m \notin tree[Receipts]
    /\ m \notin tree[Manifest].memories

\* As long as the user leaves the sources alone and no rollback was cut short,
\* forgetting never gets stuck: if forgets were interrupted or have failed,
\* one of them can be repeated; otherwise every memory of a completed
\* migration can be forgotten.
ForgetIsPossible ==
  LET begun == {m \in Memories : tree[ForgetJournal(m)] # Missing}
  IN  ~disturbed =>
        IF begun # {} THEN \E m \in begun : MayForget(tree, m)
        ELSE IsCompleted(tree) =>
               \A m \in tree[Manifest].memories : MayForget(tree, m)

\* A migration that has died or failed can be repeated, unless its user has
\* touched a source or somebody has meanwhile created another memory; or it
\* died in the midst of a creation, that no call of the store has recovered.
MigrationResumes ==
  ~IsCompleted(tree) =>
    \/ disturbed \/ tree[Other] # Missing \/ tree[Queue] # Missing
    \/ MayMigrate(tree, [s \in LegacySources |-> tree[Legacy(s)]])

\* Neither is stuck, whatever was interrupted: the one or the other has a
\* call that can be made again.
NothingIsStuck == ForgetIsPossible /\ MigrationResumes

=============================================================================
