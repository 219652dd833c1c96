---------------------------- MODULE ManagedFiles ----------------------------
(***************************************************************************)
(* The memory root as agc_runtime/forget_transaction.py, admin_service.py  *)
(* and managed_backup.py see it: a directory of files, each replaced or    *)
(* removed atomically, that a call under the root write lock works through *)
(* in the order of their paths.                                            *)
(*                                                                         *)
(* All calls that change files hold that lock, so there is one call at a   *)
(* time; it leaves in todo what it will still write, and a death forgets   *)
(* that.  A mutation of the memory store, whose steps MemoryStore follows  *)
(* one by one, is a single action here that may stop after any of its      *)
(* writes; rollbacks and recoveries that die half way are left to it.      *)
(***************************************************************************)
EXTENDS Naturals, SequencesExt

CONSTANTS
  Ids,       \* memory ids; the kind is left out
  Sources,   \* source keys; a mutation's transaction id is named by its source
  Slots,     \* archives agc-backup-<digest>.zip in .runtime/backups
  Requests,  \* digests of forget requests: scope, terms, authorization
  Absent     \* no file

Memory(id) == <<"memory", id>>        \* memories/<kind>/<id>.md
Events == <<"events">>                \* events/events.jsonl
SourceKeys == <<"receipts">>          \* .runtime/receipts/source-keys.json
Catalog == <<"catalog">>              \* catalog.json, and catalog.md after it
Queue(s) == <<"queue", s>>            \* .runtime/queue/<transaction>.json
Undo(s) == <<"backup", s>>            \* .runtime/backups/<transaction>.md
Archive(z) == <<"zip", z>>
Tombstone(id) == <<"tombstone", id>>  \* .runtime/tombstones/<digest>.json
Forget(id) == <<"forget", id>>        \* .runtime/tombstones/in-progress/...

Files ==
  {Events, SourceKeys, Catalog}
    \cup {Memory(id) : id \in Ids} \cup {Tombstone(id) : id \in Ids}
    \cup {Forget(id) : id \in Ids}
    \cup {Queue(s) : s \in Sources} \cup {Undo(s) : s \in Sources}
    \cup {Archive(z) : z \in Slots}

Entry == [object : Ids, source : Sources]
Cards == [Ids -> Sources \cup {Absent}]
Pending == [object : Ids, source : Sources, existed : BOOLEAN]

\* What a file may hold; of a text, the source whose mutation wrote it.
Content(f) ==
  CASE f[1] = "memory" -> Sources
    [] f[1] \in {"events", "receipts"} -> SUBSET Entry
    [] f[1] = "catalog" -> Cards
    [] f[1] = "queue" -> Pending
    [] f[1] = "backup" -> Entry
    [] f[1] = "tombstone" -> {"forgotten", "in_progress"}
    [] f[1] = "forget" -> Requests

\* managed_backup.backup_files: what goes into an archive.
Archived == {f \in Files : f[1] \notin {"queue", "backup", "zip"}}

IsArchive(a) ==
  /\ DOMAIN a = Archived
  /\ \A f \in Archived : a[f] \in Content(f) \cup {Absent}

VARIABLES
  root,     \* the files of the memory root
  outside,  \* an archive the user has copied elsewhere
  pc,       \* what the call under the lock is doing
  todo,     \* the writes it will still make, in batches
  job       \* what it remembers

vars == <<root, outside, pc, todo, job>>

NoJob == [id |-> Absent, archive |-> Absent, before |-> Absent, done |-> {},
          clean |-> TRUE]

ManagedInit ==
  /\ root = [f \in Files |-> Absent]
  /\ outside = Absent
  /\ pc = "idle"
  /\ todo = << >>
  /\ job = NoJob

-----------------------------------------------------------------------------
(* Reading                                                                 *)

\* A missing log or registry reads as an empty one.
Entries(value) == IF value = Absent THEN {} ELSE value

\* build_catalog.
CardsOf(files) == [id \in Ids |-> files[Memory(id)]]

\* The writes, grouped by directory, in the order of the paths: two files that
\* differ in these directories only are written in this order.
Group(writes) == IF writes = {} THEN << >> ELSE <<writes>>

Batches(writes) ==
  LET In(directories) == Group({w \in writes : w.file[1] \in directories})
  IN  In({"backup", "zip"}) \o In({"queue"}) \o In({"receipts"}) \o In({"tombstone"})
        \o In({"forget"}) \o In({"catalog"}) \o In({"events"}) \o In({"memory"})

Write(f, value) == [file |-> f, value |-> value]

-----------------------------------------------------------------------------
(* A mutation of the memory store                                          *)

\* MemoryStore shows that never more than one is pending.
Unfinished(files) ==
  {files[Queue(s)] : s \in {s \in Sources : files[Queue(s)] # Absent}}

Committed(files, j) ==
  /\ files[Memory(j.object)] # Absent
  /\ [object |-> j.object, source |-> j.source] \in Entries(files[Events])
  /\ \E r \in Entries(files[SourceKeys]) : r.source = j.source

Without(value, s) ==
  IF value = Absent THEN Absent ELSE {e \in value : e.source # s}

RolledBack(files, j) ==
  [files EXCEPT
     ![Memory(j.object)] = IF ~j.existed THEN Absent
                           ELSE IF files[Undo(j.source)] = Absent THEN @
                           ELSE files[Undo(j.source)].source,
     ![Events] = Without(@, j.source),
     ![SourceKeys] = Without(@, j.source)]

\* _recover_pending_transactions.
Recovered(files) ==
  IF Unfinished(files) = {} THEN files
  ELSE LET j == CHOOSE j \in Unfinished(files) : TRUE
       IN  [(IF Committed(files, j) THEN files ELSE RolledBack(files, j))
              EXCEPT ![Undo(j.source)] = Absent, ![Queue(j.source)] = Absent]

\* _apply_mutation: create the memory or write it anew.
MutationWrites(files, id, s) ==
  LET old == files[Memory(id)]
      entry == [object |-> id, source |-> s]
  IN  (IF old = Absent THEN << >>
       ELSE <<Write(Undo(s), [object |-> id, source |-> old])>>)
        \o <<Write(Queue(s), [object |-> id, source |-> s,
                              existed |-> old # Absent]),
             Write(Memory(id), s),
             Write(Events, Entries(files[Events]) \cup {entry}),
             Write(SourceKeys, Entries(files[SourceKeys]) \cup {entry}),
             Write(Undo(s), Absent),
             Write(Queue(s), Absent)>>

\* What a list of writes makes of the files.
Written(files, writes) ==
  [f \in Files |->
     LET hits == {i \in DOMAIN writes : writes[i].file = f}
     IN  IF hits = {} THEN files[f] ELSE writes[Max(hits)].value]

\* A call recovers, then makes the first n writes of its mutation.
MutateUpTo(id, s, n) ==
  LET files == Recovered(root)
  IN  /\ pc = "idle"
      /\ \A e \in Entries(files[SourceKeys]) : e.source # s
      /\ root' = Written(files, SubSeq(MutationWrites(files, id, s), 1, n))
      /\ UNCHANGED <<outside, pc, todo, job>>

MutationLength(id, s) == Len(MutationWrites(Recovered(root), id, s))

Mutate(id, s) == MutateUpTo(id, s, MutationLength(id, s))

\* It dies after some of them.
MutateDies(id, s) == \E n \in 1 .. MutationLength(id, s) - 1 : MutateUpTo(id, s, n)

\* Any call of the store that changes nothing itself recovers all the same.
Recover ==
  /\ pc = "idle"
  /\ Unfinished(root) # {}
  /\ root' = Recovered(root)
  /\ UNCHANGED <<outside, pc, todo, job>>

\* rebuild_catalog, in a critical section of its own after a mutation or on
\* demand; it recovers nothing.
RebuildCatalog ==
  /\ pc = "idle"
  /\ root' = [root EXCEPT ![Catalog] = CardsOf(root)]
  /\ UNCHANGED <<outside, pc, todo, job>>

-----------------------------------------------------------------------------
(* The call under the lock                                                 *)

\* One of the next writes, whichever name comes first.
WriteNext ==
  /\ todo # << >>
  /\ \E w \in Head(todo) :
       /\ root' = [root EXCEPT ![w.file] = w.value]
       /\ todo' = IF Head(todo) = {w} THEN Tail(todo)
                  ELSE <<Head(todo) \ {w}>> \o Tail(todo)
       /\ job' = IF pc \in {"purging", "entombing"}
                   THEN [job EXCEPT !.done = @ \cup {w.file}] ELSE job
  /\ UNCHANGED <<outside, pc>>

Return ==
  /\ pc' = "idle" /\ todo' = << >> /\ job' = NoJob
  /\ UNCHANGED <<root, outside>>

\* The process dies.
Crash == pc # "idle" /\ Return

=============================================================================
