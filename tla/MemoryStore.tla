---------------------------- MODULE MemoryStore ----------------------------
(***************************************************************************)
(* The transaction protocol of agc_runtime/store.py.  A mutation of one    *)
(* formal memory touches three files -- the memory's Markdown text, the    *)
(* event log and the source receipts -- and each of them is replaced       *)
(* atomically, one after the other.  A journal and a backup written before *)
(* the first of them let the next holder of the write lock undo a mutation *)
(* that stopped half way.                                                  *)
(*                                                                         *)
(* Every write of a file is a step of its own, so that a process may die   *)
(* (Crash) or get an OSError (Fail) before it.  The root write lock is     *)
(* taken here as what locking.py promises; module FileLock looks inside.   *)
(***************************************************************************)
EXTENDS MemoryRequests, Integers

CONSTANTS
  Procs,            \* processes that call the store
  Txs,              \* transaction ids; every mutation draws a fresh one
  None,             \* no value in a local variable
  Nobody,           \* the write lock is free
  Dead,             \* the write lock's owner has died
  AsyncExceptions,  \* may an exception strike between two statements?
  MaxOrphans        \* bound: backups that lost their mutation

\* How a call ends.
Answers == {"applied", "duplicate_source", "memory_id_exists", "raised"}

ASSUME NullAssumption ==
  /\ Nobody \notin Procs /\ Dead \notin Procs /\ Nobody # Dead
  /\ None \notin Answers
  /\ AsyncExceptions \in BOOLEAN /\ MaxOrphans \in Nat

Event == [id : Txs, object : Ids, action : Ops,
          old : Statuses \cup {Absent}, new : Statuses, source : Sources]
Receipt == [source : Sources, object : Ids, event : Txs]
Journal == [id : Txs, target : Paths, existed : BOOLEAN, source : Sources]

VARIABLES
  file,      \* memories/<kind>/<id>.md
  events,    \* events.jsonl, in the order of its lines
  receipts,  \* the entries of receipts/source-keys.json
  journals,  \* the journals in .runtime/queue
  backups,   \* .runtime/backups/<transaction id>.md
  lock,      \* who holds the root write lock
  pc,        \* the next statement of each process
  req,       \* the call a process is working on
  tx,        \* the journal a process applies, undoes or cleans up
  was,       \* the text of the target that the call has read
  answer     \* how the call will end, once that is decided

disk == <<file, events, receipts, journals, backups>>
local == <<req, tx, was, answer>>
vars == <<disk, lock, pc, local>>

Labels == {"idle", "recover", "check", "backup", "journal", "write", "append",
           "record", "recorded", "restore", "remove_event", "remove_receipt",
           "drop_backup", "drop_journal", "release"}

TypeOK ==
  /\ file \in [Paths -> Text \cup {Absent}]
  /\ events \in Seq(Event)
  /\ receipts \subseteq Receipt
  /\ journals \subseteq Journal
  /\ backups \in [Txs -> Text \cup {Absent}]
  /\ lock \in Procs \cup {Nobody, Dead}
  /\ pc \in [Procs -> Labels]
  /\ req \in [Procs -> Requests \cup {None}]
  /\ tx \in [Procs -> Journal \cup {None}]
  /\ was \in [Procs -> Text \cup {Absent}]
  /\ answer \in [Procs -> Answers \cup {None}]

Init ==
  /\ file = [f \in Paths |-> Absent]
  /\ events = << >>
  /\ receipts = {}
  /\ journals = {}
  /\ backups = [t \in Txs |-> Absent]
  /\ lock = Nobody
  /\ pc = [p \in Procs |-> "idle"]
  /\ req = [p \in Procs |-> None]
  /\ tx = [p \in Procs |-> None]
  /\ was = [p \in Procs |-> Absent]
  /\ answer = [p \in Procs |-> None]

-----------------------------------------------------------------------------
(* What the files say                                                      *)

Recorded(s) == \E r \in receipts : r.source = s

EventExists(t) == \E i \in DOMAIN events : events[i].id = t

\* The test recovery makes to tell a finished mutation from a broken one.
Committed(j) ==
  /\ file[j.target] # Absent
  /\ EventExists(j.id)
  /\ Recorded(j.source)

\* append_event keeps event ids unique, so at most one line goes.
EventsWithout(t) ==
  IF EventExists(t)
  THEN LET i == CHOOSE i \in DOMAIN events : events[i].id = t
       IN  SubSeq(events, 1, i - 1) \o SubSeq(events, i + 1, Len(events))
  ELSE events

\* The transaction ids that some file still mentions; uuid4 avoids them.
InUse ==
       {t \in Txs : backups[t] # Absent \/ EventExists(t)}
  \cup {j.id : j \in journals} \cup {r.event : r \in receipts}

\* What undoing the mutation of j leaves in the memory files.
Restored(j) ==
  IF j.existed
  THEN IF backups[j.id] # Absent
       THEN [file EXCEPT ![j.target] = backups[j.id]]
       ELSE file
  ELSE [file EXCEPT ![j.target] = Absent]

-----------------------------------------------------------------------------
Goto(p, label) == pc' = [pc EXCEPT ![p] = label]

Answer(p, a) == answer' = [answer EXCEPT ![p] = a]

(* A call takes the lock.  While a live process holds it the call raises   *)
(* and changes nothing.                                                    *)
Acquire(p, r) ==
  /\ pc[p] = "idle"
  /\ lock \in {Nobody, Dead}
  /\ lock' = p
  /\ req' = [req EXCEPT ![p] = r]
  /\ Goto(p, "recover")
  /\ UNCHANGED <<disk, tx, was, answer>>

Release(p) ==
  /\ pc[p] = "release"
  /\ lock' = Nobody
  /\ req' = [req EXCEPT ![p] = None]
  /\ tx' = [tx EXCEPT ![p] = None]
  /\ was' = [was EXCEPT ![p] = Absent]
  /\ Answer(p, None)
  /\ Goto(p, "idle")
  /\ UNCHANGED disk

-----------------------------------------------------------------------------
(* Recovery, the first thing every call does under the lock                *)

\* Mutant: whatever has a journal is undone.
UndoJournal(p, j) ==
  /\ pc[p] = "recover"
  /\ j \in journals
  /\ tx' = [tx EXCEPT ![p] = j]
  /\ Goto(p, "restore")
  /\ UNCHANGED <<disk, lock, req, was, answer>>

RecoverJournal(p, j) ==
  /\ pc[p] = "recover"
  /\ j \in journals
  /\ tx' = [tx EXCEPT ![p] = j]
  /\ Goto(p, IF Committed(j) THEN "drop_backup" ELSE "restore")
  /\ UNCHANGED <<disk, lock, req, was, answer>>

\* Mutant: the call goes on with a journal left.
RecoverySkipped(p) ==
  /\ pc[p] = "recover"
  /\ Goto(p, "check")
  /\ UNCHANGED <<disk, lock, local>>

RecoveryDone(p) ==
  /\ pc[p] = "recover"
  /\ journals = {}
  /\ Goto(p, "check")
  /\ UNCHANGED <<disk, lock, local>>

-----------------------------------------------------------------------------
(* The decision: every early return and every exception before the journal *)

AnswerDuplicate(p) ==
  /\ pc[p] = "check"
  /\ Recorded(req[p].source)
  /\ Answer(p, "duplicate_source")
  /\ Goto(p, "release")
  /\ UNCHANGED <<disk, lock, req, tx, was>>

AnswerExists(p) ==
  /\ pc[p] = "check"
  /\ ~Recorded(req[p].source)
  /\ req[p].op = "create"
  /\ file[<<req[p].id, req[p].kind>>] # Absent
  /\ Answer(p, "memory_id_exists")
  /\ Goto(p, "release")
  /\ UNCHANGED <<disk, lock, req, tx, was>>

\* _find_memory_path, the kind check and validate_transition raise.
RaiseInvalid(p) ==
  /\ pc[p] = "check"
  /\ ~Recorded(req[p].source)
  /\ req[p].op # "create"
  /\ \A f \in Paths : ~Allowed(file, req[p], f)
  /\ Answer(p, "raised")
  /\ Goto(p, "release")
  /\ UNCHANGED <<disk, lock, req, tx, was>>

\* Mutant: the source is not looked up first.
BeginAgain(p, f, t) ==
  /\ pc[p] = "check"
  /\ Allowed(file, req[p], f)
  /\ t \in Txs \ InUse
  /\ was' = [was EXCEPT ![p] = file[f]]
  /\ tx' = [tx EXCEPT ![p] = [id |-> t, target |-> f,
                              existed |-> file[f] # Absent,
                              source |-> req[p].source]]
  /\ Goto(p, IF file[f] # Absent THEN "backup" ELSE "journal")
  /\ UNCHANGED <<disk, lock, req, answer>>

Begin(p, f, t) ==
  /\ pc[p] = "check"
  /\ ~Recorded(req[p].source)
  /\ Allowed(file, req[p], f)
  /\ t \in Txs \ InUse
  /\ was' = [was EXCEPT ![p] = file[f]]
  /\ tx' = [tx EXCEPT ![p] = [id |-> t, target |-> f,
                              existed |-> file[f] # Absent,
                              source |-> req[p].source]]
  /\ Goto(p, IF file[f] # Absent THEN "backup" ELSE "journal")
  /\ UNCHANGED <<disk, lock, req, answer>>

-----------------------------------------------------------------------------
(* The mutation                                                            *)

WriteBackup(p) ==
  /\ pc[p] = "backup"
  /\ backups' = [backups EXCEPT ![tx[p].id] = file[tx[p].target]]
  /\ Goto(p, "journal")
  /\ UNCHANGED <<file, events, receipts, journals, lock, local>>

WriteJournal(p) ==
  /\ pc[p] = "journal"
  /\ journals' = journals \cup {tx[p]}
  /\ Goto(p, "write")
  /\ UNCHANGED <<file, events, receipts, backups, lock, local>>

WriteTarget(p) ==
  /\ pc[p] = "write"
  /\ file' = [file EXCEPT ![tx[p].target] = NewText(req[p], was[p])]
  /\ Goto(p, "append")
  /\ UNCHANGED <<events, receipts, journals, backups, lock, local>>

AppendEvent(p) ==
  /\ pc[p] = "append"
  /\ events' =
       IF EventExists(tx[p].id) THEN events
       ELSE Append(events,
              [id |-> tx[p].id, object |-> req[p].id, action |-> req[p].op,
               old |-> OldStatus(was[p]),
               new |-> NewText(req[p], was[p]).status,
               source |-> req[p].source])
  /\ Goto(p, "record")
  /\ UNCHANGED <<file, receipts, journals, backups, lock, local>>

RecordSource(p) ==
  /\ pc[p] = "record"
  /\ receipts' = receipts \cup {[source |-> req[p].source,
                                 object |-> req[p].id, event |-> tx[p].id]}
  /\ Goto(p, "recorded")
  /\ UNCHANGED <<file, events, journals, backups, lock, local>>

\* The try block ends: from here on an exception no longer rolls back.
LeaveTry(p) ==
  /\ pc[p] = "recorded"
  /\ Answer(p, "applied")
  /\ Goto(p, "drop_backup")
  /\ UNCHANGED <<disk, lock, req, tx, was>>

-----------------------------------------------------------------------------
(* Rollback and cleanup, shared by recovery and by a call that failed      *)

RestoreTarget(p) ==
  /\ pc[p] = "restore"
  /\ file' = Restored(tx[p])
  /\ Goto(p, "remove_event")
  /\ UNCHANGED <<events, receipts, journals, backups, lock, local>>

RemoveEvent(p) ==
  /\ pc[p] = "remove_event"
  /\ events' = EventsWithout(tx[p].id)
  /\ Goto(p, "remove_receipt")
  /\ UNCHANGED <<file, receipts, journals, backups, lock, local>>

RemoveReceipt(p) ==
  /\ pc[p] = "remove_receipt"
  /\ receipts' = {r \in receipts : r.source # tx[p].source}
  /\ Goto(p, "drop_backup")
  /\ UNCHANGED <<file, events, journals, backups, lock, local>>

DropBackup(p) ==
  /\ pc[p] = "drop_backup"
  /\ backups' = [backups EXCEPT ![tx[p].id] = Absent]
  /\ Goto(p, "drop_journal")
  /\ UNCHANGED <<file, events, receipts, journals, lock, local>>

\* A call that has its answer returns; recovery goes on to the next journal.
DropJournal(p) ==
  /\ pc[p] = "drop_journal"
  /\ journals' = journals \ {tx[p]}
  /\ Goto(p, IF answer[p] = None THEN "recover" ELSE "release")
  /\ UNCHANGED <<file, events, receipts, backups, lock, local>>

-----------------------------------------------------------------------------
(* Faults                                                                  *)

Working(p) == pc[p] \notin {"idle", "release"}

\* Backups without a journal: nothing removes them.  Bound: no more than
\* MaxOrphans of them, so that Txs never runs out.
Orphans == {t \in Txs : backups[t] # Absent /\ \A j \in journals : j.id # t}
OrphansBounded(p) == pc[p] = "journal" => Cardinality(Orphans) <= MaxOrphans

\* Mutant: the handler cleans up without undoing anything.
FailUndone(p) ==
  /\ Working(p) /\ pc[p] # "recorded"
  /\ OrphansBounded(p)
  /\ Answer(p, "raised")
  /\ Goto(p, IF pc[p] \in {"write", "append", "record"}
             THEN "drop_backup" ELSE "release")
  /\ UNCHANGED <<disk, lock, req, tx, was>>

\* The statement raises before it takes effect: inside the try block the call
\* rolls back, anywhere else the exception leaves the call.
Fail(p) ==
  /\ Working(p) /\ pc[p] # "recorded"
  /\ OrphansBounded(p)
  /\ Answer(p, "raised")
  /\ Goto(p, IF pc[p] \in {"write", "append", "record"}
             THEN "restore" ELSE "release")
  /\ UNCHANGED <<disk, lock, req, tx, was>>

\* KeyboardInterrupt between the last write and the end of the try block.
Interrupt(p) ==
  /\ AsyncExceptions
  /\ pc[p] = "recorded"
  /\ Answer(p, "raised")
  /\ Goto(p, "restore")
  /\ UNCHANGED <<disk, lock, req, tx, was>>

\* The process dies: its lock file and everything on the disk stay.
Crash(p) ==
  /\ pc[p] # "idle"
  /\ OrphansBounded(p)
  /\ lock' = Dead
  /\ req' = [req EXCEPT ![p] = None]
  /\ tx' = [tx EXCEPT ![p] = None]
  /\ was' = [was EXCEPT ![p] = Absent]
  /\ Answer(p, None)
  /\ Goto(p, "idle")
  /\ UNCHANGED disk

-----------------------------------------------------------------------------
Step(p) ==
  \/ \E j \in journals : RecoverJournal(p, j)
  \/ RecoveryDone(p)
  \/ AnswerDuplicate(p) \/ AnswerExists(p) \/ RaiseInvalid(p)
  \/ \E f \in Paths, t \in Txs : Begin(p, f, t)
  \/ WriteBackup(p) \/ WriteJournal(p)
  \/ WriteTarget(p) \/ AppendEvent(p) \/ RecordSource(p) \/ LeaveTry(p)
  \/ RestoreTarget(p) \/ RemoveEvent(p) \/ RemoveReceipt(p)
  \/ DropBackup(p) \/ DropJournal(p)
  \/ Release(p)

Fault(p) == Fail(p) \/ Interrupt(p) \/ Crash(p)

Next ==
  \E p \in Procs : \/ \E r \in Requests : Acquire(p, r)
                   \/ Step(p)
                   \/ Fault(p)

Spec == Init /\ [][Next]_vars

-----------------------------------------------------------------------------
(* What the next holder of the lock makes of the files                     *)

Doomed == {j \in journals : ~Committed(j)}

SettledFile ==
  IF Doomed = {} THEN file ELSE Restored(CHOOSE j \in Doomed : TRUE)

SettledEvents ==
  IF Doomed = {} THEN events ELSE EventsWithout((CHOOSE j \in Doomed : TRUE).id)

Logged(e) == [object |-> e.object, action |-> e.action, old |-> e.old,
              new |-> e.new, source |-> e.source]

Atomic == INSTANCE AtomicStore WITH
  mem <- SettledFile,
  log <- [i \in DOMAIN SettledEvents |-> Logged(SettledEvents[i])],
  record <- {[source |-> r.source, object |-> r.object] : r \in receipts}

-----------------------------------------------------------------------------
(* Properties                                                              *)

\* Whatever dies and wherever, the files stand for a store that changes in
\* single steps and applies no source twice: a mutation takes effect when its
\* receipt is written, and not at all if it does not get that far.  So the
\* receipts (the idempotency record), the event log (the audit record) and the
\* memories themselves always tell of the same mutations.
ImplementsAtomicStore == Atomic!Spec

\* Recovery runs before a new journal is written, so at most one mutation is
\* ever pending; rollback, which removes receipts by source key and not by
\* event id, relies on it.
OnePending == \A i, j \in journals : i = j

\* Nothing takes a receipt away again: a mutation that once counted as done
\* is never rolled back, neither by its own call nor by a later recovery.
CommitIsFinal == [][receipts \subseteq receipts']_vars

\* How a call ends agrees with the files.  "applied" and "duplicate_source"
\* promise that the source is on record; an exception leaves the mutation
\* either wholly done, or wholly absent, or to be settled by a journal.
AnswersHold ==
  \A p \in Procs : pc[p] = "release" =>
    /\ answer[p] \in {"applied", "duplicate_source"} => Recorded(req[p].source)
    /\ answer[p] = "applied" => journals = {}
    /\ answer[p] = "raised" /\ journals = {} =>
         \A f \in Paths : file[f] # Absent => Recorded(file[f].from)

=============================================================================
