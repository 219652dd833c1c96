----------------------- MODULE CallsAndReviewsProofs -----------------------
(***************************************************************************)
(* What holds of MemoryStore for every set of processes, ids, kinds,       *)
(* sources and transaction ids, and of CaptureReviews for every set of     *)
(* observations, whatever the times they were captured at, the limits and  *)
(* the number of tasks: the two parts that MCCallsAndReviews checks.       *)
(***************************************************************************)
EXTENDS MemoryStore, CaptureReviews, FiniteSetTheorems, SequenceTheorems, TLAPS

-----------------------------------------------------------------------------
(* The memory store                                                        *)

(***************************************************************************)
(* The inductive invariant, one named part per fact.                       *)
(***************************************************************************)

\* The statements at which a call of its own, not yet undone, is under way.
Mutating == {"backup", "journal", "write", "append", "record", "recorded"}
\* The statements that put a mutation back or clean up after it.
Settling == {"restore", "remove_event", "remove_receipt", "drop_backup",
             "drop_journal"}

\* Only the owner of the lock is inside a call.
LockOK == \A p \in Procs : pc[p] # "idle" => lock = p

\* The local variables are set where a statement reads them.
LocalOK == \A p \in Procs :
  /\ pc[p] # "idle" => req[p] \in Requests
  /\ pc[p] \in Mutating \cup Settling => tx[p] \in Journal
  /\ pc[p] \in Mutating =>
       /\ tx[p].source = req[p].source
       /\ req[p].op # "create" => was[p] \in Text
       /\ pc[p] = "backup" => file[tx[p].target] \in Text

\* A journal on disk is the one its call is working on; none is left when a
\* call decides what to do.
PendingOK ==
  /\ OnePending
  /\ \A p \in Procs :
       /\ pc[p] \in {"check", "backup", "journal"} => journals = {}
       /\ pc[p] \in {"write", "append", "record", "recorded"} \cup Settling =>
            journals = {tx[p]}

StoreInv == TypeOK /\ LockOK /\ LocalOK /\ PendingOK

\* The receipt is the last of the three writes: until then the source is not
\* on record, and once it is, the other two have been made.
ReceiptIsLast ==
  /\ \A j \in journals : Recorded(j.source) => Committed(j)
  /\ \A p \in Procs :
       /\ pc[p] \in {"backup", "journal", "write", "append", "record",
                    "restore", "remove_event", "remove_receipt"} =>
            ~Recorded(tx[p].source)
       /\ pc[p] \in {"append", "record"} => file[tx[p].target] # Absent
       /\ pc[p] = "record" => EventExists(tx[p].id)

CommitInv == StoreInv /\ ReceiptIsLast

\* The target does not hold what the mutation of j wrote.
Undone(j) == file[j.target] # Absent => file[j.target].from # j.source

\* Beside a pending mutation every text, and the backup of the target, comes
\* of a source on record that is not its own; a backup is only given up when
\* the mutation is done or undone.
Sound(j) ==
  /\ \A f \in Paths \ {j.target} : file[f] # Absent =>
       Recorded(file[f].from) /\ file[f].from # j.source
  /\ file[j.target] # Absent =>
       file[j.target].from = j.source \/ Recorded(file[j.target].from)
  /\ j.existed =>
       IF backups[j.id] = Absent THEN Committed(j) \/ Undone(j)
       ELSE Recorded(backups[j.id].from) /\ backups[j.id].from # j.source

FilesOK ==
  /\ journals = {} => \A f \in Paths : file[f] # Absent => Recorded(file[f].from)
  /\ \A j \in journals : Sound(j)

\* What each statement relies on.
StatementsOK == \A p \in Procs :
  /\ pc[p] \in {"backup", "journal"} =>
       /\ ~Recorded(tx[p].source)
       /\ tx[p].existed = (file[tx[p].target] # Absent)
  /\ pc[p] = "journal" /\ tx[p].existed => backups[tx[p].id] = file[tx[p].target]
  /\ pc[p] \in {"write", "append", "record", "recorded"} /\ tx[p].existed =>
       backups[tx[p].id] # Absent
  /\ pc[p] \in {"append", "record", "recorded"} => file[tx[p].target] # Absent
  /\ pc[p] \in {"record", "recorded"} => EventExists(tx[p].id)
  /\ pc[p] = "recorded" => Recorded(tx[p].source)
  /\ pc[p] = "restore" /\ tx[p].existed /\ backups[tx[p].id] = Absent => Undone(tx[p])
  /\ pc[p] \in {"remove_event", "remove_receipt"} => Undone(tx[p])
  /\ pc[p] \in {"drop_backup", "drop_journal"} => Committed(tx[p]) \/ Undone(tx[p])

\* When a call has which answer.
AnswersOK == \A p \in Procs :
  /\ answer[p] = "applied" =>
       /\ pc[p] \in {"drop_backup", "drop_journal", "release"}
       /\ Recorded(req[p].source)
       /\ pc[p] = "release" => journals = {}
  /\ answer[p] = "duplicate_source" => pc[p] = "release" /\ Recorded(req[p].source)

AnswersInv == StoreInv /\ FilesOK /\ StatementsOK /\ AnswersOK

\* The memory file before the mutation of p.
Unwritten(p) == [file EXCEPT ![tx[p].target] = was[p]]

\* The line of the log that the mutation of p writes.
EventOf(p) ==
  [id |-> tx[p].id, object |-> req[p].id, action |-> req[p].op,
   old |-> OldStatus(was[p]), new |-> NewText(req[p], was[p]).status,
   source |-> req[p].source]

\* append_event writes no id twice.
IdsDiffer == \A i, k \in DOMAIN events : events[i].id = events[k].id => i = k

\* That line is the last of the log, and the mutation's only one.
EventIsLast(p) ==
  \E log \in Seq(Event) : /\ events = Append(log, EventOf(p))
                         /\ \A i \in DOMAIN log : log[i].id # tx[p].id

\* What a mutation under way has read, backed up and written so far.
ProgressOK == \A p \in Procs :
  /\ pc[p] \in {"backup", "journal", "write", "append", "record"} =>
       /\ Allowed(Unwritten(p), req[p], tx[p].target)
       /\ tx[p].existed = (was[p] # Absent)
  /\ pc[p] \in {"backup", "journal", "write"} => file[tx[p].target] = was[p]
  /\ pc[p] \in {"journal", "write", "append", "record"} /\ tx[p].existed =>
       backups[tx[p].id] = was[p]
  /\ pc[p] \in {"append", "record"} => file[tx[p].target] = NewText(req[p], was[p])
  /\ pc[p] \in {"backup", "journal", "write", "append"} => ~EventExists(tx[p].id)
  /\ pc[p] = "record" => EventIsLast(p)
  /\ pc[p] = "recorded" => Committed(tx[p])

\* What a rollback has put back so far.
RollbackOK == \A p \in Procs :
  /\ pc[p] \in {"remove_event", "remove_receipt"} => Restored(tx[p]) = file
  /\ pc[p] = "remove_receipt" => ~EventExists(tx[p].id)
  /\ pc[p] \in {"drop_backup", "drop_journal"} =>
       \/ Committed(tx[p])
       \/ Restored(tx[p]) = file /\ ~EventExists(tx[p].id)

RefinementInv == CommitInv /\ IdsDiffer /\ ProgressOK /\ RollbackOK

-----------------------------------------------------------------------------
(* Types of the operators                                                  *)

LEMMA NewTextType ==
  ASSUME NEW r \in Requests, NEW former, r.op # "create" => former \in Text
  PROVE  NewText(r, former) \in Text
BY DEF NewText, Requests, Text

LEMMA EventsWithoutType ==
  ASSUME events \in Seq(Event), NEW t
  PROVE  EventsWithout(t) \in Seq(Event)
<1>1. CASE EventExists(t)
  <2> DEFINE i == CHOOSE i \in DOMAIN events : events[i].id = t
  <2>1. /\ i \in 1 .. Len(events)
        /\ Len(events) \in Nat
        /\ \A k \in 1 .. Len(events) : events[k] \in Event
    BY <1>1, LenProperties, ElementOfSeq DEF EventExists
  <2> HIDE DEF i
  <2>2. SubSeq(events, 1, i - 1) \in Seq(Event)
    <3>1. \A k \in 1 .. i - 1 : events[k] \in Event
      BY <2>1
    <3>2. QED BY <2>1, <3>1, SubSeqProperties
  <2>3. SubSeq(events, i + 1, Len(events)) \in Seq(Event)
    <3>1. \A k \in i + 1 .. Len(events) : events[k] \in Event
      BY <2>1
    <3>2. QED BY <2>1, <3>1, SubSeqProperties
  <2>4. QED
    BY <1>1, <2>2, <2>3, ConcatProperties DEF EventsWithout, i
<1>2. CASE ~EventExists(t)
  BY <1>2 DEF EventsWithout
<1>3. QED BY <1>1, <1>2

LEMMA RestoredType ==
  ASSUME TypeOK, NEW j \in Journal
  PROVE  Restored(j) \in [Paths -> Text \cup {Absent}]
BY DEF TypeOK, Restored, Journal

-----------------------------------------------------------------------------
(* The invariant                                                           *)

LEMMA InitStoreInv == Init => StoreInv
BY NullAssumption, EmptySeq
   DEF Init, StoreInv, TypeOK, LockOK, LocalOK, PendingOK, OnePending, Labels,
       Mutating, Settling

\* While a process is inside a call every other one is idle.
LEMMA OthersIdle ==
  ASSUME StoreInv, NEW p \in Procs, pc[p] # "idle", NEW q \in Procs, q # p
  PROVE  pc[q] = "idle"
BY DEF StoreInv, LockOK

LEMMA NextStoreInv == StoreInv /\ [Next]_vars => StoreInv'
<1> SUFFICES ASSUME StoreInv, [Next]_vars PROVE StoreInv'
  OBVIOUS
<1> USE DEF StoreInv, Goto, Answer, disk, local
<1>1. CASE UNCHANGED vars
  BY <1>1 DEF vars, TypeOK, LockOK, LocalOK, PendingOK, OnePending
<1>2. ASSUME NEW p \in Procs, NEW r \in Requests, Acquire(p, r) PROVE StoreInv'
  BY <1>2, NullAssumption
     DEF Acquire, TypeOK, Labels, LockOK, LocalOK, PendingOK, OnePending,
         Mutating, Settling
<1>3. ASSUME NEW p \in Procs, NEW j \in journals, RecoverJournal(p, j)
      PROVE StoreInv'
  BY <1>3, OthersIdle
     DEF RecoverJournal, TypeOK, Labels, Answers, LockOK, LocalOK, PendingOK,
         OnePending, Mutating, Settling
<1>4. ASSUME NEW p \in Procs, RecoveryDone(p) PROVE StoreInv'
  BY <1>4, OthersIdle
     DEF RecoveryDone, TypeOK, Labels, Answers, LockOK, LocalOK, PendingOK,
         OnePending, Mutating, Settling
<1>5. ASSUME NEW p \in Procs, AnswerDuplicate(p) PROVE StoreInv'
  BY <1>5, OthersIdle
     DEF AnswerDuplicate, TypeOK, Labels, Answers, LockOK, LocalOK, PendingOK,
         OnePending, Mutating, Settling
<1>6. ASSUME NEW p \in Procs, AnswerExists(p) PROVE StoreInv'
  BY <1>6, OthersIdle
     DEF AnswerExists, TypeOK, Labels, Answers, LockOK, LocalOK, PendingOK,
         OnePending, Mutating, Settling
<1>7. ASSUME NEW p \in Procs, RaiseInvalid(p) PROVE StoreInv'
  BY <1>7, OthersIdle
     DEF RaiseInvalid, TypeOK, Labels, Answers, LockOK, LocalOK, PendingOK,
         OnePending, Mutating, Settling
<1>8. ASSUME NEW p \in Procs, NEW f \in Paths, NEW t \in Txs, Begin(p, f, t)
      PROVE StoreInv'
  <2>1. /\ req[p] \in Requests
        /\ f = <<f[1], f[2]>> /\ f[1] = req[p].id /\ f[2] \in Kinds
        /\ file[f] \in Text \cup {Absent}
    BY <1>8 DEF Begin, Allowed, LocalOK, TypeOK, Paths
  <2>2. req[p].op # "create" => file[f] # Absent
    BY <1>8, <2>1 DEF Begin, Allowed, KindsOf
  <2>3. /\ tx'[p] \in Journal /\ tx'[p].source = req'[p].source
        /\ tx'[p].target = f /\ was'[p] = file[f]
    BY <1>8, <2>1 DEF Begin, TypeOK, Journal, Requests
  <2>4. TypeOK'
    BY <1>8, <2>1, <2>3 DEF Begin, TypeOK, Labels
  <2>5. LockOK' /\ LocalOK'
    BY <1>8, <2>1, <2>2, <2>3, OthersIdle
       DEF Begin, TypeOK, LockOK, LocalOK, Mutating, Settling
  <2>6. PendingOK'
    BY <1>8, OthersIdle
       DEF Begin, TypeOK, PendingOK, OnePending, Mutating, Settling
  <2>7. QED BY <2>4, <2>5, <2>6
<1>9. ASSUME NEW p \in Procs, WriteBackup(p) PROVE StoreInv'
  <2>1. TypeOK'
    <3>1. /\ pc' = [pc EXCEPT ![p] = "journal"]
          /\ \E f \in Paths : backups' = [backups EXCEPT ![tx[p].id] = file[f]]
          /\ UNCHANGED <<file, events, receipts, journals, lock, local>>
      BY <1>9 DEF WriteBackup, TypeOK, LocalOK, Mutating, Journal
    <3>2. QED BY <3>1 DEF TypeOK, Labels, local
  <2>2. LockOK' /\ LocalOK'
    BY <1>9, OthersIdle DEF WriteBackup, TypeOK, LockOK, LocalOK, Mutating, Settling
  <2>3. PendingOK'
    BY <1>9, OthersIdle
       DEF WriteBackup, TypeOK, PendingOK, OnePending, Mutating, Settling
  <2>4. QED BY <2>1, <2>2, <2>3
<1>10. ASSUME NEW p \in Procs, WriteJournal(p) PROVE StoreInv'
  BY <1>10, OthersIdle
     DEF WriteJournal, TypeOK, Labels, Answers, LockOK, LocalOK, PendingOK,
         OnePending, Mutating, Settling
<1>11. ASSUME NEW p \in Procs, WriteTarget(p) PROVE StoreInv'
  <2>1. file' \in [Paths -> Text \cup {Absent}]
    BY <1>11, NewTextType DEF WriteTarget, LocalOK, Mutating, TypeOK, Journal
  <2>2. TypeOK'
    BY <1>11, <2>1 DEF WriteTarget, TypeOK, Labels
  <2>3. LockOK' /\ LocalOK'
    BY <1>11, OthersIdle
       DEF WriteTarget, TypeOK, LockOK, LocalOK, Mutating, Settling
  <2>4. PendingOK'
    BY <1>11, OthersIdle
       DEF WriteTarget, TypeOK, PendingOK, OnePending, Mutating, Settling
  <2>5. QED BY <2>2, <2>3, <2>4
<1>12. ASSUME NEW p \in Procs, AppendEvent(p) PROVE StoreInv'
  <2>1. events' \in Seq(Event)
    <3> DEFINE new == NewText(req[p], was[p])
               e == [id |-> tx[p].id, object |-> req[p].id,
                     action |-> req[p].op, old |-> OldStatus(was[p]),
                     new |-> new.status, source |-> req[p].source]
    <3>1. /\ req[p] \in Requests /\ tx[p] \in Journal
          /\ was[p] \in Text \cup {Absent}
          /\ req[p].op # "create" => was[p] \in Text
      BY <1>12 DEF AppendEvent, LocalOK, Mutating, TypeOK
    <3>2. new.status \in Statuses
      BY <3>1, NewTextType DEF Text
    <3>3. OldStatus(was[p]) \in Statuses \cup {Absent}
      BY <3>1 DEF OldStatus, Text
    <3>4. /\ req[p].id \in Ids /\ req[p].op \in Ops
          /\ req[p].source \in Sources /\ tx[p].id \in Txs
      BY <3>1 DEF Requests, Ops, Journal
    <3>5. e \in Event
      BY <3>2, <3>3, <3>4 DEF Event
    <3>6. events' = events \/ events' = Append(events, e)
      BY <1>12 DEF AppendEvent
    <3>7. QED BY <3>5, <3>6, AppendProperties DEF TypeOK
  <2>2. TypeOK'
    <3>1. pc' \in [Procs -> Labels] /\ UNCHANGED <<file, receipts, journals, backups, lock, local>>
      BY <1>12 DEF AppendEvent, TypeOK, Labels
    <3>2. TypeOK
      BY DEF StoreInv
    <3>3. QED BY ONLY <2>1, <3>1, <3>2 DEF TypeOK, local
  <2>3. LockOK' /\ LocalOK'
    BY <1>12, OthersIdle
       DEF AppendEvent, TypeOK, LockOK, LocalOK, Mutating, Settling
  <2>4. PendingOK'
    BY <1>12, OthersIdle
       DEF AppendEvent, TypeOK, PendingOK, OnePending, Mutating, Settling
  <2>5. QED BY <2>2, <2>3, <2>4
<1>13. ASSUME NEW p \in Procs, RecordSource(p) PROVE StoreInv'
  <2>1. receipts' \subseteq Receipt
    BY <1>13
       DEF RecordSource, LocalOK, Mutating, TypeOK, Journal, Receipt, Requests
  <2>2. TypeOK'
    BY <1>13, <2>1 DEF RecordSource, TypeOK, Labels
  <2>3. LockOK' /\ LocalOK'
    BY <1>13, OthersIdle
       DEF RecordSource, TypeOK, LockOK, LocalOK, Mutating, Settling
  <2>4. PendingOK'
    BY <1>13, OthersIdle
       DEF RecordSource, TypeOK, PendingOK, OnePending, Mutating, Settling
  <2>5. QED BY <2>2, <2>3, <2>4
<1>14. ASSUME NEW p \in Procs, LeaveTry(p) PROVE StoreInv'
  BY <1>14, OthersIdle
     DEF LeaveTry, TypeOK, Labels, Answers, LockOK, LocalOK, PendingOK,
         OnePending, Mutating, Settling
<1>15. ASSUME NEW p \in Procs, RestoreTarget(p) PROVE StoreInv'
  <2>1. file' \in [Paths -> Text \cup {Absent}]
    BY <1>15, RestoredType
       DEF RestoreTarget, LocalOK, Mutating, TypeOK, Settling
  <2>2. TypeOK'
    BY <1>15, <2>1 DEF RestoreTarget, TypeOK, Labels
  <2>3. LockOK' /\ LocalOK'
    BY <1>15, OthersIdle
       DEF RestoreTarget, TypeOK, LockOK, LocalOK, Mutating, Settling
  <2>4. PendingOK'
    BY <1>15, OthersIdle
       DEF RestoreTarget, TypeOK, PendingOK, OnePending, Mutating, Settling
  <2>5. QED BY <2>2, <2>3, <2>4
<1>16. ASSUME NEW p \in Procs, RemoveEvent(p) PROVE StoreInv'
  <2>1. events' \in Seq(Event)
    BY <1>16, EventsWithoutType DEF RemoveEvent, LocalOK, Mutating, TypeOK
  <2>2. TypeOK'
    BY <1>16, <2>1 DEF RemoveEvent, TypeOK, Labels
  <2>3. LockOK' /\ LocalOK'
    BY <1>16, OthersIdle
       DEF RemoveEvent, TypeOK, LockOK, LocalOK, Mutating, Settling
  <2>4. PendingOK'
    BY <1>16, OthersIdle
       DEF RemoveEvent, TypeOK, PendingOK, OnePending, Mutating, Settling
  <2>5. QED BY <2>2, <2>3, <2>4
<1>17. ASSUME NEW p \in Procs, RemoveReceipt(p) PROVE StoreInv'
  BY <1>17, OthersIdle
     DEF RemoveReceipt, TypeOK, Labels, Answers, LockOK, LocalOK, PendingOK,
         OnePending, Mutating, Settling
<1>18. ASSUME NEW p \in Procs, DropBackup(p) PROVE StoreInv'
  BY <1>18, OthersIdle
     DEF DropBackup, TypeOK, Labels, Answers, LockOK, LocalOK, PendingOK,
         OnePending, Mutating, Settling
<1>19. ASSUME NEW p \in Procs, DropJournal(p) PROVE StoreInv'
  BY <1>19, OthersIdle
     DEF DropJournal, TypeOK, Labels, Answers, LockOK, LocalOK, PendingOK,
         OnePending, Mutating, Settling
<1>20. ASSUME NEW p \in Procs, Release(p) PROVE StoreInv'
  BY <1>20, OthersIdle
     DEF Release, TypeOK, Labels, Answers, LockOK, LocalOK, PendingOK,
         OnePending, Mutating, Settling
<1>21. ASSUME NEW p \in Procs, Fail(p) PROVE StoreInv'
  <2>1. TypeOK'
    BY <1>21 DEF Fail, TypeOK, Labels, Answers
  <2>2. LockOK' /\ LocalOK'
    BY <1>21, OthersIdle
       DEF Fail, Working, TypeOK, LockOK, LocalOK, Mutating, Settling
  <2>3. PendingOK'
    BY <1>21, OthersIdle
       DEF Fail, Working, TypeOK, PendingOK, OnePending, Mutating, Settling
  <2>4. QED BY <2>1, <2>2, <2>3
<1>22. ASSUME NEW p \in Procs, Interrupt(p) PROVE StoreInv'
  BY <1>22, OthersIdle
     DEF Interrupt, TypeOK, Labels, Answers, LockOK, LocalOK, PendingOK,
         OnePending, Mutating, Settling
<1>23. ASSUME NEW p \in Procs, Crash(p) PROVE StoreInv'
  BY <1>23, OthersIdle
     DEF Crash, TypeOK, Labels, Answers, LockOK, LocalOK, PendingOK,
         OnePending, Mutating, Settling
<1>24. QED
  BY <1>1, <1>2, <1>3, <1>4, <1>5, <1>6, <1>7, <1>8, <1>9, <1>10, <1>11, <1>12,
     <1>13, <1>14, <1>15, <1>16, <1>17, <1>18, <1>19, <1>20, <1>21, <1>22, <1>23
     DEF Next, Step, Fault

\* Every disk and local variable is well typed, whatever the processes do and
\* wherever they die.
THEOREM TypeCorrect == Spec => []TypeOK
<1>1. StoreInv => TypeOK
  BY DEF StoreInv
<1>2. QED BY <1>1, InitStoreInv, NextStoreInv, PTL DEF Spec

\* At most one mutation is pending, however many calls broke off.
THEOREM AtMostOnePending == Spec => []OnePending
<1>1. StoreInv => OnePending
  BY DEF StoreInv, PendingOK
<1>2. QED BY <1>1, InitStoreInv, NextStoreInv, PTL DEF Spec

-----------------------------------------------------------------------------
(* A receipt is never taken back                                           *)

LEMMA AppendedExists ==
  ASSUME TypeOK, NEW p \in Procs, AppendEvent(p)
  PROVE  EventExists(tx[p].id)'
<1> DEFINE t == tx[p].id
           e == [id |-> t, object |-> req[p].id, action |-> req[p].op,
                 old |-> OldStatus(was[p]),
                 new |-> NewText(req[p], was[p]).status,
                 source |-> req[p].source]
<1>1. CASE EventExists(t)
  BY <1>1 DEF AppendEvent, EventExists, local
<1>2. CASE ~EventExists(t)
  <2>1. events' = Append(events, e) /\ tx' = tx
    BY <1>2 DEF AppendEvent, local
  <2>2. /\ DOMAIN events' = 1 .. Len(events) + 1
        /\ events'[Len(events) + 1] = e
        /\ Len(events) \in Nat
    <3> HIDE DEF e
    <3>1. events \in Seq(Event \cup {e}) /\ e \in Event \cup {e}
      BY SeqMonotonic DEF TypeOK
    <3>2. QED BY <2>1, <3>1, AppendProperties, LenProperties
  <2>3. Len(events) + 1 \in DOMAIN events'
    BY <2>2
  <2>4. QED BY <2>1, <2>2, <2>3 DEF EventExists
<1>3. QED BY <1>1, <1>2

LEMMA InitCommitInv == Init => CommitInv
<1>1. Init => ReceiptIsLast
  BY DEF Init, ReceiptIsLast, Recorded
<1>2. QED BY <1>1, InitStoreInv DEF CommitInv

LEMMA NextCommitInv ==
  ASSUME AsyncExceptions = FALSE, CommitInv, [Next]_vars
  PROVE  CommitInv'
<1>0. StoreInv'
  BY NextStoreInv DEF CommitInv
<1> SUFFICES ReceiptIsLast'
  BY <1>0 DEF CommitInv
<1> USE DEF CommitInv, Goto, Answer, disk, local
<1>1. CASE UNCHANGED vars
  BY <1>1 DEF vars, ReceiptIsLast, Recorded, Committed, EventExists
<1>2. ASSUME NEW p \in Procs, NEW r \in Requests, Acquire(p, r) PROVE ReceiptIsLast'
  BY <1>2, OthersIdle
     DEF Acquire, StoreInv, TypeOK, PendingOK, LocalOK, Mutating, Settling, ReceiptIsLast, Recorded,
         Committed, EventExists
<1>3. ASSUME NEW p \in Procs, NEW j \in journals, RecoverJournal(p, j) PROVE ReceiptIsLast'
  BY <1>3, OthersIdle
     DEF RecoverJournal, StoreInv, TypeOK, PendingOK, LocalOK, Mutating, Settling, ReceiptIsLast, Recorded,
         Committed, EventExists
<1>4. ASSUME NEW p \in Procs, RecoveryDone(p) PROVE ReceiptIsLast'
  BY <1>4, OthersIdle
     DEF RecoveryDone, StoreInv, TypeOK, PendingOK, LocalOK, Mutating, Settling, ReceiptIsLast, Recorded,
         Committed, EventExists
<1>5. ASSUME NEW p \in Procs, AnswerDuplicate(p) PROVE ReceiptIsLast'
  BY <1>5, OthersIdle
     DEF AnswerDuplicate, StoreInv, TypeOK, PendingOK, LocalOK, Mutating, Settling, ReceiptIsLast, Recorded,
         Committed, EventExists
<1>6. ASSUME NEW p \in Procs, AnswerExists(p) PROVE ReceiptIsLast'
  BY <1>6, OthersIdle
     DEF AnswerExists, StoreInv, TypeOK, PendingOK, LocalOK, Mutating, Settling, ReceiptIsLast, Recorded,
         Committed, EventExists
<1>7. ASSUME NEW p \in Procs, RaiseInvalid(p) PROVE ReceiptIsLast'
  BY <1>7, OthersIdle
     DEF RaiseInvalid, StoreInv, TypeOK, PendingOK, LocalOK, Mutating, Settling, ReceiptIsLast, Recorded,
         Committed, EventExists
<1>8. ASSUME NEW p \in Procs, NEW f \in Paths, NEW t \in Txs, Begin(p, f, t) PROVE ReceiptIsLast'
  BY <1>8, OthersIdle
     DEF Begin, StoreInv, TypeOK, PendingOK, LocalOK, Mutating, Settling, ReceiptIsLast, Recorded,
         Committed, EventExists
<1>9. ASSUME NEW p \in Procs, WriteBackup(p) PROVE ReceiptIsLast'
  BY <1>9, OthersIdle
     DEF WriteBackup, StoreInv, TypeOK, PendingOK, LocalOK, Mutating, Settling, ReceiptIsLast, Recorded,
         Committed, EventExists
<1>10. ASSUME NEW p \in Procs, WriteJournal(p) PROVE ReceiptIsLast'
  BY <1>10, OthersIdle
     DEF WriteJournal, StoreInv, TypeOK, PendingOK, LocalOK, Mutating, Settling, ReceiptIsLast, Recorded,
         Committed, EventExists
<1>11. ASSUME NEW p \in Procs, WriteTarget(p) PROVE ReceiptIsLast'
  <2>1. NewText(req[p], was[p]) # Absent
    BY <1>11, NewTextType, AbsentAssumption
       DEF WriteTarget, StoreInv, LocalOK, Mutating
  <2>2. tx[p].target \in Paths /\ file \in [Paths -> Text \cup {Absent}]
    BY <1>11 DEF WriteTarget, StoreInv, TypeOK, LocalOK, Mutating, Journal
  <2>3. file'[tx'[p].target] # Absent
    BY <1>11, <2>1, <2>2 DEF WriteTarget
  <2>4. \A s : Recorded(s)' = Recorded(s)
    BY <1>11 DEF WriteTarget, Recorded
  <2>5. ~Recorded(tx[p].source) /\ journals' = {tx[p]} /\ tx' = tx
    BY <1>11 DEF WriteTarget, ReceiptIsLast, StoreInv, PendingOK, Settling
  <2>6. \A j \in journals' : ~Recorded(j.source)'
    BY <2>4, <2>5
  <2>7. \A q \in Procs : q # p => pc'[q] = "idle"
    BY <1>11, OthersIdle DEF WriteTarget, StoreInv, TypeOK
  <2>8. pc'[p] = "append"
    BY <1>11 DEF WriteTarget, StoreInv, TypeOK
  <2>9. QED BY <2>3, <2>4, <2>5, <2>6, <2>7, <2>8 DEF ReceiptIsLast
<1>12. ASSUME NEW p \in Procs, AppendEvent(p) PROVE ReceiptIsLast'
  BY <1>12, OthersIdle, AppendedExists
     DEF AppendEvent, StoreInv, TypeOK, PendingOK, LocalOK, Mutating, Settling, ReceiptIsLast, Recorded,
         Committed, EventExists
<1>13. ASSUME NEW p \in Procs, RecordSource(p) PROVE ReceiptIsLast'
  BY <1>13, OthersIdle
     DEF RecordSource, StoreInv, TypeOK, PendingOK, LocalOK, Mutating, Settling, ReceiptIsLast, Recorded,
         Committed, EventExists
<1>14. ASSUME NEW p \in Procs, LeaveTry(p) PROVE ReceiptIsLast'
  BY <1>14, OthersIdle
     DEF LeaveTry, StoreInv, TypeOK, PendingOK, LocalOK, Mutating, Settling, ReceiptIsLast, Recorded,
         Committed, EventExists
<1>15. ASSUME NEW p \in Procs, RestoreTarget(p) PROVE ReceiptIsLast'
  BY <1>15, OthersIdle
     DEF RestoreTarget, StoreInv, TypeOK, PendingOK, LocalOK, Mutating, Settling, ReceiptIsLast, Recorded,
         Committed, EventExists
<1>16. ASSUME NEW p \in Procs, RemoveEvent(p) PROVE ReceiptIsLast'
  BY <1>16, OthersIdle
     DEF RemoveEvent, StoreInv, TypeOK, PendingOK, LocalOK, Mutating, Settling, ReceiptIsLast, Recorded,
         Committed, EventExists
<1>17. ASSUME NEW p \in Procs, RemoveReceipt(p) PROVE ReceiptIsLast'
  BY <1>17, OthersIdle
     DEF RemoveReceipt, StoreInv, TypeOK, PendingOK, LocalOK, Mutating, Settling, ReceiptIsLast, Recorded,
         Committed, EventExists
<1>18. ASSUME NEW p \in Procs, DropBackup(p) PROVE ReceiptIsLast'
  BY <1>18, OthersIdle
     DEF DropBackup, StoreInv, TypeOK, PendingOK, LocalOK, Mutating, Settling, ReceiptIsLast, Recorded,
         Committed, EventExists
<1>19. ASSUME NEW p \in Procs, DropJournal(p) PROVE ReceiptIsLast'
  BY <1>19, OthersIdle
     DEF DropJournal, StoreInv, TypeOK, PendingOK, LocalOK, Mutating, Settling, ReceiptIsLast, Recorded,
         Committed, EventExists
<1>20. ASSUME NEW p \in Procs, Release(p) PROVE ReceiptIsLast'
  BY <1>20, OthersIdle
     DEF Release, StoreInv, TypeOK, PendingOK, LocalOK, Mutating, Settling, ReceiptIsLast, Recorded,
         Committed, EventExists
<1>21. ASSUME NEW p \in Procs, Fail(p) PROVE ReceiptIsLast'
  BY <1>21, OthersIdle
     DEF Fail, StoreInv, TypeOK, PendingOK, LocalOK, Mutating, Settling, ReceiptIsLast, Recorded,
         Committed, EventExists
<1>22. ASSUME NEW p \in Procs, Interrupt(p) PROVE ReceiptIsLast'
  BY <1>22 DEF Interrupt
<1>23. ASSUME NEW p \in Procs, Crash(p) PROVE ReceiptIsLast'
  BY <1>23, OthersIdle
     DEF Crash, StoreInv, TypeOK, PendingOK, LocalOK, Mutating, Settling, ReceiptIsLast, Recorded,
         Committed, EventExists
<1>24. QED
  BY <1>1, <1>2, <1>3, <1>4, <1>5, <1>6, <1>7, <1>8, <1>9, <1>10, <1>11, <1>12,
     <1>13, <1>14, <1>15, <1>16, <1>17, <1>18, <1>19, <1>20, <1>21, <1>22, <1>23 DEF Next, Step, Fault

\* Without interrupts between two statements, a mutation whose receipt has been
\* written is final: no rollback, of its own call or of a later recovery, of
\* its own or of another's journal, takes the receipt away.
THEOREM CommittedStays ==
  ASSUME AsyncExceptions = FALSE
  PROVE  Spec => CommitIsFinal
<1>1. CommitInv /\ [Next]_vars => CommitInv'
  BY NextCommitInv
<1>2. CommitInv /\ [Next]_vars => [receipts \subseteq receipts']_vars
  <2> SUFFICES ASSUME CommitInv, Next PROVE receipts \subseteq receipts'
    OBVIOUS
  <2>1. ASSUME NEW p \in Procs, RemoveReceipt(p) PROVE receipts \subseteq receipts'
    BY <2>1 DEF RemoveReceipt, CommitInv, ReceiptIsLast, Recorded
  <2>2. ASSUME NEW p \in Procs, RecordSource(p) PROVE receipts \subseteq receipts'
    BY <2>2 DEF RecordSource
  <2>3. ASSUME NEW p \in Procs, ~RemoveReceipt(p), ~RecordSource(p),
               \/ \E r \in Requests : Acquire(p, r)
               \/ Step(p) \/ Fault(p)
        PROVE  receipts' = receipts
    BY <2>3
       DEF Step, Fault, Acquire, RecoverJournal, RecoveryDone, AnswerDuplicate,
           AnswerExists, RaiseInvalid, Begin, WriteBackup, WriteJournal,
           WriteTarget, AppendEvent, LeaveTry, RestoreTarget, RemoveEvent,
           DropBackup, DropJournal, Release, Fail, Interrupt, Crash, disk, local
  <2>4. QED BY <2>1, <2>2, <2>3 DEF Next
<1>3. QED BY <1>1, <1>2, InitCommitInv, PTL DEF Spec, CommitIsFinal

-----------------------------------------------------------------------------
(* What a call answers agrees with the files                               *)

LEMMA InitAnswersInv == Init => AnswersInv
<1>1. Init => FilesOK /\ StatementsOK /\ AnswersOK
  BY NullAssumption DEF Init, FilesOK, StatementsOK, AnswersOK, Answers
<1>2. QED BY <1>1, InitStoreInv DEF AnswersInv

LEMMA WriteTargetSound ==
  ASSUME AnswersInv, NEW p \in Procs, WriteTarget(p)
  PROVE  FilesOK' /\ StatementsOK'
<1> USE DEF AnswersInv, StoreInv, Goto, disk, local
<1>1. PICK j \in Journal : j = tx[p] /\ j = tx'[p]
  BY DEF WriteTarget, LocalOK, Mutating
<1>2. /\ j.target \in Paths /\ journals = {j} /\ journals' = {j}
      /\ Sound(j) /\ j.source = req[p].source
      /\ j.existed => backups[j.id] # Absent
  BY <1>1 DEF WriteTarget, PendingOK, FilesOK, StatementsOK, LocalOK, Mutating, Journal
<1>3. /\ file \in [Paths -> Text \cup {Absent}]
      /\ file' = [file EXCEPT ![j.target] = NewText(req[p], was[p])]
      /\ UNCHANGED <<events, receipts, backups>>
      /\ pc'[p] = "append" /\ \A q \in Procs : q # p => pc'[q] = "idle"
  BY <1>1, OthersIdle DEF WriteTarget, TypeOK
<1>4. file'[j.target] # Absent /\ file'[j.target].from = j.source
  <2>1. NewText(req[p], was[p]) # Absent
    BY NewTextType, AbsentAssumption DEF WriteTarget, LocalOK, Mutating
  <2>2. QED BY <1>2, <1>3, <2>1 DEF NewText
<1>5. \A f \in Paths \ {j.target} : file'[f] = file[f]
  BY <1>2, <1>3
<1>6. Sound(j)'
  BY <1>2, <1>3, <1>4, <1>5 DEF Sound, Recorded
<1>7. FilesOK'
  BY <1>2, <1>6 DEF FilesOK
<1>8. StatementsOK'
  BY <1>1, <1>2, <1>3, <1>4 DEF StatementsOK
<1>9. QED BY <1>7, <1>8

LEMMA RestoreTargetSound ==
  ASSUME AnswersInv, NEW p \in Procs, RestoreTarget(p)
  PROVE  FilesOK' /\ StatementsOK'
<1> USE DEF AnswersInv, StoreInv, Goto, disk, local
<1>1. PICK j \in Journal : j = tx[p] /\ j = tx'[p]
  BY DEF RestoreTarget, LocalOK, Settling
<1>2. /\ j.target \in Paths /\ journals = {j} /\ journals' = {j}
      /\ Sound(j) /\ (j.existed /\ backups[j.id] = Absent => Undone(j))
  BY <1>1 DEF RestoreTarget, PendingOK, FilesOK, StatementsOK, Settling, Journal
<1>3. /\ file \in [Paths -> Text \cup {Absent}]
      /\ file' = Restored(j)
      /\ UNCHANGED <<events, receipts, backups>>
      /\ pc'[p] = "remove_event" /\ \A q \in Procs : q # p => pc'[q] = "idle"
  BY <1>1, OthersIdle DEF RestoreTarget, TypeOK
<1>4. /\ \A f \in Paths \ {j.target} : file'[f] = file[f]
      /\ \/ file'[j.target] = Absent
         \/ file'[j.target] = file[j.target] /\ Undone(j)
         \/ j.existed /\ backups[j.id] # Absent /\ file'[j.target] = backups[j.id]
  BY <1>2, <1>3 DEF Restored
<1>5. Undone(j)'
  BY <1>2, <1>3, <1>4 DEF Undone, Sound
<1>6. Sound(j)'
  BY <1>2, <1>3, <1>4, <1>5 DEF Sound, Undone, Recorded
<1>7. FilesOK'
  BY <1>2, <1>6 DEF FilesOK
<1>8. StatementsOK'
  BY <1>1, <1>3, <1>5 DEF StatementsOK, Undone
<1>9. QED BY <1>7, <1>8

LEMMA AppendEventStatements ==
  ASSUME AnswersInv, NEW p \in Procs, AppendEvent(p)
  PROVE  StatementsOK'
<1>1. EventExists(tx[p].id)' /\ tx' = tx
  BY AppendedExists DEF AppendEvent, AnswersInv, StoreInv, local
<1>2. pc'[p] = "record" /\ \A q \in Procs : q # p => pc'[q] = "idle"
  BY OthersIdle DEF AppendEvent, Goto, AnswersInv, StoreInv, TypeOK
<1>3. /\ file'[tx[p].target] # Absent
      /\ tx[p].existed => backups'[tx[p].id] # Absent
  BY DEF AppendEvent, AnswersInv, StatementsOK
<1>4. QED BY <1>1, <1>2, <1>3 DEF StatementsOK

LEMMA RecordSourceStatements ==
  ASSUME AnswersInv, NEW p \in Procs, RecordSource(p)
  PROVE  StatementsOK'
<1>1. Recorded(tx[p].source)' /\ tx' = tx
  <2>1. tx[p].source = req[p].source
    BY DEF RecordSource, AnswersInv, StoreInv, LocalOK, Mutating
  <2>2. [source |-> req[p].source, object |-> req[p].id, event |-> tx[p].id] \in receipts'
    BY DEF RecordSource
  <2>3. tx' = tx
    BY DEF RecordSource, local
  <2>4. QED BY <2>1, <2>2, <2>3 DEF Recorded
<1>2. pc'[p] = "recorded" /\ \A q \in Procs : q # p => pc'[q] = "idle"
  BY OthersIdle DEF RecordSource, Goto, AnswersInv, StoreInv, TypeOK
<1>3. /\ file'[tx[p].target] # Absent /\ EventExists(tx[p].id)'
      /\ tx[p].existed => backups'[tx[p].id] # Absent
  BY <1>1 DEF RecordSource, AnswersInv, StatementsOK, EventExists
<1>4. QED BY <1>1, <1>2, <1>3 DEF StatementsOK

LEMMA BeginStatements ==
  ASSUME AnswersInv, NEW p \in Procs, NEW f \in Paths, NEW t \in Txs, Begin(p, f, t)
  PROVE  StatementsOK'
<1>1. /\ tx'[p].target = f /\ tx'[p].source = req[p].source
      /\ tx'[p].existed = (file[f] # Absent)
  BY DEF Begin, AnswersInv, StoreInv, TypeOK
<1>2. /\ pc'[p] = IF file[f] # Absent THEN "backup" ELSE "journal"
      /\ \A q \in Procs : q # p => pc'[q] = "idle"
  BY OthersIdle DEF Begin, Goto, AnswersInv, StoreInv, TypeOK
<1>3. ~Recorded(req[p].source) /\ UNCHANGED <<file, events, receipts>>
  BY DEF Begin, disk
<1>4. QED BY <1>1, <1>2, <1>3 DEF StatementsOK, Recorded

LEMMA NextAnswersInv == AnswersInv /\ [Next]_vars => AnswersInv'
<1> SUFFICES ASSUME AnswersInv, [Next]_vars PROVE AnswersInv'
  OBVIOUS
<1>0. StoreInv'
  BY NextStoreInv DEF AnswersInv
<1> SUFFICES FilesOK' /\ StatementsOK' /\ AnswersOK'
  BY <1>0 DEF AnswersInv
<1> USE DEF AnswersInv, StoreInv, TypeOK, PendingOK, OnePending, LocalOK, Mutating,
            Settling, FilesOK, StatementsOK, AnswersOK, Sound, Undone, Recorded,
            Committed, EventExists, Journal, Text, Answers, Goto, Answer, disk, local
<1>1. CASE UNCHANGED vars
  BY <1>1 DEF vars
<1>2. ASSUME NEW p \in Procs, NEW r \in Requests, Acquire(p, r)
      PROVE  FilesOK' /\ StatementsOK' /\ AnswersOK'
  <2>1. FilesOK'
    BY <1>2, OthersIdle, AbsentAssumption, NullAssumption DEF Acquire
  <2>2. StatementsOK'
    BY <1>2, OthersIdle, AbsentAssumption, NullAssumption DEF Acquire
  <2>3. AnswersOK'
    BY <1>2, OthersIdle, AbsentAssumption, NullAssumption DEF Acquire
  <2>4. QED BY <2>1, <2>2, <2>3
<1>3. ASSUME NEW p \in Procs, NEW j \in journals, RecoverJournal(p, j)
      PROVE  FilesOK' /\ StatementsOK' /\ AnswersOK'
  <2>1. FilesOK'
    BY <1>3, OthersIdle, AbsentAssumption, NullAssumption DEF RecoverJournal
  <2>2. StatementsOK'
    BY <1>3, OthersIdle, AbsentAssumption, NullAssumption DEF RecoverJournal
  <2>3. AnswersOK'
    BY <1>3, OthersIdle, AbsentAssumption, NullAssumption DEF RecoverJournal
  <2>4. QED BY <2>1, <2>2, <2>3
<1>4. ASSUME NEW p \in Procs, RecoveryDone(p)
      PROVE  FilesOK' /\ StatementsOK' /\ AnswersOK'
  <2>1. FilesOK'
    BY <1>4, OthersIdle, AbsentAssumption, NullAssumption DEF RecoveryDone
  <2>2. StatementsOK'
    BY <1>4, OthersIdle, AbsentAssumption, NullAssumption DEF RecoveryDone
  <2>3. AnswersOK'
    BY <1>4, OthersIdle, AbsentAssumption, NullAssumption DEF RecoveryDone
  <2>4. QED BY <2>1, <2>2, <2>3
<1>5. ASSUME NEW p \in Procs, AnswerDuplicate(p)
      PROVE  FilesOK' /\ StatementsOK' /\ AnswersOK'
  <2>1. FilesOK'
    BY <1>5, OthersIdle, AbsentAssumption, NullAssumption DEF AnswerDuplicate
  <2>2. StatementsOK'
    BY <1>5, OthersIdle, AbsentAssumption, NullAssumption DEF AnswerDuplicate
  <2>3. AnswersOK'
    BY <1>5, OthersIdle, AbsentAssumption, NullAssumption DEF AnswerDuplicate
  <2>4. QED BY <2>1, <2>2, <2>3
<1>6. ASSUME NEW p \in Procs, AnswerExists(p)
      PROVE  FilesOK' /\ StatementsOK' /\ AnswersOK'
  <2>1. FilesOK'
    BY <1>6, OthersIdle, AbsentAssumption, NullAssumption DEF AnswerExists
  <2>2. StatementsOK'
    BY <1>6, OthersIdle, AbsentAssumption, NullAssumption DEF AnswerExists
  <2>3. AnswersOK'
    BY <1>6, OthersIdle, AbsentAssumption, NullAssumption DEF AnswerExists
  <2>4. QED BY <2>1, <2>2, <2>3
<1>7. ASSUME NEW p \in Procs, RaiseInvalid(p)
      PROVE  FilesOK' /\ StatementsOK' /\ AnswersOK'
  <2>1. FilesOK'
    BY <1>7, OthersIdle, AbsentAssumption, NullAssumption DEF RaiseInvalid
  <2>2. StatementsOK'
    BY <1>7, OthersIdle, AbsentAssumption, NullAssumption DEF RaiseInvalid
  <2>3. AnswersOK'
    BY <1>7, OthersIdle, AbsentAssumption, NullAssumption DEF RaiseInvalid
  <2>4. QED BY <2>1, <2>2, <2>3
<1>8. ASSUME NEW p \in Procs, NEW f \in Paths, NEW t \in Txs, Begin(p, f, t)
      PROVE  FilesOK' /\ StatementsOK' /\ AnswersOK'
  <2>1. FilesOK'
    BY <1>8, OthersIdle, AbsentAssumption, NullAssumption DEF Begin
  <2>2. StatementsOK'
    BY <1>8, BeginStatements
  <2>3. AnswersOK'
    BY <1>8, OthersIdle, AbsentAssumption, NullAssumption DEF Begin
  <2>4. QED BY <2>1, <2>2, <2>3
<1>9. ASSUME NEW p \in Procs, WriteBackup(p)
      PROVE  FilesOK' /\ StatementsOK' /\ AnswersOK'
  <2>1. FilesOK'
    BY <1>9, OthersIdle, AbsentAssumption, NullAssumption DEF WriteBackup
  <2>2. StatementsOK'
    BY <1>9, OthersIdle, AbsentAssumption, NullAssumption DEF WriteBackup
  <2>3. AnswersOK'
    BY <1>9, OthersIdle, AbsentAssumption, NullAssumption DEF WriteBackup
  <2>4. QED BY <2>1, <2>2, <2>3
<1>10. ASSUME NEW p \in Procs, WriteJournal(p)
      PROVE  FilesOK' /\ StatementsOK' /\ AnswersOK'
  <2>1. FilesOK'
    BY <1>10, OthersIdle, AbsentAssumption, NullAssumption DEF WriteJournal
  <2>2. StatementsOK'
    BY <1>10, OthersIdle, AbsentAssumption, NullAssumption DEF WriteJournal
  <2>3. AnswersOK'
    BY <1>10, OthersIdle, AbsentAssumption, NullAssumption DEF WriteJournal
  <2>4. QED BY <2>1, <2>2, <2>3
<1>11. ASSUME NEW p \in Procs, WriteTarget(p)
      PROVE  FilesOK' /\ StatementsOK' /\ AnswersOK'
  <2>1. FilesOK' /\ StatementsOK'
    BY <1>11, WriteTargetSound
  <2>2. AnswersOK'
    BY <1>11, OthersIdle, AbsentAssumption, NullAssumption DEF WriteTarget
  <2>3. QED BY <2>1, <2>2
<1>12. ASSUME NEW p \in Procs, AppendEvent(p)
      PROVE  FilesOK' /\ StatementsOK' /\ AnswersOK'
  <2>1. FilesOK'
    BY <1>12, OthersIdle, AbsentAssumption, NullAssumption DEF AppendEvent
  <2>2. StatementsOK'
    BY <1>12, AppendEventStatements
  <2>3. AnswersOK'
    BY <1>12, OthersIdle, AbsentAssumption, NullAssumption DEF AppendEvent
  <2>4. QED BY <2>1, <2>2, <2>3
<1>13. ASSUME NEW p \in Procs, RecordSource(p)
      PROVE  FilesOK' /\ StatementsOK' /\ AnswersOK'
  <2>1. FilesOK'
    BY <1>13, OthersIdle, AbsentAssumption, NullAssumption DEF RecordSource
  <2>2. StatementsOK'
    BY <1>13, RecordSourceStatements
  <2>3. AnswersOK'
    BY <1>13, OthersIdle, AbsentAssumption, NullAssumption DEF RecordSource
  <2>4. QED BY <2>1, <2>2, <2>3
<1>14. ASSUME NEW p \in Procs, LeaveTry(p)
      PROVE  FilesOK' /\ StatementsOK' /\ AnswersOK'
  <2>1. FilesOK'
    BY <1>14, OthersIdle, AbsentAssumption, NullAssumption DEF LeaveTry
  <2>2. StatementsOK'
    BY <1>14, OthersIdle, AbsentAssumption, NullAssumption DEF LeaveTry
  <2>3. AnswersOK'
    BY <1>14, OthersIdle, AbsentAssumption, NullAssumption DEF LeaveTry
  <2>4. QED BY <2>1, <2>2, <2>3
<1>15. ASSUME NEW p \in Procs, RestoreTarget(p)
      PROVE  FilesOK' /\ StatementsOK' /\ AnswersOK'
  <2>1. FilesOK' /\ StatementsOK'
    BY <1>15, RestoreTargetSound
  <2>2. AnswersOK'
    BY <1>15, OthersIdle, AbsentAssumption, NullAssumption DEF RestoreTarget
  <2>3. QED BY <2>1, <2>2
<1>16. ASSUME NEW p \in Procs, RemoveEvent(p)
      PROVE  FilesOK' /\ StatementsOK' /\ AnswersOK'
  <2>1. FilesOK'
    BY <1>16, OthersIdle, AbsentAssumption, NullAssumption DEF RemoveEvent
  <2>2. StatementsOK'
    BY <1>16, OthersIdle, AbsentAssumption, NullAssumption DEF RemoveEvent
  <2>3. AnswersOK'
    BY <1>16, OthersIdle, AbsentAssumption, NullAssumption DEF RemoveEvent
  <2>4. QED BY <2>1, <2>2, <2>3
<1>17. ASSUME NEW p \in Procs, RemoveReceipt(p)
      PROVE  FilesOK' /\ StatementsOK' /\ AnswersOK'
  <2>1. FilesOK'
    BY <1>17, OthersIdle, AbsentAssumption, NullAssumption DEF RemoveReceipt
  <2>2. StatementsOK'
    BY <1>17, OthersIdle, AbsentAssumption, NullAssumption DEF RemoveReceipt
  <2>3. AnswersOK'
    BY <1>17, OthersIdle, AbsentAssumption, NullAssumption DEF RemoveReceipt
  <2>4. QED BY <2>1, <2>2, <2>3
<1>18. ASSUME NEW p \in Procs, DropBackup(p)
      PROVE  FilesOK' /\ StatementsOK' /\ AnswersOK'
  <2>1. FilesOK'
    BY <1>18, OthersIdle, AbsentAssumption, NullAssumption DEF DropBackup
  <2>2. StatementsOK'
    BY <1>18, OthersIdle, AbsentAssumption, NullAssumption DEF DropBackup
  <2>3. AnswersOK'
    BY <1>18, OthersIdle, AbsentAssumption, NullAssumption DEF DropBackup
  <2>4. QED BY <2>1, <2>2, <2>3
<1>19. ASSUME NEW p \in Procs, DropJournal(p)
      PROVE  FilesOK' /\ StatementsOK' /\ AnswersOK'
  <2>1. FilesOK'
    <3>1. /\ journals = {tx[p]} /\ journals' = {}
          /\ Committed(tx[p]) \/ Undone(tx[p])
          /\ UNCHANGED <<file, receipts>>
      BY <1>19 DEF DropJournal
    <3>2. \A f \in Paths : file[f] # Absent => Recorded(file[f].from)
      BY <3>1
    <3>3. QED BY <3>1, <3>2
  <2>2. StatementsOK'
    BY <1>19, OthersIdle, AbsentAssumption, NullAssumption DEF DropJournal
  <2>3. AnswersOK'
    BY <1>19, OthersIdle, AbsentAssumption, NullAssumption DEF DropJournal
  <2>4. QED BY <2>1, <2>2, <2>3
<1>20. ASSUME NEW p \in Procs, Release(p)
      PROVE  FilesOK' /\ StatementsOK' /\ AnswersOK'
  <2>1. FilesOK'
    BY <1>20, OthersIdle, AbsentAssumption, NullAssumption DEF Release
  <2>2. StatementsOK'
    BY <1>20, OthersIdle, AbsentAssumption, NullAssumption DEF Release
  <2>3. AnswersOK'
    BY <1>20, OthersIdle, AbsentAssumption, NullAssumption DEF Release
  <2>4. QED BY <2>1, <2>2, <2>3
<1>21. ASSUME NEW p \in Procs, Fail(p)
      PROVE  FilesOK' /\ StatementsOK' /\ AnswersOK'
  <2>1. FilesOK'
    BY <1>21, OthersIdle, AbsentAssumption, NullAssumption DEF Fail
  <2>2. StatementsOK'
    BY <1>21, OthersIdle, AbsentAssumption, NullAssumption DEF Fail
  <2>3. AnswersOK'
    BY <1>21, OthersIdle, AbsentAssumption, NullAssumption DEF Fail
  <2>4. QED BY <2>1, <2>2, <2>3
<1>22. ASSUME NEW p \in Procs, Interrupt(p)
      PROVE  FilesOK' /\ StatementsOK' /\ AnswersOK'
  <2>1. FilesOK'
    BY <1>22, OthersIdle, AbsentAssumption, NullAssumption DEF Interrupt
  <2>2. StatementsOK'
    BY <1>22, OthersIdle, AbsentAssumption, NullAssumption DEF Interrupt
  <2>3. AnswersOK'
    BY <1>22, OthersIdle, AbsentAssumption, NullAssumption DEF Interrupt
  <2>4. QED BY <2>1, <2>2, <2>3
<1>23. ASSUME NEW p \in Procs, Crash(p)
      PROVE  FilesOK' /\ StatementsOK' /\ AnswersOK'
  <2>1. FilesOK'
    BY <1>23, OthersIdle, AbsentAssumption, NullAssumption DEF Crash
  <2>2. StatementsOK'
    BY <1>23, OthersIdle, AbsentAssumption, NullAssumption DEF Crash
  <2>3. AnswersOK'
    BY <1>23, OthersIdle, AbsentAssumption, NullAssumption DEF Crash
  <2>4. QED BY <2>1, <2>2, <2>3
<1> HIDE DEF AnswersInv, StoreInv, FilesOK, StatementsOK, AnswersOK
<1>24. QED
  BY <1>1, <1>2, <1>3, <1>4, <1>5, <1>6, <1>7, <1>8, <1>9, <1>10, <1>11, <1>12,
     <1>13, <1>14, <1>15, <1>16, <1>17, <1>18, <1>19, <1>20, <1>21, <1>22, <1>23
     DEF Next, Step, Fault

\* However a call ends, also on an exception between two statements, and
\* whatever died before it: "applied" and "duplicate_source" are answered only
\* for a source on record, and after an exception every memory file is backed
\* by a receipt or a journal will settle it.
THEOREM AnswersAreTrue == Spec => []AnswersHold
<1>1. AnswersInv => AnswersHold
  BY DEF AnswersInv, AnswersOK, FilesOK, AnswersHold
<1>2. QED BY <1>1, InitAnswersInv, NextAnswersInv, PTL DEF Spec

-----------------------------------------------------------------------------
(* The store implements AtomicStore                                        *)

\* The line of mutation t taken out of a log, as in EventsWithout.
Without(log, t) ==
  IF \E i \in DOMAIN log : log[i].id = t
  THEN LET i == CHOOSE i \in DOMAIN log : log[i].id = t
       IN  SubSeq(log, 1, i - 1) \o SubSeq(log, i + 1, Len(log))
  ELSE log

LEMMA ConcatElements ==
  ASSUME NEW s \in Seq(Event), NEW u \in Seq(Event)
  PROVE  /\ s \o u \in Seq(Event)
         /\ Len(s \o u) = Len(s) + Len(u)
         /\ \A i \in 1 .. Len(s) + Len(u) :
              (s \o u)[i] = IF i <= Len(s) THEN s[i] ELSE u[i - Len(s)]
BY ConcatProperties

LEMMA WithoutElements ==
  ASSUME NEW log \in Seq(Event), NEW t, NEW k \in DOMAIN log, log[k].id = t,
         \A i, j \in DOMAIN log : log[i].id = log[j].id => i = j
  PROVE  /\ Without(log, t) \in Seq(Event)
         /\ Len(Without(log, t)) = Len(log) - 1
         /\ \A i \in 1 .. Len(log) - 1 :
              Without(log, t)[i] = IF i < k THEN log[i] ELSE log[i + 1]
<1>1. /\ DOMAIN log = 1 .. Len(log) /\ Len(log) \in Nat
      /\ \A i \in 1 .. Len(log) : log[i] \in Event
  BY LenProperties, ElementOfSeq
<1>2. (CHOOSE i \in DOMAIN log : log[i].id = t) = k
  OBVIOUS
<1> DEFINE before == SubSeq(log, 1, k - 1)
           after == SubSeq(log, k + 1, Len(log))
<1>3. Without(log, t) = before \o after
  BY <1>2 DEF Without
<1>4. /\ before \in Seq(Event) /\ Len(before) = k - 1
      /\ \A i \in 1 .. k - 1 : before[i] = log[i]
  <2>1. \A i \in 1 .. k - 1 : log[i] \in Event
    BY <1>1
  <2>2. QED BY <1>1, <2>1, SubSeqProperties
<1>5. /\ after \in Seq(Event) /\ Len(after) = Len(log) - k
      /\ \A i \in 1 .. Len(log) - k : after[i] = log[k + i]
  <2>1. \A i \in k + 1 .. Len(log) : log[i] \in Event
    BY <1>1
  <2>2. QED BY <1>1, <2>1, SubSeqProperties
<1> HIDE DEF before, after
<1>6. /\ before \o after \in Seq(Event)
      /\ Len(before \o after) = Len(before) + Len(after)
      /\ \A i \in 1 .. Len(before) + Len(after) :
           (before \o after)[i] = IF i <= Len(before) THEN before[i] ELSE after[i - Len(before)]
  <2>1. before \in Seq(Event) /\ after \in Seq(Event)
    BY <1>4, <1>5
  <2>2. QED BY <2>1, ConcatElements, Zenon
<1>7. /\ Len(before) = k - 1 /\ Len(before) + Len(after) = Len(log) - 1
      /\ k \in 1 .. Len(log) /\ Len(log) \in Nat
  BY <1>1, <1>4, <1>5
<1>8. ASSUME NEW i \in 1 .. Len(log) - 1
      PROVE  (before \o after)[i] = IF i < k THEN log[i] ELSE log[i + 1]
  <2>0. i \in Int /\ 1 <= i /\ i <= Len(log) - 1 /\ k \in Int /\ Len(log) \in Int
    BY <1>7
  <2>1. CASE i < k
    BY <1>4, <1>6, <1>7, <2>1
  <2>2. CASE ~(i < k)
    <3>1. i - (k - 1) \in 1 .. Len(log) - k /\ k + (i - (k - 1)) = i + 1
      BY <2>0, <2>2
    <3>2. after[i - (k - 1)] = log[i + 1]
      BY <1>5, <3>1
    <3>3. (before \o after)[i] = after[i - Len(before)]
      BY <1>6, <1>7, <2>2
    <3>4. QED BY <1>7, <2>2, <3>2, <3>3
  <2>3. QED BY <2>1, <2>2
<1>9. QED BY <1>3, <1>6, <1>7, <1>8

LEMMA WithoutIsGone ==
  ASSUME NEW log \in Seq(Event), NEW t,
         \A i, j \in DOMAIN log : log[i].id = log[j].id => i = j
  PROVE  /\ \A i \in DOMAIN Without(log, t) : Without(log, t)[i].id # t
         /\ \A i, j \in DOMAIN Without(log, t) :
              Without(log, t)[i].id = Without(log, t)[j].id => i = j
<1>1. CASE \E k \in DOMAIN log : log[k].id = t
  <2>1. PICK k \in DOMAIN log : log[k].id = t
    BY <1>1
  <2>2. /\ DOMAIN log = 1 .. Len(log) /\ Len(log) \in Nat
        /\ DOMAIN Without(log, t) = 1 .. Len(log) - 1
        /\ \A i \in 1 .. Len(log) - 1 :
             Without(log, t)[i] = IF i < k THEN log[i] ELSE log[i + 1]
    <3>1. DOMAIN log = 1 .. Len(log) /\ Len(log) \in Nat
      BY LenProperties
    <3>2. /\ Without(log, t) \in Seq(Event) /\ Len(Without(log, t)) = Len(log) - 1
          /\ \A i \in 1 .. Len(log) - 1 :
               Without(log, t)[i] = IF i < k THEN log[i] ELSE log[i + 1]
      BY <2>1, WithoutElements
    <3>3. DOMAIN Without(log, t) = 1 .. Len(Without(log, t))
      BY <3>2, LenProperties
    <3>4. DOMAIN Without(log, t) = 1 .. Len(log) - 1
      BY <3>2, <3>3
    <3>5. QED BY <3>1, <3>2, <3>4, Zenon
  <2> DEFINE w == Without(log, t)
             from(i) == IF i < k THEN i ELSE i + 1
  <2>3. \A i \in DOMAIN w :
          from(i) \in DOMAIN log /\ from(i) # k /\ w[i] = log[from(i)]
    BY <2>1, <2>2
  <2>4. \A i, j \in DOMAIN w : from(i) = from(j) => i = j
    BY <2>1, <2>2
  <2> HIDE DEF w, from
  <2>5. QED BY <2>1, <2>3, <2>4 DEF w
<1>2. CASE ~\E k \in DOMAIN log : log[k].id = t
  BY <1>2 DEF Without
<1>3. QED BY <1>1, <1>2

LEMMA WithoutLast ==
  ASSUME NEW log \in Seq(Event), NEW e \in Event, \A i \in DOMAIN log : log[i].id # e.id
  PROVE  Without(Append(log, e), e.id) = log
<1> DEFINE longer == Append(log, e)
<1>1. /\ longer \in Seq(Event) /\ Len(longer) = Len(log) + 1
      /\ DOMAIN longer = 1 .. Len(log) + 1 /\ DOMAIN log = 1 .. Len(log)
      /\ Len(log) \in Nat /\ longer[Len(log) + 1] = e
      /\ \A i \in 1 .. Len(log) : longer[i] = log[i]
  BY AppendProperties, LenProperties
<1> HIDE DEF longer
<1>2. (CHOOSE i \in DOMAIN longer : longer[i].id = e.id) = Len(log) + 1
  BY <1>1
<1>3. Without(longer, e.id) = SubSeq(longer, 1, Len(log)) \o SubSeq(longer, Len(log) + 2, Len(log) + 1)
  <2>1. \E i \in DOMAIN longer : longer[i].id = e.id
    BY <1>1
  <2>2. /\ (Len(log) + 1) - 1 = Len(log) /\ (Len(log) + 1) + 1 = Len(log) + 2
        /\ Len(longer) = Len(log) + 1
    BY <1>1
  <2>3. Without(longer, e.id) = SubSeq(longer, 1, (Len(log) + 1) - 1) \o SubSeq(longer, (Len(log) + 1) + 1, Len(longer))
    BY <1>2, <2>1, Zenon DEF Without
  <2>4. QED BY <2>2, <2>3
<1>4. SubSeq(longer, 1, Len(log)) = log
  BY <1>1, LenProperties, SMT DEF longer
<1>5. SubSeq(longer, Len(log) + 2, Len(log) + 1) = << >>
  BY <1>1, SubSeqProperties
<1>6. QED BY <1>3, <1>4, <1>5, ConcatEmptySeq DEF longer

-----------------------------------------------------------------------------
(* The invariant of the refinement                                         *)

\* The statements at which something is still to be written, and those at
\* which something has been put back.
Writing == {"backup", "journal", "write", "append", "record", "recorded"}
PuttingBack == {"remove_event", "remove_receipt", "drop_backup", "drop_journal"}

LEMMA InitRefinementInv == Init => RefinementInv
<1>1. Init => IdsDiffer
  BY DEF Init, IdsDiffer
<1>2. Init => ProgressOK /\ RollbackOK
  BY DEF Init, ProgressOK, RollbackOK
<1>3. QED BY <1>1, <1>2, InitCommitInv DEF RefinementInv

\* A step that leaves the log alone and p outside of both.
LEMMA QuietStep ==
  ASSUME RefinementInv, NEW p \in Procs, events' = events,
         pc'[p] \notin Writing \cup PuttingBack,
         \A q \in Procs : q # p => pc'[q] = "idle"
  PROVE  IdsDiffer' /\ ProgressOK' /\ RollbackOK'
<1>1. \A q \in Procs : pc'[q] \notin Writing \cup PuttingBack
  BY DEF Writing, PuttingBack
<1>2. IdsDiffer'
  BY DEF RefinementInv, IdsDiffer
<1>3. ProgressOK'
  BY <1>1 DEF Writing, ProgressOK
<1>4. RollbackOK'
  BY <1>1 DEF PuttingBack, RollbackOK
<1>5. QED BY <1>2, <1>3, <1>4

\* Of a process that moves, and of the others.
LEMMA MovesAlone ==
  ASSUME StoreInv, NEW p \in Procs, NEW label, pc[p] # "idle", Goto(p, label)
  PROVE  pc'[p] = label /\ \A q \in Procs : q # p => pc'[q] = "idle"
BY OthersIdle DEF StoreInv, TypeOK, Goto

LEMMA BeginProgress ==
  ASSUME RefinementInv, NEW p \in Procs, NEW f \in Paths, NEW t \in Txs, Begin(p, f, t)
  PROVE  IdsDiffer' /\ ProgressOK' /\ RollbackOK'
<1>1. /\ pc'[p] = IF file[f] # Absent THEN "backup" ELSE "journal"
      /\ \A q \in Procs : q # p => pc'[q] = "idle"
  BY MovesAlone DEF Begin, RefinementInv, CommitInv
<1>2. /\ tx'[p].id = t /\ tx'[p].target = f /\ tx'[p].existed = (file[f] # Absent)
      /\ was'[p] = file[f] /\ file' = file /\ events' = events
      /\ backups' = backups /\ req' = req
  BY DEF Begin, disk, RefinementInv, CommitInv, StoreInv, TypeOK
<1>3. Unwritten(p)' = file
  BY <1>2 DEF Unwritten, RefinementInv, CommitInv, StoreInv, TypeOK
<1>4. ~EventExists(t) /\ Allowed(file, req[p], f)
  BY DEF Begin, InUse
<1>5. ProgressOK'
  BY <1>1, <1>2, <1>3, <1>4 DEF ProgressOK, EventExists
<1>6. IdsDiffer' /\ RollbackOK'
  BY <1>1, <1>2 DEF RefinementInv, IdsDiffer, RollbackOK
<1>7. QED BY <1>5, <1>6

LEMMA WriteBackupProgress ==
  ASSUME RefinementInv, NEW p \in Procs, WriteBackup(p)
  PROVE  IdsDiffer' /\ ProgressOK' /\ RollbackOK'
<1>1. pc'[p] = "journal" /\ \A q \in Procs : q # p => pc'[q] = "idle"
  BY MovesAlone DEF WriteBackup, RefinementInv, CommitInv
<1>2. tx[p].id \in Txs /\ file[tx[p].target] = was[p]
  BY DEF WriteBackup, RefinementInv, ProgressOK, CommitInv, StoreInv, LocalOK,
         Mutating, Journal
<1>3. /\ UNCHANGED <<file, events, tx, req, was>>
      /\ backups'[tx[p].id] = was[p]
  BY <1>2 DEF WriteBackup, local, RefinementInv, CommitInv, StoreInv, TypeOK
<1>4. Unwritten(p)' = Unwritten(p) /\ (EventExists(tx[p].id))' = EventExists(tx[p].id)
  BY <1>3 DEF Unwritten, EventExists
<1>5. ProgressOK'
  BY <1>1, <1>3, <1>4 DEF WriteBackup, RefinementInv, ProgressOK
<1>6. IdsDiffer' /\ RollbackOK'
  BY <1>1, <1>3 DEF RefinementInv, IdsDiffer, RollbackOK
<1>7. QED BY <1>5, <1>6

LEMMA WriteJournalProgress ==
  ASSUME RefinementInv, NEW p \in Procs, WriteJournal(p)
  PROVE  IdsDiffer' /\ ProgressOK' /\ RollbackOK'
<1>1. pc'[p] = "write" /\ \A q \in Procs : q # p => pc'[q] = "idle"
  BY MovesAlone DEF WriteJournal, RefinementInv, CommitInv
<1>2. UNCHANGED <<file, events, backups, tx, req, was>>
  BY DEF WriteJournal, local
<1>3. Unwritten(p)' = Unwritten(p) /\ (EventExists(tx[p].id))' = EventExists(tx[p].id)
  BY <1>2 DEF Unwritten, EventExists
<1>4. ProgressOK'
  BY <1>1, <1>2, <1>3 DEF WriteJournal, RefinementInv, ProgressOK
<1>5. IdsDiffer' /\ RollbackOK'
  BY <1>1, <1>2 DEF RefinementInv, IdsDiffer, RollbackOK
<1>6. QED BY <1>4, <1>5

LEMMA WriteTargetProgress ==
  ASSUME RefinementInv, NEW p \in Procs, WriteTarget(p)
  PROVE  IdsDiffer' /\ ProgressOK' /\ RollbackOK'
<1>1. pc'[p] = "append" /\ \A q \in Procs : q # p => pc'[q] = "idle"
  BY MovesAlone DEF WriteTarget, RefinementInv, CommitInv
<1>2. tx[p].target \in Paths /\ file \in [Paths -> Text \cup {Absent}]
  BY DEF WriteTarget, RefinementInv, CommitInv, StoreInv, TypeOK, LocalOK, Mutating,
         Journal
<1>3. /\ UNCHANGED <<events, backups, tx, req, was>>
      /\ file' = [file EXCEPT ![tx[p].target] = NewText(req[p], was[p])]
  BY DEF WriteTarget, local
<1>4. Unwritten(p)' = Unwritten(p) /\ (EventExists(tx[p].id))' = EventExists(tx[p].id)
  BY <1>2, <1>3 DEF Unwritten, EventExists
<1>5. ProgressOK'
  BY <1>1, <1>2, <1>3, <1>4 DEF WriteTarget, RefinementInv, ProgressOK
<1>6. IdsDiffer' /\ RollbackOK'
  BY <1>1, <1>3 DEF RefinementInv, IdsDiffer, RollbackOK
<1>7. QED BY <1>5, <1>6

LEMMA EventOfType ==
  ASSUME StoreInv, NEW p \in Procs, pc[p] \in {"append", "record"}
  PROVE  EventOf(p) \in Event /\ EventOf(p).id = tx[p].id
<1>1. /\ req[p] \in Requests /\ tx[p] \in Journal
      /\ was[p] \in Text \cup {Absent}
      /\ req[p].op # "create" => was[p] \in Text
  BY DEF StoreInv, LocalOK, Mutating, TypeOK
<1>2. NewText(req[p], was[p]).status \in Statuses
  BY <1>1, NewTextType DEF Text
<1>3. OldStatus(was[p]) \in Statuses \cup {Absent}
  BY <1>1 DEF OldStatus, Text
<1>4. /\ req[p].id \in Ids /\ req[p].op \in Ops
      /\ req[p].source \in Sources /\ tx[p].id \in Txs
  BY <1>1 DEF Requests, Ops, Journal
<1>5. QED BY <1>2, <1>3, <1>4 DEF EventOf, Event

LEMMA AppendEventProgress ==
  ASSUME RefinementInv, NEW p \in Procs, AppendEvent(p)
  PROVE  IdsDiffer' /\ ProgressOK' /\ RollbackOK'
<1>1. pc'[p] = "record" /\ \A q \in Procs : q # p => pc'[q] = "idle"
  BY MovesAlone DEF AppendEvent, RefinementInv, CommitInv
<1>2. UNCHANGED <<file, backups, tx, req, was>>
  BY DEF AppendEvent, local
<1>3. /\ ~EventExists(tx[p].id) /\ events \in Seq(Event)
      /\ EventOf(p) \in Event /\ EventOf(p).id = tx[p].id
  BY EventOfType DEF AppendEvent, RefinementInv, ProgressOK, CommitInv, StoreInv, TypeOK
<1>4. events' = Append(events, EventOf(p))
  BY <1>3 DEF AppendEvent, EventOf
<1>5. Unwritten(p)' = Unwritten(p) /\ EventOf(p)' = EventOf(p)
  BY <1>2 DEF Unwritten, EventOf
<1>6. EventIsLast(p)'
  BY <1>2, <1>3, <1>4, <1>5 DEF EventIsLast, EventExists
<1>7. ProgressOK'
  BY <1>1, <1>2, <1>5, <1>6 DEF AppendEvent, RefinementInv, ProgressOK
<1>8. IdsDiffer'
  <2> DEFINE e == EventOf(p)
  <2>1. /\ DOMAIN events' = 1 .. Len(events) + 1 /\ DOMAIN events = 1 .. Len(events)
        /\ events'[Len(events) + 1] = e
        /\ \A i \in 1 .. Len(events) : events'[i] = events[i]
        /\ Len(events) \in Nat
    <3> HIDE DEF e
    <3>1. events' = Append(events, e) /\ e \in Event
      BY <1>3, <1>4 DEF e
    <3>2. QED BY <1>3, <3>1, AppendProperties, LenProperties
  <2> HIDE DEF e
  <2>2. e.id = tx[p].id /\ \A i \in 1 .. Len(events) : events[i].id # tx[p].id
    BY <1>3, <2>1 DEF e, EventExists
  <2>3. QED BY <2>1, <2>2 DEF RefinementInv, IdsDiffer
<1>9. RollbackOK'
  BY <1>1 DEF RollbackOK
<1>10. QED BY <1>7, <1>8, <1>9

LEMMA RecordSourceProgress ==
  ASSUME RefinementInv, NEW p \in Procs, RecordSource(p)
  PROVE  IdsDiffer' /\ ProgressOK' /\ RollbackOK'
<1>1. pc'[p] = "recorded" /\ \A q \in Procs : q # p => pc'[q] = "idle"
  BY MovesAlone DEF RecordSource, RefinementInv, CommitInv
<1>2. UNCHANGED <<file, events, tx>> /\ tx[p].source = req[p].source
  BY DEF RecordSource, local, RefinementInv, CommitInv, StoreInv, LocalOK, Mutating
<1>3. Recorded(tx[p].source)'
  <2>1. [source |-> req[p].source, object |-> req[p].id, event |-> tx[p].id] \in receipts'
    BY DEF RecordSource
  <2>2. QED BY <1>2, <2>1 DEF Recorded
<1>4. Committed(tx[p])'
  BY <1>2, <1>3 DEF RecordSource, RefinementInv, CommitInv, ReceiptIsLast, Committed,
                    EventExists
<1>5. ProgressOK'
  BY <1>1, <1>4 DEF ProgressOK
<1>6. IdsDiffer' /\ RollbackOK'
  BY <1>1, <1>2 DEF RefinementInv, IdsDiffer, RollbackOK
<1>7. QED BY <1>5, <1>6

\* The steps to a clean-up whose mutation is done.
LEMMA DoneRollback ==
  ASSUME RefinementInv, NEW p \in Procs,
         LeaveTry(p) \/ \E j \in journals : RecoverJournal(p, j)
  PROVE  IdsDiffer' /\ ProgressOK' /\ RollbackOK'
<1>1. /\ pc'[p] \in {"restore", "drop_backup"}
      /\ pc'[p] = "drop_backup" => Committed(tx'[p])
  BY DEF LeaveTry, RecoverJournal, Goto, RefinementInv, ProgressOK, CommitInv, StoreInv,
         TypeOK
<1>2. \A q \in Procs : q # p => pc'[q] = "idle"
  BY OthersIdle DEF LeaveTry, RecoverJournal, Goto, RefinementInv, CommitInv, StoreInv,
         TypeOK
<1>3. UNCHANGED disk
  BY DEF LeaveTry, RecoverJournal
<1>4. pc'[p] = "drop_backup" => Committed(tx[p])'
  BY <1>1, <1>3 DEF Committed, Recorded, EventExists, disk
<1>5. RollbackOK'
  BY <1>1, <1>2, <1>4 DEF RollbackOK
<1>6. IdsDiffer' /\ ProgressOK'
  BY <1>1, <1>2, <1>3 DEF RefinementInv, IdsDiffer, ProgressOK, disk
<1>7. QED BY <1>5, <1>6

LEMMA RestoreTargetProgress ==
  ASSUME RefinementInv, NEW p \in Procs, RestoreTarget(p)
  PROVE  IdsDiffer' /\ ProgressOK' /\ RollbackOK'
<1>1. pc'[p] = "remove_event" /\ \A q \in Procs : q # p => pc'[q] = "idle"
  BY MovesAlone DEF RestoreTarget, RefinementInv, CommitInv
<1>2. PICK j \in Journal : j = tx[p]
  BY DEF RestoreTarget, RefinementInv, CommitInv, StoreInv, LocalOK, Settling
<1>3. /\ j.target \in Paths /\ file \in [Paths -> Text \cup {Absent}]
      /\ file' = Restored(j) /\ tx'[p] = j /\ UNCHANGED <<events, backups>>
  BY <1>2 DEF RestoreTarget, local, Journal, RefinementInv, CommitInv, StoreInv, TypeOK
<1>4. Restored(j)' = file'
  BY <1>3 DEF Restored
<1>5. RollbackOK'
  BY <1>1, <1>3, <1>4 DEF RollbackOK
<1>6. IdsDiffer' /\ ProgressOK'
  BY <1>1, <1>3 DEF RefinementInv, IdsDiffer, ProgressOK
<1>7. QED BY <1>5, <1>6

\* Without and EventsWithout are the same.
LEMMA WithoutEvents == \A t : EventsWithout(t) = Without(events, t)
BY Zenon DEF EventsWithout, Without, EventExists

LEMMA RemoveEventProgress ==
  ASSUME RefinementInv, NEW p \in Procs, RemoveEvent(p)
  PROVE  IdsDiffer' /\ ProgressOK' /\ RollbackOK'
<1>1. pc'[p] = "remove_receipt" /\ \A q \in Procs : q # p => pc'[q] = "idle"
  BY MovesAlone DEF RemoveEvent, RefinementInv, CommitInv
<1>2. PICK j \in Journal : j = tx[p]
  BY DEF RemoveEvent, RefinementInv, CommitInv, StoreInv, LocalOK, Settling
<1>3. /\ events \in Seq(Event) /\ events' = Without(events, j.id)
      /\ tx'[p] = j /\ UNCHANGED <<file, backups>>
  BY <1>2, WithoutEvents DEF RemoveEvent, local, RefinementInv, CommitInv, StoreInv, TypeOK
<1>4. Restored(j) = file
  BY <1>2 DEF RemoveEvent, RefinementInv, RollbackOK
<1>5. Restored(j)' = file'
  BY <1>3, <1>4 DEF Restored
<1>6. IdsDiffer' /\ EventExists(j.id)' = FALSE
  BY <1>3, WithoutIsGone DEF RefinementInv, IdsDiffer, EventExists
<1>7. RollbackOK'
  BY <1>1, <1>3, <1>5, <1>6 DEF RollbackOK
<1>8. ProgressOK'
  BY <1>1 DEF ProgressOK
<1>9. QED BY <1>6, <1>7, <1>8

LEMMA RemoveReceiptProgress ==
  ASSUME RefinementInv, NEW p \in Procs, RemoveReceipt(p)
  PROVE  IdsDiffer' /\ ProgressOK' /\ RollbackOK'
<1>1. pc'[p] = "drop_backup" /\ \A q \in Procs : q # p => pc'[q] = "idle"
  BY MovesAlone DEF RemoveReceipt, RefinementInv, CommitInv
<1>2. UNCHANGED <<file, events, backups, tx>>
  BY DEF RemoveReceipt, local
<1>3. Restored(tx[p]) = file /\ ~EventExists(tx[p].id)
  BY DEF RemoveReceipt, RefinementInv, RollbackOK
<1>4. Restored(tx[p])' = file' /\ ~EventExists(tx[p].id)'
  BY <1>2, <1>3 DEF Restored, EventExists
<1>5. RollbackOK'
  BY <1>1, <1>4 DEF RollbackOK
<1>6. IdsDiffer' /\ ProgressOK'
  BY <1>1, <1>2 DEF RefinementInv, IdsDiffer, ProgressOK
<1>7. QED BY <1>5, <1>6

LEMMA DropBackupProgress ==
  ASSUME RefinementInv, NEW p \in Procs, DropBackup(p)
  PROVE  IdsDiffer' /\ ProgressOK' /\ RollbackOK'
<1>1. pc'[p] = "drop_journal" /\ \A q \in Procs : q # p => pc'[q] = "idle"
  BY MovesAlone DEF DropBackup, RefinementInv, CommitInv
<1>2. PICK j \in Journal : j = tx[p]
  BY DEF DropBackup, RefinementInv, CommitInv, StoreInv, LocalOK, Settling
<1>3. /\ j.id \in Txs /\ backups \in [Txs -> Text \cup {Absent}]
      /\ tx'[p] = j /\ UNCHANGED <<file, events, receipts>>
      /\ backups' = [backups EXCEPT ![j.id] = Absent]
  BY <1>2 DEF DropBackup, local, Journal, RefinementInv, CommitInv, StoreInv, TypeOK
<1>4. Committed(j) \/ (Restored(j) = file /\ ~EventExists(j.id))
  BY <1>2 DEF DropBackup, RefinementInv, RollbackOK
<1>5. CASE Committed(j)
  <2>1. Committed(j)'
    BY <1>3, <1>5 DEF Committed, Recorded, EventExists
  <2>2. RollbackOK'
    BY <1>1, <1>3, <2>1 DEF RollbackOK
  <2>3. IdsDiffer' /\ ProgressOK'
    BY <1>1, <1>3 DEF RefinementInv, IdsDiffer, ProgressOK
  <2>4. QED BY <2>2, <2>3
<1>6. CASE Restored(j) = file /\ ~EventExists(j.id)
  <2>1. Restored(j)' = file' /\ ~EventExists(j.id)'
    BY <1>3, <1>6 DEF Restored, EventExists
  <2>2. RollbackOK'
    BY <1>1, <1>3, <2>1 DEF RollbackOK
  <2>3. IdsDiffer' /\ ProgressOK'
    BY <1>1, <1>3 DEF RefinementInv, IdsDiffer, ProgressOK
  <2>4. QED BY <2>2, <2>3
<1>7. QED BY <1>4, <1>5, <1>6

LEMMA NextRefinementInv ==
  ASSUME AsyncExceptions = FALSE, RefinementInv, [Next]_vars
  PROVE  RefinementInv'
<1>0. CommitInv' /\ CommitInv /\ StoreInv
  <2>1. CommitInv
    BY DEF RefinementInv
  <2>2. CommitInv'
    BY <2>1, NextCommitInv
  <2>3. QED BY <2>1, <2>2 DEF CommitInv
<1> DEFINE Parts == IdsDiffer /\ ProgressOK /\ RollbackOK
<1> SUFFICES Parts'
  BY <1>0 DEF RefinementInv
<1>1. CASE UNCHANGED vars
  <2> USE <1>1 DEF vars, disk, local
  <2>1. \A p \in Procs : Unwritten(p)' = Unwritten(p) /\ EventIsLast(p)' = EventIsLast(p)
    BY DEF Unwritten, EventIsLast, EventOf
  <2>2. IdsDiffer' /\ ProgressOK'
    BY <2>1 DEF RefinementInv, IdsDiffer, ProgressOK, EventExists, Committed, Recorded
  <2>3. RollbackOK'
    BY DEF RefinementInv, RollbackOK, EventExists, Committed, Recorded, Restored
  <2>4. QED BY <2>2, <2>3
<1>2. ASSUME NEW p \in Procs, NEW r \in Requests, Acquire(p, r) PROVE Parts'
  <2>1. \A q \in Procs : pc[q] = "idle"
    BY <1>0, <1>2, NullAssumption DEF Acquire, StoreInv, LockOK
  <2>2. pc'[p] = "recover" /\ \A q \in Procs : q # p => pc'[q] = "idle"
    BY <1>0, <1>2, <2>1 DEF Acquire, Goto, StoreInv, TypeOK
  <2>3. QED BY <1>2, <2>2, QuietStep DEF Acquire, disk, Writing, PuttingBack
<1>3. ASSUME NEW p \in Procs,
             \/ RecoveryDone(p)
             \/ AnswerDuplicate(p) \/ AnswerExists(p) \/ RaiseInvalid(p)
             \/ DropJournal(p) \/ Release(p)
             \/ Fail(p) \/ Crash(p)
      PROVE  Parts'
  <2>1. PICK label \in Labels \ (Writing \cup PuttingBack) : Goto(p, label)
    BY <1>3 DEF RecoveryDone, AnswerDuplicate, AnswerExists, RaiseInvalid, DropJournal,
       Release, Fail, Crash, Labels, Writing, PuttingBack
  <2>2. pc[p] # "idle" /\ events' = events
    BY <1>3 DEF RecoveryDone, AnswerDuplicate, AnswerExists, RaiseInvalid, DropJournal,
       Release, Fail, Working, Crash, disk
  <2>3. pc'[p] = label /\ \A q \in Procs : q # p => pc'[q] = "idle"
    BY <1>0, <2>1, <2>2, MovesAlone
  <2>4. QED BY <2>1, <2>2, <2>3, QuietStep
<1>4. ASSUME NEW p \in Procs, Step(p) PROVE Parts'
  BY <1>3, <1>4, BeginProgress, WriteBackupProgress, WriteJournalProgress,
     WriteTargetProgress, AppendEventProgress, RecordSourceProgress, DoneRollback,
     RestoreTargetProgress, RemoveEventProgress, RemoveReceiptProgress,
     DropBackupProgress, Zenon DEF Step
<1>5. ASSUME NEW p \in Procs, Fault(p) PROVE Parts'
  BY <1>3, <1>5 DEF Fault, Interrupt
<1>6. QED BY <1>1, <1>2, <1>4, <1>5, Zenon DEF Next

-----------------------------------------------------------------------------
(* Every step is a step of AtomicStore, or none                            *)

LogOf(s) == [i \in DOMAIN s |-> Logged(s[i])]
RecordOf == {[source |-> r.source, object |-> r.object] : r \in receipts}

LEMMA NoneDoomed ==
  ASSUME Doomed = {}
  PROVE  SettledFile = file /\ SettledEvents = events
BY DEF SettledFile, SettledEvents

LEMMA OneDoomed ==
  ASSUME NEW j, Doomed = {j}
  PROVE  SettledFile = Restored(j) /\ SettledEvents = Without(events, j.id)
<1>1. Doomed # {} /\ (CHOOSE k \in Doomed : TRUE) = j
  OBVIOUS
<1>2. QED BY <1>1, WithoutEvents, Zenon DEF SettledFile, SettledEvents

\* The same of the next state.
LEMMA NoneDoomedNext ==
  ASSUME Doomed' = {}
  PROVE  SettledFile' = file' /\ SettledEvents' = events'
BY DEF SettledFile, SettledEvents

LEMMA OneDoomedNext ==
  ASSUME NEW j, Doomed' = {j}
  PROVE  SettledFile' = Restored(j)' /\ SettledEvents' = Without(events', j.id)
<1>1. Doomed' # {} /\ (CHOOSE k \in Doomed' : TRUE) = j
  OBVIOUS
<1>2. EventsWithout(j.id)' = Without(events', j.id)
  BY Zenon DEF EventsWithout, Without, EventExists
<1>3. QED BY <1>1, <1>2, Zenon DEF SettledFile, SettledEvents

Settles == SettledFile' = SettledFile /\ SettledEvents' = SettledEvents /\ receipts' = receipts

LEMMA DiskStutters ==
  ASSUME RefinementInv, UNCHANGED disk
  PROVE  Settles
<1>1. Doomed' = Doomed
  BY DEF Doomed, Committed, Recorded, EventExists, disk
<1>2. CASE Doomed = {}
  BY <1>1, <1>2, NoneDoomed, NoneDoomedNext DEF Settles, disk
<1>3. CASE Doomed # {}
  <2>1. PICK j \in journals : Doomed = {j}
    BY <1>3 DEF Doomed, RefinementInv, CommitInv, StoreInv, PendingOK, OnePending
  <2>2. Restored(j)' = Restored(j)
    BY DEF Restored, disk
  <2>3. QED BY <1>1, <2>1, <2>2, OneDoomed, OneDoomedNext DEF Settles, disk
<1>4. QED BY <1>2, <1>3

LEMMA WriteBackupStutters ==
  ASSUME RefinementInv, NEW p \in Procs, WriteBackup(p)
  PROVE  Settles
<1>1. journals = {} /\ journals' = {} /\ UNCHANGED <<file, events, receipts>>
  BY DEF WriteBackup, RefinementInv, CommitInv, StoreInv, PendingOK
<1>2. Doomed = {} /\ Doomed' = {}
  BY <1>1 DEF Doomed
<1>3. QED BY <1>1, <1>2, NoneDoomed, NoneDoomedNext DEF Settles

LEMMA WriteJournalStutters ==
  ASSUME RefinementInv, NEW p \in Procs, WriteJournal(p)
  PROVE  Settles
<1>1. PICK j \in Journal : j = tx[p]
  BY DEF WriteJournal, RefinementInv, CommitInv, StoreInv, LocalOK, Mutating
<1>2. /\ journals = {} /\ journals' = {j}
      /\ UNCHANGED <<file, events, receipts, backups>>
  BY <1>1 DEF WriteJournal, RefinementInv, CommitInv, StoreInv, PendingOK
<1>3. /\ ~Recorded(j.source) /\ ~EventExists(j.id)
      /\ j.existed = (file[j.target] # Absent)
      /\ j.existed => backups[j.id] = file[j.target]
  BY <1>1 DEF WriteJournal, RefinementInv, CommitInv, ReceiptIsLast, ProgressOK
<1>4. Doomed = {} /\ Doomed' = {j}
  BY <1>2, <1>3 DEF Doomed, Committed, Recorded
<1>5. j.target \in Paths /\ file \in [Paths -> Text \cup {Absent}]
  BY DEF Journal, RefinementInv, CommitInv, StoreInv, TypeOK
<1>6. Restored(j)' = file
  BY <1>2, <1>3, <1>5 DEF Restored, Journal
<1>7. Without(events, j.id) = events
  BY <1>3 DEF Without, EventExists
<1>8. QED BY <1>2, <1>4, <1>6, <1>7, NoneDoomed, OneDoomedNext DEF Settles

\* Beside a journal whose source is not on record before or after the step,
\* it is enough that the two undone stores are the same.
LEMMA DoomedStutters ==
  ASSUME NEW j, journals = {j}, journals' = {j}, receipts' = receipts,
         ~Recorded(j.source), Restored(j)' = Restored(j),
         Without(events', j.id) = Without(events, j.id)
  PROVE  Settles
<1>1. ~Recorded(j.source)'
  BY DEF Recorded
<1>2. Doomed = {j} /\ Doomed' = {j}
  BY <1>1 DEF Doomed, Committed
<1>3. QED BY <1>2, OneDoomed, OneDoomedNext DEF Settles

LEMMA WriteTargetStutters ==
  ASSUME RefinementInv, NEW p \in Procs, WriteTarget(p)
  PROVE  Settles
<1>1. PICK j \in Journal : j = tx[p]
  BY DEF WriteTarget, RefinementInv, CommitInv, StoreInv, LocalOK, Mutating
<1>2. /\ journals = {j} /\ journals' = {j}
      /\ UNCHANGED <<events, receipts, backups>> /\ ~Recorded(j.source)
  BY <1>1 DEF WriteTarget, RefinementInv, CommitInv, ReceiptIsLast, StoreInv, PendingOK
<1>3. /\ j.existed = (was[p] # Absent) /\ (j.existed => backups[j.id] = was[p])
      /\ file' = [file EXCEPT ![j.target] = NewText(req[p], was[p])]
  BY <1>1 DEF WriteTarget, RefinementInv, ProgressOK
<1>4. j.target \in Paths /\ file \in [Paths -> Text \cup {Absent}]
  BY DEF Journal, RefinementInv, CommitInv, StoreInv, TypeOK
<1>5. Restored(j)' = Restored(j)
  BY <1>2, <1>3, <1>4 DEF Restored
<1>6. QED BY <1>2, <1>5, DoomedStutters

LEMMA AppendEventStutters ==
  ASSUME RefinementInv, NEW p \in Procs, AppendEvent(p)
  PROVE  Settles
<1>1. PICK j \in Journal : j = tx[p]
  BY DEF AppendEvent, RefinementInv, CommitInv, StoreInv, LocalOK, Mutating
<1>2. /\ journals = {j} /\ journals' = {j}
      /\ UNCHANGED <<file, receipts, backups>> /\ ~Recorded(j.source)
  BY <1>1 DEF AppendEvent, RefinementInv, CommitInv, ReceiptIsLast, StoreInv, PendingOK
<1>3. /\ events \in Seq(Event) /\ ~EventExists(j.id)
      /\ EventOf(p) \in Event /\ EventOf(p).id = j.id
  BY <1>1, EventOfType DEF AppendEvent, RefinementInv, ProgressOK, CommitInv, StoreInv, TypeOK
<1>4. events' = Append(events, EventOf(p))
  BY <1>1, <1>3 DEF AppendEvent, EventOf
<1>5. \A i \in DOMAIN events : events[i].id # EventOf(p).id
  BY <1>3 DEF EventExists
<1>6. Without(events', j.id) = events
  BY <1>3, <1>4, <1>5, WithoutLast
<1>7. Without(events, j.id) = events
  BY <1>3 DEF Without, EventExists
<1>8. Restored(j)' = Restored(j)
  BY <1>2 DEF Restored
<1>9. QED BY <1>2, <1>6, <1>7, <1>8, DoomedStutters

LEMMA RestoreTargetStutters ==
  ASSUME RefinementInv, NEW p \in Procs, RestoreTarget(p)
  PROVE  Settles
<1>1. PICK j \in Journal : j = tx[p]
  BY DEF RestoreTarget, RefinementInv, CommitInv, StoreInv, LocalOK, Settling
<1>2. /\ journals = {j} /\ journals' = {j} /\ file' = Restored(j)
      /\ UNCHANGED <<events, receipts, backups>> /\ ~Recorded(j.source)
  BY <1>1 DEF RestoreTarget, RefinementInv, CommitInv, ReceiptIsLast, StoreInv, PendingOK,
              Settling
<1>3. j.target \in Paths /\ file \in [Paths -> Text \cup {Absent}]
  BY DEF Journal, RefinementInv, CommitInv, StoreInv, TypeOK
<1>4. Restored(j)' = Restored(j)
  BY <1>2, <1>3 DEF Restored
<1>5. QED BY <1>2, <1>4, DoomedStutters

LEMMA RemoveEventStutters ==
  ASSUME RefinementInv, NEW p \in Procs, RemoveEvent(p)
  PROVE  Settles
<1>1. PICK j \in Journal : j = tx[p]
  BY DEF RemoveEvent, RefinementInv, CommitInv, StoreInv, LocalOK, Settling
<1>2. /\ journals = {j} /\ journals' = {j} /\ events' = EventsWithout(j.id)
      /\ UNCHANGED <<file, receipts, backups>> /\ ~Recorded(j.source)
      /\ events \in Seq(Event)
  BY <1>1 DEF RemoveEvent, RefinementInv, CommitInv, ReceiptIsLast, StoreInv, PendingOK,
              Settling, TypeOK
<1>3. events' = Without(events, j.id)
  BY <1>2, WithoutEvents
<1>4. \A i \in DOMAIN events' : events'[i].id # j.id
  BY <1>2, <1>3, WithoutIsGone DEF RefinementInv, IdsDiffer
<1>5. Without(events', j.id) = events'
  BY <1>4 DEF Without
<1>6. Restored(j)' = Restored(j)
  BY <1>2 DEF Restored
<1>7. QED BY <1>2, <1>3, <1>5, <1>6, DoomedStutters

LEMMA RemoveReceiptStutters ==
  ASSUME RefinementInv, NEW p \in Procs, RemoveReceipt(p)
  PROVE  Settles
<1>1. receipts' = receipts
  BY DEF RemoveReceipt, RefinementInv, CommitInv, ReceiptIsLast, Recorded
<1>2. UNCHANGED disk
  BY <1>1 DEF RemoveReceipt, disk
<1>3. QED BY <1>2, DiskStutters

\* What a clean-up finds has been settled already.
LEMMA CleanUpStutters ==
  ASSUME RefinementInv, NEW p \in Procs, DropBackup(p) \/ DropJournal(p)
  PROVE  Settles
<1>1. PICK j \in Journal : j = tx[p]
  BY DEF DropBackup, DropJournal, RefinementInv, CommitInv, StoreInv, LocalOK, Settling
<1>2. /\ journals = {j} /\ journals' \in {{j}, {}}
      /\ UNCHANGED <<file, events, receipts>>
  BY <1>1 DEF DropBackup, DropJournal, RefinementInv, CommitInv, StoreInv, PendingOK,
              Settling
<1>3. CASE Committed(j)
  <2>1. Committed(j)'
    BY <1>2, <1>3 DEF Committed, Recorded, EventExists
  <2>2. Doomed = {} /\ Doomed' = {}
    BY <1>2, <1>3, <2>1 DEF Doomed
  <2>3. QED BY <1>2, <2>2, NoneDoomed, NoneDoomedNext DEF Settles
<1>4. CASE ~Committed(j)
  <2>1. Restored(j) = file /\ ~EventExists(j.id)
    BY <1>1, <1>4 DEF DropBackup, DropJournal, RefinementInv, RollbackOK
  <2>2. ~Committed(j)' /\ Without(events, j.id) = events
    BY <1>2, <2>1 DEF Committed, EventExists, Without
  <2>3. /\ j.id \in Txs /\ backups \in [Txs -> Text \cup {Absent}]
        /\ backups' \in {backups, [backups EXCEPT ![j.id] = Absent]}
    BY <1>1 DEF DropBackup, DropJournal, Journal, RefinementInv, CommitInv, StoreInv, TypeOK
  <2>4. Restored(j)' = file
    BY <1>2, <2>1, <2>3 DEF Restored
  <2>5. SettledFile = file /\ SettledEvents = events
    <3>1. Doomed = {j}
      BY <1>2, <1>4 DEF Doomed
    <3>2. QED BY <2>1, <2>2, <3>1, OneDoomed
  <2>6. SettledFile' = file /\ SettledEvents' = events
    <3>1. CASE journals' = {}
      BY <1>2, <3>1, NoneDoomedNext DEF Doomed
    <3>2. CASE journals' = {j}
      <4>1. Doomed' = {j}
        BY <2>2, <3>2 DEF Doomed
      <4>2. QED BY <1>2, <2>2, <2>4, <4>1, OneDoomedNext
    <3>3. QED BY <1>2, <3>1, <3>2
  <2>7. QED BY <1>2, <2>5, <2>6 DEF Settles
<1>5. QED BY <1>3, <1>4

-----------------------------------------------------------------------------
(* The receipt is the step of AtomicStore                                  *)

LEMMA LogOfAppend ==
  ASSUME NEW s \in Seq(Event), NEW e \in Event
  PROVE  LogOf(Append(s, e)) = Append(LogOf(s), Logged(e))
<1> DEFINE longer == Append(s, e)
<1>1. /\ DOMAIN longer = 1 .. Len(s) + 1 /\ DOMAIN s = 1 .. Len(s)
      /\ Len(s) \in Nat /\ longer[Len(s) + 1] = e
      /\ \A i \in 1 .. Len(s) : longer[i] = s[i]
  BY AppendProperties, LenProperties
<1> DEFINE L == {Logged(x) : x \in Event}
<1>2. /\ LogOf(s) \in Seq(L) /\ Len(LogOf(s)) = Len(s)
      /\ \A i \in 1 .. Len(s) : LogOf(s)[i] = Logged(s[i])
  <2>1. \A i \in 1 .. Len(s) : Logged(s[i]) \in L
    BY ElementOfSeq
  <2> HIDE DEF L
  <2>2. LogOf(s) = [i \in 1 .. Len(s) |-> Logged(s[i])]
    BY <1>1 DEF LogOf
  <2>3. QED BY <1>1, <2>1, <2>2
<1>3. Logged(e) \in L
  OBVIOUS
<1> HIDE DEF L, longer
<1>4. /\ Append(LogOf(s), Logged(e)) \in Seq(L)
      /\ Len(Append(LogOf(s), Logged(e))) = Len(s) + 1
      /\ \A i \in 1 .. Len(s) : Append(LogOf(s), Logged(e))[i] = Logged(s[i])
      /\ Append(LogOf(s), Logged(e))[Len(s) + 1] = Logged(e)
  BY <1>2, <1>3, AppendProperties
<1>5. /\ LogOf(longer) \in Seq(L) /\ Len(LogOf(longer)) = Len(s) + 1
      /\ \A i \in 1 .. Len(s) + 1 : LogOf(longer)[i] = Logged(longer[i])
  <2>1. \A i \in 1 .. Len(s) + 1 : Logged(longer[i]) \in L
    <3>1. \A i \in 1 .. Len(s) + 1 : longer[i] \in Event
      BY <1>1, ElementOfSeq
    <3>2. QED BY <3>1 DEF L
  <2>2. LogOf(longer) = [i \in 1 .. Len(s) + 1 |-> Logged(longer[i])]
    BY <1>1 DEF LogOf
  <2>3. QED BY <1>1, <2>1, <2>2
<1>6. \A i \in 1 .. Len(s) + 1 : LogOf(longer)[i] = Append(LogOf(s), Logged(e))[i]
  BY <1>1, <1>4, <1>5
<1>7. LogOf(longer) = Append(LogOf(s), Logged(e))
  BY <1>4, <1>5, <1>6, SeqEqual
<1>8. QED BY <1>7 DEF longer

LEMMA RecordSourceApplies ==
  ASSUME RefinementInv, NEW p \in Procs, RecordSource(p)
  PROVE  \E r \in Atomic!Requests, f \in Atomic!Paths : Atomic!Apply(r, f)
<1>1. PICK j \in Journal : j = tx[p] /\ tx'[p] = j
  BY DEF RecordSource, local, RefinementInv, CommitInv, StoreInv, LocalOK, Mutating
<1>2. PICK r \in Requests : r = req[p] /\ r.source = j.source
  BY <1>1 DEF RecordSource, RefinementInv, CommitInv, StoreInv, LocalOK, Mutating
<1> DEFINE f == j.target
           former == was[p]
<1>3. /\ f \in Paths /\ file \in [Paths -> Text \cup {Absent}]
      /\ journals = {j} /\ UNCHANGED <<file, events, journals>>
      /\ receipts' = receipts \cup {[source |-> r.source, object |-> r.id, event |-> j.id]}
      /\ ~Recorded(j.source)
  BY <1>1, <1>2 DEF RecordSource, Journal, RefinementInv, CommitInv, ReceiptIsLast, StoreInv,
                    TypeOK, PendingOK
<1>4. /\ j.existed = (former # Absent) /\ (j.existed => backups[j.id] = former)
      /\ file[f] = NewText(r, former) /\ Allowed(Unwritten(p), r, f)
      /\ EventIsLast(p)
  BY <1>1, <1>2 DEF RecordSource, RefinementInv, ProgressOK
<1>5. Unwritten(p) = [file EXCEPT ![f] = former]
  BY <1>1 DEF Unwritten
<1> HIDE DEF f, former
<1>6. SettledFile = Unwritten(p) /\ SettledEvents = Without(events, j.id)
  <2>1. Doomed = {j}
    BY <1>3 DEF Doomed, Committed
  <2>2. Restored(j) = Unwritten(p)
    BY <1>3, <1>4, <1>5 DEF Restored, f
  <2>3. QED BY <2>1, <2>2, OneDoomed
<1>7. SettledFile' = file /\ SettledEvents' = events
  <2>1. Committed(j)'
    <3>1. (\A q \in Procs : pc[q] = "recorded" => Committed(tx[q]))'
      BY RecordSourceProgress DEF ProgressOK
    <3>2. pc'[p] = "recorded"
      BY MovesAlone DEF RecordSource, RefinementInv, CommitInv
    <3>3. QED BY <1>1, <3>1, <3>2
  <2>2. Doomed' = {}
    BY <1>3, <2>1 DEF Doomed
  <2>3. QED BY <1>3, <2>2, NoneDoomedNext
<1>8. Unwritten(p)[f] = former /\ file = [Unwritten(p) EXCEPT ![f] = NewText(r, former)]
  BY <1>3, <1>4, <1>5
<1>9. PICK log \in Seq(Event) :
        /\ events = Append(log, EventOf(p)) /\ Without(events, j.id) = log
        /\ EventOf(p) \in Event
  <2>1. EventOf(p) \in Event /\ EventOf(p).id = j.id
    BY <1>1, EventOfType DEF RecordSource, RefinementInv, CommitInv
  <2>2. PICK log \in Seq(Event) : /\ events = Append(log, EventOf(p))
                                  /\ \A i \in DOMAIN log : log[i].id # j.id
    BY <1>1, <1>4 DEF EventIsLast
  <2>3. QED BY <2>1, <2>2, WithoutLast
<1>10. LogOf(SettledEvents)' = Append(LogOf(SettledEvents), Atomic!Entry(r, former))
  <2>1. Logged(EventOf(p)) = Atomic!Entry(r, former)
    BY <1>2 DEF Logged, EventOf, Atomic!Entry, Atomic!OldStatus, OldStatus,
                Atomic!NewText, NewText, former
  <2>2. LogOf(events) = Append(LogOf(log), Logged(EventOf(p)))
    BY <1>9, LogOfAppend
  <2>3. QED BY <1>6, <1>7, <1>9, <2>1, <2>2, Zenon DEF LogOf
<1>11. RecordOf' = RecordOf \cup {[source |-> r.source, object |-> r.id]}
  <2> DEFINE entry(x) == [source |-> x.source, object |-> x.object]
             new == [source |-> r.source, object |-> r.id, event |-> j.id]
  <2>1. entry(new) = [source |-> r.source, object |-> r.id]
    OBVIOUS
  <2>2. RecordOf = {entry(x) : x \in receipts} /\ RecordOf' = {entry(x) : x \in receipts'}
    BY DEF RecordOf
  <2>3. receipts' = receipts \cup {new}
    BY <1>3
  <2> HIDE DEF entry, new
  <2>4. QED BY <2>1, <2>2, <2>3
<1>12. ~Atomic!Applied(r.source)
  BY <1>2, <1>3 DEF Atomic!Applied, Recorded
<1>13. Atomic!Allowed(SettledFile, r, f)
  BY <1>4, <1>6 DEF Atomic!Allowed, Allowed, Atomic!KindsOf, KindsOf,
     Atomic!ValidTransition, ValidTransition, Atomic!LifecycleTransitions,
     LifecycleTransitions
<1>14. SettledFile' = [SettledFile EXCEPT ![f] = Atomic!NewText(r, SettledFile[f])]
  BY <1>6, <1>7, <1>8 DEF Atomic!NewText, NewText
<1>15. SettledFile[f] = former
  BY <1>6, <1>8
<1>16. Atomic!Apply(r, f)
  BY <1>10, <1>11, <1>12, <1>13, <1>14, <1>15 DEF Atomic!Apply, LogOf, RecordOf
<1>17. r \in Atomic!Requests /\ f \in Atomic!Paths
  BY <1>3 DEF Atomic!Requests, Requests, Atomic!Paths, Paths
<1>18. QED BY <1>16, <1>17

\* Whatever dies and wherever, the store that the files stand for -- the one
\* that settling their journal leaves -- changes in single steps and applies
\* no source twice: a mutation takes effect when its receipt is written, and
\* not at all if it does not get that far.
THEOREM StoreIsAtomic ==
  ASSUME AsyncExceptions = FALSE
  PROVE  Spec => ImplementsAtomicStore
<1>1. Init => Atomic!Init
  <2> SUFFICES ASSUME Init PROVE Atomic!Init
    OBVIOUS
  <2>1. SettledFile = file /\ SettledEvents = << >>
    BY NoneDoomed DEF Init, Doomed
  <2>2. QED BY <2>1 DEF Init, Atomic!Init, Atomic!Paths, Paths
<1>2. RefinementInv /\ [Next]_vars =>
        [Atomic!Next]_<<SettledFile, LogOf(SettledEvents), RecordOf>>
  <2> SUFFICES ASSUME RefinementInv, [Next]_vars
               PROVE  Atomic!Next \/ Settles
    BY DEF Settles, LogOf, RecordOf
  <2>1. CASE UNCHANGED vars
    BY <2>1, DiskStutters DEF vars
  <2>2. ASSUME NEW p \in Procs, RecordSource(p) PROVE Atomic!Next
    BY <2>2, RecordSourceApplies DEF Atomic!Next
  <2>3. ASSUME NEW p \in Procs, \E r \in Requests : Acquire(p, r) PROVE Settles
    BY <2>3, DiskStutters DEF Acquire
  <2>4. ASSUME NEW p \in Procs, Step(p), ~RecordSource(p) PROVE Settles
    <3>1. CASE \/ WriteBackup(p) \/ WriteJournal(p) \/ WriteTarget(p) \/ AppendEvent(p)
               \/ RestoreTarget(p) \/ RemoveEvent(p) \/ RemoveReceipt(p)
               \/ DropBackup(p) \/ DropJournal(p)
      BY <3>1, WriteBackupStutters, WriteJournalStutters, WriteTargetStutters,
         AppendEventStutters, RestoreTargetStutters, RemoveEventStutters,
         RemoveReceiptStutters, CleanUpStutters
    <3>2. CASE \/ \E j \in journals : RecoverJournal(p, j)
               \/ RecoveryDone(p)
               \/ AnswerDuplicate(p) \/ AnswerExists(p) \/ RaiseInvalid(p)
               \/ \E f \in Paths, t \in Txs : Begin(p, f, t)
               \/ LeaveTry(p) \/ Release(p)
      BY <3>2, DiskStutters DEF RecoverJournal, RecoveryDone, AnswerDuplicate, AnswerExists,
         RaiseInvalid, Begin, LeaveTry, Release
    <3>3. QED BY <2>4, <3>1, <3>2, Zenon DEF Step
  <2>5. ASSUME NEW p \in Procs, Fault(p) PROVE Settles
    BY <2>5, DiskStutters DEF Fault, Fail, Interrupt, Crash
  <2>6. QED BY <2>1, <2>2, <2>3, <2>4, <2>5, Zenon DEF Next
<1>3. RefinementInv /\ [Next]_vars => RefinementInv'
  BY NextRefinementInv
<1>4. QED
  BY <1>1, <1>2, <1>3, InitRefinementInv, PTL
     DEF Spec, ImplementsAtomicStore, Atomic!Spec, LogOf, RecordOf

-----------------------------------------------------------------------------
(* Review batches                                                          *)

\* No observation is put up for review twice: record_capture_review_notice
\* chooses the batch once more when it holds the lock.
THEOREM PutUpOnce == ReviewsSpec => []DispatchedOnce
<1>1. ReviewsInit => DispatchedOnce
  BY DEF ReviewsInit, DispatchedOnce
<1>2. DispatchedOnce /\ [ReviewsNext]_rvars => DispatchedOnce'
  <2> SUFFICES ASSUME DispatchedOnce, [ReviewsNext]_rvars PROVE DispatchedOnce'
    OBVIOUS
  <2>1. ASSUME NEW t \in Tasks, Records(t) PROVE DispatchedOnce'
    <3>1. CASE pending' = pending
      BY <3>1 DEF DispatchedOnce
    <3>2. CASE pending' = pending \cup {Batch}
      <4>1. \A b \in pending : b \cap Batch = {}
        BY DEF Batch, FirstOf, Eligible
      <4> QED
        BY <3>2, <4>1 DEF DispatchedOnce
    <3> QED
      BY <2>1, <3>1, <3>2 DEF Records, IsCurrent, cache
  <2>2. ASSUME LosesCache PROVE DispatchedOnce'
    BY <2>2 DEF LosesCache, DispatchedOnce
  <2>3. ASSUME pending' = pending PROVE DispatchedOnce'
    BY <2>3 DEF DispatchedOnce
  <2>4. ASSUME NEW t \in Tasks, Goes(t) \/ NotesOnly(t) \/ EndsEarly(t) PROVE DispatchedOnce'
    BY <2>1, <2>3, <2>4
    DEF Goes, ReadsStatus, ReadsBatch, Notes, NotesOnly, EndsEarly, cache
  <2>5. ASSUME NEW S \in SUBSET Findings, Commits(S) \/ Decides(S) PROVE DispatchedOnce'
    BY <2>3, <2>5 DEF Commits, Decides, cache
  <2>6. ASSUME NEW o \in Findings, Forgets(o) \/ Ages(o) PROVE DispatchedOnce'
    BY <2>3, <2>6 DEF Forgets, Ages, cache
  <2>7. ASSUME NEW all \in BOOLEAN, NEW filter \in Filters, Begins(all, filter)
        PROVE DispatchedOnce'
    BY <2>3, <2>7 DEF Begins, cache
  <2>8. ASSUME CoolsDown \/ Continues \/ Leaves \/ UNCHANGED rvars PROVE DispatchedOnce'
    BY <2>3, <2>8 DEF CoolsDown, Continues, Leaves, rvars, cache
  <2> QED
    BY <2>2, <2>4, <2>5, <2>6, <2>7, <2>8 DEF ReviewsNext
<1> QED
  BY <1>1, <1>2, PTL DEF ReviewsSpec

-----------------------------------------------------------------------------
(* Listings                                                                 *)

\* The order of a listing is a strict total one: captured_at backwards, and
\* identifiers where it is the same.
LEMMA AfterIsTotal ==
  ASSUME NEW o \in Findings, NEW p \in Findings
  PROVE  /\ ~After(o, o)
         /\ ~(After(o, p) /\ After(p, o))
         /\ o = p \/ After(o, p) \/ After(p, o)
BY ReviewsAssumption DEF After

LEMMA AfterIsTransitive ==
  ASSUME NEW o \in Findings, NEW p \in Findings, NEW q \in Findings,
         After(o, p), After(p, q)
  PROVE  After(o, q)
BY ReviewsAssumption DEF After

\* A page is a beginning of what it is taken from.
LEMMA PageIsFirst ==
  ASSUME NEW S \in SUBSET Findings, NEW c \in LatestOf(S), NEW o \in S, After(c, o)
  PROVE  o \in LatestOf(S)
<1> DEFINE Ahead(x) == {p \in S : After(x, p)}
<1>1. Ahead(o) \subseteq Ahead(c)
  BY AfterIsTransitive DEF LatestOf
<1>2. IsFiniteSet(Ahead(c))
  BY ReviewsAssumption, FS_Subset
<1>3. Cardinality(Ahead(o)) <= Cardinality(Ahead(c)) /\ IsFiniteSet(Ahead(o))
  BY <1>1, <1>2, FS_Subset
<1>4. Cardinality(Ahead(o)) \in Nat /\ Cardinality(Ahead(c)) \in Nat
  BY <1>2, <1>3, FS_CardinalityType
<1>5. Cardinality(Ahead(c)) < PageLimit
  BY DEF LatestOf
<1>6. Cardinality(Ahead(o)) < PageLimit
  BY <1>3, <1>4, <1>5, ReviewsAssumption
<1> QED
  BY <1>6 DEF LatestOf

IsShown(o) == \E i \in DOMAIN listing.pages : o \in listing.pages[i]

Found == Hits(listing.all, listing.filter, visible, decided)

\* What a listing has shown: pages that have nothing in common and end with
\* its cursor, and of what was there all the time everything but what comes
\* after the cursor; everything, when there is no cursor any more.
PagesInv ==
  /\ listing.pages \in Seq(SUBSET Findings) /\ listing.pages # << >>
  /\ \A i, j \in DOMAIN listing.pages :
       i # j => listing.pages[i] \cap listing.pages[j] = {}
  /\ listing.at = "listed" => \A o \in since : IsShown(o)
  /\ listing.at = "paging" =>
       \A c \in listing.pages[Len(listing.pages)] :
         IsLast(c, listing.pages[Len(listing.pages)]) =>
           /\ \A o \in Findings : IsShown(o) => o = c \/ After(c, o)
           /\ \A o \in since : IsShown(o) \/ After(o, c)

ListingInv ==
  /\ visible \subseteq Findings
  /\ listing.at # "idle" => PagesInv /\ since \subseteq Found

\* A page more, of items that all come after what was shown.
LEMMA PageKeepsInv ==
  ASSUME NEW all, NEW filter,
         NEW pages \in Seq(SUBSET Findings), NEW items \in SUBSET Findings,
         Shows(all, filter, pages, items),
         \A i, j \in DOMAIN pages : i # j => pages[i] \cap pages[j] = {},
         \A i \in DOMAIN pages : \A o \in pages[i], p \in items : After(p, o),
         \A o \in since' : o \in items \/ \E i \in DOMAIN pages : o \in pages[i]
  PROVE  PagesInv'
<1> DEFINE page == LatestOf(items)
<1> DEFINE n == Len(pages) + 1
<1>1. /\ listing'.pages = Append(pages, page)
      /\ listing'.at = IF items = page THEN "listed" ELSE "paging"
  BY DEF Shows
<1>2. page \in SUBSET Findings /\ page \subseteq items
  BY DEF LatestOf
<1> HIDE DEF page
<1>3. /\ listing'.pages \in Seq(SUBSET Findings) /\ listing'.pages # << >>
      /\ DOMAIN pages = 1 .. Len(pages) /\ Len(pages) \in Nat
      /\ Len(listing'.pages) = n /\ DOMAIN listing'.pages = 1 .. n
      /\ \A i \in DOMAIN pages : listing'.pages[i] = pages[i]
      /\ listing'.pages[n] = page
  BY <1>1, <1>2
<1>4. \A i \in DOMAIN listing'.pages : i \in DOMAIN pages \/ i = n
  BY <1>3
<1>5. \A i \in DOMAIN pages : pages[i] \cap page = {} /\ pages[i] \subseteq Findings
  BY <1>2, AfterIsTotal
<1>6. \A i, j \in DOMAIN listing'.pages :
        i # j => listing'.pages[i] \cap listing'.pages[j] = {}
  BY <1>3, <1>4, <1>5
<1>7. \A o : IsShown(o)' <=> o \in page \/ \E i \in DOMAIN pages : o \in pages[i]
  <2>1. \A i \in DOMAIN pages : i \in DOMAIN listing'.pages
    BY <1>3
  <2>2. n \in DOMAIN listing'.pages
    BY <1>3
  <2> QED
    BY <1>3, <1>4, <2>1, <2>2 DEF IsShown
<1>8. listing'.at = "listed" => \A o \in since' : IsShown(o)'
  BY <1>1, <1>7 DEF page
<1>9. ASSUME NEW c \in page, IsLast(c, page)
      PROVE  /\ \A o \in Findings : IsShown(o)' => o = c \/ After(c, o)
             /\ \A o \in since' : IsShown(o)' \/ After(o, c)
  <2>1. ASSUME NEW o \in Findings, IsShown(o)' PROVE o = c \/ After(c, o)
    <3>1. CASE o \in page
      BY <3>1, <1>9 DEF IsLast
    <3>2. CASE \E i \in DOMAIN pages : o \in pages[i]
      BY <3>2, <1>2
    <3> QED
      BY <1>7, <2>1, <3>1, <3>2
  <2>2. ASSUME NEW o \in items, o \notin page PROVE After(o, c)
    <3>1. ~After(c, o)
      BY <2>2, <1>9, PageIsFirst DEF page
    <3> QED
      BY <2>2, <3>1, <1>2, <1>9, AfterIsTotal
  <2>3. ASSUME NEW o \in since' PROVE IsShown(o)' \/ After(o, c)
    BY <1>7, <2>2, <2>3
  <2> QED
    BY <2>1, <2>3
<1> QED
  BY <1>3, <1>6, <1>8, <1>9 DEF PagesInv

\* A listing that ends shows all that was there all the time, and nothing twice:
\* the cursor is a position in an order that the observations themselves have.
THEOREM ShownOnce == ReviewsSpec => []ListingIsWhole
<1>1. ReviewsInit => ListingInv
  BY DEF ReviewsInit, ListingInv, Unread
<1>2. ListingInv /\ [ReviewsNext]_rvars => ListingInv'
  <2> SUFFICES ASSUME ListingInv, [ReviewsNext]_rvars PROVE ListingInv'
    OBVIOUS
  <2>1. ASSUME visible' \subseteq Findings, Meanwhile PROVE ListingInv'
    <3>1. listing' = listing /\ since' \subseteq since /\ since' \subseteq Found'
      BY <2>1 DEF Meanwhile, Found
    <3>2. \A o : IsShown(o)' <=> IsShown(o)
      BY <3>1 DEF IsShown
    <3>3. PagesInv => PagesInv'
      BY <3>1, <3>2 DEF PagesInv
    <3> QED
      BY <2>1, <3>1, <3>3 DEF ListingInv
  <2>2. ASSUME NEW t \in Tasks, Goes(t) \/ NotesOnly(t) \/ EndsEarly(t) PROVE visible' = visible
    BY <2>2 DEF Goes, ReadsStatus, ReadsBatch, Records, Notes, NotesOnly, EndsEarly, found
  <2>3. ASSUME NEW S \in SUBSET Findings, Commits(S) \/ Decides(S)
        PROVE visible' \subseteq Findings
    BY <2>3 DEF Commits, Decides, ListingInv
  <2>4. ASSUME NEW o \in Findings, Forgets(o) \/ Ages(o) PROVE visible' \subseteq visible
    BY <2>4 DEF Forgets, Ages
  <2>5. ASSUME CoolsDown \/ LosesCache PROVE visible' = visible
    BY <2>5 DEF CoolsDown, LosesCache, found
  <2>6. ASSUME NEW all \in BOOLEAN, NEW filter \in Filters, Begins(all, filter)
        PROVE ListingInv'
    <3> DEFINE items == Hits(all, filter, visible, decided)
    <3>1. Shows(all, filter, << >>, items) /\ since' = items
      BY <2>6 DEF Begins
    <3>2. items \in SUBSET Findings /\ visible' = visible /\ decided' = decided
      BY <2>6 DEF Begins, Hits, found, ListingInv
    <3>3. listing'.all = all /\ listing'.filter = filter
      BY <3>1 DEF Shows
    <3>4. since' \subseteq Found'
      BY <3>1, <3>2, <3>3 DEF Found
    <3> HIDE DEF items
    <3>5. PagesInv'
      <4> DEFINE none == << >>
      <4>1. none \in Seq(SUBSET Findings) /\ DOMAIN none = {}
        OBVIOUS
      <4>2. Shows(all, filter, none, items) /\ \A o \in since' : o \in items
        BY <3>1
      <4> HIDE DEF none
      <4> QED
        BY <3>2, <4>1, <4>2, PageKeepsInv
    <3> QED
      BY <3>2, <3>4, <3>5 DEF ListingInv
  <2>7. ASSUME Continues PROVE ListingInv'
    <3> DEFINE last == listing.pages[Len(listing.pages)]
    <3> DEFINE items == Found
    <3>1. PagesInv /\ listing.at = "paging" /\ since \subseteq items
      BY <2>7 DEF Continues, ListingInv
    <3>2. /\ items \in SUBSET Findings /\ visible' = visible /\ decided' = decided
          /\ since' = since
      BY <2>7 DEF Continues, Found, Hits, found, ListingInv
    <3>3. PICK c \in last :
            /\ IsLast(c, last)
            /\ IF c \in items
               THEN Shows(listing.all, listing.filter, listing.pages, Behind(items, c))
               ELSE listing' = Unread
      BY <2>7 DEF Continues, Found
    <3>4. CASE c \notin items
      BY <3>2, <3>3, <3>4 DEF ListingInv, Unread
    <3>5. CASE c \in items
      <4>1. /\ \A o \in Findings : IsShown(o) => o = c \/ After(c, o)
            /\ \A o \in since : IsShown(o) \/ After(o, c)
        BY <3>1, <3>3 DEF PagesInv
      <4>2. Behind(items, c) \in SUBSET Findings /\ c \in Findings
        BY <3>2, <3>5 DEF Behind
      <4>3. ASSUME NEW i \in DOMAIN listing.pages, NEW o \in listing.pages[i],
                   NEW p \in Behind(items, c)
            PROVE  After(p, o)
        <5>1. IsShown(o) /\ o \in Findings /\ p \in Findings /\ After(p, c)
          BY <3>1, <4>2, <4>3 DEF IsShown, PagesInv, Behind
        <5> QED
          BY <4>1, <4>2, <5>1, AfterIsTransitive
      <4>4. \A o \in since' : o \in Behind(items, c) \/ IsShown(o)
        BY <3>1, <3>2, <4>1 DEF Behind
      <4>5. PagesInv'
        BY <3>1, <3>3, <3>5, <4>2, <4>3, <4>4, PageKeepsInv DEF IsShown, PagesInv
      <4>6. listing'.all = listing.all /\ listing'.filter = listing.filter
        BY <3>3, <3>5 DEF Shows
      <4>7. since' \subseteq Found'
        BY <3>1, <3>2, <4>6 DEF Found
      <4> QED
        BY <3>2, <4>5, <4>7 DEF ListingInv
    <3> QED
      BY <3>4, <3>5
  <2>8. ASSUME Leaves PROVE ListingInv'
    BY <2>8 DEF Leaves, ListingInv, Unread, found
  <2>9. ASSUME UNCHANGED rvars PROVE ListingInv'
    BY <2>9 DEF rvars, reading, found, ListingInv, PagesInv, IsShown, Found, Hits, IsLast
  <2>10. CASE ReviewsNext
    <3>1. visible \subseteq Findings
      BY DEF ListingInv
    <3> QED
      BY <2>1, <2>2, <2>3, <2>4, <2>5, <2>6, <2>7, <2>8, <2>10, <3>1 DEF ReviewsNext
  <2> QED
    BY <2>9, <2>10
<1>3. ListingInv => ListingIsWhole
  BY DEF ListingInv, PagesInv, ListingIsWhole, IsShown
<1> QED
  BY <1>1, <1>2, <1>3, PTL DEF ReviewsSpec
=============================================================================
