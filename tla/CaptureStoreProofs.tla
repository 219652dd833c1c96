------------------------- MODULE CaptureStoreProofs -------------------------
(***************************************************************************)
(* Type correctness of CaptureStore, that no two processes own the lease   *)
(* of one receipt, that a complete receipt stays complete, what readers    *)
(* see of it, and that unfinished work can be found, for any number of     *)
(* processes, leases, crashes and restores.                                *)
(***************************************************************************)
EXTENDS CaptureStore, FiniteSetTheorems, SequenceTheorems, TLAPS

\* What each file may hold.
Contents ==
  [receipt |-> Receipt \cup {None}, ledger |-> Statuses \cup {None},
   manifest |-> Batch \cup {None}, observations |-> Batch, staged |-> Batch,
   journal |-> Batch \cup {None}, transition |-> [from : Statuses, to : Statuses] \cup {None},
   lease |-> Lease \cup {None}, epoch |-> Nat, workset |-> Workset \cup {None},
   config |-> 1 .. MaxConfig, reserved |-> SUBSET Nat, settled |-> SUBSET Nat]

FileNames == {"receipt", "ledger", "manifest", "observations", "staged", "journal", "transition",
              "lease", "epoch", "workset", "config", "reserved", "settled"}

\* Writes of these files, and the one that marks the receipt active or not.
WritesOf(names) ==
  (UNION {[file : {f}, value : Contents[f]] : f \in names})
    \cup [file : {"active"}, value : BOOLEAN]

\* Most sections leave the epoch alone.
Calmly == Seq(WritesOf(FileNames \ {"epoch"}))
Writes == Seq(WritesOf(FileNames))

TypeInv ==
  /\ disk \in Disk
  /\ todo \in [Workers -> Writes]
  /\ pc \in [Workers -> Labels]
  /\ job \in [Workers -> Job]
  /\ kept \in [zip : Disk \cup {None}, former : Disk \cup {None}, restores : Nat]

\* From a lease that is taken to its release a process goes by one token.
Owning == Leased \cup {"parked", "release", "handled", "identity_raised", "retried"}

\* The epoch is about to be raised.
Opens(w) == todo[w] # << >> /\ Head(todo[w]).file = "epoch"

\* The writes of acquire_lease.
Taking(w) ==
  /\ pc[w] \in {"leased", "parked"}
  /\ job[w].era = kept.restores /\ disk.epoch < job[w].token
  /\ \E l \in Lease : todo[w] = Write("epoch", job[w].token) \o Write("lease", l)

OneWriter == \A v, w \in Workers : todo[v] # << >> /\ todo[w] # << >> => v = w

\* Only acquire_lease and a restore write the epoch.
EpochsAreRaised ==
  \A w \in Workers : pc[w] \notin Restoring => todo[w] \in Calmly \/ Taking(w)

\* A token taken since the last restore is not above the epoch, and a restore
\* that is under way finds none.
TokensAreOld ==
  \A w \in Workers : pc[w] \in Owning =>
    /\ job[w].era <= kept.restores
    /\ job[w].era = kept.restores => job[w].token <= disk.epoch \/ Opens(w)
    /\ job[w].era = kept.restores =>
         \A v \in Workers : pc[v] \in Restoring => todo[v] = << >>

TokensDiffer ==
  \A v, w \in Workers :
    v # w /\ pc[v] \in Owning /\ pc[w] \in Owning /\ job[v].era = job[w].era
      => job[v].token # job[w].token

LeaseInv == OneWriter /\ EpochsAreRaised /\ TokensAreOld /\ TokensDiffer

CaptureInv == TypeInv /\ LeaseInv

-----------------------------------------------------------------------------
(* Lists of writes                                                         *)

LEMMA Lists ==
  ASSUME NEW S
  PROVE  /\ << >> \in Seq(S)
         /\ \A x \in S : << x >> \in Seq(S)
         /\ \A s, t \in Seq(S) : s \o t \in Seq(S)
         /\ \A n \in Nat : [1 .. n -> S] \subseteq Seq(S)
         /\ \A T : S \subseteq T => Seq(S) \subseteq Seq(T)
OBVIOUS

LEMMA Joined ==
  /\ << >> \in Calmly /\ \A s, t \in Calmly : s \o t \in Calmly
  /\ << >> \in Writes /\ \A s, t \in Writes : s \o t \in Writes
BY Lists DEF Calmly, Writes

LEMMA CalmIsWritten == Calmly \subseteq Writes
<1>1. WritesOf(FileNames \ {"epoch"}) \subseteq WritesOf(FileNames)
  <2>1. \A f \in FileNames \ {"epoch"} : f \in FileNames
    OBVIOUS
  <2>2. QED BY <2>1, Zenon DEF WritesOf
<1>2. QED BY <1>1, Lists DEF Calmly, Writes

LEMMA IsWrite ==
  ASSUME NEW names, NEW f \in names, NEW v \in Contents[f]
  PROVE  [file |-> f, value |-> v] \in WritesOf(names)
<1>1. [file |-> f, value |-> v] \in [file : {f}, value : Contents[f]]
  OBVIOUS
<1>2. [file : {f}, value : Contents[f]] \in {[file : {g}, value : Contents[g]] : g \in names}
  OBVIOUS
<1>3. [file |-> f, value |-> v] \in UNION {[file : {g}, value : Contents[g]] : g \in names}
  BY <1>1, <1>2, Zenon
<1>4. QED BY <1>3, Zenon DEF WritesOf

LEMMA OneWrite ==
  ASSUME NEW f \in FileNames, NEW v \in Contents[f]
  PROVE  Write(f, v) \in Writes /\ (f # "epoch" => Write(f, v) \in Calmly)
<1>1. [file |-> f, value |-> v] \in WritesOf(FileNames)
  BY IsWrite
<1>2. f # "epoch" => [file |-> f, value |-> v] \in WritesOf(FileNames \ {"epoch"})
  BY IsWrite
<1>3. QED BY <1>1, <1>2, Lists DEF Write, Writes, Calmly

LEMMA CalmWrites ==
  /\ \A v \in Receipt \cup {None} : Write("receipt", v) \in Calmly
  /\ \A v \in Statuses \cup {None} : Write("ledger", v) \in Calmly
  /\ \A v \in Batch \cup {None} : Write("manifest", v) \in Calmly
  /\ \A v \in Batch \cup {None} : Write("journal", v) \in Calmly
  /\ \A v \in [from : Statuses, to : Statuses] \cup {None} : Write("transition", v) \in Calmly
  /\ \A v \in Lease \cup {None} : Write("lease", v) \in Calmly
  /\ \A v \in Workset \cup {None} : Write("workset", v) \in Calmly
  /\ \A v \in SUBSET Nat : Write("reserved", v) \in Calmly /\ Write("settled", v) \in Calmly
BY OneWrite DEF FileNames, Contents

LEMMA MarksAreCalm == MarkActive \in Calmly /\ RetireActive \in Calmly
<1>1. ASSUME NEW b \in BOOLEAN PROVE Write("active", b) \in Calmly
  <2> DEFINE mark == [file |-> "active", value |-> b]
             marks == [file : {"active"}, value : BOOLEAN]
             others == UNION {[file : {f}, value : Contents[f]] : f \in FileNames \ {"epoch"}}
  <2>1. mark \in marks
    OBVIOUS
  <2>2. WritesOf(FileNames \ {"epoch"}) = others \cup marks
    BY Zenon DEF WritesOf
  <2> HIDE DEF mark, marks, others
  <2>3. mark \in WritesOf(FileNames \ {"epoch"})
    BY <2>1, <2>2
  <2>4. QED BY <2>3, Lists DEF Write, Calmly, mark
<1>2. QED BY <1>1 DEF MarkActive, RetireActive

LEMMA DiskHas ==
  ASSUME NEW d \in Disk
  PROVE  /\ DOMAIN d = FileNames
         /\ d.receipt \in Receipt \cup {None} /\ d.ledger \in Statuses \cup {None}
         /\ d.manifest \in Batch \cup {None} /\ d.observations \in Batch /\ d.staged \in Batch
         /\ d.journal \in Batch \cup {None}
         /\ d.transition \in [from : Statuses, to : Statuses] \cup {None}
         /\ d.lease \in Lease \cup {None} /\ d.epoch \in Nat /\ d.workset \in Workset \cup {None}
         /\ d.config \in 1 .. MaxConfig /\ d.reserved \in SUBSET Nat /\ d.settled \in SUBSET Nat
BY DEF Disk, FileNames

LEMMA DiskReplaced ==
  ASSUME NEW d \in Disk, NEW f \in FileNames, NEW v \in Contents[f]
  PROVE  /\ [d EXCEPT ![f] = v] \in Disk
         /\ f = "epoch" => [d EXCEPT ![f] = v].epoch = v
         /\ f # "epoch" => [d EXCEPT ![f] = v].epoch = d.epoch
<1>1. CASE f = "receipt"
  BY <1>1 DEF Disk, Contents
<1>2. CASE f = "ledger"
  BY <1>2 DEF Disk, Contents
<1>3. CASE f = "manifest"
  BY <1>3 DEF Disk, Contents
<1>4. CASE f = "observations"
  BY <1>4 DEF Disk, Contents
<1>5. CASE f = "staged"
  BY <1>5 DEF Disk, Contents
<1>6. CASE f = "journal"
  BY <1>6 DEF Disk, Contents
<1>7. CASE f = "transition"
  BY <1>7 DEF Disk, Contents
<1>8. CASE f = "lease"
  BY <1>8 DEF Disk, Contents
<1>9. CASE f = "epoch"
  BY <1>9 DEF Disk, Contents
<1>10. CASE f = "workset"
  BY <1>10 DEF Disk, Contents
<1>11. CASE f = "config"
  BY <1>11 DEF Disk, Contents
<1>12. CASE f = "reserved"
  BY <1>12 DEF Disk, Contents
<1>13. CASE f = "settled"
  BY <1>13 DEF Disk, Contents
<1>14. QED
  BY <1>1, <1>2, <1>3, <1>4, <1>5, <1>6, <1>7, <1>8, <1>9, <1>10, <1>11, <1>12, <1>13 DEF FileNames

\* A batch is finite, so that its members can be written one after the other.
LEMMA Enumerated ==
  ASSUME NEW batch \in Batch
  PROVE  \E n \in Nat : /\ SetToSeq(batch) \in [1 .. n -> batch]
                        /\ Len(SetToSeq(batch)) = n /\ n = Cardinality(batch)
<1>1. IsFiniteSet(batch)
  BY CaptureAssumption, FS_Subset DEF Batch
<1>2. PICK n \in Nat : n = Cardinality(batch)
  BY <1>1, FS_CardinalityType
<1>3. ExistsBijection(1 .. n, batch)
  BY <1>1, <1>2, FS_CardinalityType
<1>4. \E f \in [1 .. n -> batch] : IsInjective(f)
  BY <1>3 DEF ExistsBijection, Bijection, Injection
<1>5. SetToSeq(batch) \in [1 .. n -> batch]
  BY <1>2, <1>4 DEF SetToSeq
<1>6. Len(SetToSeq(batch)) = n
  BY <1>5
<1>7. QED BY <1>2, <1>5, <1>6

LEMMA Spreads ==
  ASSUME NEW f \in {"observations", "staged"}, NEW before \in Batch, NEW batch \in Batch
  PROVE  Growing(f, before, batch) \in Calmly /\ Shrinking(f, before, batch) \in Calmly
<1>1. ASSUME NEW n \in Nat, NEW v \in [1 .. n -> Batch]
      PROVE  [i \in 1 .. n |-> [file |-> f, value |-> v[i]]] \in Calmly
  <2>1. \A i \in 1 .. n : [file |-> f, value |-> v[i]] \in WritesOf(FileNames \ {"epoch"})
    <3>1. f \in FileNames \ {"epoch"} /\ Contents[f] = Batch
      BY DEF FileNames, Contents
    <3>2. QED BY <3>1, IsWrite
  <2> DEFINE list == [i \in 1 .. n |-> [file |-> f, value |-> v[i]]]
  <2>2. list \in [1 .. n -> WritesOf(FileNames \ {"epoch"})]
    BY <2>1
  <2> HIDE DEF list
  <2>3. list \in Calmly
    BY <2>2, Lists DEF Calmly
  <2>4. QED BY <2>3 DEF list
<1>2. Growing(f, before, batch) \in Calmly
  <2> DEFINE s == SetToSeq(batch)
  <2>1. PICK n \in Nat : s \in [1 .. n -> batch] /\ Len(s) = n
    BY Enumerated
  <2> HIDE DEF s
  <2> DEFINE v == [i \in 1 .. n |-> before \cup {s[j] : j \in 1 .. i}]
  <2>2. v \in [1 .. n -> Batch]
    <3> SUFFICES ASSUME NEW i \in 1 .. n PROVE {s[j] : j \in 1 .. i} \subseteq Observations
      BY DEF Batch
    <3>1. \A j \in 1 .. i : j \in 1 .. n
      OBVIOUS
    <3>2. QED BY <2>1, <3>1 DEF Batch
  <2>3. Growing(f, before, batch) = [i \in 1 .. n |-> [file |-> f, value |-> v[i]]]
    BY <2>1 DEF Growing, s
  <2> HIDE DEF v
  <2>4. QED BY <1>1, <2>2, <2>3
<1>3. Shrinking(f, before, batch) \in Calmly
  <2> DEFINE s == SetToSeq(batch \cap before)
  <2>0. batch \cap before \in Batch
    BY DEF Batch
  <2>1. PICK n \in Nat : Len(s) = n
    BY <2>0, Enumerated
  <2> HIDE DEF s
  <2> DEFINE v == [i \in 1 .. n |-> before \ {s[j] : j \in 1 .. i}]
  <2>2. v \in [1 .. n -> Batch]
    BY DEF Batch
  <2>3. Shrinking(f, before, batch) = [i \in 1 .. n |-> [file |-> f, value |-> v[i]]]
    BY <2>1 DEF Shrinking, s
  <2> HIDE DEF v
  <2>4. QED BY <1>1, <2>2, <2>3
<1>4. QED BY <1>2, <1>3

-----------------------------------------------------------------------------
(* What the sections write                                                 *)

LEMMA Emptied ==
  ASSUME TypeInv, NEW f \in {"journal", "transition", "manifest", "workset"}
  PROVE  Unlink(f) \in Calmly
BY CalmWrites, Joined DEF Unlink

LEMMA ChangeIsCalm ==
  ASSUME NEW r \in Receipt
  PROVE  Change(r) \in Calmly
BY CalmWrites, MarksAreCalm, Joined DEF Change, Receipt

LEMMA ReceiptIs ==
  ASSUME TypeInv, receipt # None
  PROVE  /\ receipt \in Receipt /\ receipt.status \in Statuses
         /\ \A s \in Statuses : [receipt EXCEPT !.status = s] \in Receipt
         /\ \A s \in Statuses : [receipt EXCEPT !.status = s, !.count = 0] \in Receipt
<1>1. receipt \in Receipt
  BY DiskHas DEF TypeInv, receipt
<1>2. QED BY <1>1 DEF Receipt

LEMMA LeftoversAre ==
  ASSUME TypeInv
  PROVE  /\ Leftovers \in Batch /\ OrphanObservations \in Batch /\ OrphanStages \in Batch
         /\ disk.staged \in Batch /\ disk.observations \in Batch
         /\ Files(disk.journal) \in Batch /\ Files(disk.manifest) \in Batch
<1>1. Files(disk.journal) \in Batch /\ Files(disk.manifest) \in Batch
  BY DiskHas DEF TypeInv, Files, Batch
<1>2. disk.staged \in Batch /\ disk.observations \in Batch
  BY DiskHas DEF TypeInv
<1>3. QED BY <1>1, <1>2 DEF Leftovers, OrphanObservations, OrphanStages, Batch

LEMMA RecoversTransition ==
  ASSUME TypeInv
  PROVE  RecoverTransition \in Calmly
<1>1. disk.transition # None /\ Status = disk.transition.to /\ ~TransitionCorrupt
        => receipt # None
  <2> SUFFICES ASSUME disk.transition # None, Status = disk.transition.to PROVE receipt # None
    OBVIOUS
  <2>1. disk.transition.to \in Statuses
    BY DiskHas DEF TypeInv
  <2>2. QED BY <2>1, CaptureAssumption DEF Status
<1>2. receipt # None => Write("ledger", receipt.status) \in Calmly
  BY ReceiptIs, CalmWrites
<1>3. Write("workset", None) \in Calmly /\ Unlink("transition") \in Calmly
  BY CalmWrites, Emptied
<1>4. QED BY <1>1, <1>2, <1>3, MarksAreCalm, Joined DEF RecoverTransition

LEMMA CleansUp ==
  ASSUME TypeInv
  PROVE  /\ CleanUpBound \in Calmly
         /\ receipt # None => BackToRetryable \in Calmly
<1>1. CleanUpBound \in Calmly
  BY LeftoversAre, Spreads, Emptied, Joined DEF CleanUpBound
<1>2. receipt # None => Change([receipt EXCEPT !.status = "retryable", !.count = 0]) \in Calmly
  BY ReceiptIs, ChangeIsCalm DEF Statuses
<1>3. QED BY <1>1, <1>2, Joined DEF BackToRetryable

LEMMA FullIsCalm ==
  ASSUME TypeInv
  PROVE  FullRecovery \in Calmly
<1>1. Whole => disk.manifest \in Batch
  BY DiskHas DEF Whole, ManifestValid, TypeInv
<1>2. /\ Whole => Shrinking("staged", disk.staged, disk.manifest) \in Calmly
      /\ Shrinking("observations",
                   disk.observations \ (IF Broken \/ Lost THEN Leftovers ELSE {}),
                   OrphanObservations) \in Calmly
      /\ Shrinking("staged", OrphanStages, OrphanStages) \in Calmly
  <2>1. disk.observations \ (IF Broken \/ Lost THEN Leftovers ELSE {}) \in Batch
    BY LeftoversAre DEF Batch
  <2>2. QED BY <1>1, <2>1, LeftoversAre, Spreads
<1>3. Broken => BackToRetryable \in Calmly
  BY CleansUp DEF Broken
<1>4. Write("workset", None) \in Calmly /\ Unlink("journal") \in Calmly
  BY CalmWrites, Emptied
<1>5. QED BY <1>2, <1>3, <1>4, CleansUp, RecoversTransition, Joined DEF FullRecovery

LEMMA ActiveIsCalm ==
  ASSUME TypeInv
  PROVE  ActiveRecovery \in Calmly
<1>1. /\ Shrinking("staged", disk.staged, Files(disk.journal)) \in Calmly
      /\ Unlink("journal") \in Calmly /\ Write("workset", None) \in Calmly
      /\ Write("ledger", "complete") \in Calmly
  BY LeftoversAre, Spreads, Emptied, CalmWrites DEF Statuses
<1>2. receipt # None => Write("ledger", receipt.status) \in Calmly /\ BackToRetryable \in Calmly
  BY ReceiptIs, CalmWrites, CleansUp
<1>3. QED BY <1>1, <1>2, RecoversTransition, MarksAreCalm, Joined DEF ActiveRecovery

LEMMA TransitionIsCalm ==
  ASSUME TypeInv, receipt # None, NEW target \in Statuses, NEW bound \in BOOLEAN,
         NEW settle \in Calmly, NEW usage \in Charges
  PROVE  Transition(target, bound, settle, usage) \in Calmly
<1>1. [receipt EXCEPT !.status = target, !.bound = bound, !.usage = usage] \in Receipt
  BY ReceiptIs DEF Receipt
<1>2. [from |-> receipt.status, to |-> target] \in [from : Statuses, to : Statuses]
  BY ReceiptIs
<1>3. QED BY <1>1, <1>2, CalmWrites, MarksAreCalm, Joined DEF Transition

LEMMA CommitIsCalm ==
  ASSUME TypeInv, receipt # None, NEW w \in Workers, NEW batch \in Batch, NEW usage \in Charges
  PROVE  CommitWrites(w, batch, usage) \in Calmly
<1>1. Prepare(batch) \in Calmly
  BY LeftoversAre, Spreads, CalmWrites, MarksAreCalm, Joined DEF Prepare
<1>2. Publish(batch) \in Calmly
  BY LeftoversAre, Spreads, CalmWrites, Joined DEF Publish
<1>3. Settle(w) \in Calmly
  <2>1. disk.settled \cup {job[w].reserved} \in SUBSET Nat
    BY DiskHas DEF TypeInv, Job
  <2>2. QED BY <2>1, CalmWrites, Joined DEF Settle
<1>4. Conclude(batch, usage) \in Calmly
  <2>1. Cardinality(batch) \in Nat
    BY Enumerated
  <2>2. [receipt EXCEPT !.status = "complete", !.usage = usage, !.count = Cardinality(batch)] \in Receipt
    <3>1. receipt \in Receipt /\ "complete" \in Statuses
      BY ReceiptIs DEF Statuses
    <3>2. \A n \in Nat, s \in Statuses :
             [receipt EXCEPT !.status = s, !.usage = usage, !.count = n] \in Receipt
      BY <3>1 DEF Receipt
    <3>3. QED BY <2>1, <3>1, <3>2
  <2>3. QED BY <2>2, CalmWrites, Joined DEF Conclude, Statuses
<1>5. CleanUp(batch) \in Calmly
  <2>1. disk.staged \cup batch \in Batch
    BY LeftoversAre DEF Batch
  <2>2. QED BY <2>1, Spreads, CalmWrites, MarksAreCalm, Joined DEF CleanUp
<1>6. QED BY <1>1, <1>2, <1>3, <1>4, <1>5, Joined DEF CommitWrites

-----------------------------------------------------------------------------
(* The ways in which a step moves a process                                *)

\* A process keeps its token as long as it owns one, and gets none otherwise.
TokenKept(w, label) ==
  /\ \A v \in Workers \ {w} : job'[v] = job[v]
  /\ label \in Owning =>
       /\ pc[w] \in Owning /\ ~Opens(w)
       /\ job'[w].token = job[w].token /\ job'[w].era = job[w].era

LEMMA CalmStep ==
  ASSUME CaptureInv, NEW w \in Workers, NEW label \in Labels, NEW writes \in Calmly,
         label \notin Restoring, pc' = [pc EXCEPT ![w] = label],
         todo' = [todo EXCEPT ![w] = writes],
         writes # << >> => \A v \in Workers \ {w} : todo[v] = << >>,
         TokenKept(w, label), job' \in [Workers -> Job],
         disk' \in Disk, disk'.epoch = disk.epoch,
         kept' \in [zip : Disk \cup {None}, former : Disk \cup {None}, restores : Nat],
         kept'.restores = kept.restores
  PROVE  CaptureInv'
<1>1. TypeInv'
  <2>1. writes \in Writes
    BY CalmIsWritten
  <2>2. QED BY <2>1 DEF CaptureInv, TypeInv
<1>2. \A v \in Workers \ {w} : pc'[v] = pc[v] /\ todo'[v] = todo[v] /\ job'[v] = job[v]
  BY DEF CaptureInv, TypeInv, TokenKept
<1>3. pc'[w] = label /\ todo'[w] = writes
  BY DEF CaptureInv, TypeInv
<1>4. OneWriter'
  BY <1>2, <1>3 DEF CaptureInv, LeaseInv, OneWriter
<1>5. EpochsAreRaised'
  <2>1. ASSUME NEW v \in Workers \ {w}, Taking(v) PROVE Taking(v)'
    BY <1>2, <2>1 DEF Taking
  <2>2. QED BY <1>2, <1>3, <2>1 DEF CaptureInv, LeaseInv, EpochsAreRaised
<1>6. \A v \in Workers : pc'[v] \in Owning =>
        pc[v] \in Owning /\ job'[v].token = job[v].token /\ job'[v].era = job[v].era
  BY <1>2, <1>3 DEF TokenKept
<1>7. TokensAreOld'
  <2>1. \A v \in Workers : pc'[v] \in Owning => (Opens(v) => Opens(v)')
    BY <1>2, <1>3 DEF TokenKept, Opens
  <2>2. \A v \in Workers : pc'[v] \in Restoring => todo'[v] = todo[v] /\ pc[v] \in Restoring
    BY <1>2, <1>3
  <2>3. QED BY <1>6, <2>1, <2>2 DEF CaptureInv, LeaseInv, TokensAreOld
<1>8. TokensDiffer'
  BY <1>6 DEF CaptureInv, LeaseInv, TokensDiffer
<1>9. QED BY <1>1, <1>4, <1>5, <1>7, <1>8 DEF CaptureInv, LeaseInv

LEMMA Carried ==
  ASSUME CaptureInv, NEW w \in Workers, NEW label \in Labels, pc' = [pc EXCEPT ![w] = label],
         Carry(w), label \in Owning => pc[w] \in Owning /\ ~Opens(w)
  PROVE  TokenKept(w, label) /\ job' \in [Workers -> Job]
<1>1. NoJob \in Job
  BY DEF NoJob, Job
<1>2. pc'[w] = label
  BY DEF CaptureInv, TypeInv
<1>3. label = "idle" => label \notin Owning
  BY DEF Owning, Leased
<1>4. QED BY <1>1, <1>2, <1>3 DEF Carry, CaptureInv, TypeInv, TokenKept

\* A critical section of a process that has no lease to take.
LEMMA SectionKeeps ==
  ASSUME CaptureInv, NEW w \in Workers, NEW label \in Labels, NEW writes \in Calmly,
         label \notin Restoring, Section(w, writes, label), UNCHANGED kept,
         label \in Owning => pc[w] \in Owning,
         Carry(w) \/ (TokenKept(w, label) /\ job' \in [Workers -> Job])
  PROVE  CaptureInv'
<1>1. /\ Free /\ todo' = [todo EXCEPT ![w] = writes] /\ pc' = [pc EXCEPT ![w] = label]
      /\ UNCHANGED disk
  BY DEF Section, Goto
<1>2. ~Opens(w)
  BY <1>1 DEF Free, Opens
<1>3. TokenKept(w, label) /\ job' \in [Workers -> Job]
  BY <1>1, <1>2, Carried
<1>4. \A v \in Workers \ {w} : todo[v] = << >>
  BY <1>1 DEF Free
<1>5. QED BY <1>1, <1>3, <1>4, CalmStep DEF CaptureInv, TypeInv

\* A step that takes no lock.
LEMMA LocalKeeps ==
  ASSUME CaptureInv, NEW w \in Workers, NEW label \in Labels, label \notin Restoring,
         todo[w] = << >>, Goto(w, label), UNCHANGED <<disk, todo, kept>>,
         label \in Owning => pc[w] \in Owning,
         Carry(w) \/ (TokenKept(w, label) /\ job' \in [Workers -> Job])
  PROVE  CaptureInv'
<1>1. pc' = [pc EXCEPT ![w] = label] /\ ~Opens(w)
  BY DEF Goto, Opens
<1>2. todo' = [todo EXCEPT ![w] = << >>] /\ << >> \in Calmly
  BY Joined DEF CaptureInv, TypeInv
<1>3. TokenKept(w, label) /\ job' \in [Workers -> Job]
  BY <1>1, Carried
<1>4. QED BY <1>1, <1>2, <1>3, CalmStep DEF CaptureInv, TypeInv

LEMMA TryKeeps ==
  ASSUME CaptureInv, NEW w \in Workers, NEW expected, NEW target \in Statuses,
         NEW next \in Labels, NEW otherwise \in Labels,
         {next, otherwise} \cap Restoring = {}, pc[w] \in Owning,
         TryTransition(w, expected, target, next, otherwise), Carry(w), UNCHANGED kept
  PROVE  CaptureInv'
<1>1. CASE MayTransition(w, expected, target)
  <2>1. receipt # None
    BY <1>1 DEF MayTransition, HoldsReceipt
  <2>2. (receipt.bound /\ target # "queued") \in BOOLEAN /\ receipt.usage \in Charges
    BY <2>1, ReceiptIs DEF CaptureInv, Receipt
  <2>3. Transition(target, receipt.bound /\ target # "queued", << >>, receipt.usage) \in Calmly
    BY <2>1, <2>2, Joined, TransitionIsCalm DEF CaptureInv
  <2>4. QED BY <1>1, <2>3, SectionKeeps DEF TryTransition
<1>2. CASE ~MayTransition(w, expected, target)
  BY <1>2, Joined, SectionKeeps DEF TryTransition
<1>3. QED BY <1>1, <1>2

-----------------------------------------------------------------------------
(* Recovery, audit and the scanner                                         *)

LEMMA RecoverAllKeeps ==
  ASSUME CaptureInv, NEW w \in Workers, NEW next \in {"running", "scanning"},
         RecoverAll(w, next), UNCHANGED kept
  PROVE  CaptureInv'
<1>1. next \in Labels /\ next \notin Restoring /\ next \notin Owning
  BY DEF Labels, Running, Restoring, Owning, Leased
<1>2. [NoJob EXCEPT !.full = TRUE] \in Job
  BY DEF NoJob, Job
<1>3. TokenKept(w, next) /\ job' \in [Workers -> Job]
  BY <1>1, <1>2 DEF RecoverAll, TokenKept, CaptureInv, TypeInv
<1>4. QED BY <1>1, <1>3, FullIsCalm, SectionKeeps DEF RecoverAll, CaptureInv

LEMMA RecoverActiveKeeps ==
  ASSUME CaptureInv, NEW w \in Workers, NEW next \in {"running", "scanning"},
         RecoverActive(w, next), UNCHANGED kept
  PROVE  CaptureInv'
<1>1. \A label \in {next, "idle"} : label \in Labels /\ label \notin Restoring /\ label \notin Owning
  BY DEF Labels, Running, Restoring, Owning, Leased
<1>2. (IF Recoverable THEN ActiveRecovery ELSE << >>) \in Calmly
  BY ActiveIsCalm, Joined DEF CaptureInv
<1>3. QED BY <1>1, <1>2, SectionKeeps DEF RecoverActive

LEMMA AuditKeeps ==
  ASSUME CaptureInv, NEW w \in Workers, Audit(w), UNCHANGED kept
  PROVE  CaptureInv'
<1>1. "idle" \in Labels /\ "idle" \notin Restoring /\ "idle" \notin Owning
  BY DEF Labels, Running, Restoring, Owning, Leased
<1>2. \A active \in BOOLEAN, baseline \in {"healthy", "recovery_needed"} :
        Write("workset", [baseline |-> baseline, active |-> active, config |-> disk.config]) \in Calmly
  <2>1. disk.config \in 1 .. MaxConfig
    BY DiskHas DEF CaptureInv, TypeInv
  <2>2. QED BY <2>1, CalmWrites DEF Workset
<1> DEFINE active == \/ Status = "extracting"
                     \/ receipt # None /\ disk.ledger # Status
                     \/ disk.journal # None \/ disk.transition # None
           sealed == Write("workset", [baseline |-> IF active THEN "recovery_needed" ELSE "healthy",
                                       active |-> active, config |-> disk.config])
<1>3. active \in BOOLEAN
  OBVIOUS
<1>4. sealed \in Calmly
  BY <1>2, <1>3
<1>5. Unlink("workset") \o sealed \in Calmly /\ Unlink("workset") \o << >> \in Calmly
  BY <1>4, Emptied, Joined DEF CaptureInv
<1>6. \E sound \in BOOLEAN :
        Section(w, Unlink("workset") \o (IF sound THEN sealed ELSE << >>), "idle")
  BY DEF Audit
<1> HIDE DEF active, sealed
<1>7. Carry(w)
  BY DEF Audit
<1>8. QED BY <1>1, <1>5, <1>6, <1>7, SectionKeeps

LEMMA ScannerKeeps ==
  ASSUME CaptureInv, NEW w \in Workers, Register(w) \/ Exclude(w) \/ Quarantine(w), UNCHANGED kept
  PROVE  CaptureInv'
<1>1. \A label \in {"idle", "scan_raised"} :
        label \in Labels /\ label \notin Restoring /\ label \notin Owning
  BY DEF Labels, Running, Restoring, Owning, Leased
<1>2. \A s \in Statuses : New(s) \in Receipt
  BY DEF New, Receipt, Charges
<1>3. ASSUME NEW s \in Statuses
      PROVE  Change(IF receipt = None THEN New(s) ELSE [receipt EXCEPT !.status = s])
               \o RetireActive \in Calmly
  <2>1. (IF receipt = None THEN New(s) ELSE [receipt EXCEPT !.status = s]) \in Receipt
    BY <1>2, ReceiptIs DEF CaptureInv
  <2>2. QED BY <2>1, ChangeIsCalm, MarksAreCalm, Joined
<1>4. CASE Register(w)
  <2>1. Change(New("discovered")) \o RetireActive \in Calmly
    BY <1>2, ChangeIsCalm, MarksAreCalm, Joined DEF Statuses
  <2>2. receipt # None => MarkActive \o Write("ledger", receipt.status) \o RetireActive \in Calmly
    BY ReceiptIs, CalmWrites, MarksAreCalm, Joined DEF CaptureInv
  <2>3. \E writes \in Calmly : Section(w, writes, "idle")
    BY <1>4, <2>1, <2>2, Joined DEF Register
  <2>4. QED BY <1>1, <1>4, <2>3, SectionKeeps DEF Register
<1>5. CASE Exclude(w)
  <2>1. \E writes \in Calmly, label \in {"idle", "scan_raised"} : Section(w, writes, label)
    BY <1>3, <1>5, Joined DEF Exclude, Statuses
  <2>2. QED BY <1>1, <1>5, <2>1, SectionKeeps DEF Exclude
<1>6. CASE Quarantine(w)
  <2>1. \E writes \in Calmly : Section(w, writes, "idle")
    BY <1>3, <1>6, Joined DEF Quarantine, Statuses
  <2>2. QED BY <1>1, <1>6, <2>1, SectionKeeps DEF Quarantine
<1>7. QED BY <1>4, <1>5, <1>6

-----------------------------------------------------------------------------
(* Leases                                                                  *)

\* The next token is above every token since the last restore.
LEMMA TakeLeaseKeeps ==
  ASSUME CaptureInv, NEW w \in Workers, NEW from \in {"selected", "retrying"},
         NEW next \in {"leased", "parked"}, TakeLease(w, from, next), UNCHANGED kept
  PROVE  CaptureInv'
<1> DEFINE token == NextToken
           lease == [token |-> token, era |-> kept.restores, live |-> TRUE]
           writes == Write("epoch", token) \o Write("lease", lease)
<1>1. /\ Free /\ pc[w] = from /\ disk' = disk
      /\ todo' = [todo EXCEPT ![w] = writes] /\ pc' = [pc EXCEPT ![w] = next]
      /\ job' = [job EXCEPT ![w].token = token, ![w].era = kept.restores]
  BY DEF TakeLease, At, Section, Goto
<1>2. token \in Nat /\ token > disk.epoch
  <2>1. disk.epoch \in Nat /\ (disk.lease # None => disk.lease.token \in Nat)
    BY DiskHas DEF CaptureInv, TypeInv, Lease
  <2>2. QED BY <2>1 DEF NextToken
<1>3. kept.restores \in Nat
  BY DEF CaptureInv, TypeInv
<1>4. lease \in Lease
  BY <1>2, <1>3 DEF Lease
<1> HIDE DEF token, lease
<1>5. writes \in Writes
  <2>1. Write("epoch", token) \in Writes
    BY <1>2, OneWrite DEF FileNames, Contents
  <2>2. Write("lease", lease) \in Writes
    BY <1>4, CalmWrites, CalmIsWritten
  <2>3. QED BY <2>1, <2>2, Joined
<1>6. Head(writes).file = "epoch" /\ writes # << >>
  BY DEF Write
<1> HIDE DEF writes
<1>7. next \in Labels /\ next \notin Restoring
  BY DEF Labels, Running, Restoring, Leased
<1>8. job'[w] \in Job /\ job'[w].token = token /\ job'[w].era = kept.restores
  BY <1>1, <1>2, <1>3 DEF CaptureInv, TypeInv, Job
<1>9. \A v \in Workers \ {w} : job'[v] = job[v] /\ pc'[v] = pc[v] /\ todo'[v] = << >> /\ todo[v] = << >>
  BY <1>1 DEF CaptureInv, TypeInv, Free
<1>10. pc'[w] = next /\ todo'[w] = writes
  BY <1>1 DEF CaptureInv, TypeInv
<1>11. TypeInv'
  BY <1>1, <1>5, <1>7, <1>8 DEF CaptureInv, TypeInv
<1>12. OneWriter'
  BY <1>9 DEF OneWriter
<1>13. EpochsAreRaised'
  <2>1. Taking(w)'
    BY <1>1, <1>2, <1>4, <1>8, <1>10 DEF Taking, writes
  <2>2. QED BY <1>9, <2>1, Joined DEF EpochsAreRaised
<1>14. TokensAreOld'
  <2>1. Opens(w)'
    BY <1>6, <1>10 DEF Opens
  <2>2. \A v \in Workers : ~Opens(v)
    BY <1>1 DEF Free, Opens
  <2>3. \A v \in Workers : pc'[v] \in Restoring => todo'[v] = << >>
    BY <1>7, <1>9, <1>10
  <2>4. kept'.restores = kept.restores /\ disk'.epoch = disk.epoch
    BY <1>1
  <2>5. job'[w].era <= kept.restores
    BY <1>3, <1>8
  <2>6. ASSUME NEW v \in Workers \ {w}, pc'[v] \in Owning
        PROVE  /\ job'[v].era <= kept.restores
               /\ job'[v].era = kept.restores => job'[v].token <= disk.epoch
    BY <1>9, <2>2, <2>6 DEF CaptureInv, LeaseInv, TokensAreOld
  <2>7. QED BY <2>1, <2>3, <2>4, <2>5, <2>6 DEF TokensAreOld
<1>15. TokensDiffer'
  <2>1. \A v \in Workers : pc[v] \in Owning /\ job[v].era = kept.restores => job[v].token < token
    <3>1. \A v \in Workers : ~Opens(v) /\ job[v].token \in Nat
      BY <1>1 DEF Free, Opens, CaptureInv, TypeInv, Job
    <3>2. disk.epoch \in Nat
      BY DiskHas DEF CaptureInv, TypeInv
    <3>3. QED BY <1>2, <3>1, <3>2 DEF CaptureInv, LeaseInv, TokensAreOld
  <2>2. \A v \in Workers \ {w} : pc'[v] \in Owning /\ job'[v].era = kept.restores
          => job'[v].token # token
    <3>1. \A v \in Workers : job[v].token \in Nat
      BY DEF CaptureInv, TypeInv, Job
    <3>2. QED BY <1>2, <1>9, <2>1, <3>1
  <2>3. \A u, v \in Workers \ {w} : u # v /\ pc'[u] \in Owning /\ pc'[v] \in Owning
          /\ job'[u].era = job'[v].era => job'[u].token # job'[v].token
    BY <1>9 DEF CaptureInv, LeaseInv, TokensDiffer
  <2>4. QED BY <1>8, <2>2, <2>3 DEF TokensDiffer
<1>16. QED BY <1>11, <1>12, <1>13, <1>14, <1>15 DEF CaptureInv, LeaseInv

LEMMA ContendedKeeps ==
  ASSUME CaptureInv, NEW w \in Workers, NEW from, Contended(w, from), UNCHANGED kept
  PROVE  CaptureInv'
<1>1. "idle" \in Labels /\ "idle" \notin Restoring /\ "idle" \notin Owning
  BY DEF Labels, Running, Restoring, Owning, Leased
<1>2. QED BY <1>1, Joined, SectionKeeps DEF Contended

LEMMA ReleaseKeeps ==
  ASSUME CaptureInv, NEW w \in Workers, Release(w), UNCHANGED kept
  PROVE  CaptureInv'
<1>1. "idle" \in Labels /\ "idle" \notin Restoring /\ "idle" \notin Owning
  BY DEF Labels, Running, Restoring, Owning, Leased
<1>2. (IF HoldsLease(w) THEN Write("lease", None) ELSE << >>) \in Calmly
  BY CalmWrites, Joined
<1>3. QED BY <1>1, <1>2, SectionKeeps DEF Release

-----------------------------------------------------------------------------
(* The runner and the retry                                                *)

LEMMA RetryKeeps ==
  ASSUME CaptureInv, NEW w \in Workers, Retry(w) \/ Select(w), UNCHANGED kept
  PROVE  CaptureInv'
<1>1. \A label \in {"retrying", "selected"} :
        label \in Labels /\ label \notin Restoring /\ label \notin Owning
  BY DEF Labels, Running, Restoring, Owning, Leased
<1>2. receipt \in Receipt
  BY ReceiptIs, CaptureAssumption DEF Retry, Select, Status, Ready, Statuses, CaptureInv
<1>3. job' \in [Workers -> Job] /\ \A v \in Workers \ {w} : job'[v] = job[v]
  <2>1. receipt.status \in Statuses /\ receipt.attempt \in Nat
    BY <1>2 DEF Receipt
  <2>2. CASE Retry(w)
    <3>1. [NoJob EXCEPT !.seen = receipt.status] \in Job
      BY <2>1 DEF NoJob, Job
    <3>2. job' = [job EXCEPT ![w] = [NoJob EXCEPT !.seen = receipt.status]]
      BY <2>2 DEF Retry
    <3>3. QED BY <3>1, <3>2 DEF CaptureInv, TypeInv
  <2>3. CASE Select(w)
    <3>1. job' = [job EXCEPT ![w] = [@ EXCEPT !.seen = receipt.status, !.attempt = receipt.attempt]]
      BY <2>3 DEF Select
    <3>2. [job[w] EXCEPT !.seen = receipt.status, !.attempt = receipt.attempt] \in Job
      BY <2>1 DEF CaptureInv, TypeInv, Job
    <3>3. QED BY <3>1, <3>2 DEF CaptureInv, TypeInv
  <2>4. QED BY <2>2, <2>3
<1>4. TokenKept(w, "retrying") /\ TokenKept(w, "selected")
  BY <1>1, <1>3 DEF TokenKept
<1>5. QED BY <1>1, <1>3, <1>4, LocalKeeps DEF Retry, Select, At

LEMMA FinishKeeps ==
  ASSUME CaptureInv, NEW w \in Workers, Finish(w), UNCHANGED kept
  PROVE  CaptureInv'
<1>1. "idle" \in Labels /\ "idle" \notin Restoring /\ "idle" \notin Owning
  BY DEF Labels, Running, Restoring, Owning, Leased
<1>2. QED BY <1>1, LocalKeeps DEF Finish

LEMMA RunnerLabels ==
  \A label \in {"checked", "handled", "identity_raised", "unreadable", "requeued", "reserved",
                "begun", "empty", "release", "retried", "leased", "parked"} :
    label \in Labels /\ label \notin Restoring /\ label \in Owning
BY DEF Labels, Running, Restoring, Owning, Leased

LEMMA CheckKeeps ==
  ASSUME CaptureInv, NEW w \in Workers, NEW refused \in BOOLEAN, Check(w, refused), UNCHANGED kept
  PROVE  CaptureInv'
<1>1. pc[w] = "leased" /\ todo[w] = << >> /\ pc[w] \in Owning /\ Carry(w)
  BY RunnerLabels DEF Check, At
<1>2. CASE job[w].full
  BY <1>1, <1>2, RunnerLabels, LocalKeeps DEF Check
<1>3. CASE ~job[w].full
  <2>1. PICK label \in {"checked", "handled"} : Section(w, << >>, label)
    BY <1>3 DEF Check
  <2>2. QED BY <1>1, <2>1, RunnerLabels, Joined, SectionKeeps
<1>4. QED BY <1>2, <1>3

LEMMA TriesKeep ==
  ASSUME CaptureInv, NEW w \in Workers,
         Requeue(w) \/ BackOff(w) \/ SourceChanged(w) \/ Defer(w), UNCHANGED kept
  PROVE  CaptureInv'
<1>1. pc[w] \in Owning /\ Carry(w)
  BY RunnerLabels DEF Requeue, BackOff, SourceChanged, Defer, At
<1>2. PICK target \in {"queued", "retryable", "quarantined", "deferred_budget"},
           next \in {"retried", "requeued", "handled", "release"},
           otherwise \in {"retried", "handled", "identity_raised", "release"} :
        \E expected : TryTransition(w, expected, target, next, otherwise)
  BY DEF Requeue, BackOff, SourceChanged, Defer
<1>3. target \in Statuses
  BY DEF Statuses
<1>4. QED BY <1>1, <1>2, <1>3, RunnerLabels, TryKeeps

LEMMA RaisesKeep ==
  ASSUME CaptureInv, NEW w \in Workers, Unavailable(w) \/ ExtractRaises(w), UNCHANGED kept
  PROVE  CaptureInv'
<1>1. pc[w] \in Owning /\ todo[w] = << >>
  BY RunnerLabels DEF Unavailable, ExtractRaises, At
<1>2. PICK label \in {"unreadable", "handled"} : Goto(w, label) /\ UNCHANGED <<disk, todo, job>>
  BY DEF Unavailable, ExtractRaises
<1>3. TokenKept(w, label) /\ job' \in [Workers -> Job]
  BY <1>1, <1>2 DEF TokenKept, Opens, CaptureInv, TypeInv
<1>4. QED BY <1>1, <1>2, <1>3, RunnerLabels, LocalKeeps

LEMMA ReserveKeeps ==
  ASSUME CaptureInv, NEW w \in Workers, Reserve(w), UNCHANGED kept
  PROVE  CaptureInv'
<1>1. pc[w] \in Owning /\ todo[w] = << >>
  BY RunnerLabels DEF Reserve, At
<1>2. job[w] \in Job /\ job[w].attempt + 1 \in Nat
  BY DEF CaptureInv, TypeInv, Job
<1>3. Write("reserved", disk.reserved \cup {job[w].attempt + 1}) \in Calmly
  BY <1>2, DiskHas, CalmWrites DEF CaptureInv, TypeInv
<1>4. job' = [job EXCEPT ![w].reserved = job[w].attempt + 1]
  BY DEF Reserve, Remember
<1>5. TokenKept(w, "reserved") /\ job' \in [Workers -> Job]
  BY <1>1, <1>2, <1>4 DEF TokenKept, Opens, CaptureInv, TypeInv, Job
<1>6. QED BY <1>1, <1>3, <1>5, RunnerLabels, SectionKeeps DEF Reserve

LEMMA BeginKeeps ==
  ASSUME CaptureInv, NEW w \in Workers, BeginExtraction(w), UNCHANGED kept
  PROVE  CaptureInv'
<1>1. pc[w] \in Owning /\ todo[w] = << >>
  BY RunnerLabels DEF BeginExtraction, At
<1>2. CASE HoldsReceipt(w) /\ receipt.status \in Ready
  <2>1. PICK next \in {"begun", "empty"} :
          Section(w, Change(Begun), next) /\ Remember(w, "attempt", receipt.attempt + 1)
    BY <1>2 DEF BeginExtraction
  <2>2. receipt \in Receipt
    BY <1>2, ReceiptIs DEF HoldsReceipt, CaptureInv
  <2>3. Begun \in Receipt /\ receipt.attempt + 1 \in Nat
    <3>1. receipt.attempt + 1 \in Nat /\ "extracting" \in Statuses
      BY <2>2 DEF Receipt, Statuses
    <3>2. \A n \in Nat, s \in Statuses :
            [receipt EXCEPT !.status = s, !.bound = TRUE, !.attempt = n] \in Receipt
      BY <2>2 DEF Receipt
    <3>3. Begun = [receipt EXCEPT !.status = "extracting", !.bound = TRUE,
                                  !.attempt = receipt.attempt + 1]
      BY <2>2 DEF Begun, Receipt
    <3>4. QED BY <3>1, <3>2, <3>3
  <2>4. job' = [job EXCEPT ![w].attempt = receipt.attempt + 1]
    BY <2>1 DEF Remember
  <2>5. TokenKept(w, next) /\ job' \in [Workers -> Job]
    BY <1>1, <2>3, <2>4 DEF TokenKept, Opens, CaptureInv, TypeInv, Job
  <2>6. QED BY <1>1, <2>1, <2>3, <2>5, ChangeIsCalm, RunnerLabels, SectionKeeps
<1>3. CASE ~(HoldsReceipt(w) /\ receipt.status \in Ready)
  <2>1. Section(w, << >>, "release") /\ Carry(w)
    BY <1>3 DEF BeginExtraction
  <2>2. QED BY <1>1, <2>1, RunnerLabels, Joined, SectionKeeps
<1>4. QED BY <1>2, <1>3

LEMMA EndsKeep ==
  ASSUME CaptureInv, NEW w \in Workers,
         (\E batch \in Batch, usage \in Charges : Commit(w, batch, usage)) \/ ExtractFails(w),
         UNCHANGED kept
  PROVE  CaptureInv'
<1>1. pc[w] \in Owning /\ Carry(w)
  BY RunnerLabels DEF Commit, ExtractFails, At
<1>2. PICK writes \in Calmly : Section(w, writes, "release")
  <2>1. CASE \E batch \in Batch, usage \in Charges : Commit(w, batch, usage)
    <3>1. PICK batch \in Batch, usage \in Charges : Commit(w, batch, usage)
      BY <2>1
    <3>2. HoldsReceipt(w) => CommitWrites(w, batch, usage) \in Calmly
      BY CommitIsCalm DEF HoldsReceipt, CaptureInv
    <3>3. QED BY <3>1, <3>2, Joined DEF Commit
  <2>2. CASE ExtractFails(w)
    <3> DEFINE target == IF job[w].attempt >= MaxAttempts THEN "failed" ELSE "retryable"
    <3>1. target \in Statuses
      BY DEF Statuses
    <3>2. Settle(w) \in Calmly
      <4>1. disk.settled \cup {job[w].reserved} \in SUBSET Nat
        BY DiskHas DEF CaptureInv, TypeInv, Job
      <4>2. QED BY <4>1, CalmWrites, Joined DEF Settle
    <3>3. MayTransition(w, "extracting", target)
            => Transition(target, receipt.bound, Settle(w), Maximum) \in Calmly
      <4> SUFFICES ASSUME MayTransition(w, "extracting", target)
                   PROVE  Transition(target, receipt.bound, Settle(w), Maximum) \in Calmly
        OBVIOUS
      <4>1. receipt # None /\ receipt.bound \in BOOLEAN /\ Maximum \in Charges
        <5>1. receipt # None
          BY DEF MayTransition, HoldsReceipt
        <5>2. receipt \in Receipt
          BY <5>1, ReceiptIs DEF CaptureInv
        <5>3. receipt.bound \in BOOLEAN
          BY <5>2 DEF Receipt
        <5>4. Maximum \in Charges
          BY DEF Maximum, Charges
        <5>5. QED BY <5>1, <5>3, <5>4
      <4>2. QED BY <3>1, <3>2, <4>1, TransitionIsCalm DEF CaptureInv
    <3>4. Section(w, IF MayTransition(w, "extracting", target)
                     THEN Transition(target, receipt.bound, Settle(w), Maximum)
                     ELSE << >>, "release")
      BY <2>2 DEF ExtractFails
    <3>5. QED BY <3>3, <3>4, Joined
  <2>3. QED BY <2>1, <2>2
<1>3. QED BY <1>1, <1>2, RunnerLabels, SectionKeeps

LEMMA LockBusyKeeps ==
  ASSUME CaptureInv, NEW w \in Workers, LockBusy(w), UNCHANGED kept
  PROVE  CaptureInv'
<1>1. PICK label \in {"handled", "retried", "idle"} :
        Goto(w, label) /\ (label # "idle" => pc[w] \in Leased \cup {"parked"})
  BY DEF LockBusy
<1>2. "idle" \in Labels /\ "idle" \notin Restoring /\ "idle" \notin Owning
  BY DEF Labels, Running, Restoring, Owning, Leased
<1>3. label \in Owning => pc[w] \in Owning
  BY <1>1, <1>2 DEF Owning
<1>4. QED BY <1>1, <1>2, <1>3, RunnerLabels, LocalKeeps DEF LockBusy

-----------------------------------------------------------------------------
(* The writes themselves                                                   *)

LEMMA FirstOf ==
  ASSUME NEW S, NEW s \in Seq(S), s # << >>
  PROVE  Head(s) \in S /\ Tail(s) \in Seq(S)
OBVIOUS

LEMMA Pair ==
  ASSUME NEW x, NEW y
  PROVE  /\ << x >> \o << y >> # << >>
         /\ Head(<< x >> \o << y >>) = x /\ Tail(<< x >> \o << y >>) = << y >>
<1> DEFINE S == {x, y}
           first == << x >>
           second == << y >>
           s == first \o second
<1>1. /\ first \in Seq(S) /\ second \in Seq(S) /\ Len(first) = 1 /\ Len(second) = 1
      /\ first[1] = x /\ second[1] = y
  <2>1. x \in S /\ y \in S
    OBVIOUS
  <2> HIDE DEF S
  <2>2. first \in Seq(S) /\ second \in Seq(S)
    BY <2>1
  <2>3. QED BY <2>2
<1> HIDE DEF first, second
<1>2. s \in Seq(S) /\ Len(s) = 2 /\ s[1] = x /\ s[2] = y
  <2> HIDE DEF S
  <2>1. /\ s \in Seq(S) /\ Len(s) = Len(first) + Len(second)
        /\ \A i \in 1 .. Len(first) + Len(second) :
             s[i] = IF i <= Len(first) THEN first[i] ELSE second[i - Len(first)]
    BY <1>1, ConcatProperties
  <2>2. QED BY ONLY <1>1, <2>1
<1> HIDE DEF s
<1>3. s # << >> /\ Head(s) = x
  BY <1>2
<1> DEFINE t == Tail(s)
<1>4. t \in Seq(S) /\ Len(t) = 1 /\ t[1] = y
  BY <1>2, <1>3, HeadTailProperties
<1> HIDE DEF t
<1>5. t = second
  <2>1. \A i \in 1 .. Len(t) : t[i] = second[i]
    BY <1>1, <1>4
  <2>2. Len(t) = Len(second)
    BY <1>1, <1>4
  <2>3. QED BY <1>1, <1>4, <2>1, <2>2, SeqEqual
<1>6. QED BY <1>3, <1>5 DEF t, s, first, second

LEMMA FirstOfTaking ==
  ASSUME NEW w \in Workers, NEW l, todo[w] = Write("epoch", job[w].token) \o Write("lease", l)
  PROVE  /\ todo[w] # << >> /\ Head(todo[w]).file = "epoch" /\ Head(todo[w]).value = job[w].token
         /\ Tail(todo[w]) = Write("lease", l)
<1> DEFINE x == [file |-> "epoch", value |-> job[w].token]
           y == [file |-> "lease", value |-> l]
<1>1. todo[w] = << x >> \o << y >>
  BY DEF Write
<1>2. x.file = "epoch" /\ x.value = job[w].token /\ Write("lease", l) = << y >>
  BY DEF Write
<1> HIDE DEF x, y
<1>3. todo[w] # << >> /\ Head(todo[w]) = x /\ Tail(todo[w]) = << y >>
  BY <1>1, Pair
<1>4. QED BY <1>2, <1>3

LEMMA WriteIs ==
  ASSUME NEW names \in SUBSET FileNames, NEW x \in WritesOf(names)
  PROVE  /\ x.file # "active" => x.file \in names /\ x.value \in Contents[x.file]
         /\ x.file = "active" => x.value \in BOOLEAN
<1> DEFINE marks == [file : {"active"}, value : BOOLEAN]
           others == UNION {[file : {f}, value : Contents[f]] : f \in names}
<1>1. WritesOf(names) = others \cup marks
  BY Zenon DEF WritesOf
<1>2. CASE x \in marks
  BY <1>2
<1>3. CASE x \in others
  <2>1. PICK f \in names : x \in [file : {f}, value : Contents[f]]
    BY <1>3
  <2>2. x.file = f /\ x.value \in Contents[f]
    BY <2>1
  <2>3. f # "active"
    BY DEF FileNames
  <2>4. QED BY <2>2, <2>3
<1> HIDE DEF marks, others
<1>4. QED BY <1>1, <1>2, <1>3

LEMMA NextWrite ==
  ASSUME CaptureInv, NEW w \in Workers, todo[w] # << >>
  PROVE  /\ Tail(todo[w]) \in Writes
         /\ Head(todo[w]).file # "active" =>
              Head(todo[w]).file \in FileNames /\ Head(todo[w]).value \in Contents[Head(todo[w]).file]
         /\ Head(todo[w]).file = "active" => Head(todo[w]).value \in BOOLEAN
         /\ todo[w] \in Calmly => Tail(todo[w]) \in Calmly /\ ~Opens(w)
         /\ \A v \in Workers \ {w} : todo[v] = << >>
<1>1. todo[w] \in Seq(WritesOf(FileNames))
  BY DEF CaptureInv, TypeInv, Writes
<1>2. Head(todo[w]) \in WritesOf(FileNames) /\ Tail(todo[w]) \in Writes
  BY <1>1, FirstOf DEF Writes
<1>3. ASSUME todo[w] \in Calmly PROVE Tail(todo[w]) \in Calmly /\ ~Opens(w)
  <2>1. Head(todo[w]) \in WritesOf(FileNames \ {"epoch"}) /\ Tail(todo[w]) \in Calmly
    BY <1>3, FirstOf DEF Calmly
  <2>2. Head(todo[w]).file # "epoch"
    BY <2>1, WriteIs
  <2>3. QED BY <2>1, <2>2 DEF Opens
<1>4. \A v \in Workers \ {w} : todo[v] = << >>
  BY DEF CaptureInv, LeaseInv, OneWriter
<1>5. QED BY <1>2, <1>3, <1>4, WriteIs

\* While files are brought back nobody has a token of the current era.
LEMMA RestoringStep ==
  ASSUME CaptureInv, NEW w \in Workers, NEW label \in Restoring, NEW writes \in Writes,
         pc[w] \in Restoring, todo[w] # << >>,
         pc' = [pc EXCEPT ![w] = label], todo' = [todo EXCEPT ![w] = writes],
         disk' \in Disk, UNCHANGED <<job, kept>>
  PROVE  CaptureInv'
<1>1. label \in Labels /\ label \notin Owning /\ pc[w] \notin Owning
  BY DEF Labels, Restoring, Owning, Leased
<1>2. /\ pc'[w] = label
      /\ \A v \in Workers \ {w} : pc'[v] = pc[v] /\ todo'[v] = todo[v] /\ todo[v] = << >>
  BY NextWrite DEF CaptureInv, TypeInv
<1>3. TypeInv'
  BY <1>1 DEF CaptureInv, TypeInv
<1>4. OneWriter'
  BY <1>2 DEF OneWriter
<1>5. EpochsAreRaised'
  BY <1>2, Joined DEF EpochsAreRaised
<1>6. \A v \in Workers : pc'[v] \in Owning => pc[v] \in Owning
  BY <1>1, <1>2
<1>7. TokensAreOld'
  BY <1>6 DEF CaptureInv, LeaseInv, TokensAreOld
<1>8. TokensDiffer'
  BY <1>6 DEF CaptureInv, LeaseInv, TokensDiffer
<1>9. QED BY <1>3, <1>4, <1>5, <1>7, <1>8 DEF CaptureInv, LeaseInv

\* The epoch has been raised to the token of whoever takes the lease.
LEMMA EpochRises ==
  ASSUME CaptureInv, NEW w \in Workers, Taking(w), WriteNext(w), UNCHANGED kept
  PROVE  CaptureInv'
<1>1. PICK l \in Lease : todo[w] = Write("epoch", job[w].token) \o Write("lease", l)
  BY DEF Taking
<1>2. /\ Head(todo[w]).file = "epoch" /\ Head(todo[w]).value = job[w].token
      /\ Tail(todo[w]) = Write("lease", l)
  BY <1>1, FirstOfTaking
<1>3. Write("lease", l) \in Calmly
  BY CalmWrites
<1>4. job[w].token \in Nat /\ disk.epoch \in Nat /\ disk.epoch < job[w].token
  BY DiskHas DEF CaptureInv, TypeInv, Job, Taking
<1>5. disk' \in Disk /\ disk'.epoch = job[w].token
  <2>1. disk' = [disk EXCEPT !["epoch"] = job[w].token]
    BY <1>2 DEF WriteNext
  <2>2. QED BY <1>4, <2>1, DiskReplaced DEF FileNames, Contents, CaptureInv, TypeInv
<1>6. /\ todo' = [todo EXCEPT ![w] = Write("lease", l)] /\ todo[w] # << >>
      /\ UNCHANGED <<pc, job, kept>>
  BY <1>2 DEF WriteNext
<1>7. /\ todo'[w] = Write("lease", l) /\ Write("lease", l) \in Writes
      /\ \A v \in Workers \ {w} : todo'[v] = << >> /\ todo[v] = << >>
  BY <1>3, <1>6, NextWrite, CalmIsWritten DEF CaptureInv, TypeInv
<1>8. TypeInv'
  BY <1>5, <1>6, <1>7 DEF CaptureInv, TypeInv
<1>9. OneWriter' /\ EpochsAreRaised'
  BY <1>3, <1>7, Joined DEF OneWriter, EpochsAreRaised
<1>10. TokensAreOld'
  <2>1. \A v \in Workers \ {w} : ~Opens(v)
    BY <1>7 DEF Opens
  <2>2. ASSUME NEW v \in Workers, pc[v] \in Owning, job[v].era = kept.restores
        PROVE  job[v].token <= job[w].token
    <3>1. job[v].token \in Nat
      BY DEF CaptureInv, TypeInv, Job
    <3>2. v # w => job[v].token <= disk.epoch
      BY <2>1, <2>2 DEF CaptureInv, LeaseInv, TokensAreOld
    <3>3. QED BY <1>4, <3>1, <3>2
  <2>3. \A v \in Workers : pc[v] \in Restoring => todo'[v] = << >>
    BY <1>7 DEF Taking, Restoring
  <2>4. QED BY <1>5, <1>6, <2>2, <2>3 DEF CaptureInv, LeaseInv, TokensAreOld
<1>11. TokensDiffer'
  BY <1>6 DEF CaptureInv, LeaseInv, TokensDiffer
<1>12. QED BY <1>8, <1>9, <1>10, <1>11 DEF CaptureInv, LeaseInv

LEMMA WriteKeeps ==
  ASSUME CaptureInv, NEW w \in Workers, WriteNext(w), UNCHANGED kept
  PROVE  CaptureInv'
<1> DEFINE f == Head(todo[w]).file
           v == Head(todo[w]).value
<1>1. /\ todo[w] # << >> /\ f # "active" /\ disk' = [disk EXCEPT ![f] = v]
      /\ todo' = [todo EXCEPT ![w] = Tail(todo[w])] /\ UNCHANGED <<pc, job, kept>>
  BY DEF WriteNext
<1>2. f \in FileNames /\ v \in Contents[f] /\ Tail(todo[w]) \in Writes
  BY <1>1, NextWrite
<1> HIDE DEF f, v
<1>3. disk' \in Disk /\ (f # "epoch" => disk'.epoch = disk.epoch)
  <2>1. disk \in Disk
    BY DEF CaptureInv, TypeInv
  <2>2. [disk EXCEPT ![f] = v] \in Disk /\ (f # "epoch" => [disk EXCEPT ![f] = v].epoch = disk.epoch)
    BY <1>2, <2>1, DiskReplaced
  <2>3. QED BY <1>1, <2>2
<1>4. pc' = [pc EXCEPT ![w] = pc[w]] /\ pc[w] \in Labels
  BY <1>1 DEF CaptureInv, TypeInv
<1>5. CASE pc[w] \in Restoring
  BY <1>1, <1>2, <1>3, <1>4, <1>5, RestoringStep
<1>6. CASE Taking(w)
  BY <1>6, EpochRises
<1>7. CASE pc[w] \notin Restoring /\ todo[w] \in Calmly
  <2>1. Tail(todo[w]) \in Calmly /\ ~Opens(w) /\ \A u \in Workers \ {w} : todo[u] = << >>
    BY <1>1, <1>7, NextWrite
  <2>2. disk'.epoch = disk.epoch
    BY <1>1, <1>3, <2>1 DEF Opens, f
  <2>3. TokenKept(w, pc[w])
    BY <1>1, <2>1 DEF TokenKept
  <2>4. QED BY <1>1, <1>3, <1>4, <1>7, <2>1, <2>2, <2>3, CalmStep DEF CaptureInv, TypeInv
<1>8. QED BY <1>5, <1>6, <1>7 DEF CaptureInv, LeaseInv, EpochsAreRaised

LEMMA PublishKeeps ==
  ASSUME CaptureInv, NEW w \in Workers, PublishNext(w), UNCHANGED kept
  PROVE  CaptureInv'
<1> DEFINE active == Head(todo[w]).value
           mark == Write("workset", [disk.workset EXCEPT !.active = active])
           changes == Usable /\ disk.workset.active # active
           rest == IF changes THEN mark \o Tail(todo[w]) ELSE Tail(todo[w])
<1>1. /\ todo[w] # << >> /\ Head(todo[w]).file = "active" /\ UNCHANGED <<pc, job, kept>>
      /\ todo' = [todo EXCEPT ![w] = rest]
      /\ disk' = IF changes THEN [disk EXCEPT !["workset"] = None] ELSE disk
  BY DEF PublishNext
<1>2. /\ active \in BOOLEAN /\ Tail(todo[w]) \in Writes
      /\ todo[w] \in Calmly => Tail(todo[w]) \in Calmly
      /\ ~Opens(w) /\ \A v \in Workers \ {w} : todo[v] = << >>
  BY <1>1, NextWrite DEF Opens
<1>3. changes => mark \in Calmly
  <2>1. ASSUME changes PROVE [disk.workset EXCEPT !.active = active] \in Workset
    <3>1. disk.workset \in Workset
      BY <2>1, DiskHas DEF Usable, CaptureInv, TypeInv
    <3>2. QED BY <1>2, <3>1 DEF Workset
  <2>2. QED BY <2>1, CalmWrites
<1> HIDE DEF active, mark
<1>4. rest \in Writes /\ (todo[w] \in Calmly => rest \in Calmly)
  BY <1>2, <1>3, Joined, CalmIsWritten
<1>5. disk' \in Disk /\ disk'.epoch = disk.epoch
  <2>1. /\ [disk EXCEPT !["workset"] = None] \in Disk
        /\ [disk EXCEPT !["workset"] = None].epoch = disk.epoch
    BY DiskReplaced DEF FileNames, Contents, CaptureInv, TypeInv
  <2>2. QED BY <1>1, <2>1 DEF CaptureInv, TypeInv
<1> HIDE DEF rest
<1>6. pc' = [pc EXCEPT ![w] = pc[w]] /\ pc[w] \in Labels
  BY <1>1 DEF CaptureInv, TypeInv
<1>7. CASE pc[w] \in Restoring
  BY <1>1, <1>4, <1>5, <1>6, <1>7, RestoringStep
<1>8. CASE pc[w] \notin Restoring
  <2>1. ~Taking(w)
    BY <1>1, FirstOfTaking DEF Taking
  <2>2. todo[w] \in Calmly
    BY <1>8, <2>1 DEF CaptureInv, LeaseInv, EpochsAreRaised
  <2>3. TokenKept(w, pc[w])
    BY <1>1, <1>2 DEF TokenKept
  <2>4. QED BY <1>1, <1>2, <1>4, <1>5, <1>6, <1>8, <2>2, <2>3, CalmStep DEF CaptureInv, TypeInv
<1>9. QED BY <1>7, <1>8

-----------------------------------------------------------------------------
(* Backup, restore and what goes wrong                                     *)

\* Nothing moves but what a lease, the configuration or a backup says.
LEMMA QuietKeeps ==
  ASSUME CaptureInv, UNCHANGED <<todo, pc, job>>, disk' \in Disk, disk'.epoch = disk.epoch,
         kept' \in [zip : Disk \cup {None}, former : Disk \cup {None}, restores : Nat],
         kept'.restores = kept.restores
  PROVE  CaptureInv'
<1>1. TypeInv'
  BY DEF CaptureInv, TypeInv
<1>2. OneWriter' /\ TokensDiffer'
  BY DEF CaptureInv, LeaseInv, OneWriter, TokensDiffer
<1>3. EpochsAreRaised'
  <2>1. \A w \in Workers : Taking(w) => Taking(w)'
    BY DEF Taking
  <2>2. QED BY <2>1 DEF CaptureInv, LeaseInv, EpochsAreRaised
<1>4. TokensAreOld'
  BY DEF CaptureInv, LeaseInv, TokensAreOld, Opens
<1>5. QED BY <1>1, <1>2, <1>3, <1>4 DEF CaptureInv, LeaseInv

LEMMA ClockKeeps ==
  ASSUME CaptureInv, LeaseExpires \/ ConfigChanges, UNCHANGED kept
  PROVE  CaptureInv'
<1>1. disk \in Disk
  BY DEF CaptureInv, TypeInv
<1>2. disk' \in Disk /\ disk'.epoch = disk.epoch
  <2>1. CASE LeaseExpires
    <3>1. disk.lease \in Lease
      BY <1>1, <2>1, DiskHas DEF LeaseExpires, LeaseLive
    <3>2. [disk.lease EXCEPT !.live = FALSE] \in Lease
      BY <3>1 DEF Lease
    <3>3. disk' = [disk EXCEPT !["lease"] = [disk.lease EXCEPT !.live = FALSE]]
      BY <1>1, <2>1 DEF LeaseExpires
    <3>4. QED BY <1>1, <3>2, <3>3, DiskReplaced DEF FileNames, Contents
  <2>2. CASE ConfigChanges
    <3>1. PICK c \in 1 .. MaxConfig : disk' = [disk EXCEPT !["config"] = c]
      BY <2>2 DEF ConfigChanges
    <3>2. QED BY <1>1, <3>1, DiskReplaced DEF FileNames, Contents
  <2>3. QED BY <2>1, <2>2
<1>3. QED BY <1>2, QuietKeeps DEF LeaseExpires, ConfigChanges, CaptureInv, TypeInv

LEMMA BlankIs == Blank \in Disk
BY CaptureAssumption DEF Blank, Disk, Batch

LEMMA BackupKeeps ==
  ASSUME CaptureInv, Backup
  PROVE  CaptureInv'
<1>1. Archived \in Disk
  <2>1. /\ receipt \in Receipt \cup {None} /\ disk.ledger \in Statuses \cup {None}
        /\ disk.manifest \in Batch \cup {None} /\ disk.observations \in Batch
    BY DiskHas DEF CaptureInv, TypeInv, receipt
  <2>2. QED BY <2>1, BlankIs DEF Archived, Disk
<1>2. kept' = [kept EXCEPT !.zip = Archived] /\ UNCHANGED <<disk, todo, pc, job>>
  BY DEF Backup
<1>3. /\ kept' \in [zip : Disk \cup {None}, former : Disk \cup {None}, restores : Nat]
      /\ kept'.restores = kept.restores
  BY <1>1, <1>2 DEF CaptureInv, TypeInv
<1>4. QED BY <1>2, <1>3, QuietKeeps DEF CaptureInv, TypeInv

LEMMA ContentsOf ==
  ASSUME NEW d \in Disk, NEW f \in FileNames
  PROVE  d[f] \in Contents[f]
<1>1. d.receipt \in Contents["receipt"]
  BY DiskHas DEF Contents
<1>2. d.ledger \in Contents["ledger"]
  BY DiskHas DEF Contents
<1>3. d.manifest \in Contents["manifest"]
  BY DiskHas DEF Contents
<1>4. d.observations \in Contents["observations"]
  BY DiskHas DEF Contents
<1>5. d.staged \in Contents["staged"]
  BY DiskHas DEF Contents
<1>6. d.journal \in Contents["journal"]
  BY DiskHas DEF Contents
<1>7. d.transition \in Contents["transition"]
  BY DiskHas DEF Contents
<1>8. d.lease \in Contents["lease"]
  BY DiskHas DEF Contents
<1>9. d.epoch \in Contents["epoch"]
  BY DiskHas DEF Contents
<1>10. d.workset \in Contents["workset"]
  BY DiskHas DEF Contents
<1>11. d.config \in Contents["config"]
  BY DiskHas DEF Contents
<1>12. d.reserved \in Contents["reserved"]
  BY DiskHas DEF Contents
<1>13. d.settled \in Contents["settled"]
  BY DiskHas DEF Contents
<1>14. QED
  BY <1>1, <1>2, <1>3, <1>4, <1>5, <1>6, <1>7, <1>8, <1>9, <1>10, <1>11, <1>12, <1>13 DEF FileNames

LEMMA BringIs ==
  ASSUME NEW d \in Disk
  PROVE  Bring(d) \in Writes
<1>1. \A f \in FileNames : Put(f, d[f]) \in Writes
  BY ContentsOf, OneWrite, Joined DEF Put
<1>2. \A f \in {"staged", "observations"} : Growing(f, {}, d[f]) \in Writes
  <2>1. {} \in Batch /\ d.staged \in Batch /\ d.observations \in Batch
    BY DiskHas DEF Batch
  <2>2. QED BY <2>1, Spreads, CalmIsWritten
<1>3. /\ Put("reserved", d.reserved) \in Writes /\ Put("settled", d.settled) \in Writes
      /\ Put("manifest", d.manifest) \in Writes /\ Put("journal", d.journal) \in Writes
      /\ Put("transition", d.transition) \in Writes /\ Put("epoch", d.epoch) \in Writes
      /\ Put("lease", d.lease) \in Writes /\ Put("ledger", d.ledger) \in Writes
      /\ Put("receipt", d.receipt) \in Writes /\ Put("workset", d.workset) \in Writes
      /\ Growing("staged", {}, d.staged) \in Writes
      /\ Growing("observations", {}, d.observations) \in Writes
  BY <1>1, <1>2 DEF FileNames
<1>4. QED BY <1>3, Joined DEF Bring

LEMMA ClearedIs ==
  ASSUME CaptureInv
  PROVE  Cleared \in Writes /\ Reset("workset") \in Writes
<1>1. \A f \in FileNames : Reset(f) \in Writes
  BY BlankIs, ContentsOf, OneWrite, Joined DEF Reset
<1>2. /\ Shrinking("staged", disk.staged, disk.staged) \in Writes
      /\ Shrinking("observations", disk.observations, disk.observations) \in Writes
  BY LeftoversAre, Spreads, CalmIsWritten DEF CaptureInv
<1>3. /\ Reset("receipt") \in Writes /\ Reset("ledger") \in Writes /\ Reset("lease") \in Writes
      /\ Reset("epoch") \in Writes /\ Reset("transition") \in Writes /\ Reset("journal") \in Writes
      /\ Reset("manifest") \in Writes /\ Reset("settled") \in Writes
      /\ Reset("reserved") \in Writes /\ Reset("workset") \in Writes
  BY <1>1 DEF FileNames
<1>4. QED BY <1>2, <1>3, Joined DEF Cleared

\* Every token there is becomes one of an earlier era.
LEMMA RestoreKeeps ==
  ASSUME CaptureInv, NEW w \in Workers, Restore(w)
  PROVE  CaptureInv'
<1> DEFINE writes == Reset("workset") \o Cleared \o Bring(kept.zip)
<1>1. /\ Free /\ pc[w] = "idle" /\ kept.zip \in Disk /\ disk' = disk /\ job' = job
      /\ todo' = [todo EXCEPT ![w] = writes] /\ pc' = [pc EXCEPT ![w] = "restoring"]
  BY DEF Restore, At, Section, Goto, CaptureInv, TypeInv
<1>2. writes \in Writes
  BY <1>1, ClearedIs, BringIs, Joined
<1> HIDE DEF writes
<1>3. /\ kept' \in [zip : Disk \cup {None}, former : Disk \cup {None}, restores : Nat]
      /\ kept'.restores = kept.restores + 1 /\ kept.restores \in Nat
  BY DEF Restore, CaptureInv, TypeInv
<1>4. "restoring" \in Labels /\ "restoring" \in Restoring /\ "restoring" \notin Owning
  BY DEF Labels, Restoring, Owning, Leased
<1>5. TypeInv'
  BY <1>1, <1>2, <1>3, <1>4 DEF CaptureInv, TypeInv
<1>6. /\ pc'[w] = "restoring"
      /\ \A v \in Workers \ {w} : pc'[v] = pc[v] /\ todo'[v] = << >>
  BY <1>1 DEF CaptureInv, TypeInv, Free
<1>7. OneWriter' /\ EpochsAreRaised'
  BY <1>4, <1>6, Joined DEF OneWriter, EpochsAreRaised
<1>8. \A v \in Workers : pc'[v] \in Owning => pc[v] \in Owning
  BY <1>4, <1>6
<1>9. TokensAreOld'
  <2>1. ASSUME NEW v \in Workers, pc'[v] \in Owning
        PROVE  job'[v].era <= kept'.restores /\ job'[v].era # kept'.restores
    <3>1. job[v].era \in Nat /\ job[v].era <= kept.restores
      BY <1>8, <2>1 DEF CaptureInv, TypeInv, Job, LeaseInv, TokensAreOld
    <3>2. QED BY <1>1, <1>3, <3>1
  <2>2. QED BY <2>1 DEF TokensAreOld
<1>10. TokensDiffer'
  BY <1>1, <1>8 DEF CaptureInv, LeaseInv, TokensDiffer
<1>11. QED BY <1>5, <1>7, <1>9, <1>10 DEF CaptureInv, LeaseInv

LEMMA RestoreFailsKeeps ==
  ASSUME CaptureInv, NEW w \in Workers, RestoreFails(w)
  PROVE  CaptureInv'
<1> DEFINE writes == Cleared \o Bring(kept.former) \o Write("workset", None)
<1>1. /\ pc[w] = "restoring" /\ todo[w] # << >> /\ kept.former \in Disk
      /\ pc' = [pc EXCEPT ![w] = "reverting"] /\ todo' = [todo EXCEPT ![w] = writes]
      /\ UNCHANGED <<disk, job, kept>>
  BY DEF RestoreFails, Goto, CaptureInv, TypeInv
<1>2. writes \in Writes
  <2>1. Write("workset", None) \in Writes
    BY CalmWrites, CalmIsWritten
  <2>2. QED BY <1>1, <2>1, ClearedIs, BringIs, Joined
<1> HIDE DEF writes
<1>3. "reverting" \in Restoring /\ "restoring" \in Restoring
  BY DEF Restoring
<1>4. QED BY <1>1, <1>2, <1>3, RestoringStep DEF CaptureInv, TypeInv

\* The rest of the section is forgotten.
LEMMA StopKeeps ==
  ASSUME CaptureInv, NEW w \in Workers, NEW label \in Labels, label \notin Restoring,
         Goto(w, label), todo' = [todo EXCEPT ![w] = << >>], UNCHANGED disk, Leaves(w),
         label \in Owning => pc[w] \in Owning /\ ~Opens(w),
         Carry(w) \/ (TokenKept(w, label) /\ job' \in [Workers -> Job])
  PROVE  CaptureInv'
<1>1. pc' = [pc EXCEPT ![w] = label]
  BY DEF Goto
<1>2. TokenKept(w, label) /\ job' \in [Workers -> Job]
  BY <1>1, Carried
<1>3. /\ kept' \in [zip : Disk \cup {None}, former : Disk \cup {None}, restores : Nat]
      /\ kept'.restores = kept.restores
  BY DEF Leaves, CaptureInv, TypeInv
<1>4. << >> \in Calmly
  BY Joined
<1>5. QED BY <1>1, <1>2, <1>3, <1>4, CalmStep DEF CaptureInv, TypeInv

LEMMA CrashKeeps ==
  ASSUME CaptureInv, NEW w \in Workers, Crash(w)
  PROVE  CaptureInv'
<1>1. "idle" \in Labels /\ "idle" \notin Restoring /\ "idle" \notin Owning
  BY DEF Labels, Running, Restoring, Owning, Leased
<1>2. QED BY <1>1, StopKeeps DEF Crash

LEMMA RestoreEndsKeeps ==
  ASSUME CaptureInv, NEW w \in Workers, RestoreEnds(w)
  PROVE  CaptureInv'
<1>1. "idle" \in Labels /\ "idle" \notin Restoring /\ "idle" \notin Owning
  BY DEF Labels, Running, Restoring, Owning, Leased
<1>2. TokenKept(w, "idle") /\ job' \in [Workers -> Job]
  BY <1>1 DEF RestoreEnds, TokenKept, CaptureInv, TypeInv
<1>3. todo' = [todo EXCEPT ![w] = << >>]
  BY DEF RestoreEnds, CaptureInv, TypeInv
<1>4. QED BY <1>1, <1>2, <1>3, StopKeeps DEF RestoreEnds

LEMMA FailKeeps ==
  ASSUME CaptureInv, NEW w \in Workers, Fail(w)
  PROVE  CaptureInv'
<1>1. PICK label \in Raised(w, pc[w]) : Goto(w, label)
  BY DEF Fail
<1>2. /\ label \in {"idle", "unreadable", "release", "handled", "retried"}
      /\ label # "idle" => pc[w] \in {"checked", "requeued", "reserved", "begun", "empty", "release",
                                      "handled", "identity_raised", "retried"}
  BY <1>1 DEF Raised
<1>3. "idle" \in Labels /\ "idle" \notin Restoring /\ "idle" \notin Owning
  BY DEF Labels, Running, Restoring, Owning, Leased
<1>4. label \in Labels /\ label \notin Restoring
  BY <1>2, <1>3, RunnerLabels
<1>5. label \in Owning => pc[w] \in Owning /\ ~Opens(w)
  <2> SUFFICES ASSUME label # "idle" PROVE pc[w] \in Owning /\ ~Opens(w)
    BY <1>3
  <2>1. pc[w] \in Owning /\ pc[w] \notin Restoring /\ pc[w] \notin {"leased", "parked"}
    BY <1>2, RunnerLabels
  <2>2. todo[w] \in Calmly
    BY <2>1 DEF CaptureInv, LeaseInv, EpochsAreRaised, Taking
  <2>3. QED BY <2>1, <2>2, NextWrite DEF Fail
<1>6. Carry(w) \/ (TokenKept(w, label) /\ job' \in [Workers -> Job])
  <2>1. CASE pc[w] = "reserved"
    <3>1. job' = [job EXCEPT ![w].reserved = 0]
      BY <2>1 DEF Fail, Remember
    <3>2. QED BY <1>5, <3>1 DEF TokenKept, CaptureInv, TypeInv, Job
  <2>2. CASE pc[w] # "reserved"
    BY <2>2 DEF Fail
  <2>3. QED BY <2>1, <2>2
<1>7. QED BY <1>1, <1>4, <1>5, <1>6, StopKeeps DEF Fail

-----------------------------------------------------------------------------
LEMMA InitCapture == Init => CaptureInv
<1> SUFFICES ASSUME Init PROVE CaptureInv
  OBVIOUS
<1>1. "idle" \in Labels /\ "idle" \notin Owning
  BY DEF Labels, Owning, Leased
<1>2. NoJob \in Job
  BY DEF NoJob, Job
<1>3. TypeInv
  BY <1>1, <1>2, BlankIs, Joined DEF Init, TypeInv
<1>4. LeaseInv
  BY <1>1, Joined DEF Init, LeaseInv, OneWriter, EpochsAreRaised, TokensAreOld, TokensDiffer
<1>5. QED BY <1>3, <1>4 DEF CaptureInv

LEMMA StepKeeps ==
  ASSUME CaptureInv, NEW w \in Workers, Step(w) \/ Start(w), UNCHANGED kept
  PROVE  CaptureInv'
<1>1. CASE Step(w)
  BY <1>1, WriteKeeps, PublishKeeps, CheckKeeps, RetryKeeps, FinishKeeps, TakeLeaseKeeps,
     ContendedKeeps, TriesKeep, ReleaseKeeps, RaisesKeep, ReserveKeeps, BeginKeeps, EndsKeep,
     ScannerKeeps, LockBusyKeeps DEF Step
<1>2. CASE Start(w)
  BY <1>2, RecoverAllKeeps, RecoverActiveKeeps, AuditKeeps, RetryKeeps DEF Start
<1>3. QED BY <1>1, <1>2

LEMMA NextCapture ==
  ASSUME CaptureInv, [Next]_vars
  PROVE  CaptureInv'
<1>1. CASE Calm
  BY <1>1, StepKeeps, ClockKeeps, BackupKeeps, RestoreKeeps, RestoreEndsKeeps DEF Calm
<1>2. CASE \E w \in Workers : Fail(w) \/ Crash(w) \/ RestoreFails(w)
  BY <1>2, FailKeeps, CrashKeeps, RestoreFailsKeeps
<1>3. CASE UNCHANGED vars
  BY <1>3, QuietKeeps DEF vars, CaptureInv, TypeInv
<1>4. QED BY <1>1, <1>2, <1>3 DEF Next

\* Every file of a revision holds what its schema says, in the middle of every
\* section and of every restore, whatever failed in between.
THEOREM CaptureTypeCorrect == Spec => []TypeOK
<1>1. CaptureInv /\ [Next]_vars => CaptureInv'
  BY NextCapture
<1>2. CaptureInv => TypeOK
  <2>1. TypeInv => \A w \in Workers : Len(todo[w]) \in Nat
    BY DEF TypeInv, Writes
  <2>2. QED BY <2>1 DEF CaptureInv, TypeInv, TypeOK
<1>3. QED BY <1>1, <1>2, InitCapture, PTL DEF Spec

\* A lease has one owner, however often leases expire, are released or lost,
\* and whatever a restore brings back: the token of a lease is above the epoch
\* file, which only grows between two restores, and tokens of before a restore
\* are told apart by their times.
THEOREM LeaseHasOneOwner == Spec => []OneOwner
<1>1. CaptureInv /\ [Next]_vars => CaptureInv'
  BY NextCapture
<1>2. CaptureInv => OneOwner
  BY DEF CaptureInv, LeaseInv, TokensDiffer, OneOwner, HoldsLease, Owning
<1>3. QED BY <1>1, <1>2, InitCapture, PTL DEF Spec

-----------------------------------------------------------------------------
(* What a list of writes amounts to                                        *)

IsComplete(d) == d.receipt # None /\ d.receipt.status = "complete"

\* A complete receipt has its manifest, its observations and its ledger.
IsWhole(d) ==
  IsComplete(d) =>
    /\ d.manifest # None /\ d.receipt.count = Cardinality(d.manifest)
    /\ d.manifest \subseteq d.observations /\ d.ledger = "complete"

\* What the files must hold before the receipt of batch m is complete.
Bound == {"manifest", "ledger", "observations"}

Good(f, v, m) ==
  /\ f = "manifest" => v = m
  /\ f = "ledger" => v = "complete"
  /\ f = "observations" => m \subseteq v

\* Writes that make no receipt complete, and writes that leave one alone.
Completing(x) == x.file = "receipt" /\ x.value # None /\ x.value.status = "complete"
Harmless(x, m) == x.file # "receipt" /\ Good(x.file, x.value, m)

Unfinishing == {x \in WritesOf(FileNames) : ~Completing(x)}
HarmlessTo(m) == {x \in WritesOf(FileNames) : Harmless(x, m)}

\* From some write of file f on, or from the beginning, it is good.
Keeps(t, f, m) == \A i \in 1 .. Len(t) : t[i].file = f => Good(f, t[i].value, m)
Sets(t, f, m) ==
  \/ f = "observations" /\ m = {}
  \/ \E k \in 1 .. Len(t) :
       t[k].file = f /\ \A i \in k .. Len(t) : t[i].file = f => Good(f, t[i].value, m)

Leads(d, t, m) == \A f \in Bound : Sets(t, f, m) \/ (Keeps(t, f, m) /\ Good(f, d[f], m))

\* The receipt is written between a and b.
Around(t, a, r, b) == t = a \o Write("receipt", r) \o b

\* The writes of a commit, or of the files of a backup: all that the receipt
\* refers to before it, and nothing of that after it.
Completes(d, t, m) ==
  \E a \in Seq(Unfinishing), b \in Seq(HarmlessTo(m)), r \in Receipt :
    /\ Around(t, a, r, b)
    /\ r.count = Cardinality(m) /\ Leads(d, a, m)

\* The writes of a restore: the receipt goes before what it refers to.
Clears(d, t) ==
  \E a \in Seq(HarmlessTo(d.manifest)), b \in Writes : Around(t, a, None, b)

Planned(d, t, restoring) ==
  /\ t \in Seq(Unfinishing) \/ \E m \in Batch : Completes(d, t, m)
  /\ IsComplete(d) => t \in Seq(HarmlessTo(d.manifest)) \/ (restoring /\ Clears(d, t))

Wholes ==
  /\ IsWhole(disk)
  /\ kept.zip # None => IsWhole(kept.zip)
  /\ kept.former # None => IsWhole(kept.former)

ContentInv == Wholes /\ \A w \in Workers : Planned(disk, todo[w], pc[w] \in Restoring)

\* What no one does to a complete receipt but a restore.
Lasts(d, e) ==
  e.receipt = d.receipt /\ e.manifest = d.manifest /\ d.manifest \subseteq e.observations

LEMMA WritesAre ==
  /\ Unfinishing \subseteq WritesOf(FileNames)
  /\ \A m : HarmlessTo(m) \subseteq Unfinishing
  /\ Seq(Unfinishing) \subseteq Writes
  /\ \A m : Seq(HarmlessTo(m)) \subseteq Seq(Unfinishing)
<1>1. Unfinishing \subseteq WritesOf(FileNames)
  BY DEF Unfinishing
<1>2. ASSUME NEW m PROVE HarmlessTo(m) \subseteq Unfinishing
  BY DEF HarmlessTo, Unfinishing, Harmless, Completing
<1>3. QED BY <1>1, <1>2, Lists DEF Writes

LEMMA Narrowed ==
  ASSUME NEW S, NEW T, NEW t \in Seq(S), \A i \in 1 .. Len(t) : t[i] \in T
  PROVE  t \in Seq(T)
OBVIOUS

\* Taking the first write of a list that is put together from two.
LEMMA TailOfConcat ==
  ASSUME NEW S, NEW s \in Seq(S), NEW t \in Seq(S), s # << >>
  PROVE  s \o t # << >> /\ Head(s \o t) = Head(s) /\ Tail(s \o t) = Tail(s) \o t
<1> DEFINE st == s \o t
           u == Tail(s)
           ut == u \o t
<1>1. /\ st \in Seq(S) /\ Len(st) = Len(s) + Len(t)
      /\ \A i \in 1 .. Len(s) + Len(t) : st[i] = IF i <= Len(s) THEN s[i] ELSE t[i - Len(s)]
  BY ConcatProperties
<1>2. Len(s) \in Nat \ {0} /\ Len(t) \in Nat
  BY EmptySeq, LenProperties
<1>3. u \in Seq(S) /\ Len(u) = Len(s) - 1 /\ \A i \in 1 .. Len(u) : u[i] = s[i + 1]
  BY HeadTailProperties
<1>4. /\ ut \in Seq(S) /\ Len(ut) = Len(u) + Len(t)
      /\ \A i \in 1 .. Len(u) + Len(t) : ut[i] = IF i <= Len(u) THEN u[i] ELSE t[i - Len(u)]
  BY <1>3, ConcatProperties
<1> HIDE DEF st, u, ut
<1>5. st # << >>
  BY <1>1, <1>2, EmptySeq
<1> DEFINE v == Tail(st)
<1>6. v \in Seq(S) /\ Len(v) = Len(st) - 1 /\ \A i \in 1 .. Len(v) : v[i] = st[i + 1]
  BY <1>1, <1>5, HeadTailProperties
<1> HIDE DEF v
<1>7. v = ut
  <2>1. Len(v) = Len(ut)
    BY <1>1, <1>2, <1>3, <1>4, <1>6
  <2>2. ASSUME NEW i \in 1 .. Len(v) PROVE v[i] = ut[i]
    <3>1. Len(v) = Len(s) + Len(t) - 1 /\ Len(ut) = Len(s) - 1 + Len(t)
      BY <1>1, <1>2, <1>3, <1>4, <1>6
    <3>2. v[i] = IF i + 1 <= Len(s) THEN s[i + 1] ELSE t[i + 1 - Len(s)]
      BY <1>1, <1>2, <1>6, <2>2, <3>1
    <3>3. ut[i] = IF i <= Len(s) - 1 THEN s[i + 1] ELSE t[i - (Len(s) - 1)]
      BY <1>2, <1>3, <1>4, <2>2, <3>1
    <3>4. QED BY <1>2, <2>2, <3>1, <3>2, <3>3
  <2>3. QED BY <1>4, <1>6, <2>1, <2>2, SeqEqual
<1>8. Head(st) = Head(s)
  <2>1. Head(st) = st[1] /\ Head(s) = s[1]
    OBVIOUS
  <2>2. QED BY <1>1, <1>2, <2>1
<1>9. QED BY <1>5, <1>7, <1>8 DEF st, ut, u, v

LEMMA TailKeeps ==
  ASSUME NEW t \in Writes, t # << >>, NEW f, NEW m, Keeps(t, f, m)
  PROVE  Keeps(Tail(t), f, m) /\ (Head(t).file = f => Good(f, Head(t).value, m))
<1>1. /\ Tail(t) \in Writes /\ Len(Tail(t)) = Len(t) - 1 /\ Len(t) \in Nat \ {0}
      /\ \A i \in 1 .. Len(Tail(t)) : Tail(t)[i] = t[i + 1]
  BY HeadTailProperties, EmptySeq DEF Writes
<1>2. Head(t) = t[1]
  OBVIOUS
<1>3. \A i \in 1 .. Len(Tail(t)) : i + 1 \in 1 .. Len(t)
  BY <1>1
<1>4. QED BY <1>1, <1>2, <1>3 DEF Keeps

LEMMA TailSets ==
  ASSUME NEW t \in Writes, t # << >>, NEW f, NEW m, Sets(t, f, m)
  PROVE  \/ Sets(Tail(t), f, m)
         \/ Keeps(Tail(t), f, m) /\ Head(t).file = f /\ Good(f, Head(t).value, m)
<1>1. /\ Tail(t) \in Writes /\ Len(Tail(t)) = Len(t) - 1 /\ Len(t) \in Nat \ {0}
      /\ \A i \in 1 .. Len(Tail(t)) : Tail(t)[i] = t[i + 1]
  BY HeadTailProperties, EmptySeq DEF Writes
<1>2. Head(t) = t[1]
  OBVIOUS
<1>3. CASE f = "observations" /\ m = {}
  BY <1>3 DEF Sets
<1>4. CASE ~(f = "observations" /\ m = {})
  <2>1. PICK k \in 1 .. Len(t) :
          t[k].file = f /\ \A i \in k .. Len(t) : t[i].file = f => Good(f, t[i].value, m)
    BY <1>4 DEF Sets
  <2>2. \A i \in 1 .. Len(Tail(t)) : i >= k - 1 => i + 1 \in k .. Len(t)
    BY <1>1
  <2>3. \A i \in k - 1 .. Len(Tail(t)) : i >= 1 /\ Tail(t)[i].file = f => Good(f, Tail(t)[i].value, m)
    BY <1>1, <2>1, <2>2
  <2>4. CASE k = 1
    BY <1>1, <1>2, <2>1, <2>3, <2>4 DEF Keeps
  <2>5. CASE k # 1
    <3>1. k - 1 \in 1 .. Len(Tail(t)) /\ Tail(t)[k - 1] = t[k]
      BY <1>1, <2>5
    <3>2. QED BY <2>1, <2>3, <3>1 DEF Sets
  <2>6. QED BY <2>4, <2>5
<1>5. QED BY <1>3, <1>4

\* One write has been made.
After(d, x, e) ==
  \A f \in Bound \cup {"receipt"} : e[f] = IF x.file = f THEN x.value ELSE d[f]

LEMMA LeadsOn ==
  ASSUME NEW d, NEW e, NEW m, NEW t \in Writes, t # << >>, After(d, Head(t), e), Leads(d, t, m)
  PROVE  Leads(e, Tail(t), m)
<1> SUFFICES ASSUME NEW f \in Bound
             PROVE  Sets(Tail(t), f, m) \/ (Keeps(Tail(t), f, m) /\ Good(f, e[f], m))
  BY DEF Leads
<1>1. e[f] = IF Head(t).file = f THEN Head(t).value ELSE d[f]
  BY DEF After
<1>2. CASE Sets(t, f, m)
  BY <1>1, <1>2, TailSets
<1>3. CASE Keeps(t, f, m) /\ Good(f, d[f], m)
  BY <1>1, <1>3, TailKeeps
<1>4. QED BY <1>2, <1>3 DEF Leads

LEMMA NothingLeads ==
  ASSUME NEW d, NEW m, Leads(d, << >>, m)
  PROVE  d.manifest = m /\ d.ledger = "complete" /\ m \subseteq d.observations
<1>1. \A f \in Bound : Good(f, d[f], m) \/ (f = "observations" /\ m = {})
  BY DEF Leads, Sets
<1>2. QED BY <1>1 DEF Bound, Good

LEMMA TailOfWrites ==
  ASSUME NEW s \in Writes, NEW t \in Writes, s # << >>
  PROVE  s \o t # << >> /\ Head(s \o t) = Head(s) /\ Tail(s \o t) = Tail(s) \o t
<1>1. s \in Seq(WritesOf(FileNames)) /\ t \in Seq(WritesOf(FileNames))
  BY DEF Writes
<1>2. QED BY <1>1, TailOfConcat

\* The first write of a list that has the receipt in its middle.
LEMMA Started ==
  ASSUME NEW a \in Writes, NEW v \in Receipt \cup {None}, NEW b \in Writes,
         NEW t, Around(t, a, v, b)
  PROVE  /\ t \in Writes /\ t # << >>
         /\ a = << >> => Head(t).file = "receipt" /\ Head(t).value = v /\ Tail(t) = b
         /\ a # << >> => Head(t) = Head(a) /\ Around(Tail(t), Tail(a), v, b)
<1> DEFINE x == [file |-> "receipt", value |-> v]
           y == Write("receipt", v)
<1>0. x.file = "receipt" /\ x.value = v
  OBVIOUS
<1>1. y \in Writes
  BY CalmWrites, CalmIsWritten
<1>2. y # << >> /\ Head(y) = x /\ Tail(y) = << >>
  BY DEF Write
<1> HIDE DEF x, y
<1>3. a \o y \in Writes /\ t = (a \o y) \o b /\ t \in Writes
  BY <1>1, Joined DEF y, Around
<1>4. << >> \in Writes /\ << >> \o y = y /\ << >> \o b = b
  BY <1>1, Joined, ConcatEmptySeq DEF Writes
<1>5. y \o b # << >> /\ Head(y \o b) = x /\ Tail(y \o b) = b
  <2>1. y \o b # << >> /\ Head(y \o b) = Head(y) /\ Tail(y \o b) = Tail(y) \o b
    BY <1>1, <1>2, TailOfWrites
  <2>2. QED BY ONLY <1>2, <1>4, <2>1
<1>6. CASE a = << >>
  <2>1. t = y \o b
    BY <1>3, <1>4, <1>6
  <2>2. t # << >> /\ Head(t).file = "receipt" /\ Head(t).value = v /\ Tail(t) = b
    BY ONLY <1>0, <1>5, <2>1
  <2>3. QED BY ONLY <1>3, <1>6, <2>2
<1>7. CASE a # << >>
  <2>1. a \o y # << >> /\ Head(a \o y) = Head(a) /\ Tail(a \o y) = Tail(a) \o y
    BY <1>1, <1>7, TailOfWrites
  <2> DEFINE s == a \o y
  <2> HIDE DEF s
  <2>2. s \in Writes /\ s # << >> /\ t = s \o b
    BY <1>3, <2>1 DEF s
  <2>3. t # << >> /\ Head(t) = Head(s) /\ Tail(t) = Tail(s) \o b
    BY <2>2, TailOfWrites
  <2>4. QED BY <1>3, <1>7, <2>1, <2>3 DEF y, s, Around
<1>8. QED BY <1>6, <1>7

LEMMA CompletesOn ==
  ASSUME NEW d, NEW e, NEW m, NEW t, Completes(d, t, m), After(d, Head(t), e)
  PROVE  /\ t # << >> /\ t \in Writes
         /\ \/ /\ Head(t) \in Unfinishing /\ Completes(e, Tail(t), m)
            \/ /\ Head(t).file = "receipt" /\ Tail(t) \in Seq(HarmlessTo(m))
               /\ Head(t).value \in Receipt /\ Head(t).value.count = Cardinality(m)
               /\ d.manifest = m /\ d.ledger = "complete" /\ m \subseteq d.observations
<1>1. PICK a \in Seq(Unfinishing), b \in Seq(HarmlessTo(m)), r \in Receipt :
        /\ Around(t, a, r, b)
        /\ r.count = Cardinality(m) /\ Leads(d, a, m)
  BY DEF Completes
<1>2. a \in Writes /\ b \in Writes
  BY WritesAre
<1>3. r \in Receipt \cup {None}
  OBVIOUS
<1>4. /\ t \in Writes /\ t # << >>
      /\ a = << >> => Head(t).file = "receipt" /\ Head(t).value = r /\ Tail(t) = b
      /\ a # << >> => Head(t) = Head(a) /\ Around(Tail(t), Tail(a), r, b)
  BY <1>1, <1>2, <1>3, Started
<1>5. CASE a = << >>
  <2>1. d.manifest = m /\ d.ledger = "complete" /\ m \subseteq d.observations
    BY <1>1, <1>5, NothingLeads
  <2>2. QED BY <1>1, <1>4, <1>5, <2>1
<1>6. CASE a # << >>
  <2>1. Head(a) \in Unfinishing /\ Tail(a) \in Seq(Unfinishing)
    BY <1>6, FirstOf
  <2>2. Leads(e, Tail(a), m)
    BY <1>1, <1>2, <1>4, <1>6, LeadsOn
  <2>3. Completes(e, Tail(t), m)
    BY <1>1, <1>4, <1>6, <2>1, <2>2 DEF Completes
  <2>4. QED BY <1>4, <1>6, <2>1, <2>3
<1>7. QED BY <1>5, <1>6

LEMMA ClearsOn ==
  ASSUME NEW d, NEW e, e.manifest = d.manifest, NEW t, Clears(d, t)
  PROVE  /\ t # << >> /\ t \in Writes
         /\ \/ Head(t) \in HarmlessTo(d.manifest) /\ Clears(e, Tail(t))
            \/ Head(t).file = "receipt" /\ Head(t).value = None
<1>1. PICK a \in Seq(HarmlessTo(d.manifest)), b \in Writes : Around(t, a, None, b)
  BY DEF Clears
<1>2. a \in Writes
  BY WritesAre
<1>3. None \in Receipt \cup {None}
  OBVIOUS
<1>4. /\ t \in Writes /\ t # << >>
      /\ a = << >> => Head(t).file = "receipt" /\ Head(t).value = None
      /\ a # << >> => Head(t) = Head(a) /\ Around(Tail(t), Tail(a), None, b)
  BY <1>1, <1>2, <1>3, Started
<1>5. CASE a = << >>
  BY <1>4, <1>5
<1>6. CASE a # << >>
  <2>1. Head(a) \in HarmlessTo(d.manifest) /\ Tail(a) \in Seq(HarmlessTo(d.manifest))
    BY <1>6, FirstOf
  <2>2. QED BY <1>4, <1>6, <2>1 DEF Clears
<1>7. QED BY <1>5, <1>6

\* A write of a list that keeps to the plan.
LEMMA Made ==
  ASSUME NEW d \in Disk, NEW e \in Disk, IsWhole(d), NEW t \in Writes, t # << >>,
         NEW r \in BOOLEAN, Planned(d, t, r), After(d, Head(t), e)
  PROVE  IsWhole(e) /\ Planned(e, Tail(t), r) /\ (IsComplete(d) /\ ~r => Lasts(d, e))
<1> DEFINE x == Head(t)
<1>1. /\ e.receipt = IF x.file = "receipt" THEN x.value ELSE d.receipt
      /\ e.manifest = IF x.file = "manifest" THEN x.value ELSE d.manifest
      /\ e.ledger = IF x.file = "ledger" THEN x.value ELSE d.ledger
      /\ e.observations = IF x.file = "observations" THEN x.value ELSE d.observations
  BY DEF After, Bound
<1> DEFINE Goes == /\ x \in Unfinishing
                   /\ Tail(t) \in Seq(Unfinishing) \/ \E m \in Batch : Completes(e, Tail(t), m)
           Ends == \E m \in Batch :
                     /\ x.file = "receipt" /\ Tail(t) \in Seq(HarmlessTo(m))
                     /\ x.value \in Receipt /\ x.value.count = Cardinality(m)
                     /\ d.manifest = m /\ d.ledger = "complete" /\ m \subseteq d.observations
           Spared == x \in HarmlessTo(d.manifest)
<1>2. Goes \/ Ends
  <2>1. CASE t \in Seq(Unfinishing)
    BY <2>1, FirstOf
  <2>2. CASE \E m \in Batch : Completes(d, t, m)
    BY <2>2, CompletesOn
  <2>3. QED BY <2>1, <2>2 DEF Planned
<1>3. Spared => e.receipt = d.receipt /\ e.manifest = d.manifest /\ (d.manifest \subseteq d.observations => d.manifest \subseteq e.observations)
        /\ (d.ledger = "complete" => e.ledger = "complete")
  BY <1>1 DEF HarmlessTo, Harmless, Good
<1>4. Spared /\ IsComplete(d) => IsWhole(e) /\ Lasts(d, e)
  BY <1>3 DEF IsWhole, IsComplete, Lasts
<1>5. IsComplete(d) => \/ Spared /\ Tail(t) \in Seq(HarmlessTo(e.manifest))
                       \/ Spared /\ r /\ Clears(e, Tail(t))
                       \/ r /\ ~IsComplete(e)
  <2>1. CASE t \in Seq(HarmlessTo(d.manifest))
    <3>1. x \in HarmlessTo(d.manifest) /\ Tail(t) \in Seq(HarmlessTo(d.manifest))
      BY <2>1, FirstOf
    <3>2. QED BY <1>3, <3>1
  <2>2. CASE r /\ Clears(d, t)
    <3>1. CASE Spared
      <4>1. x.file # "receipt"
        BY <3>1 DEF HarmlessTo, Harmless
      <4>2. QED BY <1>3, <2>2, <3>1, <4>1, ClearsOn
    <3>2. CASE ~Spared
      <4>1. x.file = "receipt" /\ x.value = None
        BY <2>2, <3>2, ClearsOn
      <4>2. QED BY <1>1, <2>2, <4>1 DEF IsComplete
    <3>3. QED BY <3>1, <3>2
  <2>3. QED BY <2>1, <2>2 DEF Planned
<1>6. Goes /\ ~IsComplete(d) => ~IsComplete(e)
  BY <1>1 DEF Unfinishing, Completing, IsComplete
<1>7. Ends => /\ IsWhole(e) /\ Tail(t) \in Seq(Unfinishing)
              /\ Tail(t) \in Seq(HarmlessTo(e.manifest))
  <2> SUFFICES ASSUME Ends PROVE /\ IsWhole(e) /\ Tail(t) \in Seq(Unfinishing)
                                 /\ Tail(t) \in Seq(HarmlessTo(e.manifest))
    OBVIOUS
  <2>1. PICK m \in Batch :
          /\ x.file = "receipt" /\ Tail(t) \in Seq(HarmlessTo(m))
          /\ x.value \in Receipt /\ x.value.count = Cardinality(m)
          /\ d.manifest = m /\ d.ledger = "complete" /\ m \subseteq d.observations
    OBVIOUS
  <2>2. /\ e.receipt.count = Cardinality(m) /\ e.manifest = m /\ e.ledger = "complete"
        /\ m \subseteq e.observations
    BY <1>1, <2>1
  <2>3. m # None
    BY CaptureAssumption DEF Batch
  <2>4. QED BY <2>1, <2>2, <2>3, WritesAre DEF IsWhole
<1> HIDE DEF Goes, Ends, Spared
<1>8. Planned(e, Tail(t), r)
  <2>1. Tail(t) \in Seq(Unfinishing) \/ \E m \in Batch : Completes(e, Tail(t), m)
    BY <1>2, <1>7 DEF Goes
  <2>2. IsComplete(e) => Tail(t) \in Seq(HarmlessTo(e.manifest)) \/ (r /\ Clears(e, Tail(t)))
    BY <1>2, <1>5, <1>6, <1>7
  <2>3. QED BY <2>1, <2>2 DEF Planned
<1>9. IsWhole(e)
  BY <1>2, <1>4, <1>5, <1>6, <1>7 DEF IsWhole
<1>10. IsComplete(d) /\ ~r => Lasts(d, e)
  BY <1>4, <1>5
<1>11. QED BY <1>8, <1>9, <1>10

LEMMA JoinedKeeps ==
  ASSUME NEW s \in Writes, NEW t \in Writes, NEW f, NEW m, Keeps(s, f, m), Keeps(t, f, m)
  PROVE  Keeps(s \o t, f, m)
<1> DEFINE st == s \o t
<1>1. /\ Len(st) = Len(s) + Len(t) /\ Len(s) \in Nat /\ Len(t) \in Nat
      /\ \A i \in 1 .. Len(s) + Len(t) : st[i] = IF i <= Len(s) THEN s[i] ELSE t[i - Len(s)]
  BY ConcatProperties, LenProperties DEF Writes
<1> HIDE DEF st
<1>2. ASSUME NEW i \in 1 .. Len(st), st[i].file = f PROVE Good(f, st[i].value, m)
  <2>1. CASE i <= Len(s)
    <3>1. i \in 1 .. Len(s) /\ st[i] = s[i]
      BY <1>1, <2>1
    <3>2. QED BY <1>2, <3>1 DEF Keeps
  <2>2. CASE ~(i <= Len(s))
    <3>1. i - Len(s) \in 1 .. Len(t) /\ st[i] = t[i - Len(s)]
      BY <1>1, <2>2
    <3>2. QED BY <1>2, <3>1 DEF Keeps
  <2>3. QED BY <2>1, <2>2
<1>3. Keeps(st, f, m)
  BY <1>2 DEF Keeps
<1>4. QED BY <1>3 DEF st

LEMMA JoinedSets ==
  ASSUME NEW s \in Writes, NEW t \in Writes, NEW f, NEW m
  PROVE  /\ Sets(t, f, m) => Sets(s \o t, f, m)
         /\ Sets(s, f, m) /\ Keeps(t, f, m) => Sets(s \o t, f, m)
<1> DEFINE st == s \o t
<1>1. /\ Len(st) = Len(s) + Len(t) /\ Len(s) \in Nat /\ Len(t) \in Nat
      /\ \A i \in 1 .. Len(s) + Len(t) : st[i] = IF i <= Len(s) THEN s[i] ELSE t[i - Len(s)]
  BY ConcatProperties, LenProperties DEF Writes
<1> HIDE DEF st
<1>2. CASE f = "observations" /\ m = {}
  BY <1>2 DEF Sets
<1>3. CASE ~(f = "observations" /\ m = {})
  <2>1. ASSUME Sets(t, f, m) PROVE Sets(st, f, m)
    <3>1. PICK k \in 1 .. Len(t) :
            t[k].file = f /\ \A i \in k .. Len(t) : t[i].file = f => Good(f, t[i].value, m)
      BY <1>3, <2>1 DEF Sets
    <3>2. k + Len(s) \in 1 .. Len(st) /\ st[k + Len(s)] = t[k]
      BY <1>1
    <3>3. ASSUME NEW i \in k + Len(s) .. Len(st)
          PROVE  i - Len(s) \in k .. Len(t) /\ st[i] = t[i - Len(s)]
      BY <1>1, <3>3
    <3>4. QED BY <3>1, <3>2, <3>3 DEF Sets
  <2>2. ASSUME Sets(s, f, m), Keeps(t, f, m) PROVE Sets(st, f, m)
    <3>1. PICK k \in 1 .. Len(s) :
            s[k].file = f /\ \A i \in k .. Len(s) : s[i].file = f => Good(f, s[i].value, m)
      BY <1>3, <2>2 DEF Sets
    <3>2. k \in 1 .. Len(st) /\ st[k] = s[k]
      BY <1>1
    <3>3. ASSUME NEW i \in k .. Len(st), st[i].file = f PROVE Good(f, st[i].value, m)
      <4>1. CASE i <= Len(s)
        <5>1. i \in k .. Len(s) /\ st[i] = s[i]
          BY <1>1, <4>1
        <5>2. QED BY <3>1, <3>3, <5>1
      <4>2. CASE ~(i <= Len(s))
        <5>1. i - Len(s) \in 1 .. Len(t) /\ st[i] = t[i - Len(s)]
          BY <1>1, <4>2
        <5>2. QED BY <2>2, <3>3, <5>1 DEF Keeps
      <4>3. QED BY <4>1, <4>2
    <3>4. QED BY <3>1, <3>2, <3>3 DEF Sets
  <2>3. QED BY <2>1, <2>2 DEF st
<1>4. QED BY <1>2, <1>3 DEF st

LEMMA Regrouped ==
  ASSUME NEW s \in Writes, NEW t \in Writes, NEW u \in Writes
  PROVE  (s \o t) \o u = s \o (t \o u)
BY ConcatAssociative DEF Writes

LEMMA AroundJoined ==
  ASSUME NEW s \in Writes, NEW a \in Writes, NEW b \in Writes, NEW v \in Receipt \cup {None},
         NEW t, Around(t, a, v, b)
  PROVE  Around(s \o t, s \o a, v, b) /\ Around(t \o s, a, v, b \o s)
<1> DEFINE y == Write("receipt", v)
<1>1. y \in Writes
  BY CalmWrites, CalmIsWritten
<1>2. t = (a \o y) \o b
  BY DEF Around
<1> HIDE DEF y
<1> DEFINE ay == a \o y
<1>3. ay \in Writes
  BY <1>1, Joined
<1>4. s \o ay = (s \o a) \o y
  BY <1>1, Regrouped
<1> HIDE DEF ay
<1>5. s \o (ay \o b) = (s \o ay) \o b /\ (ay \o b) \o s = ay \o (b \o s)
  BY <1>3, Regrouped
<1>6. QED BY <1>2, <1>4, <1>5 DEF Around, y, ay

\* Files that no reader of a batch asks for.
Idle == {x \in WritesOf(FileNames) : x.file \notin Bound \cup {"receipt"}}

LEMMA IdleIsHarmless ==
  /\ \A m : Idle \subseteq HarmlessTo(m)
  /\ \A m : Seq(Idle) \subseteq Seq(HarmlessTo(m))
  /\ Seq(Idle) \subseteq Seq(Unfinishing) /\ Seq(Idle) \subseteq Writes
<1>1. ASSUME NEW m PROVE Idle \subseteq HarmlessTo(m)
  BY DEF Idle, HarmlessTo, Harmless, Good, Bound
<1>2. QED BY <1>1, Lists, WritesAre

LEMMA IdleKeeps ==
  ASSUME NEW s \in Seq(Idle), NEW f \in Bound, NEW m
  PROVE  Keeps(s, f, m)
<1>1. \A i \in 1 .. Len(s) : s[i] \in Idle
  OBVIOUS
<1>2. QED BY <1>1 DEF Keeps, Idle, Good

LEMMA NothingPlanned ==
  ASSUME NEW d, NEW r
  PROVE  Planned(d, << >>, r)
BY Lists DEF Planned

LEMMA LeadsAfter ==
  ASSUME NEW s \in Writes, NEW t \in Writes, NEW d, NEW m, Leads(d, t, m),
         \A f \in Bound : Keeps(s, f, m)
  PROVE  Leads(d, s \o t, m)
BY JoinedSets, JoinedKeeps DEF Leads

LEMMA Prepended ==
  ASSUME NEW s \in Seq(Idle), NEW t \in Writes, NEW d, NEW r, Planned(d, t, r)
  PROVE  Planned(d, s \o t, r)
<1>0. s \in Writes
  BY IdleIsHarmless
<1>1. ASSUME t \in Seq(Unfinishing) PROVE s \o t \in Seq(Unfinishing)
  BY <1>1, IdleIsHarmless, Lists
<1>2. ASSUME NEW m, Completes(d, t, m) PROVE Completes(d, s \o t, m)
  <2>1. PICK a \in Seq(Unfinishing), b \in Seq(HarmlessTo(m)), v \in Receipt :
          Around(t, a, v, b) /\ v.count = Cardinality(m) /\ Leads(d, a, m)
    BY <1>2 DEF Completes
  <2>2. a \in Writes /\ b \in Writes /\ v \in Receipt \cup {None}
    BY WritesAre
  <2>3. Around(s \o t, s \o a, v, b)
    BY <1>0, <2>1, <2>2, AroundJoined
  <2>4. s \o a \in Seq(Unfinishing)
    BY IdleIsHarmless, Lists
  <2>5. Leads(d, s \o a, m)
    BY <1>0, <2>1, <2>2, IdleKeeps, LeadsAfter
  <2>6. QED BY <2>1, <2>3, <2>4, <2>5 DEF Completes
<1>3. ASSUME t \in Seq(HarmlessTo(d.manifest)) PROVE s \o t \in Seq(HarmlessTo(d.manifest))
  BY <1>3, IdleIsHarmless, Lists
<1>4. ASSUME Clears(d, t) PROVE Clears(d, s \o t)
  <2>1. PICK a \in Seq(HarmlessTo(d.manifest)), b \in Writes : Around(t, a, None, b)
    BY <1>4 DEF Clears
  <2>2. a \in Writes /\ None \in Receipt \cup {None}
    BY WritesAre
  <2>3. Around(s \o t, s \o a, None, b)
    BY <1>0, <2>1, <2>2, AroundJoined
  <2>4. s \o a \in Seq(HarmlessTo(d.manifest))
    BY IdleIsHarmless, Lists
  <2>5. QED BY <2>3, <2>4 DEF Clears
<1>5. QED BY <1>1, <1>2, <1>3, <1>4 DEF Planned

\* Two disks that agree in all that the readers of a batch ask for.
Same(d, e) == \A f \in Bound \cup {"receipt"} : e[f] = d[f]

LEMMA SamePlan ==
  ASSUME NEW d, NEW e, Same(d, e), NEW t, NEW r
  PROVE  /\ IsComplete(e) = IsComplete(d)
         /\ IsWhole(d) => IsWhole(e) /\ (IsComplete(d) => Lasts(d, e))
         /\ Planned(d, t, r) => Planned(e, t, r)
<1>1. /\ e.receipt = d.receipt /\ e.manifest = d.manifest /\ e.ledger = d.ledger
      /\ e.observations = d.observations
  BY DEF Same, Bound
<1>2. \A a, m : Leads(d, a, m) => Leads(e, a, m)
  BY DEF Same, Leads
<1>3. \A m : Completes(d, t, m) => Completes(e, t, m)
  BY <1>2 DEF Completes
<1>4. Clears(d, t) => Clears(e, t)
  BY <1>1 DEF Clears
<1>5. IsComplete(e) = IsComplete(d)
  BY <1>1 DEF IsComplete
<1>6. QED BY <1>1, <1>3, <1>4, <1>5 DEF Planned, IsWhole, Lasts

-----------------------------------------------------------------------------
(* Steps                                                                   *)

LEMMA OneMoves ==
  ASSUME Wholes', NEW w \in Workers, Planned(disk', todo'[w], pc'[w] \in Restoring),
         \A v \in Workers \ {w} : todo'[v] = << >>
  PROVE  ContentInv'
BY NothingPlanned DEF ContentInv

\* Nobody has anything new to write.
LEMMA NoneMoves ==
  ASSUME ContentInv, Same(disk, disk'),
         kept'.zip = kept.zip, kept'.former \in {kept.former, None},
         \A v \in Workers : \/ todo'[v] = << >>
                            \/ todo'[v] = todo[v] /\ pc'[v] = pc[v]
  PROVE  ContentInv'
<1>1. Wholes'
  BY SamePlan DEF ContentInv, Wholes
<1>2. \A v \in Workers : Planned(disk, todo[v], pc[v] \in Restoring)
  BY DEF ContentInv
<1>3. ASSUME NEW v \in Workers PROVE Planned(disk', todo'[v], pc'[v] \in Restoring)
  <2>1. CASE todo'[v] = << >>
    BY <2>1, NothingPlanned
  <2>2. CASE todo'[v] = todo[v] /\ pc'[v] = pc[v]
    BY <1>2, <2>2, SamePlan
  <2>3. QED BY <2>1, <2>2
<1>4. QED BY <1>1, <1>3 DEF ContentInv

\* What a section may write when it is not a commit or a restore.
Suits(t) ==
  t \in Seq(Unfinishing) /\ (IsComplete(disk) => t \in Seq(HarmlessTo(disk.manifest)))

LEMMA Sectioned ==
  ASSUME ContentInv, CaptureInv, NEW w \in Workers, NEW writes, NEW label,
         Section(w, writes, label), Suits(writes), UNCHANGED kept
  PROVE  ContentInv'
<1>1. todo'[w] = writes /\ \A v \in Workers \ {w} : todo'[v] = << >>
  BY DEF Section, Free, CaptureInv, TypeInv
<1>2. UNCHANGED disk
  BY DEF Section
<1>3. Wholes'
  BY <1>2 DEF ContentInv, Wholes
<1>4. Planned(disk', todo'[w], pc'[w] \in Restoring)
  BY <1>1, <1>2 DEF Suits, Planned
<1>5. QED BY <1>1, <1>3, <1>4, OneMoves

LEMMA WritesStayPlanned ==
  ASSUME ContentInv, CaptureInv, NEW w \in Workers, WriteNext(w) \/ PublishNext(w), UNCHANGED kept
  PROVE  ContentInv' /\ (IsComplete(disk) /\ pc[w] \notin Restoring => Lasts(disk, disk'))
<1> DEFINE x == Head(todo[w])
           restoring == pc[w] \in Restoring
<1>1. /\ todo[w] \in Writes /\ todo[w] # << >> /\ UNCHANGED <<pc, job, kept>>
      /\ disk \in Disk /\ disk' \in Disk
  <2>1. TypeInv'
    BY WriteKeeps, PublishKeeps DEF CaptureInv
  <2>2. QED BY <2>1 DEF WriteNext, PublishNext, CaptureInv, TypeInv
<1>2. After(disk, x, disk')
  <2>1. \A f \in Bound \cup {"receipt"} : f \in FileNames /\ f \notin {"active", "workset"}
    BY DEF Bound, FileNames
  <2>2. DOMAIN disk = FileNames
    BY <1>1, DiskHas
  <2>3. CASE WriteNext(w)
    <3>1. disk' = [disk EXCEPT ![x.file] = x.value]
      BY <2>3 DEF WriteNext
    <3>2. QED BY <2>1, <2>2, <3>1 DEF After
  <2>4. CASE PublishNext(w)
    <3>1. x.file = "active" /\ (disk' = disk \/ disk' = [disk EXCEPT !["workset"] = None])
      BY <2>4 DEF PublishNext
    <3>2. QED BY <2>1, <2>2, <3>1 DEF After
  <2>5. QED BY <2>3, <2>4
<1>3. Planned(disk, todo[w], restoring) /\ IsWhole(disk) /\ restoring \in BOOLEAN
  BY DEF ContentInv, Wholes
<1> HIDE DEF x, restoring
<1>4. /\ IsWhole(disk') /\ Planned(disk', Tail(todo[w]), restoring)
      /\ IsComplete(disk) /\ ~restoring => Lasts(disk, disk')
  BY <1>1, <1>2, <1>3, Made DEF x
<1>5. Wholes'
  BY <1>1, <1>4 DEF ContentInv, Wholes
<1>6. Planned(disk', todo'[w], restoring)
  <2>1. CASE todo'[w] = Tail(todo[w])
    BY <1>4, <2>1
  <2>2. CASE todo'[w] # Tail(todo[w])
    <3>1. PICK v \in Workset : todo'[w] = Write("workset", v) \o Tail(todo[w])
      <4>1. /\ Usable
            /\ todo'[w] = Write("workset", [disk.workset EXCEPT !.active = x.value]) \o Tail(todo[w])
        BY <2>2 DEF WriteNext, PublishNext, x, CaptureInv, TypeInv
      <4>2. disk.workset \in Workset
        BY <1>1, <4>1, DiskHas DEF Usable
      <4>3. x.value \in BOOLEAN
        BY <2>2, NextWrite DEF WriteNext, PublishNext, x, CaptureInv, TypeInv
      <4>4. [disk.workset EXCEPT !.active = x.value] \in Workset
        BY <4>2, <4>3 DEF Workset
      <4>5. QED BY <4>1, <4>4
    <3>2. Write("workset", v) \in Seq(Idle)
      <4>1. [file |-> "workset", value |-> v] \in WritesOf(FileNames)
        <5>1. "workset" \in FileNames /\ v \in Contents["workset"]
          BY DEF FileNames, Contents
        <5>2. QED BY <5>1, IsWrite
      <4>2. [file |-> "workset", value |-> v] \in Idle
        BY <4>1 DEF Idle, Bound
      <4>3. QED BY <4>2, Lists DEF Write
    <3>3. Tail(todo[w]) \in Writes
      BY <1>1, NextWrite
    <3>4. QED BY <1>4, <3>1, <3>2, <3>3, Prepended
  <2>3. QED BY <2>1, <2>2
<1>7. \A v \in Workers \ {w} : todo'[v] = << >>
  BY <1>1, NextWrite DEF WriteNext, PublishNext, CaptureInv, TypeInv
<1>8. QED BY <1>1, <1>4, <1>5, <1>6, <1>7, OneMoves DEF restoring

LEMMA SuitsJoined ==
  Suits(<< >>) /\ \A s, t : Suits(s) /\ Suits(t) => Suits(s \o t)
BY Lists DEF Suits

LEMMA OneSuits ==
  ASSUME NEW x \in WritesOf(FileNames), ~Completing(x),
         IsComplete(disk) => Harmless(x, disk.manifest)
  PROVE  Suits(<< x >>)
<1>1. x \in Unfinishing /\ (IsComplete(disk) => x \in HarmlessTo(disk.manifest))
  BY DEF Unfinishing, HarmlessTo
<1>2. QED BY <1>1, Lists DEF Suits

LEMMA StatusIs ==
  ASSUME TypeInv
  PROVE  (Status = "complete") <=> IsComplete(disk)
BY CaptureAssumption DEF Status, receipt, IsComplete, Statuses

LEMMA WholeIs ==
  ASSUME CaptureInv, ContentInv
  PROVE  Whole <=> IsComplete(disk)
BY StatusIs DEF ContentInv, Wholes, IsWhole, Whole, ManifestValid, receipt, CaptureInv

LEMMA IdleWrite ==
  ASSUME NEW f \in FileNames \ (Bound \cup {"receipt"}), NEW v \in Contents[f]
  PROVE  Write(f, v) \in Seq(Idle)
<1>1. [file |-> f, value |-> v] \in WritesOf(FileNames)
  BY IsWrite
<1>2. [file |-> f, value |-> v] \in Idle
  BY <1>1 DEF Idle
<1>3. QED BY <1>2, Lists DEF Write

LEMMA IdleWrites ==
  /\ \A v \in Batch \cup {None} : Write("journal", v) \in Seq(Idle)
  /\ \A v \in [from : Statuses, to : Statuses] \cup {None} : Write("transition", v) \in Seq(Idle)
  /\ \A v \in Lease \cup {None} : Write("lease", v) \in Seq(Idle)
  /\ \A v \in Nat : Write("epoch", v) \in Seq(Idle)
  /\ \A v \in Workset \cup {None} : Write("workset", v) \in Seq(Idle)
  /\ \A v \in SUBSET Nat : Write("reserved", v) \in Seq(Idle) /\ Write("settled", v) \in Seq(Idle)
BY IdleWrite DEF FileNames, Contents, Bound

LEMMA MarksAreIdle == MarkActive \in Seq(Idle) /\ RetireActive \in Seq(Idle)
<1>1. ASSUME NEW b \in BOOLEAN PROVE Write("active", b) \in Seq(Idle)
  <2> DEFINE mark == [file |-> "active", value |-> b]
             marks == [file : {"active"}, value : BOOLEAN]
             others == UNION {[file : {f}, value : Contents[f]] : f \in FileNames}
  <2>1. mark \in marks /\ mark.file \notin Bound \cup {"receipt"}
    BY DEF Bound
  <2>2. WritesOf(FileNames) = others \cup marks
    BY Zenon DEF WritesOf
  <2> HIDE DEF mark, marks, others
  <2>3. mark \in Idle
    BY <2>1, <2>2 DEF Idle
  <2>4. QED BY <2>3, Lists DEF Write, mark
<1>2. QED BY <1>1 DEF MarkActive, RetireActive

LEMMA IdleJoined ==
  << >> \in Seq(Idle) /\ \A s, t \in Seq(Idle) : s \o t \in Seq(Idle)
BY Lists

LEMMA IdleSuits == \A t \in Seq(Idle) : Suits(t)
BY IdleIsHarmless DEF Suits

LEMMA MarksSuit == Suits(MarkActive) /\ Suits(RetireActive)
BY MarksAreIdle, IdleSuits

LEMMA WritesSuit ==
  /\ \A v \in Batch \cup {None} : Suits(Write("journal", v))
  /\ \A v \in [from : Statuses, to : Statuses] \cup {None} : Suits(Write("transition", v))
  /\ \A v \in Lease \cup {None} : Suits(Write("lease", v))
  /\ \A v \in Nat : Suits(Write("epoch", v))
  /\ \A v \in Workset \cup {None} : Suits(Write("workset", v))
  /\ \A v \in SUBSET Nat : Suits(Write("reserved", v)) /\ Suits(Write("settled", v))
BY IdleWrites, IdleSuits

\* While the receipt is not complete nothing depends on it.
LEMMA UnfinishedSuits ==
  ASSUME ~IsComplete(disk)
  PROVE  /\ \A v \in Receipt : v.status # "complete" => Suits(Write("receipt", v))
         /\ \A v \in Batch \cup {None} : Suits(Write("manifest", v))
<1>1. ASSUME NEW v \in Receipt, v.status # "complete" PROVE Suits(Write("receipt", v))
  <2>1. [file |-> "receipt", value |-> v] \in WritesOf(FileNames)
    <3>1. "receipt" \in FileNames /\ v \in Contents["receipt"]
      BY DEF FileNames, Contents
    <3>2. QED BY <3>1, IsWrite
  <2>2. ~Completing([file |-> "receipt", value |-> v])
    BY <1>1 DEF Completing
  <2>3. QED BY <2>1, <2>2, OneSuits DEF Write
<1>2. ASSUME NEW v \in Batch \cup {None} PROVE Suits(Write("manifest", v))
  <2>1. [file |-> "manifest", value |-> v] \in WritesOf(FileNames)
    <3>1. "manifest" \in FileNames /\ v \in Contents["manifest"]
      BY DEF FileNames, Contents
    <3>2. QED BY <3>1, IsWrite
  <2>2. ~Completing([file |-> "manifest", value |-> v])
    BY DEF Completing
  <2>3. QED BY <2>1, <2>2, OneSuits DEF Write
<1>3. QED BY <1>1, <1>2

LEMMA LedgerSuits ==
  ASSUME NEW v \in Statuses \cup {None}, IsComplete(disk) => v = "complete"
  PROVE  Suits(Write("ledger", v))
<1>1. [file |-> "ledger", value |-> v] \in WritesOf(FileNames)
  <2>1. "ledger" \in FileNames /\ v \in Contents["ledger"]
    BY DEF FileNames, Contents
  <2>2. QED BY <2>1, IsWrite
<1>2. ~Completing([file |-> "ledger", value |-> v])
  BY DEF Completing
<1>3. IsComplete(disk) => Harmless([file |-> "ledger", value |-> v], disk.manifest)
  BY DEF Harmless, Good
<1>4. QED BY <1>1, <1>2, <1>3, OneSuits DEF Write

\* Members of a batch come or go one by one.
LEMMA SpreadIs ==
  ASSUME NEW f \in {"observations", "staged"}, NEW before \in Batch, NEW batch \in Batch
  PROVE  /\ Growing(f, before, batch) \in Writes /\ Shrinking(f, before, batch) \in Writes
         /\ \A i \in 1 .. Len(Growing(f, before, batch)) :
              /\ Growing(f, before, batch)[i].file = f
              /\ before \subseteq Growing(f, before, batch)[i].value
         /\ \A i \in 1 .. Len(Shrinking(f, before, batch)) :
              /\ Shrinking(f, before, batch)[i].file = f
              /\ before \ batch \subseteq Shrinking(f, before, batch)[i].value
<1>1. Growing(f, before, batch) \in Writes /\ Shrinking(f, before, batch) \in Writes
  BY Spreads, CalmIsWritten
<1>2. \A i \in 1 .. Len(Growing(f, before, batch)) :
        /\ Growing(f, before, batch)[i].file = f
        /\ before \subseteq Growing(f, before, batch)[i].value
  <2> DEFINE s == SetToSeq(batch)
  <2>1. PICK n \in Nat : Len(s) = n
    BY Enumerated
  <2> HIDE DEF s
  <2> DEFINE g == [i \in 1 .. n |-> [file |-> f, value |-> before \cup {s[j] : j \in 1 .. i}]]
  <2>2. Growing(f, before, batch) = g
    BY <2>1 DEF Growing, s
  <2>3. Len(g) = n /\ \A i \in 1 .. n : g[i].file = f /\ before \subseteq g[i].value
    OBVIOUS
  <2> HIDE DEF g
  <2>4. QED BY <2>2, <2>3
<1>3. \A i \in 1 .. Len(Shrinking(f, before, batch)) :
        /\ Shrinking(f, before, batch)[i].file = f
        /\ before \ batch \subseteq Shrinking(f, before, batch)[i].value
  <2> DEFINE s == SetToSeq(batch \cap before)
  <2>1. PICK n \in Nat : Len(s) = n /\ s \in [1 .. n -> batch \cap before]
    <3>1. batch \cap before \in Batch
      BY DEF Batch
    <3>2. QED BY <3>1, Enumerated
  <2> HIDE DEF s
  <2> DEFINE g == [i \in 1 .. n |-> [file |-> f, value |-> before \ {s[j] : j \in 1 .. i}]]
  <2>2. Shrinking(f, before, batch) = g
    BY <2>1 DEF Shrinking, s
  <2>3. ASSUME NEW i \in 1 .. n PROVE {s[j] : j \in 1 .. i} \subseteq batch
    <3>1. \A j \in 1 .. i : j \in 1 .. n
      OBVIOUS
    <3>2. QED BY <2>1, <3>1
  <2>4. Len(g) = n /\ \A i \in 1 .. n : g[i].file = f /\ before \ batch \subseteq g[i].value
    BY <2>3
  <2> HIDE DEF g
  <2>5. QED BY <2>2, <2>4
<1>4. QED BY <1>1, <1>2, <1>3

LEMMA StagesAreIdle ==
  ASSUME NEW before \in Batch, NEW batch \in Batch
  PROVE  /\ Shrinking("staged", before, batch) \in Seq(Idle)
         /\ Growing("staged", before, batch) \in Seq(Idle)
<1>1. ASSUME NEW t \in Writes, \A i \in 1 .. Len(t) : t[i].file = "staged" PROVE t \in Seq(Idle)
  <2>1. \A i \in 1 .. Len(t) : t[i] \in WritesOf(FileNames)
    BY DEF Writes
  <2>2. \A i \in 1 .. Len(t) : t[i] \in Idle
    BY <1>1, <2>1 DEF Idle, Bound
  <2>3. QED BY <2>2, Narrowed DEF Writes
<1>2. \A f \in {"observations", "staged"} :
        /\ Growing(f, before, batch) \in Writes /\ Shrinking(f, before, batch) \in Writes
        /\ \A i \in 1 .. Len(Growing(f, before, batch)) : Growing(f, before, batch)[i].file = f
        /\ \A i \in 1 .. Len(Shrinking(f, before, batch)) : Shrinking(f, before, batch)[i].file = f
  BY SpreadIs
<1>3. QED BY <1>1, <1>2

LEMMA SpreadSuits ==
  ASSUME NEW f \in {"observations", "staged"}, NEW t \in Writes,
         \A i \in 1 .. Len(t) :
           /\ t[i].file = f
           /\ f = "observations" /\ IsComplete(disk) => disk.manifest \subseteq t[i].value
  PROVE  Suits(t)
<1>1. \A i \in 1 .. Len(t) : t[i] \in WritesOf(FileNames)
  BY DEF Writes
<1>2. \A i \in 1 .. Len(t) : t[i] \in Unfinishing
  BY <1>1 DEF Unfinishing, Completing
<1>3. IsComplete(disk) => \A i \in 1 .. Len(t) : t[i] \in HarmlessTo(disk.manifest)
  BY <1>1 DEF HarmlessTo, Harmless, Good
<1>4. QED BY <1>2, <1>3, Narrowed DEF Suits, Writes

LEMMA SpreadsSuit ==
  ASSUME NEW before \in Batch, NEW batch \in Batch
  PROVE  /\ Suits(Shrinking("staged", before, batch)) /\ Suits(Growing("staged", before, batch))
         /\ (IsComplete(disk) => disk.manifest \subseteq before \ batch)
              => Suits(Shrinking("observations", before, batch))
         /\ ~IsComplete(disk) => Suits(Growing("observations", before, batch))
<1>1. \A f \in {"observations", "staged"} :
        /\ Growing(f, before, batch) \in Writes /\ Shrinking(f, before, batch) \in Writes
        /\ \A i \in 1 .. Len(Growing(f, before, batch)) : Growing(f, before, batch)[i].file = f
        /\ \A i \in 1 .. Len(Shrinking(f, before, batch)) :
             /\ Shrinking(f, before, batch)[i].file = f
             /\ before \ batch \subseteq Shrinking(f, before, batch)[i].value
  BY SpreadIs
<1>2. \A f \in {"observations", "staged"} :
        /\ (f = "observations" /\ IsComplete(disk) => disk.manifest \subseteq before \ batch)
             => Suits(Shrinking(f, before, batch))
        /\ (f = "observations" => ~IsComplete(disk)) => Suits(Growing(f, before, batch))
  BY <1>1, SpreadSuits
<1>3. QED BY <1>2

LEMMA EmptiedSuits ==
  ASSUME TypeInv
  PROVE  /\ Suits(Unlink("journal")) /\ Suits(Unlink("transition")) /\ Suits(Unlink("workset"))
         /\ ~IsComplete(disk) => Suits(Unlink("manifest"))
BY WritesSuit, UnfinishedSuits, SuitsJoined DEF Unlink

LEMMA ChangeSuits ==
  ASSUME ~IsComplete(disk), NEW r \in Receipt, r.status # "complete"
  PROVE  Suits(Change(r))
<1>1. r.status \in Statuses
  BY DEF Receipt
<1>2. QED BY <1>1, MarksSuit, LedgerSuits, UnfinishedSuits, SuitsJoined DEF Change

LEMMA RecoverTransitionSuits ==
  ASSUME CaptureInv
  PROVE  Suits(RecoverTransition)
<1>1. disk.transition # None /\ Status = disk.transition.to /\ ~TransitionCorrupt
        => receipt # None
  <2> SUFFICES ASSUME disk.transition # None, Status = disk.transition.to PROVE receipt # None
    OBVIOUS
  <2>1. disk.transition.to \in Statuses
    BY DiskHas DEF CaptureInv, TypeInv
  <2>2. QED BY <2>1, CaptureAssumption DEF Status
<1>2. receipt # None => Suits(Write("ledger", receipt.status))
  BY ReceiptIs, LedgerSuits DEF IsComplete, receipt, CaptureInv
<1>3. Suits(Write("workset", None)) /\ Suits(Unlink("transition"))
  BY WritesSuit, EmptiedSuits DEF CaptureInv
<1>4. QED BY <1>1, <1>2, <1>3, MarksSuit, SuitsJoined DEF RecoverTransition

LEMMA CleanUpSuits ==
  ASSUME CaptureInv, ~IsComplete(disk)
  PROVE  /\ Suits(CleanUpBound)
         /\ receipt # None => Suits(BackToRetryable)
<1>1. Suits(CleanUpBound)
  BY LeftoversAre, SpreadsSuit, EmptiedSuits, SuitsJoined DEF CleanUpBound, CaptureInv
<1>2. ASSUME receipt # None
      PROVE  Suits(Change([receipt EXCEPT !.status = "retryable", !.count = 0]))
  <2>1. [receipt EXCEPT !.status = "retryable", !.count = 0] \in Receipt /\ receipt \in Receipt
    BY <1>2, ReceiptIs DEF Statuses, CaptureInv
  <2>2. [receipt EXCEPT !.status = "retryable", !.count = 0].status = "retryable"
    BY <2>1 DEF Receipt
  <2>3. QED BY <2>1, <2>2, ChangeSuits
<1>3. QED BY <1>1, <1>2, SuitsJoined DEF BackToRetryable

LEMMA FullSuits ==
  ASSUME CaptureInv, ContentInv
  PROVE  Suits(FullRecovery)
<1>1. Whole => disk.manifest \in Batch
  BY DiskHas DEF Whole, ManifestValid, CaptureInv, TypeInv
<1>2. Broken \/ Lost => ~IsComplete(disk)
  BY WholeIs DEF Broken, Lost, IsComplete, receipt
<1>3. /\ Whole => Suits(Shrinking("staged", disk.staged, disk.manifest))
      /\ Suits(Shrinking("observations",
                   disk.observations \ (IF Broken \/ Lost THEN Leftovers ELSE {}),
                   OrphanObservations))
      /\ Suits(Shrinking("staged", OrphanStages, OrphanStages))
  <2>1. disk.observations \ (IF Broken \/ Lost THEN Leftovers ELSE {}) \in Batch
    BY LeftoversAre DEF Batch, CaptureInv
  <2>2. IsComplete(disk) =>
          disk.manifest \subseteq (disk.observations \ (IF Broken \/ Lost THEN Leftovers ELSE {}))
                                    \ OrphanObservations
    BY <1>2, WholeIs DEF OrphanObservations, ContentInv, Wholes, IsWhole
  <2>3. QED BY <1>1, <2>1, <2>2, LeftoversAre, SpreadsSuit DEF CaptureInv
<1>4. (Broken => Suits(BackToRetryable)) /\ (Lost => Suits(CleanUpBound))
  BY <1>2, CleanUpSuits DEF Broken
<1>5. Suits(Write("workset", None)) /\ Suits(Unlink("journal"))
  BY WritesSuit, EmptiedSuits DEF CaptureInv
<1>6. QED BY <1>3, <1>4, <1>5, RecoverTransitionSuits, SuitsJoined DEF FullRecovery

LEMMA ActiveSuits ==
  ASSUME CaptureInv, ContentInv
  PROVE  Suits(ActiveRecovery)
<1>1. /\ Suits(Shrinking("staged", disk.staged, Files(disk.journal)))
      /\ Suits(Unlink("journal")) /\ Suits(Write("workset", None))
      /\ Suits(Write("ledger", "complete"))
  BY LeftoversAre, SpreadsSuit, EmptiedSuits, WritesSuit, LedgerSuits DEF Statuses, CaptureInv
<1>2. receipt # None => Suits(Write("ledger", receipt.status))
  BY ReceiptIs, LedgerSuits DEF IsComplete, receipt, CaptureInv
<1>3. receipt # None /\ ~Whole => Suits(BackToRetryable)
  BY WholeIs, CleanUpSuits
<1>4. QED BY <1>1, <1>2, <1>3, RecoverTransitionSuits, MarksSuit, SuitsJoined DEF ActiveRecovery

LEMMA SettleSuits ==
  ASSUME CaptureInv, NEW w \in Workers
  PROVE  Suits(Settle(w))
<1>1. disk.settled \cup {job[w].reserved} \in SUBSET Nat
  BY DiskHas DEF CaptureInv, TypeInv, Job
<1>2. QED BY <1>1, WritesSuit, SuitsJoined DEF Settle

LEMMA TransitionSuits ==
  ASSUME CaptureInv, NEW w \in Workers, NEW expected, NEW target \in Statuses \ {"complete"},
         MayTransition(w, expected, target), NEW bound \in BOOLEAN, NEW settle, Suits(settle),
         NEW usage \in Charges
  PROVE  Suits(Transition(target, bound, settle, usage))
<1>1. receipt # None /\ receipt \in Receipt /\ target \in Transitions[receipt.status]
  BY ReceiptIs DEF MayTransition, HoldsReceipt, ValidCaptureTransition, CaptureInv
<1>2. ~IsComplete(disk)
  <2>1. Transitions["complete"] = {}
    BY DEF Transitions
  <2>2. QED BY <1>1, <2>1 DEF IsComplete, receipt
<1>3. [receipt EXCEPT !.status = target, !.bound = bound, !.usage = usage] \in Receipt
  BY <1>1 DEF Receipt
<1>4. [receipt EXCEPT !.status = target, !.bound = bound, !.usage = usage].status = target
  BY <1>1 DEF Receipt
<1>5. [from |-> receipt.status, to |-> target] \in [from : Statuses, to : Statuses]
  BY <1>1 DEF Receipt
<1>6. Suits(Write("receipt", [receipt EXCEPT !.status = target, !.bound = bound, !.usage = usage]))
  BY <1>2, <1>3, <1>4, UnfinishedSuits
<1>7. QED BY <1>2, <1>5, <1>6, LedgerSuits, WritesSuit, MarksSuit, SuitsJoined DEF Transition

LEMMA TryStays ==
  ASSUME ContentInv, CaptureInv, NEW w \in Workers, NEW expected,
         NEW target \in Statuses \ {"complete"}, NEW next, NEW otherwise,
         TryTransition(w, expected, target, next, otherwise), UNCHANGED kept
  PROVE  ContentInv'
<1>1. CASE MayTransition(w, expected, target)
  <2>1. receipt # None
    BY <1>1 DEF MayTransition, HoldsReceipt
  <2>2. (receipt.bound /\ target # "queued") \in BOOLEAN /\ receipt.usage \in Charges
    BY <2>1, ReceiptIs DEF CaptureInv, Receipt
  <2>3. Suits(Transition(target, receipt.bound /\ target # "queued", << >>, receipt.usage))
    BY <1>1, <2>2, SuitsJoined, TransitionSuits
  <2>4. QED BY <1>1, <2>3, Sectioned DEF TryTransition
<1>2. CASE ~MayTransition(w, expected, target)
  BY <1>2, SuitsJoined, Sectioned DEF TryTransition
<1>3. QED BY <1>1, <1>2

LEMMA RecoveryStays ==
  ASSUME ContentInv, CaptureInv, NEW w \in Workers, NEW next,
         RecoverAll(w, next) \/ RecoverActive(w, next), UNCHANGED kept
  PROVE  ContentInv'
<1>1. CASE RecoverAll(w, next)
  BY <1>1, FullSuits, Sectioned DEF RecoverAll
<1>2. CASE RecoverActive(w, next)
  <2>1. Suits(IF Recoverable THEN ActiveRecovery ELSE << >>)
    BY ActiveSuits, SuitsJoined
  <2>2. QED BY <1>2, <2>1, Sectioned DEF RecoverActive
<1>3. QED BY <1>1, <1>2

LEMMA AuditStays ==
  ASSUME ContentInv, CaptureInv, NEW w \in Workers, Audit(w), UNCHANGED kept
  PROVE  ContentInv'
<1>1. \A active \in BOOLEAN, baseline \in {"healthy", "recovery_needed"} :
        Suits(Write("workset", [baseline |-> baseline, active |-> active, config |-> disk.config]))
  <2>1. disk.config \in 1 .. MaxConfig
    BY DiskHas DEF CaptureInv, TypeInv
  <2>2. QED BY <2>1, WritesSuit DEF Workset
<1> DEFINE active == \/ Status = "extracting"
                     \/ receipt # None /\ disk.ledger # Status
                     \/ disk.journal # None \/ disk.transition # None
           sealed == Write("workset", [baseline |-> IF active THEN "recovery_needed" ELSE "healthy",
                                       active |-> active, config |-> disk.config])
<1>2. active \in BOOLEAN
  OBVIOUS
<1>3. Suits(sealed)
  BY <1>1, <1>2
<1>4. \E sound \in BOOLEAN :
        Section(w, Unlink("workset") \o (IF sound THEN sealed ELSE << >>), "idle")
  BY DEF Audit
<1> HIDE DEF active, sealed
<1>5. Suits(Unlink("workset") \o sealed) /\ Suits(Unlink("workset") \o << >>)
  BY <1>3, EmptiedSuits, SuitsJoined DEF CaptureInv
<1>6. QED BY <1>4, <1>5, Sectioned

LEMMA ScannerStays ==
  ASSUME ContentInv, CaptureInv, NEW w \in Workers, Register(w) \/ Exclude(w) \/ Quarantine(w),
         UNCHANGED kept
  PROVE  ContentInv'
<1>1. \A s \in Statuses : New(s) \in Receipt /\ New(s).status = s
  BY DEF New, Receipt, Charges
<1>2. ASSUME NEW s \in Statuses \ {"complete"},
             receipt = None \/ ValidCaptureTransition(receipt.status, s)
      PROVE  Suits(Change(IF receipt = None THEN New(s) ELSE [receipt EXCEPT !.status = s])
               \o RetireActive)
  <2>1. ~IsComplete(disk)
    <3>1. Transitions["complete"] = {}
      BY DEF Transitions
    <3>2. QED BY <1>2, <3>1 DEF IsComplete, receipt, ValidCaptureTransition
  <2>2. /\ (IF receipt = None THEN New(s) ELSE [receipt EXCEPT !.status = s]) \in Receipt
        /\ (IF receipt = None THEN New(s) ELSE [receipt EXCEPT !.status = s]).status = s
    <3>1. CASE receipt = None
      BY <1>1, <3>1
    <3>2. CASE receipt # None
      BY <3>2, ReceiptIs DEF CaptureInv, Receipt
    <3>3. QED BY <3>1, <3>2
  <2>3. QED BY <2>1, <2>2, ChangeSuits, MarksSuit, SuitsJoined
<1>3. CASE Register(w)
  <2>1. receipt = None => Suits(Change(New("discovered")) \o RetireActive)
    BY <1>2 DEF Statuses
  <2>2. receipt # None => Suits(MarkActive \o Write("ledger", receipt.status) \o RetireActive)
    BY ReceiptIs, LedgerSuits, MarksSuit, SuitsJoined DEF IsComplete, receipt, CaptureInv
  <2>3. \E writes : Suits(writes) /\ Section(w, writes, "idle")
    BY <1>3, <2>1, <2>2, SuitsJoined DEF Register
  <2>4. QED BY <2>3, Sectioned
<1>4. CASE Exclude(w)
  <2>1. \E writes, label : Suits(writes) /\ Section(w, writes, label)
    BY <1>2, <1>4, SuitsJoined DEF Exclude, Statuses
  <2>2. QED BY <2>1, Sectioned
<1>5. CASE Quarantine(w)
  <2>1. \E writes : Suits(writes) /\ Section(w, writes, "idle")
    BY <1>2, <1>5, SuitsJoined DEF Quarantine, Statuses
  <2>2. QED BY <2>1, Sectioned
<1>6. QED BY <1>3, <1>4, <1>5

LEMMA OneKeeps ==
  ASSUME NEW g, NEW v, NEW f, NEW m
  PROVE  /\ g # f => Keeps(Write(g, v), f, m)
         /\ Good(f, v, m) => Keeps(Write(g, v), f, m)
         /\ g = f /\ Good(f, v, m) => Sets(Write(g, v), f, m)
<1> DEFINE x == [file |-> g, value |-> v]
           t == << x >>
<1>1. Len(t) = 1 /\ t[1] = x /\ x.file = g /\ x.value = v
  OBVIOUS
<1> HIDE DEF t, x
<1>2. \A i \in 1 .. Len(t) : t[i].file = g /\ t[i].value = v
  BY <1>1
<1>3. /\ g # f => Keeps(t, f, m)
      /\ Good(f, v, m) => Keeps(t, f, m)
  BY <1>2 DEF Keeps
<1>4. ASSUME g = f, Good(f, v, m) PROVE Sets(t, f, m)
  <2>1. 1 \in 1 .. Len(t) /\ \A i \in 1 .. Len(t) : t[i].file = f => Good(f, t[i].value, m)
    BY <1>1, <1>2, <1>4
  <2>2. QED BY <1>1, <1>4, <2>1 DEF Sets
<1>5. QED BY <1>3, <1>4 DEF Write, t, x

\* The last write of a growing batch has all of it.
LEMMA GrowingSets ==
  ASSUME NEW before \in Batch, NEW batch \in Batch, NEW m, m \subseteq batch
  PROVE  /\ Sets(Growing("observations", before, batch), "observations", m)
         /\ \A f : f # "observations" => Keeps(Growing("observations", before, batch), f, m)
<1> DEFINE s == SetToSeq(batch)
<1>1. PICK n \in Nat : s \in [1 .. n -> batch] /\ Len(s) = n /\ n = Cardinality(batch)
  BY Enumerated
<1>2. ASSUME NEW o \in batch PROVE \E j \in 1 .. n : s[j] = o
  <2>1. IsFiniteSet(batch) /\ IsFiniteSet(1 .. n) /\ Cardinality(1 .. n) = n
    BY CaptureAssumption, FS_Subset, FS_Interval DEF Batch
  <2>2. ExistsBijection(1 .. n, batch)
    BY <1>1, <2>1, FS_CardinalityType
  <2>3. \E f \in [1 .. n -> batch] : IsInjective(f)
    BY <2>2 DEF ExistsBijection, Bijection, Injection
  <2>4. IsInjective(s)
    BY <1>1, <2>3 DEF SetToSeq
  <2>5. s \in Injection(1 .. n, batch)
    BY <1>1, <2>4 DEF Injection
  <2>6. s \in Surjection(1 .. n, batch)
    BY <1>1, <2>1, <2>5, FS_Injection
  <2>7. QED BY <2>6 DEF Surjection
<1> HIDE DEF s
<1> DEFINE t == [i \in 1 .. n |-> [file |-> "observations", value |-> before \cup {s[j] : j \in 1 .. i}]]
<1>3. Growing("observations", before, batch) = t
  BY <1>1 DEF Growing, s
<1>4. Len(t) = n /\ \A i \in 1 .. n : t[i].file = "observations"
  OBVIOUS
<1>5. n # 0 => t[n].value = before \cup {s[j] : j \in 1 .. n}
  OBVIOUS
<1> HIDE DEF t
<1>6. Sets(t, "observations", m)
  <2>1. CASE m = {}
    BY <2>1 DEF Sets
  <2>2. CASE m # {}
    <3>1. n \in 1 .. n /\ n # 0
      BY <1>2, <2>2
    <3>2. batch \subseteq t[n].value
      BY <1>2, <1>5, <3>1
    <3>3. \A i \in n .. Len(t) : i = n
      BY <1>4
    <3>4. Good("observations", t[n].value, m)
      BY <3>2 DEF Good
    <3>5. n \in 1 .. Len(t) /\ t[n].file = "observations"
      BY <1>4, <3>1
    <3>6. QED BY <3>3, <3>4, <3>5 DEF Sets
  <2>3. QED BY <2>1, <2>2
<1>7. \A f : f # "observations" => Keeps(t, f, m)
  BY <1>4 DEF Keeps
<1>8. QED BY <1>3, <1>6, <1>7

\* All that a complete receipt refers to is there before it.
Readies(t, m) == t \in Seq(Unfinishing) /\ \A f \in Bound : Sets(t, f, m)

LEMMA ReadiesLeads ==
  ASSUME NEW s \in Seq(Unfinishing), NEW t, NEW m, Readies(t, m), NEW d
  PROVE  Readies(s \o t, m) /\ Leads(d, s \o t, m)
<1>1. s \in Writes /\ t \in Writes /\ s \o t \in Seq(Unfinishing)
  BY WritesAre, Lists DEF Readies
<1>2. QED BY <1>1, JoinedSets DEF Readies, Leads

LEMMA CompletesWith ==
  ASSUME NEW a, NEW m, Readies(a, m), NEW r \in Receipt, r.count = Cardinality(m),
         NEW s \in Seq(Unfinishing), NEW b \in Seq(Idle), NEW d
  PROVE  Completes(d, s \o ((a \o Write("receipt", r)) \o b), m)
<1>1. a \in Writes /\ b \in Writes /\ s \in Writes
  BY WritesAre, IdleIsHarmless DEF Readies
<1> DEFINE t == (a \o Write("receipt", r)) \o b
<1>2. Around(t, a, r, b)
  BY DEF Around
<1> HIDE DEF t
<1>3. Around(s \o t, s \o a, r, b)
  BY <1>1, <1>2, AroundJoined
<1>4. s \o a \in Seq(Unfinishing) /\ Leads(d, s \o a, m)
  BY ReadiesLeads DEF Readies
<1>5. b \in Seq(HarmlessTo(m))
  BY IdleIsHarmless
<1>6. Completes(d, s \o t, m)
  BY <1>3, <1>4, <1>5 DEF Completes
<1>7. QED BY <1>6 DEF t

LEMMA CompletesBefore ==
  ASSUME NEW d, NEW t, NEW m, Completes(d, t, m), NEW s \in Seq(Idle)
  PROVE  Completes(d, t \o s, m)
<1>1. PICK a \in Seq(Unfinishing), b \in Seq(HarmlessTo(m)), r \in Receipt :
        Around(t, a, r, b) /\ r.count = Cardinality(m) /\ Leads(d, a, m)
  BY DEF Completes
<1>2. a \in Writes /\ b \in Writes /\ s \in Writes /\ r \in Receipt \cup {None}
  BY WritesAre, IdleIsHarmless
<1>3. Around(t \o s, a, r, b \o s)
  BY <1>1, <1>2, AroundJoined
<1>4. b \o s \in Seq(HarmlessTo(m))
  BY IdleIsHarmless, Lists
<1>5. QED BY <1>1, <1>3, <1>4 DEF Completes

LEMMA ClearsJoined ==
  ASSUME NEW d, NEW t, Clears(d, t), NEW s \in Writes
  PROVE  Clears(d, t \o s) /\ (s \in Seq(Idle) => Clears(d, s \o t))
<1>1. PICK a \in Seq(HarmlessTo(d.manifest)), b \in Writes : Around(t, a, None, b)
  BY DEF Clears
<1>2. a \in Writes /\ None \in Receipt \cup {None}
  BY WritesAre
<1>3. Around(t \o s, a, None, b \o s) /\ Around(s \o t, s \o a, None, b)
  BY <1>1, <1>2, AroundJoined
<1>4. b \o s \in Writes
  BY Joined
<1>5. s \in Seq(Idle) => s \o a \in Seq(HarmlessTo(d.manifest))
  BY IdleIsHarmless, Lists
<1>6. QED BY <1>3, <1>4, <1>5 DEF Clears

-----------------------------------------------------------------------------
\* commit_extraction.
LEMMA CommitPlanned ==
  ASSUME CaptureInv, NEW w \in Workers, NEW batch \in Batch, NEW usage \in Charges,
         receipt # None, ~IsComplete(disk)
  PROVE  Completes(disk, CommitWrites(w, batch, usage), batch)
<1> DEFINE prepare == Prepare(batch)
           index == Write("manifest", batch)
           growing == Growing("observations", disk.observations, batch)
           publish == Publish(batch)
           settle == Settle(w)
           ledger == Write("ledger", "complete")
           r == [receipt EXCEPT !.status = "complete", !.usage = usage, !.count = Cardinality(batch)]
           cleanup == CleanUp(batch)
<1>1. prepare \in Seq(Idle) /\ settle \in Seq(Idle) /\ cleanup \in Seq(Idle)
  <2>1. prepare \in Seq(Idle)
    BY LeftoversAre, StagesAreIdle, IdleWrites, MarksAreIdle, IdleJoined DEF Prepare, CaptureInv
  <2>2. settle \in Seq(Idle)
    <3>1. disk.settled \cup {job[w].reserved} \in SUBSET Nat
      BY DiskHas DEF CaptureInv, TypeInv, Job
    <3>2. QED BY <3>1, IdleWrites, IdleJoined DEF Settle
  <2>3. cleanup \in Seq(Idle)
    <3>1. disk.staged \cup batch \in Batch
      BY LeftoversAre DEF Batch, CaptureInv
    <3>2. QED BY <3>1, StagesAreIdle, IdleWrites, MarksAreIdle, IdleJoined DEF CleanUp
  <2>4. QED BY <2>1, <2>2, <2>3
<1>2. index \in Seq(Unfinishing) /\ growing \in Seq(Unfinishing) /\ ledger \in Seq(Unfinishing)
  BY LeftoversAre, SpreadsSuit, UnfinishedSuits, LedgerSuits DEF Suits, Statuses, CaptureInv
<1>3. r \in Receipt /\ r.count = Cardinality(batch)
  <2>1. Cardinality(batch) \in Nat /\ receipt \in Receipt /\ "complete" \in Statuses
    BY Enumerated, ReceiptIs DEF Statuses, CaptureInv
  <2>2. \A n \in Nat, s \in Statuses :
           /\ [receipt EXCEPT !.status = s, !.usage = usage, !.count = n] \in Receipt
           /\ [receipt EXCEPT !.status = s, !.usage = usage, !.count = n].count = n
    BY <2>1 DEF Receipt
  <2>3. QED BY <2>1, <2>2
<1>4. /\ Sets(growing, "observations", batch) /\ Keeps(growing, "manifest", batch)
      /\ Sets(index, "manifest", batch)
      /\ Sets(ledger, "ledger", batch) /\ Keeps(ledger, "manifest", batch)
      /\ Keeps(ledger, "observations", batch)
  <2>1. disk.observations \in Batch
    BY LeftoversAre DEF CaptureInv
  <2>2. Sets(growing, "observations", batch) /\ Keeps(growing, "manifest", batch)
    BY <2>1, GrowingSets
  <2>3. Good("manifest", batch, batch) /\ Good("ledger", "complete", batch)
    BY DEF Good
  <2>4. QED BY <2>2, <2>3, OneKeeps
<1>5. publish = index \o growing
  BY DEF Publish
<1>6. CommitWrites(w, batch, usage)
        = (((prepare \o publish) \o settle) \o (ledger \o Write("receipt", r))) \o cleanup
  BY DEF CommitWrites, Conclude
<1>7. \A f \in Bound : Keeps(settle, f, batch)
  BY <1>1, IdleKeeps
<1> HIDE DEF prepare, index, growing, publish, settle, ledger, r, cleanup
<1>8. /\ prepare \in Writes /\ settle \in Writes /\ index \in Writes /\ growing \in Writes
      /\ ledger \in Writes /\ prepare \in Seq(Unfinishing) /\ settle \in Seq(Unfinishing)
  BY <1>1, <1>2, WritesAre, IdleIsHarmless
<1>9. publish \in Seq(Unfinishing) /\ publish \in Writes
  BY <1>2, <1>5, Lists, WritesAre
<1>10. Sets(publish, "manifest", batch) /\ Sets(publish, "observations", batch)
  BY <1>4, <1>5, <1>8, JoinedSets
<1> DEFINE x == (prepare \o publish) \o settle
<1>11. x \in Seq(Unfinishing) /\ x \in Writes
  BY <1>8, <1>9, Lists, WritesAre
<1>12. Sets(x, "manifest", batch) /\ Sets(x, "observations", batch)
  <2> DEFINE p == prepare \o publish
  <2>1. p \in Writes /\ Sets(p, "manifest", batch) /\ Sets(p, "observations", batch)
    BY <1>8, <1>9, <1>10, Joined, JoinedSets
  <2> HIDE DEF p
  <2>2. Keeps(settle, "manifest", batch) /\ Keeps(settle, "observations", batch)
    BY <1>7 DEF Bound
  <2>3. Sets(p \o settle, "manifest", batch) /\ Sets(p \o settle, "observations", batch)
    BY <1>8, <2>1, <2>2, JoinedSets
  <2>4. QED BY <2>3 DEF p
<1> HIDE DEF x
<1> DEFINE a == x \o ledger
<1>13. Readies(a, batch)
  <2>1. /\ Sets(a, "manifest", batch) /\ Sets(a, "observations", batch)
        /\ Sets(a, "ledger", batch)
    BY <1>4, <1>8, <1>11, <1>12, JoinedSets
  <2>2. a \in Seq(Unfinishing)
    BY <1>2, <1>11, Lists
  <2>3. QED BY <2>1, <2>2 DEF Readies, Bound
<1> HIDE DEF a
<1> DEFINE wr == Write("receipt", r)
<1>14. wr \in Writes
  BY <1>3, CalmWrites, CalmIsWritten
<1> DEFINE t == (a \o wr) \o cleanup
<1>15. CommitWrites(w, batch, usage) = t
  <2> HIDE DEF wr, t
  <2>1. x \in Writes /\ ledger \in Writes
    BY <1>8, <1>11
  <2>2. (x \o ledger) \o wr = x \o (ledger \o wr)
    BY <1>14, <2>1, Regrouped
  <2>3. QED BY <1>6, <2>2 DEF t, x, a, wr
<1>16. Completes(disk, << >> \o t, batch)
  <2>1. << >> \in Seq(Unfinishing)
    BY Lists
  <2>2. QED BY <1>1, <1>3, <1>13, <2>1, CompletesWith
<1>17. << >> \o t = t
  <2>1. t \in Writes
    <3>1. a \in Writes /\ cleanup \in Writes
      BY <1>1, <1>13, WritesAre, IdleIsHarmless DEF Readies
    <3>2. QED BY <1>14, <3>1, Joined
  <2> HIDE DEF t
  <2>2. QED BY <2>1, ConcatEmptySeq DEF Writes
<1>18. QED BY <1>15, <1>16, <1>17

LEMMA AnyUnfinishing ==
  /\ \A v \in Receipt \cup {None} : (v # None => v.status # "complete") => Write("receipt", v) \in Seq(Unfinishing)
  /\ \A v \in Statuses \cup {None} : Write("ledger", v) \in Seq(Unfinishing)
  /\ \A v \in Batch \cup {None} : Write("manifest", v) \in Seq(Unfinishing)
<1>1. ASSUME NEW f \in {"receipt", "ledger", "manifest"}, NEW v \in Contents[f],
             f = "receipt" => v = None \/ v.status # "complete"
      PROVE  Write(f, v) \in Seq(Unfinishing)
  <2>1. [file |-> f, value |-> v] \in WritesOf(FileNames)
    <3>1. f \in FileNames
      BY DEF FileNames
    <3>2. QED BY <3>1, IsWrite
  <2>2. [file |-> f, value |-> v] \in Unfinishing
    BY <1>1, <2>1 DEF Unfinishing, Completing
  <2>3. QED BY <2>2, Lists DEF Write
<1>2. QED BY <1>1 DEF Contents

LEMMA UnfinishingJoined ==
  << >> \in Seq(Unfinishing) /\ \A s, t \in Seq(Unfinishing) : s \o t \in Seq(Unfinishing)
BY Lists

LEMMA ObservationsUnfinishing ==
  ASSUME NEW before \in Batch, NEW batch \in Batch
  PROVE  /\ Growing("observations", before, batch) \in Seq(Unfinishing)
         /\ Shrinking("observations", before, batch) \in Seq(Unfinishing)
<1>1. ASSUME NEW t \in Writes, \A i \in 1 .. Len(t) : t[i].file = "observations"
      PROVE  t \in Seq(Unfinishing)
  <2>1. \A i \in 1 .. Len(t) : t[i] \in WritesOf(FileNames)
    BY DEF Writes
  <2>2. \A i \in 1 .. Len(t) : t[i] \in Unfinishing
    BY <1>1, <2>1 DEF Unfinishing, Completing
  <2>3. QED BY <2>2, Narrowed DEF Writes
<1>2. \A f \in {"observations", "staged"} :
        /\ Growing(f, before, batch) \in Writes /\ Shrinking(f, before, batch) \in Writes
        /\ \A i \in 1 .. Len(Growing(f, before, batch)) : Growing(f, before, batch)[i].file = f
        /\ \A i \in 1 .. Len(Shrinking(f, before, batch)) : Shrinking(f, before, batch)[i].file = f
  BY SpreadIs
<1>3. QED BY <1>1, <1>2

\* Put and Reset write what they are given, or nothing.
LEMMA PutsIdle ==
  ASSUME NEW d \in Disk
  PROVE  /\ Put("journal", d.journal) \in Seq(Idle) /\ Put("transition", d.transition) \in Seq(Idle)
         /\ Put("lease", d.lease) \in Seq(Idle) /\ Put("epoch", d.epoch) \in Seq(Idle)
         /\ Put("workset", d.workset) \in Seq(Idle) /\ Put("reserved", d.reserved) \in Seq(Idle)
         /\ Put("settled", d.settled) \in Seq(Idle)
         /\ Growing("staged", {}, d.staged) \in Seq(Idle)
         /\ Put("manifest", d.manifest) \in Seq(Unfinishing)
         /\ Put("ledger", d.ledger) \in Seq(Unfinishing)
         /\ Growing("observations", {}, d.observations) \in Seq(Unfinishing)
<1>1. {} \in Batch
  BY DEF Batch
<1>2. QED BY <1>1, DiskHas, IdleWrites, IdleJoined, AnyUnfinishing, UnfinishingJoined,
             StagesAreIdle, ObservationsUnfinishing DEF Put

LEMMA ResetsIdle ==
  ASSUME CaptureInv
  PROVE  /\ Reset("journal") \in Seq(Idle) /\ Reset("transition") \in Seq(Idle)
         /\ Reset("lease") \in Seq(Idle) /\ Reset("epoch") \in Seq(Idle)
         /\ Reset("workset") \in Seq(Idle) /\ Reset("reserved") \in Seq(Idle)
         /\ Reset("settled") \in Seq(Idle)
         /\ Shrinking("staged", disk.staged, disk.staged) \in Seq(Idle)
         /\ Reset("manifest") \in Seq(Unfinishing) /\ Reset("ledger") \in Seq(Unfinishing)
         /\ Reset("receipt") \in Seq(Unfinishing)
         /\ Shrinking("observations", disk.observations, disk.observations) \in Seq(Unfinishing)
<1>1. disk.staged \in Batch /\ disk.observations \in Batch
  BY LeftoversAre DEF CaptureInv
<1>2. /\ Blank.journal = None /\ Blank.transition = None /\ Blank.lease = None /\ Blank.epoch = 0
      /\ Blank.workset = None /\ Blank.reserved = {} /\ Blank.settled = {} /\ Blank.manifest = None
      /\ Blank.ledger = None /\ Blank.receipt = None
  BY DEF Blank
<1>3. /\ Reset("journal") \in Seq(Idle) /\ Reset("transition") \in Seq(Idle)
      /\ Reset("lease") \in Seq(Idle) /\ Reset("epoch") \in Seq(Idle)
      /\ Reset("workset") \in Seq(Idle) /\ Reset("reserved") \in Seq(Idle)
      /\ Reset("settled") \in Seq(Idle)
  <2>1. /\ Write("journal", None) \in Seq(Idle) /\ Write("transition", None) \in Seq(Idle)
        /\ Write("lease", None) \in Seq(Idle) /\ Write("workset", None) \in Seq(Idle)
    BY IdleWrites
  <2>2. /\ Write("epoch", 0) \in Seq(Idle) /\ Write("reserved", {}) \in Seq(Idle)
        /\ Write("settled", {}) \in Seq(Idle)
    BY IdleWrites
  <2>3. QED BY <1>2, <2>1, <2>2, IdleJoined DEF Reset
<1>4. /\ Reset("manifest") \in Seq(Unfinishing) /\ Reset("ledger") \in Seq(Unfinishing)
      /\ Reset("receipt") \in Seq(Unfinishing)
  BY <1>2, AnyUnfinishing, UnfinishingJoined DEF Reset
<1>5. QED BY <1>1, <1>3, <1>4, StagesAreIdle, ObservationsUnfinishing

LEMMA IdleUnfinishing == \A t \in Seq(Idle) : t \in Seq(Unfinishing) /\ t \in Writes
BY IdleIsHarmless

LEMMA ClearedUnfinishing ==
  ASSUME CaptureInv
  PROVE  Cleared \in Seq(Unfinishing)
BY ResetsIdle, IdleUnfinishing, UnfinishingJoined DEF Cleared

LEMMA ClearedClears ==
  ASSUME CaptureInv, IsComplete(disk)
  PROVE  Clears(disk, Cleared)
<1> DEFINE stages == Shrinking("staged", disk.staged, disk.staged)
           members == Shrinking("observations", disk.observations, disk.observations)
<1>1. stages \in Seq(Idle) /\ members \in Writes
  BY ResetsIdle, WritesAre
<1>2. /\ Reset("ledger") \in Writes /\ Reset("lease") \in Writes /\ Reset("epoch") \in Writes
      /\ Reset("transition") \in Writes /\ Reset("journal") \in Writes /\ Reset("manifest") \in Writes
      /\ Reset("settled") \in Writes /\ Reset("reserved") \in Writes
  BY ResetsIdle, IdleUnfinishing, WritesAre
<1> HIDE DEF stages, members
<1>3. Clears(disk, stages \o Reset("receipt"))
  <2> DEFINE t == stages \o Write("receipt", None)
  <2>1. Reset("receipt") = Write("receipt", None)
    BY DEF Reset, Blank, IsComplete
  <2>2. t \in Writes /\ stages \in Writes
    BY <1>1, IdleUnfinishing, CalmWrites, CalmIsWritten, Joined
  <2> HIDE DEF t
  <2>3. t \o << >> = t
    BY <2>2, ConcatEmptySeq DEF Writes
  <2>4. Around(t, stages, None, << >>)
    BY <2>3 DEF Around, t
  <2>5. stages \in Seq(HarmlessTo(disk.manifest)) /\ << >> \in Writes
    BY <1>1, IdleIsHarmless, Joined
  <2>6. Clears(disk, t)
    BY <2>4, <2>5 DEF Clears
  <2>7. QED BY <2>1, <2>6 DEF t
<1>4. Cleared = stages \o Reset("receipt") \o members \o Reset("ledger") \o Reset("lease")
                  \o Reset("epoch") \o Reset("transition") \o Reset("journal") \o Reset("manifest")
                  \o Reset("settled") \o Reset("reserved")
  BY DEF Cleared, stages, members
<1>5. QED BY <1>1, <1>2, <1>3, <1>4, ClearsJoined

\* The files of a backup, or the former ones.
LEMMA BringUnfinishing ==
  ASSUME NEW d \in Disk, ~IsComplete(d)
  PROVE  Bring(d) \in Seq(Unfinishing)
<1>1. Put("receipt", d.receipt) \in Seq(Unfinishing)
  BY DiskHas, AnyUnfinishing, UnfinishingJoined DEF Put, IsComplete
<1>2. QED BY <1>1, PutsIdle, IdleUnfinishing, UnfinishingJoined DEF Bring

LEMMA BringCompletes ==
  ASSUME NEW d \in Disk, IsWhole(d), IsComplete(d), NEW s \in Seq(Unfinishing), NEW e
  PROVE  Completes(e, s \o Bring(d), d.manifest) /\ d.manifest \in Batch
<1> DEFINE m == d.manifest
           before == Put("reserved", d.reserved) \o Put("settled", d.settled)
           index == Write("manifest", m)
           between == Put("journal", d.journal) \o Put("transition", d.transition)
           ledger == Write("ledger", "complete")
           growing == Growing("observations", {}, d.observations)
           r == d.receipt
           after == Put("workset", d.workset)
           stages == Growing("staged", {}, d.staged)
<1>1. /\ m # None /\ m \in Batch /\ r.count = Cardinality(m) /\ m \subseteq d.observations
      /\ d.ledger = "complete" /\ r # None /\ r \in Receipt
  BY DiskHas DEF IsWhole, IsComplete
<1>2. /\ Put("manifest", d.manifest) = index /\ Put("ledger", d.ledger) = ledger
      /\ Put("receipt", d.receipt) = Write("receipt", r)
  BY <1>1, CaptureAssumption DEF Put, Blank, Statuses
<1>3. /\ before \in Seq(Idle) /\ after \in Seq(Idle) /\ stages \in Seq(Idle)
      /\ Put("journal", d.journal) \in Seq(Idle) /\ Put("transition", d.transition) \in Seq(Idle)
      /\ Put("epoch", d.epoch) \in Seq(Idle) /\ Put("lease", d.lease) \in Seq(Idle)
  BY PutsIdle, IdleJoined
<1>4. index \in Seq(Unfinishing) /\ ledger \in Seq(Unfinishing) /\ growing \in Seq(Unfinishing)
  BY <1>2, PutsIdle
<1>5. /\ Sets(growing, "observations", m) /\ Keeps(growing, "manifest", m)
      /\ Keeps(growing, "ledger", m)
  <2>1. {} \in Batch /\ d.observations \in Batch
    BY DiskHas DEF Batch
  <2>2. QED BY <1>1, <2>1, GrowingSets
<1>6. Sets(index, "manifest", m) /\ Sets(ledger, "ledger", m) /\ Keeps(ledger, "manifest", m)
  <2>1. Good("manifest", m, m) /\ Good("ledger", "complete", m)
    BY DEF Good
  <2>2. QED BY <2>1, OneKeeps
<1> DEFINE a == before \o index \o Put("journal", d.journal) \o Put("transition", d.transition)
                  \o Put("epoch", d.epoch) \o Put("lease", d.lease) \o ledger \o growing
<1>7. Bring(d) = ((a \o Write("receipt", r)) \o after) \o stages
  BY <1>2 DEF Bring
<1> HIDE DEF m, before, index, ledger, growing, r, after, stages
<1>8. Readies(a, m)
  <2>1. \A t \in Seq(Idle) : \A f \in Bound : Keeps(t, f, m)
    BY IdleKeeps
  <2>2. "manifest" \in Bound
    BY DEF Bound
  <2> DEFINE Has(t) == t \in Writes /\ Sets(t, "manifest", m)
  <2>3. ASSUME NEW t, NEW u \in Seq(Idle), Has(t) PROVE Has(t \o u)
    BY <2>1, <2>2, <2>3, IdleUnfinishing, JoinedSets, Joined
  <2>4. Has(before \o index)
    BY <1>3, <1>4, <1>6, IdleUnfinishing, WritesAre, JoinedSets, Joined
  <2> HIDE DEF Has
  <2> DEFINE p == before \o index \o Put("journal", d.journal) \o Put("transition", d.transition)
                    \o Put("epoch", d.epoch) \o Put("lease", d.lease)
  <2>5. Has(p)
    BY <1>3, <2>3, <2>4
  <2>6. p \in Seq(Unfinishing)
    BY <1>3, <1>4, IdleUnfinishing, UnfinishingJoined
  <2> HIDE DEF p
  <2>7. p \in Writes /\ ledger \in Writes /\ growing \in Writes /\ Sets(p, "manifest", m)
    BY <1>4, <2>5, WritesAre DEF Has
  <2> DEFINE q == p \o ledger
  <2>8. q \in Writes /\ Sets(q, "manifest", m) /\ Sets(q, "ledger", m) /\ q \in Seq(Unfinishing)
    BY <1>4, <1>6, <2>6, <2>7, JoinedSets, Joined, UnfinishingJoined
  <2> HIDE DEF q
  <2>9. /\ Sets(q \o growing, "manifest", m) /\ Sets(q \o growing, "ledger", m)
        /\ Sets(q \o growing, "observations", m) /\ q \o growing \in Seq(Unfinishing)
    BY <1>4, <1>5, <2>7, <2>8, JoinedSets, UnfinishingJoined
  <2>10. a = q \o growing
    BY DEF p, q
  <2> HIDE DEF a
  <2>11. QED BY <2>9, <2>10 DEF Readies, Bound
<1> HIDE DEF a
<1> DEFINE wr == Write("receipt", r)
<1>9. wr \in Writes /\ a \in Writes /\ s \in Writes /\ after \in Writes /\ stages \in Writes
  BY <1>1, <1>3, <1>8, CalmWrites, CalmIsWritten, WritesAre, IdleUnfinishing DEF Readies, r
<1> HIDE DEF wr
<1> DEFINE aw == a \o wr
<1>10. aw \in Writes
  BY <1>9, Joined
<1> HIDE DEF aw
<1>11. (aw \o after) \o stages = aw \o (after \o stages)
  BY <1>9, <1>10, Regrouped
<1>12. after \o stages \in Seq(Idle)
  BY <1>3, IdleJoined
<1>13. Completes(e, s \o ((a \o Write("receipt", r)) \o (after \o stages)), m)
  BY <1>1, <1>8, <1>12, CompletesWith DEF r, m
<1>14. QED BY <1>1, <1>7, <1>11, <1>13 DEF aw, wr, m

LEMMA LeaseStays ==
  ASSUME ContentInv, CaptureInv, NEW w \in Workers,
         (\E from, next : TakeLease(w, from, next)) \/ (\E from : Contended(w, from)) \/ Release(w),
         UNCHANGED kept
  PROVE  ContentInv'
<1>1. PICK writes : Suits(writes) /\ \E label : Section(w, writes, label)
  <2>1. CASE \E from, next : TakeLease(w, from, next)
    <3>1. NextToken \in Nat /\ kept.restores \in Nat
      <4>1. disk.epoch \in Nat /\ (disk.lease # None => disk.lease.token \in Nat)
        BY DiskHas DEF CaptureInv, TypeInv, Lease
      <4>2. QED BY <4>1 DEF NextToken, CaptureInv, TypeInv
    <3>2. [token |-> NextToken, era |-> kept.restores, live |-> TRUE] \in Lease
      BY <3>1 DEF Lease
    <3>3. Suits(Write("epoch", NextToken)
                  \o Write("lease", [token |-> NextToken, era |-> kept.restores, live |-> TRUE]))
      BY <3>1, <3>2, WritesSuit, SuitsJoined
    <3>4. QED BY <2>1, <3>3 DEF TakeLease
  <2>2. CASE \E from : Contended(w, from)
    BY <2>2, SuitsJoined DEF Contended
  <2>3. CASE Release(w)
    BY <2>3, WritesSuit, SuitsJoined DEF Release
  <2>4. QED BY <2>1, <2>2, <2>3
<1>2. QED BY <1>1, Sectioned

LEMMA RunnerStays ==
  ASSUME ContentInv, CaptureInv, NEW w \in Workers,
         Requeue(w) \/ BackOff(w) \/ SourceChanged(w) \/ Defer(w), UNCHANGED kept
  PROVE  ContentInv'
<1>1. PICK target \in {"queued", "retryable", "quarantined", "deferred_budget"} :
        \E expected, next, otherwise : TryTransition(w, expected, target, next, otherwise)
  BY DEF Requeue, BackOff, SourceChanged, Defer
<1>2. target \in Statuses \ {"complete"}
  BY DEF Statuses
<1>3. QED BY <1>1, <1>2, TryStays

LEMMA ExtractionStays ==
  ASSUME ContentInv, CaptureInv, NEW w \in Workers,
         Reserve(w) \/ BeginExtraction(w) \/ ExtractFails(w), UNCHANGED kept
  PROVE  ContentInv'
<1>1. CASE Reserve(w)
  <2>1. disk.reserved \cup {job[w].attempt + 1} \in SUBSET Nat
    BY DiskHas DEF CaptureInv, TypeInv, Job
  <2>2. Suits(Write("reserved", disk.reserved \cup {job[w].attempt + 1}))
    BY <2>1, WritesSuit
  <2>3. QED BY <1>1, <2>2, Sectioned DEF Reserve
<1>2. CASE BeginExtraction(w)
  <2>1. PICK writes : Suits(writes) /\ \E label : Section(w, writes, label)
    <3>1. CASE HoldsReceipt(w) /\ receipt.status \in Ready
      <4>1. receipt \in Receipt /\ receipt.status \in Ready
        BY <3>1, ReceiptIs DEF HoldsReceipt, CaptureInv
      <4>2. ~IsComplete(disk)
        BY <4>1 DEF IsComplete, receipt, Ready
      <4>3. Begun \in Receipt /\ Begun.status = "extracting"
        <5>1. receipt.attempt + 1 \in Nat /\ "extracting" \in Statuses
          BY <4>1 DEF Receipt, Statuses
        <5>2. \A n \in Nat, s \in Statuses :
                /\ [receipt EXCEPT !.status = s, !.bound = TRUE, !.attempt = n] \in Receipt
                /\ [receipt EXCEPT !.status = s, !.bound = TRUE, !.attempt = n].status = s
          BY <4>1 DEF Receipt
        <5>3. Begun = [receipt EXCEPT !.status = "extracting", !.bound = TRUE,
                                      !.attempt = receipt.attempt + 1]
          BY <4>1 DEF Begun, Receipt
        <5>4. QED BY <5>1, <5>2, <5>3
      <4>4. Suits(Change(Begun))
        BY <4>2, <4>3, ChangeSuits
      <4>5. QED BY <1>2, <3>1, <4>4 DEF BeginExtraction
    <3>2. CASE ~(HoldsReceipt(w) /\ receipt.status \in Ready)
      BY <1>2, <3>2, SuitsJoined DEF BeginExtraction
    <3>3. QED BY <3>1, <3>2
  <2>2. QED BY <2>1, Sectioned
<1>3. CASE ExtractFails(w)
  <2> DEFINE target == IF job[w].attempt >= MaxAttempts THEN "failed" ELSE "retryable"
  <2>1. target \in Statuses \ {"complete"}
    BY DEF Statuses
  <2>2. MayTransition(w, "extracting", target)
          => Suits(Transition(target, receipt.bound, Settle(w), Maximum))
    <3> SUFFICES ASSUME MayTransition(w, "extracting", target)
                 PROVE  Suits(Transition(target, receipt.bound, Settle(w), Maximum))
      OBVIOUS
    <3>1. receipt.bound \in BOOLEAN
      <4>1. receipt \in Receipt
        BY ReceiptIs DEF MayTransition, HoldsReceipt, CaptureInv
      <4>2. QED BY <4>1 DEF Receipt
    <3>2. Maximum \in Charges /\ Suits(Settle(w))
      BY SettleSuits DEF Maximum, Charges
    <3>3. QED BY <2>1, <3>1, <3>2, TransitionSuits
  <2>3. Section(w, IF MayTransition(w, "extracting", target)
                   THEN Transition(target, receipt.bound, Settle(w), Maximum)
                   ELSE << >>, "release")
    BY <1>3 DEF ExtractFails
  <2> HIDE DEF target
  <2>4. PICK writes : Suits(writes) /\ Section(w, writes, "release")
    BY <2>2, <2>3, SuitsJoined
  <2>5. QED BY <2>4, Sectioned
<1>4. QED BY <1>1, <1>2, <1>3

LEMMA CommitStays ==
  ASSUME ContentInv, CaptureInv, NEW w \in Workers, NEW batch \in Batch, NEW usage \in Charges,
         Commit(w, batch, usage), UNCHANGED kept
  PROVE  ContentInv'
<1> DEFINE may == /\ HoldsReceipt(w)
                  /\ receipt.attempt = job[w].attempt /\ receipt.bound
                  /\ receipt.status # "complete"
                  /\ usage >= receipt.usage
<1>1. Section(w, IF may THEN CommitWrites(w, batch, usage) ELSE << >>, "release")
  BY DEF Commit
<1>2. CASE may
  <2>1. receipt # None /\ ~IsComplete(disk)
    BY <1>2 DEF HoldsReceipt, IsComplete, receipt
  <2>2. Completes(disk, CommitWrites(w, batch, usage), batch)
    BY <2>1, CommitPlanned
  <2>3. todo'[w] = CommitWrites(w, batch, usage) /\ \A v \in Workers \ {w} : todo'[v] = << >>
    BY <1>1, <1>2 DEF Section, Free, CaptureInv, TypeInv
  <2>4. UNCHANGED disk
    BY <1>1 DEF Section
  <2>5. Wholes'
    BY <2>4 DEF ContentInv, Wholes
  <2>6. Planned(disk', todo'[w], pc'[w] \in Restoring)
    BY <2>1, <2>2, <2>3, <2>4 DEF Planned
  <2>7. QED BY <2>3, <2>5, <2>6, OneMoves
<1>3. CASE ~may
  BY <1>1, <1>3, SuitsJoined, Sectioned
<1>4. QED BY <1>2, <1>3

LEMMA LocalStays ==
  ASSUME ContentInv, CaptureInv, NEW w \in Workers, NEW label, Goto(w, label), todo[w] = << >>,
         UNCHANGED <<disk, todo, kept>>
  PROVE  ContentInv'
<1>1. \A v \in Workers : todo'[v] = << >> \/ (todo'[v] = todo[v] /\ pc'[v] = pc[v])
  BY DEF Goto, CaptureInv, TypeInv
<1>2. Same(disk, disk')
  BY DEF Same
<1>3. QED BY <1>1, <1>2, NoneMoves

LEMMA WaitingStays ==
  ASSUME ContentInv, CaptureInv, NEW w \in Workers,
         \/ \E refused \in BOOLEAN : Check(w, refused)
         \/ Select(w) \/ Finish(w) \/ Unavailable(w) \/ ExtractRaises(w) \/ LockBusy(w) \/ Retry(w),
         UNCHANGED kept
  PROVE  ContentInv'
<1>1. CASE \E refused \in BOOLEAN : Check(w, refused)
  <2>1. \/ todo[w] = << >> /\ Goto(w, "checked") /\ UNCHANGED <<disk, todo>>
        \/ \E label : Section(w, << >>, label)
    BY <1>1 DEF Check, At
  <2>2. QED BY <2>1, LocalStays, SuitsJoined, Sectioned
<1>2. CASE Select(w) \/ Finish(w) \/ Unavailable(w) \/ ExtractRaises(w) \/ LockBusy(w) \/ Retry(w)
  <2>1. todo[w] = << >> /\ UNCHANGED <<disk, todo>> /\ \E label : Goto(w, label)
    BY <1>2 DEF Select, Finish, Unavailable, ExtractRaises, LockBusy, Retry, At
  <2>2. QED BY <2>1, LocalStays
<1>3. QED BY <1>1, <1>2

LEMMA ClockStays ==
  ASSUME ContentInv, CaptureInv, LeaseExpires \/ ConfigChanges, UNCHANGED kept
  PROVE  ContentInv'
<1>1. \A f \in Bound \cup {"receipt"} : f \notin {"lease", "config"} /\ f \in FileNames
  BY DEF Bound, FileNames
<1>2. Same(disk, disk')
  <2>1. DOMAIN disk = FileNames
    BY DiskHas DEF CaptureInv, TypeInv
  <2>2. QED BY <1>1, <2>1 DEF LeaseExpires, ConfigChanges, Same
<1>3. UNCHANGED <<todo, pc>>
  BY DEF LeaseExpires, ConfigChanges
<1>4. QED BY <1>2, <1>3, NoneMoves

LEMMA BackupStays ==
  ASSUME ContentInv, CaptureInv, Backup
  PROVE  ContentInv'
<1>1. UNCHANGED <<disk, todo, pc>> /\ kept'.zip = Archived /\ kept'.former = kept.former
  BY DEF Backup, CaptureInv, TypeInv
<1>2. Same(disk, Archived)
  BY DEF Same, Bound, Archived, Blank, receipt
<1>3. Wholes'
  BY <1>1, <1>2, SamePlan DEF ContentInv, Wholes
<1>4. QED BY <1>1, <1>3 DEF ContentInv

LEMMA RestoreStays ==
  ASSUME ContentInv, CaptureInv, NEW w \in Workers, Restore(w)
  PROVE  ContentInv'
<1> DEFINE d == kept.zip
           reset == Reset("workset")
           t == (reset \o Cleared) \o Bring(d)
<1>1. /\ todo'[w] = t /\ \A v \in Workers \ {w} : todo'[v] = << >>
      /\ UNCHANGED disk /\ pc'[w] = "restoring" /\ d # None
  BY DEF Restore, Section, Goto, Free, CaptureInv, TypeInv
<1>2. d \in Disk /\ IsWhole(d)
  BY <1>1 DEF CaptureInv, TypeInv, ContentInv, Wholes
<1>3. Wholes'
  <2>1. kept'.zip = None /\ kept'.former \in {None, disk}
    BY DEF Restore
  <2>2. QED BY <1>1, <2>1 DEF ContentInv, Wholes
<1>4. reset \in Seq(Idle) /\ reset \in Writes /\ Cleared \in Seq(Unfinishing)
  BY ResetsIdle, IdleUnfinishing, ClearedUnfinishing
<1>5. Bring(d) \in Writes
  BY <1>2, BringIs
<1> HIDE DEF d, reset
<1>6. reset \o Cleared \in Seq(Unfinishing)
  BY <1>4, IdleUnfinishing, UnfinishingJoined
<1>7. t \in Seq(Unfinishing) \/ \E m \in Batch : Completes(disk, t, m)
  <2>1. CASE IsComplete(d)
    BY <1>2, <1>6, <2>1, BringCompletes
  <2>2. CASE ~IsComplete(d)
    BY <1>2, <1>6, <2>2, BringUnfinishing, UnfinishingJoined
  <2>3. QED BY <2>1, <2>2
<1>8. IsComplete(disk) => Clears(disk, t)
  <2> SUFFICES ASSUME IsComplete(disk) PROVE Clears(disk, t)
    OBVIOUS
  <2>1. Clears(disk, reset \o Cleared)
    BY <1>4, ClearedClears, ClearsJoined
  <2>2. QED BY <1>5, <2>1, ClearsJoined
<1> HIDE DEF t
<1>9. Planned(disk', todo'[w], pc'[w] \in Restoring)
  BY <1>1, <1>7, <1>8 DEF Planned, Restoring
<1>10. QED BY <1>1, <1>3, <1>9, OneMoves

LEMMA RestoreFailsStays ==
  ASSUME ContentInv, CaptureInv, NEW w \in Workers, RestoreFails(w)
  PROVE  ContentInv'
<1> DEFINE d == kept.former
           u == Cleared \o Bring(d)
           t == u \o Write("workset", None)
<1>1. /\ todo'[w] = t /\ todo[w] # << >> /\ UNCHANGED <<disk, kept>> /\ pc'[w] = "reverting"
      /\ d # None /\ \A v \in Workers \ {w} : todo'[v] = todo[v]
  BY DEF RestoreFails, Goto, CaptureInv, TypeInv
<1>2. \A v \in Workers \ {w} : todo'[v] = << >>
  BY <1>1, NextWrite
<1>3. d \in Disk /\ IsWhole(d) /\ Wholes'
  BY <1>1 DEF CaptureInv, TypeInv, ContentInv, Wholes
<1>4. Cleared \in Seq(Unfinishing) /\ Write("workset", None) \in Seq(Idle) /\ Write("workset", None) \in Writes
  BY ClearedUnfinishing, IdleWrites, IdleUnfinishing
<1>5. Bring(d) \in Writes
  BY <1>3, BringIs
<1> HIDE DEF d
<1>6. t \in Seq(Unfinishing) \/ \E m \in Batch : Completes(disk, t, m)
  <2>1. CASE IsComplete(d)
    BY <1>3, <1>4, <2>1, BringCompletes, CompletesBefore
  <2>2. CASE ~IsComplete(d)
    BY <1>3, <1>4, <2>2, BringUnfinishing, IdleUnfinishing, UnfinishingJoined
  <2>3. QED BY <2>1, <2>2
<1>7. IsComplete(disk) => Clears(disk, t)
  <2> SUFFICES ASSUME IsComplete(disk) PROVE Clears(disk, t)
    OBVIOUS
  <2>1. Clears(disk, u)
    BY <1>5, ClearedClears, ClearsJoined
  <2>2. QED BY <1>4, <2>1, ClearsJoined
<1> HIDE DEF t
<1>8. Planned(disk', todo'[w], pc'[w] \in Restoring)
  BY <1>1, <1>6, <1>7 DEF Planned, Restoring
<1>9. QED BY <1>2, <1>3, <1>8, OneMoves

LEMMA StopStays ==
  ASSUME ContentInv, CaptureInv, NEW w \in Workers, Fail(w) \/ Crash(w) \/ RestoreEnds(w)
  PROVE  ContentInv'
<1>1. UNCHANGED disk /\ Leaves(w)
  BY DEF Fail, Crash, RestoreEnds
<1>2. \A v \in Workers : todo'[v] = << >> \/ (todo'[v] = todo[v] /\ pc'[v] = pc[v])
  BY DEF Fail, Crash, RestoreEnds, Goto, CaptureInv, TypeInv
<1>3. kept'.zip = kept.zip /\ kept'.former \in {kept.former, None}
  BY <1>1 DEF Leaves, CaptureInv, TypeInv
<1>4. Same(disk, disk')
  BY <1>1 DEF Same
<1>5. QED BY <1>2, <1>3, <1>4, NoneMoves

LEMMA InitContent == Init => ContentInv
<1> SUFFICES ASSUME Init PROVE ContentInv
  OBVIOUS
<1>1. \A w \in Workers : todo[w] = << >>
  BY DEF Init
<1>2. disk.receipt = None /\ kept.zip = None /\ kept.former = None
  BY DEF Init, Blank
<1>3. Wholes
  BY <1>2 DEF Wholes, IsWhole, IsComplete
<1>4. QED BY <1>1, <1>3, NothingPlanned DEF ContentInv

\* Only a write changes the files that a complete receipt is about.
LEMMA OthersSpare ==
  ASSUME CaptureInv, NEW w \in Workers,
         \/ (Step(w) \/ Start(w)) /\ ~(WriteNext(w) \/ PublishNext(w))
         \/ Restore(w) \/ RestoreEnds(w) \/ Fail(w) \/ Crash(w) \/ RestoreFails(w)
  PROVE  UNCHANGED disk
<1>1. CASE Step(w) /\ ~(WriteNext(w) \/ PublishNext(w))
  BY <1>1 DEF Step, Check, Select, Finish, TakeLease, Contended, Requeue, Release, Unavailable,
     BackOff, SourceChanged, Reserve, Defer, BeginExtraction, Commit, ExtractFails, ExtractRaises,
     Register, Exclude, Quarantine, LockBusy, TryTransition, Section
<1>2. CASE Start(w)
  BY <1>2 DEF Start, RecoverAll, RecoverActive, Audit, Retry, Section
<1>3. CASE Restore(w) \/ RestoreEnds(w) \/ Fail(w) \/ Crash(w) \/ RestoreFails(w)
  BY <1>3 DEF Restore, RestoreEnds, Fail, Crash, RestoreFails, Section
<1>4. QED BY <1>1, <1>2, <1>3

LEMMA StepStays ==
  ASSUME ContentInv, CaptureInv, NEW w \in Workers, Step(w) \/ Start(w), UNCHANGED kept
  PROVE  ContentInv'
<1>1. CASE Step(w)
  <2>1. CASE WriteNext(w) \/ PublishNext(w)
    BY <2>1, WritesStayPlanned
  <2>2. CASE \E batch \in Batch, usage \in Charges : Commit(w, batch, usage)
    BY <2>2, CommitStays
  <2>3. CASE \/ \E from, next : TakeLease(w, from, next)
             \/ \E from : Contended(w, from)
             \/ Release(w)
    BY <2>3, LeaseStays
  <2>4. QED BY <1>1, <2>1, <2>2, <2>3, WaitingStays, RunnerStays, ExtractionStays,
               ScannerStays DEF Step
<1>2. CASE Start(w)
  BY <1>2, RecoveryStays, AuditStays, WaitingStays DEF Start
<1>3. QED BY <1>1, <1>2

LEMMA NextContent ==
  ASSUME ContentInv, CaptureInv, [Next]_vars
  PROVE  ContentInv'
<1>1. CASE Calm
  BY <1>1, StepStays, ClockStays, BackupStays, RestoreStays, StopStays DEF Calm
<1>2. CASE \E w \in Workers : Fail(w) \/ Crash(w) \/ RestoreFails(w)
  BY <1>2, StopStays, RestoreFailsStays
<1>3. CASE UNCHANGED vars
  <2>1. Same(disk, disk')
    BY <1>3 DEF Same, vars
  <2>2. QED BY <1>3, <2>1, NoneMoves DEF vars
<1>4. QED BY <1>1, <1>2, <1>3 DEF Next

LEMMA NextLasts ==
  ASSUME ContentInv, CaptureInv, [Next]_vars,
         IsComplete(disk), \A w \in Workers : pc[w] \notin Restoring
  PROVE  Lasts(disk, disk')
<1>1. disk.manifest \subseteq disk.observations
  BY DEF ContentInv, Wholes, IsWhole
<1>2. UNCHANGED disk => Lasts(disk, disk')
  BY <1>1 DEF Lasts
<1>3. CASE \E w \in Workers : (WriteNext(w) \/ PublishNext(w)) /\ UNCHANGED kept
  BY <1>3, WritesStayPlanned
<1>4. CASE LeaseExpires \/ ConfigChanges
  <2>1. DOMAIN disk = FileNames
    BY DiskHas DEF CaptureInv, TypeInv
  <2>2. QED BY <1>1, <1>4, <2>1 DEF LeaseExpires, ConfigChanges, Lasts, FileNames
<1>5. CASE UNCHANGED disk
  BY <1>2, <1>5
<1>6. CASE Calm
  <2>1. CASE Backup
    BY <1>2, <2>1 DEF Backup
  <2>2. QED BY <1>2, <1>3, <1>4, <1>6, <2>1, OthersSpare DEF Calm, Step
<1>7. CASE \E w \in Workers : Fail(w) \/ Crash(w) \/ RestoreFails(w)
  BY <1>2, <1>7, OthersSpare
<1>8. QED BY <1>5, <1>6, <1>7 DEF Next, vars

\* Nothing but a restore reopens a complete receipt, replaces its manifest or
\* takes one of its observations away.
THEOREM CompleteStaysComplete == Spec => CompleteIsFinal
<1>1. CaptureInv /\ ContentInv /\ [Next]_vars => (CaptureInv /\ ContentInv)'
  BY NextCapture, NextContent
<1>2. CaptureInv /\ ContentInv /\ [Next]_vars =>
        [Complete /\ (\A w \in Workers : pc[w] \notin Restoring)
           => /\ Complete' /\ receipt' = receipt
              /\ disk'.manifest = disk.manifest
              /\ disk.manifest \subseteq disk'.observations]_vars
  <2> SUFFICES ASSUME CaptureInv, ContentInv, [Next]_vars, Complete,
                      \A w \in Workers : pc[w] \notin Restoring
               PROVE  /\ Complete' /\ receipt' = receipt
                      /\ disk'.manifest = disk.manifest
                      /\ disk.manifest \subseteq disk'.observations
    OBVIOUS
  <2>1. IsComplete(disk)
    BY StatusIs DEF CaptureInv, Complete
  <2>2. Lasts(disk, disk')
    BY <2>1, NextLasts
  <2>3. QED BY <2>2 DEF Lasts, Complete, Status, receipt
<1>3. QED BY <1>1, <1>2, InitCapture, InitContent, PTL DEF Spec, CompleteIsFinal

\* Every reader sees all of the batch of a complete receipt, or nothing.
THEOREM ReadersSeeWholeBatches == Spec => []ReadersSeeCommits
<1>1. CaptureInv /\ ContentInv /\ [Next]_vars => (CaptureInv /\ ContentInv)'
  BY NextCapture, NextContent
<1>2. CaptureInv /\ ContentInv => ReadersSeeCommits
  <2> SUFFICES ASSUME CaptureInv, ContentInv PROVE ReadersSeeCommits
    OBVIOUS
  <2>1. Complete <=> IsComplete(disk)
    BY StatusIs DEF CaptureInv, Complete
  <2>2. ManifestValid <=> Complete
    BY <2>1 DEF ContentInv, Wholes, IsWhole, ManifestValid, receipt, Complete
  <2>3. Complete => /\ receipt # None /\ disk.manifest # None /\ disk.ledger = "complete"
                    /\ disk.manifest \subseteq disk.observations
                    /\ receipt.count = Cardinality(disk.manifest)
    BY <2>1 DEF IsComplete, ContentInv, Wholes, IsWhole, receipt
  <2>4. Complete => "invalid_manifest" \notin Diagnostics
    BY <2>2 DEF Diagnostics
  <2>5. QED BY <2>2, <2>3, <2>4 DEF ReadersSeeCommits, Visible, Committed, Reviewable, Complete
<1>3. QED BY <1>1, <1>2, InitCapture, InitContent, PTL DEF Spec

-----------------------------------------------------------------------------
(* Marks: what is unfinished can be found                                  *)

\* The receipt, the ledger and the journal of unfinished work.
Unended(r, l, j) ==
  /\ r # None
  /\ r.status = "extracting" \/ l # r.status \/ (r.status = "complete" /\ j # None)
IsUnended(d) == Unended(d.receipt, d.ledger, d.journal)
IsMarked(d) == d.workset # None /\ d.workset.config = d.config => d.workset.active
IsSafe(d) == IsMarked(d) \/ ~IsUnended(d)

Tracked == {"receipt", "ledger", "journal"}

\* A receipt that an extraction has begun carries its metadata.  A workset is
\* not of a configuration to come.
Agrees(f, v, config) ==
  /\ f = "receipt" /\ v # None => (v.status \in {"extracting", "complete"} => v.bound)
  /\ f = "workset" /\ v # None => v.config <= config
IsFit(d, config) == Agrees("receipt", d.receipt, config) /\ Agrees("workset", d.workset, config)

Marking(x) == (x.file = "active" /\ x.value) \/ (x.file = "workset" /\ x.value = None)
Unmarking(x, config) ==
  \/ x.file = "active" /\ ~x.value
  \/ x.file = "workset" /\ x.value # None /\ x.value.config = config /\ ~x.value.active
Opening(x) == x.file \in {"receipt", "ledger"} \/ (x.file = "journal" /\ x.value # None)

Fit(config) == {x \in WritesOf(FileNames) : x.file # "config" /\ Agrees(x.file, x.value, config)}
Mild(config) == {x \in Fit(config) : ~Unmarking(x, config)}
Sealing(config) == {x \in Fit(config) : x.file \in {"active", "workset"}}
Vacant(config) == {x \in Fit(config) : x.file \notin {"receipt", "active"}}
Untracked(config) == {x \in Fit(config) : x.file \notin Tracked \cup {"active"}}
Staging(config) == {x \in Fit(config) : x.file = "staged"}

\* Nothing is opened before it is marked.
Led(t) == \A i \in 1 .. Len(t) : Opening(t[i]) => \E k \in 1 .. i - 1 : Marking(t[k])
Marks(t) == Led(t) /\ \E k \in 1 .. Len(t) : Marking(t[k])

\* The writes bring file f from u to v.
Ends(t, f, u, v) ==
  \/ u = v /\ \A i \in 1 .. Len(t) : t[i].file # f
  \/ \E k \in 1 .. Len(t) :
       t[k].file = f /\ t[k].value = v /\ \A i \in k + 1 .. Len(t) : t[i].file # f

Closes(d, t) ==
  \E r, l, j : /\ Ends(t, "receipt", d.receipt, r) /\ Ends(t, "ledger", d.ledger, l)
               /\ Ends(t, "journal", d.journal, j) /\ ~Unended(r, l, j)

\* A list that leaves the receipt marked, or retires it at its end.
Minds(d, t) == t \in Seq(Mild(d.config)) /\ (IsMarked(d) \/ Led(t))
Retires(d, t) ==
  \E q \in Seq(Mild(d.config)), y \in Sealing(d.config) :
    t = q \o << y >> /\ Closes(d, q) /\ Minds(d, q)

\* The way back of a restore: the receipt goes first, and comes again when it
\* is not unfinished any more.
Rests(d, t) == ~IsUnended(d) /\ t \in Seq(Untracked(d.config))
Fills(config, l, j, t) ==
  \/ t \in Seq(Vacant(config))
  \/ \E a \in Seq(Vacant(config)), b \in Seq(Untracked(config)), r \in Receipt :
       /\ Around(t, a, r, b) /\ Agrees("receipt", r, config)
       /\ \E l2, j2 : Ends(a, "ledger", l, l2) /\ Ends(a, "journal", j, j2) /\ ~Unended(r, l2, j2)
Empties(config, l, j, t) ==
  \E a \in Seq(Staging(config)), b \in Writes :
    Around(t, a, None, b) /\ Fills(config, l, j, b)
Reverts(d, t) ==
  \/ d.receipt = None /\ Fills(d.config, d.ledger, d.journal, t)
  \/ Empties(d.config, d.ledger, d.journal, t)

Guarded(d, t) == Minds(d, t) \/ Retires(d, t) \/ Rests(d, t) \/ Reverts(d, t)

\* A restore invalidates the workset and brings none.
Invalidating ==
  {x \in WritesOf(FileNames) : x.file # "active" /\ (x.file = "workset" => x.value = None)}
Restores(w) ==
  pc[w] = "restoring" /\ todo[w] # << >> =>
    /\ todo[w] \in Seq(Invalidating)
    /\ kept.former # None => disk.workset \in {kept.former.workset, None}

CopiesFit ==
  /\ kept.zip # None => Agrees("receipt", kept.zip.receipt, disk.config) /\ kept.zip.workset = None
  /\ kept.former # None =>
       /\ IsFit(kept.former, disk.config)
       /\ \/ ~IsUnended(kept.former)
          \/ kept.former.workset # None /\ kept.former.workset.config = disk.config
               => kept.former.workset.active

MarksInv ==
  /\ IsSafe(disk) /\ IsFit(disk, disk.config) /\ CopiesFit
  /\ \A w \in Workers : Guarded(disk, todo[w]) /\ Restores(w)

LEMMA FitIsWritten ==
  ASSUME NEW c
  PROVE  /\ Seq(Fit(c)) \subseteq Writes /\ Seq(Mild(c)) \subseteq Seq(Fit(c))
         /\ Seq(Vacant(c)) \subseteq Seq(Fit(c)) /\ Seq(Untracked(c)) \subseteq Seq(Fit(c))
         /\ Seq(Staging(c)) \subseteq Seq(Fit(c))
<1>1. Fit(c) \subseteq WritesOf(FileNames)
  BY DEF Fit
<1>2. /\ Mild(c) \subseteq Fit(c) /\ Vacant(c) \subseteq Fit(c) /\ Untracked(c) \subseteq Fit(c)
      /\ Staging(c) \subseteq Fit(c)
  BY DEF Mild, Vacant, Untracked, Staging
<1>3. QED BY <1>1, <1>2, Lists DEF Writes

LEMMA TailIs ==
  ASSUME NEW t \in Writes, t # << >>
  PROVE  /\ Tail(t) \in Writes /\ Len(Tail(t)) = Len(t) - 1 /\ Len(t) \in Nat \ {0}
         /\ \A i \in 1 .. Len(Tail(t)) : Tail(t)[i] = t[i + 1] /\ i + 1 \in 1 .. Len(t)
         /\ Head(t) = t[1]
<1>1. /\ Tail(t) \in Writes /\ Len(Tail(t)) = Len(t) - 1 /\ Len(t) \in Nat \ {0}
      /\ \A i \in 1 .. Len(Tail(t)) : Tail(t)[i] = t[i + 1]
  BY HeadTailProperties, EmptySeq DEF Writes
<1>2. QED BY <1>1

LEMMA LedOn ==
  ASSUME NEW t \in Writes, t # << >>, Led(t)
  PROVE  ~Opening(Head(t)) /\ (~Marking(Head(t)) => Led(Tail(t)))
<1>1. /\ Len(Tail(t)) = Len(t) - 1 /\ Len(t) \in Nat \ {0}
      /\ \A i \in 1 .. Len(Tail(t)) : Tail(t)[i] = t[i + 1] /\ i + 1 \in 1 .. Len(t)
      /\ Head(t) = t[1]
  BY TailIs
<1>2. ~Opening(Head(t))
  <2>1. 1 \in 1 .. Len(t) /\ 1 .. 1 - 1 = {}
    BY <1>1
  <2>2. QED BY <1>1, <2>1 DEF Led
<1>3. ASSUME ~Marking(Head(t)), NEW i \in 1 .. Len(Tail(t)), Opening(Tail(t)[i])
      PROVE  \E k \in 1 .. i - 1 : Marking(Tail(t)[k])
  <2>1. PICK k \in 1 .. i + 1 - 1 : Marking(t[k])
    BY <1>1, <1>3 DEF Led
  <2>2. k # 1
    BY <1>1, <1>3, <2>1
  <2>3. k - 1 \in 1 .. i - 1 /\ k - 1 \in 1 .. Len(Tail(t)) /\ (k - 1) + 1 = k
    BY <1>1, <2>2
  <2>4. QED BY <1>1, <2>1, <2>3
<1>4. QED BY <1>2, <1>3 DEF Led

LEMMA EndsOn ==
  ASSUME NEW t \in Writes, t # << >>, NEW f, NEW u, NEW v, Ends(t, f, u, v)
  PROVE  Ends(Tail(t), f, IF Head(t).file = f THEN Head(t).value ELSE u, v)
<1>1. /\ Len(Tail(t)) = Len(t) - 1 /\ Len(t) \in Nat \ {0}
      /\ \A i \in 1 .. Len(Tail(t)) : Tail(t)[i] = t[i + 1] /\ i + 1 \in 1 .. Len(t)
      /\ Head(t) = t[1]
  BY TailIs
<1>2. CASE u = v /\ \A i \in 1 .. Len(t) : t[i].file # f
  <2>1. Head(t).file # f
    <3>1. 1 \in 1 .. Len(t)
      BY <1>1
    <3>2. QED BY <1>1, <1>2, <3>1
  <2>2. QED BY <1>1, <1>2, <2>1 DEF Ends
<1>3. CASE \E k \in 1 .. Len(t) :
             t[k].file = f /\ t[k].value = v /\ \A i \in k + 1 .. Len(t) : t[i].file # f
  <2>1. PICK k \in 1 .. Len(t) :
             t[k].file = f /\ t[k].value = v /\ \A i \in k + 1 .. Len(t) : t[i].file # f
    BY <1>3
  <2>2. \A i \in 1 .. Len(Tail(t)) : i >= k => i + 1 \in k + 1 .. Len(t)
    BY <1>1
  <2>3. \A i \in 1 .. Len(Tail(t)) : i >= k => Tail(t)[i].file # f
    BY <1>1, <2>1, <2>2
  <2>4. CASE k = 1
    <3>1. \A i \in 1 .. Len(Tail(t)) : Tail(t)[i].file # f
      BY <2>3, <2>4
    <3>2. QED BY <1>1, <2>1, <2>4, <3>1 DEF Ends
  <2>5. CASE k # 1
    <3>1. k - 1 \in 1 .. Len(Tail(t)) /\ (k - 1) + 1 = k
      BY <1>1, <2>5
    <3>2. Tail(t)[k - 1] = t[k]
      BY <1>1, <3>1
    <3>3. \A i \in (k - 1) + 1 .. Len(Tail(t)) : i \in 1 .. Len(Tail(t)) /\ i >= k
      BY <1>1, <3>1
    <3>4. QED BY <2>1, <2>3, <3>1, <3>2, <3>3 DEF Ends
  <2>6. QED BY <2>4, <2>5
<1>4. QED BY <1>2, <1>3 DEF Ends

LEMMA NothingEnds ==
  ASSUME NEW f, NEW u, NEW v, Ends(<< >>, f, u, v)
  PROVE  u = v
BY DEF Ends

LEMMA EndsJoined ==
  ASSUME NEW s \in Writes, NEW t \in Writes, NEW f, NEW u, NEW v, NEW z,
         Ends(s, f, u, v), Ends(t, f, v, z)
  PROVE  Ends(s \o t, f, u, z)
<1> DEFINE st == s \o t
<1>1. /\ Len(st) = Len(s) + Len(t) /\ Len(s) \in Nat /\ Len(t) \in Nat
      /\ \A i \in 1 .. Len(s) + Len(t) : st[i] = IF i <= Len(s) THEN s[i] ELSE t[i - Len(s)]
  BY ConcatProperties, LenProperties DEF Writes
<1> HIDE DEF st
<1>2. /\ \A i \in 1 .. Len(s) : i \in 1 .. Len(st) /\ st[i] = s[i]
      /\ \A i \in 1 .. Len(t) : i + Len(s) \in 1 .. Len(st) /\ st[i + Len(s)] = t[i]
      /\ \A i \in 1 .. Len(st) : i > Len(s) => i - Len(s) \in 1 .. Len(t) /\ st[i] = t[i - Len(s)]
  BY <1>1
<1>3. CASE \E k \in 1 .. Len(t) :
             t[k].file = f /\ t[k].value = z /\ \A i \in k + 1 .. Len(t) : t[i].file # f
  <2>1. PICK k \in 1 .. Len(t) :
             t[k].file = f /\ t[k].value = z /\ \A i \in k + 1 .. Len(t) : t[i].file # f
    BY <1>3
  <2>2. \A i \in (k + Len(s)) + 1 .. Len(st) : i \in 1 .. Len(st) /\ i > Len(s) /\ i - Len(s) \in k + 1 .. Len(t)
    BY <1>1
  <2>3. QED BY <1>2, <2>1, <2>2 DEF Ends, st
<1>4. CASE v = z /\ \A i \in 1 .. Len(t) : t[i].file # f
  <2>1. CASE u = v /\ \A i \in 1 .. Len(s) : s[i].file # f
    <3>1. ASSUME NEW i \in 1 .. Len(st) PROVE st[i].file # f
      <4>1. CASE i <= Len(s)
        <5>1. i \in 1 .. Len(s)
          BY <1>1, <4>1
        <5>2. QED BY <1>2, <2>1, <5>1
      <4>2. CASE ~(i <= Len(s))
        <5>1. i > Len(s)
          BY <1>1, <4>2
        <5>2. QED BY <1>2, <1>4, <5>1
      <4>3. QED BY <4>1, <4>2
    <3>2. QED BY <1>4, <2>1, <3>1 DEF Ends, st
  <2>2. CASE \E k \in 1 .. Len(s) :
               s[k].file = f /\ s[k].value = v /\ \A i \in k + 1 .. Len(s) : s[i].file # f
    <3>1. PICK k \in 1 .. Len(s) :
               s[k].file = f /\ s[k].value = v /\ \A i \in k + 1 .. Len(s) : s[i].file # f
      BY <2>2
    <3>2. ASSUME NEW i \in k + 1 .. Len(st) PROVE st[i].file # f
      <4>1. i \in 1 .. Len(st)
        BY <1>1
      <4>2. CASE i <= Len(s)
        <5>1. i \in k + 1 .. Len(s) /\ i \in 1 .. Len(s)
          BY <1>1, <4>2
        <5>2. QED BY <1>2, <3>1, <5>1
      <4>3. CASE ~(i <= Len(s))
        <5>1. i > Len(s)
          BY <1>1, <4>3
        <5>2. QED BY <1>2, <1>4, <4>1, <5>1
      <4>4. QED BY <4>2, <4>3
    <3>3. QED BY <1>2, <1>4, <3>1, <3>2 DEF Ends, st
  <2>3. QED BY <2>1, <2>2 DEF Ends
<1>5. QED BY <1>3, <1>4 DEF Ends

-----------------------------------------------------------------------------
(* One write of a list                                                     *)

Wrote(d, x, e) == \A f \in FileNames : e[f] = IF x.file = f THEN x.value ELSE d[f]

LEMMA WroteIs ==
  ASSUME NEW d, NEW x, NEW e, Wrote(d, x, e)
  PROVE  /\ e.receipt = IF x.file = "receipt" THEN x.value ELSE d.receipt
         /\ e.ledger = IF x.file = "ledger" THEN x.value ELSE d.ledger
         /\ e.journal = IF x.file = "journal" THEN x.value ELSE d.journal
         /\ e.workset = IF x.file = "workset" THEN x.value ELSE d.workset
         /\ e.config = IF x.file = "config" THEN x.value ELSE d.config
BY DEF Wrote, FileNames

LEMMA FitOn ==
  ASSUME NEW d, NEW x \in Fit(d.config), NEW e, Wrote(d, x, e), IsFit(d, d.config)
  PROVE  e.config = d.config /\ IsFit(e, e.config)
<1>1. x.file # "config" /\ Agrees(x.file, x.value, d.config)
  BY DEF Fit
<1>2. e.config = d.config
  BY <1>1, WroteIs
<1>3. Agrees("receipt", e.receipt, d.config) /\ Agrees("workset", e.workset, d.config)
  BY <1>1, WroteIs DEF IsFit
<1>4. QED BY <1>2, <1>3 DEF IsFit

LEMMA MindsOn ==
  ASSUME NEW d, NEW e, NEW t, t # << >>, Minds(d, t), IsSafe(d), Wrote(d, Head(t), e),
         Head(t).file # "active"
  PROVE  IsSafe(e) /\ Minds(e, Tail(t)) /\ Head(t) \in Fit(d.config)
<1> DEFINE x == Head(t)
<1>1. t \in Seq(Mild(d.config)) /\ (IsMarked(d) \/ Led(t))
  BY DEF Minds
<1>2. t \in Writes /\ x \in Mild(d.config) /\ Tail(t) \in Seq(Mild(d.config))
  BY <1>1, FitIsWritten, FirstOf
<1>3. (~Opening(x) /\ (~Marking(x) => Led(Tail(t)))) \/ IsMarked(d)
  BY <1>1, <1>2, LedOn
<1>4. x \in Fit(d.config) /\ ~Unmarking(x, d.config) /\ x.file # "config" /\ x.file # "active"
  BY <1>2 DEF Mild, Fit
<1> HIDE DEF x
<1>5. Wrote(d, x, e)
  BY DEF x
<1>6. e.config = d.config
  BY <1>4, <1>5, WroteIs
<1>7. CASE IsMarked(d)
  <2>1. IsMarked(e)
    BY <1>4, <1>5, <1>7, WroteIs DEF IsMarked, Unmarking
  <2>2. QED BY <1>2, <1>4, <1>6, <2>1 DEF IsSafe, Minds, x
<1>8. CASE ~IsMarked(d)
  <2>1. ~IsUnended(d) /\ ~Opening(x) /\ (~Marking(x) => Led(Tail(t)))
    BY <1>3, <1>8 DEF IsSafe
  <2>2. ~IsUnended(e)
    BY <1>5, <2>1, WroteIs DEF IsUnended, Unended, Opening
  <2>3. Marking(x) => IsMarked(e)
    BY <1>4, <1>5, WroteIs DEF Marking, IsMarked
  <2>4. QED BY <1>2, <1>4, <1>6, <2>1, <2>2, <2>3 DEF IsSafe, Minds, x
<1>9. QED BY <1>7, <1>8

LEMMA ClosesOn ==
  ASSUME NEW d, NEW e, NEW t \in Writes, t # << >>, Closes(d, t), Wrote(d, Head(t), e)
  PROVE  Closes(e, Tail(t))
<1>1. PICK r, l, j : /\ Ends(t, "receipt", d.receipt, r) /\ Ends(t, "ledger", d.ledger, l)
                     /\ Ends(t, "journal", d.journal, j) /\ ~Unended(r, l, j)
  BY DEF Closes
<1>2. /\ Ends(Tail(t), "receipt", e.receipt, r) /\ Ends(Tail(t), "ledger", e.ledger, l)
      /\ Ends(Tail(t), "journal", e.journal, j)
  BY <1>1, EndsOn, WroteIs
<1>3. QED BY <1>1, <1>2 DEF Closes

LEMMA NothingCloses ==
  ASSUME NEW d
  PROVE  Closes(d, << >>) <=> ~IsUnended(d)
BY NothingEnds DEF Closes, Ends, IsUnended

LEMMA LastOf ==
  ASSUME NEW q \in Writes, NEW y \in WritesOf(FileNames)
  PROVE  /\ q \o << y >> # << >> /\ q \o << y >> \in Writes
         /\ q = << >> => Head(q \o << y >>) = y /\ Tail(q \o << y >>) = << >>
         /\ q # << >> => Head(q \o << y >>) = Head(q) /\ Tail(q \o << y >>) = Tail(q) \o << y >>
<1> DEFINE last == << y >>
<1>1. last \in Writes /\ last # << >> /\ Head(last) = y /\ Tail(last) = << >>
  BY Lists DEF Writes
<1> HIDE DEF last
<1>2. CASE q = << >>
  <2>1. q \o last = last
    BY <1>1, <1>2, ConcatEmptySeq DEF Writes
  <2>2. QED BY <1>1, <1>2, <2>1 DEF last
<1>3. CASE q # << >>
  BY <1>1, <1>3, TailOfWrites, Joined DEF last
<1>4. QED BY <1>2, <1>3

LEMMA NothingMinds == \A d : Minds(d, << >>)
<1>1. \A c : << >> \in Seq(Mild(c))
  BY Lists
<1>2. Led(<< >>)
  BY DEF Led
<1>3. QED BY <1>1, <1>2 DEF Minds

LEMMA RetiresOn ==
  ASSUME NEW d, NEW e, NEW t, Retires(d, t), IsSafe(d), Wrote(d, Head(t), e),
         Head(t).file # "active"
  PROVE  IsSafe(e) /\ Guarded(e, Tail(t)) /\ Head(t) \in Fit(d.config)
<1>1. PICK q \in Seq(Mild(d.config)), y \in Sealing(d.config) :
        t = q \o << y >> /\ Closes(d, q) /\ Minds(d, q)
  BY DEF Retires
<1>2. q \in Writes /\ y \in WritesOf(FileNames) /\ y \in Fit(d.config)
  BY FitIsWritten DEF Sealing, Fit
<1>3. CASE q = << >>
  <2>1. Head(t) = y /\ Tail(t) = << >>
    BY <1>1, <1>2, <1>3, LastOf
  <2>2. y.file = "workset" /\ ~IsUnended(d)
    BY <1>1, <1>3, <2>1, NothingCloses DEF Sealing
  <2>3. ~IsUnended(e)
    BY <2>1, <2>2, WroteIs DEF IsUnended
  <2>4. QED BY <1>2, <2>1, <2>3, NothingMinds DEF IsSafe, Guarded
<1>4. CASE q # << >>
  <2>1. Head(t) = Head(q) /\ Tail(t) = Tail(q) \o << y >>
    BY <1>1, <1>2, <1>4, LastOf
  <2>2. IsSafe(e) /\ Minds(e, Tail(q)) /\ Head(q) \in Fit(d.config)
    BY <1>1, <1>4, <2>1, MindsOn
  <2>3. Closes(e, Tail(q))
    BY <1>1, <1>2, <1>4, <2>1, ClosesOn
  <2>4. e.config = d.config /\ Tail(q) \in Seq(Mild(e.config))
    BY <2>1, <2>2, WroteIs DEF Fit, Minds
  <2>5. QED BY <2>1, <2>2, <2>3, <2>4 DEF Guarded, Retires
<1>5. QED BY <1>3, <1>4

LEMMA RestsOn ==
  ASSUME NEW d, NEW e, NEW t, t # << >>, Rests(d, t), Wrote(d, Head(t), e)
  PROVE  IsSafe(e) /\ Guarded(e, Tail(t)) /\ Head(t) \in Fit(d.config) /\ Head(t).file # "active"
<1>1. Head(t) \in Untracked(d.config) /\ Tail(t) \in Seq(Untracked(d.config))
  BY FirstOf DEF Rests
<1>2. /\ Head(t) \in Fit(d.config) /\ Head(t).file \notin {"active", "config"}
      /\ Head(t).file \notin Tracked
  BY <1>1 DEF Untracked, Fit
<1>3. ~IsUnended(e) /\ e.config = d.config
  BY <1>2, WroteIs DEF Rests, IsUnended, Tracked
<1>4. QED BY <1>1, <1>2, <1>3 DEF IsSafe, Guarded, Rests

LEMMA FillsOn ==
  ASSUME NEW d, NEW e, NEW t, t # << >>, d.receipt = None,
         Fills(d.config, d.ledger, d.journal, t), Wrote(d, Head(t), e)
  PROVE  IsSafe(e) /\ Guarded(e, Tail(t)) /\ Head(t) \in Fit(d.config) /\ Head(t).file # "active"
<1> DEFINE x == Head(t)
<1>1. ASSUME NEW a, a # << >>, a \in Seq(Vacant(d.config)), Head(a) = x
      PROVE  /\ Tail(a) \in Seq(Vacant(e.config)) /\ x \in Fit(d.config) /\ x.file # "active"
             /\ e.config = d.config /\ e.receipt = None
  <2>1. x \in Vacant(d.config) /\ Tail(a) \in Seq(Vacant(d.config))
    BY <1>1, FirstOf
  <2>2. x \in Fit(d.config) /\ x.file \notin {"active", "config", "receipt"}
    BY <2>1 DEF Vacant, Fit
  <2> HIDE DEF x
  <2>3. Wrote(d, x, e)
    BY DEF x
  <2>4. e.config = d.config /\ e.receipt = None
    BY <2>2, <2>3, WroteIs
  <2>5. QED BY <2>1, <2>2, <2>4
<1>2. e.receipt = None => IsSafe(e)
  BY DEF IsSafe, IsUnended, Unended
<1>3. CASE t \in Seq(Vacant(d.config))
  BY <1>1, <1>2, <1>3 DEF Guarded, Reverts, Fills
<1>4. CASE t \notin Seq(Vacant(d.config))
  <2>0. PICK a \in Seq(Vacant(d.config)), b \in Seq(Untracked(d.config)), r \in Receipt :
          /\ Around(t, a, r, b) /\ Agrees("receipt", r, d.config)
          /\ \E l, j : /\ Ends(a, "ledger", d.ledger, l) /\ Ends(a, "journal", d.journal, j)
                       /\ ~Unended(r, l, j)
    BY <1>4 DEF Fills
  <2>1. PICK l, j :
          /\ Around(t, a, r, b) /\ Agrees("receipt", r, d.config)
          /\ Ends(a, "ledger", d.ledger, l) /\ Ends(a, "journal", d.journal, j) /\ ~Unended(r, l, j)
    BY <2>0
  <2>2. a \in Writes /\ b \in Writes /\ r \in Receipt \cup {None}
    BY FitIsWritten
  <2>3. /\ a = << >> => x.file = "receipt" /\ x.value = r /\ Tail(t) = b
        /\ a # << >> => x = Head(a) /\ Around(Tail(t), Tail(a), r, b)
        /\ t \in Writes
    BY <2>1, <2>2, Started
  <2>4. x \in WritesOf(FileNames)
    BY <2>3, FirstOf DEF Writes
  <2> HIDE DEF x
  <2>5. Wrote(d, x, e)
    BY DEF x
  <2>6. CASE a = << >>
    <3>1. l = d.ledger /\ j = d.journal
      BY <2>1, <2>6, NothingEnds
    <3>2. e.receipt = r /\ e.ledger = l /\ e.journal = j /\ e.config = d.config
      BY <2>3, <2>5, <2>6, <3>1, WroteIs
    <3>3. x \in Fit(d.config)
      BY <2>1, <2>3, <2>4, <2>6 DEF Fit, Agrees
    <3>4. QED BY <2>1, <2>3, <2>6, <3>2, <3>3 DEF IsSafe, IsUnended, Guarded, Rests, x
  <2>7. CASE a # << >>
    <3>1. /\ Tail(a) \in Seq(Vacant(e.config)) /\ x \in Fit(d.config) /\ x.file # "active"
          /\ e.config = d.config /\ e.receipt = None
      BY <1>1, <2>3, <2>7
    <3>2. Ends(Tail(a), "ledger", e.ledger, l) /\ Ends(Tail(a), "journal", e.journal, j)
      BY <2>1, <2>2, <2>3, <2>5, <2>7, EndsOn, WroteIs
    <3>3. Fills(e.config, e.ledger, e.journal, Tail(t))
      BY <2>1, <2>3, <2>7, <3>1, <3>2 DEF Fills
    <3>4. QED BY <1>2, <3>1, <3>3 DEF Guarded, Reverts, x
  <2>8. QED BY <2>6, <2>7
<1>5. QED BY <1>3, <1>4

LEMMA EmptiesOn ==
  ASSUME NEW d, NEW e, NEW t, IsSafe(d),
         Empties(d.config, d.ledger, d.journal, t), Wrote(d, Head(t), e)
  PROVE  /\ t # << >> /\ IsSafe(e) /\ Guarded(e, Tail(t))
         /\ Head(t) \in Fit(d.config) /\ Head(t).file # "active"
<1> DEFINE x == Head(t)
<1>1. PICK a \in Seq(Staging(d.config)), b \in Writes :
        Around(t, a, None, b) /\ Fills(d.config, d.ledger, d.journal, b)
  BY DEF Empties
<1>2. a \in Writes /\ None \in Receipt \cup {None}
  BY FitIsWritten
<1>3. /\ a = << >> => x.file = "receipt" /\ x.value = None /\ Tail(t) = b
      /\ a # << >> => x = Head(a) /\ Around(Tail(t), Tail(a), None, b)
      /\ t \in Writes /\ t # << >>
  BY <1>1, <1>2, Started
<1>4. x \in WritesOf(FileNames)
  BY <1>3, FirstOf DEF Writes
<1>5. CASE a = << >>
  <2> HIDE DEF x
  <2>1. Wrote(d, x, e)
    BY DEF x
  <2>2. e.receipt = None /\ e.ledger = d.ledger /\ e.journal = d.journal /\ e.config = d.config
    BY <1>3, <1>5, <2>1, WroteIs
  <2>3. x \in Fit(d.config)
    BY <1>3, <1>4, <1>5 DEF Fit, Agrees
  <2>4. QED BY <1>1, <1>3, <1>5, <2>2, <2>3 DEF IsSafe, IsUnended, Unended, Guarded, Reverts, x
<1>6. CASE a # << >>
  <2>1. Head(a) \in Staging(d.config) /\ Tail(a) \in Seq(Staging(d.config))
    BY <1>6, FirstOf
  <2>2. x \in Fit(d.config) /\ x.file = "staged"
    BY <1>3, <1>6, <2>1 DEF Staging
  <2> HIDE DEF x
  <2>3. Wrote(d, x, e)
    BY DEF x
  <2>4. /\ e.receipt = d.receipt /\ e.ledger = d.ledger /\ e.journal = d.journal
        /\ e.config = d.config /\ e.workset = d.workset
    BY <2>2, <2>3, WroteIs
  <2>5. IsSafe(e)
    BY <2>4 DEF IsSafe, IsMarked, IsUnended
  <2>6. Empties(e.config, e.ledger, e.journal, Tail(t))
    BY <1>1, <1>3, <1>6, <2>1, <2>4 DEF Empties
  <2>7. QED BY <1>3, <2>2, <2>5, <2>6 DEF Guarded, Reverts, x
<1>7. QED BY <1>5, <1>6

LEMMA GuardedOn ==
  ASSUME NEW d, NEW e, NEW t, t # << >>, Guarded(d, t), IsSafe(d), Wrote(d, Head(t), e),
         Head(t).file # "active"
  PROVE  IsSafe(e) /\ Guarded(e, Tail(t)) /\ Head(t) \in Fit(d.config)
<1>1. CASE Minds(d, t)
  BY <1>1, MindsOn DEF Guarded
<1>2. CASE Retires(d, t)
  BY <1>2, RetiresOn
<1>3. CASE Rests(d, t)
  BY <1>3, RestsOn
<1>4. CASE Reverts(d, t)
  BY <1>4, FillsOn, EmptiesOn DEF Reverts
<1>5. QED BY <1>1, <1>2, <1>3, <1>4 DEF Guarded

\* What the mark of an active receipt stands for.
IsUsable(d) == d.workset # None /\ d.workset.config = d.config
Republish(d, active) == [file |-> "workset", value |-> [d.workset EXCEPT !.active = active]]
Unsealed(d) == [d EXCEPT !.workset = None]

LEMMA UnsealedIs ==
  ASSUME NEW d \in Disk
  PROVE  LET e == Unsealed(d) IN
         /\ e.receipt = d.receipt /\ e.ledger = d.ledger /\ e.journal = d.journal
         /\ e.config = d.config /\ e.workset = None /\ IsMarked(e)
BY DiskHas DEF Unsealed, IsMarked

LEMMA RepublishIs ==
  ASSUME NEW d \in Disk, IsUsable(d), NEW active \in BOOLEAN
  PROVE  /\ Republish(d, active) \in Sealing(d.config)
         /\ Republish(d, active).file = "workset"
         /\ active => Republish(d, active) \in Mild(d.config)
<1> DEFINE v == [d.workset EXCEPT !.active = active]
           z == Republish(d, active)
<1>1. d.workset \in Workset /\ d.workset.config = d.config /\ d.config \in Nat
  BY DiskHas, CaptureAssumption DEF IsUsable
<1>2. v \in Workset /\ v.config = d.config /\ v.active = active
  BY <1>1 DEF Workset
<1>3. v # None => v.config <= d.config
  BY <1>1, <1>2
<1> HIDE DEF v
<1>4. z.file = "workset" /\ z.value = v
  BY DEF Republish, v
<1>5. z \in WritesOf(FileNames)
  <2>1. "workset" \in FileNames /\ v \in Contents["workset"]
    BY <1>2 DEF FileNames, Contents
  <2>2. QED BY <2>1, IsWrite DEF Republish, v
<1> HIDE DEF z
<1>6. z \in Fit(d.config)
  BY <1>3, <1>4, <1>5 DEF Fit, Agrees
<1>7. z \in Sealing(d.config)
  BY <1>4, <1>6 DEF Sealing
<1>8. active => z \in Mild(d.config)
  BY <1>2, <1>4, <1>6 DEF Mild, Unmarking
<1>9. QED BY <1>4, <1>7, <1>8 DEF z

\* The mark of an active receipt is published, or is there already.
LEMMA MindsPublished ==
  ASSUME NEW d \in Disk, NEW t, t # << >>, Minds(d, t), Head(t).file = "active"
  PROVE  /\ Head(t).value = TRUE
         /\ ~IsUsable(d) \/ d.workset.active => Minds(d, Tail(t))
         /\ IsUsable(d) => Minds(Unsealed(d), << Republish(d, TRUE) >> \o Tail(t))
<1>1. t \in Writes /\ Head(t) \in Mild(d.config) /\ Tail(t) \in Seq(Mild(d.config))
  BY FitIsWritten, FirstOf DEF Minds
<1>2. Head(t).value = TRUE
  <2>1. Head(t) \in WritesOf(FileNames) /\ ~Unmarking(Head(t), d.config)
    BY <1>1 DEF Mild, Fit
  <2>2. Head(t).value \in BOOLEAN
    BY <2>1, WriteIs
  <2>3. QED BY <2>1, <2>2 DEF Unmarking
<1>3. ~IsUsable(d) \/ d.workset.active => IsMarked(d)
  BY DEF IsUsable, IsMarked
<1>4. ASSUME IsUsable(d) PROVE Minds(Unsealed(d), << Republish(d, TRUE) >> \o Tail(t))
  <2>1. Republish(d, TRUE) \in Mild(d.config)
    BY <1>4, RepublishIs
  <2>2. << Republish(d, TRUE) >> \o Tail(t) \in Seq(Mild(d.config))
    BY <1>1, <2>1, Lists
  <2>3. QED BY <2>2, UnsealedIs DEF Minds
<1>5. QED BY <1>1, <1>2, <1>3, <1>4 DEF Minds

LEMMA ClosesPublished ==
  ASSUME NEW d \in Disk, NEW t \in Writes, Closes(d, t), NEW y \in WritesOf(FileNames),
         y.file = "workset"
  PROVE  Closes(Unsealed(d), << y >> \o t)
<1>1. PICK r, l, j : /\ Ends(t, "receipt", d.receipt, r) /\ Ends(t, "ledger", d.ledger, l)
                     /\ Ends(t, "journal", d.journal, j) /\ ~Unended(r, l, j)
  BY DEF Closes
<1> DEFINE s == << y >>
<1>2. s \in Writes
  BY Lists DEF Writes
<1>3. \A f \in Tracked : \A u : Ends(s, f, u, u)
  <2>1. Len(s) = 1 /\ s[1] = y
    OBVIOUS
  <2> HIDE DEF s
  <2>2. \A i \in 1 .. Len(s) : s[i] = y
    BY <2>1
  <2>3. QED BY <2>2 DEF Tracked, Ends
<1> HIDE DEF s
<1>4. /\ Ends(s \o t, "receipt", d.receipt, r) /\ Ends(s \o t, "ledger", d.ledger, l)
      /\ Ends(s \o t, "journal", d.journal, j)
  BY <1>1, <1>2, <1>3, EndsJoined DEF Tracked
<1>5. QED BY <1>1, <1>4, UnsealedIs DEF Closes, s

LEMMA RetiresPublished ==
  ASSUME NEW d \in Disk, NEW t, Retires(d, t), Head(t).file = "active"
  PROVE  /\ ~IsUsable(d) \/ d.workset.active = Head(t).value => Guarded(d, Tail(t))
         /\ IsUsable(d) => Guarded(Unsealed(d), << Republish(d, Head(t).value) >> \o Tail(t))
<1>1. PICK q \in Seq(Mild(d.config)), y \in Sealing(d.config) :
        t = q \o << y >> /\ Closes(d, q) /\ Minds(d, q)
  BY DEF Retires
<1>2. q \in Writes /\ y \in WritesOf(FileNames)
  BY FitIsWritten DEF Sealing, Fit
<1>3. CASE q = << >>
  <2>1. Head(t) = y /\ Tail(t) = << >>
    BY <1>1, <1>2, <1>3, LastOf
  <2>2. ASSUME IsUsable(d)
        PROVE  Guarded(Unsealed(d), << Republish(d, Head(t).value) >> \o Tail(t))
    <3> DEFINE e == Unsealed(d)
               z == Republish(d, Head(t).value)
    <3>1. Head(t).value \in BOOLEAN
      BY <1>2, <2>1, WriteIs
    <3>2. z \in Sealing(d.config) /\ z \in WritesOf(FileNames)
      BY <2>2, <3>1, RepublishIs DEF Sealing, Fit
    <3>3. e.config = d.config /\ (IsUnended(e) <=> IsUnended(d))
      BY UnsealedIs DEF IsUnended
    <3> HIDE DEF e, z
    <3>4. Closes(e, << >>) /\ Minds(e, << >>) /\ << >> \in Seq(Mild(e.config))
      BY <1>1, <1>3, <3>3, NothingCloses, NothingMinds, Lists
    <3> DEFINE last == << z >>
    <3>5. last \in Writes
      BY <3>2, Lists DEF Writes
    <3> HIDE DEF last
    <3>6. last \o << >> = << >> \o last
      BY <3>5, ConcatEmptySeq DEF Writes
    <3>7. Retires(e, last \o << >>)
      BY <3>2, <3>3, <3>4, <3>6 DEF Retires, last
    <3>8. QED BY <2>1, <3>7 DEF Guarded, e, z, last
  <2>3. QED BY <2>1, <2>2, NothingMinds DEF Guarded
<1>4. CASE q # << >>
  <2>1. Head(t) = Head(q) /\ Tail(t) = Tail(q) \o << y >>
    BY <1>1, <1>2, <1>4, LastOf
  <2>2. /\ Head(t).value = TRUE
        /\ ~IsUsable(d) \/ d.workset.active => Minds(d, Tail(q))
        /\ IsUsable(d) => Minds(Unsealed(d), << Republish(d, TRUE) >> \o Tail(q))
    BY <1>1, <1>4, <2>1, MindsPublished
  <2>3. Wrote(d, Head(q), d)
    BY <2>1 DEF Wrote, FileNames
  <2>4. Closes(d, Tail(q)) /\ Tail(q) \in Writes
    BY <1>1, <1>2, <1>4, <2>3, ClosesOn, TailIs
  <2>5. ASSUME ~IsUsable(d) \/ d.workset.active = Head(t).value PROVE Guarded(d, Tail(t))
    <3>1. Minds(d, Tail(q))
      BY <2>2, <2>5
    <3>2. QED BY <1>1, <2>1, <2>4, <3>1 DEF Guarded, Retires, Minds
  <2>6. ASSUME IsUsable(d)
        PROVE  Guarded(Unsealed(d), << Republish(d, Head(t).value) >> \o Tail(t))
    <3> DEFINE e == Unsealed(d)
               s == << Republish(d, TRUE) >>
    <3>1. Republish(d, TRUE) \in WritesOf(FileNames) /\ Republish(d, TRUE).file = "workset"
      BY <2>6, RepublishIs DEF Sealing, Fit
    <3>2. s \in Writes /\ << y >> \in Writes
      BY <1>2, <3>1, Lists DEF Writes
    <3>3. Closes(e, s \o Tail(q)) /\ Minds(e, s \o Tail(q))
      BY <2>2, <2>4, <2>6, <3>1, ClosesPublished
    <3>4. e.config = d.config
      BY UnsealedIs
    <3> HIDE DEF e, s
    <3>5. s \o (Tail(q) \o << y >>) = (s \o Tail(q)) \o << y >>
      BY <2>4, <3>2, Regrouped
    <3>6. Retires(e, s \o Tail(t))
      BY <1>1, <2>1, <3>3, <3>4, <3>5 DEF Retires, Minds
    <3>7. QED BY <2>2, <3>6 DEF Guarded, e, s
  <2>7. QED BY <2>5, <2>6
<1>5. QED BY <1>3, <1>4

LEMMA GuardedPublished ==
  ASSUME NEW d \in Disk, NEW t, t # << >>, Guarded(d, t), IsSafe(d), Head(t).file = "active"
  PROVE  /\ ~IsUsable(d) \/ d.workset.active = Head(t).value => Guarded(d, Tail(t))
         /\ IsUsable(d) => Guarded(Unsealed(d), << Republish(d, Head(t).value) >> \o Tail(t))
<1>1. Wrote(d, Head(t), d)
  BY DEF Wrote, FileNames
<1>2. ~Rests(d, t) /\ ~Reverts(d, t)
  BY <1>1, RestsOn, FillsOn, EmptiesOn DEF Reverts
<1>3. CASE Minds(d, t)
  BY <1>3, MindsPublished DEF Guarded
<1>4. CASE Retires(d, t)
  BY <1>4, RetiresPublished
<1>5. QED BY <1>2, <1>3, <1>4 DEF Guarded

-----------------------------------------------------------------------------
(* A configuration to come                                                 *)

LEMMA AgreesLater ==
  ASSUME NEW c \in Nat, NEW n \in Nat, c <= n, NEW f \in {"receipt", "workset"},
         NEW v \in Contents[f], Agrees(f, v, c)
  PROVE  Agrees(f, v, n)
<1>1. f = "workset" /\ v # None => v.config \in Nat
  BY CaptureAssumption DEF Contents, Workset
<1>2. QED BY <1>1 DEF Agrees

LEMMA FitLater ==
  ASSUME NEW c \in Nat, NEW n \in Nat, c <= n
  PROVE  /\ Seq(Mild(c)) \subseteq Seq(Mild(n)) /\ Sealing(c) \subseteq Sealing(n)
         /\ Seq(Vacant(c)) \subseteq Seq(Vacant(n)) /\ Seq(Untracked(c)) \subseteq Seq(Untracked(n))
         /\ Seq(Staging(c)) \subseteq Seq(Staging(n))
<1>1. ASSUME NEW x \in Fit(c) PROVE x \in Fit(n)
  <2>1. x \in WritesOf(FileNames) /\ x.file # "config" /\ Agrees(x.file, x.value, c)
    BY DEF Fit
  <2>2. Agrees(x.file, x.value, n)
    <3>1. CASE x.file \in {"receipt", "workset"}
      <4>1. x.value \in Contents[x.file]
        BY <2>1, <3>1, WriteIs
      <4>2. QED BY <2>1, <3>1, <4>1, AgreesLater
    <3>2. CASE x.file \notin {"receipt", "workset"}
      BY <3>2 DEF Agrees
    <3>3. QED BY <3>1, <3>2
  <2>3. QED BY <2>1, <2>2 DEF Fit
<1>2. ASSUME NEW x \in Mild(c) PROVE x \in Mild(n)
  <2>1. x \in Fit(c) /\ ~Unmarking(x, c)
    BY DEF Mild
  <2>2. x.file = "workset" /\ x.value # None => x.value.config \in Nat /\ x.value.config <= c
    <3>1. x.file = "workset" => x.value \in Workset \cup {None}
      BY <2>1, WriteIs DEF Fit, Contents
    <3>2. QED BY <2>1, <3>1, CaptureAssumption DEF Fit, Agrees, Workset
  <2>3. ~Unmarking(x, n)
    BY <2>1, <2>2 DEF Unmarking
  <2>4. QED BY <1>1, <2>1, <2>3 DEF Mild
<1>3. /\ Mild(c) \subseteq Mild(n) /\ Sealing(c) \subseteq Sealing(n) /\ Vacant(c) \subseteq Vacant(n)
      /\ Untracked(c) \subseteq Untracked(n) /\ Staging(c) \subseteq Staging(n)
  BY <1>1, <1>2 DEF Sealing, Vacant, Untracked, Staging
<1>4. QED BY <1>3, Lists

\* Nothing that is tracked has moved, and the configuration has not gone back.
Later(d, e) ==
  /\ e.receipt = d.receipt /\ e.ledger = d.ledger /\ e.journal = d.journal
  /\ e.workset = d.workset /\ d.config <= e.config

LEMMA SafeLater ==
  ASSUME NEW d \in Disk, NEW e \in Disk, Later(d, e), IsFit(d, d.config)
  PROVE  /\ IsMarked(d) => IsMarked(e)
         /\ IsSafe(d) => IsSafe(e)
         /\ IsFit(e, e.config)
         /\ IsUnended(e) <=> IsUnended(d)
<1>1. d.config \in Nat /\ e.config \in Nat /\ (d.workset # None => d.workset.config \in Nat)
  BY DiskHas, CaptureAssumption DEF Workset
<1>2. d.workset # None => d.workset.config <= d.config
  BY DEF IsFit, Agrees
<1>3. IsMarked(d) => IsMarked(e)
  BY <1>1, <1>2 DEF IsMarked, Later
<1>4. IsUnended(e) <=> IsUnended(d)
  BY DEF IsUnended, Later
<1>5. IsFit(e, e.config)
  BY <1>1 DEF IsFit, Agrees, Later
<1>6. QED BY <1>3, <1>4, <1>5 DEF IsSafe

LEMMA GuardedLater ==
  ASSUME NEW d \in Disk, NEW e \in Disk, Later(d, e), IsFit(d, d.config), NEW t, Guarded(d, t)
  PROVE  Guarded(e, t)
<1>1. d.config \in Nat /\ e.config \in Nat /\ d.config <= e.config
  BY DiskHas, CaptureAssumption DEF Later
<1>2. /\ Seq(Mild(d.config)) \subseteq Seq(Mild(e.config)) /\ Sealing(d.config) \subseteq Sealing(e.config)
      /\ Seq(Vacant(d.config)) \subseteq Seq(Vacant(e.config))
      /\ Seq(Untracked(d.config)) \subseteq Seq(Untracked(e.config))
      /\ Seq(Staging(d.config)) \subseteq Seq(Staging(e.config))
  BY <1>1, FitLater
<1>3. \A q : Minds(d, q) => Minds(e, q)
  BY <1>2, SafeLater DEF Minds
<1>4. \A q : Closes(d, q) => Closes(e, q)
  BY DEF Closes, Later
<1>5. Retires(d, t) => Retires(e, t)
  BY <1>2, <1>3, <1>4 DEF Retires
<1>6. Rests(d, t) => Rests(e, t)
  BY <1>2, SafeLater DEF Rests
<1>7. \A r \in Receipt : Agrees("receipt", r, d.config) => Agrees("receipt", r, e.config)
  BY DEF Agrees
<1>8. \A l, j, q : Fills(d.config, l, j, q) => Fills(e.config, l, j, q)
  <2> SUFFICES ASSUME NEW l, NEW j, NEW q, Fills(d.config, l, j, q) PROVE Fills(e.config, l, j, q)
    OBVIOUS
  <2>1. CASE q \in Seq(Vacant(d.config))
    BY <1>2, <2>1 DEF Fills
  <2>2. CASE q \notin Seq(Vacant(d.config))
    <3>1. PICK a \in Seq(Vacant(d.config)), b \in Seq(Untracked(d.config)), r \in Receipt :
            /\ Around(q, a, r, b) /\ Agrees("receipt", r, d.config)
            /\ \E l2, j2 : /\ Ends(a, "ledger", l, l2) /\ Ends(a, "journal", j, j2)
                           /\ ~Unended(r, l2, j2)
      BY <2>2 DEF Fills
    <3>2. a \in Seq(Vacant(e.config)) /\ b \in Seq(Untracked(e.config))
      BY <1>2
    <3>3. QED BY <1>7, <3>1, <3>2 DEF Fills
  <2>3. QED BY <2>1, <2>2
<1>9. Empties(d.config, d.ledger, d.journal, t) => Empties(e.config, e.ledger, e.journal, t)
  <2> SUFFICES ASSUME Empties(d.config, d.ledger, d.journal, t)
               PROVE  Empties(e.config, e.ledger, e.journal, t)
    OBVIOUS
  <2>1. PICK a \in Seq(Staging(d.config)), b \in Writes :
          Around(t, a, None, b) /\ Fills(d.config, d.ledger, d.journal, b)
    BY DEF Empties
  <2>2. a \in Seq(Staging(e.config)) /\ Fills(e.config, e.ledger, e.journal, b)
    BY <1>2, <1>8, <2>1 DEF Later
  <2>3. QED BY <2>1, <2>2 DEF Empties
<1>10. Reverts(d, t) => Reverts(e, t)
  BY <1>8, <1>9 DEF Reverts, Later
<1>11. QED BY <1>3, <1>5, <1>6, <1>10 DEF Guarded

-----------------------------------------------------------------------------
(* Writes, clocks and ends                                                 *)

LEMMA CopiesLater ==
  ASSUME CopiesFit, TypeInv, disk' \in Disk, disk.config <= disk'.config,
         kept'.zip = kept.zip, kept'.former \in {kept.former, None}
  PROVE  CopiesFit'
<1>1. disk.config \in Nat /\ disk'.config \in Nat
  BY DiskHas, CaptureAssumption DEF TypeInv
<1>2. kept.former # None => kept.former \in Disk
  BY DEF TypeInv
<1>3. kept.former # None /\ kept.former.workset # None =>
        kept.former.workset.config \in Nat /\ kept.former.workset.config <= disk.config
  <2>1. kept.former # None /\ kept.former.workset # None => kept.former.workset \in Workset
    BY <1>2, DiskHas
  <2>2. QED BY <2>1, CaptureAssumption DEF Workset, CopiesFit, IsFit, Agrees
<1>4. kept.former # None => IsFit(kept.former, disk'.config)
  BY <1>1, <1>3 DEF CopiesFit, IsFit, Agrees
<1>5. kept.former # None /\ IsUnended(kept.former)
        /\ kept.former.workset # None /\ kept.former.workset.config = disk'.config
          => kept.former.workset.active
  BY <1>1, <1>3 DEF CopiesFit
<1>6. kept.zip # None => Agrees("receipt", kept.zip.receipt, disk'.config) /\ kept.zip.workset = None
  BY DEF CopiesFit, Agrees
<1>7. QED BY <1>4, <1>5, <1>6 DEF CopiesFit

LEMMA OneMarks ==
  ASSUME IsSafe(disk'), IsFit(disk', disk'.config), CopiesFit', NEW w \in Workers,
         Guarded(disk', todo'[w]), Restores(w)', \A v \in Workers \ {w} : todo'[v] = << >>
  PROVE  MarksInv'
<1>1. \A v \in Workers \ {w} : Guarded(disk', todo'[v]) /\ Restores(v)'
  BY NothingMinds DEF Guarded, Restores
<1>2. QED BY <1>1 DEF MarksInv

LEMMA WriteMarks ==
  ASSUME MarksInv, CaptureInv, NEW w \in Workers, WriteNext(w), UNCHANGED kept
  PROVE  MarksInv'
<1> DEFINE t == todo[w]
           x == Head(t)
<1>1. /\ t # << >> /\ t \in Writes /\ x.file # "active"
      /\ todo'[w] = Tail(t) /\ UNCHANGED <<pc, kept>>
      /\ disk \in Disk /\ disk' = [disk EXCEPT ![x.file] = x.value]
      /\ \A v \in Workers \ {w} : todo'[v] = << >>
  BY NextWrite DEF WriteNext, CaptureInv, TypeInv
<1>2. disk' \in Disk
  BY WriteKeeps DEF CaptureInv, TypeInv
<1>3. Wrote(disk, x, disk')
  <2>1. DOMAIN disk = FileNames
    BY <1>1, DiskHas
  <2>2. QED BY <1>1, <2>1 DEF Wrote
<1>4. IsSafe(disk') /\ Guarded(disk', Tail(t)) /\ x \in Fit(disk.config)
  BY <1>1, <1>3, GuardedOn DEF MarksInv
<1>5. disk'.config = disk.config /\ IsFit(disk', disk'.config)
  BY <1>3, <1>4, FitOn DEF MarksInv
<1>6. CopiesFit'
  <2>1. disk.config \in Nat
    BY <1>1, DiskHas, CaptureAssumption
  <2>2. QED BY <1>1, <1>2, <1>5, <2>1, CopiesLater DEF MarksInv, CaptureInv
<1>7. Restores(w)'
  <2> SUFFICES ASSUME pc[w] = "restoring"
               PROVE  /\ Tail(t) \in Seq(Invalidating)
                      /\ kept.former # None => disk'.workset \in {kept.former.workset, None}
    BY <1>1 DEF Restores
  <2>1. /\ t \in Seq(Invalidating)
        /\ kept.former # None => disk.workset \in {kept.former.workset, None}
    BY <1>1 DEF MarksInv, Restores
  <2>2. x \in Invalidating /\ Tail(t) \in Seq(Invalidating)
    BY <1>1, <2>1, FirstOf
  <2> HIDE DEF x
  <2>3. disk'.workset \in {disk.workset, None}
    BY <1>3, <2>2, WroteIs DEF Invalidating
  <2>4. QED BY <2>1, <2>2, <2>3
<1>8. QED BY <1>1, <1>4, <1>5, <1>6, <1>7, OneMarks

LEMMA PublishMarks ==
  ASSUME MarksInv, CaptureInv, NEW w \in Workers, PublishNext(w), UNCHANGED kept
  PROVE  MarksInv'
<1> DEFINE t == todo[w]
           x == Head(t)
<1>1. /\ t # << >> /\ t \in Writes /\ x.file = "active" /\ disk \in Disk
      /\ UNCHANGED <<pc, kept>> /\ \A v \in Workers \ {w} : todo'[v] = << >>
  BY NextWrite DEF PublishNext, CaptureInv, TypeInv
<1>2. disk' \in Disk
  BY PublishKeeps DEF CaptureInv, TypeInv
<1>3. /\ ~IsUsable(disk) \/ disk.workset.active = x.value => Guarded(disk, Tail(t))
      /\ IsUsable(disk) => Guarded(Unsealed(disk), << Republish(disk, x.value) >> \o Tail(t))
  BY <1>1, GuardedPublished DEF MarksInv
<1>4. /\ IsSafe(disk') /\ disk'.config = disk.config /\ IsFit(disk', disk'.config)
      /\ Guarded(disk', todo'[w])
  <2>1. CASE ~IsUsable(disk) \/ disk.workset.active = x.value
    <3>1. disk' = disk /\ todo'[w] = Tail(t)
      BY <2>1 DEF PublishNext, Usable, IsUsable, CaptureInv, TypeInv
    <3>2. QED BY <1>3, <2>1, <3>1 DEF MarksInv
  <2>2. CASE IsUsable(disk) /\ disk.workset.active # x.value
    <3>1. disk' = Unsealed(disk)
      BY <2>2 DEF PublishNext, Usable, IsUsable, Unsealed
    <3>2. todo'[w] = << Republish(disk, x.value) >> \o Tail(t)
      BY <2>2 DEF PublishNext, Usable, IsUsable, Republish, Write, CaptureInv, TypeInv
    <3>3. IsFit(disk', disk'.config) /\ disk'.config = disk.config /\ IsSafe(disk')
      BY <1>1, <3>1, UnsealedIs DEF MarksInv, IsFit, Agrees, IsSafe
    <3>4. QED BY <1>3, <2>2, <3>1, <3>2, <3>3
  <2>3. QED BY <2>1, <2>2
<1>5. CopiesFit'
  <2>1. disk.config \in Nat
    BY <1>1, DiskHas, CaptureAssumption
  <2>2. QED BY <1>1, <1>2, <1>4, <2>1, CopiesLater DEF MarksInv, CaptureInv
<1>6. pc[w] # "restoring"
  <2>1. x \in Invalidating => x.file # "active"
    BY DEF Invalidating
  <2>2. QED BY <1>1, <2>1, FirstOf DEF MarksInv, Restores
<1>7. QED BY <1>1, <1>4, <1>5, <1>6, OneMarks DEF Restores

\* Nothing moves but a clock, the configuration or a process that stops.
LEMMA QuietMarks ==
  ASSUME MarksInv, CaptureInv, disk' \in Disk, Later(disk, disk'), CopiesFit',
         kept'.former \in {kept.former, None},
         \A v \in Workers : \/ todo'[v] = << >>
                            \/ todo'[v] = todo[v] /\ pc'[v] = pc[v]
  PROVE  MarksInv'
<1>1. disk \in Disk /\ IsFit(disk, disk.config) /\ IsSafe(disk)
  BY DEF MarksInv, CaptureInv, TypeInv
<1>2. IsSafe(disk') /\ IsFit(disk', disk'.config)
  BY <1>1, SafeLater
<1>3. ASSUME NEW v \in Workers PROVE Guarded(disk', todo'[v]) /\ Restores(v)'
  <2>1. CASE todo'[v] = << >>
    BY <2>1, NothingMinds DEF Guarded, Restores
  <2>2. CASE todo'[v] = todo[v] /\ pc'[v] = pc[v]
    <3>1. Guarded(disk, todo[v]) /\ Restores(v)
      BY DEF MarksInv
    <3>2. Guarded(disk', todo[v])
      BY <1>1, <3>1, GuardedLater
    <3>3. Restores(v)'
      BY <2>2, <3>1 DEF Restores, Later
    <3>4. QED BY <2>2, <3>2, <3>3
  <2>3. QED BY <2>1, <2>2
<1>4. QED BY <1>2, <1>3 DEF MarksInv

LEMMA ClockMarks ==
  ASSUME MarksInv, CaptureInv, ConfigReturns = FALSE, LeaseExpires \/ ConfigChanges, UNCHANGED kept
  PROVE  MarksInv'
<1>1. disk \in Disk /\ disk' \in Disk
  BY ClockKeeps DEF CaptureInv, TypeInv
<1>2. Later(disk, disk')
  <2>1. disk.config \in Nat
    BY <1>1, DiskHas, CaptureAssumption
  <2>2. CASE LeaseExpires
    BY <1>1, <2>1, <2>2 DEF LeaseExpires, Later, Disk
  <2>3. CASE ConfigChanges
    <3>1. PICK c \in 1 .. MaxConfig : c > disk.config /\ disk' = [disk EXCEPT !.config = c]
      BY <2>3 DEF ConfigChanges
    <3>2. QED BY <1>1, <2>1, <3>1 DEF Later, Disk
  <2>4. QED BY <2>2, <2>3
<1>3. CopiesFit'
  BY <1>1, <1>2, CopiesLater DEF MarksInv, CaptureInv, Later
<1>4. QED BY <1>1, <1>2, <1>3, QuietMarks DEF LeaseExpires, ConfigChanges

LEMMA StopMarks ==
  ASSUME MarksInv, CaptureInv, NEW w \in Workers, Fail(w) \/ Crash(w) \/ RestoreEnds(w)
  PROVE  MarksInv'
<1>1. UNCHANGED disk /\ Leaves(w) /\ disk \in Disk
  BY DEF Fail, Crash, RestoreEnds, CaptureInv, TypeInv
<1>2. \A v \in Workers : todo'[v] = << >> \/ (todo'[v] = todo[v] /\ pc'[v] = pc[v])
  BY DEF Fail, Crash, RestoreEnds, Goto, CaptureInv, TypeInv
<1>3. kept'.zip = kept.zip /\ kept'.former \in {kept.former, None}
  BY <1>1 DEF Leaves, CaptureInv, TypeInv
<1>4. Later(disk, disk')
  BY <1>1, DiskHas, CaptureAssumption DEF Later
<1>5. CopiesFit'
  BY <1>1, <1>3, <1>4, CopiesLater DEF MarksInv, CaptureInv, Later
<1>6. QED BY <1>1, <1>2, <1>3, <1>4, <1>5, QuietMarks

-----------------------------------------------------------------------------
(* Lists that are put together                                             *)

Mildly(t) == t \in Seq(Mild(disk.config))
Tame(t) == Mildly(t) /\ Led(t)

\* The writes turn receipt, ledger and journal from u into v.
Turns(t, u, v) ==
  Ends(t, "receipt", u[1], v[1]) /\ Ends(t, "ledger", u[2], v[2]) /\ Ends(t, "journal", u[3], v[3])

TrackedNow == << disk.receipt, disk.ledger, disk.journal >>

LEMMA LedJoined ==
  ASSUME NEW s \in Writes, NEW t \in Writes, Led(s), Led(t) \/ Marks(s)
  PROVE  Led(s \o t) /\ (Marks(s) \/ Marks(t) => Marks(s \o t))
<1> DEFINE st == s \o t
<1>1. /\ Len(st) = Len(s) + Len(t) /\ Len(s) \in Nat /\ Len(t) \in Nat
      /\ \A i \in 1 .. Len(s) + Len(t) : st[i] = IF i <= Len(s) THEN s[i] ELSE t[i - Len(s)]
  BY ConcatProperties, LenProperties DEF Writes
<1> HIDE DEF st
<1>2. /\ \A i \in 1 .. Len(s) : i \in 1 .. Len(st) /\ st[i] = s[i]
      /\ \A i \in 1 .. Len(t) : i + Len(s) \in 1 .. Len(st) /\ st[i + Len(s)] = t[i]
      /\ \A i \in 1 .. Len(st) : i > Len(s) => i - Len(s) \in 1 .. Len(t) /\ st[i] = t[i - Len(s)]
  BY <1>1
<1>3. Marks(s) \/ Marks(t) => \E k \in 1 .. Len(st) : Marking(st[k])
  BY <1>2 DEF Marks
<1>4. ASSUME NEW i \in 1 .. Len(st), Opening(st[i]) PROVE \E k \in 1 .. i - 1 : Marking(st[k])
  <2>1. CASE i <= Len(s)
    <3>1. i \in 1 .. Len(s)
      BY <1>1, <2>1
    <3>2. PICK k \in 1 .. i - 1 : Marking(s[k])
      BY <1>2, <1>4, <3>1 DEF Led
    <3>3. k \in 1 .. Len(s)
      BY <1>1, <2>1, <3>1, <3>2
    <3>4. QED BY <1>2, <3>2, <3>3
  <2>2. CASE ~(i <= Len(s))
    <3>1. i > Len(s) /\ i - Len(s) \in 1 .. Len(t) /\ Opening(t[i - Len(s)])
      BY <1>1, <1>2, <1>4, <2>2
    <3>2. CASE Marks(s)
      <4>1. PICK k \in 1 .. Len(s) : Marking(s[k])
        BY <3>2 DEF Marks
      <4>2. k \in 1 .. i - 1
        BY <1>1, <3>1, <4>1
      <4>3. QED BY <1>2, <4>1, <4>2
    <3>3. CASE Led(t)
      <4>1. PICK k \in 1 .. (i - Len(s)) - 1 : Marking(t[k])
        BY <3>1, <3>3 DEF Led
      <4>2. k \in 1 .. Len(t) /\ k + Len(s) \in 1 .. i - 1
        BY <1>1, <3>1, <4>1
      <4>3. QED BY <1>2, <4>1, <4>2
    <3>4. QED BY <3>2, <3>3
  <2>3. QED BY <2>1, <2>2
<1>5. Led(st)
  BY <1>4 DEF Led
<1>6. QED BY <1>3, <1>5 DEF Marks, st

LEMMA MildJoined ==
  /\ Tame(<< >>) /\ \A t : Mildly(t) => t \in Writes
  /\ \A s, t : Mildly(s) /\ Mildly(t) => Mildly(s \o t)
  /\ \A s, t : Tame(s) /\ Tame(t) => Tame(s \o t)
  /\ \A s, t : Mildly(s) /\ Mildly(t) /\ Marks(s) => Tame(s \o t) /\ Marks(s \o t)
  /\ \A s, t : Tame(s) /\ Mildly(t) /\ Marks(t) => Tame(s \o t) /\ Marks(s \o t)
<1>1. \A t : Mildly(t) => t \in Writes
  BY FitIsWritten DEF Mildly
<1>2. \A s, t : Mildly(s) /\ Mildly(t) => Mildly(s \o t)
  BY Lists DEF Mildly
<1>3. Tame(<< >>)
  BY Lists DEF Tame, Mildly, Led
<1>4. \A s, t : Mildly(s) /\ Mildly(t) /\ Led(s) /\ (Led(t) \/ Marks(s)) =>
        Led(s \o t) /\ (Marks(s) \/ Marks(t) => Marks(s \o t))
  BY <1>1, LedJoined
<1>5. \A t : Marks(t) => Led(t)
  BY DEF Marks
<1>6. QED BY <1>1, <1>2, <1>3, <1>4, <1>5 DEF Tame

LEMMA TurnsJoined ==
  /\ \A u : Turns(<< >>, u, u)
  /\ \A s, t, u, v, z : Mildly(s) /\ Mildly(t) /\ Turns(s, u, v) /\ Turns(t, v, z) => Turns(s \o t, u, z)
<1>1. \A u : Turns(<< >>, u, u)
  BY DEF Turns, Ends
<1>2. ASSUME NEW s, NEW t, NEW u, NEW v, NEW z, Mildly(s), Mildly(t), Turns(s, u, v), Turns(t, v, z)
      PROVE  Turns(s \o t, u, z)
  <2>1. s \in Writes /\ t \in Writes
    BY <1>2, MildJoined
  <2>2. QED BY <1>2, <2>1, EndsJoined DEF Turns
<1>3. QED BY <1>1, <1>2

\* Lists that touch nothing that is tracked.
LEMMA SparesTurn ==
  ASSUME NEW t \in Writes, \A i \in 1 .. Len(t) : t[i].file \notin Tracked
  PROVE  Led(t) /\ \A u : Turns(t, u, u)
<1>1. Led(t)
  BY DEF Led, Opening, Tracked
<1>2. \A f \in Tracked : \A u : Ends(t, f, u, u)
  BY DEF Ends
<1>3. QED BY <1>1, <1>2 DEF Turns, Tracked

LEMMA OneTurns ==
  ASSUME NEW f, NEW v
  PROVE  /\ f = "receipt" => \A u : Turns(Write(f, v), u, << v, u[2], u[3] >>)
         /\ f = "ledger" => \A u : Turns(Write(f, v), u, << u[1], v, u[3] >>)
         /\ f = "journal" => \A u : Turns(Write(f, v), u, << u[1], u[2], v >>)
         /\ f \notin Tracked => \A u : Turns(Write(f, v), u, u)
<1> DEFINE s == Write(f, v)
<1>1. Len(s) = 1 /\ s[1].file = f /\ s[1].value = v
  BY DEF Write
<1> HIDE DEF s
<1>2. \A i \in 1 .. Len(s) : i = 1
  BY <1>1
<1>3. \A g, u : Ends(s, g, u, IF g = f THEN v ELSE u)
  <2> SUFFICES ASSUME NEW g, NEW u PROVE Ends(s, g, u, IF g = f THEN v ELSE u)
    OBVIOUS
  <2>1. 1 \in 1 .. Len(s) /\ \A i \in 1 + 1 .. Len(s) : FALSE
    BY <1>1
  <2>2. CASE g = f
    BY <1>1, <2>1, <2>2 DEF Ends
  <2>3. CASE g # f
    BY <1>1, <1>2, <2>3 DEF Ends
  <2>4. QED BY <2>2, <2>3
<1>4. QED BY <1>3 DEF Turns, Tracked, s

LEMMA OneMild ==
  ASSUME NEW f \in FileNames \ {"config"}, NEW v \in Contents[f], Agrees(f, v, disk.config),
         f = "workset" /\ v # None /\ v.config = disk.config => v.active
  PROVE  /\ Mildly(Write(f, v))
         /\ f \notin Tracked \/ (f = "journal" /\ v = None) => Tame(Write(f, v))
<1> DEFINE x == [file |-> f, value |-> v]
<1>1. x \in WritesOf(FileNames) /\ x.file = f /\ x.value = v
  BY IsWrite
<1> HIDE DEF x
<1>2. f # "active"
  BY DEF FileNames
<1>3. x \in Mild(disk.config)
  BY <1>1, <1>2 DEF Mild, Fit, Unmarking
<1> DEFINE s == << x >>
<1>4. s \in Seq(Mild(disk.config))
  BY <1>3, Lists
<1>5. Len(s) = 1 /\ s[1] = x
  OBVIOUS
<1> HIDE DEF s
<1>6. f \notin Tracked \/ (f = "journal" /\ v = None) => ~Opening(x)
  BY <1>1 DEF Opening, Tracked
<1>7. ~Opening(x) => Led(s)
  BY <1>5 DEF Led
<1>8. Write(f, v) = s
  BY DEF Write, s, x
<1>9. QED BY <1>4, <1>6, <1>7, <1>8 DEF Tame, Mildly

LEMMA TameWrites ==
  ASSUME TypeInv
  PROVE  /\ \A v \in Batch \cup {None} : Tame(Write("manifest", v)) /\ Mildly(Write("journal", v))
         /\ Tame(Write("journal", None))
         /\ \A v \in [from : Statuses, to : Statuses] \cup {None} : Tame(Write("transition", v))
         /\ \A v \in Lease \cup {None} : Tame(Write("lease", v))
         /\ \A v \in Nat : Tame(Write("epoch", v))
         /\ \A v \in SUBSET Nat : Tame(Write("reserved", v)) /\ Tame(Write("settled", v))
         /\ Tame(Write("workset", None))
         /\ \A v \in Statuses \cup {None} : Mildly(Write("ledger", v))
         /\ Mildly(Write("receipt", None))
         /\ \A v \in Receipt : Agrees("receipt", v, disk.config) => Mildly(Write("receipt", v))
<1>1. ASSUME NEW f \in FileNames \ {"config", "receipt", "workset"}, NEW v \in Contents[f]
      PROVE  /\ Mildly(Write(f, v))
             /\ f \notin Tracked \/ (f = "journal" /\ v = None) => Tame(Write(f, v))
  <2>1. Agrees(f, v, disk.config)
    BY DEF Agrees
  <2>2. QED BY <2>1, OneMild
<1>2. Tame(Write("workset", None))
  <2>1. Agrees("workset", None, disk.config) /\ "workset" \notin Tracked
    BY DEF Agrees, Tracked
  <2>2. None \in Contents["workset"] /\ "workset" \in FileNames \ {"config"}
    BY DEF Contents, FileNames
  <2>3. QED BY <2>1, <2>2, OneMild
<1>3. ASSUME NEW v \in Receipt \cup {None}, Agrees("receipt", v, disk.config)
      PROVE  Mildly(Write("receipt", v))
  <2>1. v \in Contents["receipt"] /\ "receipt" \in FileNames \ {"config"}
    BY DEF Contents, FileNames
  <2>2. QED BY <1>3, <2>1, OneMild
<1>4. Agrees("receipt", None, disk.config)
  BY DEF Agrees
<1>5. QED BY <1>1, <1>2, <1>3, <1>4 DEF FileNames, Contents, Tracked

LEMMA MarkIs ==
  ASSUME TypeInv
  PROVE  /\ Mildly(MarkActive) /\ Marks(MarkActive) /\ Tame(MarkActive)
         /\ \A u : Turns(MarkActive, u, u)
         /\ \E y \in Sealing(disk.config) : RetireActive = << y >>
<1>1. ASSUME NEW b \in BOOLEAN PROVE [file |-> "active", value |-> b] \in Fit(disk.config)
  <2> DEFINE mark == [file |-> "active", value |-> b]
             marks == [file : {"active"}, value : BOOLEAN]
             others == UNION {[file : {f}, value : Contents[f]] : f \in FileNames}
  <2>1. mark \in marks /\ mark.file = "active"
    OBVIOUS
  <2>2. WritesOf(FileNames) = others \cup marks
    BY Zenon DEF WritesOf
  <2> HIDE DEF mark, marks, others
  <2>3. mark \in Fit(disk.config)
    BY <2>1, <2>2 DEF Fit, Agrees
  <2>4. QED BY <2>3 DEF mark
<1> DEFINE x == [file |-> "active", value |-> TRUE]
           s == << x >>
<1>2. x.file = "active" /\ x.value /\ x \in Fit(disk.config)
  BY <1>1
<1> HIDE DEF x
<1>3. x \in Mild(disk.config) /\ Marking(x) /\ ~Opening(x)
  BY <1>2 DEF Mild, Unmarking, Marking, Opening
<1>4. s \in Seq(Mild(disk.config))
  BY <1>3, Lists
<1>5. Len(s) = 1 /\ s[1] = x
  OBVIOUS
<1> HIDE DEF s
<1>6. Led(s) /\ Marks(s)
  BY <1>3, <1>5 DEF Led, Marks
<1>7. MarkActive = s
  BY DEF MarkActive, Write, s, x
<1>8. RetireActive = << [file |-> "active", value |-> FALSE] >>
  BY DEF RetireActive, Write
<1>9. [file |-> "active", value |-> FALSE] \in Sealing(disk.config)
  BY <1>1 DEF Sealing
<1>10. \A u : Turns(MarkActive, u, u)
  BY OneTurns DEF MarkActive, Tracked
<1>11. QED BY <1>4, <1>6, <1>7, <1>8, <1>9, <1>10 DEF Mildly, Tame

LEMMA SpreadsTame ==
  ASSUME NEW f \in {"observations", "staged"}, NEW before \in Batch, NEW batch \in Batch
  PROVE  /\ Tame(Growing(f, before, batch)) /\ Tame(Shrinking(f, before, batch))
         /\ \A u : Turns(Growing(f, before, batch), u, u) /\ Turns(Shrinking(f, before, batch), u, u)
<1>1. ASSUME NEW t \in Writes, \A i \in 1 .. Len(t) : t[i].file = f
      PROVE  Tame(t) /\ \A u : Turns(t, u, u)
  <2>1. \A i \in 1 .. Len(t) : t[i] \in WritesOf(FileNames)
    BY DEF Writes
  <2>2. \A i \in 1 .. Len(t) : t[i] \in Mild(disk.config) /\ t[i].file \notin Tracked
    BY <1>1, <2>1 DEF Mild, Fit, Agrees, Unmarking, Tracked
  <2>3. t \in Seq(Mild(disk.config))
    BY <2>2, Narrowed DEF Writes
  <2>4. QED BY <2>2, <2>3, SparesTurn DEF Tame, Mildly
<1>2. /\ Growing(f, before, batch) \in Writes /\ Shrinking(f, before, batch) \in Writes
      /\ \A i \in 1 .. Len(Growing(f, before, batch)) : Growing(f, before, batch)[i].file = f
      /\ \A i \in 1 .. Len(Shrinking(f, before, batch)) : Shrinking(f, before, batch)[i].file = f
  BY SpreadIs
<1>3. QED BY <1>1, <1>2

LEMMA GuardsRetired ==
  ASSUME TypeInv, NEW q, Mildly(q), IsMarked(disk) \/ Led(q), NEW r, NEW l, NEW j,
         Turns(q, TrackedNow, << r, l, j >>), ~Unended(r, l, j)
  PROVE  Guarded(disk, q \o RetireActive)
<1>1. PICK y \in Sealing(disk.config) : RetireActive = << y >>
  BY MarkIs
<1>2. Closes(disk, q)
  BY DEF Closes, Turns, TrackedNow
<1>3. QED BY <1>1, <1>2 DEF Guarded, Retires, Minds, Mildly

LEMMA GuardsMild ==
  ASSUME NEW t, Mildly(t), IsMarked(disk) \/ Led(t)
  PROVE  Guarded(disk, t)
BY DEF Guarded, Minds, Mildly

LEMMA UnlinkIs ==
  ASSUME TypeInv, NEW f \in {"journal", "transition", "manifest", "workset"}
  PROVE  /\ Tame(Unlink(f))
         /\ f # "journal" => \A u : Turns(Unlink(f), u, u)
         /\ f = "journal" =>
              \A r, l : Turns(Unlink(f), << r, l, disk.journal >>, << r, l, None >>)
<1>1. Tame(Write(f, None)) /\ Tame(<< >>)
  BY TameWrites, MildJoined
<1>2. f # "journal" => \A u : Turns(Write(f, None), u, u)
  BY OneTurns DEF Tracked
<1>3. ASSUME f = "journal", NEW r, NEW l
      PROVE  Turns(Unlink(f), << r, l, disk.journal >>, << r, l, None >>)
  <2> DEFINE u == << r, l, disk.journal >>
  <2>1. u[1] = r /\ u[2] = l
    OBVIOUS
  <2>2. disk.journal = None => u = << r, l, None >>
    OBVIOUS
  <2> HIDE DEF u
  <2>3. Turns(Write(f, None), u, << u[1], u[2], None >>) /\ Turns(<< >>, u, u)
    BY <1>3, OneTurns, TurnsJoined
  <2>4. QED BY <1>3, <2>1, <2>2, <2>3 DEF Unlink, u
<1>4. QED BY <1>1, <1>2, <1>3, TurnsJoined DEF Unlink

LEMMA ChangeMarks ==
  ASSUME TypeInv, NEW r \in Receipt, Agrees("receipt", r, disk.config)
  PROVE  /\ Mildly(Change(r)) /\ Marks(Change(r)) /\ Tame(Change(r))
         /\ \A u : Turns(Change(r), u, << r, r.status, u[3] >>)
<1>1. r.status \in Statuses
  BY DEF Receipt
<1>2. /\ Mildly(MarkActive) /\ Marks(MarkActive) /\ \A u : Turns(MarkActive, u, u)
      /\ Mildly(Write("receipt", r)) /\ Mildly(Write("ledger", r.status))
  BY <1>1, MarkIs, TameWrites
<1>3. \A u : Turns(MarkActive \o Write("receipt", r), u, << r, u[2], u[3] >>)
  BY <1>2, OneTurns, TurnsJoined
<1>4. Mildly(MarkActive \o Write("receipt", r)) /\ Marks(MarkActive \o Write("receipt", r))
  BY <1>2, MildJoined
<1>5. \A u : Turns(Write("ledger", r.status), << r, u[2], u[3] >>, << r, r.status, u[3] >>)
  <2> SUFFICES ASSUME NEW u
               PROVE  Turns(Write("ledger", r.status), << r, u[2], u[3] >>, << r, r.status, u[3] >>)
    OBVIOUS
  <2> DEFINE z == << r, u[2], u[3] >>
  <2>1. z[1] = r /\ z[3] = u[3]
    OBVIOUS
  <2> HIDE DEF z
  <2>2. Turns(Write("ledger", r.status), z, << z[1], r.status, z[3] >>)
    BY OneTurns
  <2>3. QED BY <2>1, <2>2 DEF z
<1>6. \A u : Turns(Change(r), u, << r, r.status, u[3] >>)
  BY <1>2, <1>3, <1>4, <1>5, TurnsJoined DEF Change
<1>7. QED BY <1>2, <1>4, <1>6, MildJoined DEF Change

-----------------------------------------------------------------------------
(* What the sections leave                                                 *)

LEMMA TransitionMarks ==
  ASSUME TypeInv, receipt # None, NEW target \in Statuses \ {"extracting", "complete"},
         NEW bound \in BOOLEAN, NEW settle, Tame(settle), \A u : Turns(settle, u, u),
         NEW usage \in Charges
  PROVE  Guarded(disk, Transition(target, bound, settle, usage))
<1> DEFINE r == [receipt EXCEPT !.status = target, !.bound = bound, !.usage = usage]
           journey == Write("transition", [from |-> receipt.status, to |-> target])
           arrival == Write("transition", None)
           a == MarkActive \o settle
           b == a \o journey
           c == b \o Write("receipt", r)
           e == c \o Write("ledger", target)
           q == e \o arrival
           u == TrackedNow
           z == << r, u[2], u[3] >>
           last == << r, target, u[3] >>
<1>1. r \in Receipt /\ r.status = target /\ receipt.status \in Statuses
  <2>1. receipt \in Receipt
    BY ReceiptIs
  <2>2. QED BY <2>1 DEF Receipt
<1>2. Agrees("receipt", r, disk.config)
  BY <1>1 DEF Agrees
<1>3. [from |-> receipt.status, to |-> target] \in [from : Statuses, to : Statuses]
  BY <1>1
<1>4. /\ Tame(journey) /\ Tame(arrival) /\ Mildly(Write("receipt", r))
      /\ Mildly(Write("ledger", target))
  BY <1>1, <1>2, <1>3, TameWrites
<1>5. z[1] = r /\ z[3] = u[3]
  OBVIOUS
<1>6. Turns(journey, u, u) /\ Turns(arrival, last, last) /\ Turns(Write("receipt", r), u, z)
  BY OneTurns DEF Tracked
<1>7. Turns(Write("ledger", target), z, last)
  <2> HIDE DEF z
  <2>1. Turns(Write("ledger", target), z, << z[1], target, z[3] >>)
    BY OneTurns
  <2>2. QED BY <1>5, <2>1
<1> HIDE DEF r, journey, arrival, u, z, last
<1>8. Mildly(a) /\ Marks(a) /\ Turns(a, u, u)
  BY MarkIs, MildJoined, TurnsJoined DEF Tame
<1> HIDE DEF a
<1>9. Mildly(b) /\ Marks(b) /\ Turns(b, u, u)
  BY <1>4, <1>6, <1>8, MildJoined, TurnsJoined DEF Tame
<1> HIDE DEF b
<1>10. Mildly(c) /\ Marks(c) /\ Turns(c, u, z)
  BY <1>4, <1>6, <1>9, MildJoined, TurnsJoined DEF Tame
<1> HIDE DEF c
<1>11. Mildly(e) /\ Marks(e) /\ Turns(e, u, last)
  BY <1>4, <1>7, <1>10, MildJoined, TurnsJoined DEF Tame
<1> HIDE DEF e
<1>12. Mildly(q) /\ Led(q) /\ Turns(q, u, last)
  BY <1>4, <1>6, <1>11, MildJoined, TurnsJoined DEF Tame
<1> HIDE DEF q
<1>13. ~Unended(r, target, u[3])
  BY <1>1 DEF Unended
<1>14. Guarded(disk, q \o RetireActive)
  BY <1>12, <1>13, GuardsRetired DEF u, last
<1>15. QED BY <1>14 DEF Transition, a, b, c, e, q, r, journey, arrival

LEMMA CleanUpTame ==
  ASSUME TypeInv
  PROVE  /\ Tame(CleanUpBound)
         /\ \A r, l : Turns(CleanUpBound, << r, l, disk.journal >>, << r, l, None >>)
<1> DEFINE s == Shrinking("staged", disk.staged, Leftovers)
           o == Shrinking("observations", disk.observations, Leftovers)
<1>1. Tame(s) /\ Tame(o) /\ \A u : Turns(s, u, u) /\ Turns(o, u, u)
  BY LeftoversAre, SpreadsTame
<1>2. /\ Tame(Unlink("manifest")) /\ Tame(Unlink("journal"))
      /\ \A u : Turns(Unlink("manifest"), u, u)
      /\ \A r, l : Turns(Unlink("journal"), << r, l, disk.journal >>, << r, l, None >>)
  BY UnlinkIs
<1> HIDE DEF s, o
<1>3. Tame(s \o o) /\ \A u : Turns(s \o o, u, u)
  BY <1>1, MildJoined, TurnsJoined DEF Tame
<1>4. Tame((s \o o) \o Unlink("manifest")) /\ \A u : Turns((s \o o) \o Unlink("manifest"), u, u)
  BY <1>2, <1>3, MildJoined, TurnsJoined DEF Tame
<1>5. QED BY <1>2, <1>4, MildJoined, TurnsJoined DEF Tame, CleanUpBound, s, o

LEMMA BackToRetryableMarks ==
  ASSUME TypeInv, receipt # None
  PROVE  /\ Tame(BackToRetryable)
         /\ \E r : /\ ~Unended(r, "retryable", None)
                   /\ \A v, l : Turns(BackToRetryable, << v, l, disk.journal >>, << r, "retryable", None >>)
<1> DEFINE r == [receipt EXCEPT !.status = "retryable", !.count = 0]
<1>1. r \in Receipt /\ r.status = "retryable"
  <2>1. receipt \in Receipt /\ r \in Receipt
    BY ReceiptIs DEF Statuses
  <2>2. QED BY <2>1 DEF Receipt
<1>2. BackToRetryable = CleanUpBound \o Change(r)
  BY DEF BackToRetryable
<1> HIDE DEF r
<1>3. Agrees("receipt", r, disk.config) /\ ~Unended(r, "retryable", None)
  BY <1>1 DEF Agrees, Unended
<1>4. /\ Mildly(Change(r)) /\ Marks(Change(r))
      /\ \A u : Turns(Change(r), u, << r, "retryable", u[3] >>)
  BY <1>1, <1>3, ChangeMarks
<1>5. ASSUME NEW v, NEW l
      PROVE  Turns(CleanUpBound \o Change(r), << v, l, disk.journal >>, << r, "retryable", None >>)
  <2> DEFINE z == << v, l, None >>
  <2>1. z[3] = None
    OBVIOUS
  <2> HIDE DEF z
  <2>2. Turns(Change(r), z, << r, "retryable", None >>)
    BY <1>4, <2>1
  <2>3. QED BY <1>4, <2>2, CleanUpTame, TurnsJoined DEF Tame, z
<1>6. Tame(CleanUpBound \o Change(r))
  BY <1>4, CleanUpTame, MildJoined
<1>7. QED BY <1>2, <1>3, <1>5, <1>6

LEMMA RecoverTransitionMarks ==
  ASSUME TypeInv
  PROVE  /\ Tame(RecoverTransition)
         /\ \E l : /\ Turns(RecoverTransition, TrackedNow, << disk.receipt, l, disk.journal >>)
                   /\ l = disk.ledger \/ (receipt # None /\ l = receipt.status)
<1> DEFINE u == TrackedNow
           first == IF TransitionCorrupt THEN Write("workset", None)
                    ELSE IF disk.transition # None /\ Status = disk.transition.to
                    THEN MarkActive \o Write("ledger", receipt.status)
                    ELSE << >>
<1>1. PICK l : /\ Tame(first) /\ Turns(first, u, << disk.receipt, l, disk.journal >>)
               /\ l = disk.ledger \/ (receipt # None /\ l = receipt.status)
  <2>1. CASE TransitionCorrupt
    <3>1. Tame(Write("workset", None)) /\ Turns(Write("workset", None), u, u)
      BY TameWrites, OneTurns DEF Tracked
    <3>2. QED BY <2>1, <3>1 DEF TrackedNow
  <2>2. CASE ~TransitionCorrupt /\ disk.transition # None /\ Status = disk.transition.to
    <3>1. receipt # None
      <4>1. disk.transition.to \in Statuses
        BY <2>2, DiskHas DEF TypeInv
      <4>2. QED BY <2>2, <4>1, CaptureAssumption DEF Status
    <3>2. receipt.status \in Statuses
      BY <3>1, ReceiptIs
    <3>3. /\ Tame(MarkActive) /\ Mildly(Write("ledger", receipt.status)) /\ Marks(MarkActive)
          /\ Turns(MarkActive, u, u)
          /\ Turns(Write("ledger", receipt.status), u, << disk.receipt, receipt.status, disk.journal >>)
      <4>1. u[1] = disk.receipt /\ u[3] = disk.journal
        BY DEF TrackedNow
      <4> HIDE DEF u
      <4>2. Turns(Write("ledger", receipt.status), u, << u[1], receipt.status, u[3] >>)
        BY OneTurns
      <4>3. QED BY <3>2, <4>1, <4>2, MarkIs, TameWrites
    <3> DEFINE s == MarkActive \o Write("ledger", receipt.status)
               v == << disk.receipt, receipt.status, disk.journal >>
    <3> HIDE DEF u, v
    <3>4. Tame(s) /\ Turns(s, u, v)
      BY <3>3, MildJoined, TurnsJoined DEF Tame, v
    <3>5. QED BY <2>2, <3>1, <3>4 DEF v
  <2>3. CASE ~TransitionCorrupt /\ ~(disk.transition # None /\ Status = disk.transition.to)
    BY <2>3, MildJoined, TurnsJoined DEF TrackedNow
  <2>4. QED BY <2>1, <2>2, <2>3
<1>2. Tame(Unlink("transition")) /\ \A z : Turns(Unlink("transition"), z, z)
  BY UnlinkIs
<1>3. RecoverTransition = first \o Unlink("transition")
  BY DEF RecoverTransition
<1> HIDE DEF first, u
<1>4. /\ Tame(RecoverTransition)
      /\ Turns(RecoverTransition, u, << disk.receipt, l, disk.journal >>)
  BY <1>1, <1>2, <1>3, MildJoined, TurnsJoined DEF Tame
<1>5. QED BY <1>1, <1>4 DEF u

LEMMA FullMarks ==
  ASSUME TypeInv
  PROVE  Tame(FullRecovery)
<1> DEFINE middle == IF Broken THEN BackToRetryable
                     ELSE IF Lost THEN CleanUpBound
                     ELSE IF ~Whole \/ disk.journal = None THEN << >>
                     ELSE IF disk.journal = disk.manifest
                     THEN Shrinking("staged", disk.staged, disk.manifest)
                     ELSE Unlink("journal")
           left == disk.observations \ (IF Broken \/ Lost THEN Leftovers ELSE {})
           o == Shrinking("observations", left, OrphanObservations)
           s == Shrinking("staged", OrphanStages, OrphanStages)
<1>1. Tame(middle)
  <2>1. Broken => Tame(BackToRetryable)
    BY BackToRetryableMarks DEF Broken
  <2>2. Whole => Tame(Shrinking("staged", disk.staged, disk.manifest))
    <3>1. Whole => disk.manifest \in Batch
      BY DiskHas DEF Whole, ManifestValid, TypeInv
    <3>2. QED BY <3>1, LeftoversAre, SpreadsTame
  <2>3. Tame(Unlink("journal")) /\ Tame(<< >>) /\ Tame(CleanUpBound)
    BY UnlinkIs, MildJoined, CleanUpTame
  <2>4. QED BY <2>1, <2>2, <2>3
<1>2. Tame(o) /\ Tame(s)
  <2>1. left \in Batch
    BY LeftoversAre DEF Batch
  <2>2. QED BY <2>1, LeftoversAre, SpreadsTame
<1>3. Tame(RecoverTransition) /\ Tame(Write("workset", None)) /\ Tame(<< >>)
  BY RecoverTransitionMarks, TameWrites, MildJoined
<1>4. FullRecovery = IF NothingToRecover THEN << >>
                     ELSE (((RecoverTransition \o middle) \o o) \o s) \o Write("workset", None)
  BY DEF FullRecovery
<1> HIDE DEF middle, o, s
<1>5. Tame((RecoverTransition \o middle) \o o)
  BY <1>1, <1>2, <1>3, MildJoined
<1>6. QED BY <1>2, <1>3, <1>4, <1>5, MildJoined

LEMMA ActiveMarks ==
  ASSUME CaptureInv, ContentInv, IsMarked(disk)
  PROVE  Guarded(disk, ActiveRecovery)
<1> DEFINE settled == Shrinking("staged", disk.staged, Files(disk.journal)) \o Unlink("journal")
           rest == IF receipt = None THEN Unlink("journal")
                   ELSE IF Whole THEN settled \o Write("ledger", "complete")
                   ELSE IF Interrupted THEN BackToRetryable
                   ELSE Write("ledger", receipt.status)
<1>0. TypeInv
  BY DEF CaptureInv
<1>1. PICK l : /\ Tame(RecoverTransition)
               /\ Turns(RecoverTransition, TrackedNow, << disk.receipt, l, disk.journal >>)
  BY <1>0, RecoverTransitionMarks
<1> DEFINE v == << disk.receipt, l, disk.journal >>
<1>2. \E r, m, j : Mildly(rest) /\ Turns(rest, v, << r, m, j >>) /\ ~Unended(r, m, j)
  <2>1. Tame(Unlink("journal")) /\ Turns(Unlink("journal"), v, << disk.receipt, l, None >>)
    BY <1>0, UnlinkIs
  <2>2. CASE receipt = None
    BY <2>1, <2>2 DEF Unended, receipt, Tame
  <2>3. CASE Whole /\ receipt # None
    <3> DEFINE s == Shrinking("staged", disk.staged, Files(disk.journal))
               w == Write("ledger", "complete")
               z == << disk.receipt, l, None >>
               last == << disk.receipt, "complete", None >>
    <3>1. Tame(s) /\ Turns(s, v, v)
      BY <1>0, LeftoversAre, SpreadsTame
    <3>2. Mildly(w)
      BY <1>0, TameWrites DEF Statuses
    <3>3. z[1] = disk.receipt /\ z[3] = None
      OBVIOUS
    <3>4. Turns(w, z, last)
      <4> HIDE DEF z
      <4>1. Turns(w, z, << z[1], "complete", z[3] >>)
        BY OneTurns
      <4>2. QED BY <3>3, <4>1
    <3> HIDE DEF s, w, z, last, v
    <3>5. Mildly(s \o Unlink("journal")) /\ Turns(s \o Unlink("journal"), v, z)
      BY <2>1, <3>1, MildJoined, TurnsJoined DEF Tame, z
    <3>6. Mildly(rest) /\ Turns(rest, v, last)
      BY <2>3, <3>2, <3>4, <3>5, MildJoined, TurnsJoined DEF s, w
    <3>7. ~Unended(disk.receipt, "complete", None)
      BY <2>3, WholeIs DEF Unended, IsComplete
    <3>8. QED BY <3>6, <3>7 DEF last
  <2>4. CASE receipt # None /\ ~Whole /\ Interrupted
    BY <1>0, <2>4, BackToRetryableMarks DEF Tame
  <2>5. CASE receipt # None /\ ~Whole /\ ~Interrupted
    <3> DEFINE w == Write("ledger", receipt.status)
    <3>1. v[1] = disk.receipt /\ v[3] = disk.journal
      OBVIOUS
    <3> HIDE DEF v
    <3>2. Mildly(w) /\ Turns(w, v, << disk.receipt, receipt.status, disk.journal >>)
      BY <1>0, <2>5, <3>1, ReceiptIs, TameWrites, OneTurns
    <3>3. ~Unended(disk.receipt, receipt.status, disk.journal)
      BY <2>5 DEF Unended, Interrupted, receipt
    <3>4. QED BY <2>5, <3>2, <3>3
  <2>6. QED BY <2>2, <2>3, <2>4, <2>5
<1>3. PICK r, m, j : Mildly(rest) /\ Turns(rest, v, << r, m, j >>) /\ ~Unended(r, m, j)
  BY <1>2
<1>4. ActiveRecovery =
        IF disk.lease # None /\ disk.lease.token # disk.epoch THEN Write("workset", None)
        ELSE RecoverTransition
             \o (IF TransitionCorrupt THEN << >>
                 ELSE IF RecoveryFails THEN Write("workset", None) ELSE rest \o RetireActive)
  BY DEF ActiveRecovery
<1>5. Tame(Write("workset", None)) /\ Tame(<< >>)
  BY <1>0, TameWrites, MildJoined
<1> HIDE DEF rest, v
<1>6. Mildly(RecoverTransition \o rest) /\ Turns(RecoverTransition \o rest, TrackedNow, << r, m, j >>)
  BY <1>1, <1>3, MildJoined, TurnsJoined DEF Tame, v
<1>7. Guarded(disk, (RecoverTransition \o rest) \o RetireActive)
  BY <1>0, <1>3, <1>6, GuardsRetired
<1>8. RecoverTransition \o (rest \o RetireActive) = (RecoverTransition \o rest) \o RetireActive
  <2>1. RecoverTransition \in Writes /\ rest \in Writes /\ RetireActive \in Writes
    BY <1>1, <1>3, MildJoined, MarksAreCalm, CalmIsWritten DEF Tame
  <2>2. QED BY <2>1, Regrouped
<1>9. /\ Mildly(RecoverTransition \o Write("workset", None))
      /\ Mildly(RecoverTransition \o << >>)
  BY <1>1, <1>5, MildJoined DEF Tame
<1>10. QED BY <1>4, <1>5, <1>7, <1>8, <1>9, GuardsMild DEF Tame

LEMMA SealMarks ==
  ASSUME CaptureInv, NEW baseline \in {"healthy", "recovery_needed"}, NEW active \in BOOLEAN,
         ~active => ~IsUnended(disk)
  PROVE  Guarded(disk, Unlink("workset")
           \o Write("workset", [baseline |-> baseline, active |-> active, config |-> disk.config]))
<1> DEFINE v == [baseline |-> baseline, active |-> active, config |-> disk.config]
           y == [file |-> "workset", value |-> v]
<1>0. TypeInv
  BY DEF CaptureInv
<1>1. v \in Workset /\ v.config = disk.config /\ v.active = active /\ disk.config \in Nat
  <2>1. disk.config \in 1 .. MaxConfig
    BY DiskHas DEF CaptureInv, TypeInv
  <2>2. QED BY <2>1, CaptureAssumption DEF Workset
<1>2. Tame(Unlink("workset")) /\ Turns(Unlink("workset"), TrackedNow, TrackedNow)
  BY <1>0, UnlinkIs
<1>3. Agrees("workset", v, disk.config) /\ v \in Contents["workset"]
  BY <1>1 DEF Agrees, Contents
<1> HIDE DEF v
<1>4. CASE active
  <2>1. Mildly(Write("workset", v))
    BY <1>1, <1>3, <1>4, OneMild DEF FileNames
  <2>2. Tame(Write("workset", v))
    BY <1>1, <1>3, <1>4, OneMild DEF FileNames, Tracked
  <2>3. Tame(Unlink("workset") \o Write("workset", v))
    BY <1>2, <2>2, MildJoined
  <2>4. QED BY <2>3, GuardsMild DEF Tame, v
<1>5. CASE ~active
  <2>1. y \in WritesOf(FileNames) /\ y.file = "workset" /\ y.value = v
    BY <1>3, IsWrite DEF FileNames
  <2> HIDE DEF y
  <2>2. y \in Sealing(disk.config)
    BY <1>3, <2>1 DEF Sealing, Fit
  <2>3. Closes(disk, Unlink("workset"))
    BY <1>2, <1>5 DEF Closes, Turns, TrackedNow, IsUnended
  <2>4. Retires(disk, Unlink("workset") \o << y >>)
    BY <1>2, <2>2, <2>3 DEF Retires, Tame, Mildly, Minds
  <2>5. QED BY <2>4 DEF Guarded, Write, y, v
<1>6. QED BY <1>4, <1>5

LEMMA SectionMarks ==
  ASSUME MarksInv, CaptureInv, NEW w \in Workers, NEW writes, NEW label,
         Section(w, writes, label), Guarded(disk, writes), label # "restoring", UNCHANGED kept
  PROVE  MarksInv'
<1>1. /\ todo'[w] = writes /\ \A v \in Workers \ {w} : todo'[v] = << >>
      /\ disk' = disk /\ pc'[w] = label
  BY DEF Section, Free, Goto, CaptureInv, TypeInv
<1>2. IsSafe(disk') /\ IsFit(disk', disk'.config) /\ CopiesFit'
  BY <1>1 DEF MarksInv, CopiesFit
<1>3. Guarded(disk', todo'[w]) /\ Restores(w)'
  BY <1>1 DEF Restores
<1>4. QED BY <1>1, <1>2, <1>3, OneMarks

LEMMA NothingGuarded == Guarded(disk, << >>)
BY NothingMinds DEF Guarded

LEMMA ScannerMarks ==
  ASSUME MarksInv, CaptureInv, NEW w \in Workers, Register(w) \/ Exclude(w) \/ Quarantine(w),
         UNCHANGED kept
  PROVE  MarksInv'
<1>0. TypeInv
  BY DEF CaptureInv
<1>1. \A s \in Statuses : New(s) \in Receipt /\ New(s).status = s
  BY DEF New, Receipt, Charges
<1>2. ASSUME NEW s \in Statuses \ {"extracting", "complete"}
      PROVE  Guarded(disk, Change(IF receipt = None THEN New(s) ELSE [receipt EXCEPT !.status = s])
               \o RetireActive)
  <2> DEFINE r == IF receipt = None THEN New(s) ELSE [receipt EXCEPT !.status = s]
  <2>1. r \in Receipt /\ r.status = s
    <3>1. CASE receipt = None
      BY <1>1, <3>1
    <3>2. CASE receipt # None
      BY <1>0, <3>2, ReceiptIs DEF Receipt
    <3>3. QED BY <3>1, <3>2
  <2> HIDE DEF r
  <2>2. Agrees("receipt", r, disk.config) /\ ~Unended(r, s, disk.journal)
    BY <2>1 DEF Agrees, Unended
  <2>3. TrackedNow[3] = disk.journal
    BY DEF TrackedNow
  <2>4. Mildly(Change(r)) /\ Led(Change(r)) /\ Turns(Change(r), TrackedNow, << r, s, disk.journal >>)
    BY <1>0, <2>1, <2>2, <2>3, ChangeMarks DEF Tame
  <2>5. QED BY <1>0, <2>2, <2>4, GuardsRetired DEF r
<1>3. CASE Register(w)
  <2>1. receipt = None => Guarded(disk, Change(New("discovered")) \o RetireActive)
    BY <1>2 DEF Statuses
  <2>2. ASSUME receipt # None, ~receipt.bound
        PROVE  Guarded(disk, MarkActive \o Write("ledger", receipt.status) \o RetireActive)
    <3> DEFINE u == TrackedNow
               t == Write("ledger", receipt.status)
               z == << disk.receipt, receipt.status, disk.journal >>
    <3>1. receipt.status \notin {"extracting", "complete"} /\ receipt.status \in Statuses
      BY <1>0, <2>2, ReceiptIs DEF MarksInv, IsFit, Agrees, receipt
    <3>2. u[1] = disk.receipt /\ u[3] = disk.journal
      BY DEF TrackedNow
    <3> HIDE DEF u
    <3>3. Mildly(t) /\ Turns(t, u, z)
      BY <1>0, <3>1, <3>2, TameWrites, OneTurns
    <3>4. Mildly(MarkActive) /\ Marks(MarkActive) /\ Turns(MarkActive, u, u)
      BY <1>0, MarkIs
    <3> HIDE DEF t, z
    <3>5. Mildly(MarkActive \o t) /\ Led(MarkActive \o t) /\ Turns(MarkActive \o t, u, z)
      BY <3>3, <3>4, MildJoined, TurnsJoined DEF Tame
    <3>6. ~Unended(disk.receipt, receipt.status, disk.journal)
      BY <3>1 DEF Unended, receipt
    <3>7. QED BY <1>0, <3>5, <3>6, GuardsRetired DEF u, t, z
  <2>3. \E writes : Guarded(disk, writes) /\ Section(w, writes, "idle")
    BY <1>3, <2>1, <2>2, NothingGuarded DEF Register
  <2>4. QED BY <2>3, SectionMarks
<1>4. CASE Exclude(w)
  <2>1. \E writes, label : Guarded(disk, writes) /\ Section(w, writes, label) /\ label # "restoring"
    BY <1>2, <1>4, NothingGuarded DEF Exclude, Statuses
  <2>2. QED BY <2>1, SectionMarks
<1>5. CASE Quarantine(w)
  <2>1. \E writes : Guarded(disk, writes) /\ Section(w, writes, "idle")
    BY <1>2, <1>5, NothingGuarded DEF Quarantine, Statuses
  <2>2. QED BY <2>1, SectionMarks
<1>6. QED BY <1>3, <1>4, <1>5

LEMMA RecoveryMarks ==
  ASSUME MarksInv, ContentInv, CaptureInv, NEW w \in Workers,
         NEW next \in {"running", "scanning"}, RecoverAll(w, next) \/ RecoverActive(w, next),
         UNCHANGED kept
  PROVE  MarksInv'
<1>1. CASE RecoverAll(w, next)
  <2>1. Guarded(disk, FullRecovery)
    BY FullMarks, GuardsMild DEF Tame, CaptureInv
  <2>2. QED BY <1>1, <2>1, SectionMarks DEF RecoverAll
<1>2. CASE RecoverActive(w, next)
  <2>1. Recoverable => IsMarked(disk)
    BY DEF Recoverable, ActiveNow, IsMarked
  <2>2. Guarded(disk, IF Recoverable THEN ActiveRecovery ELSE << >>)
    BY <2>1, ActiveMarks, NothingGuarded
  <2>3. \E label : /\ Section(w, IF Recoverable THEN ActiveRecovery ELSE << >>, label)
                   /\ label # "restoring"
    BY <1>2 DEF RecoverActive
  <2>4. QED BY <2>2, <2>3, SectionMarks
<1>3. QED BY <1>1, <1>2

LEMMA AuditMarks ==
  ASSUME MarksInv, CaptureInv, NEW w \in Workers, Audit(w), UNCHANGED kept
  PROVE  MarksInv'
<1> DEFINE active == \/ Status = "extracting"
                     \/ receipt # None /\ disk.ledger # Status
                     \/ disk.journal # None \/ disk.transition # None
           sealed == Write("workset", [baseline |-> IF active THEN "recovery_needed" ELSE "healthy",
                                       active |-> active, config |-> disk.config])
<1>1. active \in BOOLEAN /\ (~active => ~IsUnended(disk))
  BY DEF IsUnended, Unended, Status, receipt
<1>2. \E sound \in BOOLEAN :
        Section(w, Unlink("workset") \o (IF sound THEN sealed ELSE << >>), "idle")
  BY DEF Audit
<1>3. Guarded(disk, Unlink("workset") \o sealed)
  BY <1>1, SealMarks
<1> HIDE DEF active, sealed
<1>4. Guarded(disk, Unlink("workset") \o << >>)
  BY UnlinkIs, MildJoined, GuardsMild DEF Tame, CaptureInv
<1>5. QED BY <1>2, <1>3, <1>4, SectionMarks

LEMMA SettleTame ==
  ASSUME TypeInv, NEW w \in Workers
  PROVE  Tame(Settle(w)) /\ \A u : Turns(Settle(w), u, u)
<1>1. disk.settled \cup {job[w].reserved} \in SUBSET Nat
  BY DiskHas DEF TypeInv, Job
<1>2. /\ Tame(Write("settled", disk.settled \cup {job[w].reserved}))
      /\ \A u : Turns(Write("settled", disk.settled \cup {job[w].reserved}), u, u)
  BY <1>1, TameWrites, OneTurns DEF Tracked
<1>3. QED BY <1>2, MildJoined, TurnsJoined DEF Settle

LEMMA TryMarks ==
  ASSUME MarksInv, CaptureInv, NEW w \in Workers, NEW expected,
         NEW target \in Statuses \ {"extracting", "complete"},
         NEW next, NEW otherwise, {next, otherwise} \cap {"restoring"} = {},
         TryTransition(w, expected, target, next, otherwise), UNCHANGED kept
  PROVE  MarksInv'
<1>1. CASE MayTransition(w, expected, target)
  <2>1. receipt # None /\ TypeInv
    BY <1>1 DEF MayTransition, HoldsReceipt, CaptureInv
  <2>2. (receipt.bound /\ target # "queued") \in BOOLEAN /\ receipt.usage \in Charges
    BY <2>1, ReceiptIs DEF Receipt
  <2>3. Guarded(disk, Transition(target, receipt.bound /\ target # "queued", << >>, receipt.usage))
    BY <2>1, <2>2, MildJoined, TurnsJoined, TransitionMarks
  <2>4. QED BY <1>1, <2>3, SectionMarks DEF TryTransition
<1>2. CASE ~MayTransition(w, expected, target)
  BY <1>2, NothingGuarded, SectionMarks DEF TryTransition
<1>3. QED BY <1>1, <1>2

LEMMA RunnerMarks ==
  ASSUME MarksInv, CaptureInv, NEW w \in Workers,
         Requeue(w) \/ BackOff(w) \/ SourceChanged(w) \/ Defer(w), UNCHANGED kept
  PROVE  MarksInv'
<1>1. PICK target \in {"queued", "retryable", "quarantined", "deferred_budget"} :
        \E expected, next, otherwise :
          /\ TryTransition(w, expected, target, next, otherwise)
          /\ {next, otherwise} \cap {"restoring"} = {}
  <2>1. CASE Requeue(w)
    BY <2>1 DEF Requeue
  <2>2. CASE BackOff(w)
    BY <2>2 DEF BackOff
  <2>3. CASE SourceChanged(w)
    BY <2>3 DEF SourceChanged
  <2>4. CASE Defer(w)
    BY <2>4 DEF Defer
  <2>5. QED BY <2>1, <2>2, <2>3, <2>4
<1>2. target \in Statuses \ {"extracting", "complete"}
  BY DEF Statuses
<1>3. QED BY <1>1, <1>2, TryMarks

LEMMA LeaseMarks ==
  ASSUME MarksInv, CaptureInv, NEW w \in Workers,
         \/ \E from : TakeLease(w, from, "leased") \/ TakeLease(w, from, "parked")
         \/ \E from : Contended(w, from)
         \/ Release(w),
         UNCHANGED kept
  PROVE  MarksInv'
<1>0. TypeInv
  BY DEF CaptureInv
<1>1. PICK writes : Tame(writes) /\ \E label : Section(w, writes, label) /\ label # "restoring"
  <2>1. CASE \E from : TakeLease(w, from, "leased") \/ TakeLease(w, from, "parked")
    <3>1. NextToken \in Nat /\ kept.restores \in Nat
      <4>1. disk.epoch \in Nat /\ (disk.lease # None => disk.lease.token \in Nat)
        BY DiskHas DEF CaptureInv, TypeInv, Lease
      <4>2. QED BY <4>1 DEF NextToken, CaptureInv, TypeInv
    <3>2. [token |-> NextToken, era |-> kept.restores, live |-> TRUE] \in Lease
      BY <3>1 DEF Lease
    <3>3. Tame(Write("epoch", NextToken)
                 \o Write("lease", [token |-> NextToken, era |-> kept.restores, live |-> TRUE]))
      BY <1>0, <3>1, <3>2, TameWrites, MildJoined
    <3>4. QED BY <2>1, <3>3 DEF TakeLease
  <2>2. CASE \E from : Contended(w, from)
    BY <2>2, MildJoined DEF Contended
  <2>3. CASE Release(w)
    BY <1>0, <2>3, TameWrites, MildJoined DEF Release
  <2>4. QED BY <2>1, <2>2, <2>3
<1>2. QED BY <1>1, GuardsMild, SectionMarks DEF Tame

LEMMA ExtractionMarks ==
  ASSUME MarksInv, CaptureInv, NEW w \in Workers,
         Reserve(w) \/ BeginExtraction(w) \/ ExtractFails(w), UNCHANGED kept
  PROVE  MarksInv'
<1>0. TypeInv
  BY DEF CaptureInv
<1>1. CASE Reserve(w)
  <2>1. disk.reserved \cup {job[w].attempt + 1} \in SUBSET Nat
    BY DiskHas DEF CaptureInv, TypeInv, Job
  <2>2. Guarded(disk, Write("reserved", disk.reserved \cup {job[w].attempt + 1}))
    BY <1>0, <2>1, TameWrites, GuardsMild DEF Tame
  <2>3. QED BY <1>1, <2>2, SectionMarks DEF Reserve
<1>2. CASE BeginExtraction(w)
  <2>1. PICK writes : /\ Guarded(disk, writes)
                      /\ \E label : Section(w, writes, label) /\ label # "restoring"
    <3>1. CASE HoldsReceipt(w) /\ receipt.status \in Ready
      <4>1. receipt \in Receipt
        BY <1>0, <3>1, ReceiptIs DEF HoldsReceipt
      <4>2. Begun \in Receipt /\ Begun.bound
        <5>1. receipt.attempt + 1 \in Nat /\ "extracting" \in Statuses
          BY <4>1 DEF Receipt, Statuses
        <5>2. \A n \in Nat, s \in Statuses :
                /\ [receipt EXCEPT !.status = s, !.bound = TRUE, !.attempt = n] \in Receipt
                /\ [receipt EXCEPT !.status = s, !.bound = TRUE, !.attempt = n].bound
          BY <4>1 DEF Receipt
        <5>3. Begun = [receipt EXCEPT !.status = "extracting", !.bound = TRUE,
                                      !.attempt = receipt.attempt + 1]
          BY <4>1 DEF Begun, Receipt
        <5>4. QED BY <5>1, <5>2, <5>3
      <4>3. Tame(Change(Begun))
        BY <1>0, <4>2, ChangeMarks DEF Agrees
      <4>4. QED BY <1>2, <3>1, <4>3, GuardsMild DEF BeginExtraction, Tame
    <3>2. CASE ~(HoldsReceipt(w) /\ receipt.status \in Ready)
      BY <1>2, <3>2, NothingGuarded DEF BeginExtraction
    <3>3. QED BY <3>1, <3>2
  <2>2. QED BY <2>1, SectionMarks
<1>3. CASE ExtractFails(w)
  <2> DEFINE target == IF job[w].attempt >= MaxAttempts THEN "failed" ELSE "retryable"
  <2>1. target \in Statuses \ {"extracting", "complete"}
    BY DEF Statuses
  <2>2. ASSUME MayTransition(w, "extracting", target)
        PROVE  Guarded(disk, Transition(target, receipt.bound, Settle(w), Maximum))
    <3>1. receipt # None /\ receipt.bound \in BOOLEAN
      <4>1. receipt # None /\ receipt \in Receipt
        BY <1>0, <2>2, ReceiptIs DEF MayTransition, HoldsReceipt
      <4>2. QED BY <4>1 DEF Receipt
    <3>2. Maximum \in Charges /\ Tame(Settle(w)) /\ \A u : Turns(Settle(w), u, u)
      BY <1>0, SettleTame DEF Maximum, Charges
    <3> HIDE DEF target
    <3>3. QED BY <1>0, <2>1, <3>1, <3>2, TransitionMarks
  <2>3. Section(w, IF MayTransition(w, "extracting", target)
                   THEN Transition(target, receipt.bound, Settle(w), Maximum)
                   ELSE << >>, "release")
    BY <1>3 DEF ExtractFails
  <2> HIDE DEF target
  <2>4. PICK writes : Guarded(disk, writes) /\ Section(w, writes, "release")
    BY <2>2, <2>3, NothingGuarded
  <2>5. QED BY <2>4, SectionMarks
<1>4. QED BY <1>1, <1>2, <1>3

LEMMA CommitGuarded ==
  ASSUME TypeInv, receipt # None, receipt.bound, NEW w \in Workers, NEW batch \in Batch,
         NEW usage \in Charges
  PROVE  Guarded(disk, CommitWrites(w, batch, usage))
<1> DEFINE r == [receipt EXCEPT !.status = "complete", !.usage = usage, !.count = Cardinality(batch)]
           u == TrackedNow
           begun == << u[1], u[2], batch >>
           told == << u[1], "complete", batch >>
           made == << r, "complete", batch >>
           last == << r, "complete", None >>
           journal == Write("journal", batch)
           growing == Growing("staged", disk.staged, batch)
           stages == Shrinking("staged", disk.staged \cup batch, batch)
           ended == Write("journal", None)
           ledger == Write("ledger", "complete")
           final == Write("receipt", r)
           a == Prepare(batch)
           b == a \o Publish(batch)
           c == b \o Settle(w)
           e == c \o Conclude(batch, usage)
           tail == stages \o ended
<1>1. r \in Receipt /\ r.status = "complete" /\ r.bound
  <2>1. receipt \in Receipt
    BY ReceiptIs
  <2>2. Cardinality(batch) \in Nat
    BY Enumerated
  <2>3. QED BY <2>1, <2>2 DEF Receipt, Statuses
<1>2. Agrees("receipt", r, disk.config) /\ ~Unended(r, "complete", None)
  BY <1>1 DEF Agrees, Unended
<1>3. /\ Mildly(journal) /\ Tame(ended) /\ Mildly(ledger) /\ Mildly(final)
      /\ Tame(Write("manifest", batch))
  BY <1>1, <1>2, TameWrites DEF Statuses
<1>4. /\ Tame(growing) /\ Tame(stages) /\ Tame(Growing("observations", disk.observations, batch))
      /\ \A z : /\ Turns(growing, z, z) /\ Turns(stages, z, z)
                /\ Turns(Growing("observations", disk.observations, batch), z, z)
  <2>1. disk.staged \cup batch \in Batch
    BY LeftoversAre DEF Batch
  <2>2. QED BY <2>1, LeftoversAre, SpreadsTame
<1>5. /\ Turns(journal, u, begun) /\ \A z : Turns(Write("manifest", batch), z, z)
  <2> HIDE DEF u
  <2>1. QED BY OneTurns DEF Tracked
<1>6. Turns(ledger, begun, told) /\ Turns(final, told, made) /\ Turns(ended, made, last)
  <2>1. /\ begun[1] = u[1] /\ begun[3] = batch /\ told[2] = "complete" /\ told[3] = batch
        /\ made[1] = r /\ made[2] = "complete"
    OBVIOUS
  <2> HIDE DEF begun, told, made, r
  <2>2. /\ Turns(ledger, begun, << begun[1], "complete", begun[3] >>)
        /\ Turns(final, told, << r, told[2], told[3] >>)
        /\ Turns(ended, made, << made[1], made[2], None >>)
    BY OneTurns
  <2>3. /\ told = << begun[1], "complete", begun[3] >>
        /\ made = << r, told[2], told[3] >>
        /\ last = << made[1], made[2], None >>
    BY <2>1 DEF told, made
  <2>4. QED BY <2>2, <2>3
<1> HIDE DEF r, u, begun, told, made, last, journal, growing, stages, ended, ledger, final
<1>7. Mildly(a) /\ Marks(a) /\ Turns(a, u, begun)
  <2>1. /\ Mildly(MarkActive \o journal) /\ Marks(MarkActive \o journal)
        /\ Turns(MarkActive \o journal, u, begun)
    BY <1>3, <1>5, MarkIs, MildJoined, TurnsJoined
  <2>2. QED BY <1>4, <2>1, MildJoined, TurnsJoined DEF Tame, Prepare, journal, growing
<1> HIDE DEF a
<1>8. Mildly(Publish(batch)) /\ Turns(Publish(batch), begun, begun)
  BY <1>3, <1>4, <1>5, MildJoined, TurnsJoined DEF Tame, Publish
<1>9. Mildly(b) /\ Marks(b) /\ Turns(b, u, begun)
  BY <1>7, <1>8, MildJoined, TurnsJoined DEF Tame
<1> HIDE DEF b
<1>10. Mildly(c) /\ Marks(c) /\ Turns(c, u, begun)
  BY <1>9, SettleTame, MildJoined, TurnsJoined DEF Tame
<1> HIDE DEF c
<1>11. Mildly(Conclude(batch, usage)) /\ Turns(Conclude(batch, usage), begun, made)
  BY <1>3, <1>6, MildJoined, TurnsJoined DEF Conclude, ledger, final, r
<1>12. Mildly(e) /\ Marks(e) /\ Turns(e, u, made)
  BY <1>10, <1>11, MildJoined, TurnsJoined DEF Tame
<1> HIDE DEF e
<1>13. Mildly(tail) /\ Turns(tail, made, last)
  BY <1>3, <1>4, <1>6, MildJoined, TurnsJoined DEF Tame
<1> HIDE DEF tail
<1>14. Mildly(e \o tail) /\ Led(e \o tail) /\ Turns(e \o tail, u, last)
  BY <1>12, <1>13, MildJoined, TurnsJoined DEF Tame
<1>15. Guarded(disk, (e \o tail) \o RetireActive)
  BY <1>2, <1>14, GuardsRetired DEF u, last
<1>16. e \o (tail \o RetireActive) = (e \o tail) \o RetireActive
  <2>1. e \in Writes /\ tail \in Writes /\ RetireActive \in Writes
    BY <1>12, <1>13, MildJoined, MarksAreCalm, CalmIsWritten
  <2>2. QED BY <2>1, Regrouped
<1>17. CommitWrites(w, batch, usage) = e \o (tail \o RetireActive)
  BY DEF CommitWrites, CleanUp, e, c, b, a, tail, stages, ended
<1>18. QED BY <1>15, <1>16, <1>17

LEMMA CommitMarks ==
  ASSUME MarksInv, CaptureInv, NEW w \in Workers, NEW batch \in Batch, NEW usage \in Charges,
         Commit(w, batch, usage), UNCHANGED kept
  PROVE  MarksInv'
<1>1. \E writes : Guarded(disk, writes) /\ Section(w, writes, "release")
  <2>1. HoldsReceipt(w) /\ receipt.bound => Guarded(disk, CommitWrites(w, batch, usage))
    BY CommitGuarded DEF HoldsReceipt, CaptureInv
  <2>2. QED BY <2>1, NothingGuarded DEF Commit
<1>2. QED BY <1>1, SectionMarks

LEMMA WaitingMarks ==
  ASSUME MarksInv, CaptureInv, NEW w \in Workers,
         \/ \E refused \in BOOLEAN : Check(w, refused)
         \/ Select(w) \/ Finish(w) \/ Unavailable(w) \/ ExtractRaises(w) \/ LockBusy(w) \/ Retry(w),
         UNCHANGED kept
  PROVE  MarksInv'
<1>1. ASSUME NEW label, todo[w] = << >>, Goto(w, label), UNCHANGED <<disk, todo>>
      PROVE  MarksInv'
  <2>1. disk \in Disk /\ disk' = disk /\ Later(disk, disk')
    BY <1>1, DiskHas, CaptureAssumption DEF CaptureInv, TypeInv, Later
  <2>2. CopiesFit'
    BY <2>1 DEF MarksInv, CopiesFit
  <2>3. \A v \in Workers : todo'[v] = << >> \/ (todo'[v] = todo[v] /\ pc'[v] = pc[v])
    BY <1>1 DEF Goto, CaptureInv, TypeInv
  <2>4. QED BY <2>1, <2>2, <2>3, QuietMarks
<1>2. CASE \E refused \in BOOLEAN : Check(w, refused)
  <2>1. \/ todo[w] = << >> /\ Goto(w, "checked") /\ UNCHANGED <<disk, todo>>
        \/ Section(w, << >>, "checked") \/ Section(w, << >>, "handled")
    BY <1>2 DEF Check, At
  <2>2. QED BY <1>1, <2>1, NothingGuarded, SectionMarks
<1>3. CASE Select(w) \/ Finish(w) \/ Unavailable(w) \/ ExtractRaises(w) \/ LockBusy(w) \/ Retry(w)
  <2>1. todo[w] = << >> /\ UNCHANGED <<disk, todo>> /\ \E label : Goto(w, label)
    BY <1>3 DEF Select, Finish, Unavailable, ExtractRaises, LockBusy, Retry, At
  <2>2. QED BY <1>1, <2>1
<1>4. QED BY <1>2, <1>3

-----------------------------------------------------------------------------
(* Backup and restore                                                      *)

\* The files of a restore that one write makes; those that neither mark a
\* receipt nor are one.
Brought == FileNames \ {"config", "staged", "observations"}
Aside == Brought \ {"receipt", "workset"}
Plain(config) == {x \in Fit(config) : x.file \notin {"receipt", "active", "workset"}}

Spread(S) == \A x \in WritesOf(FileNames) : x.file \in {"staged", "observations"} => x \in S

LEMMA SpreadsIn ==
  ASSUME NEW S, Spread(S), NEW f \in {"observations", "staged"}, NEW before \in Batch,
         NEW batch \in Batch
  PROVE  Growing(f, before, batch) \in Seq(S) /\ Shrinking(f, before, batch) \in Seq(S)
<1>1. ASSUME NEW t \in Writes, \A i \in 1 .. Len(t) : t[i].file = f PROVE t \in Seq(S)
  <2>1. \A i \in 1 .. Len(t) : t[i] \in WritesOf(FileNames)
    BY DEF Writes
  <2>2. \A i \in 1 .. Len(t) : t[i] \in S
    BY <1>1, <2>1 DEF Spread
  <2>3. QED BY <2>2, Narrowed DEF Writes
<1>2. /\ Growing(f, before, batch) \in Writes /\ Shrinking(f, before, batch) \in Writes
      /\ \A i \in 1 .. Len(Growing(f, before, batch)) : Growing(f, before, batch)[i].file = f
      /\ \A i \in 1 .. Len(Shrinking(f, before, batch)) : Shrinking(f, before, batch)[i].file = f
  BY SpreadIs
<1>3. QED BY <1>1, <1>2

LEMMA BringIn ==
  ASSUME NEW S, Spread(S), NEW d \in Disk,
         \A f \in Brought : d[f] # Blank[f] => [file |-> f, value |-> d[f]] \in S
  PROVE  Bring(d) \in Seq(S)
<1>1. \A f \in Brought : Put(f, d[f]) \in Seq(S)
  BY Lists DEF Put, Write
<1>2. \A f \in {"staged", "observations"} : Growing(f, {}, d[f]) \in Seq(S)
  <2>1. {} \in Batch /\ d.staged \in Batch /\ d.observations \in Batch
    BY DiskHas DEF Batch
  <2>2. QED BY <2>1, SpreadsIn
<1>3. /\ Put("reserved", d.reserved) \in Seq(S) /\ Put("settled", d.settled) \in Seq(S)
      /\ Put("manifest", d.manifest) \in Seq(S) /\ Put("journal", d.journal) \in Seq(S)
      /\ Put("transition", d.transition) \in Seq(S) /\ Put("epoch", d.epoch) \in Seq(S)
      /\ Put("lease", d.lease) \in Seq(S) /\ Put("ledger", d.ledger) \in Seq(S)
      /\ Put("receipt", d.receipt) \in Seq(S) /\ Put("workset", d.workset) \in Seq(S)
      /\ Growing("staged", {}, d.staged) \in Seq(S)
      /\ Growing("observations", {}, d.observations) \in Seq(S)
  BY <1>1, <1>2 DEF Brought, FileNames
<1>4. QED BY <1>3, Lists DEF Bring

LEMMA ClearedIn ==
  ASSUME TypeInv, NEW S, Spread(S),
         \A f \in Brought : [file |-> f, value |-> Blank[f]] \in S
  PROVE  Cleared \in Seq(S) /\ Reset("workset") \in Seq(S)
<1>1. \A f \in Brought : Reset(f) \in Seq(S)
  BY Lists DEF Reset, Write
<1>2. /\ Shrinking("staged", disk.staged, disk.staged) \in Seq(S)
      /\ Shrinking("observations", disk.observations, disk.observations) \in Seq(S)
  BY LeftoversAre, SpreadsIn
<1>3. /\ Reset("receipt") \in Seq(S) /\ Reset("ledger") \in Seq(S) /\ Reset("lease") \in Seq(S)
      /\ Reset("epoch") \in Seq(S) /\ Reset("transition") \in Seq(S) /\ Reset("journal") \in Seq(S)
      /\ Reset("manifest") \in Seq(S) /\ Reset("settled") \in Seq(S)
      /\ Reset("reserved") \in Seq(S) /\ Reset("workset") \in Seq(S)
  BY <1>1 DEF Brought, FileNames
<1>4. QED BY <1>2, <1>3, Lists DEF Cleared

LEMMA FitSpreads ==
  \A c : Spread(Mild(c)) /\ Spread(Plain(c)) /\ Spread(Untracked(c)) /\ Spread(Invalidating)
BY DEF Spread, Mild, Plain, Untracked, Fit, Invalidating, Agrees, Unmarking, Tracked

LEMMA EntryIs ==
  ASSUME NEW d \in Disk, NEW c, IsFit(d, c), NEW f \in Brought
  PROVE  /\ [file |-> f, value |-> d[f]] \in Fit(c)
         /\ [file |-> f, value |-> d[f]] \in WritesOf(FileNames)
         /\ f # "active"
<1> DEFINE x == [file |-> f, value |-> d[f]]
<1>1. f \in FileNames /\ f # "config" /\ f # "active"
  BY DEF Brought, FileNames
<1>2. x \in WritesOf(FileNames) /\ x.file = f /\ x.value = d[f]
  BY <1>1, ContentsOf, IsWrite
<1>3. Agrees(f, d[f], c)
  BY DEF IsFit, Agrees
<1> HIDE DEF x
<1>4. x \in Fit(c)
  BY <1>1, <1>2, <1>3 DEF Fit
<1>5. QED BY <1>1, <1>2, <1>4 DEF x

LEMMA BlankFits == \A c : IsFit(Blank, c)
BY DEF IsFit, Agrees, Blank

LEMMA BringMildly ==
  ASSUME NEW d \in Disk, IsFit(d, disk.config),
         d.workset # None /\ d.workset.config = disk.config => d.workset.active
  PROVE  Mildly(Bring(d))
<1>1. ASSUME NEW f \in Brought PROVE [file |-> f, value |-> d[f]] \in Mild(disk.config)
  <2> DEFINE x == [file |-> f, value |-> d[f]]
  <2>1. x \in Fit(disk.config) /\ x.file = f /\ x.value = d[f] /\ f # "active"
    BY EntryIs
  <2> HIDE DEF x
  <2>2. ~Unmarking(x, disk.config)
    BY <2>1 DEF Unmarking
  <2>3. QED BY <2>1, <2>2 DEF Mild, x
<1>2. QED BY <1>1, FitSpreads, BringIn DEF Mildly

LEMMA ClearedMildly ==
  ASSUME TypeInv
  PROVE  Mildly(Cleared) /\ Mildly(Reset("workset"))
<1>1. ASSUME NEW f \in Brought PROVE [file |-> f, value |-> Blank[f]] \in Mild(disk.config)
  <2> DEFINE x == [file |-> f, value |-> Blank[f]]
  <2>1. x \in Fit(disk.config) /\ x.file = f /\ x.value = Blank[f] /\ f # "active"
    BY EntryIs, BlankFits, BlankIs
  <2> HIDE DEF x
  <2>2. ~Unmarking(x, disk.config)
    BY <2>1 DEF Unmarking, Blank
  <2>3. QED BY <2>1, <2>2 DEF Mild, x
<1>2. QED BY <1>1, FitSpreads, ClearedIn DEF Mildly

LEMMA BackupMarks ==
  ASSUME MarksInv, CaptureInv, Backup
  PROVE  MarksInv'
<1>1. /\ disk \in Disk /\ UNCHANGED <<disk, todo, pc>>
      /\ kept'.zip = Archived /\ kept'.former = kept.former
  BY DEF Backup, CaptureInv, TypeInv
<1>2. Archived.receipt = disk.receipt /\ Archived.workset = None
  BY DEF Archived, Blank, receipt
<1>3. CopiesFit'
  BY <1>1, <1>2 DEF MarksInv, CopiesFit, IsFit
<1>4. Later(disk, disk')
  BY <1>1, DiskHas, CaptureAssumption DEF Later
<1>5. QED BY <1>1, <1>3, <1>4, QuietMarks

LEMMA RestoreMarks ==
  ASSUME MarksInv, CaptureInv, NEW w \in Workers, Restore(w)
  PROVE  MarksInv'
<1> DEFINE d == kept.zip
           reset == Reset("workset")
           t == (reset \o Cleared) \o Bring(d)
<1>0. TypeInv
  BY DEF CaptureInv
<1>1. /\ todo'[w] = t /\ \A v \in Workers \ {w} : todo'[v] = << >>
      /\ UNCHANGED disk /\ pc'[w] = "restoring" /\ d # None
      /\ kept'.zip = None /\ kept'.former \in {None, disk}
  BY DEF Restore, Section, Goto, Free, CaptureInv, TypeInv
<1>2. d \in Disk /\ d.workset = None /\ IsFit(d, disk.config)
  BY <1>0, <1>1 DEF TypeInv, MarksInv, CopiesFit, IsFit, Agrees
<1>3. Mildly(reset) /\ Mildly(Cleared) /\ Mildly(Bring(d))
  BY <1>0, <1>2, BringMildly, ClearedMildly
<1>4. disk.workset # None => Marks(reset)
  <2> SUFFICES ASSUME disk.workset # None PROVE Marks(reset)
    OBVIOUS
  <2> DEFINE x == [file |-> "workset", value |-> None]
  <2>1. Marking(x) /\ ~Opening(x)
    BY DEF Marking, Opening
  <2>2. reset = << x >>
    BY DEF Reset, Blank, Write
  <2> HIDE DEF x, reset
  <2>3. Len(reset) = 1 /\ reset[1] = x
    BY <2>2
  <2>4. QED BY <2>1, <2>3 DEF Marks, Led
<1>5. t \in Seq(Invalidating)
  <2>1. ASSUME NEW e \in Disk, e.workset = None, NEW f \in Brought
        PROVE  [file |-> f, value |-> e[f]] \in Invalidating
    <3> DEFINE x == [file |-> f, value |-> e[f]]
    <3>1. f \in FileNames /\ f # "active"
      BY DEF Brought, FileNames
    <3>2. x \in WritesOf(FileNames) /\ x.file = f /\ x.value = e[f]
      BY <3>1, ContentsOf, IsWrite
    <3> HIDE DEF x
    <3>3. x \in Invalidating
      BY <2>1, <3>1, <3>2 DEF Invalidating
    <3>4. QED BY <3>3 DEF x
  <2>2. Blank \in Disk /\ Blank.workset = None
    BY BlankIs DEF Blank
  <2>3. Cleared \in Seq(Invalidating) /\ reset \in Seq(Invalidating)
    BY <1>0, <2>1, <2>2, FitSpreads, ClearedIn
  <2>4. Bring(d) \in Seq(Invalidating)
    BY <1>2, <2>1, FitSpreads, BringIn
  <2> HIDE DEF d, reset
  <2>5. QED BY <2>3, <2>4, Lists
<1> HIDE DEF d, reset
<1>6. Mildly(t) /\ (Marks(reset) => Led(t))
  <2>1. Mildly(reset \o Cleared) /\ (Marks(reset) => Marks(reset \o Cleared))
    BY <1>3, MildJoined
  <2>2. QED BY <1>3, <2>1, MildJoined DEF Tame
<1>7. IsMarked(disk) \/ Led(t)
  BY <1>4, <1>6 DEF IsMarked
<1> HIDE DEF t
<1>8. Guarded(disk, t)
  BY <1>6, <1>7, GuardsMild
<1>9. IsSafe(disk') /\ IsFit(disk', disk'.config) /\ Guarded(disk', todo'[w])
  BY <1>1, <1>8 DEF MarksInv
<1>10. CopiesFit'
  BY <1>1 DEF MarksInv, CopiesFit, IsSafe, IsMarked
<1>11. Restores(w)'
  BY <1>1, <1>5 DEF Restores
<1>12. QED BY <1>1, <1>9, <1>10, <1>11, OneMarks

\* What is neither the receipt nor the workset.
LEMMA PlainIs ==
  \A c : /\ Seq(Plain(c)) \subseteq Seq(Mild(c)) /\ Seq(Plain(c)) \subseteq Seq(Vacant(c))
         /\ Seq(Untracked(c)) \subseteq Seq(Vacant(c))
<1> SUFFICES ASSUME NEW c
             PROVE  /\ Seq(Plain(c)) \subseteq Seq(Mild(c)) /\ Seq(Plain(c)) \subseteq Seq(Vacant(c))
                    /\ Seq(Untracked(c)) \subseteq Seq(Vacant(c))
  OBVIOUS
<1>1. Plain(c) \subseteq Mild(c) /\ Plain(c) \subseteq Vacant(c) /\ Untracked(c) \subseteq Vacant(c)
  BY DEF Plain, Mild, Vacant, Untracked, Unmarking, Tracked
<1>2. QED BY <1>1, Lists

LEMMA AsideIs ==
  ASSUME NEW d \in Disk, NEW f \in Aside, NEW c
  PROVE  /\ Write(f, d[f]) \in Seq(Plain(c)) /\ Write(f, Blank[f]) \in Seq(Plain(c))
         /\ << >> \in Seq(Plain(c)) /\ f \in Brought /\ f \notin {"receipt", "workset"}
<1>1. ASSUME NEW e \in Disk PROVE Write(f, e[f]) \in Seq(Plain(c))
  <2> DEFINE x == [file |-> f, value |-> e[f]]
  <2>1. f \in FileNames /\ f \notin {"active", "config", "receipt", "workset"}
    BY DEF Aside, Brought, FileNames
  <2>2. x \in WritesOf(FileNames) /\ x.file = f
    BY <2>1, ContentsOf, IsWrite
  <2> HIDE DEF x
  <2>3. x \in Plain(c)
    BY <2>1, <2>2 DEF Plain, Fit, Agrees
  <2>4. QED BY <2>3, Lists DEF Write, x
<1>2. QED BY <1>1, BlankIs, Lists DEF Aside

LEMMA AsideTurns ==
  ASSUME NEW f \in Aside, NEW v
  PROVE  /\ f \notin Tracked => \A u : Turns(Write(f, v), u, u) /\ Turns(<< >>, u, u)
         /\ f = "ledger" => \A r, l, j : /\ Turns(Write(f, v), << r, l, j >>, << r, v, j >>)
                                         /\ Turns(<< >>, << r, l, j >>, << r, l, j >>)
         /\ f = "journal" => \A r, l, j : /\ Turns(Write(f, v), << r, l, j >>, << r, l, v >>)
                                          /\ Turns(<< >>, << r, l, j >>, << r, l, j >>)
<1>1. \A u : Turns(<< >>, u, u)
  BY TurnsJoined
<1>2. f \notin Tracked => \A u : Turns(Write(f, v), u, u)
  BY OneTurns
<1>3. ASSUME NEW r, NEW l, NEW j
      PROVE  /\ f = "ledger" => Turns(Write(f, v), << r, l, j >>, << r, v, j >>)
             /\ f = "journal" => Turns(Write(f, v), << r, l, j >>, << r, l, v >>)
  <2> DEFINE u == << r, l, j >>
  <2>1. u[1] = r /\ u[2] = l /\ u[3] = j
    OBVIOUS
  <2> HIDE DEF u
  <2>2. /\ f = "ledger" => Turns(Write(f, v), u, << u[1], v, u[3] >>)
        /\ f = "journal" => Turns(Write(f, v), u, << u[1], u[2], v >>)
    BY OneTurns
  <2>3. QED BY <2>1, <2>2 DEF u
<1>4. QED BY <1>1, <1>2, <1>3

\* They are removed, and written from nothing.
LEMMA AsideMoves ==
  ASSUME TypeInv, NEW d \in Disk, NEW f \in Aside
  PROVE  /\ Put(f, d[f]) \in Seq(Plain(disk.config)) /\ Reset(f) \in Seq(Plain(disk.config))
         /\ f \notin Tracked => \A u : Turns(Put(f, d[f]), u, u) /\ Turns(Reset(f), u, u)
         /\ f = "ledger" => \A r, j : /\ Turns(Put(f, d[f]), << r, None, j >>, << r, d.ledger, j >>)
                                      /\ Turns(Reset(f), << r, disk.ledger, j >>, << r, None, j >>)
         /\ f = "journal" => \A r, l : /\ Turns(Put(f, d[f]), << r, l, None >>, << r, l, d.journal >>)
                                       /\ Turns(Reset(f), << r, l, disk.journal >>, << r, l, None >>)
<1>1. Blank.ledger = None /\ Blank.journal = None
  BY DEF Blank
<1>2. /\ (Put(f, d[f]) = << >> /\ d[f] = Blank[f]) \/ Put(f, d[f]) = Write(f, d[f])
      /\ (Reset(f) = << >> /\ disk[f] = Blank[f]) \/ Reset(f) = Write(f, Blank[f])
  BY DEF Put, Reset
<1>3. /\ Put(f, d[f]) \in Seq(Plain(disk.config)) /\ Reset(f) \in Seq(Plain(disk.config))
  BY <1>2, AsideIs
<1>4. f \notin Tracked => \A u : Turns(Put(f, d[f]), u, u) /\ Turns(Reset(f), u, u)
  BY <1>2, AsideTurns
<1>5. ASSUME f = "ledger", NEW r, NEW j
      PROVE  /\ Turns(Put(f, d[f]), << r, None, j >>, << r, d.ledger, j >>)
             /\ Turns(Reset(f), << r, disk.ledger, j >>, << r, None, j >>)
  <2>1. d[f] = d.ledger /\ Blank[f] = None /\ disk[f] = disk.ledger
    BY <1>1, <1>5
  <2>2. \A v, l : /\ Turns(Write(f, v), << r, l, j >>, << r, v, j >>)
                  /\ Turns(<< >>, << r, l, j >>, << r, l, j >>)
    BY <1>5, AsideTurns
  <2>3. QED BY <1>2, <2>1, <2>2
<1>6. ASSUME f = "journal", NEW r, NEW l
      PROVE  /\ Turns(Put(f, d[f]), << r, l, None >>, << r, l, d.journal >>)
             /\ Turns(Reset(f), << r, l, disk.journal >>, << r, l, None >>)
  <2>1. d[f] = d.journal /\ Blank[f] = None /\ disk[f] = disk.journal
    BY <1>1, <1>6
  <2>2. \A v, j : /\ Turns(Write(f, v), << r, l, j >>, << r, l, v >>)
                  /\ Turns(<< >>, << r, l, j >>, << r, l, j >>)
    BY <1>6, AsideTurns
  <2>3. QED BY <1>2, <2>1, <2>2
<1>7. QED BY <1>3, <1>4, <1>5, <1>6

\* What goes on from one list to the next.
Carries(t, u, v) == t \in Seq(Plain(disk.config)) /\ Turns(t, u, v)

LEMMA CarriesJoined ==
  /\ \A u : Carries(<< >>, u, u)
  /\ \A s, t, u, v, z : Carries(s, u, v) /\ Carries(t, v, z) => Carries(s \o t, u, z)
BY Lists, PlainIs, TurnsJoined DEF Carries, Mildly

LEMMA MembersCarry ==
  ASSUME TypeInv, NEW d \in Disk
  PROVE  \A u : /\ Carries(Growing("observations", {}, d.observations), u, u)
                /\ Carries(Shrinking("observations", disk.observations, disk.observations), u, u)
                /\ Carries(Shrinking("staged", disk.staged, disk.staged), u, u)
<1>1. /\ {} \in Batch /\ d.observations \in Batch /\ disk.observations \in Batch
      /\ disk.staged \in Batch
  BY DiskHas, LeftoversAre DEF Batch
<1>2. QED BY <1>1, FitSpreads, SpreadsIn, SpreadsTame DEF Carries

\* Cleared takes the receipt away after what is staged, and the rest after it.
Removes(t, v) ==
  LET stages == Shrinking("staged", disk.staged, disk.staged)
  IN  IF disk.receipt = None THEN Carries(t, TrackedNow, v)
      ELSE \E b : Around(t, stages, None, b) /\ Carries(b, TrackedNow, v)

LEMMA RemovesJoined ==
  ASSUME TypeInv, NEW s, NEW t, NEW v, NEW z, Removes(s, v), Carries(t, v, z)
  PROVE  Removes(s \o t, z)
<1> DEFINE stages == Shrinking("staged", disk.staged, disk.staged)
<1>1. CASE disk.receipt = None
  BY <1>1, CarriesJoined DEF Removes
<1>2. CASE disk.receipt # None
  <2>1. PICK b : Around(s, stages, None, b) /\ Carries(b, TrackedNow, v)
    BY <1>2 DEF Removes
  <2>2. stages \in Writes /\ b \in Writes /\ t \in Writes
    <3>1. stages \in Writes
      BY LeftoversAre, Spreads, CalmIsWritten
    <3>2. QED BY <2>1, <3>1, PlainIs, FitIsWritten DEF Carries
  <2> HIDE DEF stages
  <2>3. Around(s \o t, stages, None, b \o t)
    BY <2>1, <2>2, AroundJoined
  <2>4. Carries(b \o t, TrackedNow, z)
    BY <2>1, CarriesJoined
  <2>5. QED BY <1>2, <2>3, <2>4 DEF Removes, stages
<1>3. QED BY <1>1, <1>2

LEMMA ClearedRemoves ==
  ASSUME TypeInv
  PROVE  Removes(Cleared, << disk.receipt, None, None >>)
<1> DEFINE stages == Shrinking("staged", disk.staged, disk.staged)
           members == Shrinking("observations", disk.observations, disk.observations)
           r == disk.receipt
           now == << r, disk.ledger, disk.journal >>
           told == << r, None, disk.journal >>
           last == << r, None, None >>
<1>1. disk \in Disk
  BY DEF TypeInv
<1>2. \A u : Carries(stages, u, u) /\ Carries(members, u, u)
  BY <1>1, MembersCarry
<1>3. \A f \in {"lease", "epoch", "transition", "manifest", "settled", "reserved"} :
        \A u : Carries(Reset(f), u, u)
  <2>1. \A f \in {"lease", "epoch", "transition", "manifest", "settled", "reserved"} :
          f \in Aside /\ f \notin Tracked
    BY DEF Aside, Brought, FileNames, Tracked
  <2>2. QED BY <1>1, <2>1, AsideMoves DEF Carries
<1>4. Carries(Reset("ledger"), now, told) /\ Carries(Reset("journal"), told, last)
  <2>1. "ledger" \in Aside /\ "journal" \in Aside
    BY DEF Aside, Brought, FileNames
  <2>2. QED BY <1>1, <2>1, AsideMoves DEF Carries
<1> HIDE DEF members
<1>5. Removes(stages \o Reset("receipt"), now)
  <2>1. TrackedNow = now
    BY DEF TrackedNow
  <2>2. stages \in Writes
    BY LeftoversAre, Spreads, CalmIsWritten
  <2>3. CASE r = None
    <3>1. Reset("receipt") = << >>
      BY <2>3 DEF Reset, Blank
    <3>2. stages \o << >> = stages
      BY <2>2, ConcatEmptySeq DEF Writes
    <3>3. QED BY <1>2, <2>1, <2>3, <3>1, <3>2 DEF Removes
  <2>4. CASE r # None
    <3> HIDE DEF stages
    <3> DEFINE t == stages \o Write("receipt", None)
    <3>1. Reset("receipt") = Write("receipt", None)
      BY <2>4 DEF Reset, Blank
    <3>2. t \in Writes
      BY <2>2, CalmWrites, CalmIsWritten, Joined
    <3> HIDE DEF t
    <3>3. t \o << >> = t
      BY <3>2, ConcatEmptySeq DEF Writes
    <3>4. Around(t, stages, None, << >>)
      BY <3>3 DEF Around, t
    <3>5. Carries(<< >>, TrackedNow, now)
      BY <2>1, CarriesJoined
    <3>6. Removes(t, now)
      BY <2>4, <3>4, <3>5 DEF Removes, stages
    <3>7. QED BY <3>1, <3>6 DEF t, stages
  <2>5. QED BY <2>3, <2>4
<1> HIDE DEF stages, now, told, last
<1>6. Cleared = stages \o Reset("receipt") \o members \o Reset("ledger") \o Reset("lease")
                  \o Reset("epoch") \o Reset("transition") \o Reset("journal") \o Reset("manifest")
                  \o Reset("settled") \o Reset("reserved")
  BY DEF Cleared, stages, members
<1>7. Removes(stages \o Reset("receipt") \o members \o Reset("ledger") \o Reset("lease")
                  \o Reset("epoch") \o Reset("transition"), told)
  BY <1>2, <1>3, <1>4, <1>5, RemovesJoined
<1>8. Removes(stages \o Reset("receipt") \o members \o Reset("ledger") \o Reset("lease")
                  \o Reset("epoch") \o Reset("transition") \o Reset("journal") \o Reset("manifest")
                  \o Reset("settled") \o Reset("reserved"), last)
  BY <1>3, <1>4, <1>7, RemovesJoined
<1>9. QED BY <1>6, <1>8 DEF last

\* The former files come again after s has left no receipt, ledger or journal.
LEMMA FillsWith ==
  ASSUME TypeInv, NEW d \in Disk, IsFit(d, disk.config), ~IsUnended(d), NEW s,
         Carries(s, TrackedNow, << disk.receipt, None, None >>)
  PROVE  /\ Fills(disk.config, disk.ledger, disk.journal, (s \o Bring(d)) \o Write("workset", None))
         /\ (s \o Bring(d)) \o Write("workset", None) \in Writes
<1> DEFINE c == disk.config
           front == Put("reserved", d.reserved) \o Put("settled", d.settled)
                      \o Put("manifest", d.manifest) \o Put("journal", d.journal)
                      \o Put("transition", d.transition) \o Put("epoch", d.epoch)
                      \o Put("lease", d.lease) \o Put("ledger", d.ledger)
                      \o Growing("observations", {}, d.observations)
           seal == Put("workset", d.workset)
           stages == Growing("staged", {}, d.staged)
           off == Write("workset", None)
           gone == << disk.receipt, None, None >>
           noted == << disk.receipt, None, d.journal >>
           told == << disk.receipt, d.ledger, d.journal >>
<1>1. Carries(front, gone, told)
  <2>1. \A f \in {"lease", "epoch", "transition", "manifest", "settled", "reserved"} :
          \A u : Carries(Put(f, d[f]), u, u)
    <3>1. \A f \in {"lease", "epoch", "transition", "manifest", "settled", "reserved"} :
            f \in Aside /\ f \notin Tracked
      BY DEF Aside, Brought, FileNames, Tracked
    <3>2. QED BY <3>1, AsideMoves DEF Carries
  <2>2. /\ Carries(Put("journal", d.journal), gone, noted)
        /\ Carries(Put("ledger", d.ledger), noted, told)
    <3>1. "ledger" \in Aside /\ "journal" \in Aside
      BY DEF Aside, Brought, FileNames
    <3>2. QED BY <3>1, AsideMoves DEF Carries
  <2>3. \A u : Carries(Growing("observations", {}, d.observations), u, u)
    BY MembersCarry
  <2> HIDE DEF gone, noted, told
  <2>4. Carries(Put("reserved", d.reserved) \o Put("settled", d.settled)
                  \o Put("manifest", d.manifest) \o Put("journal", d.journal), gone, noted)
    BY <2>1, <2>2, CarriesJoined
  <2>5. Carries(Put("reserved", d.reserved) \o Put("settled", d.settled)
                  \o Put("manifest", d.manifest) \o Put("journal", d.journal)
                  \o Put("transition", d.transition) \o Put("epoch", d.epoch)
                  \o Put("lease", d.lease), gone, noted)
    BY <2>1, <2>4, CarriesJoined
  <2>6. QED BY <2>2, <2>3, <2>5, CarriesJoined
<1> HIDE DEF front
<1> DEFINE a == s \o front
<1>2. Carries(a, TrackedNow, told)
  BY <1>1, CarriesJoined
<1> HIDE DEF a
<1>3. /\ Ends(a, "ledger", disk.ledger, d.ledger) /\ Ends(a, "journal", disk.journal, d.journal)
      /\ a \in Seq(Vacant(c)) /\ a \in Writes
  <2>1. a \in Seq(Vacant(c)) /\ a \in Writes
    BY <1>2, PlainIs, FitIsWritten DEF Carries
  <2>2. QED BY <1>2, <2>1 DEF Carries, Turns, TrackedNow
<1>4. seal \in Seq(Untracked(c)) /\ stages \in Seq(Untracked(c)) /\ off \in Seq(Untracked(c))
  <2>1. ASSUME NEW e \in Disk, IsFit(e, c) PROVE Write("workset", e.workset) \in Seq(Untracked(c))
    <3> DEFINE x == [file |-> "workset", value |-> e.workset]
    <3>1. "workset" \in Brought
      BY DEF Brought, FileNames
    <3>2. x \in Fit(c) /\ x.file = "workset"
      BY <2>1, <3>1, EntryIs
    <3> HIDE DEF x
    <3>3. x \in Untracked(c)
      BY <3>2 DEF Untracked, Tracked
    <3>4. QED BY <3>3, Lists DEF Write, x
  <2>2. Blank.workset = None
    BY DEF Blank
  <2>3. {} \in Batch /\ d.staged \in Batch
    BY DiskHas DEF Batch
  <2>4. QED BY <2>1, <2>2, <2>3, BlankIs, BlankFits, FitSpreads, SpreadsIn, Lists DEF Put
<1>5. /\ s \in Writes /\ front \in Writes /\ seal \in Writes /\ stages \in Writes /\ off \in Writes
  BY <1>1, <1>4, PlainIs, FitIsWritten DEF Carries
<1> DEFINE p == Put("receipt", d.receipt)
<1>6. Bring(d) = ((front \o p) \o seal) \o stages
  BY DEF Bring, front
<1> HIDE DEF seal, stages, off
<1>7. CASE d.receipt = None
  <2>1. p = << >>
    BY <1>7 DEF Put, Blank
  <2>2. /\ s \in Seq(Vacant(c)) /\ front \in Seq(Vacant(c)) /\ p \in Seq(Vacant(c))
        /\ seal \in Seq(Vacant(c)) /\ stages \in Seq(Vacant(c)) /\ off \in Seq(Vacant(c))
    BY <1>1, <1>4, <2>1, PlainIs, Lists DEF Carries
  <2> HIDE DEF p
  <2>3. (s \o (((front \o p) \o seal) \o stages)) \o off \in Seq(Vacant(c))
    BY <2>2, Lists
  <2>4. QED BY <1>6, <2>3, FitIsWritten DEF Fills, off
<1>8. CASE d.receipt # None
  <2> DEFINE r == d.receipt
             fp == front \o p
             b == ((<< >> \o seal) \o stages) \o off
  <2>1. p = Write("receipt", r) /\ r \in Receipt /\ Agrees("receipt", r, c)
    BY <1>8, DiskHas DEF Put, Blank, IsFit
  <2>2. p \in Writes
    BY <2>1, CalmWrites, CalmIsWritten
  <2>3. fp \in Writes /\ << >> \in Writes
    BY <1>5, <2>2, Joined
  <2>4. fp \o << >> = fp
    BY <2>3, ConcatEmptySeq DEF Writes
  <2>5. Around(fp, front, r, << >>)
    BY <2>1, <2>4 DEF Around
  <2> HIDE DEF fp, p, r
  <2>6. Around(fp \o seal, front, r, << >> \o seal) /\ << >> \o seal \in Writes
    BY <1>5, <2>1, <2>3, <2>5, AroundJoined, Joined
  <2>7. /\ Around((fp \o seal) \o stages, front, r, (<< >> \o seal) \o stages)
        /\ (<< >> \o seal) \o stages \in Writes
    BY <1>5, <2>1, <2>6, AroundJoined, Joined
  <2>8. Around(s \o ((fp \o seal) \o stages), a, r, (<< >> \o seal) \o stages)
    BY <1>5, <2>1, <2>7, AroundJoined DEF a
  <2>9. Around((s \o ((fp \o seal) \o stages)) \o off, a, r, b)
    BY <1>3, <1>5, <2>1, <2>7, <2>8, AroundJoined
  <2>10. b \in Seq(Untracked(c))
    BY <1>4, Lists DEF seal, stages, off
  <2>11. ~Unended(r, d.ledger, d.journal)
    BY DEF IsUnended, r
  <2> HIDE DEF b
  <2>12. Fills(c, disk.ledger, disk.journal, (s \o ((fp \o seal) \o stages)) \o off)
    BY <1>3, <2>1, <2>9, <2>10, <2>11 DEF Fills
  <2>13. (s \o ((fp \o seal) \o stages)) \o off \in Writes
    BY <1>5, <2>3, Joined
  <2>14. QED BY <1>6, <2>12, <2>13 DEF fp, off
<1>9. QED BY <1>7, <1>8

LEMMA RestoreFailsMarks ==
  ASSUME MarksInv, CaptureInv, NEW w \in Workers, RestoreFails(w)
  PROVE  MarksInv'
<1> DEFINE d == kept.former
           off == Write("workset", None)
           t == (Cleared \o Bring(d)) \o off
           stages == Shrinking("staged", disk.staged, disk.staged)
<1>0. TypeInv
  BY DEF CaptureInv
<1>1. /\ todo'[w] = t /\ todo[w] # << >> /\ UNCHANGED <<disk, kept>> /\ pc'[w] = "reverting"
      /\ d # None /\ pc[w] = "restoring" /\ \A v \in Workers \ {w} : todo'[v] = todo[v]
  BY DEF RestoreFails, Goto, CaptureInv, TypeInv
<1>2. \A v \in Workers \ {w} : todo'[v] = << >>
  BY <1>1, NextWrite
<1>3. d \in Disk /\ IsFit(d, disk.config) /\ disk.workset \in {d.workset, None}
  BY <1>0, <1>1 DEF TypeInv, MarksInv, CopiesFit, Restores
<1> HIDE DEF d
<1>4. ASSUME IsUnended(d) PROVE Guarded(disk, t)
  <2>1. d.workset # None /\ d.workset.config = disk.config => d.workset.active
    BY <1>1, <1>4 DEF MarksInv, CopiesFit, d
  <2>2. IsMarked(disk)
    BY <1>3, <2>1 DEF IsMarked
  <2>3. Mildly(Cleared) /\ Mildly(Bring(d)) /\ Mildly(off)
    BY <1>0, <1>3, <2>1, ClearedMildly, BringMildly, TameWrites DEF Tame
  <2>4. Mildly(t)
    BY <2>3, MildJoined
  <2> HIDE DEF t
  <2>5. QED BY <2>2, <2>4, GuardsMild
<1>5. ASSUME ~IsUnended(d) PROVE Guarded(disk, t)
  <2>1. Removes(Cleared, << disk.receipt, None, None >>)
    BY <1>0, ClearedRemoves
  <2>2. CASE disk.receipt = None
    <3>1. Carries(Cleared, TrackedNow, << disk.receipt, None, None >>)
      BY <2>1, <2>2 DEF Removes
    <3>2. Fills(disk.config, disk.ledger, disk.journal, t)
      BY <1>0, <1>3, <1>5, <3>1, FillsWith
    <3> HIDE DEF t
    <3>3. QED BY <2>2, <3>2 DEF Guarded, Reverts
  <2>3. CASE disk.receipt # None
    <3>1. PICK b : Around(Cleared, stages, None, b)
                   /\ Carries(b, TrackedNow, << disk.receipt, None, None >>)
      BY <2>1, <2>3 DEF Removes
    <3>2. /\ Fills(disk.config, disk.ledger, disk.journal, (b \o Bring(d)) \o off)
          /\ (b \o Bring(d)) \o off \in Writes
      BY <1>0, <1>3, <1>5, <3>1, FillsWith
    <3>3. stages \in Seq(Staging(disk.config)) /\ stages \in Writes
      <4>1. stages \in Writes /\ \A i \in 1 .. Len(stages) : stages[i].file = "staged"
        BY <1>0, LeftoversAre, SpreadIs
      <4> HIDE DEF stages
      <4>2. \A i \in 1 .. Len(stages) : stages[i] \in WritesOf(FileNames)
        BY <4>1 DEF Writes
      <4>3. \A i \in 1 .. Len(stages) : stages[i] \in Staging(disk.config)
        BY <4>1, <4>2 DEF Staging, Fit, Agrees
      <4>4. QED BY <4>1, <4>3, Narrowed DEF Writes
    <3>4. b \in Writes /\ Bring(d) \in Writes /\ off \in Writes /\ b \o Bring(d) \in Writes
      <4>1. b \in Writes /\ Bring(d) \in Writes /\ off \in Writes
        BY <1>3, <3>1, PlainIs, FitIsWritten, BringIs, CalmWrites, CalmIsWritten DEF Carries
      <4>2. QED BY <4>1, Joined
    <3> HIDE DEF stages, off
    <3>5. Around(Cleared \o Bring(d), stages, None, b \o Bring(d))
      BY <3>1, <3>3, <3>4, AroundJoined
    <3>6. Around(t, stages, None, (b \o Bring(d)) \o off)
      BY <3>3, <3>4, <3>5, AroundJoined
    <3> HIDE DEF t
    <3>7. Empties(disk.config, disk.ledger, disk.journal, t)
      BY <3>2, <3>3, <3>6 DEF Empties
    <3>8. QED BY <3>7 DEF Guarded, Reverts
  <2>4. QED BY <2>2, <2>3
<1>6. Guarded(disk, t)
  BY <1>4, <1>5
<1> HIDE DEF t
<1>7. /\ IsSafe(disk') /\ IsFit(disk', disk'.config) /\ CopiesFit' /\ Guarded(disk', todo'[w])
  BY <1>1, <1>6 DEF MarksInv, CopiesFit
<1>8. Restores(w)'
  BY <1>1 DEF Restores
<1>9. QED BY <1>2, <1>7, <1>8, OneMarks

-----------------------------------------------------------------------------
LEMMA InitMarks == Init => MarksInv
<1> SUFFICES ASSUME Init PROVE MarksInv
  OBVIOUS
<1>1. /\ disk.receipt = None /\ disk.workset = None /\ kept.zip = None /\ kept.former = None
      /\ \A w \in Workers : todo[w] = << >>
  BY DEF Init, Blank
<1>2. IsSafe(disk) /\ IsFit(disk, disk.config) /\ CopiesFit
  BY <1>1 DEF IsSafe, IsUnended, Unended, IsFit, Agrees, CopiesFit
<1>3. \A w \in Workers : Guarded(disk, todo[w]) /\ Restores(w)
  BY <1>1, NothingMinds DEF Guarded, Restores
<1>4. QED BY <1>2, <1>3 DEF MarksInv

LEMMA StepMarks ==
  ASSUME MarksInv, ContentInv, CaptureInv, NEW w \in Workers, Step(w) \/ Start(w), UNCHANGED kept
  PROVE  MarksInv'
<1>1. CASE Step(w)
  <2>1. CASE WriteNext(w) \/ PublishNext(w)
    BY <2>1, WriteMarks, PublishMarks
  <2>2. CASE \E batch \in Batch, usage \in Charges : Commit(w, batch, usage)
    BY <2>2, CommitMarks
  <2>3. CASE \/ \E from : TakeLease(w, from, "leased") \/ TakeLease(w, from, "parked")
             \/ \E from : Contended(w, from)
             \/ Release(w)
    BY <2>3, LeaseMarks
  <2>4. QED BY <1>1, <2>1, <2>2, <2>3, WaitingMarks, RunnerMarks, ExtractionMarks,
               ScannerMarks DEF Step
<1>2. CASE Start(w)
  BY <1>2, RecoveryMarks, AuditMarks, WaitingMarks DEF Start
<1>3. QED BY <1>1, <1>2

LEMMA NextMarks ==
  ASSUME ConfigReturns = FALSE, MarksInv, ContentInv, CaptureInv, [Next]_vars
  PROVE  MarksInv'
<1>1. CASE Calm
  BY <1>1, StepMarks, ClockMarks, BackupMarks, RestoreMarks, StopMarks DEF Calm
<1>2. CASE \E w \in Workers : Fail(w) \/ Crash(w) \/ RestoreFails(w)
  BY <1>2, StopMarks, RestoreFailsMarks
<1>3. CASE UNCHANGED vars
  <2>1. disk \in Disk /\ Later(disk, disk')
    BY <1>3, DiskHas, CaptureAssumption DEF CaptureInv, TypeInv, Later, vars
  <2>2. CopiesFit'
    BY <1>3 DEF MarksInv, CopiesFit, vars
  <2>3. QED BY <1>3, <2>1, <2>2, QuietMarks DEF vars
<1>4. QED BY <1>1, <1>2, <1>3 DEF Next

\* Where config.yaml is not edited back, what is unfinished is active in every
\* workset that is usable, whatever crashes, fails, is written again by a retry
\* or is put back by a restore: the workset's marks, which background recovery
\* goes by, miss nothing.
THEOREM UnfinishedIsFound ==
  ASSUME ConfigReturns = FALSE
  PROVE  Spec => []UnfinishedIsActive
<1>1. CaptureInv /\ ContentInv /\ MarksInv /\ [Next]_vars => (CaptureInv /\ ContentInv /\ MarksInv)'
  BY NextCapture, NextContent, NextMarks
<1>2. CaptureInv /\ MarksInv => UnfinishedIsActive
  <2> SUFFICES ASSUME CaptureInv, MarksInv, Usable, Unfinished PROVE disk.workset.active
    BY DEF UnfinishedIsActive
  <2>1. receipt = disk.receipt /\ Status = disk.receipt.status
    BY DEF Unfinished, receipt, Status
  <2>2. IsUnended(disk)
    BY <2>1 DEF Unfinished, Complete, IsUnended, Unended
  <2>3. IsMarked(disk)
    BY <2>2 DEF MarksInv, IsSafe
  <2>4. QED BY <2>3 DEF IsMarked, Usable
<1>3. QED BY <1>1, <1>2, InitCapture, InitContent, InitMarks, PTL DEF Spec
=============================================================================
