------------------------------ MODULE FileLock ------------------------------
(***************************************************************************)
(* The lock files of agc_runtime/locking.py.  root_write_lock,             *)
(* capture_write_lock and capture_runner_lock are the same code over       *)
(* three files; this module is any one of them.                            *)
(*                                                                         *)
(* A lock file is created exclusively, empty, and then filled with the     *)
(* owner's identity.  Whoever finds the file tries once to reclaim it: it  *)
(* reads the identity, asks whether that process still runs, moves the     *)
(* file aside and creates its own.  These are separate system calls, and   *)
(* the file the third one moves need not be the file the first one read.   *)
(*                                                                         *)
(* A member of Procs is one process from its start to its death, so a pid  *)
(* is never used again (pid reuse only makes a dead owner look alive).     *)
(***************************************************************************)
EXTENDS Naturals, FiniteSets

CONSTANTS
  Procs,          \* processes
  Foreign,        \* those of them that run on another host
  Absent,         \* no lock file
  Unread,         \* the reader has not read an owner
  LoneReclaimer,  \* assumption: two processes never reclaim at once
  OwnersOutlive,  \* assumption: a process that has left the lock outlives
                  \* whoever has read its identity from the lock file
  MaxDeaths       \* bound: processes that die

ASSUME LockAssumption ==
  /\ Foreign \subseteq Procs
  /\ Absent \notin Procs /\ Unread \notin Procs
  /\ LoneReclaimer \in BOOLEAN /\ OwnersOutlive \in BOOLEAN
  /\ MaxDeaths \in Nat

VARIABLES
  lock,    \* whose lock file is at the path
  filled,  \* that file holds its owner's identity
  alive,   \* processes that have not died
  pc,      \* the next system call of each process
  seen     \* the owner a reclaiming process has read

vars == <<lock, filled, alive, pc, seen>>

\* Has read an identity and may be about to move the file.
Reclaiming == {"probe", "move"}
Owning == {"fill", "held", "check", "reread", "unlink"}
Labels == {"idle", "create", "retry", "read"} \cup Reclaiming \cup Owning

TypeOK ==
  /\ lock \in Procs \cup {Absent}
  /\ filled \in BOOLEAN
  /\ alive \subseteq Procs
  /\ pc \in [Procs -> Labels]
  /\ seen \in [Procs -> Procs \cup {Unread}]

Init ==
  /\ lock = Absent
  /\ filled = FALSE
  /\ alive = Procs
  /\ pc = [p \in Procs |-> "idle"]
  /\ seen = [p \in Procs |-> Unread]

-----------------------------------------------------------------------------
At(p, label) == p \in alive /\ pc[p] = label

Goto(p, label) == pc' = [pc EXCEPT ![p] = label]

\* The caller gets RuntimeError("active ... lock exists").
Busy(p) == Goto(p, "idle") /\ seen' = [seen EXCEPT ![p] = Unread]

(* Acquiring                                                               *)

Call(p) ==
  /\ At(p, "idle")
  /\ Goto(p, "create")
  /\ UNCHANGED <<lock, filled, alive, seen>>

\* os.open with O_CREAT | O_EXCL, first or second attempt.
Create(p) ==
  /\ At(p, "create") \/ At(p, "retry")
  /\ lock = Absent
  /\ lock' = p
  /\ filled' = FALSE
  /\ Goto(p, "fill")
  /\ seen' = [seen EXCEPT ![p] = Unread]
  /\ UNCHANGED alive

FindTaken(p) ==
  /\ At(p, "create")
  /\ lock # Absent
  /\ Goto(p, "read")
  /\ UNCHANGED <<lock, filled, alive, seen>>

FindTakenAgain(p) ==
  /\ At(p, "retry")
  /\ lock # Absent
  /\ Busy(p)
  /\ UNCHANGED <<lock, filled, alive>>

\* An absent or empty file, or one from another host, is not reclaimed.
ReadOwner(p) ==
  /\ At(p, "read")
  /\ LoneReclaimer => \A q \in alive : pc[q] \notin Reclaiming
  /\ IF lock # Absent /\ filled /\ (lock \in Foreign <=> p \in Foreign)
     THEN Goto(p, "probe") /\ seen' = [seen EXCEPT ![p] = lock]
     ELSE Busy(p)
  /\ UNCHANGED <<lock, filled, alive>>

\* Mutant: every owner counts as dead.
ProbeNothing(p) ==
  /\ At(p, "probe")
  /\ Goto(p, "move")
  /\ UNCHANGED <<lock, filled, alive, seen>>

ProbeOwner(p) ==
  /\ At(p, "probe")
  /\ IF seen[p] \in alive THEN Busy(p) ELSE Goto(p, "move") /\ UNCHANGED seen
  /\ UNCHANGED <<lock, filled, alive>>

\* os.replace moves whatever is at the path now; nothing there is no error.
MoveAside(p) ==
  /\ At(p, "move")
  /\ lock' = Absent
  /\ filled' = FALSE
  /\ Goto(p, "retry")
  /\ UNCHANGED <<alive, seen>>

-----------------------------------------------------------------------------
(* Owning and releasing                                                    *)

\* The payload goes to the file that was created, wherever it is by now.
Fill(p) ==
  /\ At(p, "fill")
  /\ filled' = (filled \/ lock = p)
  /\ Goto(p, "held")
  /\ UNCHANGED <<lock, alive, seen>>

\* The disk is full: the exception goes through the finally block.
FillFails(p) ==
  /\ At(p, "fill")
  /\ Goto(p, "check")
  /\ UNCHANGED <<lock, filled, alive, seen>>

Leave(p) ==
  /\ At(p, "held")
  /\ Goto(p, "check")
  /\ UNCHANGED <<lock, filled, alive, seen>>

CheckExists(p) ==
  /\ At(p, "check")
  /\ Goto(p, IF lock = Absent THEN "idle" ELSE "reread")
  /\ UNCHANGED <<lock, filled, alive, seen>>

\* Only a file with the caller's own lock id is unlinked; one that has gone
\* in between raises and leaves the block as well.
Reread(p) ==
  /\ At(p, "reread")
  /\ Goto(p, IF lock = p /\ filled THEN "unlink" ELSE "idle")
  /\ UNCHANGED <<lock, filled, alive, seen>>

Unlink(p) ==
  /\ At(p, "unlink")
  /\ lock' = Absent
  /\ filled' = FALSE
  /\ Goto(p, "idle")
  /\ UNCHANGED <<alive, seen>>

-----------------------------------------------------------------------------
Die(p) ==
  /\ p \in alive
  /\ Cardinality(Procs \ alive) < MaxDeaths
  /\ OwnersOutlive => pc[p] \in Owning \/ \A q \in Procs : seen[q] # p
  /\ alive' = alive \ {p}
  /\ Goto(p, "idle")
  /\ seen' = [seen EXCEPT ![p] = Unread]
  /\ UNCHANGED <<lock, filled>>

Step(p) ==
  \/ Create(p) \/ FindTaken(p) \/ FindTakenAgain(p)
  \/ ReadOwner(p) \/ ProbeOwner(p) \/ MoveAside(p)
  \/ Fill(p) \/ Leave(p) \/ CheckExists(p) \/ Reread(p) \/ Unlink(p)

Next == \E p \in Procs : Step(p) \/ Call(p) \/ FillFails(p) \/ Die(p)

Spec == Init /\ [][Next]_vars

-----------------------------------------------------------------------------
(* Properties                                                              *)

Inside == {p \in alive : pc[p] = "held"}

\* "Allow at most one ..." of capture_runner_lock: no two live processes are
\* inside the with block.  Needs LoneReclaimer and OwnersOutlive.
MutualExclusion == Cardinality(Inside) <= 1

=============================================================================
