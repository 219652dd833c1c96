--------------------------- MODULE MemoryRequests ---------------------------
(***************************************************************************)
(* What AtomicStore and MemoryStore have in common: the memory files, the  *)
(* calls of agc_runtime/store.py that change them, and the conditions under*)
(* which a call may.  A text is abstracted to its lifecycle status and to  *)
(* the source whose mutation wrote it; timestamps, evidence lists and      *)
(* digests are left out.                                                   *)
(***************************************************************************)
EXTENDS Policy, Sequences, FiniteSets

CONSTANTS
  Ids, Kinds,       \* memory ids and memory kinds
  Sources,          \* source keys (ref, revision, content_hash)
  Statuses,         \* the lifecycle statuses that callers ask for
  Absent            \* no file

Paths == Ids \X Kinds
Text == [status : Statuses, from : Sources]

ASSUME StatusesAssumption == Statuses \subseteq Lifecycles
ASSUME AbsentAssumption == Absent \notin Text

\* The four calls that mutate, with the arguments that matter.
Requests ==
       [op : {"create", "replace"}, id : Ids, kind : Kinds,
        status : Statuses, source : Sources]
  \cup [op : {"evidence"}, id : Ids, source : Sources]
  \cup [op : {"transition"}, id : Ids, status : Statuses, source : Sources]

Ops == {"create", "replace", "evidence", "transition"}

KindsOf(mem, id) == {k \in Kinds : mem[<<id, k>>] # Absent}

\* r may change the memory at path f: create needs a free path, the others
\* need the id under exactly one kind, and a legal change of status.
Allowed(mem, r, f) ==
  /\ f[1] = r.id
  /\ \/ r.op = "create" /\ f[2] = r.kind /\ mem[f] = Absent
     \/ r.op = "evidence" /\ KindsOf(mem, r.id) = {f[2]}
     \/ /\ r.op \in {"replace", "transition"}
        /\ KindsOf(mem, r.id) = {f[2]}
        /\ r.op = "replace" => r.kind = f[2]
        /\ ValidTransition(mem[f].status, r.status)

OldStatus(old) == IF old = Absent THEN Absent ELSE old.status

\* The text r writes over the text it has read.
NewText(r, old) ==
  [status |-> IF r.op = "evidence" THEN old.status ELSE r.status,
   from |-> r.source]

=============================================================================
