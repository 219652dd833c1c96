---------------------------- MODULE AtomicStore ----------------------------
(***************************************************************************)
(* What agc_runtime/store.py promises its callers: a memory changes in one *)
(* step, that step adds one line to the log and one source to those that   *)
(* are on record, and no source key is applied twice.  MemoryStore, which  *)
(* needs several file writes for it and may die between any two,           *)
(* implements this specification.                                          *)
(***************************************************************************)
EXTENDS MemoryRequests

VARIABLES
  mem,     \* the memory files
  log,     \* the mutations applied so far, in order
  record   \* which source was applied to which memory

Init == mem = [f \in Paths |-> Absent] /\ log = << >> /\ record = {}

Applied(s) == \E e \in record : e.source = s

Entry(r, old) ==
  [object |-> r.id, action |-> r.op, old |-> OldStatus(old),
   new |-> NewText(r, old).status, source |-> r.source]

Apply(r, f) ==
  /\ ~Applied(r.source)
  /\ Allowed(mem, r, f)
  /\ mem' = [mem EXCEPT ![f] = NewText(r, mem[f])]
  /\ log' = Append(log, Entry(r, mem[f]))
  /\ record' = record \cup {[source |-> r.source, object |-> r.id]}

Next == \E r \in Requests, f \in Paths : Apply(r, f)

Spec == Init /\ [][Next]_<<mem, log, record>>

=============================================================================
