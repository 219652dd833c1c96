----------------------------- MODULE HardForget -----------------------------
(***************************************************************************)
(* agc_runtime/forget_service.py and forget_transaction.py: a memory and   *)
(* every managed copy of it are purged, file by file, then a tombstone is  *)
(* written.  A journal that holds nothing but the digest of the request    *)
(* lets exactly this request be repeated after a crash; after an exception *)
(* the call puts back what it has changed.                                 *)
(*                                                                         *)
(* Left out: candidates, and the manifests and sources of a migration that *)
(* a memory came from: Migration has those.                                *)
(***************************************************************************)
EXTENDS ManagedFiles

CONSTANTS
  TextMentions,  \* <<b, a>>: the text of b contains a's id or one of the terms
  CardMentions   \* <<b, a>>: the card of b in the catalog contains a term

Names(id) == {id} \cup {b \in Ids : <<b, id>> \in TextMentions}

-----------------------------------------------------------------------------
(* The plan                                                                *)

Of(value, id) == {e \in Entries(value) : e.object = id}

\* _rewritten_backup_bytes: every entry that mentions the id goes, the whole
\* log and the whole registry too; a tombstone is added.
Rewritten(a, id) ==
  [f \in Archived |->
     IF f = Tombstone(id) THEN "forgotten"
     ELSE IF \/ f = Forget(id)
             \/ \E b \in Names(id) : f = Memory(b)
             \/ f \in {Events, SourceKeys} /\ Of(a[f], id) # {}
             \/ f = Catalog /\ a[f] # Absent
                  /\ \/ a[f][id] # Absent
                     \/ \E b \in Ids : a[f][b] # Absent /\ <<b, id>> \in CardMentions
          THEN Absent
     ELSE a[f]]

\* Mutant: .runtime/backups is taken for archives only.
BackupWritesZips(files, id) ==
  {Write(Archive(z), Rewritten(files[Archive(z)], id)) :
     z \in {z \in Slots : files[Archive(z)] # Absent}}

\* The generic pass over .runtime/backups.
BackupWrites(files, id) ==
       {Write(Undo(s), Absent) :
          s \in {s \in Sources : /\ files[Undo(s)] # Absent
                                 /\ files[Undo(s)].object \in Names(id)}}
  \cup {Write(Archive(z), Rewritten(files[Archive(z)], id)) :
          z \in {z \in Slots : files[Archive(z)] # Absent}}

\* The log and the registry lose the id's own entries, the catalog its card.
\* The latter is made from the memories as they are before the purge.
FilteredWrites(files, id) ==
       {Write(f, Entries(files[f]) \ Of(files[f], id)) :
          f \in {f \in {Events, SourceKeys} : files[f] # Absent}}
  \cup {Write(Catalog, [CardsOf(files) EXCEPT ![id] = Absent])}

\* What else mentions the id: queued journals, texts.
MentionWrites(files, id) ==
       {Write(Queue(s), Absent) :
          s \in {s \in Sources : /\ files[Queue(s)] # Absent
                                 /\ files[Queue(s)].object = id}}
  \cup {Write(Memory(b), Absent) :
          b \in {b \in Names(id) : files[Memory(b)] # Absent}}

PurgeWrites(files, id) ==
  BackupWrites(files, id) \cup FilteredWrites(files, id) \cup MentionWrites(files, id)

\* _verify_forget_plan finds a term: everything but the catalog is clean by
\* now, and there the cards of others were kept.
Leaks(id) == \E b \in Ids \ {id} :
  root[Catalog] # Absent /\ root[Catalog][b] # Absent /\ <<b, id>> \in CardMentions

-----------------------------------------------------------------------------
(* The call                                                                *)

\* Mutant: without the memory there is nothing to resume.
MayForgetPresent(id, r) ==
  /\ root[Forget(id)] \in {Absent, r}
  /\ root[Memory(id)] # Absent

\* Otherwise: forget_request_conflict, already_forgotten, memory_not_found.
MayForget(id, r) ==
  /\ root[Forget(id)] \in {Absent, r}
  /\ root[Forget(id)] = Absent => root[Memory(id)] # Absent

StartForget(id, r) ==
  /\ pc = "idle"
  /\ MayForget(id, r)
  /\ pc' = "purging"
  /\ todo' = (IF root[Forget(id)] = Absent THEN <<{Write(Forget(id), r)}>>
              ELSE << >>) \o Batches(PurgeWrites(root, id))
  /\ job' = [NoJob EXCEPT !.id = id, !.before = root]
  /\ UNCHANGED <<root, outside>>

\* The journal is no operation of the plan.
Applied == job.done \ {Forget(job.id)}

\* Mutant: what the purge removed comes back, what it rewrote does not.
UndoWritesRemoved ==
  {Write(f, job.before[f]) : f \in {f \in Applied : root[f] = Absent}}

\* _rollback_forget_operations.
UndoWrites == {Write(f, job.before[f]) : f \in Applied}

RollBack ==
  /\ pc' = "undoing"
  /\ todo' = Reverse(Batches(UndoWrites))
  /\ UNCHANGED <<root, outside, job>>

Verify ==
  /\ pc = "purging" /\ todo = << >>
  /\ IF Leaks(job.id) THEN RollBack
     ELSE /\ pc' = "entombing"
          /\ todo' = <<{Write(Tombstone(job.id), "forgotten")}>>
          /\ UNCHANGED <<root, outside, job>>

\* The journal goes last, outside the try block.
DropJournal ==
  /\ pc = "entombing" /\ todo = << >>
  /\ pc' = "closing"
  /\ todo' = <<{Write(Forget(job.id), Absent)}>>
  /\ UNCHANGED <<root, outside, job>>

ForgetReturns == pc \in {"closing", "undoing"} /\ todo = << >> /\ Return

\* A write raises.  While rolling back the next file is tried.
ForgetFails ==
  /\ todo # << >>
  /\ \/ pc \in {"purging", "entombing"} /\ RollBack
     \/ pc = "closing" /\ Return
     \/ /\ pc = "undoing"
        /\ \E w \in Head(todo) :
             todo' = IF Head(todo) = {w} THEN Tail(todo)
                     ELSE <<Head(todo) \ {w}>> \o Tail(todo)
        /\ job' = [job EXCEPT !.clean = FALSE]
        /\ UNCHANGED <<root, outside, pc>>

=============================================================================
