--------------------------- MODULE BackupRestore ---------------------------
(***************************************************************************)
(* The backup and restore of agc_runtime/admin_service.py.  A backup is    *)
(* one file written under the lock.  A restore clears the root, writes the *)
(* archive's entries except the memories it must suppress, and puts the    *)
(* former files back if anything raises; it has no journal, so a crash     *)
(* leaves the root where it was.  The files of Capture, which it also      *)
(* replaces, are in CaptureStore.                                          *)
(***************************************************************************)
EXTENDS ManagedFiles

\* _validate_root asks, of what is followed here, for a catalog that agrees
\* with the memories; the queue is neither looked at nor archived.
\* (A slot is named by a digest of what it holds; here it is used once.)
Backup(z) ==
  /\ pc = "idle"
  /\ root[Archive(z)] = Absent
  /\ root[Catalog] = CardsOf(root)
  /\ root' = [root EXCEPT ![Archive(z)] = [f \in Archived |-> root[f]]]
  /\ UNCHANGED <<outside, pc, todo, job>>

\* The user copies an archive out of the memory root.
Export(z) ==
  /\ root[Archive(z)] # Absent
  /\ outside' = root[Archive(z)]
  /\ UNCHANGED <<root, pc, todo, job>>

-----------------------------------------------------------------------------
(* The plan of a restore                                                   *)

\* _read_tombstones_from_files: whatever lies below .runtime/tombstones, the
\* journals of forgets in progress included, which come later in the archive.
ArchiveTombstone(a, id) ==
  IF a[Forget(id)] # Absent THEN "in_progress" ELSE a[Tombstone(id)]

\* The root's own tombstones, without the journals, take precedence.
MergedTombstone(files, a, id) ==
  IF files[Tombstone(id)] # Absent THEN files[Tombstone(id)]
  ELSE ArchiveTombstone(a, id)

Suppressed(files, a) == {id \in Ids : MergedTombstone(files, a, id) # Absent}

\* _preserve_during_restore.
Replaceable == {f \in Files : f[1] \notin {"backup", "zip", "tombstone", "forget"}}

Clearing(files) ==
  Reverse(Batches({Write(f, Absent) : f \in {f \in Replaceable : files[f] # Absent}}))

\* _prevalidated_restore_entries.
Restored(files, a) ==
  [f \in Archived |->
     IF \E id \in Suppressed(files, a) : f = Memory(id) THEN Absent ELSE a[f]]

Filtered(value, ids) ==
  IF value = Absent THEN Absent ELSE {e \in value : e.object \notin ids}

WriteFiltered(f, a, ids) ==
  IF a[f] = Absent THEN << >> ELSE <<{Write(f, Filtered(a[f], ids))}>>

\* Mutant: the log is filtered, the registry is not.
SuppressedEntriesOfLog(a, ids) == WriteFiltered(Events, a, ids)

\* _suppress_restored_ids: the log, then the registry.
SuppressedEntries(a, ids) ==
  WriteFiltered(Events, a, ids) \o WriteFiltered(SourceKeys, a, ids)

\* What the archive holds, written in the order of the paths.
EntryWrites(files) ==
  Batches({Write(f, files[f]) : f \in {f \in Archived : files[f] # Absent}})

\* The tombstones of both, after the entries, which may include older ones.
TombstoneWrites(files, a) ==
  Batches({Write(Tombstone(id), MergedTombstone(files, a, id)) : id \in Suppressed(files, a)})

RestoreWrites(files, a) ==
  Clearing(files)
    \o EntryWrites(Restored(files, a))
    \o TombstoneWrites(files, a)
    \o SuppressedEntries(a, Suppressed(files, a))
    \o <<{Write(Catalog, CardsOf(Restored(files, a)))}>>

-----------------------------------------------------------------------------
(* The call                                                                *)

StartRestore(a) ==
  /\ pc = "idle"
  /\ a # Absent
  /\ pc' = "restoring"
  /\ todo' = RestoreWrites(root, a)
  /\ job' = [NoJob EXCEPT !.archive = a, !.before = root]
  /\ UNCHANGED <<root, outside>>

RestoreReturns == pc \in {"restoring", "reverting"} /\ todo = << >> /\ Return

\* A write raises: the root is cleared again and the former files are written
\* back; if that raises too the exception leaves the call.
RestoreFails ==
  /\ todo # << >>
  /\ \/ /\ pc = "restoring"
        /\ pc' = "reverting"
        /\ todo' = Clearing(root)
                     \o Batches({Write(f, job.before[f]) :
                          f \in {f \in Replaceable : job.before[f] # Absent}})
        /\ UNCHANGED <<root, outside, job>>
     \/ pc = "reverting" /\ Return

=============================================================================
