---------------------------- MODULE CodexSource ----------------------------
(***************************************************************************)
(* The Codex session files as the source of captures, read while Codex     *)
(* writes, archives and deletes them: the discovery of completed turns     *)
(* with its metadata cache (codex_source_adapter.py, discover;             *)
(* capture_source_cache.py), the scan state that names the cache           *)
(* (capture_store.py, advance_scan_state), the loading of one turn         *)
(* (load_capsule), and the forgetting of a task, which drops both          *)
(* (capture_forget_service.py).                                            *)
(*                                                                         *)
(* Nothing locks a session file.  The adapter takes the file's signature   *)
(* before and after it reads; each stat and each reading is an action of   *)
(* its own, and the writer may act between any two.  A reading is one      *)
(* action: an append during it shows as a cut file, and of a replaced file *)
(* the reader holds the old one.  Signatures are assumed to differ when    *)
(* the content does.                                                       *)
(*                                                                         *)
(* A snapshot of the cache is named by the digest of its content, so the   *)
(* hint is the snapshot itself.  Whether everything a batch names is       *)
(* accounted for is the matter of CaptureScan; here it is a choice.        *)
(***************************************************************************)
EXTENDS SessionFile, TLAPS

CONSTANTS
  Sessions, Archived,  \* the locators of the two namespaces, sequences in order
  Openings,            \* what the files may be at first: [locator -> File or None]
  Lines,               \* the lines that Codex may add
  Scanners,            \* processes that scan
  Start, End,          \* the window of every scan
  Unarchives,          \* whether a session may be moved back from the archive
  MaxEdits,            \* bound: what Codex and its user do to the files
  MaxScans,            \* bound: scans and loads that begin
  MaxForgets,          \* bound: tasks that are forgotten
  MaxFaults            \* bound: files that cannot be read, processes that die

Locators == Range(Sessions) \cup Range(Archived)

ASSUME CodexSourceAssumption ==
  /\ Range(Sessions) \cap Range(Archived) = {}
  /\ Start \in Nat \ {0} /\ End \in Nat /\ Unarchives \in BOOLEAN
  /\ {MaxEdits, MaxScans, MaxForgets, MaxFaults} \subseteq Nat

VARIABLES
  files,     \* the session files: lines, ended, signature, modified; or None
  disk,      \* capture's: generation, state, snapshots, tombstones; known, the
             \* revisions in its receipts
  pc, job,   \* of the scanners
  loader,    \* the loading of one turn: pc, revision, signature, what was read
  count      \* history, for the bounds

vars == <<files, disk, pc, job, loader, count>>

NoEntries == [l \in Locators |-> None]

NoJob == [generation |-> 0, version |-> 0, prior |-> NoEntries, dirty |-> {},
          spaces |-> << >>, todo |-> << >>, signature |-> 0, scan |-> None,
          entries |-> NoEntries, found |-> {}, conflicts |-> {}, codes |-> {},
          standing |-> {}]

NoLoad == [pc |-> "idle", ref |-> None, signature |-> 0, scan |-> None,
           records |-> << >>]

TypeOK ==
  /\ DOMAIN files = Locators
  /\ disk.generation \in Nat /\ disk.state # None => disk.state.version \in Nat
  /\ pc \in [Scanners -> {"idle", "started", "listing", "visiting", "statted",
                          "read", "judging", "scanned"}]
  /\ loader.pc \in {"idle", "settled", "scanned", "matched", "read", "loaded"}
  /\ count.edits \in 0 .. MaxEdits /\ count.faults \in 0 .. MaxFaults

Init ==
  /\ files \in Openings
  /\ disk = [generation |-> 0, state |-> None, snapshots |-> {},
             tombstones |-> {}, known |-> {}]
  /\ pc = [p \in Scanners |-> "idle"]
  /\ job = [p \in Scanners |-> NoJob]
  /\ loader = NoLoad
  /\ count = [edits |-> 0, scans |-> 0, forgets |-> 0, faults |-> 0]

-----------------------------------------------------------------------------
(* Codex and its user                                                      *)

\* The turns of main sessions that are seen to be completed in the window.
Evident(now) ==
  UNION {LET lines == Decoded(now[l])
             first == {i \in DOMAIN lines : lines[i].type = "meta"}
         IN  {lines[i].turn : i \in
                {k \in DOMAIN lines :
                   /\ Completes(lines[k]) /\ lines[k].at >= Start /\ lines[k].at < End
                   /\ first # {} /\ lines[Min(first)].identity # None
                   /\ lines[Min(first)].identity.kind = "main"}} :
         l \in {k \in Locators : now[k] # None}} \ {None, "invalid"}

\* Every change gives a new signature and is made in or after the window.
Edits(change) ==
  /\ count.edits < MaxEdits
  /\ count' = [count EXCEPT !.edits = @ + 1]
  /\ files' = [l \in Locators |->
       IF change[l] = files[l] \/ change[l] = None THEN change[l]
       ELSE [change[l] EXCEPT !.signature = count.edits + 1, !.modified = End]]
  /\ job' = [p \in Scanners |-> [job[p] EXCEPT !.standing = @ \cap Evident(files')]]
  /\ UNCHANGED <<disk, pc, loader>>

\* A line is begun, or ended.
Writes(l) ==
  /\ files[l] # None
  /\ \/ \E line \in Lines, ended \in BOOLEAN :
          /\ files[l].ended
          /\ Edits([files EXCEPT ![l].lines = Append(@, line), ![l].ended = ended])
     \/ ~files[l].ended /\ Edits([files EXCEPT ![l].ended = TRUE])

MayGo(l, m) ==
  /\ files[l] # None /\ l # m
  /\ l \in Range(Archived) /\ m \in Range(Sessions) => Unarchives

Moves(l, m) ==
  /\ MayGo(l, m)
  /\ Edits([files EXCEPT ![l] = None, ![m] = files[l]])

Copies(l, m) ==
  /\ MayGo(l, m)
  /\ Edits([files EXCEPT ![m] = files[l]])

Removes(l) == files[l] # None /\ Edits([files EXCEPT ![l] = None])

Codex ==
  \E l \in Locators :
    Writes(l) \/ Removes(l) \/ \E m \in Locators : Moves(l, m) \/ Copies(l, m)

-----------------------------------------------------------------------------
(* Discovery                                                               *)

Goes(p, to, now) ==
  /\ pc' = [pc EXCEPT ![p] = to]
  /\ job' = [job EXCEPT ![p] = now]
  /\ UNCHANGED <<files, loader>>

\* The scanner reads the generation before the scan state.
ScanStarts(p) ==
  /\ pc[p] = "idle" /\ count.scans < MaxScans
  /\ Goes(p, "started", [NoJob EXCEPT !.generation = disk.generation,
                                      !.spaces = <<Sessions, Archived>>,
                                      !.standing = Evident(files)])
  /\ count' = [count EXCEPT !.scans = @ + 1]
  /\ UNCHANGED disk

\* Of the cache it uses what the hint names, none when it scans in full, when
\* a marker has no locator, or when the snapshot is gone by now.
ScanReadsState(p) ==
  /\ pc[p] = "started"
  /\ \E dirty \in {{}} \cup {{l} : l \in Locators} :
     \E prior \in {NoEntries} \cup
          (IF disk.state = None THEN {}
           ELSE {disk.state.hint} \cap disk.snapshots) :
       Goes(p, "listing", [job[p] EXCEPT
         !.version = IF disk.state = None THEN 1 ELSE disk.state.version,
         !.prior = prior, !.dirty = IF prior = NoEntries THEN {} ELSE dirty])
  /\ UNCHANGED <<disk, count>>

\* _source_files; a namespace is listed when the one before it was visited.
Lists(p) ==
  /\ pc[p] = "listing"
  /\ LET j == job[p]
     IN  IF j.spaces = << >> THEN Goes(p, "scanned", j)
         ELSE Goes(p, "visiting",
                [j EXCEPT !.spaces = Tail(@),
                          !.todo = SelectSeq(Head(j.spaces),
                                             LAMBDA l : files[l] # None)])
  /\ UNCHANGED <<disk, count>>

\* What is written down of a file that was read without a diagnostic.
Entry(j) == [signature |-> j.signature, identity |-> j.scan.identity,
             completions |-> j.scan.completions]

RevisionsOf(l, scan) ==
  IF scan.identity.kind # "main" THEN {}
  ELSE {[task |-> scan.identity.task, anchor |-> scan.identity.anchor,
         quality |-> scan.identity.quality, turn |-> c.turn, at |-> c.at,
         locator |-> l] : c \in scan.completions}

SameKey(one, other) == one.task = other.task /\ one.turn = other.turn

\* _same_census_revision
SameRevision(one, other) ==
  /\ SameKey(one, other)
  /\ one.anchor = other.anchor /\ one.at = other.at /\ one.quality = other.quality

Key(r) == <<r.task, r.turn>>

\* A revision that two files tell differently is none at all, from then on.
Accounts(j, l) ==
  LET told == {r \in RevisionsOf(l, j.scan) : Key(r) \notin j.conflicts}
      differ == {r \in told : \E o \in j.found : SameKey(r, o) /\ ~SameRevision(r, o)}
      fresh == {r \in told : \A o \in j.found : ~SameKey(r, o)}
      keys == {Key(r) : r \in differ}
  IN  [j EXCEPT
         !.found = {o \in @ : Key(o) \notin keys} \cup fresh,
         !.conflicts = @ \cup keys,
         !.codes = IF keys = {} THEN @ ELSE @ \cup {"conflicting_revision_identity"}]

Noting(j, code) == [j EXCEPT !.todo = Tail(@), !.codes = @ \cup {code}]

\* The first stat of the file that is next.
Stats(p) ==
  /\ pc[p] = "visiting"
  /\ LET j == job[p]
     IN  IF j.todo = << >> THEN Goes(p, "listing", j)
         ELSE LET file == files[Head(j.todo)]
              IN  IF file = None THEN Goes(p, "visiting", Noting(j, "source_unreadable"))
                  ELSE Goes(p, "statted", [j EXCEPT !.signature = file.signature])
  /\ UNCHANGED <<disk, count>>

\* Mutant: a cached entry stands for every file of its name.
IsCachedByName(j, l) == j.prior[l] # None /\ l \notin j.dirty

\* A cached entry stands for the file when its signature does.
IsCached(j, l) ==
  /\ j.prior[l] # None
  /\ j.prior[l].signature = j.signature
  /\ l \notin j.dirty

ScanFile(file) == IF file = None THEN Failing("source_unreadable") ELSE ScanOf(file)

FromCache(entry) == [identity |-> entry.identity, completions |-> entry.completions,
                     code |-> None, done |-> TRUE]

Reads(p) ==
  LET l == Head(job[p].todo)
  IN  /\ pc[p] = "statted"
      /\ IF IsCached(job[p], l)
         THEN /\ Goes(p, "read", [job[p] EXCEPT !.scan = FromCache(job[p].prior[l])])
              /\ UNCHANGED count
         ELSE \/ /\ Goes(p, "read", [job[p] EXCEPT !.scan = ScanFile(files[l])])
                 /\ UNCHANGED count
              \/ /\ count.faults < MaxFaults
                 /\ Goes(p, "read", [job[p] EXCEPT !.scan = Failing("source_locked")])
                 /\ count' = [count EXCEPT !.faults = @ + 1]
      /\ UNCHANGED disk

\* The signature is what it was before the file was read.
IsSettled(l, signature) == files[l] # None /\ files[l].signature = signature

\* The second stat, and what was found is put down.
Settles(p) ==
  LET j == job[p]
      l == Head(j.todo)
  IN  /\ pc[p] = "read"
      /\ CASE ~IsSettled(l, j.signature) ->
                Goes(p, "visiting", Noting(j, "source_changed_during_scan"))
           [] IsSettled(l, j.signature) /\ j.scan.code # None -> Goes(p, "judging", j)
           [] OTHER ->
                Goes(p, "visiting",
                     [Accounts(j, l) EXCEPT !.todo = Tail(@),
                                            !.entries = [@ EXCEPT ![l] = Entry(j)]])
      /\ UNCHANGED <<disk, count>>

\* A diagnostic counts when the file, looked at again, concerns the window.
Judges(p) ==
  LET j == job[p]
      file == files[Head(j.todo)]
  IN  /\ pc[p] = "judging"
      /\ CASE file = None -> Goes(p, "visiting", Noting(j, "source_unreadable"))
           [] file # None /\ Concerns(file, Start) ->
                Goes(p, "visiting", Noting(j, j.scan.code))
           [] OTHER -> Goes(p, "visiting", [j EXCEPT !.todo = Tail(@)])
      /\ UNCHANGED <<disk, count>>

Batch(j) == {r \in j.found : r.at >= Start /\ r.at < End}

-----------------------------------------------------------------------------
(* The cache is published with the scan state                              *)

\* Mutant: nothing is kept out.
KeptAll(entries) == entries

\* A file of a forgotten task stays out of the cache.
Kept(entries) ==
  [l \in Locators |->
     IF entries[l] # None /\ entries[l].identity.task \in disk.tombstones
     THEN None ELSE entries[l]]

IsCurrent(j) ==
  /\ disk.generation = j.generation
  /\ j.version = IF disk.state = None THEN 1 ELSE disk.state.version

\* advance_scan_state: the snapshot, the state, then the other snapshots; a
\* process may die after each.
Published(j, upto) ==
  LET hint == Kept(j.entries)
      state == [version |-> j.version + 1, hint |-> hint]
  IN  [disk EXCEPT
         !.known = @ \cup Batch(j),
         !.snapshots = IF upto = 3 THEN {hint}
                       ELSE IF upto >= 1 THEN @ \cup {hint} ELSE @,
         !.state = IF upto >= 2 THEN state ELSE @]

Publishes(p) ==
  /\ pc[p] = "scanned"
  /\ IF IsCurrent(job[p])
     THEN \E upto \in 0 .. 3 :
            /\ upto \in {1, 2} => count.faults < MaxFaults
            /\ count' = [count EXCEPT !.faults = IF upto \in {1, 2} THEN @ + 1 ELSE @]
            /\ disk' = Published(job[p], upto)
     ELSE disk' = Published(job[p], 0) /\ UNCHANGED count
  /\ Goes(p, "idle", NoJob)

\* source_generation_locked with invalidate: what was read before is not merged.
Renewed == disk.generation + 1

\* Hard forget of a revision; it may fail after the generation is renewed.
Forget(task) ==
  /\ count.forgets < MaxForgets /\ task \notin disk.tombstones
  /\ \E r \in disk.known : r.task = task
  /\ count' = [count EXCEPT !.forgets = @ + 1]
  /\ \E fails \in BOOLEAN :
       disk' = [disk EXCEPT
         !.generation = Renewed,
         !.tombstones = IF fails THEN @ ELSE @ \cup {task},
         !.snapshots = IF fails THEN @ ELSE {},
         !.state = IF fails THEN @ ELSE None]
  /\ UNCHANGED <<files, pc, job, loader>>

-----------------------------------------------------------------------------
(* One turn is loaded                                                      *)

Loads(to) == loader' = to /\ UNCHANGED <<files, disk, pc, job>>

LoadStarts ==
  /\ loader.pc = "idle" /\ count.scans < MaxScans
  /\ count' = [count EXCEPT !.scans = @ + 1]
  /\ \E r \in disk.known :
       /\ files[r.locator] # None
       /\ Loads([NoLoad EXCEPT !.pc = "settled", !.ref = r,
                               !.signature = files[r.locator].signature])

\* The load is given up.
LoadFails == Loads(NoLoad) /\ UNCHANGED count

LoadScans ==
  /\ loader.pc = "settled"
  /\ Loads([loader EXCEPT !.pc = "scanned", !.scan = ScanFile(files[loader.ref.locator])])
  /\ UNCHANGED count

LoadMatches ==
  /\ loader.pc = "scanned"
  /\ IF /\ IsSettled(loader.ref.locator, loader.signature)
        /\ Matches(loader.scan, loader.ref)
     THEN Loads([loader EXCEPT !.pc = "matched"]) /\ UNCHANGED count
     ELSE LoadFails

\* Mutant: the second reading takes the lines that name the turn, up to its end
\* or not.
LoadReadsNamed ==
  /\ loader.pc = "matched"
  /\ IF files[loader.ref.locator] = None THEN LoadFails
     ELSE /\ Loads([loader EXCEPT !.pc = "read", !.records =
                     SelectSeq(Decoded(files[loader.ref.locator]),
                               LAMBDA line : line.turn = loader.ref.turn)])
          /\ UNCHANGED count

LoadReads ==
  /\ loader.pc = "matched"
  /\ LET file == files[loader.ref.locator]
     IN  IF file = None THEN LoadFails
         ELSE LET load == LoadOf(file, loader.ref)
              IN  IF Agrees(load, loader.scan)
                  THEN /\ Loads([loader EXCEPT !.pc = "read", !.records = load.records])
                       /\ UNCHANGED count
                  ELSE LoadFails

LoadEnds ==
  /\ loader.pc = "read"
  /\ IF IsSettled(loader.ref.locator, loader.signature)
     THEN Loads([loader EXCEPT !.pc = "loaded"]) /\ UNCHANGED count
     ELSE LoadFails

\* The capsule was built, or the load is given up for a reason of its own.
LoadIsUsed == loader.pc # "idle" /\ LoadFails

Load == LoadStarts \/ LoadScans \/ LoadMatches \/ LoadReads \/ LoadEnds \/ LoadIsUsed

Scan(p) ==
  \/ ScanStarts(p) \/ ScanReadsState(p) \/ Lists(p) \/ Stats(p) \/ Reads(p)
  \/ Settles(p) \/ Judges(p) \/ Publishes(p)

Tasks == {r.task : r \in disk.known}

Next ==
  \/ Codex
  \/ \E p \in Scanners : Scan(p)
  \/ \E task \in Tasks : Forget(task)
  \/ Load

Spec == Init /\ [][Next]_vars

-----------------------------------------------------------------------------
(* Properties                                                              *)

\* Discovery loses nothing silently: a turn that was to be seen completed in
\* the window, in some main session, at every moment of a scan is in its batch,
\* or the scan reports a diagnostic (codex_source_adapter.py, discover).  It
\* holds while no session is moved back from the archive.
FoundOrReported ==
  \A p \in Scanners :
    pc[p] = "scanned" =>
      \/ job[p].codes # {}
      \/ \A turn \in job[p].standing : \E r \in Batch(job[p]) : r.turn = turn

\* The line belongs to the turn: it names it, or it names none and no other
\* turn was started since a line that names it.
IsOfTurn(lines, i, turn) ==
  \/ lines[i].turn = turn
  \/ /\ lines[i].turn = None
     /\ \E j \in 1 .. i - 1 :
          /\ lines[j].turn = turn
          /\ \A k \in j .. i : lines[k].event # "task_started" \/ lines[k].turn = turn

\* The lines of a turn, up to the one that completes it.
Whole(lines, ref) ==
  LET ends == {i \in DOMAIN lines : Completes(lines[i]) /\ lines[i].turn = ref.turn}
      upto == SubSeq(lines, 1, Min(ends))
  IN  FoldLeft(LAMBDA all, i : IF lines[i].type # "meta" /\ IsOfTurn(lines, i, ref.turn)
                               THEN Append(all, Bind(lines[i], ref.turn)) ELSE all,
               << >>, [i \in DOMAIN upto |-> i])

\* What a capsule is built from is the whole turn and nothing of another: the
\* lines of the file as it is when the load ends, whatever Codex wrote between
\* the two readings (_iter_target_turn_records, _record_matches_turn).
LoadedTurnIsWhole ==
  [][loader.pc # "loaded" /\ loader'.pc = "loaded" =>
       LET file == files[loader.ref.locator]
       IN  OfTurn(loader'.records, loader'.ref.turn) = Whole(Decoded(file), loader'.ref)]_vars

\* Once a revision of a task is forgotten, no cached metadata tells of the
\* task's files any more, however far a scan had come by then
\* (advance_scan_state; _invalidate_source_checkpoint).
ForgottenIsUncached ==
  \A snapshot \in disk.snapshots : \A l \in Locators :
    snapshot[l] # None => snapshot[l].identity.task \notin disk.tombstones

-----------------------------------------------------------------------------
(* Proofs                                                                  *)

\* The cache holds nothing of a forgotten task.
IsClean(snapshot) ==
  \A l \in Locators : snapshot[l] # None => snapshot[l].identity.task \notin disk.tombstones

CacheInv ==
  /\ DOMAIN disk = {"generation", "state", "snapshots", "tombstones", "known"}
  /\ \A snapshot \in disk.snapshots : IsClean(snapshot)

\* Whatever a scanner has read before, what it publishes is cleaned first.
LEMMA PublishedIsClean ==
  ASSUME CacheInv, NEW j, NEW upto, disk' = Published(j, upto)
  PROVE  CacheInv'
<1>1. disk'.tombstones = disk.tombstones /\ DOMAIN disk' = DOMAIN disk
  BY DEF Published, CacheInv
<1>2. disk'.snapshots \subseteq disk.snapshots \cup {Kept(j.entries)}
  BY DEF Published, CacheInv
<1>3. \A l \in Locators : Kept(j.entries)[l] # None
        => Kept(j.entries)[l].identity.task \notin disk.tombstones
  BY DEF Kept
<1>4. QED BY <1>1, <1>2, <1>3 DEF CacheInv, IsClean

\* Once a revision of a task is forgotten no cached metadata tells of its files,
\* however many scanners are at work, wherever they are and whichever die.
THEOREM CacheForgets == Spec => []ForgottenIsUncached
<1>1. Init => CacheInv
  BY DEF Init, CacheInv
<1>2. CacheInv /\ [Next]_vars => CacheInv'
  <2> SUFFICES ASSUME CacheInv, [Next]_vars PROVE CacheInv'
    OBVIOUS
  <2>1. ASSUME NEW p \in Scanners, Publishes(p) PROVE CacheInv'
    BY <2>1, PublishedIsClean DEF Publishes
  <2>2. ASSUME NEW task, Forget(task) PROVE CacheInv'
    <3>1. PICK fails \in BOOLEAN :
            disk' = [disk EXCEPT
              !.generation = Renewed,
              !.tombstones = IF fails THEN @ ELSE @ \cup {task},
              !.snapshots = IF fails THEN @ ELSE {},
              !.state = IF fails THEN @ ELSE None]
      BY <2>2 DEF Forget
    <3>2. QED BY <3>1 DEF CacheInv, IsClean
  <2>3. ASSUME UNCHANGED disk PROVE CacheInv'
    BY <2>3 DEF CacheInv, IsClean
  <2>4. ASSUME NEW p \in Scanners, Scan(p) PROVE Publishes(p) \/ UNCHANGED disk
    BY <2>4 DEF Scan, ScanStarts, ScanReadsState, Lists, Stats, Reads, Settles, Judges
  <2>5. Codex => UNCHANGED disk
    <3>1. \A change : Edits(change) => UNCHANGED disk
      BY DEF Edits
    <3>2. \A l, m \in Locators :
            Writes(l) \/ Removes(l) \/ Moves(l, m) \/ Copies(l, m) => UNCHANGED disk
      BY <3>1, Zenon DEF Writes, Removes, Moves, Copies
    <3>3. QED BY <3>2, Zenon DEF Codex
  <2>6. Load => UNCHANGED disk
    <3>1. LoadStarts => UNCHANGED disk
      BY DEF LoadStarts, Loads
    <3>2. LoadScans \/ LoadFails => UNCHANGED disk
      BY DEF LoadScans, LoadFails, Loads
    <3>3. LoadMatches => UNCHANGED disk
      BY <3>2 DEF LoadMatches, Loads
    <3>4. LoadReads => UNCHANGED disk
      BY <3>2 DEF LoadReads, Loads
    <3>5. LoadEnds \/ LoadIsUsed => UNCHANGED disk
      BY <3>2 DEF LoadEnds, LoadIsUsed, Loads
    <3>6. QED BY <3>1, <3>2, <3>3, <3>4, <3>5 DEF Load
  <2>7. QED BY <2>1, <2>2, <2>3, <2>4, <2>5, <2>6 DEF Next, vars
<1>3. CacheInv => ForgottenIsUncached
  BY DEF CacheInv, IsClean, ForgottenIsUncached
<1>4. QED BY <1>1, <1>2, <1>3, PTL DEF Spec
=============================================================================
