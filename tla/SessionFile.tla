---------------------------- MODULE SessionFile ----------------------------
(***************************************************************************)
(* How the Codex adapter reads a session file (codex_source_adapter.py):   *)
(* once for what the file is and which turns it completed (_scan_file),    *)
(* and once more for the records of one turn (_iter_target_turn_records),  *)
(* and which of those the capsule is built from (_record_matches_turn).    *)
(*                                                                         *)
(* A line is a record: session metadata with the identity it states, an    *)
(* event with the turn it names, any other item, or no JSON at all.  A     *)
(* turn that is present but not one valid identifier is "invalid"; an      *)
(* identity that cannot be read is None.  Times are numbers.  A file has   *)
(* its lines, whether the last one is ended, its signature (device, inode, *)
(* size and times) and the time it was last modified.                      *)
(***************************************************************************)
EXTENDS Naturals, FiniteSets, SequencesExt

CONSTANT None

Meta(identity, at) ==
  [type |-> "meta", identity |-> identity, event |-> None, turn |-> None, at |-> at]
Event(event, turn, at) ==
  [type |-> "event", identity |-> None, event |-> event, turn |-> turn, at |-> at]
Item(turn, at) ==
  [type |-> "item", identity |-> None, event |-> None, turn |-> turn, at |-> at]
Malformed == [type |-> "malformed", identity |-> None, event |-> None, turn |-> None, at |-> 0]

Identity(task, anchor, quality, kind) ==
  [task |-> task, anchor |-> anchor, quality |-> quality, kind |-> kind]

\* What _decode_source_line reads of a file; "cut" ends a file whose last line
\* is not ended or is no JSON, other lines that are no JSON are "malformed".
Decoded(file) ==
  LET n == Len(file.lines)
  IN  [i \in 1 .. n |->
         IF i = n /\ (~file.ended \/ file.lines[n] = Malformed)
         THEN [Malformed EXCEPT !.type = "cut"] ELSE file.lines[i]]

-----------------------------------------------------------------------------
(* The events                                                              *)

\* These may name a turn; of the others only task_complete does.
Known == {"task_started", "task_aborted", "turn_aborted", "item_completed"}

\* _critical_completion finds a shape it does not know.
IsUnknown(line) ==
  \/ line.turn = "invalid"
  \/ line.event = "task_complete" /\ (line.turn = None \/ line.at = 0)
  \/ line.event \notin Known \cup {"task_complete"} /\ line.turn # None

Completes(line) == line.type = "event" /\ line.event = "task_complete"

TwoTimes(completions, line) ==
  \E c \in completions : c.turn = line.turn /\ c.at # line.at

-----------------------------------------------------------------------------
(* The first reading                                                       *)

Failing(code) == [identity |-> None, completions |-> {}, code |-> code, done |-> TRUE]

\* A session that learned its id names the same rollout as before.
Upgrades(old, new) ==
  /\ old.task = new.task /\ old.anchor = new.anchor /\ old.kind = new.kind
  /\ {old.quality, new.quality} = {"legacy", "session"}

ScanMeta(scan, identity) ==
  CASE identity = None \/ identity.kind = "unknown" ->
         Failing("unknown_source_shape")
    [] scan.identity = None ->
         [scan EXCEPT !.identity = identity, !.done = identity.kind = "subagent"]
    [] identity = scan.identity -> scan
    [] Upgrades(scan.identity, identity) ->
         [scan EXCEPT !.identity = IF identity.quality = "session" THEN identity ELSE @]
    [] OTHER -> Failing("conflicting_source_identity")

ScanEvent(scan, line) ==
  CASE IsUnknown(line) -> Failing("unknown_completion_shape")
    [] Completes(line) /\ scan.identity = None -> Failing("unknown_source_shape")
    [] Completes(line) /\ TwoTimes(scan.completions, line) ->
         Failing("unknown_completion_shape")
    [] Completes(line) ->
         [scan EXCEPT !.completions = @ \cup {[turn |-> line.turn, at |-> line.at]}]
    [] OTHER -> scan

ScanLine(scan, line) ==
  CASE scan.done -> scan
    [] line.type = "cut" -> Failing("partial_tail")
    [] line.type = "malformed" -> Failing("source_malformed")
    [] line.type = "meta" -> ScanMeta(scan, line.identity)
    [] line.type = "event" -> ScanEvent(scan, line)
    [] OTHER -> scan

ScanOf(file) ==
  LET scan == FoldLeft(ScanLine, [identity |-> None, completions |-> {},
                                  code |-> None, done |-> FALSE], Decoded(file))
  IN  IF scan.identity = None /\ scan.code = None
      THEN Failing("unknown_source_shape") ELSE [scan EXCEPT !.done = TRUE]

\* _latest_record_timestamp; 0 when no record has a time.
LatestTime(file) ==
  LET times == {line.at : line \in Range(Decoded(file))}
  IN  IF times = {} THEN 0 ELSE Max(times)

\* Whether the diagnostic of a file concerns a window that begins at start.
Concerns(file, start) ==
  file.modified >= start /\ (LatestTime(file) = 0 \/ LatestTime(file) >= start)

-----------------------------------------------------------------------------
(* The second reading, for the revision ref                                *)

Expected(ref) == Identity(ref.task, ref.anchor, ref.quality, "main")

Interleaves(load, line, ref) ==
  /\ load.active /\ line.type = "event" /\ line.turn # ref.turn
  /\ line.event \in {"task_started", "task_complete", "task_aborted"}

Bind(line, turn) == IF line.turn = None THEN [line EXCEPT !.turn = turn] ELSE line

LoadMeta(load, line, ref) ==
  IF line.identity # Expected(ref) THEN [load EXCEPT !.fails = TRUE]
  ELSE [load EXCEPT !.records = IF load.identity = None THEN Append(@, line) ELSE @,
                    !.identity = line.identity]

LoadTurn(load, line, ref) ==
  LET names == line.turn = ref.turn
      taken == ~load.completed /\ (load.active \/ names)
      ends == Completes(line) /\ names
  IN  IF Interleaves(load, line, ref) \/ (ends /\ line.at # ref.at)
      THEN [load EXCEPT !.fails = TRUE]
      ELSE [load EXCEPT !.records = IF taken THEN Append(@, Bind(line, ref.turn)) ELSE @,
                        !.active = taken /\ ~ends,
                        !.completed = @ \/ ends]

LoadEvent(load, line, ref) ==
  IF \/ IsUnknown(line)
     \/ Completes(line) /\ (load.identity = None \/ TwoTimes(load.completions, line))
  THEN [load EXCEPT !.fails = TRUE]
  ELSE LoadTurn(IF Completes(line)
                THEN [load EXCEPT !.completions = @ \cup {[turn |-> line.turn, at |-> line.at]}]
                ELSE load, line, ref)

LoadLine(load, line, ref) ==
  CASE load.fails -> load
    [] line.type \in {"cut", "malformed"} -> [load EXCEPT !.fails = TRUE]
    [] line.type = "meta" -> LoadMeta(load, line, ref)
    [] line.type = "event" -> LoadEvent(load, line, ref)
    [] OTHER -> LoadTurn(load, line, ref)

LoadOf(file, ref) ==
  FoldLeft(LAMBDA load, line : LoadLine(load, line, ref),
           [records |-> << >>, active |-> FALSE, completed |-> FALSE,
            identity |-> None, completions |-> {}, fails |-> FALSE], Decoded(file))

\* The first reading found what the revision says of itself.
Matches(scan, ref) ==
  /\ scan.code = None /\ scan.identity = Expected(ref)
  /\ [turn |-> ref.turn, at |-> ref.at] \in scan.completions

\* The second reading agrees with the first.
Agrees(load, scan) ==
  /\ ~load.fails /\ load.completed
  /\ load.identity = scan.identity /\ load.completions = scan.completions

\* What the capsule is built from.
OfTurn(records, turn) ==
  SelectSeq(records, LAMBDA line : line.type # "meta" /\ line.turn = turn)
=============================================================================
