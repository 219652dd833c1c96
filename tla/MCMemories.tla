------------------------------ MODULE MCMemories ------------------------------
(***************************************************************************)
(* Three instances side by side: the memory store write by write, what the *)
(* file of a memory says, and the migration of v1 memories.  A behavior is *)
(* of one of the three parts, and the others stand still.                  *)
(***************************************************************************)
EXTENDS MemoryStore, MemoryFile, Migration, TLC

CONSTANTS p1, p2, s1, s2, s3, t1, t2, t3, m1, m2, m3, f1, f2

Symmetric == Permutations({p1, p2}) \cup Permutations({s1, s2, s3})
               \cup Permutations({t1, t2, t3})

VARIABLE part

-----------------------------------------------------------------------------
(* Migration: two memories share a file.                                   *)

OneShared == m1 :> f1 @@ m2 :> f1 @@ m3 :> f2
OwnTexts == f1 :> {m1, m2} @@ f2 :> {m3}

\* The other file mentions m1.
CrossTexts == f1 :> {m1, m2} @@ f2 :> {m1, m3}

-----------------------------------------------------------------------------
(* MemoryFile: one thing at a time about the document is unusual.          *)

Words == [says |-> "words", indented |-> FALSE]
Blank == [says |-> "nothing", indented |-> TRUE]
Inner == [says |-> "Another heading", indented |-> FALSE]
Hidden == [says |-> "Rationale", indented |-> TRUE]

Usual == [f \in Required |->
  CASE f = "kind" -> "preference" [] f = "status" -> "active"
    [] f = "confidence" -> "confirmed" [] f = "sensitivity" -> "personal"
    [] f = "exposure" -> "core_card" [] OTHER -> "2026-08-13"]

GrowthArea == "kind" :> "capability" @@ "domain" :> "d" @@ "polarity" :> "growth_area"
                @@ "current_level" :> "l" @@ Usual
Interest == "kind" :> "interest" @@ "topic" :> "t" @@ "intensity" :> "low"
              @@ "trend" :> "stable" @@ Usual

Fronts == {
  Usual, "policy_reason" :> NoValue @@ Usual, "policy_reason" :> "" @@ Usual,
  "kind" :> "identity" @@ Usual, "kind" :> "identity" @@ "policy_reason" :> "r" @@ Usual,
  GrowthArea, "goal_refs" :> {"g"} @@ GrowthArea, "exposure" :> "history_only" @@ GrowthArea,
  Interest, "motivation" :> "m" @@ Interest,
  "sensitivity" :> "secret" @@ Usual, "kind" :> "hobby" @@ Usual,
  "valid_from" :> "long ago" @@ Usual, "status" :> "candidate" @@ Usual,
  [f \in Required \ {"status"} |-> Usual[f]]}

Texts == {<<Words>>, << >>, <<Blank, Words, Blank>>, <<Hidden>>, <<Words, Hidden>>,
          <<Blank, Hidden, Words>>, <<Inner>>, <<Words, Words, Words, Words>>}

Body(texts) ==
  FlattenSeq([k \in 1 .. 4 |-> <<HeadingLine(BodyHeadings[k]), Blank>> \o texts[k]])

Plain == [k \in 1 .. 4 |-> <<Words>>]

Bodies == {Body([Plain EXCEPT ![k] = text]) : k \in {1, 4}, text \in Texts}
            \cup {<<Words>> \o Body(Plain), Tail(Body(Plain))}

Documents ==
  {[front |-> front, body |-> Body(Plain)] : front \in Fronts}
    \cup {[front |-> Usual, body |-> body] : body \in Bodies}

-----------------------------------------------------------------------------
MemoriesInit == part \in {"store", "file", "migration"} /\ Init /\ FileInit /\ MigrationInit

MemoriesNext ==
  \/ part = "store" /\ Next /\ UNCHANGED <<part, fvars, mvars>>
  \/ part = "file" /\ FileNext /\ UNCHANGED <<part, vars, mvars>>
  \/ part = "migration" /\ MigrationNext /\ UNCHANGED <<part, vars, fvars>>

MemoriesSpec == MemoriesInit /\ [][MemoriesNext]_<<part, vars, fvars, mvars>>

===============================================================================
