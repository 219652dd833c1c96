----------------------------- MODULE MemoryFile -----------------------------
(***************************************************************************)
(* What is in the file of a formal memory: models.py and frontmatter.py    *)
(* turn Markdown into an item and back, schema.py says which items are     *)
(* valid, and the calls of store.py, each of which is one step here, read  *)
(* one text and write another.                                             *)
(*                                                                         *)
(* A document is its frontmatter, a function of the fields that are there, *)
(* and the lines of its body.  Of a line matter the heading it is, and     *)
(* whether white space precedes it.  Of the fields, those are left out     *)
(* that are checked as one of these is: other names, dates and lists.      *)
(* YAML is external: what safe_dump writes, safe_load reads.               *)
(***************************************************************************)
EXTENDS Policy, SequencesExt

CONSTANTS
  MemoryIds,
  Drafts,    \* the documents that callers send
  Days,      \* the days they claim to have observed something on
  Dates,     \* those of them that are ISO dates
  Budget,    \* of lines in each section; characters in the code
  NoValue    \* null, or no file

VARIABLES
  stored,    \* memories/<kind>/<id>.md
  kept       \* history: the item that the last accepted call was about

fvars == <<stored, kept>>

BodyHeadings == <<"Memory Card", "Full Meaning", "Application Boundary", "Rationale">>

Line == [says : Range(BodyHeadings) \cup {"Another heading", "words", "nothing"},
         indented : BOOLEAN]

HeadingLine(heading) == [says |-> heading, indented |-> FALSE]

IsHeading(line) == ~line.indented /\ line.says \notin {"words", "nothing"}

\* What MemoryItem.from_markdown asks for, and what may be there besides.
Required == {"kind", "status", "confidence", "sensitivity", "exposure",
             "valid_from", "last_observed"}
Optional == {"policy_reason", "topic", "intensity", "trend", "motivation",
             "domain", "polarity", "current_level", "goal_refs"}

-----------------------------------------------------------------------------
(* Markdown                                                                *)

\* str.strip
Stripped(text) ==
  LET full == {i \in DOMAIN text : text[i].says # "nothing"}
  IN  IF full = {} THEN << >>
      ELSE [SubSeq(text, Min(full), Max(full)) EXCEPT ![1].indented = FALSE]

Places(body) == SetToSortSeq({i \in DOMAIN body : IsHeading(body[i])}, <)

\* parse_body_sections accepts the body.
HasSections(body) ==
  LET at == Places(body) IN [k \in DOMAIN at |-> body[at[k]].says] = BodyHeadings

Sections(body) ==
  LET at == Append(Places(body), Len(body) + 1)
  IN  [k \in DOMAIN BodyHeadings |-> Stripped(SubSeq(body, at[k] + 1, at[k + 1] - 1))]

Rendered(sections) ==
  FlattenSeq([k \in DOMAIN BodyHeadings |->
    <<HeadingLine(BodyHeadings[k])>> \o Stripped(sections[k])])

\* from_markdown returns.
Readable(doc) ==
  /\ Required \subseteq DOMAIN doc.front
  /\ DOMAIN doc.front \subseteq Required \cup Optional
  /\ \A f \in Required : doc.front[f] \notin {NoValue, ""}
  /\ \A f \in DOMAIN doc.front \ {"goal_refs"} : doc.front[f] # ""
  /\ HasSections(doc.body)

ItemOf(doc) ==
  [fields |-> [f \in Required \cup Optional |->
     IF f \in DOMAIN doc.front THEN doc.front[f]
     ELSE IF f = "goal_refs" THEN {} ELSE NoValue],
   sections |-> Sections(doc.body)]

\* to_markdown
Markdown(item) ==
  LET Has(f) == IF f = "goal_refs" THEN item.fields[f] # {} ELSE item.fields[f] # NoValue
  IN  [front |-> [f \in {g \in Required \cup Optional : Has(g)} |-> item.fields[f]],
       body |-> Rendered(item.sections)]

-----------------------------------------------------------------------------
(* Valid items                                                             *)

AllowedIn(field) ==
  CASE field = "kind" -> {"identity", "principle", "preference", "interest",
                          "capability", "goal", "pattern", "context"}
    [] field = "status" -> Lifecycles
    [] field = "confidence" -> {"tentative", "observed", "confirmed", "disputed"}
    [] field = "sensitivity" -> {"normal", "personal"}
    [] field = "exposure" -> {"core_card", "scoped_card", "discoverable_only", "history_only"}

\* _validate_kind_metadata
KindIsComplete(fields) ==
  /\ fields["kind"] = "interest" =>
       /\ \A f \in {"topic", "motivation"} : fields[f] # NoValue
       /\ fields["intensity"] \in {"emerging", "low", "medium", "high"}
       /\ fields["trend"] \in {"rising", "stable", "declining", "dormant"}
  /\ fields["kind"] = "capability" =>
       /\ \A f \in {"domain", "current_level"} : fields[f] # NoValue
       /\ fields["polarity"] \in {"strength", "growth_area"}
       /\ fields["polarity"] = "growth_area" /\ fields["exposure"] \in {"core_card", "scoped_card"}
            => fields["goal_refs"] # {}

\* validate_memory_item; sensitive and secret texts are enumerated and refused.
Valid(item) ==
  LET fields == item.fields
  IN  /\ \A f \in {"kind", "status", "confidence", "sensitivity", "exposure"} :
           fields[f] \in AllowedIn(f)
      /\ fields["valid_from"] \in Dates /\ fields["last_observed"] \in Dates
      /\ (/\ fields["kind"] = "identity" /\ fields["sensitivity"] = "personal"
          /\ fields["exposure"] = "core_card") => fields["policy_reason"] # NoValue
      /\ \A k \in DOMAIN item.sections : Len(item.sections[k]) <= Budget
      /\ KindIsComplete(fields)

-----------------------------------------------------------------------------
(* The calls                                                               *)

FileInit ==
  /\ stored = [id \in MemoryIds |-> NoValue]
  /\ kept = [id \in MemoryIds |-> NoValue]

Exists(id) == stored[id] # NoValue

Accept(id, item) ==
  /\ stored' = [stored EXCEPT ![id] = Markdown(item)]
  /\ kept' = [kept EXCEPT ![id] = item]

\* Mutant: what comes of a memory that was valid is not validated again.
MayRewriteAny(id, item) == Exists(id) /\ Readable(stored[id])

\* The current text is read, and what is made of it validated.
MayRewrite(id, item) == Exists(id) /\ Readable(stored[id]) /\ Valid(item)

CreateFile(id, doc) ==
  /\ ~Exists(id) /\ Readable(doc) /\ Valid(ItemOf(doc))
  /\ Accept(id, ItemOf(doc))

Evidence(id, day) ==
  LET item == [ItemOf(stored[id]) EXCEPT !.fields["last_observed"] = day]
  IN  /\ MayRewrite(id, item)
      /\ Accept(id, item)

Transition(id, status, day) ==
  LET old == ItemOf(stored[id])
      item == [old EXCEPT !.fields["status"] = status, !.fields["last_observed"] = day]
  IN  /\ MayRewrite(id, item)
      /\ ValidTransition(old.fields["status"], status)
      /\ Accept(id, item)

Replace(id, doc) ==
  LET old == ItemOf(stored[id])
      item == ItemOf(doc)
  IN  /\ Readable(doc) /\ MayRewrite(id, item)
      /\ old.fields["kind"] = item.fields["kind"]
      /\ ValidTransition(old.fields["status"], item.fields["status"])
      /\ Accept(id, item)

\* build_catalog returns: one memory it cannot read, and there is no catalog.
CatalogIsBuilt == \A id \in MemoryIds :
  Exists(id) => Readable(stored[id]) /\ Valid(ItemOf(stored[id]))

\* Any hard forget makes a new catalog out of all memories first.
ForgetFile(id) ==
  /\ Exists(id) /\ CatalogIsBuilt
  /\ stored' = [stored EXCEPT ![id] = NoValue]
  /\ kept' = [kept EXCEPT ![id] = NoValue]

FileNext == \E id \in MemoryIds :
  \/ \E doc \in Drafts : CreateFile(id, doc) \/ Replace(id, doc)
  \/ \E day \in Days : Evidence(id, day) \/ \E s \in Lifecycles : Transition(id, s, day)
  \/ ForgetFile(id)

-----------------------------------------------------------------------------
(* Properties                                                              *)

ReadsBack(id) == Readable(stored[id]) /\ ItemOf(stored[id]) = kept[id]

\* A section of the item begins with a heading, which was indented in the
\* document and is not any more.
HidesHeading(item) ==
  \E k \in DOMAIN item.sections :
    item.sections[k] # << >> /\ IsHeading(item.sections[k][1])

\* Whatever calls have made of a memory, its file reads back as the item of
\* the last call that was accepted, and is as valid as that: the catalog, a
\* backup and the next call rely on it.  Except where a section hides a heading.
StoredIsSound ==
  \A id \in MemoryIds : Exists(id) =>
    HidesHeading(kept[id]) \/ (ReadsBack(id) /\ Valid(ItemOf(stored[id])))

\* test_principle_round_trips_canonically asserts it of a fixture:
\* from_markdown(to_markdown(item)) = item, for what the store has accepted.
RoundTrips == \A id \in MemoryIds : Exists(id) => ReadsBack(id)

=============================================================================
