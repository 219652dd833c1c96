---------------------------- MODULE ReadService ----------------------------
(***************************************************************************)
(* What agc.read tells of the catalog (read_service.py): the overview,     *)
(* which response_budget.py fits into a budget of tokens, and searches.    *)
(* The catalog is read as it is, without the lock (WriteService models how *)
(* it comes about).                                                        *)
(*                                                                         *)
(* A kind or a scope is a number that orders it among the others by its    *)
(* encoded name; a card stands in the catalog in the order of its id.  The *)
(* serialised response is modelled by its length: that of what is fixed,   *)
(* and that of the entries of four lists.                                  *)
(***************************************************************************)
EXTENDS Naturals, Sequences, FiniteSets, SequencesExt

CONSTANT
  Width   \* the characters of a name, of a kind or scope, with its quotes

ASSUME WidthAssumption == DOMAIN Width \subseteq Nat /\ \A n \in DOMAIN Width : Width[n] \in Nat

-----------------------------------------------------------------------------
(* The estimate                                                            *)

Step(n, power) == IF n < power THEN 0 ELSE 1

\* Of a number below ten million, the estimate of a response of 30 million
\* characters.
Digits(n) ==
  1 + Step(n, 10) + Step(n, 100) + Step(n, 1000) + Step(n, 10000) + Step(n, 100000)
    + Step(n, 1000000)

Tokens(chars) == (chars + 2) \div 3

\* One round of _with_estimate: the response is serialised with the estimate
\* of the round before in it.
Round(chars, estimate) == Tokens(chars + Digits(estimate))

TwoRounds(chars, estimate) == Round(chars, Round(chars, estimate))
FourRounds(chars, estimate) == TwoRounds(chars, TwoRounds(chars, estimate))

\* Ten rounds; to stop where nothing changes any more is the same.
Estimate(chars) == TwoRounds(chars, FourRounds(chars, FourRounds(chars, 0)))

-----------------------------------------------------------------------------
(* The overview                                                            *)

Active(catalog) == SelectSeq(catalog, LAMBDA card : card.lifecycle = "active")

HasCard(card) == card.exposure \in {"core_card", "scoped_card"}

InOrder(names) == SetToSortSeq(names, <)

\* catalog_counts: how many cards have a name, for each name that one has.
Counts(names) ==
  [name \in UNION Range(names) |-> Cardinality({i \in DOMAIN names : name \in names[i]})]

ByScope(catalog) == Counts([i \in DOMAIN catalog |-> catalog[i].scopes])
ByKind(catalog) == Counts([i \in DOMAIN catalog |-> {catalog[i].kind}])

\* The lengths of the entries of such a mapping.
Counted(counts) ==
  LET names == InOrder(DOMAIN counts)
  IN  [i \in DOMAIN names |-> Width[names[i]] + 1 + Digits(counts[names[i]])]

HighImpactScopes(catalog) ==
  UNION {catalog[i].scopes : i \in {j \in DOMAIN catalog : catalog[j].impact = "high"}}

\* _handle_overview.  What is fixed holds, besides its own, the number of all
\* memories and that of the cards that could be shown.
Overview(catalog, fixed) ==
  LET active == Active(catalog)
      cards == SelectSeq(active, HasCard)
      scopes == InOrder(HighImpactScopes(active))
  IN  [fixed |-> fixed + Digits(Len(catalog)) + Digits(Len(cards)),
       cards |-> [i \in DOMAIN cards |-> cards[i].chars],
       highImpact |-> [i \in DOMAIN scopes |-> Width[scopes[i]]],
       byScope |-> Counted(ByScope(active)), byKind |-> Counted(ByKind(active))]

\* The entries of a list and the commas between them.
ListChars(list) == FoldSeq(+, 0, list) + (IF list = << >> THEN 0 ELSE Len(list) - 1)

Chars(response) ==
  response.fixed + ListChars(response.cards) + ListChars(response.highImpact)
    + ListChars(response.byScope) + ListChars(response.byKind)

Without(list, n) == SubSeq(list, 1, IF n < Len(list) THEN Len(list) - n ELSE 0)

Beyond(n, list) == IF n < Len(list) THEN 0 ELSE n - Len(list)

\* The response without its last n entries: cards go first, then the scopes of
\* high impact, the counts by scope and those by kind.
Compacted(response, n) ==
  LET ofHighImpact == Beyond(n, response.cards)
      ofScope == Beyond(ofHighImpact, response.highImpact)
      ofKind == Beyond(ofScope, response.byScope)
  IN  [response EXCEPT !.cards = Without(@, n), !.highImpact = Without(@, ofHighImpact),
                       !.byScope = Without(@, ofScope), !.byKind = Without(@, ofKind)]

Entries(response) ==
  Len(response.cards) + Len(response.highImpact) + Len(response.byScope) + Len(response.byKind)

Fits(response, budget) == Estimate(Chars(response)) <= budget

\* fit_overview_response: the first one that fits, or response_budget_exceeded.
Fitted(response, budget) ==
  LET fitting == {n \in 0 .. Entries(response) : Fits(Compacted(response, n), budget)}
      first == CHOOSE n \in fitting : \A m \in fitting : n <= m
  IN  IF fitting = {} THEN [status |-> "failed"]
      ELSE [status |-> "accepted", response |-> Compacted(response, first)]

-----------------------------------------------------------------------------
(* Searches                                                                *)

\* A filter gives the values it allows for each of its fields, and a card
\* knows the queries that its id or its text contains, the empty one stands for
\* no query.
Matches(card, filters, query) ==
  /\ \A field \in DOMAIN filters :
       IF field = "scopes" THEN filters.scopes \cap card.scopes # {}
       ELSE card[field] \in filters[field]
  /\ query \in card.contains

\* _handle_search: the first of them, in the order of the catalog.
Results(catalog, filters, query, limit) ==
  LET found == SelectSeq(Active(catalog), LAMBDA card : Matches(card, filters, query))
  IN  SubSeq(found, 1, IF limit < Len(found) THEN limit ELSE Len(found))

-----------------------------------------------------------------------------
(* Properties                                                              *)

\* The estimate in a response counts the digits of the estimate itself: what
\* is sent has as many tokens as it says, also where the number grows by a
\* digit.
EstimateIsTrue(chars) == Estimate(chars) = Tokens(chars + Digits(Estimate(chars)))

\* An accepted overview is within the budget, it lost no more than it had to,
\* and one is refused only if nothing would be left of its lists: to drop an
\* entry never makes the response longer.
OverviewIsFitted(response, budget) ==
  LET fitted == Fitted(response, budget)
      bare == Compacted(response, Entries(response))
  IN  /\ fitted.status = "failed" <=> ~Fits(bare, budget)
      /\ fitted.status = "accepted" =>
           LET chars == Chars(fitted.response)
           IN  /\ Tokens(chars + Digits(Estimate(chars))) <= budget
               /\ \A n \in 0 .. Entries(response) :
                    Fits(Compacted(response, n), budget)
                      => Entries(Compacted(response, n)) <= Entries(fitted.response)
               /\ fitted.response.cards # << >> =>
                    /\ fitted.response.highImpact = response.highImpact
                    /\ fitted.response.byScope = response.byScope
                    /\ fitted.response.byKind = response.byKind

\* The two ways to look at the catalog tell one story: for each scope and kind
\* a search finds as many memories as the overview counts (none where it names
\* none), and it finds every card that the overview shows.
OverviewAgreesWithSearch(catalog, names) ==
  LET active == Active(catalog)
      Found(field, name, query) == Results(catalog, field :> {name}, query, 100)
      Total(counts, name) == IF name \in DOMAIN counts THEN counts[name] ELSE 0
  IN  /\ \A name \in names :
           /\ Len(Found("scopes", name, "")) = Total(ByScope(active), name)
           /\ Len(Found("kind", name, "")) = Total(ByKind(active), name)
      /\ Range(SelectSeq(active, HasCard)) \subseteq Range(Results(catalog, << >>, "", 100))

=============================================================================
