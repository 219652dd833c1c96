-------------------------- MODULE CaptureSelection --------------------------
(***************************************************************************)
(* Which of the due receipts one run takes up, and in which order:         *)
(* CaptureRunner._ranked_ready_receipts.  ready is the sequence of the due *)
(* receipts, oldest first, each with its task and its rank, the larger the *)
(* better (ranks end with the id of the receipt and so differ).  All       *)
(* operators answer with sets of positions of ready.                       *)
(***************************************************************************)
EXTENDS Naturals, FiniteSets, FiniteSetsExt, Sequences, SequencesExt

\* The positions before i of the same task: the turn i has in the loop that
\* takes one receipt of every task in turn.
Turn(ready, i) == Cardinality({j \in 1 .. i - 1 : ready[j].task = ready[i].task})

\* The tasks come in the order of their oldest receipts.
First(ready, i) == CHOOSE j \in 1 .. i :
  ready[j].task = ready[i].task /\ Turn(ready, j) = 0

Sooner(ready, i, j) ==
  \/ Turn(ready, i) < Turn(ready, j)
  \/ Turn(ready, i) = Turn(ready, j) /\ First(ready, i) < First(ready, j)

\* A background run loads no more capsules than limit.
Candidates(ready, limit) ==
  {i \in DOMAIN ready :
     Cardinality({j \in DOMAIN ready : Sooner(ready, j, i)}) < limit}

\* The _capsule_rank of a capsule: decisions and results first, then the
\* number of kinds of content, the user's own signals, the size, the time.
Outranks(a, b) ==
  LET Key(c) == <<IF c.strong > 0 THEN 1 ELSE 0, c.strong, c.categories,
                  c.signals, c.size, c.at, c.id>>
      differs == {k \in 1 .. 7 : Key(a)[k] # Key(b)[k]}
  IN  differs # {} /\ LET k == Min(differs) IN Key(a)[k] > Key(b)[k]

\* Among the candidates: the place of i in its task, and the best of its task.
Place(ready, from, i) ==
  Cardinality({j \in from : /\ ready[j].task = ready[i].task
                            /\ ready[j].rank > ready[i].rank})

Best(ready, from, i) ==
  Max({ready[j].rank : j \in {k \in from : ready[k].task = ready[i].task}})

Ahead(ready, from, i, j) ==
  \/ Place(ready, from, i) < Place(ready, from, j)
  \/ /\ Place(ready, from, i) = Place(ready, from, j)
     /\ Best(ready, from, i) > Best(ready, from, j)

\* At most three of a task, at most max of all, the best of each task first.
Selected(ready, from, max) ==
  LET three == {i \in from : Place(ready, from, i) < 3}
  IN  {i \in three : Cardinality({j \in three : Ahead(ready, from, j, i)}) < max}

-----------------------------------------------------------------------------
(* What a selection promises                                               *)

Tasks(ready, from) == {ready[i].task : i \in from}
OfTask(ready, from, t) == {i \in from : ready[i].task = t}

\* No task is left out of the candidates for another task's second receipt,
\* and the receipt that waits longest is always among them.
CandidatesAreFair(ready, limit) ==
  LET from == Candidates(ready, limit)
  IN  /\ Cardinality(from) = Min({limit, Len(ready)})
      /\ ready # << >> /\ limit > 0 => 1 \in from
      /\ Cardinality(Tasks(ready, DOMAIN ready)) <= limit =>
           Tasks(ready, from) = Tasks(ready, DOMAIN ready)

\* A run is filled as far as three of a task allow, and a task gets its second
\* receipt only when every other has its first.
SelectionIsFair(ready, limit, max) ==
  LET from == Candidates(ready, limit)
      chosen == Selected(ready, from, max)
      room == MapThenSumSet(LAMBDA t : Min({3, Cardinality(OfTask(ready, from, t))}),
                            Tasks(ready, from))
  IN  /\ Cardinality(chosen) = Min({max, room})
      /\ \A t, u \in Tasks(ready, from) :
           LET got == Cardinality(OfTask(ready, chosen, t))
               other == Cardinality(OfTask(ready, chosen, u))
           IN  got > other + 1 => other = Cardinality(OfTask(ready, from, u))
      /\ \A i \in chosen : \A j \in from \ chosen :
           ready[j].task = ready[i].task => ready[i].rank > ready[j].rank

=============================================================================
