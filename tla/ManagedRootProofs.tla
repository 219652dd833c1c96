------------------------- MODULE ManagedRootProofs -------------------------
(***************************************************************************)
(* What a hard forget and a restore of ManagedRoot leave behind, for any   *)
(* number of memories, sources, archives and requests, however often calls *)
(* die or writes fail.                                                     *)
(***************************************************************************)
EXTENDS ManagedRoot, SequenceTheorems, WellFoundedInduction, TLAPS

Text(f) == f[1]

Directories == {"memory", "events", "receipts", "catalog", "queue", "backup", "zip",
                "tombstone", "forget"}

\* What a file may hold.
ArchiveSet ==
  {a \in [Archived -> UNION {Content(f) \cup {Absent} : f \in Archived}] : IsArchive(a)}
Values(f) == (IF f[1] = "zip" THEN ArchiveSet ELSE Content(f)) \cup {Absent}

Roots == {F \in [Files -> UNION {Values(f) : f \in Files}] : \A f \in Files : F[f] \in Values(f)}

Writes == UNION {[file : {f}, value : Values(f)] : f \in Files}

Plans == Seq(SUBSET Writes)

Jobs == [id : Ids \cup {Absent}, archive : ArchiveSet \cup {Absent}, before : Roots \cup {Absent},
         done : SUBSET Files, clean : BOOLEAN]

TypeInv ==
  /\ root \in Roots
  /\ outside \in ArchiveSet \cup {Absent}
  /\ pc \in Labels
  /\ todo \in Plans
  /\ job \in Jobs

-----------------------------------------------------------------------------
(* Lists of writes                                                         *)

\* No write of f is pending.
Spares(list, f) == \A i \in DOMAIN list : \A w \in list[i] : w.file # f

\* All that is written to f is v.
Only(list, f, v) == \A i \in DOMAIN list : \A w \in list[i] : w.file = f => w.value = v

Hits(list, f) == \E i \in DOMAIN list : \E w \in list[i] : w.file = f

\* The last batch that writes f writes v.
Sets(list, f, v) ==
  \E i \in DOMAIN list :
    /\ \E w \in list[i] : w.file = f
    /\ \A w \in list[i] : w.file = f => w.value = v
    /\ \A k \in DOMAIN list : k > i => \A w \in list[k] : w.file # f

\* In the end f, which now holds value, will hold v.
Lands(list, f, v, value) == Sets(list, f, v) \/ (Spares(list, f) /\ value = v)

\* What is left of the plan when w was made.
Less(list, w) ==
  IF Head(list) = {w} THEN Tail(list) ELSE <<Head(list) \ {w}>> \o Tail(list)

\* A list is as before, without w in its first batch.
IsLess(list, w, less) ==
  /\ DOMAIN list = 1 .. Len(list) /\ Len(list) \in Nat \ {0} /\ w \in list[1]
  /\ \/ /\ list[1] = {w} /\ DOMAIN less = 1 .. Len(list) - 1
        /\ \A i \in 1 .. Len(list) - 1 : less[i] = list[i + 1]
     \/ /\ list[1] # {w} /\ DOMAIN less = 1 .. Len(list)
        /\ less[1] = list[1] \ {w}
        /\ \A i \in 2 .. Len(list) : less[i] = list[i]

LEMMA LessIs ==
  ASSUME NEW S, NEW list \in Seq(SUBSET S), list # << >>, NEW w \in Head(list)
  PROVE  Less(list, w) \in Seq(SUBSET S) /\ IsLess(list, w, Less(list, w))
<1>1. /\ Tail(list) \in Seq(SUBSET S) /\ Len(Tail(list)) = Len(list) - 1 /\ Len(list) \in Nat \ {0}
      /\ \A i \in 1 .. Len(list) - 1 : Tail(list)[i] = list[i + 1]
      /\ Head(list) = list[1] /\ list[1] \in SUBSET S /\ DOMAIN list = 1 .. Len(list)
  OBVIOUS
<1>2. CASE Head(list) = {w}
  <2>1. Less(list, w) = Tail(list)
    BY <1>2 DEF Less
  <2>2. DOMAIN Tail(list) = 1 .. Len(list) - 1
    BY <1>1
  <2>3. QED BY <1>1, <1>2, <2>1, <2>2 DEF IsLess
<1>3. CASE Head(list) # {w}
  <2> DEFINE rest == <<Head(list) \ {w}>> \o Tail(list)
  <2>1. Less(list, w) = rest
    BY <1>3 DEF Less
  <2>2. <<Head(list) \ {w}>> \in Seq(SUBSET S)
    BY <1>1
  <2>3. /\ rest \in Seq(SUBSET S) /\ DOMAIN rest = 1 .. Len(list) /\ rest[1] = list[1] \ {w}
        /\ \A i \in 2 .. Len(list) : rest[i] = list[i]
    BY <1>1, <2>2
  <2> HIDE DEF rest
  <2>4. QED BY <1>1, <1>3, <2>1, <2>3 DEF IsLess
<1>4. QED BY <1>2, <1>3

LEMMA LessAgrees ==
  ASSUME NEW list, NEW w, NEW less, IsLess(list, w, less), NEW f, NEW v
  PROVE  /\ Spares(list, f) => Spares(less, f)
         /\ Only(list, f, v) => Only(less, f, v) /\ (w.file = f => w.value = v)
         /\ Hits(list, f) => Hits(less, f) \/ w.file = f
<1>1. \A i \in DOMAIN less : \E k \in DOMAIN list : less[i] \subseteq list[k]
  <2> SUFFICES ASSUME NEW i \in DOMAIN less PROVE \E k \in DOMAIN list : less[i] \subseteq list[k]
    OBVIOUS
  <2>1. CASE list[1] = {w}
    <3>1. i + 1 \in DOMAIN list /\ less[i] = list[i + 1]
      BY <2>1 DEF IsLess
    <3>2. QED BY <3>1
  <2>2. CASE list[1] # {w}
    <3>1. i \in DOMAIN list /\ less[i] \subseteq list[i]
      BY <2>2 DEF IsLess
    <3>2. QED BY <3>1
  <2>3. QED BY <2>1, <2>2
<1>2. Spares(list, f) => Spares(less, f)
  BY <1>1 DEF Spares
<1>3. Only(list, f, v) => Only(less, f, v)
  BY <1>1 DEF Only
<1>4. Only(list, f, v) => (w.file = f => w.value = v)
  BY DEF Only, IsLess
<1>5. ASSUME Hits(list, f), w.file # f
      PROVE  Hits(less, f)
  <2>1. PICK i \in DOMAIN list : \E x \in list[i] : x.file = f
    BY <1>5 DEF Hits
  <2>2. PICK x \in list[i] : x.file = f
    BY <2>1
  <2>3. x # w
    BY <1>5, <2>2
  <2>4. CASE list[1] = {w}
    <3>1. i # 1 /\ i - 1 \in DOMAIN less /\ less[i - 1] = list[i]
      BY <2>2, <2>3, <2>4 DEF IsLess
    <3>2. QED BY <2>2, <3>1 DEF Hits
  <2>5. CASE list[1] # {w}
    <3>1. i \in DOMAIN less /\ x \in less[i]
      BY <2>2, <2>3, <2>5 DEF IsLess
    <3>2. QED BY <2>2, <3>1 DEF Hits
  <2>6. QED BY <2>4, <2>5
<1>6. QED BY <1>2, <1>3, <1>4, <1>5

LEMMA LessLands ==
  ASSUME NEW list, NEW w, NEW less, IsLess(list, w, less), NEW f, NEW v, NEW value,
         Lands(list, f, v, value)
  PROVE  Lands(less, f, v, IF w.file = f THEN w.value ELSE value)
<1> DEFINE next == IF w.file = f THEN w.value ELSE value
<1>1. 1 \in DOMAIN list /\ w \in list[1] /\ DOMAIN list = 1 .. Len(list) /\ Len(list) \in Nat
  BY DEF IsLess
<1>2. CASE Spares(list, f) /\ value = v
  <2>1. w.file # f
    BY <1>1, <1>2 DEF Spares
  <2>2. QED BY <1>2, <2>1, LessAgrees DEF Lands
<1>3. CASE Sets(list, f, v)
  <2>1. PICK i \in 1 .. Len(list) :
          /\ \E x \in list[i] : x.file = f
          /\ \A x \in list[i] : x.file = f => x.value = v
          /\ \A k \in 1 .. Len(list) : k > i => \A x \in list[k] : x.file # f
    BY <1>1, <1>3 DEF Sets
  <2>2. CASE list[1] = {w}
    <3>0. /\ DOMAIN less = 1 .. Len(list) - 1
          /\ \A k \in 1 .. Len(list) - 1 : less[k] = list[k + 1]
      BY <2>2 DEF IsLess
    <3>1. CASE i = 1
      <4>1. w.file = f /\ w.value = v
        BY <1>1, <2>1, <2>2, <3>1
      <4>2. Spares(less, f)
        <5> SUFFICES ASSUME NEW k \in 1 .. Len(list) - 1 PROVE \A x \in less[k] : x.file # f
          BY <3>0 DEF Spares
        <5>1. less[k] = list[k + 1] /\ k + 1 > i /\ k + 1 \in 1 .. Len(list)
          BY <1>1, <3>0, <3>1
        <5>2. QED BY <2>1, <5>1
      <4>3. QED BY <4>1, <4>2 DEF Lands
    <3>2. CASE i # 1
      <4>1. i - 1 \in DOMAIN less /\ less[i - 1] = list[i]
        BY <1>1, <2>1, <3>0, <3>2
      <4>2. ASSUME NEW k \in DOMAIN less, k > i - 1
            PROVE  \A x \in less[k] : x.file # f
        <5>1. less[k] = list[k + 1] /\ k + 1 > i /\ k + 1 \in 1 .. Len(list)
          BY <1>1, <2>1, <3>0, <4>2
        <5>2. QED BY <2>1, <5>1
      <4>3. Sets(less, f, v)
        BY <2>1, <4>1, <4>2 DEF Sets
      <4>4. QED BY <4>3 DEF Lands
    <3>3. QED BY <3>1, <3>2
  <2>3. CASE list[1] # {w}
    <3>1. /\ DOMAIN less = 1 .. Len(list)
          /\ less[1] = list[1] \ {w}
          /\ \A k \in 2 .. Len(list) : less[k] = list[k]
      BY <2>3 DEF IsLess
    <3>2. \A k \in 1 .. Len(list) : less[k] \subseteq list[k]
      BY <1>1, <3>1
    <3>3. CASE \E x \in less[i] : x.file = f
      <4>1. Sets(less, f, v)
        BY <1>1, <2>1, <3>1, <3>2, <3>3 DEF Sets
      <4>2. QED BY <4>1 DEF Lands
    <3>4. CASE \A x \in less[i] : x.file # f
      <4>1. i = 1 /\ w.file = f /\ w.value = v
        BY <1>1, <2>1, <3>1, <3>4
      <4>2. Spares(less, f)
        BY <1>1, <2>1, <3>1, <3>4, <4>1 DEF Spares
      <4>3. QED BY <4>1, <4>2 DEF Lands
    <3>5. QED BY <3>3, <3>4
  <2>4. QED BY <2>2, <2>3
<1>4. QED BY <1>2, <1>3 DEF Lands

LEMMA Concat ==
  ASSUME NEW S, NEW s \in Seq(S), NEW t \in Seq(S), NEW f, NEW v
  PROVE  /\ s \o t \in Seq(S)
         /\ Spares(s \o t, f) <=> Spares(s, f) /\ Spares(t, f)
         /\ Only(s \o t, f, v) <=> Only(s, f, v) /\ Only(t, f, v)
         /\ Hits(s \o t, f) <=> Hits(s, f) \/ Hits(t, f)
         /\ Sets(t, f, v) => Sets(s \o t, f, v)
         /\ Sets(s, f, v) /\ Spares(t, f) => Sets(s \o t, f, v)
<1> DEFINE both == s \o t
<1>1. /\ both \in Seq(S) /\ DOMAIN both = 1 .. Len(s) + Len(t)
      /\ Len(s) \in Nat /\ Len(t) \in Nat /\ DOMAIN s = 1 .. Len(s) /\ DOMAIN t = 1 .. Len(t)
      /\ \A i \in 1 .. Len(s) : both[i] = s[i]
      /\ \A i \in 1 .. Len(t) : both[Len(s) + i] = t[i]
  OBVIOUS
<1> HIDE DEF both
<1>2. \A i \in DOMAIN both : (i \in DOMAIN s /\ both[i] = s[i])
                             \/ (i - Len(s) \in DOMAIN t /\ both[i] = t[i - Len(s)])
  <2> SUFFICES ASSUME NEW i \in DOMAIN both, i \notin DOMAIN s
               PROVE  i - Len(s) \in DOMAIN t /\ both[i] = t[i - Len(s)]
    BY <1>1
  <2>1. i - Len(s) \in DOMAIN t /\ Len(s) + (i - Len(s)) = i
    BY <1>1
  <2>2. QED BY <1>1, <2>1
<1>3. (\A i \in DOMAIN s : i \in DOMAIN both /\ both[i] = s[i])
      /\ \A i \in DOMAIN t : Len(s) + i \in DOMAIN both /\ both[Len(s) + i] = t[i]
  BY <1>1
<1>4. Spares(both, f) <=> Spares(s, f) /\ Spares(t, f)
  BY <1>2, <1>3 DEF Spares
<1>5. Only(both, f, v) <=> Only(s, f, v) /\ Only(t, f, v)
  BY <1>2, <1>3 DEF Only
<1>6. Hits(both, f) <=> Hits(s, f) \/ Hits(t, f)
  BY <1>2, <1>3 DEF Hits
<1>7. ASSUME Sets(t, f, v) PROVE Sets(both, f, v)
  <2>1. PICK i \in DOMAIN t :
          /\ \E w \in t[i] : w.file = f
          /\ \A w \in t[i] : w.file = f => w.value = v
          /\ \A k \in DOMAIN t : k > i => \A w \in t[k] : w.file # f
    BY <1>7 DEF Sets
  <2>2. \A k \in DOMAIN both : k > Len(s) + i => k - Len(s) \in DOMAIN t /\ k - Len(s) > i
                                                 /\ both[k] = t[k - Len(s)]
    <3> SUFFICES ASSUME NEW k \in DOMAIN both, k > Len(s) + i
                 PROVE  k - Len(s) \in DOMAIN t /\ k - Len(s) > i /\ both[k] = t[k - Len(s)]
      OBVIOUS
    <3>1. k \notin DOMAIN s /\ k - Len(s) > i
      BY <1>1
    <3>2. QED BY <1>2, <3>1
  <2>3. Len(s) + i \in DOMAIN both /\ both[Len(s) + i] = t[i]
    BY <1>3
  <2>4. QED BY <2>1, <2>2, <2>3 DEF Sets
<1>8. ASSUME Sets(s, f, v), Spares(t, f) PROVE Sets(both, f, v)
  <2>1. PICK i \in DOMAIN s :
          /\ \E w \in s[i] : w.file = f
          /\ \A w \in s[i] : w.file = f => w.value = v
          /\ \A k \in DOMAIN s : k > i => \A w \in s[k] : w.file # f
    BY <1>8 DEF Sets
  <2>2. \A k \in DOMAIN both : k > i => \A w \in both[k] : w.file # f
    BY <1>2, <1>8, <2>1 DEF Spares
  <2>3. i \in DOMAIN both /\ both[i] = s[i]
    BY <1>3
  <2>4. QED BY <2>1, <2>2, <2>3 DEF Sets
<1>9. QED BY <1>1, <1>4, <1>5, <1>6, <1>7, <1>8 DEF both

LEMMA Reversed ==
  ASSUME NEW S, NEW s \in Seq(S), NEW f, NEW v
  PROVE  /\ Reverse(s) \in Seq(S)
         /\ Spares(s, f) => Spares(Reverse(s), f)
         /\ Only(s, f, v) => Only(Reverse(s), f, v)
         /\ Hits(s, f) => Hits(Reverse(s), f)
<1> DEFINE r == Reverse(s)
<1>1. /\ r \in Seq(S) /\ DOMAIN r = DOMAIN s /\ DOMAIN s = 1 .. Len(s) /\ Len(s) \in Nat
      /\ \A i \in DOMAIN s : r[i] = s[(Len(s) - i) + 1]
  BY DEF Reverse
<1>2. \A i \in DOMAIN s : (Len(s) - i) + 1 \in DOMAIN s
                            /\ (Len(s) - ((Len(s) - i) + 1)) + 1 = i
  BY <1>1
<1> HIDE DEF r
<1>3. \A i \in DOMAIN r : \E k \in DOMAIN s : r[i] = s[k]
  BY <1>1, <1>2
<1>4. \A i \in DOMAIN s : \E k \in DOMAIN r : r[k] = s[i]
  BY <1>1, <1>2
<1>5. QED BY <1>1, <1>3, <1>4 DEF Spares, Only, Hits, r

LEMMA Grouped ==
  ASSUME NEW S, NEW W \in SUBSET S, NEW f, NEW v
  PROVE  /\ Group(W) \in Seq(SUBSET S)
         /\ (\A w \in W : w.file # f) => Spares(Group(W), f)
         /\ (\A w \in W : w.file = f => w.value = v) => Only(Group(W), f, v)
         /\ (\E w \in W : w.file = f) => Hits(Group(W), f)
         /\ (\E w \in W : w.file = f) /\ (\A w \in W : w.file = f => w.value = v)
              => Sets(Group(W), f, v)
<1>1. CASE W = {}
  <2>1. Group(W) = << >>
    BY <1>1 DEF Group
  <2>2. DOMAIN Group(W) = {} /\ Group(W) \in Seq(SUBSET S)
    BY <2>1
  <2>3. ~(\E w \in W : w.file = f)
    BY <1>1
  <2>4. QED BY <2>2, <2>3 DEF Spares, Only
<1>2. CASE W # {}
  <2>1. Group(W) = <<W>>
    BY <1>2 DEF Group
  <2>2. <<W>> \in Seq(SUBSET S) /\ DOMAIN <<W>> = {1} /\ <<W>>[1] = W
    OBVIOUS
  <2>3. QED BY <2>1, <2>2 DEF Spares, Only, Hits, Sets
<1>3. QED BY <1>1, <1>2

\* The list makes those of the writes that are in one of the directories.
Covers(list, W, D, f, v) ==
  /\ (f[1] \notin D \/ \A w \in W : w.file # f) => Spares(list, f)
  /\ (\A w \in W : w.file = f => w.value = v) => Only(list, f, v)
  /\ (f[1] \in D /\ \E w \in W : w.file = f) => Hits(list, f)
  /\ (f[1] \in D /\ (\E w \in W : w.file = f) /\ \A w \in W : w.file = f => w.value = v)
       => Sets(list, f, v)

LEMMA CoversOne ==
  ASSUME NEW S, NEW W \in SUBSET S, NEW D, NEW f, NEW v
  PROVE  LET list == Group({w \in W : w.file[1] \in D})
         IN  list \in Seq(SUBSET S) /\ Covers(list, W, D, f, v)
<1> DEFINE X == {w \in W : w.file[1] \in D}
<1>1. X \in SUBSET S /\ X \subseteq W
  OBVIOUS
<1>2. (f[1] \notin D \/ \A w \in W : w.file # f) => \A w \in X : w.file # f
  OBVIOUS
<1>3. (f[1] \in D /\ \E w \in W : w.file = f) => \E w \in X : w.file = f
  OBVIOUS
<1> HIDE DEF X
<1>4. Covers(Group(X), W, D, f, v) /\ Group(X) \in Seq(SUBSET S)
  BY <1>1, <1>2, <1>3, Grouped DEF Covers
<1>5. QED BY <1>4 DEF X

LEMMA CoversBoth ==
  ASSUME NEW S, NEW s \in Seq(SUBSET S), NEW t \in Seq(SUBSET S), NEW W, NEW D, NEW E, NEW f, NEW v,
         Covers(s, W, D, f, v), Covers(t, W, E, f, v), D \cap E = {}
  PROVE  s \o t \in Seq(SUBSET S) /\ Covers(s \o t, W, D \cup E, f, v)
<1>1. f[1] \in D => f[1] \notin E
  OBVIOUS
<1> DEFINE both == s \o t
<1>2. /\ both \in Seq(SUBSET S)
      /\ Spares(both, f) <=> Spares(s, f) /\ Spares(t, f)
      /\ Only(both, f, v) <=> Only(s, f, v) /\ Only(t, f, v)
      /\ Hits(both, f) <=> Hits(s, f) \/ Hits(t, f)
      /\ Sets(t, f, v) => Sets(both, f, v)
      /\ Sets(s, f, v) /\ Spares(t, f) => Sets(both, f, v)
  BY Concat
<1> HIDE DEF both
<1>3. Covers(both, W, D \cup E, f, v)
  BY <1>1, <1>2 DEF Covers
<1>4. QED BY <1>2, <1>3 DEF both

LEMMA Batched ==
  ASSUME NEW S, NEW W \in SUBSET S, NEW f, NEW v
  PROVE  Batches(W) \in Seq(SUBSET S) /\ Covers(Batches(W), W, Directories, f, v)
<1> DEFINE A == Group({w \in W : w.file[1] \in {"backup", "zip"}})
           B == Group({w \in W : w.file[1] \in {"queue"}})
           C == Group({w \in W : w.file[1] \in {"receipts"}})
           D == Group({w \in W : w.file[1] \in {"tombstone"}})
           E == Group({w \in W : w.file[1] \in {"forget"}})
           F == Group({w \in W : w.file[1] \in {"catalog"}})
           G == Group({w \in W : w.file[1] \in {"events"}})
           H == Group({w \in W : w.file[1] \in {"memory"}})
<1>1. Batches(W) = ((((((A \o B) \o C) \o D) \o E) \o F) \o G) \o H
  BY DEF Batches
<1>2. /\ A \in Seq(SUBSET S) /\ Covers(A, W, {"backup", "zip"}, f, v)
      /\ B \in Seq(SUBSET S) /\ Covers(B, W, {"queue"}, f, v)
      /\ C \in Seq(SUBSET S) /\ Covers(C, W, {"receipts"}, f, v)
      /\ D \in Seq(SUBSET S) /\ Covers(D, W, {"tombstone"}, f, v)
      /\ E \in Seq(SUBSET S) /\ Covers(E, W, {"forget"}, f, v)
      /\ F \in Seq(SUBSET S) /\ Covers(F, W, {"catalog"}, f, v)
      /\ G \in Seq(SUBSET S) /\ Covers(G, W, {"events"}, f, v)
      /\ H \in Seq(SUBSET S) /\ Covers(H, W, {"memory"}, f, v)
  BY CoversOne
<1> HIDE DEF A, B, C, D, E, F, G, H
<1> DEFINE AB == A \o B
           AC == AB \o C
           AD == AC \o D
           AE == AD \o E
           AF == AE \o F
           AG == AF \o G
<1>3. AB \in Seq(SUBSET S) /\ Covers(AB, W, {"backup", "zip"} \cup {"queue"}, f, v)
  BY ONLY <1>2, CoversBoth
<1> HIDE DEF AB
<1>4. AC \in Seq(SUBSET S) /\ Covers(AC, W, {"backup", "zip", "queue"} \cup {"receipts"}, f, v)
  <2>1. {"backup", "zip"} \cup {"queue"} = {"backup", "zip", "queue"}
    OBVIOUS
  <2>2. QED BY ONLY <1>2, <1>3, <2>1, CoversBoth
<1> HIDE DEF AC
<1>5. AD \in Seq(SUBSET S)
      /\ Covers(AD, W, {"backup", "zip", "queue", "receipts"} \cup {"tombstone"}, f, v)
  <2>1. {"backup", "zip", "queue"} \cup {"receipts"} = {"backup", "zip", "queue", "receipts"}
    OBVIOUS
  <2>2. QED BY ONLY <1>2, <1>4, <2>1, CoversBoth
<1> HIDE DEF AD
<1>6. AE \in Seq(SUBSET S)
      /\ Covers(AE, W, {"backup", "zip", "queue", "receipts", "tombstone"} \cup {"forget"}, f, v)
  <2>1. {"backup", "zip", "queue", "receipts"} \cup {"tombstone"}
          = {"backup", "zip", "queue", "receipts", "tombstone"}
    OBVIOUS
  <2>2. QED BY ONLY <1>2, <1>5, <2>1, CoversBoth
<1> HIDE DEF AE
<1>7. AF \in Seq(SUBSET S)
      /\ Covers(AF, W, (Directories \ {"catalog", "events", "memory"}) \cup {"catalog"}, f, v)
  <2>1. {"backup", "zip", "queue", "receipts", "tombstone"} \cup {"forget"}
          = Directories \ {"catalog", "events", "memory"}
    BY DEF Directories
  <2>2. (Directories \ {"catalog", "events", "memory"}) \cap {"catalog"} = {}
    OBVIOUS
  <2>3. QED BY ONLY <1>2, <1>6, <2>1, <2>2, CoversBoth
<1> HIDE DEF AF
<1>8. AG \in Seq(SUBSET S)
      /\ Covers(AG, W, (Directories \ {"events", "memory"}) \cup {"events"}, f, v)
  <2>1. (Directories \ {"catalog", "events", "memory"}) \cup {"catalog"}
          = Directories \ {"events", "memory"}
    BY DEF Directories
  <2>2. (Directories \ {"events", "memory"}) \cap {"events"} = {}
    OBVIOUS
  <2>3. QED BY ONLY <1>2, <1>7, <2>1, <2>2, CoversBoth
<1> HIDE DEF AG
<1>9. AG \o H \in Seq(SUBSET S)
      /\ Covers(AG \o H, W, (Directories \ {"memory"}) \cup {"memory"}, f, v)
  <2>1. (Directories \ {"events", "memory"}) \cup {"events"} = Directories \ {"memory"}
    BY DEF Directories
  <2>2. (Directories \ {"memory"}) \cap {"memory"} = {}
    OBVIOUS
  <2>3. QED BY ONLY <1>2, <1>8, <2>1, <2>2, CoversBoth
<1>10. (Directories \ {"memory"}) \cup {"memory"} = Directories
  BY DEF Directories
<1>11. Batches(W) = AG \o H
  BY ONLY <1>1 DEF AB, AC, AD, AE, AF, AG
<1>12. QED BY ONLY <1>9, <1>10, <1>11

-----------------------------------------------------------------------------
(* Files and what they hold                                                *)

LEMMA Named ==
  /\ \A id \in Ids : /\ Memory(id) \in Files /\ Tombstone(id) \in Files /\ Forget(id) \in Files
                     /\ Memory(id)[1] = "memory" /\ Tombstone(id)[1] = "tombstone"
                     /\ Forget(id)[1] = "forget" /\ Memory(id)[2] = id /\ Tombstone(id)[2] = id
                     /\ Forget(id)[2] = id
  /\ \A s \in Sources : /\ Queue(s) \in Files /\ Undo(s) \in Files
                        /\ Queue(s)[1] = "queue" /\ Undo(s)[1] = "backup"
                        /\ Queue(s)[2] = s /\ Undo(s)[2] = s
  /\ \A z \in Slots : Archive(z) \in Files /\ Archive(z)[1] = "zip" /\ Archive(z)[2] = z
  /\ Events \in Files /\ SourceKeys \in Files /\ Catalog \in Files
  /\ Events[1] = "events" /\ SourceKeys[1] = "receipts" /\ Catalog[1] = "catalog"
BY DEF Files, Memory, Tombstone, Forget, Queue, Undo, Archive, Events, SourceKeys, Catalog

LEMMA KindsOf ==
  ASSUME NEW f \in Files
  PROVE  /\ f[1] \in Directories
         /\ f[1] = "memory" => \E id \in Ids : f = Memory(id)
         /\ f[1] = "tombstone" => \E id \in Ids : f = Tombstone(id)
         /\ f[1] = "forget" => \E id \in Ids : f = Forget(id)
         /\ f[1] = "queue" => \E s \in Sources : f = Queue(s)
         /\ f[1] = "backup" => \E s \in Sources : f = Undo(s)
         /\ f[1] = "zip" => \E z \in Slots : f = Archive(z)
         /\ f[1] = "events" => f = Events
         /\ f[1] = "receipts" => f = SourceKeys
         /\ f[1] = "catalog" => f = Catalog
BY DEF Files, Directories, Memory, Tombstone, Forget, Queue, Undo, Archive, Events, SourceKeys,
       Catalog

LEMMA ContentOf ==
  /\ \A id \in Ids : /\ Content(Memory(id)) = Sources
                     /\ Content(Tombstone(id)) = {"forgotten", "in_progress"}
                     /\ Content(Forget(id)) = Requests
  /\ \A s \in Sources : Content(Queue(s)) = Pending /\ Content(Undo(s)) = Entry
  /\ Content(Events) = SUBSET Entry /\ Content(SourceKeys) = SUBSET Entry
  /\ Content(Catalog) = Cards
BY DEF Content, Memory, Tombstone, Forget, Queue, Undo, Events, SourceKeys, Catalog

LEMMA ValuesOf ==
  /\ \A id \in Ids : /\ Values(Memory(id)) = Sources \cup {Absent}
                     /\ Values(Tombstone(id)) = {"forgotten", "in_progress", Absent}
                     /\ Values(Forget(id)) = Requests \cup {Absent}
  /\ \A s \in Sources : Values(Queue(s)) = Pending \cup {Absent} /\ Values(Undo(s)) = Entry \cup {Absent}
  /\ \A z \in Slots : Values(Archive(z)) = ArchiveSet \cup {Absent}
  /\ Values(Events) = (SUBSET Entry) \cup {Absent} /\ Values(SourceKeys) = (SUBSET Entry) \cup {Absent}
  /\ Values(Catalog) = Cards \cup {Absent}
<1>1. \A f : f[1] # "zip" => Values(f) = Content(f) \cup {Absent}
  BY DEF Values
<1>2. ASSUME NEW id \in Ids
      PROVE  /\ Values(Memory(id)) = Sources \cup {Absent}
             /\ Values(Tombstone(id)) = {"forgotten", "in_progress", Absent}
             /\ Values(Forget(id)) = Requests \cup {Absent}
  BY <1>1, Named, ContentOf
<1>3. ASSUME NEW s \in Sources
      PROVE  Values(Queue(s)) = Pending \cup {Absent} /\ Values(Undo(s)) = Entry \cup {Absent}
  BY <1>1, Named, ContentOf
<1>4. \A z \in Slots : Values(Archive(z)) = ArchiveSet \cup {Absent}
  BY Named DEF Values
<1>5. /\ Values(Events) = (SUBSET Entry) \cup {Absent} /\ Values(SourceKeys) = (SUBSET Entry) \cup {Absent}
      /\ Values(Catalog) = Cards \cup {Absent}
  <2>1. Events[1] # "zip" /\ SourceKeys[1] # "zip" /\ Catalog[1] # "zip"
    BY Named
  <2>2. /\ Values(Events) = Content(Events) \cup {Absent}
        /\ Values(SourceKeys) = Content(SourceKeys) \cup {Absent}
        /\ Values(Catalog) = Content(Catalog) \cup {Absent}
    BY <2>1 DEF Values
  <2>3. QED BY <2>2, ContentOf
<1>6. QED BY <1>2, <1>3, <1>4, <1>5

LEMMA RootIs ==
  ASSUME NEW F, DOMAIN F = Files, F = [f \in Files |-> F[f]], \A f \in Files : F[f] \in Values(f)
  PROVE  F \in Roots
<1> DEFINE V == UNION {Values(f) : f \in Files}
<1>1. \A f \in Files : F[f] \in V
  OBVIOUS
<1> HIDE DEF V
<1>2. F \in [Files -> V]
  BY <1>1
<1>3. QED BY <1>2 DEF Roots, V

LEMMA InRoot ==
  ASSUME NEW F \in Roots
  PROVE  DOMAIN F = Files /\ (\A f \in Files : F[f] \in Values(f)) /\ F = [f \in Files |-> F[f]]
BY DEF Roots

LEMMA WriteOf ==
  ASSUME NEW f \in Files, NEW v \in Values(f)
  PROVE  Write(f, v) \in Writes /\ Write(f, v).file = f /\ Write(f, v).value = v
<1>1. Write(f, v) \in [file : {f}, value : Values(f)]
  BY DEF Write
<1>2. Write(f, v).file = f /\ Write(f, v).value = v
  BY DEF Write
<1>3. QED BY <1>1, <1>2 DEF Writes

LEMMA WriteIs ==
  ASSUME NEW w \in Writes
  PROVE  w.file \in Files /\ w.value \in Values(w.file)
<1>1. PICK f \in Files : w \in [file : {f}, value : Values(f)]
  BY DEF Writes
<1>2. QED BY <1>1

Set(F, f, v) == [F EXCEPT ![f] = v]

LEMMA RootWrite ==
  ASSUME NEW F \in Roots, NEW f \in Files, NEW v \in Values(f)
  PROVE  Set(F, f, v) \in Roots /\ \A g \in Files : Set(F, f, v)[g] = IF g = f THEN v ELSE F[g]
<1> DEFINE G == Set(F, f, v)
<1>1. DOMAIN F = Files /\ \A g \in Files : F[g] \in Values(g)
  BY InRoot
<1>2. DOMAIN G = Files /\ \A g \in Files : G[g] = IF g = f THEN v ELSE F[g]
  BY <1>1 DEF Set
<1>3. \A g \in Files : G[g] \in Values(g)
  BY <1>1, <1>2
<1>4. G = [g \in Files |-> G[g]]
  BY <1>1 DEF Set
<1> HIDE DEF G
<1>5. G \in Roots
  BY <1>2, <1>3, <1>4, RootIs
<1>6. QED BY <1>2, <1>5 DEF G

-----------------------------------------------------------------------------
(* Lists                                                                   *)

LEMMA Wider ==
  ASSUME NEW S, NEW T, S \subseteq T, NEW list \in Seq(SUBSET S)
  PROVE  list \in Seq(SUBSET T)
<1>1. /\ Len(list) \in Nat /\ list = [i \in 1 .. Len(list) |-> list[i]]
      /\ \A i \in 1 .. Len(list) : list[i] \in SUBSET S
  OBVIOUS
<1>2. \A i \in 1 .. Len(list) : list[i] \in SUBSET T
  BY <1>1
<1>3. list \in [1 .. Len(list) -> SUBSET T]
  BY <1>1, <1>2
<1>4. QED BY <1>1, <1>3

LEMMA OfSet ==
  ASSUME NEW S, NEW list \in Seq(SUBSET S)
  PROVE  \A i \in DOMAIN list : \A w \in list[i] : w \in S
OBVIOUS

\* When the writes of W are all that is missing to bring f from value to v.
LEMMA Aimed ==
  ASSUME NEW S, NEW W \in SUBSET S, NEW f \in Files, NEW v, NEW value,
         \A w \in W : w.file = f => w.value = v,
         value # v => \E w \in W : w.file = f
  PROVE  Lands(Batches(W), f, v, value)
<1>1. f[1] \in Directories
  BY KindsOf
<1>2. Covers(Batches(W), W, Directories, f, v)
  BY Batched
<1>3. QED BY <1>1, <1>2 DEF Covers, Lands

\* What is written last stays; nothing that spares f matters.
LEMMA LandsThen ==
  ASSUME NEW S, NEW s \in Seq(SUBSET S), NEW t \in Seq(SUBSET S), NEW f, NEW v, NEW value
  PROVE  /\ Sets(t, f, v) => Lands(s \o t, f, v, value)
         /\ Lands(s, f, v, value) /\ Spares(t, f) => Lands(s \o t, f, v, value)
BY Concat DEF Lands

LEMMA Landed ==
  ASSUME NEW list, list = << >>, NEW f, NEW v, NEW value, Lands(list, f, v, value)
  PROVE  value = v
<1>1. DOMAIN list = {}
  OBVIOUS
<1>2. QED BY <1>1 DEF Lands, Sets

\* The last of the batches that write f.
LEMMA LastOf ==
  ASSUME NEW I \in SUBSET Nat, NEW n \in Nat, \A i \in I : i <= n, I # {}
  PROVE  \E m \in I : \A i \in I : i <= m
<1> DEFINE J == {n - i : i \in I}
           Smaller == OpToRel(<, Nat)
<1>1. J \subseteq Nat
  OBVIOUS
<1>2. J # {}
  OBVIOUS
<1>3. IsWellFoundedOn(Smaller, Nat)
  BY NatLessThanWellFounded
<1>4. \A x, y \in Nat : x < y => <<x, y>> \in Smaller
  BY DEF OpToRel
<1>5. \A i \in I : n - i \in J
  OBVIOUS
<1>6. \A x \in J : \E i \in I : x = n - i
  OBVIOUS
<1> HIDE DEF J, Smaller
<1>7. PICK j \in J : \A k \in J : ~(<<k, j>> \in Smaller)
  BY ONLY <1>1, <1>2, <1>3, WFMin
<1>8. PICK m \in I : j = n - m
  BY <1>6
<1>9. ASSUME NEW i \in I PROVE i <= m
  <2>1. n - i \in J /\ n - i \in Nat /\ j \in Nat
    BY <1>1, <1>5
  <2>2. ~(n - i < j)
    BY <1>4, <1>7, <2>1
  <2>3. QED BY <1>8, <2>1, <2>2
<1>10. QED BY <1>9

LEMMA OnlySets ==
  ASSUME NEW S, NEW list \in Seq(S), NEW f, NEW v, Only(list, f, v), Hits(list, f)
  PROVE  Sets(list, f, v)
<1> DEFINE I == {i \in DOMAIN list : \E w \in list[i] : w.file = f}
<1>1. DOMAIN list = 1 .. Len(list) /\ Len(list) \in Nat
  OBVIOUS
<1>2. I \in SUBSET Nat /\ I # {} /\ \A i \in I : i <= Len(list)
  BY <1>1 DEF Hits
<1>3. PICK m \in I : \A i \in I : i <= m
  BY <1>1, <1>2, LastOf
<1>4. \A k \in DOMAIN list : k > m => \A w \in list[k] : w.file # f
  <2> SUFFICES ASSUME NEW k \in DOMAIN list, k > m, NEW w \in list[k], w.file = f PROVE FALSE
    OBVIOUS
  <2>1. k \in I /\ k \in Nat /\ m \in Nat
    BY <1>1
  <2>2. QED BY <1>3, <2>1
<1>5. m \in DOMAIN list /\ \E w \in list[m] : w.file = f
  OBVIOUS
<1>6. \A w \in list[m] : w.file = f => w.value = v
  BY <1>5 DEF Only
<1>7. QED BY <1>4, <1>5, <1>6 DEF Sets

-----------------------------------------------------------------------------
(* A purge                                                                 *)

\* What a purge makes of a file.
Purged(F, id, f) ==
  IF f[1] = "backup" /\ F[f] # Absent /\ F[f].object \in Names(id) THEN Absent
  ELSE IF f[1] = "queue" /\ F[f] # Absent /\ F[f].object = id THEN Absent
  ELSE IF f[1] = "memory" /\ f[2] \in Names(id) THEN Absent
  ELSE IF f[1] = "zip" /\ F[f] # Absent THEN Rewritten(F[f], id)
  ELSE IF f[1] \in {"events", "receipts"} /\ F[f] # Absent THEN Entries(F[f]) \ Of(F[f], id)
  ELSE IF f[1] = "catalog" THEN [CardsOf(F) EXCEPT ![id] = Absent]
  ELSE F[f]

LEMMA PurgedUndo ==
  ASSUME NEW F, NEW id, NEW s \in Sources
  PROVE  Purged(F, id, Undo(s)) =
           IF F[Undo(s)] # Absent /\ F[Undo(s)].object \in Names(id) THEN Absent ELSE F[Undo(s)]
<1>1. Undo(s)[1] = "backup"
  BY Named
<1>2. QED BY <1>1 DEF Purged

LEMMA PurgedQueue ==
  ASSUME NEW F, NEW id, NEW s \in Sources
  PROVE  Purged(F, id, Queue(s)) =
           IF F[Queue(s)] # Absent /\ F[Queue(s)].object = id THEN Absent ELSE F[Queue(s)]
<1>1. Queue(s)[1] = "queue"
  BY Named
<1>2. QED BY <1>1 DEF Purged

LEMMA PurgedMemory ==
  ASSUME NEW F, NEW id, NEW b \in Ids
  PROVE  Purged(F, id, Memory(b)) = IF b \in Names(id) THEN Absent ELSE F[Memory(b)]
<1>1. Memory(b)[1] = "memory" /\ Memory(b)[2] = b
  BY Named
<1>2. QED BY <1>1 DEF Purged

LEMMA PurgedMark ==
  ASSUME NEW F, NEW id, NEW b \in Ids
  PROVE  Purged(F, id, Tombstone(b)) = F[Tombstone(b)] /\ Purged(F, id, Forget(b)) = F[Forget(b)]
<1>1. Tombstone(b)[1] = "tombstone" /\ Forget(b)[1] = "forget"
  BY Named
<1>2. QED BY <1>1 DEF Purged

LEMMA PurgedZip ==
  ASSUME NEW F, NEW id, NEW z \in Slots
  PROVE  Purged(F, id, Archive(z)) =
           IF F[Archive(z)] # Absent THEN Rewritten(F[Archive(z)], id) ELSE F[Archive(z)]
<1>1. Archive(z)[1] = "zip"
  BY Named
<1>2. QED BY <1>1 DEF Purged

LEMMA PurgedLog ==
  ASSUME NEW F, NEW id, NEW f \in {Events, SourceKeys}
  PROVE  Purged(F, id, f) = IF F[f] # Absent THEN Entries(F[f]) \ Of(F[f], id) ELSE F[f]
<1>1. f[1] \in {"events", "receipts"}
  BY Named
<1>2. QED BY <1>1 DEF Purged

LEMMA PurgedCatalog ==
  ASSUME NEW F, NEW id
  PROVE  Purged(F, id, Catalog) = [CardsOf(F) EXCEPT ![id] = Absent]
<1>1. Catalog[1] = "catalog"
  BY Named
<1>2. QED BY <1>1 DEF Purged

LEMMA InArchive ==
  /\ Archived \subseteq Files
  /\ \A id \in Ids : Memory(id) \in Archived /\ Tombstone(id) \in Archived /\ Forget(id) \in Archived
  /\ Events \in Archived /\ SourceKeys \in Archived /\ Catalog \in Archived
BY Named DEF Archived

LEMMA ArchiveIs ==
  ASSUME NEW a, DOMAIN a = Archived, a = [f \in Archived |-> a[f]],
         \A f \in Archived : a[f] \in Content(f) \cup {Absent}
  PROVE  a \in ArchiveSet
<1> DEFINE V == UNION {Content(f) \cup {Absent} : f \in Archived}
<1>1. \A f \in Archived : a[f] \in V
  OBVIOUS
<1> HIDE DEF V
<1>2. a \in [Archived -> V]
  BY <1>1
<1>3. IsArchive(a)
  BY DEF IsArchive
<1>4. QED BY <1>2, <1>3 DEF ArchiveSet, V

LEMMA OfArchive ==
  ASSUME NEW a \in ArchiveSet
  PROVE  DOMAIN a = Archived /\ \A f \in Archived : a[f] \in Content(f) \cup {Absent}
BY DEF ArchiveSet, IsArchive

\* There is a tombstone for id or a journal of its forgetting.
Marked(F, id) == F[Tombstone(id)] # Absent \/ F[Forget(id)] # Absent

LEMMA RewrittenIs ==
  ASSUME NEW a \in ArchiveSet, NEW id \in Ids
  PROVE  /\ Rewritten(a, id) \in ArchiveSet
         /\ Rewritten(a, id)[Memory(id)] = Absent
         /\ \A b \in Ids : /\ Rewritten(a, id)[Memory(b)] \in {a[Memory(b)], Absent}
                           /\ b \notin Names(id) => Rewritten(a, id)[Memory(b)] = a[Memory(b)]
                           /\ b # id /\ Marked(Rewritten(a, id), b) => Marked(a, b)
<1> DEFINE A == Rewritten(a, id)
<1>1. /\ DOMAIN A = Archived
      /\ \A f \in Archived : (A[f] = "forgotten" /\ f = Tombstone(id)) \/ A[f] \in {a[f], Absent}
      /\ A = [f \in Archived |-> A[f]]
  BY DEF Rewritten
<1>2. \A f \in Archived : a[f] \in Content(f) \cup {Absent}
  BY OfArchive
<1>3. \A f \in Archived : A[f] \in Content(f) \cup {Absent}
  <2> SUFFICES ASSUME NEW f \in Archived PROVE A[f] \in Content(f) \cup {Absent}
    OBVIOUS
  <2> HIDE DEF A
  <2>1. CASE A[f] = "forgotten" /\ f = Tombstone(id)
    <3>1. Content(f) = {"forgotten", "in_progress"}
      BY <2>1, ContentOf
    <3>2. QED BY <2>1, <3>1
  <2>2. CASE A[f] \in {a[f], Absent}
    BY <1>2, <2>2
  <2>3. QED BY <1>1, <2>1, <2>2
<1>4. ASSUME NEW b \in Ids
      PROVE  /\ A[Memory(b)] \in {a[Memory(b)], Absent}
             /\ b \in Names(id) => A[Memory(b)] = Absent
             /\ b \notin Names(id) => A[Memory(b)] = a[Memory(b)]
             /\ b # id => A[Tombstone(b)] \in {a[Tombstone(b)], Absent}
             /\ A[Forget(b)] \in {a[Forget(b)], Absent}
  <2>1. /\ Memory(b) \in Archived /\ Tombstone(b) \in Archived /\ Forget(b) \in Archived
        /\ Memory(b) # Tombstone(id) /\ Memory(b) # Forget(id)
        /\ Memory(b) # Events /\ Memory(b) # SourceKeys /\ Memory(b) # Catalog
        /\ Forget(b) # Tombstone(id) /\ (b # id => Tombstone(b) # Tombstone(id))
        /\ \A c \in Names(id) : Memory(b) = Memory(c) <=> b = c
    BY InArchive DEF Memory, Tombstone, Forget, Events, SourceKeys, Catalog
  <2>2. A[Memory(b)] = IF \E c \in Names(id) : Memory(b) = Memory(c) THEN Absent ELSE a[Memory(b)]
    BY <2>1 DEF Rewritten
  <2> HIDE DEF A
  <2>3. QED BY <1>1, <2>1, <2>2
<1>5. id \in Names(id)
  BY DEF Names
<1> HIDE DEF A
<1>6. A \in ArchiveSet
  BY <1>1, <1>3, ArchiveIs
<1>7. QED BY <1>4, <1>5, <1>6 DEF A, Marked

LEMMA PurgedTyped ==
  ASSUME NEW F \in Roots, NEW id \in Ids, NEW f \in Files
  PROVE  Purged(F, id, f) \in Values(f)
<1>1. F[f] \in Values(f)
  BY InRoot
<1>2. Absent \in Values(f)
  BY DEF Values
<1>3. CASE f[1] = "zip" /\ F[f] # Absent
  <2>1. PICK z \in Slots : f = Archive(z)
    BY <1>3, KindsOf
  <2>2. F[f] \in ArchiveSet
    BY <1>1, <1>3, <2>1, ValuesOf
  <2>3. Rewritten(F[f], id) \in ArchiveSet
    BY <2>2, RewrittenIs
  <2>4. Purged(F, id, f) = Rewritten(F[f], id)
    BY <1>3, <2>1, PurgedZip
  <2>5. Values(f) = ArchiveSet \cup {Absent}
    BY <2>1, ValuesOf
  <2>6. QED BY <2>3, <2>4, <2>5
<1>4. CASE f[1] \in {"events", "receipts"} /\ F[f] # Absent
  <2>1. f \in {Events, SourceKeys} /\ Values(f) = (SUBSET Entry) \cup {Absent}
    BY <1>4, KindsOf, ValuesOf
  <2>2. F[f] \subseteq Entry
    BY <1>1, <1>4, <2>1
  <2>3. Purged(F, id, f) = Entries(F[f]) \ Of(F[f], id)
    BY <1>4, <2>1, PurgedLog
  <2>4. Entries(F[f]) = F[f]
    BY <1>4 DEF Entries
  <2>5. QED BY <2>1, <2>2, <2>3, <2>4
<1>5. CASE f[1] = "catalog"
  <2>1. f = Catalog
    BY <1>5, KindsOf
  <2>2. \A b \in Ids : F[Memory(b)] \in Sources \cup {Absent}
    BY InRoot, Named, ValuesOf
  <2>3. [CardsOf(F) EXCEPT ![id] = Absent] \in Cards
    BY <2>2 DEF CardsOf, Cards
  <2>4. QED BY <2>1, <2>3, PurgedCatalog, ValuesOf
<1>6. CASE ~(f[1] = "zip" /\ F[f] # Absent) /\ ~(f[1] \in {"events", "receipts"} /\ F[f] # Absent)
             /\ f[1] # "catalog"
  <2>1. Purged(F, id, f) \in {F[f], Absent}
    BY <1>6 DEF Purged
  <2>2. QED BY <1>1, <1>2, <2>1
<1>7. QED BY <1>3, <1>4, <1>5, <1>6

\* A write of the plan.
Fits(F, id, w) ==
  /\ w.file \in Files /\ w = Write(w.file, Purged(F, id, w.file))
  /\ w.file[1] \notin {"tombstone", "forget"}

LEMMA FitsIs ==
  ASSUME NEW F, NEW id, NEW f \in Files, f[1] \notin {"tombstone", "forget"},
         NEW v, v = Purged(F, id, f)
  PROVE  Fits(F, id, Write(f, v))
<1>1. Write(f, v).file = f
  BY DEF Write
<1>2. QED BY <1>1 DEF Fits

LEMMA PurgeFits ==
  ASSUME NEW F \in Roots, NEW id \in Ids, NEW w \in PurgeWrites(F, id)
  PROVE  Fits(F, id, w)
<1>1. ASSUME NEW s \in Sources, F[Undo(s)] # Absent, F[Undo(s)].object \in Names(id)
      PROVE  Fits(F, id, Write(Undo(s), Absent))
  <2>1. Absent = Purged(F, id, Undo(s))
    BY <1>1, PurgedUndo
  <2>2. Undo(s) \in Files /\ Undo(s)[1] \notin {"tombstone", "forget"}
    BY Named
  <2>3. QED BY ONLY <2>1, <2>2, FitsIs
<1>2. ASSUME NEW z \in Slots, F[Archive(z)] # Absent
      PROVE  Fits(F, id, Write(Archive(z), Rewritten(F[Archive(z)], id)))
  <2>1. Rewritten(F[Archive(z)], id) = Purged(F, id, Archive(z))
    BY <1>2, PurgedZip
  <2>2. Archive(z) \in Files /\ Archive(z)[1] \notin {"tombstone", "forget"}
    BY Named
  <2>3. QED BY ONLY <2>1, <2>2, FitsIs
<1>3. ASSUME NEW f \in {Events, SourceKeys}, F[f] # Absent
      PROVE  Fits(F, id, Write(f, Entries(F[f]) \ Of(F[f], id)))
  <2>1. Entries(F[f]) \ Of(F[f], id) = Purged(F, id, f)
    BY <1>3, PurgedLog
  <2>2. f \in Files /\ f[1] \notin {"tombstone", "forget"}
    BY Named
  <2>3. QED BY ONLY <2>1, <2>2, FitsIs
<1>4. Fits(F, id, Write(Catalog, [CardsOf(F) EXCEPT ![id] = Absent]))
  <2>1. [CardsOf(F) EXCEPT ![id] = Absent] = Purged(F, id, Catalog)
    BY PurgedCatalog
  <2>2. Catalog \in Files /\ Catalog[1] \notin {"tombstone", "forget"}
    BY Named
  <2>3. QED BY ONLY <2>1, <2>2, FitsIs
<1>5. ASSUME NEW s \in Sources, F[Queue(s)] # Absent, F[Queue(s)].object = id
      PROVE  Fits(F, id, Write(Queue(s), Absent))
  <2>1. Absent = Purged(F, id, Queue(s))
    BY <1>5, PurgedQueue
  <2>2. Queue(s) \in Files /\ Queue(s)[1] \notin {"tombstone", "forget"}
    BY Named
  <2>3. QED BY ONLY <2>1, <2>2, FitsIs
<1>6. ASSUME NEW b \in Names(id)
      PROVE  Fits(F, id, Write(Memory(b), Absent))
  <2>1. b \in Ids
    BY DEF Names
  <2>2. Absent = Purged(F, id, Memory(b))
    BY <2>1, PurgedMemory
  <2>3. Memory(b) \in Files /\ Memory(b)[1] \notin {"tombstone", "forget"}
    BY <2>1, Named
  <2>4. QED BY ONLY <2>2, <2>3, FitsIs
<1>7. QED BY <1>1, <1>2, <1>3, <1>4, <1>5, <1>6
          DEF PurgeWrites, BackupWrites, FilteredWrites, MentionWrites

LEMMA PurgeCovers ==
  ASSUME NEW F \in Roots, NEW id \in Ids, NEW f \in Files, Purged(F, id, f) # F[f]
  PROVE  \E w \in PurgeWrites(F, id) : w.file = f
<1>0. \A v : Write(f, v).file = f
  BY DEF Write
<1>1. CASE f[1] = "backup"
  <2>1. PICK s \in Sources : f = Undo(s)
    BY <1>1, KindsOf
  <2>2. F[Undo(s)] # Absent /\ F[Undo(s)].object \in Names(id)
    BY <2>1, PurgedUndo
  <2>3. Write(f, Absent) \in BackupWrites(F, id)
    BY <2>1, <2>2 DEF BackupWrites
  <2>4. QED BY <1>0, <2>3 DEF PurgeWrites
<1>2. CASE f[1] = "zip"
  <2>1. PICK z \in Slots : f = Archive(z)
    BY <1>2, KindsOf
  <2>2. F[Archive(z)] # Absent
    BY <2>1, PurgedZip
  <2>3. Write(f, Rewritten(F[Archive(z)], id)) \in BackupWrites(F, id)
    BY <2>1, <2>2 DEF BackupWrites
  <2>4. QED BY <1>0, <2>3 DEF PurgeWrites
<1>3. CASE f[1] \in {"events", "receipts"}
  <2>1. f \in {Events, SourceKeys}
    BY <1>3, KindsOf
  <2>2. F[f] # Absent
    BY <2>1, PurgedLog
  <2>3. Write(f, Entries(F[f]) \ Of(F[f], id)) \in FilteredWrites(F, id)
    BY <2>1, <2>2 DEF FilteredWrites
  <2>4. QED BY <1>0, <2>3 DEF PurgeWrites
<1>4. CASE f[1] = "catalog"
  <2>1. f = Catalog
    BY <1>4, KindsOf
  <2>2. Write(f, [CardsOf(F) EXCEPT ![id] = Absent]) \in FilteredWrites(F, id)
    BY <2>1 DEF FilteredWrites
  <2>3. QED BY <1>0, <2>2 DEF PurgeWrites
<1>5. CASE f[1] = "queue"
  <2>1. PICK s \in Sources : f = Queue(s)
    BY <1>5, KindsOf
  <2>2. F[Queue(s)] # Absent /\ F[Queue(s)].object = id
    BY <2>1, PurgedQueue
  <2>3. Write(f, Absent) \in MentionWrites(F, id)
    BY <2>1, <2>2 DEF MentionWrites
  <2>4. QED BY <1>0, <2>3 DEF PurgeWrites
<1>6. CASE f[1] = "memory"
  <2>1. PICK b \in Ids : f = Memory(b)
    BY <1>6, KindsOf
  <2>2. b \in Names(id) /\ F[Memory(b)] # Absent
    BY <2>1, PurgedMemory
  <2>3. Write(f, Absent) \in MentionWrites(F, id)
    BY <2>1, <2>2 DEF MentionWrites
  <2>4. QED BY <1>0, <2>3 DEF PurgeWrites
<1>7. CASE f[1] \in {"tombstone", "forget"}
  <2>1. PICK b \in Ids : f = Tombstone(b) \/ f = Forget(b)
    BY <1>7, KindsOf
  <2>2. QED BY <2>1, PurgedMark
<1>8. f[1] \in Directories
  BY KindsOf
<1>9. QED BY <1>1, <1>2, <1>3, <1>4, <1>5, <1>6, <1>7, <1>8 DEF Directories

-----------------------------------------------------------------------------
(* Plans                                                                   *)

LEMMA LandsBoth ==
  ASSUME NEW S, NEW s \in Seq(SUBSET S), NEW t \in Seq(SUBSET S), NEW f, NEW u, NEW v, NEW value,
         Lands(s, f, u, value), Lands(t, f, v, u)
  PROVE  Lands(s \o t, f, v, value)
<1> DEFINE both == s \o t
<1>1. /\ Spares(both, f) <=> Spares(s, f) /\ Spares(t, f)
      /\ Sets(t, f, v) => Sets(both, f, v)
      /\ Sets(s, f, v) /\ Spares(t, f) => Sets(both, f, v)
  BY Concat
<1> HIDE DEF both
<1>2. QED BY <1>1 DEF Lands, both

LEMMA LandsNone ==
  ASSUME NEW f, NEW v
  PROVE  Lands(<< >>, f, v, v)
BY DEF Lands, Spares

LEMMA LandsOne ==
  ASSUME NEW w, NEW f, NEW value
  PROVE  /\ w.file = f => Lands(<<{w}>>, f, w.value, value)
         /\ w.file # f => Lands(<<{w}>>, f, value, value)
<1>1. DOMAIN <<{w}>> = {1} /\ <<{w}>>[1] = {w}
  OBVIOUS
<1> DEFINE list == <<{w}>>
<1> HIDE DEF list
<1>2. DOMAIN list = {1} /\ list[1] = {w}
  BY <1>1 DEF list
<1>3. w.file = f => Sets(list, f, w.value)
  BY <1>2 DEF Sets
<1>4. w.file # f => Spares(list, f)
  BY <1>2 DEF Spares
<1>5. QED BY <1>3, <1>4 DEF Lands, list

LEMMA OneOf ==
  ASSUME NEW S, NEW w \in S
  PROVE  <<{w}>> \in Seq(SUBSET S)
OBVIOUS

\* What a purge and the tombstone after it make of a file.
Entombed(F, id, f) == IF f = Tombstone(id) THEN "forgotten" ELSE Purged(F, id, f)

PurgeSteps(F, id) == PurgeWrites(F, id) \cup {Write(Forget(id), r) : r \in Requests}
UndoSteps(F, id) == {Write(f, F[f]) : f \in Files \ {Forget(id)}}

LEMMA PurgeStepsTyped ==
  ASSUME NEW F \in Roots, NEW id \in Ids
  PROVE  PurgeSteps(F, id) \subseteq Writes
<1>1. ASSUME NEW w \in PurgeWrites(F, id)
      PROVE  w \in Writes
  <2>1. w.file \in Files /\ w = Write(w.file, Purged(F, id, w.file))
    BY PurgeFits DEF Fits
  <2>2. Purged(F, id, w.file) \in Values(w.file)
    BY <2>1, PurgedTyped
  <2>3. QED BY ONLY <2>1, <2>2, WriteOf
<1>2. ASSUME NEW r \in Requests
      PROVE  Write(Forget(id), r) \in Writes
  <2>1. Forget(id) \in Files /\ r \in Values(Forget(id))
    BY Named, ValuesOf
  <2>2. QED BY ONLY <2>1, WriteOf
<1>3. QED BY <1>1, <1>2 DEF PurgeSteps

LEMMA UndoStepsTyped ==
  ASSUME NEW F \in Roots, NEW id \in Ids
  PROVE  UndoSteps(F, id) \subseteq Writes
<1>1. ASSUME NEW f \in Files PROVE Write(f, F[f]) \in Writes
  <2>1. F[f] \in Values(f)
    BY InRoot
  <2>2. QED BY ONLY <2>1, WriteOf
<1>2. QED BY <1>1 DEF UndoSteps

LEMMA StartsPurge ==
  ASSUME NEW F \in Roots, NEW id \in Ids, NEW r \in Requests,
         NEW list, list = (IF F[Forget(id)] = Absent THEN <<{Write(Forget(id), r)}>> ELSE << >>)
                            \o Batches(PurgeWrites(F, id))
  PROVE  /\ list \in Seq(SUBSET PurgeSteps(F, id))
         /\ \A f \in Files \ {Forget(id)} : Lands(list, f, Purged(F, id, f), F[f])
         /\ F[Forget(id)] # Absent \/ (list # << >> /\ Head(list) = {Write(Forget(id), r)})
<1> DEFINE S == PurgeSteps(F, id)
           W == PurgeWrites(F, id)
           first == IF F[Forget(id)] = Absent THEN <<{Write(Forget(id), r)}>> ELSE << >>
           rest == Batches(W)
<1>1. W \in SUBSET S /\ Write(Forget(id), r) \in S
  BY DEF PurgeSteps
<1>2. first \in Seq(SUBSET S)
  <2> DEFINE w == Write(Forget(id), r)
  <2>1. w \in S
    BY <1>1
  <2>2. first = <<{w}>> \/ first = << >>
    OBVIOUS
  <2> HIDE DEF S, w, first
  <2>3. <<{w}>> \in Seq(SUBSET S) /\ << >> \in Seq(SUBSET S)
    BY <2>1
  <2>4. QED BY <2>2, <2>3
<1>3. rest \in Seq(SUBSET S)
  BY <1>1, Batched
<1>4. ASSUME NEW f \in Files \ {Forget(id)}
      PROVE  Lands(list, f, Purged(F, id, f), F[f])
  <2>1. Write(Forget(id), r).file # f
    BY DEF Write
  <2>2. Lands(first, f, F[f], F[f])
    BY <2>1, LandsOne, LandsNone
  <2>3. \A w \in W : w.file = f => w.value = Purged(F, id, f)
    <3> SUFFICES ASSUME NEW w \in W, w.file = f PROVE w.value = Purged(F, id, f)
      OBVIOUS
    <3>1. w = Write(f, Purged(F, id, f))
      BY PurgeFits DEF Fits
    <3>2. QED BY <3>1 DEF Write
  <2>4. F[f] # Purged(F, id, f) => \E w \in W : w.file = f
    BY PurgeCovers
  <2> HIDE DEF S, W, first
  <2>5. Lands(rest, f, Purged(F, id, f), F[f])
    BY <1>1, <2>3, <2>4, Aimed
  <2> HIDE DEF rest
  <2>6. Lands(first \o rest, f, Purged(F, id, f), F[f])
    BY ONLY <1>2, <1>3, <2>2, <2>5, LandsBoth
  <2>7. QED BY <2>6 DEF first, rest, W
<1>5. list \in Seq(SUBSET S)
  <2> HIDE DEF S, W, first, rest
  <2>1. first \o rest \in Seq(SUBSET S)
    BY <1>2, <1>3
  <2>2. QED BY <2>1 DEF first, rest, W
<1>6. ASSUME F[Forget(id)] = Absent
      PROVE  list # << >> /\ Head(list) = {Write(Forget(id), r)}
  <2> HIDE DEF S, W, rest
  <2>1. list = <<{Write(Forget(id), r)}>> \o rest
    BY <1>6 DEF rest, W
  <2> DEFINE w == Write(Forget(id), r)
  <2> HIDE DEF w
  <2>2. <<{w}>> \o rest # << >> /\ Head(<<{w}>> \o rest) = {w}
    BY <1>3
  <2>3. QED BY <2>1, <2>2 DEF w
<1>7. QED BY <1>4, <1>5, <1>6

LEMMA StartsUndo ==
  ASSUME NEW F \in Roots, NEW id \in Ids, NEW D \in SUBSET Files,
         NEW R, \A f \in Files \ {Forget(id)} : f \notin D => R[f] = F[f],
         NEW list, list = Reverse(Batches({Write(f, F[f]) : f \in D \ {Forget(id)}}))
  PROVE  /\ list \in Seq(SUBSET UndoSteps(F, id))
         /\ \A f \in Files \ {Forget(id)} : Lands(list, f, F[f], R[f])
<1> DEFINE S == UndoSteps(F, id)
           W == {Write(f, F[f]) : f \in D \ {Forget(id)}}
           there == Batches(W)
<1>1. W \in SUBSET S
  BY DEF UndoSteps
<1>2. \A w \in W : \A f : w.file = f => w.value = F[f]
  BY DEF Write
<1>3. ASSUME NEW f \in D \ {Forget(id)} PROVE \E w \in W : w.file = f
  <2>1. Write(f, F[f]) \in W
    OBVIOUS
  <2>2. Write(f, F[f]).file = f
    BY DEF Write
  <2>3. QED BY ONLY <2>1, <2>2
<1>4. ASSUME NEW w \in W PROVE w.file \in D
  <2>1. PICK f \in D : w = Write(f, F[f])
    OBVIOUS
  <2>2. QED BY <2>1 DEF Write
<1> HIDE DEF S, W
<1>5. there \in Seq(SUBSET S)
  BY <1>1, Batched
<1>6. Reverse(there) \in Seq(SUBSET S)
  BY <1>5, Reversed
<1>7. ASSUME NEW f \in Files \ {Forget(id)}
      PROVE  Lands(Reverse(there), f, F[f], R[f])
  <2>1. Covers(there, W, Directories, f, F[f])
    BY <1>1, Batched
  <2>2. f[1] \in Directories
    BY KindsOf
  <2>3. CASE f \in D
    <3>1. Only(there, f, F[f]) /\ Hits(there, f)
      BY <1>2, <1>3, <2>1, <2>2, <2>3 DEF Covers
    <3> HIDE DEF there
    <3>2. Only(Reverse(there), f, F[f]) /\ Hits(Reverse(there), f)
      BY <1>5, <3>1, Reversed
    <3>3. Sets(Reverse(there), f, F[f])
      BY ONLY <1>6, <3>2, OnlySets
    <3>4. QED BY <3>3 DEF Lands
  <2>4. CASE f \notin D
    <3>1. Spares(there, f)
      BY <1>4, <2>1, <2>4 DEF Covers
    <3> HIDE DEF there
    <3>2. Spares(Reverse(there), f)
      BY <1>5, <3>1, Reversed
    <3>3. QED BY <2>4, <3>2 DEF Lands
  <2>5. QED BY <2>3, <2>4
<1>8. QED BY <1>6, <1>7 DEF S, W

LEMMA Puts ==
  ASSUME NEW S, NEW W \in SUBSET S, NEW f \in Files, NEW v, \A w \in W : w.file = f => w.value = v
  PROVE  /\ Batches(W) \in Seq(SUBSET S)
         /\ Only(Batches(W), f, v)
         /\ (\E w \in W : w.file = f) => Sets(Batches(W), f, v)
         /\ (\A w \in W : w.file # f) => Spares(Batches(W), f)
<1>1. Batches(W) \in Seq(SUBSET S) /\ Covers(Batches(W), W, Directories, f, v)
  BY Batched
<1>2. f[1] \in Directories
  BY KindsOf
<1> DEFINE list == Batches(W)
<1> HIDE DEF list
<1>3. list \in Seq(SUBSET S) /\ Covers(list, W, Directories, f, v)
  BY <1>1 DEF list
<1>4. QED BY <1>2, <1>3 DEF Covers, list

LEMMA Clears ==
  ASSUME NEW S, NEW F, \A f \in Replaceable : Write(f, Absent) \in S
  PROVE  /\ Clearing(F) \in Seq(SUBSET S)
         /\ \A f \in Replaceable : Lands(Clearing(F), f, Absent, F[f])
<1> DEFINE D == {f \in Replaceable : F[f] # Absent}
           W == {Write(f, Absent) : f \in D}
           there == Batches(W)
           back == Reverse(there)
<1>1. W \in SUBSET S
  OBVIOUS
<1>2. ASSUME NEW w \in W PROVE w.file \in D /\ w.value = Absent
  <2>1. PICK f \in D : w = Write(f, Absent)
    OBVIOUS
  <2>2. QED BY <2>1 DEF Write
<1>3. ASSUME NEW f \in D PROVE \E w \in W : w.file = f
  <2>1. Write(f, Absent) \in W
    OBVIOUS
  <2>2. Write(f, Absent).file = f
    BY DEF Write
  <2>3. QED BY ONLY <2>1, <2>2
<1>4. Clearing(F) = back
  BY DEF Clearing
<1>5. \A f \in Replaceable : f \in Files /\ (f \notin D => F[f] = Absent)
  BY DEF Replaceable
<1> HIDE DEF D, W
<1>6. there \in Seq(SUBSET S)
  BY <1>1, Batched
<1>7. back \in Seq(SUBSET S)
  BY <1>6, Reversed
<1>8. ASSUME NEW f \in Replaceable
      PROVE  Lands(back, f, Absent, F[f])
  <2>0. f \in Files /\ \A w \in W : w.file = f => w.value = Absent
    BY <1>2, <1>5
  <2>1. /\ Only(there, f, Absent)
        /\ (\E w \in W : w.file = f) => Sets(there, f, Absent)
        /\ (\A w \in W : w.file # f) => Spares(there, f)
    BY <1>1, <2>0, Puts
  <2> HIDE DEF there
  <2>2. CASE f \in D
    <3>1. Only(there, f, Absent) /\ Hits(there, f)
      BY <1>3, <2>1, <2>2 DEF Sets, Hits
    <3>2. Only(back, f, Absent) /\ Hits(back, f)
      BY <1>6, <3>1, Reversed
    <3> HIDE DEF back
    <3>3. Sets(back, f, Absent)
      BY ONLY <1>7, <3>2, OnlySets
    <3>4. QED BY <3>3 DEF Lands
  <2>3. CASE f \notin D
    <3>1. Spares(there, f) /\ F[f] = Absent
      BY <1>2, <1>5, <2>1, <2>3
    <3>2. Spares(back, f)
      BY <1>6, <3>1, Reversed
    <3>3. QED BY <3>1, <3>2 DEF Lands
  <2>4. QED BY <2>2, <2>3
<1>9. QED BY <1>4, <1>7, <1>8

-----------------------------------------------------------------------------
(* A restore                                                               *)

\* What a restore of a makes of the files it replaces.
Final(F, a, f) ==
  IF f[1] = "memory" THEN Restored(F, a)[f]
  ELSE IF f[1] \in {"events", "receipts"} THEN Filtered(a[f], Suppressed(F, a))
  ELSE IF f[1] = "catalog" THEN CardsOf(Restored(F, a))
  ELSE IF f[1] = "tombstone" THEN MergedTombstone(F, a, f[2])
  ELSE Absent

LEMMA RestoredIs ==
  ASSUME NEW F, NEW a \in ArchiveSet
  PROVE  /\ Restored(F, a) \in ArchiveSet
         /\ \A id \in Ids : Restored(F, a)[Memory(id)] =
                              IF id \in Suppressed(F, a) THEN Absent ELSE a[Memory(id)]
         /\ \A f \in Archived : f[1] # "memory" => Restored(F, a)[f] = a[f]
<1> DEFINE G == Restored(F, a)
<1>1. /\ DOMAIN G = Archived /\ G = [f \in Archived |-> G[f]]
      /\ \A f \in Archived : G[f] = IF \E id \in Suppressed(F, a) : f = Memory(id) THEN Absent ELSE a[f]
  BY DEF Restored
<1>2. \A f \in Archived : a[f] \in Content(f) \cup {Absent}
  BY OfArchive
<1>3. \A id \in Ids : /\ Memory(id) \in Archived /\ Memory(id)[1] = "memory"
                      /\ \A c \in Ids : Memory(id) = Memory(c) <=> id = c
  BY InArchive DEF Memory
<1>4. Suppressed(F, a) \subseteq Ids
  BY DEF Suppressed
<1> HIDE DEF G
<1>5. G \in ArchiveSet
  BY <1>1, <1>2, ArchiveIs
<1>6. ASSUME NEW id \in Ids
      PROVE  G[Memory(id)] = IF id \in Suppressed(F, a) THEN Absent ELSE a[Memory(id)]
  BY <1>1, <1>3, <1>4
<1>7. \A f \in Archived : f[1] # "memory" => G[f] = a[f]
  BY <1>1, <1>3, <1>4
<1>8. QED BY <1>5, <1>6, <1>7 DEF G

LEMMA EntriesPut ==
  ASSUME NEW S, NEW G, \A f \in Archived : G[f] # Absent => Write(f, G[f]) \in S
  PROVE  /\ EntryWrites(G) \in Seq(SUBSET S)
         /\ \A f \in Archived : Lands(EntryWrites(G), f, G[f], Absent)
         /\ \A f \in Files \ Archived : Spares(EntryWrites(G), f)
<1> DEFINE D == {f \in Archived : G[f] # Absent}
           W == {Write(f, G[f]) : f \in D}
<1>1. W \in SUBSET S
  OBVIOUS
<1>2. ASSUME NEW w \in W PROVE w.file \in D /\ w.value = G[w.file]
  <2>1. PICK f \in D : w = Write(f, G[f])
    OBVIOUS
  <2>2. QED BY <2>1 DEF Write
<1>3. ASSUME NEW f \in D PROVE \E w \in W : w.file = f
  <2>1. Write(f, G[f]) \in W
    OBVIOUS
  <2>2. Write(f, G[f]).file = f
    BY DEF Write
  <2>3. QED BY ONLY <2>1, <2>2
<1>4. EntryWrites(G) = Batches(W)
  BY DEF EntryWrites
<1>5. D \subseteq Archived /\ Archived \subseteq Files /\ \A f \in Archived : f \notin D => G[f] = Absent
  BY InArchive
<1> HIDE DEF D, W
<1>6. Batches(W) \in Seq(SUBSET S)
  BY <1>1, Batched
<1>7. ASSUME NEW f \in Files
      PROVE  /\ (\E w \in W : w.file = f) => Sets(Batches(W), f, G[f])
             /\ (\A w \in W : w.file # f) => Spares(Batches(W), f)
  <2>1. \A w \in W : w.file = f => w.value = G[f]
    BY <1>2
  <2>2. QED BY ONLY <1>1, <1>7, <2>1, Puts
<1>8. \A f \in Archived : Lands(Batches(W), f, G[f], Absent)
  BY <1>2, <1>3, <1>5, <1>7 DEF Lands
<1>9. \A f \in Files \ Archived : Spares(Batches(W), f)
  BY <1>2, <1>5, <1>7
<1>10. QED BY <1>4, <1>6, <1>8, <1>9

LEMMA TombstonesPut ==
  ASSUME NEW S, NEW F, NEW a,
         \A id \in Suppressed(F, a) : Write(Tombstone(id), MergedTombstone(F, a, id)) \in S
  PROVE  /\ TombstoneWrites(F, a) \in Seq(SUBSET S)
         /\ \A id \in Suppressed(F, a) :
              Sets(TombstoneWrites(F, a), Tombstone(id), MergedTombstone(F, a, id))
         /\ \A f \in Files : f[1] # "tombstone" => Spares(TombstoneWrites(F, a), f)
<1> DEFINE W == {Write(Tombstone(id), MergedTombstone(F, a, id)) : id \in Suppressed(F, a)}
<1>1. W \in SUBSET S
  OBVIOUS
<1>2. ASSUME NEW w \in W
      PROVE  \E id \in Suppressed(F, a) : w.file = Tombstone(id) /\ w.value = MergedTombstone(F, a, id)
  <2>1. PICK id \in Suppressed(F, a) : w = Write(Tombstone(id), MergedTombstone(F, a, id))
    OBVIOUS
  <2>2. QED BY <2>1 DEF Write
<1>3. ASSUME NEW id \in Suppressed(F, a) PROVE \E w \in W : w.file = Tombstone(id)
  <2>1. Write(Tombstone(id), MergedTombstone(F, a, id)) \in W
    OBVIOUS
  <2>2. Write(Tombstone(id), MergedTombstone(F, a, id)).file = Tombstone(id)
    BY DEF Write
  <2>3. QED BY ONLY <2>1, <2>2
<1>4. TombstoneWrites(F, a) = Batches(W)
  BY DEF TombstoneWrites
<1>5. /\ Suppressed(F, a) \subseteq Ids
      /\ \A id \in Ids : /\ Tombstone(id) \in Files /\ Tombstone(id)[1] = "tombstone"
                         /\ \A c \in Ids : Tombstone(c) = Tombstone(id) => c = id
  BY Named DEF Suppressed, Tombstone
<1> HIDE DEF W
<1>6. Batches(W) \in Seq(SUBSET S)
  BY <1>1, Batched
<1>7. ASSUME NEW id \in Suppressed(F, a)
      PROVE  Sets(Batches(W), Tombstone(id), MergedTombstone(F, a, id))
  <2>1. \A w \in W : w.file = Tombstone(id) => w.value = MergedTombstone(F, a, id)
    BY <1>2, <1>5
  <2>2. Tombstone(id) \in Files /\ \E w \in W : w.file = Tombstone(id)
    BY <1>3, <1>5
  <2>3. QED BY ONLY <1>1, <2>1, <2>2, Puts
<1>8. ASSUME NEW f \in Files, f[1] # "tombstone"
      PROVE  Spares(Batches(W), f)
  <2>1. \A w \in W : w.file # f
    BY <1>2, <1>5, <1>8
  <2>2. \A w \in W : w.file = f => w.value = Absent
    BY <2>1
  <2>3. QED BY ONLY <1>1, <1>8, <2>1, <2>2, Puts
<1>9. QED BY <1>4, <1>6, <1>7, <1>8

LEMMA FilteredPut ==
  ASSUME NEW S, NEW a, NEW ids, NEW f \in {Events, SourceKeys},
         a[f] # Absent => Write(f, Filtered(a[f], ids)) \in S
  PROVE  /\ WriteFiltered(f, a, ids) \in Seq(SUBSET S)
         /\ Lands(WriteFiltered(f, a, ids), f, Filtered(a[f], ids), a[f])
         /\ \A g, v : g # f => Lands(WriteFiltered(f, a, ids), g, v, v)
<1>1. CASE a[f] = Absent
  <2>1. WriteFiltered(f, a, ids) = << >> /\ Filtered(a[f], ids) = a[f]
    BY <1>1 DEF WriteFiltered, Filtered
  <2>2. << >> \in Seq(SUBSET S)
    OBVIOUS
  <2>3. QED BY <2>1, <2>2, LandsNone
<1>2. CASE a[f] # Absent
  <2> DEFINE w == Write(f, Filtered(a[f], ids))
  <2>1. WriteFiltered(f, a, ids) = <<{w}>>
    BY <1>2 DEF WriteFiltered
  <2>2. w \in S /\ w.file = f /\ w.value = Filtered(a[f], ids)
    BY <1>2 DEF Write
  <2> HIDE DEF w
  <2>3. <<{w}>> \in Seq(SUBSET S)
    BY <2>2, OneOf
  <2>4. Lands(<<{w}>>, f, w.value, a[f]) /\ \A g, v : g # f => Lands(<<{w}>>, g, v, v)
    BY <2>2, LandsOne
  <2>5. QED BY <2>1, <2>2, <2>3, <2>4
<1>3. QED BY <1>1, <1>2

\* S has every write of the restore.
Allows(S, F, a) ==
  /\ \A f \in Replaceable : Write(f, Absent) \in S
  /\ \A f \in Archived : Restored(F, a)[f] # Absent => Write(f, Restored(F, a)[f]) \in S
  /\ \A id \in Suppressed(F, a) : Write(Tombstone(id), MergedTombstone(F, a, id)) \in S
  /\ \A f \in {Events, SourceKeys} : a[f] # Absent => Write(f, Filtered(a[f], Suppressed(F, a))) \in S
  /\ Write(Catalog, CardsOf(Restored(F, a))) \in S

\* The files of which the restore says what they hold in the end.
Settled(F, a) == Replaceable \cup {Tombstone(id) : id \in Suppressed(F, a)}

LEMMA FinalIs ==
  ASSUME NEW F, NEW a \in ArchiveSet
  PROVE  /\ \A s \in Sources : Final(F, a, Queue(s)) = Absent
         /\ \A id \in Ids : Final(F, a, Memory(id)) = Restored(F, a)[Memory(id)]
         /\ \A f \in {Events, SourceKeys} : Final(F, a, f) = Filtered(a[f], Suppressed(F, a))
         /\ Final(F, a, Catalog) = CardsOf(Restored(F, a))
         /\ \A id \in Ids : Final(F, a, Tombstone(id)) = MergedTombstone(F, a, id)
<1>1. ASSUME NEW s \in Sources PROVE Final(F, a, Queue(s)) = Absent
  <2>1. Queue(s)[1] = "queue"
    BY Named
  <2>2. QED BY <2>1 DEF Final
<1>2. ASSUME NEW id \in Ids
      PROVE  /\ Final(F, a, Memory(id)) = Restored(F, a)[Memory(id)]
             /\ Final(F, a, Tombstone(id)) = MergedTombstone(F, a, id)
  <2>1. Memory(id)[1] = "memory" /\ Tombstone(id)[1] = "tombstone" /\ Tombstone(id)[2] = id
    BY Named
  <2>2. QED BY <2>1 DEF Final
<1>3. ASSUME NEW f \in {Events, SourceKeys} PROVE Final(F, a, f) = Filtered(a[f], Suppressed(F, a))
  <2>1. f[1] \in {"events", "receipts"}
    BY Named
  <2>2. QED BY <2>1 DEF Final
<1>4. Final(F, a, Catalog) = CardsOf(Restored(F, a))
  <2>1. Catalog[1] = "catalog"
    BY Named
  <2>2. QED BY <2>1 DEF Final
<1>5. QED BY <1>1, <1>2, <1>3, <1>4

LEMMA SixParts ==
  ASSUME NEW S, NEW C \in Seq(SUBSET S), NEW E \in Seq(SUBSET S), NEW T \in Seq(SUBSET S),
         NEW L \in Seq(SUBSET S), NEW K \in Seq(SUBSET S), NEW X \in Seq(SUBSET S)
  PROVE  /\ (((C \o E) \o T) \o (L \o K)) \o X \in Seq(SUBSET S)
         /\ \A f, value, u, v, v1, v2, v3 :
              /\ \/ Lands(C, f, u, value) /\ Lands(E, f, v, u) /\ Spares(T, f)
                 \/ Sets(T, f, v)
              /\ Lands(L, f, v1, v) /\ Lands(K, f, v2, v1) /\ Lands(X, f, v3, v2)
              => Lands((((C \o E) \o T) \o (L \o K)) \o X, f, v3, value)
<1> DEFINE CE == C \o E
           CT == CE \o T
           LK == L \o K
           CK == CT \o LK
<1>1. CE \in Seq(SUBSET S) /\ LK \in Seq(SUBSET S)
  OBVIOUS
<1>2. CT \in Seq(SUBSET S)
  <2> HIDE DEF CE
  <2>1. QED BY <1>1
<1>3. CK \in Seq(SUBSET S) /\ CK \o X \in Seq(SUBSET S)
  <2> HIDE DEF CT, LK
  <2>1. CK \in Seq(SUBSET S)
    BY <1>1, <1>2
  <2> HIDE DEF CK
  <2>2. QED BY <2>1
<1>4. ASSUME NEW f, NEW value, NEW u, NEW v, NEW v1, NEW v2, NEW v3,
             \/ Lands(C, f, u, value) /\ Lands(E, f, v, u) /\ Spares(T, f)
             \/ Sets(T, f, v),
             Lands(L, f, v1, v), Lands(K, f, v2, v1), Lands(X, f, v3, v2)
      PROVE  Lands(CK \o X, f, v3, value)
  <2>1. Lands(LK, f, v2, v)
    BY <1>4, LandsBoth
  <2> HIDE DEF LK
  <2>2. Lands(CT, f, v, value)
    <3>1. CASE Sets(T, f, v)
      <4> HIDE DEF CE
      <4>1. QED BY <1>1, <3>1, LandsThen
    <3>2. CASE Lands(C, f, u, value) /\ Lands(E, f, v, u) /\ Spares(T, f)
      <4>1. Lands(CE, f, v, value)
        BY <3>2, LandsBoth
      <4> HIDE DEF CE
      <4>2. QED BY <1>1, <3>2, <4>1, LandsThen
    <3>3. QED BY <1>4, <3>1, <3>2
  <2> HIDE DEF CT
  <2>3. Lands(CK, f, v2, value)
    BY <1>1, <1>2, <2>1, <2>2, LandsBoth
  <2> HIDE DEF CK
  <2>4. QED BY <1>3, <1>4, <2>3, LandsBoth
<1>5. QED BY <1>3, <1>4

LEMMA StartsRestore ==
  ASSUME NEW S, NEW F, NEW a \in ArchiveSet, Allows(S, F, a)
  PROVE  /\ RestoreWrites(F, a) \in Seq(SUBSET S)
         /\ \A f \in Settled(F, a) : Lands(RestoreWrites(F, a), f, Final(F, a, f), F[f])
<1> DEFINE G == Restored(F, a)
           ids == Suppressed(F, a)
           C == Clearing(F)
           E == EntryWrites(G)
           T == TombstoneWrites(F, a)
           L == WriteFiltered(Events, a, ids)
           K == WriteFiltered(SourceKeys, a, ids)
           w == Write(Catalog, CardsOf(G))
           X == <<{w}>>
<1>1. RestoreWrites(F, a) = (((C \o E) \o T) \o (L \o K)) \o X
  BY DEF RestoreWrites, SuppressedEntries
<1>2. /\ \A id \in Ids : G[Memory(id)] = IF id \in ids THEN Absent ELSE a[Memory(id)]
      /\ \A f \in Archived : f[1] # "memory" => G[f] = a[f]
  BY RestoredIs
<1>3. C \in Seq(SUBSET S) /\ \A f \in Replaceable : Lands(C, f, Absent, F[f])
  BY Clears DEF Allows
<1>4. /\ E \in Seq(SUBSET S)
      /\ \A f \in Archived : Lands(E, f, G[f], Absent)
      /\ \A f \in Files \ Archived : Spares(E, f)
  BY EntriesPut DEF Allows
<1>5. /\ T \in Seq(SUBSET S)
      /\ \A id \in ids : Sets(T, Tombstone(id), MergedTombstone(F, a, id))
      /\ \A f \in Files : f[1] # "tombstone" => Spares(T, f)
  BY TombstonesPut DEF Allows
<1>6. /\ L \in Seq(SUBSET S) /\ K \in Seq(SUBSET S)
      /\ Lands(L, Events, Filtered(a[Events], ids), a[Events])
      /\ Lands(K, SourceKeys, Filtered(a[SourceKeys], ids), a[SourceKeys])
      /\ \A f, v : f # Events => Lands(L, f, v, v)
      /\ \A f, v : f # SourceKeys => Lands(K, f, v, v)
  <2>1. \A f \in {Events, SourceKeys} : a[f] # Absent => Write(f, Filtered(a[f], ids)) \in S
    BY DEF Allows
  <2>2. QED BY <2>1, FilteredPut
<1>7. /\ X \in Seq(SUBSET S) /\ w.file = Catalog /\ w.value = CardsOf(G)
      /\ \A v : Lands(X, Catalog, w.value, v)
      /\ \A f, v : f # Catalog => Lands(X, f, v, v)
  <2>1. w \in S /\ w.file = Catalog /\ w.value = CardsOf(G)
    BY DEF Allows, Write
  <2> HIDE DEF w
  <2>2. QED BY <2>1, OneOf, LandsOne
<1> HIDE DEF C, E, T, L, K, X, w
<1> DEFINE list == (((C \o E) \o T) \o (L \o K)) \o X
<1>8. /\ list \in Seq(SUBSET S)
      /\ \A f, value, u, v, v1, v2, v3 :
           /\ \/ Lands(C, f, u, value) /\ Lands(E, f, v, u) /\ Spares(T, f)
              \/ Sets(T, f, v)
           /\ Lands(L, f, v1, v) /\ Lands(K, f, v2, v1) /\ Lands(X, f, v3, v2)
           => Lands(list, f, v3, value)
  BY <1>3, <1>4, <1>5, <1>6, <1>7, SixParts
<1> HIDE DEF list
<1>9. ASSUME NEW s \in Sources
      PROVE  Lands(list, Queue(s), Absent, F[Queue(s)])
  <2>1. /\ Queue(s) \in Replaceable /\ Queue(s) \in Files \ Archived /\ Queue(s)[1] # "tombstone"
        /\ Queue(s) # Events /\ Queue(s) # SourceKeys /\ Queue(s) # Catalog
    BY Named DEF Replaceable, Archived
  <2>2. Lands(C, Queue(s), Absent, F[Queue(s)]) /\ Spares(E, Queue(s)) /\ Spares(T, Queue(s))
    BY <1>3, <1>4, <1>5, <2>1
  <2>3. Lands(E, Queue(s), Absent, Absent)
    BY <2>2 DEF Lands
  <2>4. /\ Lands(L, Queue(s), Absent, Absent) /\ Lands(K, Queue(s), Absent, Absent)
        /\ Lands(X, Queue(s), Absent, Absent)
    BY <1>6, <1>7, <2>1
  <2>5. QED BY ONLY <1>8, <2>2, <2>3, <2>4
<1>10. ASSUME NEW id \in Ids
       PROVE  Lands(list, Memory(id), G[Memory(id)], F[Memory(id)])
  <2> DEFINE f == Memory(id)
  <2>1. /\ f \in Replaceable /\ f \in Archived /\ f \in Files /\ f[1] # "tombstone"
        /\ f # Events /\ f # SourceKeys /\ f # Catalog
    BY Named, InArchive DEF Replaceable
  <2> HIDE DEF f, G
  <2>2. Lands(C, f, Absent, F[f]) /\ Lands(E, f, G[f], Absent) /\ Spares(T, f)
    BY <1>3, <1>4, <1>5, <2>1
  <2>3. Lands(L, f, G[f], G[f]) /\ Lands(K, f, G[f], G[f]) /\ Lands(X, f, G[f], G[f])
    BY <1>6, <1>7, <2>1
  <2>4. Lands(list, f, G[f], F[f])
    BY ONLY <1>8, <2>2, <2>3
  <2>5. QED BY <2>4 DEF f
<1>11. ASSUME NEW f \in {Events, SourceKeys}
       PROVE  Lands(list, f, Filtered(a[f], ids), F[f])
  <2>1. /\ f \in Replaceable /\ f \in Archived /\ f \in Files /\ f[1] # "tombstone" /\ f[1] # "memory"
        /\ f # Catalog /\ Events # SourceKeys
    BY Named, InArchive DEF Replaceable
  <2>2. G[f] = a[f]
    BY <1>2, <2>1
  <2> HIDE DEF G, ids
  <2>3. Lands(C, f, Absent, F[f]) /\ Lands(E, f, a[f], Absent) /\ Spares(T, f)
    BY <1>3, <1>4, <1>5, <2>1, <2>2
  <2>4. CASE f = Events
    <3>1. /\ Lands(L, f, Filtered(a[f], ids), a[f])
          /\ Lands(K, f, Filtered(a[f], ids), Filtered(a[f], ids))
          /\ Lands(X, f, Filtered(a[f], ids), Filtered(a[f], ids))
      BY <1>6, <1>7, <2>1, <2>4
    <3>2. QED BY ONLY <1>8, <2>3, <3>1
  <2>5. CASE f = SourceKeys
    <3>1. /\ Lands(L, f, a[f], a[f])
          /\ Lands(K, f, Filtered(a[f], ids), a[f])
          /\ Lands(X, f, Filtered(a[f], ids), Filtered(a[f], ids))
      BY <1>6, <1>7, <2>1, <2>5
    <3>2. QED BY ONLY <1>8, <2>3, <3>1
  <2>6. QED BY <2>4, <2>5
<1>12. Lands(list, Catalog, CardsOf(G), F[Catalog])
  <2>1. /\ Catalog \in Replaceable /\ Catalog \in Archived /\ Catalog \in Files
        /\ Catalog[1] # "tombstone" /\ Catalog # Events /\ Catalog # SourceKeys
    BY Named, InArchive DEF Replaceable
  <2> HIDE DEF G
  <2>2. Lands(C, Catalog, Absent, F[Catalog]) /\ Lands(E, Catalog, G[Catalog], Absent)
        /\ Spares(T, Catalog)
    BY <1>3, <1>4, <1>5, <2>1
  <2>3. /\ Lands(L, Catalog, G[Catalog], G[Catalog]) /\ Lands(K, Catalog, G[Catalog], G[Catalog])
        /\ Lands(X, Catalog, CardsOf(G), G[Catalog])
    BY <1>6, <1>7, <2>1
  <2>4. QED BY ONLY <1>8, <2>2, <2>3
<1>13. ASSUME NEW id \in ids
       PROVE  Lands(list, Tombstone(id), MergedTombstone(F, a, id), F[Tombstone(id)])
  <2> DEFINE f == Tombstone(id)
             v == MergedTombstone(F, a, id)
  <2>1. f # Events /\ f # SourceKeys /\ f # Catalog
    BY DEF Tombstone, Events, SourceKeys, Catalog
  <2>2. Sets(T, f, v)
    BY <1>5
  <2> HIDE DEF f, v
  <2>3. Lands(L, f, v, v) /\ Lands(K, f, v, v) /\ Lands(X, f, v, v)
    BY <1>6, <1>7, <2>1
  <2>4. Lands(list, f, v, F[f])
    BY ONLY <1>8, <2>2, <2>3
  <2>5. QED BY <2>4 DEF f, v
<1>14. ASSUME NEW f \in Settled(F, a)
       PROVE  Lands(list, f, Final(F, a, f), F[f])
  <2>1. CASE \E id \in ids : f = Tombstone(id)
    <3>1. PICK id \in ids : f = Tombstone(id)
      BY <2>1
    <3>2. Final(F, a, f) = MergedTombstone(F, a, id)
      <4>1. id \in Ids
        BY DEF Suppressed
      <4>2. QED BY <3>1, <4>1, FinalIs
    <3>3. QED BY <1>13, <3>1, <3>2
  <2>2. CASE f \in Replaceable
    <3>1. f \in Files /\ f[1] \notin {"backup", "zip", "tombstone", "forget"}
      BY <2>2 DEF Replaceable
    <3>2. \/ \E s \in Sources : f = Queue(s)
          \/ \E id \in Ids : f = Memory(id)
          \/ f \in {Events, SourceKeys} \/ f = Catalog
      BY <3>1, KindsOf DEF Directories
    <3>3. CASE \E s \in Sources : f = Queue(s)
      BY <1>9, <3>3, FinalIs
    <3>4. CASE \E id \in Ids : f = Memory(id)
      BY <1>10, <3>4, FinalIs
    <3>5. CASE f \in {Events, SourceKeys}
      BY <1>11, <3>5, FinalIs
    <3>6. CASE f = Catalog
      BY <1>12, <3>6, FinalIs
    <3>7. QED BY <3>2, <3>3, <3>4, <3>5, <3>6
  <2>3. QED BY <2>1, <2>2 DEF Settled
<1>15. QED BY <1>1, <1>8, <1>14 DEF list

-----------------------------------------------------------------------------
(* What the steps leave is a memory root                                   *)

LEMMA CardsTyped ==
  ASSUME NEW F, \A id \in Ids : F[Memory(id)] \in Sources \cup {Absent}
  PROVE  CardsOf(F) \in Cards
BY DEF CardsOf, Cards

LEMMA RestoreTyped ==
  ASSUME NEW F \in Roots, NEW a \in ArchiveSet
  PROVE  Allows(Writes, F, a)
<1> DEFINE G == Restored(F, a)
<1>1. /\ G \in ArchiveSet /\ \A f \in Archived : G[f] \in Content(f) \cup {Absent}
      /\ \A f \in Archived : a[f] \in Content(f) \cup {Absent}
  BY RestoredIs, OfArchive
<1> HIDE DEF G
<1>2. ASSUME NEW f \in Replaceable PROVE Write(f, Absent) \in Writes
  <2>1. f \in Files /\ Absent \in Values(f)
    BY DEF Replaceable, Values
  <2>2. QED BY <2>1, WriteOf
<1>3. ASSUME NEW f \in Archived, G[f] # Absent PROVE Write(f, G[f]) \in Writes
  <2>1. f \in Files /\ f[1] # "zip"
    BY DEF Archived
  <2>2. G[f] \in Values(f)
    BY <1>1, <2>1 DEF Values
  <2>3. QED BY <2>1, <2>2, WriteOf
<1>4. ASSUME NEW id \in Suppressed(F, a)
      PROVE  Write(Tombstone(id), MergedTombstone(F, a, id)) \in Writes
  <2>1. id \in Ids
    BY DEF Suppressed
  <2>2. /\ Tombstone(id) \in Files /\ Tombstone(id) \in Archived
        /\ Values(Tombstone(id)) = {"forgotten", "in_progress", Absent}
    BY <2>1, Named, ValuesOf, InArchive
  <2>3. F[Tombstone(id)] \in Values(Tombstone(id))
    BY <2>2, InRoot
  <2>4. a[Tombstone(id)] \in {"forgotten", "in_progress", Absent}
    BY <1>1, <2>1, <2>2, ContentOf
  <2>5. MergedTombstone(F, a, id) \in Values(Tombstone(id))
    BY <2>2, <2>3, <2>4 DEF MergedTombstone, ArchiveTombstone
  <2>6. QED BY <2>2, <2>5, WriteOf
<1>5. ASSUME NEW f \in {Events, SourceKeys}, a[f] # Absent
      PROVE  Write(f, Filtered(a[f], Suppressed(F, a))) \in Writes
  <2>1. f \in Files /\ f \in Archived /\ Values(f) = (SUBSET Entry) \cup {Absent} /\ Content(f) = SUBSET Entry
    BY Named, ValuesOf, ContentOf, InArchive
  <2>2. a[f] \subseteq Entry
    BY <1>1, <1>5, <2>1
  <2>3. Filtered(a[f], Suppressed(F, a)) = {e \in a[f] : e.object \notin Suppressed(F, a)}
    BY <1>5 DEF Filtered
  <2>4. Filtered(a[f], Suppressed(F, a)) \in Values(f)
    BY <2>1, <2>2, <2>3
  <2>5. QED BY <2>1, <2>4, WriteOf
<1>6. Write(Catalog, CardsOf(G)) \in Writes
  <2>1. \A id \in Ids : G[Memory(id)] \in Sources \cup {Absent}
    BY <1>1, InArchive, ContentOf
  <2>2. CardsOf(G) \in Cards
    BY <2>1, CardsTyped
  <2>3. Catalog \in Files /\ CardsOf(G) \in Values(Catalog)
    BY <2>2, Named, ValuesOf
  <2>4. QED BY <2>3, WriteOf
<1>7. QED BY <1>2, <1>3, <1>4, <1>5, <1>6 DEF Allows, G

LEMMA RolledBackIs ==
  ASSUME NEW F \in Roots, NEW j \in Pending
  PROVE  /\ DOMAIN RolledBack(F, j) = Files
         /\ RolledBack(F, j)[Memory(j.object)] =
              IF ~j.existed THEN Absent
              ELSE IF F[Undo(j.source)] = Absent THEN F[Memory(j.object)]
              ELSE F[Undo(j.source)].source
         /\ \A f \in {Events, SourceKeys} : RolledBack(F, j)[f] = Without(F[f], j.source)
         /\ \A f \in Files : f # Memory(j.object) /\ f # Events /\ f # SourceKeys => RolledBack(F, j)[f] = F[f]
<1>1. DOMAIN F = Files
  BY InRoot
<1>2. j.object \in Ids
  BY DEF Pending
<1>3. /\ Memory(j.object) \in Files /\ Events \in Files /\ SourceKeys \in Files
      /\ Memory(j.object) # Events /\ Memory(j.object) # SourceKeys /\ Events # SourceKeys
  BY <1>2, Named DEF Memory, Events, SourceKeys
<1> DEFINE x == IF ~j.existed THEN Absent
                ELSE IF F[Undo(j.source)] = Absent THEN F[Memory(j.object)]
                ELSE F[Undo(j.source)].source
           y == Without(F[Events], j.source)
           z == Without(F[SourceKeys], j.source)
           m == Memory(j.object)
<1>4. RolledBack(F, j) = [F EXCEPT ![m] = x, ![Events] = y, ![SourceKeys] = z]
  BY <1>1, <1>3 DEF RolledBack
<1> HIDE DEF x, y, z, m
<1>5. /\ DOMAIN RolledBack(F, j) = Files
      /\ RolledBack(F, j)[m] = x /\ RolledBack(F, j)[Events] = y /\ RolledBack(F, j)[SourceKeys] = z
      /\ \A f \in Files : f # m /\ f # Events /\ f # SourceKeys => RolledBack(F, j)[f] = F[f]
  BY <1>1, <1>3, <1>4 DEF m
<1>6. QED BY <1>5 DEF x, y, z, m

LEMMA RecoveredIs ==
  ASSUME NEW F \in Roots
  PROVE  \/ Recovered(F) = F /\ \A s \in Sources : F[Queue(s)] = Absent
         \/ \E s \in Sources :
              /\ F[Queue(s)] \in Pending /\ F[Queue(s)] # Absent
              /\ DOMAIN Recovered(F) = Files
              /\ \A f \in Files : Recovered(F)[f] =
                   IF f = Undo(F[Queue(s)].source) \/ f = Queue(F[Queue(s)].source) THEN Absent
                   ELSE IF Committed(F, F[Queue(s)]) THEN F[f] ELSE RolledBack(F, F[Queue(s)])[f]
<1>1. CASE Unfinished(F) = {}
  <2>1. \A s \in Sources : F[Queue(s)] = Absent
    BY <1>1 DEF Unfinished
  <2>2. Recovered(F) = F
    BY <1>1 DEF Recovered
  <2>3. QED BY <2>1, <2>2
<1>2. CASE Unfinished(F) # {}
  <2> DEFINE j == CHOOSE j \in Unfinished(F) : TRUE
  <2>1. j \in Unfinished(F)
    BY <1>2
  <2>2. Recovered(F) = [(IF Committed(F, j) THEN F ELSE RolledBack(F, j))
                          EXCEPT ![Undo(j.source)] = Absent, ![Queue(j.source)] = Absent]
    BY <1>2 DEF Recovered
  <2> HIDE DEF j
  <2>3. PICK s \in Sources : F[Queue(s)] # Absent /\ j = F[Queue(s)]
    BY <2>1 DEF Unfinished
  <2>4. F[Queue(s)] \in Pending
    <3>1. Queue(s) \in Files /\ Values(Queue(s)) = Pending \cup {Absent}
      BY Named, ValuesOf
    <3>2. QED BY <2>3, <3>1, InRoot
  <2> DEFINE B == IF Committed(F, j) THEN F ELSE RolledBack(F, j)
  <2>5. DOMAIN B = Files
    BY <2>3, <2>4, RolledBackIs, InRoot
  <2>6. Recovered(F) = [B EXCEPT ![Undo(j.source)] = Absent, ![Queue(j.source)] = Absent]
    BY <2>2
  <2> HIDE DEF B
  <2>7. /\ DOMAIN Recovered(F) = Files
        /\ \A f \in Files : Recovered(F)[f] =
             IF f = Undo(j.source) \/ f = Queue(j.source) THEN Absent ELSE B[f]
    BY <2>5, <2>6
  <2>8. QED BY <2>3, <2>4, <2>7 DEF B
<1>3. QED BY <1>1, <1>2

LEMMA RecoveredTyped ==
  ASSUME NEW F \in Roots
  PROVE  Recovered(F) \in Roots
<1>1. CASE Recovered(F) = F
  BY <1>1
<1>2. ASSUME NEW s \in Sources, F[Queue(s)] \in Pending, DOMAIN Recovered(F) = Files,
             \A f \in Files : Recovered(F)[f] =
               IF f = Undo(F[Queue(s)].source) \/ f = Queue(F[Queue(s)].source) THEN Absent
               ELSE IF Committed(F, F[Queue(s)]) THEN F[f] ELSE RolledBack(F, F[Queue(s)])[f]
      PROVE  Recovered(F) \in Roots
  <2> DEFINE j == F[Queue(s)]
  <2>1. j \in Pending
    BY <1>2
  <2>2. ASSUME NEW f \in Files PROVE RolledBack(F, j)[f] \in Values(f)
    <3> HIDE DEF j
    <3>1. j.object \in Ids /\ j.source \in Sources
      BY <2>1 DEF Pending
    <3>2. F[f] \in Values(f) /\ Absent \in Values(f)
      BY InRoot DEF Values
    <3>3. CASE f = Memory(j.object)
      <4>1. Values(f) = Sources \cup {Absent}
        BY <3>1, <3>3, ValuesOf
      <4>2. F[Undo(j.source)] \in Entry \cup {Absent}
        BY <3>1, Named, ValuesOf, InRoot
      <4>3. F[Undo(j.source)] # Absent => F[Undo(j.source)].source \in Sources
        BY <4>2 DEF Entry
      <4>4. QED BY <2>1, <3>2, <3>3, <4>1, <4>3, RolledBackIs
    <3>4. CASE f \in {Events, SourceKeys}
      <4>1. Values(f) = (SUBSET Entry) \cup {Absent}
        BY <3>4, ValuesOf
      <4>2. Without(F[f], j.source) \in Values(f)
        BY <3>2, <4>1 DEF Without
      <4>3. QED BY <2>1, <3>4, <4>2, RolledBackIs
    <3>5. CASE f # Memory(j.object) /\ f # Events /\ f # SourceKeys
      BY <2>1, <3>2, <3>5, RolledBackIs
    <3>6. QED BY <3>3, <3>4, <3>5
  <2>3. \A f \in Files : F[f] \in Values(f) /\ Absent \in Values(f)
    BY InRoot DEF Values
  <2>4. \A f \in Files : Recovered(F)[f] \in Values(f)
    BY <1>2, <2>2, <2>3
  <2>5. Recovered(F) = [f \in Files |-> Recovered(F)[f]]
    <3>1. CASE Unfinished(F) = {}
      BY <3>1, InRoot DEF Recovered
    <3>2. CASE Unfinished(F) # {}
      <4> DEFINE i == CHOOSE k \in Unfinished(F) : TRUE
                 B == IF Committed(F, i) THEN F ELSE RolledBack(F, i)
      <4>1. Recovered(F) = [B EXCEPT ![Undo(i.source)] = Absent, ![Queue(i.source)] = Absent]
        BY <3>2 DEF Recovered
      <4> HIDE DEF B, i
      <4>2. QED BY <1>2, <4>1
    <3>3. QED BY <3>1, <3>2
  <2>6. QED BY <1>2, <2>4, <2>5, RootIs
<1>3. QED BY <1>1, <1>2, RecoveredIs

LEMMA WrittenIs ==
  ASSUME NEW F, NEW writes \in Seq(Writes), NEW f \in Files
  PROVE  \/ Written(F, writes)[f] = F[f] /\ \A i \in DOMAIN writes : writes[i].file # f
         \/ \E i \in DOMAIN writes : /\ writes[i].file = f /\ Written(F, writes)[f] = writes[i].value
                                     /\ \A k \in DOMAIN writes : k > i => writes[k].file # f
<1> DEFINE hits == {i \in DOMAIN writes : writes[i].file = f}
<1>1. Written(F, writes)[f] = IF hits = {} THEN F[f] ELSE writes[Max(hits)].value
  BY DEF Written
<1>2. DOMAIN writes = 1 .. Len(writes) /\ Len(writes) \in Nat
  OBVIOUS
<1>3. CASE hits # {}
  <2>1. hits \in SUBSET Nat /\ \A i \in hits : i <= Len(writes)
    BY <1>2
  <2>2. \E m \in hits : \A i \in hits : i <= m
    BY <1>2, <1>3, <2>1, LastOf
  <2> DEFINE m == Max(hits)
  <2>3. m \in hits /\ \A i \in hits : m >= i
    <3>1. PICK k \in hits : \A i \in hits : i <= k
      BY <2>2
    <3>2. \A i \in hits : k >= i
      BY <2>1, <3>1
    <3> HIDE DEF hits
    <3>3. m = CHOOSE x \in hits : \A y \in hits : x >= y
      BY DEF Max
    <3>4. QED BY <3>2, <3>3
  <2> HIDE DEF m
  <2>4. \A k \in DOMAIN writes : k > m => writes[k].file # f
    <3> SUFFICES ASSUME NEW k \in DOMAIN writes, k > m, writes[k].file = f PROVE FALSE
      OBVIOUS
    <3>1. k \in hits /\ m \in Nat /\ k \in Nat
      BY <1>2, <2>1, <2>3
    <3>2. QED BY <2>3, <3>1
  <2>5. QED BY <1>1, <1>3, <2>3, <2>4 DEF m
<1>4. CASE hits = {}
  BY <1>1, <1>4
<1>5. QED BY <1>3, <1>4

LEMMA WrittenTyped ==
  ASSUME NEW F \in Roots, NEW writes \in Seq(Writes)
  PROVE  Written(F, writes) \in Roots
<1>1. DOMAIN Written(F, writes) = Files
      /\ Written(F, writes) = [f \in Files |-> Written(F, writes)[f]]
  BY DEF Written
<1>2. ASSUME NEW f \in Files PROVE Written(F, writes)[f] \in Values(f)
  <2>1. CASE Written(F, writes)[f] = F[f]
    BY <2>1, InRoot
  <2>2. ASSUME NEW i \in DOMAIN writes, writes[i].file = f, Written(F, writes)[f] = writes[i].value
        PROVE  Written(F, writes)[f] \in Values(f)
    <3>1. writes[i] \in Writes
      OBVIOUS
    <3>2. QED BY <2>2, <3>1, WriteIs
  <2>3. QED BY <2>1, <2>2, WrittenIs
<1>3. QED BY <1>1, <1>2, RootIs

\* A write of a mutation of id by s.
Mutates(w, id, s, existed) ==
  /\ w.file \in {Undo(s), Queue(s), Memory(id), Events, SourceKeys}
  /\ w.file = Undo(s) => w.value = Absent \/ w.value.object = id
  /\ w.file = Queue(s) => \/ w.value = Absent
                         \/ /\ w.value.object = id /\ w.value.source = s
                            /\ w.value.existed => existed

\* The writes of a mutation that begins with these files.
LEMMA MutationIs ==
  ASSUME NEW F \in Roots, NEW id \in Ids, NEW s \in Sources, NEW n \in Nat,
         n <= Len(MutationWrites(F, id, s)),
         NEW some, some = SubSeq(MutationWrites(F, id, s), 1, n)
  PROVE  /\ some \in Seq(Writes)
         /\ \A i \in DOMAIN some : Mutates(some[i], id, s, F[Memory(id)] # Absent)
         /\ F[Memory(id)] # Absent /\ n # 0 => 1 \in DOMAIN some /\ some[1].file = Undo(s)
<1> DEFINE old == F[Memory(id)]
           entry == [object |-> id, source |-> s]
           w1 == Write(Undo(s), [object |-> id, source |-> old])
           w2 == Write(Queue(s), [object |-> id, source |-> s, existed |-> old # Absent])
           w3 == Write(Memory(id), s)
           w4 == Write(Events, Entries(F[Events]) \cup {entry})
           w5 == Write(SourceKeys, Entries(F[SourceKeys]) \cup {entry})
           w6 == Write(Undo(s), Absent)
           w7 == Write(Queue(s), Absent)
           first == IF old = Absent THEN << >> ELSE <<w1>>
           whole == first \o <<w2, w3, w4, w5, w6, w7>>
           S == {w \in Writes : Mutates(w, id, s, old # Absent)}
<1>1. MutationWrites(F, id, s) = whole
  BY DEF MutationWrites
<1>2. /\ Undo(s) \in Files /\ Queue(s) \in Files /\ Memory(id) \in Files
      /\ Events \in Files /\ SourceKeys \in Files
      /\ Values(Undo(s)) = Entry \cup {Absent} /\ Values(Queue(s)) = Pending \cup {Absent}
      /\ Values(Memory(id)) = Sources \cup {Absent}
      /\ Values(Events) = (SUBSET Entry) \cup {Absent} /\ Values(SourceKeys) = (SUBSET Entry) \cup {Absent}
  BY Named, ValuesOf
<1>3. /\ old \in Sources \cup {Absent}
      /\ F[Events] \in (SUBSET Entry) \cup {Absent} /\ F[SourceKeys] \in (SUBSET Entry) \cup {Absent}
  BY <1>2, InRoot
<1>4. entry \in Entry /\ [object |-> id, source |-> s, existed |-> old # Absent] \in Pending
  BY DEF Entry, Pending
<1>5. old # Absent => [object |-> id, source |-> old] \in Entry
  BY <1>3 DEF Entry
<1>6. /\ Entries(F[Events]) \cup {entry} \in SUBSET Entry
      /\ Entries(F[SourceKeys]) \cup {entry} \in SUBSET Entry
  BY <1>3, <1>4 DEF Entries
<1>7. old # Absent => w1 \in Writes /\ w1.file = Undo(s) /\ w1.value.object = id
  BY <1>2, <1>5, WriteOf
<1>8. /\ w2 \in Writes /\ w2.file = Queue(s)
      /\ w2.value.object = id /\ w2.value.source = s /\ (w2.value.existed => old # Absent)
  <2> DEFINE v == [object |-> id, source |-> s, existed |-> old # Absent]
  <2>1. v \in Values(Queue(s)) /\ Queue(s) \in Files
    BY <1>2, <1>4
  <2>2. v.object = id /\ v.source = s /\ v.existed = (old # Absent)
    BY Zenon
  <2>3. w2 = Write(Queue(s), v)
    OBVIOUS
  <2> HIDE DEF v, w2
  <2>4. w2 \in Writes /\ w2.file = Queue(s) /\ w2.value = v
    BY <2>1, <2>3, WriteOf
  <2>5. QED BY <2>2, <2>4, Zenon
<1>9. w3 \in Writes /\ w3.file = Memory(id)
  BY <1>2, WriteOf
<1>10. w4 \in Writes /\ w4.file = Events /\ w5 \in Writes /\ w5.file = SourceKeys
  BY <1>2, <1>6, WriteOf
<1>11. /\ w6 \in Writes /\ w6.file = Undo(s) /\ w6.value = Absent
       /\ w7 \in Writes /\ w7.file = Queue(s) /\ w7.value = Absent
  BY <1>2, WriteOf
<1>12. (old # Absent => w1 \in S) /\ w2 \in S /\ w3 \in S /\ w4 \in S /\ w5 \in S /\ w6 \in S /\ w7 \in S
  <2>1. /\ Undo(s) # Queue(s) /\ Undo(s) # Memory(id) /\ Undo(s) # Events /\ Undo(s) # SourceKeys
        /\ Queue(s) # Memory(id) /\ Queue(s) # Events /\ Queue(s) # SourceKeys
    BY DEF Undo, Queue, Memory, Events, SourceKeys
  <2> HIDE DEF w1, w2, w3, w4, w5, w6, w7, old
  <2>2. old # Absent => w1 \in S
    BY <1>7, <2>1 DEF Mutates
  <2>3. w2 \in S
    BY <1>8, <2>1 DEF Mutates
  <2>4. w3 \in S /\ w4 \in S /\ w5 \in S
    BY <1>9, <1>10, <2>1 DEF Mutates
  <2>5. w6 \in S /\ w7 \in S
    BY <1>11, <2>1 DEF Mutates
  <2>6. QED BY <2>2, <2>3, <2>4, <2>5
<1>13. first = << >> \/ (w1 \in S /\ first = <<w1>>)
  BY <1>12
<1>23. old # Absent => first = <<w1>> /\ w1.file = Undo(s)
  BY <1>7
<1> HIDE DEF w1, w2, w3, w4, w5, w6, w7, S, first
<1>14. first \in Seq(S) /\ <<w2, w3, w4, w5, w6, w7>> \in Seq(S)
  <2>1. << >> \in Seq(S) /\ (w1 \in S => <<w1>> \in Seq(S))
    OBVIOUS
  <2>2. first \in Seq(S)
    BY ONLY <1>13, <2>1
  <2>3. <<w2, w3, w4, w5, w6, w7>> \in Seq(S)
    BY <1>12
  <2>4. QED BY <2>2, <2>3
<1>15. whole \in Seq(S)
  BY <1>14
<1>24. old # Absent => whole[1] = w1
  <2>1. \A tail \in Seq(S) : (<<w1>> \o tail)[1] = w1
    <3>1. \A tail \in Seq(S) : Len(<<w1>>) = 1 /\ Len(<<w1>> \o tail) >= 1
      OBVIOUS
    <3>2. QED OBVIOUS
  <2>2. QED BY <1>14, <1>23, <2>1
<1> HIDE DEF whole
<1>16. SubSeq(whole, 1, n) \in Seq(S)
  BY <1>1, <1>15
<1>17. some \in Seq(S)
  BY <1>1, <1>16
<1>18. Len(some) \in Nat /\ some = [i \in 1 .. Len(some) |-> some[i]] /\ \A i \in 1 .. Len(some) : some[i] \in S
  BY <1>17
<1>19. \A i \in 1 .. Len(some) : some[i] \in Writes /\ Mutates(some[i], id, s, old # Absent)
  BY <1>18 DEF S
<1>20. some \in [1 .. Len(some) -> Writes]
  BY <1>18, <1>19
<1>21. some \in Seq(Writes) /\ DOMAIN some = 1 .. Len(some)
  BY ONLY <1>18, <1>20
<1>22. old # Absent /\ n # 0 => 1 \in DOMAIN some /\ some[1].file = Undo(s)
  <2>1. Len(some) = n /\ (n # 0 => some[1] = whole[1])
    <3>1. Len(whole) \in Nat /\ n <= Len(whole)
      BY <1>1, <1>15
    <3>2. QED BY <1>1, <1>15, <3>1
  <2>2. QED BY <1>21, <1>23, <1>24, <2>1
<1>25. QED BY <1>19, <1>21, <1>22

-----------------------------------------------------------------------------
(* What is under way                                                       *)

\* What the call will have made of f when its list is done.
Aim(step, J, f) ==
  IF step = "purging" THEN Purged(J.before, J.id, f)
  ELSE IF step = "undoing" THEN J.before[f]
  ELSE IF step = "restoring" THEN Final(J.before, J.archive, f)
  ELSE Entombed(J.before, J.id, f)

Rest(J) == Files \ {Forget(J.id)}

Targets(step, J) ==
  IF step = "restoring" THEN Settled(J.before, J.archive)
  ELSE IF step = "undoing" /\ ~J.clean THEN {}
  ELSE Rest(J)

Planned == {"purging", "entombing", "closing", "undoing", "restoring"}
Forgetting == {"purging", "entombing", "closing", "undoing"}

Shape(step, J) ==
  /\ step \in Forgetting => J.id \in Ids /\ J.before \in Roots
  /\ step \in {"restoring", "reverting"} => J.before \in Roots
  /\ step = "restoring" => J.archive \in ArchiveSet

Underway(step, R, list, J) ==
  /\ step = "idle" => list = << >>
  /\ step \in Planned => \A f \in Targets(step, J) : Lands(list, f, Aim(step, J, f), R[f])
  /\ step \in {"purging", "entombing"} => \A f \in Rest(J) : f \notin J.done => R[f] = J.before[f]
  /\ step = "closing" => \A f \in Rest(J) : Spares(list, f)

PlanInv == TypeInv /\ Shape(pc, job) /\ Underway(pc, root, todo, job)

LEMMA InJob ==
  ASSUME NEW J \in Jobs
  PROVE  /\ J.id \in Ids \cup {Absent} /\ J.archive \in ArchiveSet \cup {Absent}
         /\ J.before \in Roots \cup {Absent} /\ J.done \subseteq Files /\ J.clean \in BOOLEAN
BY DEF Jobs

LEMMA TargetsAre ==
  ASSUME NEW step, NEW J
  PROVE  Targets(step, J) \subseteq Files
BY Named DEF Targets, Rest, Settled, Replaceable, Suppressed

\* One of the next writes is made.
After(R, w) == Set(R, w.file, w.value)

LEMMA AfterIs ==
  ASSUME NEW R \in Roots, NEW w \in Writes
  PROVE  /\ After(R, w)[w.file] = w.value
         /\ \A f \in Files : f # w.file => After(R, w)[f] = R[f]
<1>1. w.file \in Files /\ w.value \in Values(w.file)
  BY WriteIs
<1>2. QED BY <1>1, RootWrite DEF After

LEMMA WriteMade ==
  ASSUME NEW R \in Roots, NEW S, S \subseteq Writes, NEW list \in Seq(SUBSET S), list # << >>,
         NEW w \in Head(list)
  PROVE  /\ After(R, w) \in Roots /\ Less(list, w) \in Seq(SUBSET S) /\ w \in S
         /\ w.file \in Files /\ w.value \in Values(w.file)
         /\ After(R, w)[w.file] = w.value /\ \A f \in Files : f # w.file => After(R, w)[f] = R[f]
         /\ \A f \in Files : \A v : Lands(list, f, v, R[f]) => Lands(Less(list, w), f, v, After(R, w)[f])
         /\ \A f \in Files : Spares(list, f) => Spares(Less(list, w), f)
<1>1. Less(list, w) \in Seq(SUBSET S) /\ IsLess(list, w, Less(list, w))
  BY LessIs
<1>2. Head(list) \in SUBSET S
  OBVIOUS
<1>3. w \in S /\ w \in Writes
  BY <1>2
<1>4. w.file \in Files /\ w.value \in Values(w.file)
  BY <1>3, WriteIs
<1>5. After(R, w) \in Roots
      /\ \A f \in Files : After(R, w)[f] = IF f = w.file THEN w.value ELSE R[f]
  BY <1>4, RootWrite DEF After
<1>6. ASSUME NEW f \in Files, NEW v, Lands(list, f, v, R[f])
      PROVE  Lands(Less(list, w), f, v, After(R, w)[f])
  <2>1. Lands(Less(list, w), f, v, IF w.file = f THEN w.value ELSE R[f])
    BY <1>1, <1>6, LessLands
  <2>2. QED BY <1>5, <2>1
<1>7. \A f \in Files : Spares(list, f) => Spares(Less(list, w), f)
  BY <1>1, LessAgrees
<1>8. QED BY <1>1, <1>3, <1>4, <1>5, <1>6, <1>7

LEMMA WriteGoesOn ==
  ASSUME NEW R \in Roots, NEW list \in Plans, list # << >>, NEW w \in Head(list),
         NEW step, NEW J \in Jobs, Shape(step, J), Underway(step, R, list, J),
         NEW J2, J2 = IF step \in {"purging", "entombing"}
                        THEN [J EXCEPT !.done = @ \cup {w.file}] ELSE J
  PROVE  /\ After(R, w) \in Roots /\ Less(list, w) \in Plans
         /\ J2 \in Jobs /\ Shape(step, J2) /\ Underway(step, After(R, w), Less(list, w), J2)
<1> DEFINE R2 == After(R, w)
           less == Less(list, w)
<1>1. /\ R2 \in Roots /\ less \in Plans /\ w.file \in Files
      /\ R2[w.file] = w.value /\ \A f \in Files : f # w.file => R2[f] = R[f]
      /\ \A f \in Files : \A v : Lands(list, f, v, R[f]) => Lands(less, f, v, R2[f])
      /\ \A f \in Files : Spares(list, f) => Spares(less, f)
  <2>1. list \in Seq(SUBSET Writes) /\ Writes \subseteq Writes /\ R \in Roots /\ list # << >> /\ w \in Head(list)
    BY DEF Plans
  <2>2. R2 \in Roots /\ w.file \in Files
    BY ONLY <2>1, WriteMade
  <2>6. less \in Seq(SUBSET Writes)
    BY ONLY <2>1, WriteMade
  <2>7. w \in Writes
    BY ONLY <2>1, WriteMade
  <2>8. /\ R2[w.file] = w.value
        /\ \A f \in Files : f # w.file => R2[f] = R[f]
    BY <2>7, AfterIs
  <2>3. \A f \in Files : \A v : Lands(list, f, v, R[f]) => Lands(less, f, v, R2[f])
    BY ONLY <2>1, WriteMade
  <2>4. \A f \in Files : Spares(list, f) => Spares(less, f)
    BY ONLY <2>1, WriteMade
  <2>5. QED BY ONLY <2>2, <2>3, <2>4, <2>6, <2>7, <2>8 DEF Plans
<1> HIDE DEF R2, less
<1>2. /\ J2 \in Jobs /\ J2.id = J.id /\ J2.archive = J.archive /\ J2.before = J.before
      /\ J2.clean = J.clean /\ (step \in {"purging", "entombing"} => J2.done = J.done \cup {w.file})
  BY <1>1 DEF Jobs
<1>3. Shape(step, J2)
  BY <1>2 DEF Shape
<1>4. Targets(step, J2) = Targets(step, J) /\ Rest(J2) = Rest(J) /\ \A f : Aim(step, J2, f) = Aim(step, J, f)
  BY ONLY <1>2 DEF Targets, Rest, Aim
<1>5. step # "idle"
  BY DEF Underway
<1>6. ASSUME step \in Planned, NEW f \in Targets(step, J)
      PROVE  Lands(less, f, Aim(step, J, f), R2[f])
  <2>1. f \in Files /\ Lands(list, f, Aim(step, J, f), R[f])
    BY <1>6, TargetsAre DEF Underway
  <2>2. QED BY ONLY <1>1, <2>1
<1>7. ASSUME step \in {"purging", "entombing"}, NEW f \in Rest(J), f \notin J2.done
      PROVE  R2[f] = J.before[f]
  <2>1. f \in Files /\ f \notin J.done /\ f # w.file
    BY <1>2, <1>7 DEF Rest
  <2>2. QED BY <1>1, <1>7, <2>1 DEF Underway
<1>8. ASSUME step = "closing", NEW f \in Rest(J)
      PROVE  Spares(less, f)
  BY <1>1, <1>8 DEF Underway, Rest
<1>9. Underway(step, R2, less, J2)
  BY ONLY <1>2, <1>4, <1>5, <1>6, <1>7, <1>8 DEF Underway
<1>10. QED BY <1>1, <1>2, <1>3, <1>9 DEF R2, less

LEMMA StartsForget ==
  ASSUME NEW F \in Roots, NEW id \in Ids, NEW r \in Requests,
         NEW list, list = (IF F[Forget(id)] = Absent THEN <<{Write(Forget(id), r)}>> ELSE << >>)
                            \o Batches(PurgeWrites(F, id)),
         NEW J, J = [NoJob EXCEPT !.id = id, !.before = F]
  PROVE  J \in Jobs /\ list \in Plans /\ Shape("purging", J) /\ Underway("purging", F, list, J)
<1>1. J \in Jobs /\ J.id = id /\ J.before = F
  BY DEF Jobs, NoJob
<1>2. list \in Plans
  <2>1. list \in Seq(SUBSET PurgeSteps(F, id))
    BY StartsPurge
  <2>2. QED BY ONLY <2>1, PurgeStepsTyped, Wider DEF Plans
<1>3. ASSUME NEW f \in Files \ {Forget(id)}
      PROVE  Lands(list, f, Purged(F, id, f), F[f])
  BY StartsPurge
<1>4. Underway("purging", F, list, J)
  BY ONLY <1>1, <1>3 DEF Underway, Planned, Targets, Aim, Rest
<1>5. QED BY <1>1, <1>2, <1>4 DEF Shape, Forgetting

LEMMA Entombs ==
  ASSUME NEW R \in Roots, NEW J \in Jobs, Shape("purging", J), Underway("purging", R, << >>, J),
         NEW list, list = <<{Write(Tombstone(J.id), "forgotten")}>>
  PROVE  list \in Plans /\ Shape("entombing", J) /\ Underway("entombing", R, list, J)
<1>1. J.id \in Ids /\ J.before \in Roots
  BY DEF Shape, Forgetting
<1> DEFINE w == Write(Tombstone(J.id), "forgotten")
<1>2. w \in Writes /\ w.file = Tombstone(J.id) /\ w.value = "forgotten"
  <2>1. Tombstone(J.id) \in Files /\ "forgotten" \in Values(Tombstone(J.id))
    BY <1>1, Named, ValuesOf
  <2>2. QED BY <2>1, WriteOf
<1>3. list = <<{w}>>
  OBVIOUS
<1> HIDE DEF w
<1>4. list \in Plans
  BY <1>2, <1>3, OneOf DEF Plans
<1>5. ASSUME NEW f \in Rest(J)
      PROVE  Lands(list, f, Entombed(J.before, J.id, f), R[f])
  <2>1. Lands(<< >>, f, Purged(J.before, J.id, f), R[f])
    BY DEF Underway, Planned, Targets, Aim
  <2>2. R[f] = Purged(J.before, J.id, f)
    BY <2>1, Landed
  <2>3. CASE f = Tombstone(J.id)
    BY <1>2, <1>3, <2>3, LandsOne DEF Entombed
  <2>4. CASE f # Tombstone(J.id)
    BY <1>2, <1>3, <2>2, <2>4, LandsOne DEF Entombed
  <2>5. QED BY <2>3, <2>4
<1>6. \A f \in Rest(J) : f \notin J.done => R[f] = J.before[f]
  BY DEF Underway
<1>7. Underway("entombing", R, list, J)
  BY ONLY <1>5, <1>6 DEF Underway, Planned, Targets, Aim
<1>8. QED BY <1>1, <1>4, <1>7 DEF Shape

LEMMA Drops ==
  ASSUME NEW R \in Roots, NEW J \in Jobs, Shape("entombing", J), Underway("entombing", R, << >>, J),
         NEW list, list = <<{Write(Forget(J.id), Absent)}>>
  PROVE  list \in Plans /\ Shape("closing", J) /\ Underway("closing", R, list, J)
<1>1. J.id \in Ids /\ J.before \in Roots
  BY DEF Shape, Forgetting
<1> DEFINE w == Write(Forget(J.id), Absent)
<1>2. w \in Writes /\ w.file = Forget(J.id)
  <2>1. Forget(J.id) \in Files /\ Absent \in Values(Forget(J.id))
    BY <1>1, Named, ValuesOf
  <2>2. QED BY <2>1, WriteOf
<1>3. list = <<{w}>>
  OBVIOUS
<1> HIDE DEF w
<1>4. list \in Plans
  BY <1>2, <1>3, OneOf DEF Plans
<1>5. ASSUME NEW f \in Rest(J)
      PROVE  Lands(list, f, Entombed(J.before, J.id, f), R[f]) /\ Spares(list, f)
  <2>1. Lands(<< >>, f, Entombed(J.before, J.id, f), R[f])
    BY DEF Underway, Planned, Targets, Aim
  <2>2. R[f] = Entombed(J.before, J.id, f)
    BY <2>1, Landed
  <2>3. w.file # f
    BY <1>2 DEF Rest
  <2>4. Spares(list, f)
    <3>1. DOMAIN <<{w}>> = {1} /\ <<{w}>>[1] = {w}
      OBVIOUS
    <3>2. QED BY <1>3, <2>3, <3>1 DEF Spares
  <2>5. QED BY <2>2, <2>4 DEF Lands
<1>6. Underway("closing", R, list, J)
  BY ONLY <1>5 DEF Underway, Planned, Targets, Aim
<1>7. QED BY <1>1, <1>4, <1>6 DEF Shape

LEMMA RollsBack ==
  ASSUME NEW R \in Roots, NEW J \in Jobs, NEW step \in {"purging", "entombing"}, Shape(step, J),
         NEW before, Underway(step, R, before, J),
         NEW list, list = Reverse(Batches({Write(f, J.before[f]) : f \in J.done \ {Forget(J.id)}}))
  PROVE  list \in Plans /\ Shape("undoing", J) /\ Underway("undoing", R, list, J)
<1>1. J.id \in Ids /\ J.before \in Roots /\ J.done \in SUBSET Files
  BY InJob DEF Shape, Forgetting
<1>2. \A f \in Files \ {Forget(J.id)} : f \notin J.done => R[f] = J.before[f]
  BY DEF Underway, Rest
<1> DEFINE F == J.before
           id == J.id
           D == J.done
<1>3. F \in Roots /\ id \in Ids /\ D \in SUBSET Files /\ \A f \in Files \ {Forget(id)} : f \notin D => R[f] = F[f]
  BY <1>1, <1>2
<1>4. list = Reverse(Batches({Write(f, F[f]) : f \in D \ {Forget(id)}}))
  OBVIOUS
<1> HIDE DEF F, id, D
<1>5. list \in Seq(SUBSET UndoSteps(F, id)) /\ \A f \in Files \ {Forget(id)} : Lands(list, f, F[f], R[f])
  BY <1>3, <1>4, StartsUndo
<1>6. list \in Plans
  BY ONLY <1>3, <1>5, UndoStepsTyped, Wider DEF Plans
<1>7. \A f \in Rest(J) : Lands(list, f, J.before[f], R[f])
  BY <1>5 DEF Rest, F, id
<1>8. Underway("undoing", R, list, J)
  BY ONLY <1>7 DEF Underway, Planned, Targets, Aim
<1>9. QED BY <1>1, <1>6, <1>8 DEF Shape

LEMMA StartsToRestore ==
  ASSUME NEW F \in Roots, NEW a \in ArchiveSet,
         NEW J, J = [NoJob EXCEPT !.archive = a, !.before = F]
  PROVE  /\ J \in Jobs /\ RestoreWrites(F, a) \in Plans
         /\ Shape("restoring", J) /\ Underway("restoring", F, RestoreWrites(F, a), J)
<1>1. J \in Jobs /\ J.archive = a /\ J.before = F
  BY DEF Jobs, NoJob
<1>2. /\ RestoreWrites(F, a) \in Seq(SUBSET Writes)
      /\ \A f \in Settled(F, a) : Lands(RestoreWrites(F, a), f, Final(F, a, f), F[f])
  BY RestoreTyped, StartsRestore
<1>3. Underway("restoring", F, RestoreWrites(F, a), J)
  BY ONLY <1>1, <1>2 DEF Underway, Planned, Targets, Aim
<1>4. QED BY <1>1, <1>2, <1>3 DEF Shape, Plans, Forgetting

LEMMA RevertTyped ==
  ASSUME NEW R \in Roots, NEW F \in Roots, NEW S,
         \A f \in Replaceable : Write(f, Absent) \in S /\ Write(f, F[f]) \in S
  PROVE  Clearing(R) \o Batches({Write(f, F[f]) : f \in {f \in Replaceable : F[f] # Absent}})
           \in Seq(SUBSET S)
<1> DEFINE W == {Write(f, F[f]) : f \in {f \in Replaceable : F[f] # Absent}}
<1>1. W \in SUBSET S
  OBVIOUS
<1> HIDE DEF W
<1>2. Batches(W) \in Seq(SUBSET S)
  BY <1>1, Batched
<1>3. Clearing(R) \in Seq(SUBSET S)
  BY Clears
<1>4. Clearing(R) \o Batches(W) \in Seq(SUBSET S)
  BY <1>2, <1>3
<1>5. QED BY <1>4 DEF W

-----------------------------------------------------------------------------
(* Every step keeps to the plan                                            *)

LEMMA AtRest ==
  ASSUME NEW R, NEW J
  PROVE  << >> \in Plans /\ NoJob \in Jobs /\ Shape("idle", J) /\ Underway("idle", R, << >>, J)
BY DEF Plans, NoJob, Jobs, Shape, Underway, Planned, Forgetting

\* A step that another call takes as a whole.
LEMMA IdleStep ==
  ASSUME PlanInv, root' \in Roots, outside' \in ArchiveSet \cup {Absent}, pc = "idle",
         UNCHANGED <<pc, todo, job>>
  PROVE  PlanInv'
<1>1. todo = << >>
  BY DEF PlanInv, Underway
<1>2. Shape("idle", job) /\ Underway("idle", root', << >>, job)
  BY AtRest
<1>3. Shape(pc', job') /\ Underway(pc', root', todo', job')
  BY <1>1, <1>2
<1>4. TypeInv'
  BY DEF PlanInv, TypeInv
<1>5. QED BY ONLY <1>3, <1>4 DEF PlanInv

LEMMA MutatePlan ==
  ASSUME PlanInv, NEW id \in Ids, NEW s \in Sources, NEW n \in Nat,
         n <= MutationLength(id, s), MutateUpTo(id, s, n)
  PROVE  PlanInv'
<1>1. root \in Roots /\ outside \in ArchiveSet \cup {Absent}
  BY DEF PlanInv, TypeInv
<1> DEFINE F == Recovered(root)
           some == SubSeq(MutationWrites(F, id, s), 1, n)
<1>2. F \in Roots
  BY <1>1, RecoveredTyped
<1>3. n <= Len(MutationWrites(F, id, s))
  BY DEF MutationLength
<1>4. root' = Written(F, some) /\ pc = "idle" /\ UNCHANGED <<outside, pc, todo, job>>
  BY DEF MutateUpTo
<1> HIDE DEF F
<1>5. some \in Seq(Writes)
  BY <1>2, <1>3, MutationIs
<1> HIDE DEF some
<1>6. root' \in Roots
  BY <1>2, <1>4, <1>5, WrittenTyped
<1>7. QED BY <1>1, <1>4, <1>6, IdleStep

LEMMA MutationLengthIs ==
  ASSUME root \in Roots, NEW id \in Ids, NEW s \in Sources
  PROVE  MutationLength(id, s) \in Nat /\ MutationLength(id, s) >= 6
<1> DEFINE F == Recovered(root)
           old == F[Memory(id)]
           first == IF old = Absent THEN << >>
                    ELSE <<Write(Undo(s), [object |-> id, source |-> old])>>
           then == <<Write(Queue(s), [object |-> id, source |-> s, existed |-> old # Absent]),
                     Write(Memory(id), s),
                     Write(Events, Entries(F[Events]) \cup {[object |-> id, source |-> s]}),
                     Write(SourceKeys, Entries(F[SourceKeys]) \cup {[object |-> id, source |-> s]}),
                     Write(Undo(s), Absent),
                     Write(Queue(s), Absent)>>
<1>1. MutationLength(id, s) = Len(first \o then)
  BY DEF MutationLength, MutationWrites
<1>2. Len(then) = 6 /\ then \in Seq({then[i] : i \in 1 .. 6})
  OBVIOUS
<1>3. QED BY <1>1, <1>2

LEMMA BackupPlan ==
  ASSUME PlanInv, NEW z \in Slots, Backup(z)
  PROVE  PlanInv'
<1>1. root \in Roots /\ outside \in ArchiveSet \cup {Absent}
  BY DEF PlanInv, TypeInv
<1> DEFINE a == [f \in Archived |-> root[f]]
<1>2. root' = Set(root, Archive(z), a) /\ pc = "idle" /\ UNCHANGED <<outside, pc, todo, job>>
  BY DEF Backup, Set
<1>3. a \in ArchiveSet
  <2>1. DOMAIN a = Archived /\ a = [f \in Archived |-> a[f]]
    OBVIOUS
  <2>2. \A f \in Archived : a[f] \in Content(f) \cup {Absent}
    <3> SUFFICES ASSUME NEW f \in Archived PROVE root[f] \in Content(f) \cup {Absent}
      OBVIOUS
    <3>1. f \in Files /\ f[1] # "zip"
      BY DEF Archived
    <3>2. root[f] \in Values(f)
      BY <1>1, <3>1, InRoot
    <3>3. QED BY <3>1, <3>2 DEF Values
  <2> HIDE DEF a
  <2>3. QED BY <2>1, <2>2, ArchiveIs
<1> HIDE DEF a
<1>4. Archive(z) \in Files /\ a \in Values(Archive(z))
  BY <1>3, Named, ValuesOf
<1>5. root' \in Roots
  BY <1>1, <1>2, <1>4, RootWrite
<1>6. QED BY <1>1, <1>2, <1>5, IdleStep

LEMMA CatalogPlan ==
  ASSUME PlanInv, RebuildCatalog
  PROVE  PlanInv'
<1>1. root \in Roots /\ outside \in ArchiveSet \cup {Absent}
  BY DEF PlanInv, TypeInv
<1>2. root' = Set(root, Catalog, CardsOf(root)) /\ pc = "idle" /\ UNCHANGED <<outside, pc, todo, job>>
  BY DEF RebuildCatalog, Set
<1>3. \A id \in Ids : root[Memory(id)] \in Sources \cup {Absent}
  BY <1>1, InRoot, Named, ValuesOf
<1>4. Catalog \in Files /\ CardsOf(root) \in Values(Catalog)
  BY <1>3, CardsTyped, Named, ValuesOf
<1>5. root' \in Roots
  BY <1>1, <1>2, <1>4, RootWrite
<1>6. QED BY <1>1, <1>2, <1>5, IdleStep

LEMMA RecoverPlan ==
  ASSUME PlanInv, Recover
  PROVE  PlanInv'
<1>1. root \in Roots /\ outside \in ArchiveSet \cup {Absent}
  BY DEF PlanInv, TypeInv
<1>2. root' \in Roots
  BY <1>1, RecoveredTyped DEF Recover
<1>3. QED BY <1>1, <1>2, IdleStep DEF Recover

LEMMA ExportPlan ==
  ASSUME PlanInv, NEW z \in Slots, Export(z)
  PROVE  PlanInv'
<1>1. TypeInv /\ Shape(pc, job) /\ Underway(pc, root, todo, job)
  BY DEF PlanInv
<1>2. root[Archive(z)] \in ArchiveSet \cup {Absent}
  BY <1>1, InRoot, Named, ValuesOf DEF TypeInv
<1>3. UNCHANGED <<root, pc, todo, job>> /\ outside' = root[Archive(z)]
  BY DEF Export
<1>4. TypeInv'
  BY <1>1, <1>2, <1>3 DEF TypeInv
<1>5. Shape(pc', job') /\ Underway(pc', root', todo', job')
  BY <1>1, <1>3
<1>6. QED BY ONLY <1>4, <1>5 DEF PlanInv

LEMMA ReturnPlan ==
  ASSUME PlanInv, Return
  PROVE  PlanInv'
<1>1. TypeInv
  BY DEF PlanInv
<1>2. pc' = "idle" /\ todo' = << >> /\ job' = NoJob /\ UNCHANGED <<root, outside>>
  BY DEF Return
<1>3. TypeInv'
  BY <1>1, <1>2, AtRest DEF TypeInv, Labels
<1>4. Shape(pc', job') /\ Underway(pc', root', todo', job')
  BY <1>2, AtRest
<1>5. QED BY ONLY <1>3, <1>4 DEF PlanInv

\* The parts of the invariant for a call that goes on.
LEMMA CallStep ==
  ASSUME PlanInv, root' \in Roots, outside' = outside, pc' \in Labels, todo' \in Plans, job' \in Jobs,
         Shape(pc', job'), Underway(pc', root', todo', job')
  PROVE  PlanInv'
<1>1. TypeInv'
  BY DEF PlanInv, TypeInv
<1>2. QED BY <1>1 DEF PlanInv

LEMMA WritePlan ==
  ASSUME PlanInv, WriteNext
  PROVE  PlanInv'
<1>1. /\ root \in Roots /\ todo \in Plans /\ job \in Jobs /\ pc \in Labels
      /\ Shape(pc, job) /\ Underway(pc, root, todo, job)
  BY DEF PlanInv, TypeInv
<1>2. todo # << >> /\ UNCHANGED <<outside, pc>>
  BY DEF WriteNext
<1>3. PICK w \in Head(todo) :
        /\ root' = [root EXCEPT ![w.file] = w.value]
        /\ todo' = IF Head(todo) = {w} THEN Tail(todo) ELSE <<Head(todo) \ {w}>> \o Tail(todo)
        /\ job' = IF pc \in {"purging", "entombing"}
                    THEN [job EXCEPT !.done = @ \cup {w.file}] ELSE job
  BY DEF WriteNext
<1>4. root' = After(root, w) /\ todo' = Less(todo, w)
  BY <1>3 DEF After, Set, Less
<1>5. /\ After(root, w) \in Roots /\ Less(todo, w) \in Plans
      /\ job' \in Jobs /\ Shape(pc, job') /\ Underway(pc, After(root, w), Less(todo, w), job')
  <2> DEFINE J2 == job'
  <2>1. J2 = IF pc \in {"purging", "entombing"} THEN [job EXCEPT !.done = @ \cup {w.file}] ELSE job
    BY <1>3
  <2> HIDE DEF J2
  <2>2. /\ After(root, w) \in Roots /\ Less(todo, w) \in Plans
        /\ J2 \in Jobs /\ Shape(pc, J2) /\ Underway(pc, After(root, w), Less(todo, w), J2)
    BY ONLY <1>1, <1>2, <2>1, WriteGoesOn
  <2>3. QED BY <2>2 DEF J2
<1>6. Shape(pc', job') /\ Underway(pc', root', todo', job')
  BY <1>2, <1>4, <1>5
<1>7. QED BY <1>1, <1>2, <1>4, <1>5, <1>6, CallStep

LEMMA StartForgetPlan ==
  ASSUME PlanInv, NEW id \in Ids, NEW r \in Requests, StartForget(id, r)
  PROVE  PlanInv'
<1>1. root \in Roots
  BY DEF PlanInv, TypeInv
<1>2. /\ pc' = "purging" /\ UNCHANGED <<root, outside>>
      /\ todo' = (IF root[Forget(id)] = Absent THEN <<{Write(Forget(id), r)}>> ELSE << >>)
                   \o Batches(PurgeWrites(root, id))
      /\ job' = [NoJob EXCEPT !.id = id, !.before = root]
  BY DEF StartForget
<1>3. /\ job' \in Jobs /\ todo' \in Plans
      /\ Shape("purging", job') /\ Underway("purging", root, todo', job')
  <2> DEFINE J == job'
             list == todo'
  <2>1. /\ list = (IF root[Forget(id)] = Absent THEN <<{Write(Forget(id), r)}>> ELSE << >>)
                     \o Batches(PurgeWrites(root, id))
        /\ J = [NoJob EXCEPT !.id = id, !.before = root]
    BY <1>2
  <2> HIDE DEF J, list
  <2>2. J \in Jobs /\ list \in Plans /\ Shape("purging", J) /\ Underway("purging", root, list, J)
    BY <1>1, <2>1, StartsForget
  <2>3. QED BY <2>2 DEF J, list
<1>4. Shape(pc', job') /\ Underway(pc', root', todo', job') /\ pc' \in Labels /\ root' \in Roots
  BY <1>1, <1>2, <1>3 DEF Labels
<1>5. QED BY <1>2, <1>3, <1>4, CallStep

LEMMA RollBackPlan ==
  ASSUME PlanInv, pc \in {"purging", "entombing"}, RollBack
  PROVE  PlanInv'
<1>1. /\ root \in Roots /\ job \in Jobs
      /\ Shape(pc, job) /\ Underway(pc, root, todo, job)
  BY DEF PlanInv, TypeInv
<1>2. /\ pc' = "undoing" /\ UNCHANGED <<root, outside, job>>
      /\ todo' = Reverse(Batches({Write(f, job.before[f]) : f \in job.done \ {Forget(job.id)}}))
  BY DEF RollBack, UndoWrites, Applied
<1>3. todo' \in Plans /\ Shape("undoing", job) /\ Underway("undoing", root, todo', job)
  <2> DEFINE list == todo'
  <2>1. list = Reverse(Batches({Write(f, job.before[f]) : f \in job.done \ {Forget(job.id)}}))
    BY <1>2
  <2> HIDE DEF list
  <2>2. list \in Plans /\ Shape("undoing", job) /\ Underway("undoing", root, list, job)
    BY <1>1, <2>1, RollsBack
  <2>3. QED BY <2>2 DEF list
<1>4. Shape(pc', job') /\ Underway(pc', root', todo', job') /\ pc' \in Labels /\ root' \in Roots
      /\ job' \in Jobs
  BY <1>1, <1>2, <1>3 DEF Labels
<1>5. QED BY <1>2, <1>3, <1>4, CallStep

LEMMA VerifyPlan ==
  ASSUME PlanInv, Verify
  PROVE  PlanInv'
<1>1. CASE Leaks(job.id)
  BY <1>1, RollBackPlan DEF Verify
<1>2. CASE ~Leaks(job.id)
  <2>1. /\ root \in Roots /\ job \in Jobs
        /\ Shape(pc, job) /\ Underway(pc, root, todo, job)
    BY DEF PlanInv, TypeInv
  <2>2. /\ pc = "purging" /\ todo = << >> /\ pc' = "entombing" /\ UNCHANGED <<root, outside, job>>
        /\ todo' = <<{Write(Tombstone(job.id), "forgotten")}>>
    BY <1>2 DEF Verify
  <2>3. todo' \in Plans /\ Shape("entombing", job) /\ Underway("entombing", root, todo', job)
    <3> DEFINE list == todo'
    <3>1. list = <<{Write(Tombstone(job.id), "forgotten")}>>
      BY <2>2
    <3> HIDE DEF list
    <3>2. list \in Plans /\ Shape("entombing", job) /\ Underway("entombing", root, list, job)
      BY <2>1, <2>2, <3>1, Entombs
    <3>3. QED BY <3>2 DEF list
  <2>4. Shape(pc', job') /\ Underway(pc', root', todo', job') /\ pc' \in Labels /\ root' \in Roots
        /\ job' \in Jobs
    BY <2>1, <2>2, <2>3 DEF Labels
  <2>5. QED BY <2>2, <2>3, <2>4, CallStep
<1>3. QED BY <1>1, <1>2

LEMMA DropPlan ==
  ASSUME PlanInv, DropJournal
  PROVE  PlanInv'
<1>1. /\ root \in Roots /\ job \in Jobs
      /\ Shape(pc, job) /\ Underway(pc, root, todo, job)
  BY DEF PlanInv, TypeInv
<1>2. /\ pc = "entombing" /\ todo = << >> /\ pc' = "closing" /\ UNCHANGED <<root, outside, job>>
      /\ todo' = <<{Write(Forget(job.id), Absent)}>>
  BY DEF DropJournal
<1>3. todo' \in Plans /\ Shape("closing", job) /\ Underway("closing", root, todo', job)
  <2> DEFINE list == todo'
  <2>1. list = <<{Write(Forget(job.id), Absent)}>>
    BY <1>2
  <2> HIDE DEF list
  <2>2. list \in Plans /\ Shape("closing", job) /\ Underway("closing", root, list, job)
    BY <1>1, <1>2, <2>1, Drops
  <2>3. QED BY <2>2 DEF list
<1>4. Shape(pc', job') /\ Underway(pc', root', todo', job') /\ pc' \in Labels /\ root' \in Roots
      /\ job' \in Jobs
  BY <1>1, <1>2, <1>3 DEF Labels
<1>5. QED BY <1>2, <1>3, <1>4, CallStep

LEMMA ForgetFailsPlan ==
  ASSUME PlanInv, ForgetFails
  PROVE  PlanInv'
<1>1. CASE pc \in {"purging", "entombing"} /\ RollBack
  BY <1>1, RollBackPlan
<1>2. CASE Return
  BY <1>2, ReturnPlan
<1>3. ASSUME pc = "undoing", NEW w \in Head(todo),
             todo' = IF Head(todo) = {w} THEN Tail(todo) ELSE <<Head(todo) \ {w}>> \o Tail(todo),
             job' = [job EXCEPT !.clean = FALSE],
             UNCHANGED <<root, outside, pc>>
      PROVE  PlanInv'
  <2>1. /\ root \in Roots /\ job \in Jobs /\ todo \in Plans /\ todo # << >>
        /\ Shape("undoing", job) /\ Underway("undoing", root, todo, job)
    BY <1>3 DEF PlanInv, TypeInv, ForgetFails
  <2>2. todo' = Less(todo, w)
    BY <1>3 DEF Less
  <2>3. Less(todo, w) \in Plans
    BY <2>1, LessIs DEF Plans
  <2>4. /\ job' \in Jobs /\ job'.id = job.id /\ job'.before = job.before /\ job'.clean = FALSE
    BY <1>3, <2>1 DEF Jobs
  <2>5. Shape("undoing", job')
    BY <2>1, <2>4 DEF Shape
  <2>6. Targets("undoing", job') = {}
    BY <2>4 DEF Targets
  <2>7. \A R, list : Underway("undoing", R, list, job')
    BY <2>6 DEF Underway
  <2>8. /\ pc' = "undoing" /\ root' = root /\ outside' = outside
    BY <1>3
  <2>9. Shape(pc', job') /\ Underway(pc', root', todo', job') /\ pc' \in Labels
    BY <2>5, <2>7, <2>8 DEF Labels
  <2>10. QED BY <2>1, <2>2, <2>3, <2>4, <2>8, <2>9, CallStep
<1>4. QED BY <1>1, <1>2, <1>3 DEF ForgetFails

LEMMA StartRestorePlan ==
  ASSUME PlanInv, NEW a \in Archives, StartRestore(a)
  PROVE  PlanInv'
<1>1. root \in Roots /\ outside \in ArchiveSet \cup {Absent}
  BY DEF PlanInv, TypeInv
<1>2. a \in ArchiveSet
  <2>1. \A z \in Slots : root[Archive(z)] \in ArchiveSet \cup {Absent}
    BY <1>1, InRoot, Named, ValuesOf
  <2>2. a # Absent
    BY DEF StartRestore
  <2>3. QED BY <1>1, <2>1, <2>2 DEF Archives
<1>3. /\ pc' = "restoring" /\ UNCHANGED <<root, outside>> /\ todo' = RestoreWrites(root, a)
      /\ job' = [NoJob EXCEPT !.archive = a, !.before = root]
  BY DEF StartRestore
<1>4. /\ job' \in Jobs /\ RestoreWrites(root, a) \in Plans
      /\ Shape("restoring", job') /\ Underway("restoring", root, RestoreWrites(root, a), job')
  <2> DEFINE J == job'
  <2>1. J = [NoJob EXCEPT !.archive = a, !.before = root]
    BY <1>3
  <2> HIDE DEF J
  <2>2. /\ J \in Jobs /\ RestoreWrites(root, a) \in Plans
        /\ Shape("restoring", J) /\ Underway("restoring", root, RestoreWrites(root, a), J)
    BY <1>1, <1>2, <2>1, StartsToRestore
  <2>3. QED BY <2>2 DEF J
<1>5. Shape(pc', job') /\ Underway(pc', root', todo', job') /\ pc' \in Labels /\ root' \in Roots
  BY <1>1, <1>3, <1>4 DEF Labels
<1>6. QED BY <1>3, <1>4, <1>5, CallStep

LEMMA RestoreFailsPlan ==
  ASSUME PlanInv, RestoreFails
  PROVE  PlanInv'
<1>1. CASE Return
  BY <1>1, ReturnPlan
<1>2. ASSUME pc = "restoring", pc' = "reverting", UNCHANGED <<root, outside, job>>,
             todo' = Clearing(root) \o Batches({Write(f, job.before[f]) :
                                          f \in {f \in Replaceable : job.before[f] # Absent}})
      PROVE  PlanInv'
  <2>1. root \in Roots /\ job \in Jobs /\ job.before \in Roots
    BY <1>2 DEF PlanInv, TypeInv, Shape
  <2>2. \A f \in Replaceable : Write(f, Absent) \in Writes /\ Write(f, job.before[f]) \in Writes
    <3> SUFFICES ASSUME NEW f \in Replaceable
                 PROVE  Write(f, Absent) \in Writes /\ Write(f, job.before[f]) \in Writes
      OBVIOUS
    <3>1. f \in Files /\ Absent \in Values(f)
      BY DEF Replaceable, Values
    <3>2. job.before[f] \in Values(f)
      BY <2>1, <3>1, InRoot
    <3>3. QED BY <3>1, <3>2, WriteOf
  <2>3. todo' \in Plans
    BY <1>2, <2>1, <2>2, RevertTyped DEF Plans
  <2>4. Shape("reverting", job)
    BY <2>1 DEF Shape, Forgetting
  <2>5. \A R, list : Underway("reverting", R, list, job)
    BY DEF Underway, Planned
  <2>6. Shape(pc', job') /\ Underway(pc', root', todo', job') /\ pc' \in Labels /\ root' \in Roots
        /\ job' \in Jobs
    BY <1>2, <2>1, <2>4, <2>5 DEF Labels
  <2>7. QED BY <1>2, <2>3, <2>6, CallStep
<1>3. QED BY <1>1, <1>2 DEF RestoreFails

LEMMA PlanInit == Init => PlanInv
<1> SUFFICES ASSUME Init PROVE PlanInv
  OBVIOUS
<1>1. root = [f \in Files |-> Absent] /\ outside = Absent /\ pc = "idle" /\ todo = << >> /\ job = NoJob
  BY DEF Init, ManagedInit
<1>2. root \in Roots
  <2>1. DOMAIN root = Files /\ \A f \in Files : root[f] = Absent
    BY <1>1
  <2>2. \A f \in Files : root[f] \in Values(f)
    BY <2>1 DEF Values
  <2>3. root = [f \in Files |-> root[f]]
    BY <1>1
  <2>4. QED BY <2>1, <2>2, <2>3, RootIs
<1>3. TypeInv
  BY <1>1, <1>2, AtRest DEF TypeInv, Labels
<1>4. Shape(pc, job) /\ Underway(pc, root, todo, job)
  BY <1>1, AtRest
<1>5. QED BY ONLY <1>3, <1>4 DEF PlanInv

LEMMA PlanStep == PlanInv /\ [Next]_all => PlanInv'
<1> SUFFICES ASSUME PlanInv, [Next]_all PROVE PlanInv'
  OBVIOUS
<1>1. CASE UNCHANGED all
  BY <1>1 DEF all, vars, PlanInv, TypeInv
<1>2. ASSUME NEW id \in Ids, NEW s \in Sources, Mutate(id, s)
      PROVE  PlanInv'
  <2>1. root \in Roots
    BY DEF PlanInv, TypeInv
  <2>2. MutationLength(id, s) \in Nat
    BY <2>1, MutationLengthIs
  <2>3. QED BY <1>2, <2>2, MutatePlan DEF Mutate
<1>3. ASSUME NEW id \in Ids, NEW s \in Sources, MutateDies(id, s)
      PROVE  PlanInv'
  <2>1. root \in Roots
    BY DEF PlanInv, TypeInv
  <2>2. MutationLength(id, s) \in Nat
    BY <2>1, MutationLengthIs
  <2>3. PICK n \in 1 .. MutationLength(id, s) - 1 : MutateUpTo(id, s, n)
    BY <1>3 DEF MutateDies
  <2>4. n \in Nat /\ n <= MutationLength(id, s)
    BY <2>2
  <2>5. QED BY <2>3, <2>4, MutatePlan
<1>4. CASE Begin
  <2>1. ASSUME NEW id \in Ids, NEW r \in Requests, StartForget(id, r) PROVE PlanInv'
    BY <2>1, StartForgetPlan
  <2>2. ASSUME NEW z \in Slots, Backup(z) PROVE PlanInv'
    BY <2>2, BackupPlan
  <2>3. ASSUME NEW a \in Archives, StartRestore(a) PROVE PlanInv'
    BY <2>3, StartRestorePlan
  <2>4. QED BY <1>2, <1>4, <2>1, <2>2, <2>3 DEF Begin
<1>5. CASE Other
  <2>1. CASE Continue
    <3>1. CASE ForgetReturns
      BY <3>1, ReturnPlan DEF ForgetReturns
    <3>2. CASE RestoreReturns
      BY <3>2, ReturnPlan DEF RestoreReturns
    <3>3. QED BY <2>1, <3>1, <3>2, WritePlan, VerifyPlan, DropPlan DEF Continue
  <2>2. ASSUME NEW id \in Ids, NEW r \in Requests, RepeatForget(id, r) PROVE PlanInv'
    BY <2>2, StartForgetPlan DEF RepeatForget
  <2>3. ASSUME NEW z \in Slots, Export(z) PROVE PlanInv'
    BY <2>3, ExportPlan
  <2>4. QED BY <1>5, <2>1, <2>2, <2>3, RecoverPlan, CatalogPlan DEF Other
<1>6. CASE Fault
  <2>1. CASE Crash
    BY <2>1, ReturnPlan DEF Crash
  <2>2. QED BY <1>3, <1>6, <2>1, ForgetFailsPlan, RestoreFailsPlan DEF Fault
<1>7. QED BY <1>1, <1>4, <1>5, <1>6 DEF Next

\* Whatever a call has still to write brings every file it is about to what the
\* call is to make of it: the purge and the tombstone of forget_transaction.py,
\* its rollback, and the writes of _handle_restore, in any order within a
\* directory, however far the call has come.
THEOREM PlanKept == Spec => []PlanInv
<1>1. QED BY PlanInit, PlanStep, PTL DEF Spec

-----------------------------------------------------------------------------
(* What follows                                                            *)

LEMMA PlanTypes == PlanInv => TypeOK
<1> SUFFICES ASSUME PlanInv PROVE TypeOK
  OBVIOUS
<1>1. root \in Roots /\ outside \in ArchiveSet \cup {Absent} /\ pc \in Labels /\ todo \in Plans /\ job \in Jobs
  BY DEF PlanInv, TypeInv
<1>2. DOMAIN root = Files /\ \A f \in Files : root[f] \in Values(f)
  BY <1>1, InRoot
<1>3. \A a \in ArchiveSet : IsArchive(a)
  BY DEF ArchiveSet
<1>4. \A f \in Files : IF f[1] = "zip" THEN root[f] = Absent \/ IsArchive(root[f])
                       ELSE root[f] \in Content(f) \cup {Absent}
  BY <1>2, <1>3 DEF Values
<1>5. \A i \in DOMAIN todo : \A w \in todo[i] : w.file \in Files
  <2>1. \A i \in DOMAIN todo : \A w \in todo[i] : w \in Writes
    BY <1>1, OfSet DEF Plans
  <2>2. QED BY <2>1, WriteIs
<1>6. job.id \in Ids \cup {Absent} /\ job.done \subseteq Files /\ job.clean \in BOOLEAN
  BY <1>1, InJob
<1>7. QED BY <1>1, <1>2, <1>3, <1>4, <1>5, <1>6 DEF TypeOK

\* Whatever calls die and whatever writes fail, files hold what belongs there.
THEOREM FilesTypeCorrect == Spec => []TypeOK
BY PlanKept, PlanTypes, PTL

LEMMA PlanFails == PlanInv => FailedForgetChangesNothing
<1> SUFFICES ASSUME PlanInv, pc = "undoing", todo = << >>, job.clean,
                    NEW f \in Files \ {Forget(job.id)}
             PROVE  root[f] = job.before[f]
  BY DEF FailedForgetChangesNothing
<1>1. Underway("undoing", root, << >>, job)
  BY DEF PlanInv
<1>2. f \in Targets("undoing", job)
  BY DEF Targets, Rest
<1>3. Lands(<< >>, f, Aim("undoing", job, f), root[f])
  BY <1>1, <1>2 DEF Underway, Planned
<1>4. root[f] = Aim("undoing", job, f)
  BY <1>3, Landed
<1>5. QED BY <1>4 DEF Aim

\* A forget that raises leaves every file as it was, whichever write raised
\* and whichever file of a directory came first; only the journal may stay.
THEOREM FailedForgetUndone == Spec => []FailedForgetChangesNothing
BY PlanKept, PlanFails, PTL

LEMMA PlanKeeps == PlanInv => OthersAreKept
<1> SUFFICES ASSUME PlanInv, pc = "closing", NEW b \in Ids \ Names(job.id)
             PROVE  /\ root[Memory(b)] = job.before[Memory(b)]
                    /\ \A f \in {Events, SourceKeys} : Of(root[f], b) = Of(job.before[f], b)
                    /\ \A s \in Sources : \A f \in {Queue(s), Undo(s)} :
                         (job.before[f] # Absent /\ job.before[f].object = b) => root[f] = job.before[f]
                    /\ \A z \in Slots : root[Archive(z)] # Absent =>
                         root[Archive(z)][Memory(b)] = job.before[Archive(z)][Memory(b)]
  BY DEF OthersAreKept
<1> DEFINE F == job.before
           id == job.id
<1>1. F \in Roots /\ id \in Ids
  BY DEF PlanInv, Shape, Forgetting
<1>2. \A f \in Rest(job) : Lands(todo, f, Entombed(F, id, f), root[f]) /\ Spares(todo, f)
  BY DEF PlanInv, Underway, Planned, Targets, Aim
<1>3. ASSUME NEW f \in Files, f[1] \notin {"tombstone", "forget"} PROVE root[f] = Purged(F, id, f)
  <2>1. f # Forget(id) /\ f # Tombstone(id)
    BY <1>3 DEF Forget, Tombstone
  <2>2. Lands(todo, f, Entombed(F, id, f), root[f]) /\ Spares(todo, f)
    BY <1>2, <2>1 DEF Rest
  <2>3. root[f] = Entombed(F, id, f)
    BY <2>2 DEF Lands, Sets, Spares
  <2>4. QED BY <2>1, <2>3 DEF Entombed
<1>4. b # id /\ b \notin Names(id)
  BY DEF Names
<1> HIDE DEF F, id
<1>5. root[Memory(b)] = F[Memory(b)]
  <2>1. root[Memory(b)] = Purged(F, id, Memory(b))
    BY <1>3, Named
  <2>2. QED BY <1>4, <2>1, PurgedMemory
<1>6. ASSUME NEW f \in {Events, SourceKeys} PROVE Of(root[f], b) = Of(F[f], b)
  <2>1. root[f] = Purged(F, id, f)
    BY <1>3, Named
  <2>2. F[f] \in (SUBSET Entry) \cup {Absent}
    BY <1>1, InRoot, Named, ValuesOf
  <2>3. CASE F[f] = Absent
    <3>1. Purged(F, id, f) = F[f]
      BY <2>3, PurgedLog
    <3>2. QED BY <2>1, <3>1
  <2>4. CASE F[f] # Absent
    <3>1. root[f] = F[f] \ Of(F[f], id)
      BY <2>1, <2>4, PurgedLog DEF Entries
    <3>2. root[f] \in SUBSET Entry
      BY <2>2, <2>4, <3>1
    <3>3. root[f] # Absent
      BY <3>2, ManagedAssumption
    <3>4. Of(root[f], b) = {e \in root[f] : e.object = b} /\ Of(F[f], b) = {e \in F[f] : e.object = b}
          /\ Of(F[f], id) = {e \in F[f] : e.object = id}
      BY <2>4, <3>3 DEF Of, Entries
    <3>5. QED BY <1>4, <3>1, <3>4
  <2>5. QED BY <2>3, <2>4
<1>7. ASSUME NEW s \in Sources, NEW f \in {Queue(s), Undo(s)}, F[f] # Absent, F[f].object = b
      PROVE  root[f] = F[f]
  <2>1. root[f] = Purged(F, id, f)
    BY <1>3, Named
  <2>2. CASE f = Queue(s)
    BY <1>4, <1>7, <2>1, <2>2, PurgedQueue
  <2>3. CASE f = Undo(s)
    BY <1>4, <1>7, <2>1, <2>3, PurgedUndo
  <2>4. QED BY <2>2, <2>3
<1>8. ASSUME NEW z \in Slots, root[Archive(z)] # Absent
      PROVE  root[Archive(z)][Memory(b)] = F[Archive(z)][Memory(b)]
  <2>1. root[Archive(z)] = Purged(F, id, Archive(z))
    BY <1>3, Named
  <2>2. F[Archive(z)] # Absent
    BY <1>8, <2>1, PurgedZip
  <2>3. F[Archive(z)] \in ArchiveSet
    BY <1>1, <2>2, InRoot, Named, ValuesOf
  <2>4. Purged(F, id, Archive(z)) = Rewritten(F[Archive(z)], id)
    BY <2>2, PurgedZip
  <2>5. Rewritten(F[Archive(z)], id)[Memory(b)] = F[Archive(z)][Memory(b)]
    BY <1>1, <1>4, <2>3, RewrittenIs
  <2>6. QED BY <2>1, <2>4, <2>5
<1>9. QED BY <1>5, <1>6, <1>7, <1>8 DEF F

\* A forget that comes to its end took nothing from the memories that do not
\* mention the forgotten one.
THEOREM ForgetTakesNoMore == Spec => []OthersAreKept
BY PlanKept, PlanKeeps, PTL

LEMMA PlanRestores == PlanInv => RestoreIsWhole
<1> SUFFICES ASSUME PlanInv, pc = "restoring", todo = << >>,
                    \A id \in Ids : job.archive[Forget(id)] = Absent
             PROVE  LET gone == {id \in Ids : \/ job.before[Tombstone(id)] # Absent
                                              \/ job.archive[Tombstone(id)] # Absent}
                    IN  /\ \A id \in Ids : root[Memory(id)] =
                             IF id \in gone THEN Absent ELSE job.archive[Memory(id)]
                        /\ \A f \in {Events, SourceKeys} : Entries(root[f]) =
                             {e \in Entries(job.archive[f]) : e.object \notin gone}
                        /\ root[Catalog] = CardsOf(root)
                        /\ Unfinished(root) = {}
                        /\ \A id \in gone : root[Tombstone(id)] # Absent
  BY DEF RestoreIsWhole
<1> DEFINE F == job.before
           a == job.archive
           gone == {id \in Ids : F[Tombstone(id)] # Absent \/ a[Tombstone(id)] # Absent}
<1>1. F \in Roots /\ a \in ArchiveSet
  BY DEF PlanInv, Shape
<1>2. \A f \in Settled(F, a) : Lands(<< >>, f, Final(F, a, f), root[f])
  BY DEF PlanInv, Underway, Planned, Targets, Aim
<1>3. \A f \in Settled(F, a) : root[f] = Final(F, a, f)
  BY <1>2, Landed
<1>4. gone = Suppressed(F, a)
  BY DEF Suppressed, MergedTombstone, ArchiveTombstone
<1>5. \A id \in gone : MergedTombstone(F, a, id) # Absent
  BY <1>4 DEF Suppressed
<1> HIDE DEF F, a, gone
<1>6. ASSUME NEW id \in Ids PROVE root[Memory(id)] = Restored(F, a)[Memory(id)]
  <2>1. Memory(id) \in Settled(F, a)
    BY Named DEF Settled, Replaceable
  <2>2. QED BY <1>1, <1>3, <2>1, FinalIs
<1>7. ASSUME NEW id \in Ids
      PROVE  root[Memory(id)] = IF id \in gone THEN Absent ELSE a[Memory(id)]
  BY <1>1, <1>4, <1>6, RestoredIs
<1>8. ASSUME NEW f \in {Events, SourceKeys}
      PROVE  Entries(root[f]) = {e \in Entries(a[f]) : e.object \notin gone}
  <2>1. f \in Settled(F, a)
    BY Named DEF Settled, Replaceable
  <2>2. root[f] = Filtered(a[f], gone)
    BY <1>1, <1>3, <1>4, <2>1, FinalIs
  <2>3. a[f] \in (SUBSET Entry) \cup {Absent}
    BY <1>1, OfArchive, InArchive, ContentOf
  <2>4. CASE a[f] = Absent
    BY <2>2, <2>4 DEF Filtered, Entries
  <2>5. CASE a[f] # Absent
    <3>1. root[f] = {e \in a[f] : e.object \notin gone}
      BY <2>2, <2>5 DEF Filtered
    <3>2. root[f] \in SUBSET Entry
      BY <2>3, <2>5, <3>1
    <3>3. root[f] # Absent
      BY <3>2, ManagedAssumption
    <3>4. QED BY <2>5, <3>1, <3>3 DEF Entries
  <2>6. QED BY <2>4, <2>5
<1>9. root[Catalog] = CardsOf(root)
  <2>1. Catalog \in Settled(F, a)
    BY Named DEF Settled, Replaceable
  <2>2. root[Catalog] = CardsOf(Restored(F, a))
    BY <1>1, <1>3, <2>1, FinalIs
  <2>3. QED BY <1>6, <2>2 DEF CardsOf
<1>10. Unfinished(root) = {}
  <2>1. ASSUME NEW s \in Sources PROVE root[Queue(s)] = Absent
    <3>1. Queue(s) \in Settled(F, a)
      BY Named DEF Settled, Replaceable
    <3>2. QED BY <1>1, <1>3, <3>1, FinalIs
  <2>2. QED BY <2>1 DEF Unfinished
<1>11. ASSUME NEW id \in gone PROVE root[Tombstone(id)] # Absent
  <2>1. id \in Ids /\ Tombstone(id) \in Settled(F, a)
    BY <1>4 DEF Settled, Suppressed
  <2>2. root[Tombstone(id)] = MergedTombstone(F, a, id)
    BY <1>1, <1>3, <2>1, FinalIs
  <2>3. QED BY <1>5, <2>2
<1>12. QED BY <1>7, <1>8, <1>9, <1>10, <1>11 DEF F, a, gone

\* A restore that comes to its end leaves what the archive holds of the
\* memories without tombstone and nothing else, whatever it found.
THEOREM RestoreWhole == Spec => []RestoreIsWhole
BY PlanKept, PlanRestores, PTL

-----------------------------------------------------------------------------
(* What has been forgotten                                                 *)

\* No copy of the text of id is left.
Gone(F, id) ==
  /\ F[Memory(id)] = Absent
  /\ \A s \in Sources : F[Undo(s)] # Absent => F[Undo(s)].object # id
  /\ \A z \in Slots : F[Archive(z)] # Absent => F[Archive(z)][Memory(id)] = Absent

AllGone(F) == \A id \in Ids : F[Tombstone(id)] # Absent /\ F[Forget(id)] = Absent => Gone(F, id)

\* Never more than one mutation is pending, and the backup a recovery would
\* put back is one of the memory it is pending for.
OnePending(F) ==
  \A s \in Sources : F[Queue(s)] # Absent =>
    /\ F[Queue(s)].source = s
    /\ F[Queue(s)].existed /\ F[Undo(s)] # Absent => F[Undo(s)].object = F[Queue(s)].object
    /\ \A t \in Sources : F[Queue(t)] # Absent => t = s

\* No archive knows of a forget that the root does not know of.
ZipsAreBehind(F) ==
  \A z \in Slots : F[Archive(z)] # Absent =>
    \A id \in Ids : Marked(F[Archive(z)], id) => Marked(F, id)

Sound(F) == AllGone(F) /\ OnePending(F) /\ ZipsAreBehind(F)

Grows(F, R) == \A id \in Ids : Marked(F, id) => Marked(R, id)

\* A forget of id has come some way from F to R: nothing but the purge's own
\* writes, and either none yet, or the journal is there, or all of them.
Cut(R, F, id) ==
  /\ \A f \in Files \ {Forget(id)} :
       R[f] \in {F[f], Purged(F, id, f)} \/ (f = Tombstone(id) /\ R[f] = "forgotten")
  /\ \/ R = F
     \/ R[Forget(id)] # Absent
     \/ \A f \in Files \ {Forget(id)} : R[f] = Entombed(F, id, f)

LEMMA CutIs ==
  ASSUME NEW F \in Roots, NEW R \in Roots, NEW id \in Ids, Cut(R, F, id)
  PROVE  /\ \A s \in Sources : R[Queue(s)] \in {F[Queue(s)], Absent} /\ R[Undo(s)] \in {F[Undo(s)], Absent}
         /\ \A b \in Ids : /\ R[Memory(b)] \in {F[Memory(b)], Absent}
                           /\ b # id => R[Tombstone(b)] = F[Tombstone(b)] /\ R[Forget(b)] = F[Forget(b)]
         /\ \A z \in Slots : /\ F[Archive(z)] = Absent => R[Archive(z)] = Absent
                             /\ R[Archive(z)] \in {F[Archive(z)], Rewritten(F[Archive(z)], id)}
         /\ R = F \/ Marked(R, id)
<1>1. ASSUME NEW f \in Files, f[1] \notin {"tombstone", "forget"} PROVE R[f] \in {F[f], Purged(F, id, f)}
  <2>1. f # Forget(id) /\ f # Tombstone(id)
    BY <1>1 DEF Forget, Tombstone
  <2>2. QED BY <2>1 DEF Cut
<1>2. ASSUME NEW s \in Sources
      PROVE  R[Queue(s)] \in {F[Queue(s)], Absent} /\ R[Undo(s)] \in {F[Undo(s)], Absent}
  <2>1. R[Queue(s)] \in {F[Queue(s)], Purged(F, id, Queue(s))}
        /\ R[Undo(s)] \in {F[Undo(s)], Purged(F, id, Undo(s))}
    BY <1>1, Named
  <2>2. QED BY <2>1, PurgedQueue, PurgedUndo
<1>3. ASSUME NEW b \in Ids
      PROVE  /\ R[Memory(b)] \in {F[Memory(b)], Absent}
             /\ b # id => R[Tombstone(b)] = F[Tombstone(b)] /\ R[Forget(b)] = F[Forget(b)]
  <2>1. R[Memory(b)] \in {F[Memory(b)], Purged(F, id, Memory(b))}
    BY <1>1, Named
  <2>2. R[Memory(b)] \in {F[Memory(b)], Absent}
    BY <2>1, PurgedMemory
  <2>3. ASSUME b # id PROVE R[Tombstone(b)] = F[Tombstone(b)] /\ R[Forget(b)] = F[Forget(b)]
    <3>1. /\ Tombstone(b) \in Files /\ Tombstone(b) # Forget(id) /\ Tombstone(b) # Tombstone(id)
          /\ Forget(b) \in Files /\ Forget(b) # Forget(id) /\ Forget(b) # Tombstone(id)
      BY <2>3, Named DEF Tombstone, Forget
    <3>2. /\ R[Tombstone(b)] \in {F[Tombstone(b)], Purged(F, id, Tombstone(b))}
          /\ R[Forget(b)] \in {F[Forget(b)], Purged(F, id, Forget(b))}
      BY <3>1 DEF Cut
    <3>3. QED BY <3>2, PurgedMark
  <2>4. QED BY <2>2, <2>3
<1>4. ASSUME NEW z \in Slots
      PROVE  /\ F[Archive(z)] = Absent => R[Archive(z)] = Absent
             /\ R[Archive(z)] \in {F[Archive(z)], Rewritten(F[Archive(z)], id)}
  <2>1. R[Archive(z)] \in {F[Archive(z)], Purged(F, id, Archive(z))}
    BY <1>1, Named
  <2>2. QED BY <2>1, PurgedZip
<1>5. R = F \/ Marked(R, id)
  <2>1. CASE \A f \in Files \ {Forget(id)} : R[f] = Entombed(F, id, f)
    <3>1. Tombstone(id) \in Files \ {Forget(id)}
      BY Named DEF Tombstone, Forget
    <3>2. R[Tombstone(id)] = "forgotten"
      BY <2>1, <3>1 DEF Entombed
    <3>3. QED BY <3>2, ManagedAssumption DEF Marked
  <2>2. QED BY <2>1 DEF Cut, Marked
<1>6. QED BY <1>2, <1>3, <1>4, <1>5

LEMMA CutSound ==
  ASSUME NEW F \in Roots, NEW R \in Roots, NEW id \in Ids, Cut(R, F, id), Sound(F)
  PROVE  Sound(R) /\ Grows(F, R)
<1>1. /\ \A s \in Sources : R[Queue(s)] \in {F[Queue(s)], Absent} /\ R[Undo(s)] \in {F[Undo(s)], Absent}
      /\ \A b \in Ids : /\ R[Memory(b)] \in {F[Memory(b)], Absent}
                        /\ b # id => R[Tombstone(b)] = F[Tombstone(b)] /\ R[Forget(b)] = F[Forget(b)]
      /\ \A z \in Slots : /\ F[Archive(z)] = Absent => R[Archive(z)] = Absent
                          /\ R[Archive(z)] \in {F[Archive(z)], Rewritten(F[Archive(z)], id)}
      /\ R = F \/ Marked(R, id)
  BY CutIs
<1>2. Grows(F, R)
  BY <1>1 DEF Grows, Marked
<1>3. ASSUME NEW z \in Slots, F[Archive(z)] # Absent
      PROVE  /\ \A b \in Ids : Rewritten(F[Archive(z)], id)[Memory(b)] \in {F[Archive(z)][Memory(b)], Absent}
             /\ \A b \in Ids : b # id /\ Marked(Rewritten(F[Archive(z)], id), b) => Marked(F[Archive(z)], b)
             /\ Rewritten(F[Archive(z)], id)[Memory(id)] = Absent
  <2>1. F[Archive(z)] \in ArchiveSet
    BY <1>3, InRoot, Named, ValuesOf
  <2>2. QED BY <2>1, RewrittenIs
<1>4. AllGone(R)
  <2> SUFFICES ASSUME NEW b \in Ids, R[Tombstone(b)] # Absent, R[Forget(b)] = Absent
               PROVE  Gone(R, b)
    BY DEF AllGone
  <2>1. CASE R = F
    BY <2>1 DEF Sound, AllGone
  <2>2. CASE b # id
    <3>1. Gone(F, b)
      BY <1>1, <2>2 DEF Sound, AllGone
    <3>2. QED BY <1>1, <1>3, <3>1 DEF Gone
  <2>3. CASE b = id /\ \A f \in Files \ {Forget(id)} : R[f] = Entombed(F, id, f)
    <3>1. ASSUME NEW f \in Files, f[1] \notin {"tombstone", "forget"} PROVE R[f] = Purged(F, id, f)
      <4>1. f # Forget(id) /\ f # Tombstone(id)
        BY <3>1 DEF Forget, Tombstone
      <4>2. QED BY <2>3, <4>1 DEF Entombed
    <3>2. id \in Names(id)
      BY DEF Names
    <3>3. R[Memory(id)] = Absent
      <4>1. R[Memory(id)] = Purged(F, id, Memory(id))
        BY <3>1, Named
      <4>2. QED BY <3>2, <4>1, PurgedMemory
    <3>4. ASSUME NEW s \in Sources, R[Undo(s)] # Absent PROVE R[Undo(s)].object # id
      <4>1. R[Undo(s)] = Purged(F, id, Undo(s))
        BY <3>1, Named
      <4>2. QED BY <3>2, <3>4, <4>1, PurgedUndo
    <3>5. ASSUME NEW z \in Slots, R[Archive(z)] # Absent PROVE R[Archive(z)][Memory(id)] = Absent
      <4>1. R[Archive(z)] = Purged(F, id, Archive(z))
        BY <3>1, Named
      <4>2. F[Archive(z)] # Absent
        BY <1>1, <3>5
      <4>3. R[Archive(z)] = Rewritten(F[Archive(z)], id)
        BY <4>1, <4>2, PurgedZip
      <4>4. QED BY <1>3, <4>2, <4>3
    <3>6. QED BY <2>3, <3>3, <3>4, <3>5 DEF Gone
  <2>4. QED BY <2>1, <2>2, <2>3 DEF Cut
<1>5. OnePending(R)
  BY <1>1 DEF Sound, OnePending
<1>6. ZipsAreBehind(R)
  <2> SUFFICES ASSUME NEW z \in Slots, R[Archive(z)] # Absent, NEW b \in Ids, Marked(R[Archive(z)], b)
               PROVE  Marked(R, b)
    BY DEF ZipsAreBehind
  <2>1. F[Archive(z)] # Absent /\ (Marked(F[Archive(z)], b) => Marked(F, b))
    BY <1>1 DEF Sound, ZipsAreBehind
  <2>2. CASE R = F
    BY <2>1, <2>2
  <2>3. CASE R # F /\ b = id
    BY <1>1, <2>3
  <2>4. CASE b # id
    BY <1>1, <1>2, <1>3, <2>1, <2>4 DEF Grows
  <2>5. QED BY <2>2, <2>3, <2>4
<1>7. QED BY <1>2, <1>4, <1>5, <1>6 DEF Sound

\* A restore, or what puts the former files back, has come some way from F to R.
Keeps(R, F) ==
  /\ \A f \in Files : f[1] \in {"backup", "zip"} => R[f] = F[f]
  /\ \A s \in Sources : R[Queue(s)] \in {F[Queue(s)], Absent}
  /\ \A id \in Ids :
       /\ F[Tombstone(id)] # Absent => /\ R[Memory(id)] \in {F[Memory(id)], Absent}
                                       /\ R[Tombstone(id)] # Absent
       /\ F[Forget(id)] # Absent => R[Forget(id)] # Absent
       /\ Marked(R, id) => Marked(F, id)

Restores(F, w) ==
  /\ w.file[1] \notin {"backup", "zip"}
  /\ w.file[1] = "queue" => w.value \in {Absent, F[w.file]}
  /\ \A id \in Ids :
       /\ w.file = Memory(id) /\ F[Tombstone(id)] # Absent => w.value \in {Absent, F[w.file]}
       /\ w.file \in {Tombstone(id), Forget(id)} => w.value # Absent /\ Marked(F, id)

RestoreSteps(F) == {w \in Writes : Restores(F, w)}

LEMMA KeepsSound ==
  ASSUME NEW F \in Roots, NEW R \in Roots, Keeps(R, F), Sound(F)
  PROVE  Sound(R) /\ Grows(F, R)
<1>1. \A s \in Sources : R[Undo(s)] = F[Undo(s)] /\ R[Queue(s)] \in {F[Queue(s)], Absent}
  BY Named DEF Keeps
<1>2. \A z \in Slots : R[Archive(z)] = F[Archive(z)]
  BY Named DEF Keeps
<1>3. \A id \in Ids :
        /\ F[Tombstone(id)] # Absent => /\ R[Memory(id)] \in {F[Memory(id)], Absent}
                                        /\ R[Tombstone(id)] # Absent
        /\ F[Forget(id)] # Absent => R[Forget(id)] # Absent
        /\ Marked(R, id) => Marked(F, id)
  BY DEF Keeps
<1>4. Grows(F, R)
  BY <1>3 DEF Grows, Marked
<1>5. AllGone(R)
  <2> SUFFICES ASSUME NEW id \in Ids, R[Tombstone(id)] # Absent, R[Forget(id)] = Absent
               PROVE  Gone(R, id)
    BY DEF AllGone
  <2>1. F[Tombstone(id)] # Absent /\ F[Forget(id)] = Absent
    BY <1>3 DEF Marked
  <2>2. Gone(F, id)
    BY <2>1 DEF Sound, AllGone
  <2>3. QED BY <1>1, <1>2, <1>3, <2>1, <2>2 DEF Gone
<1>6. OnePending(R)
  BY <1>1 DEF Sound, OnePending
<1>7. ZipsAreBehind(R)
  BY <1>2, <1>4 DEF Sound, ZipsAreBehind, Grows
<1>8. QED BY <1>4, <1>5, <1>6, <1>7 DEF Sound

LEMMA KeepsOn ==
  ASSUME NEW F \in Roots, NEW R \in Roots, Keeps(R, F), NEW w \in RestoreSteps(F)
  PROVE  Keeps(After(R, w), F) /\ Grows(R, After(R, w))
<1> DEFINE R2 == After(R, w)
<1>1. w \in Writes /\ Restores(F, w)
  BY DEF RestoreSteps
<1>2. w.file \in Files /\ R2[w.file] = w.value /\ \A f \in Files : f # w.file => R2[f] = R[f]
  BY <1>1, AfterIs, WriteIs
<1> HIDE DEF R2
<1>3. \A f \in Files : f[1] \in {"backup", "zip"} => R2[f] = F[f]
  BY <1>1, <1>2 DEF Keeps, Restores
<1>4. ASSUME NEW s \in Sources PROVE R2[Queue(s)] \in {F[Queue(s)], Absent}
  <2>1. Queue(s) \in Files /\ Queue(s)[1] = "queue"
    BY Named
  <2>2. QED BY <1>1, <1>2, <2>1 DEF Keeps, Restores
<1>5. ASSUME NEW id \in Ids
      PROVE  /\ F[Tombstone(id)] # Absent => /\ R2[Memory(id)] \in {F[Memory(id)], Absent}
                                              /\ R2[Tombstone(id)] # Absent
             /\ F[Forget(id)] # Absent => R2[Forget(id)] # Absent
             /\ Marked(R2, id) => Marked(F, id)
             /\ Marked(R, id) => Marked(R2, id)
  <2>1. Memory(id) \in Files /\ Tombstone(id) \in Files /\ Forget(id) \in Files
    BY Named
  <2>2. F[Tombstone(id)] # Absent => R2[Memory(id)] \in {F[Memory(id)], Absent}
    BY <1>1, <1>2, <2>1 DEF Keeps, Restores
  <2>3. R2[Tombstone(id)] = R[Tombstone(id)] \/ (R2[Tombstone(id)] # Absent /\ Marked(F, id))
    BY <1>1, <1>2, <2>1 DEF Restores
  <2>4. R2[Forget(id)] = R[Forget(id)] \/ (R2[Forget(id)] # Absent /\ Marked(F, id))
    BY <1>1, <1>2, <2>1 DEF Restores
  <2>5. QED BY <2>2, <2>3, <2>4 DEF Keeps, Marked
<1>6. QED BY <1>3, <1>4, <1>5 DEF Keeps, Grows, R2

LEMMA KeepsItself ==
  ASSUME NEW F \in Roots
  PROVE  Keeps(F, F)
BY DEF Keeps

LEMMA RestoreAllowed ==
  ASSUME NEW F \in Roots, NEW a \in ArchiveSet, \A id \in Ids : Marked(a, id) => Marked(F, id)
  PROVE  Allows(RestoreSteps(F), F, a)
<1> DEFINE G == Restored(F, a)
           S == RestoreSteps(F)
<1>1. Allows(Writes, F, a)
  BY RestoreTyped
<1>2. \A f, v : Write(f, v).file = f /\ Write(f, v).value = v
  BY DEF Write
<1>3. ASSUME NEW f \in Replaceable PROVE Write(f, Absent) \in S
  <2>1. Write(f, Absent) \in Writes
    BY <1>1 DEF Allows
  <2>2. f[1] \notin {"backup", "zip", "tombstone", "forget"}
    BY DEF Replaceable
  <2>3. \A id \in Ids : f # Tombstone(id) /\ f # Forget(id)
    BY <2>2, Named
  <2>4. Restores(F, Write(f, Absent))
    BY <1>2, <2>2, <2>3 DEF Restores
  <2>5. QED BY <2>1, <2>4 DEF RestoreSteps
<1>4. ASSUME NEW f \in Archived, G[f] # Absent PROVE Write(f, G[f]) \in S
  <2>1. Write(f, G[f]) \in Writes
    BY <1>1, <1>4 DEF Allows
  <2>2. f[1] \notin {"backup", "zip", "queue"}
    BY DEF Archived
  <2>3. ASSUME NEW id \in Ids, f = Memory(id) PROVE F[Tombstone(id)] = Absent
    <3>1. id \notin Suppressed(F, a)
      BY <1>4, <2>3, RestoredIs
    <3>2. QED BY <3>1 DEF Suppressed, MergedTombstone
  <2>4. ASSUME NEW id \in Ids, f \in {Tombstone(id), Forget(id)} PROVE Marked(F, id)
    <3>1. f[1] # "memory"
      BY <2>4, Named
    <3>2. G[f] = a[f]
      BY <3>1, RestoredIs
    <3>3. Marked(a, id)
      BY <1>4, <2>4, <3>2 DEF Marked
    <3>4. QED BY <3>3
  <2> HIDE DEF G
  <2>5. Restores(F, Write(f, G[f]))
    BY <1>2, <1>4, <2>2, <2>3, <2>4 DEF Restores
  <2>6. QED BY <2>1, <2>5 DEF RestoreSteps
<1>5. ASSUME NEW id \in Suppressed(F, a)
      PROVE  Write(Tombstone(id), MergedTombstone(F, a, id)) \in S
  <2>1. Write(Tombstone(id), MergedTombstone(F, a, id)) \in Writes
    BY <1>1 DEF Allows
  <2>2. id \in Ids /\ MergedTombstone(F, a, id) # Absent
    BY DEF Suppressed
  <2>3. Marked(F, id)
    <3>1. F[Tombstone(id)] # Absent \/ Marked(a, id)
      BY <2>2 DEF MergedTombstone, ArchiveTombstone, Marked
    <3>2. QED BY <2>2, <3>1 DEF Marked
  <2>4. /\ Tombstone(id)[1] = "tombstone"
        /\ \A b \in Ids : /\ Tombstone(id) # Memory(b) /\ Tombstone(id) # Forget(b)
                          /\ Tombstone(id) = Tombstone(b) => b = id
    BY <2>2, Named DEF Tombstone, Memory, Forget
  <2>5. Restores(F, Write(Tombstone(id), MergedTombstone(F, a, id)))
    BY <1>2, <2>2, <2>3, <2>4 DEF Restores
  <2>6. QED BY <2>1, <2>5 DEF RestoreSteps
<1>6. ASSUME NEW f \in {Events, SourceKeys}, a[f] # Absent
      PROVE  Write(f, Filtered(a[f], Suppressed(F, a))) \in S
  <2>1. Write(f, Filtered(a[f], Suppressed(F, a))) \in Writes
    BY <1>1, <1>6 DEF Allows
  <2>2. /\ f[1] \notin {"backup", "zip", "queue"}
        /\ \A id \in Ids : f # Memory(id) /\ f # Tombstone(id) /\ f # Forget(id)
    BY Named DEF Events, SourceKeys, Memory, Tombstone, Forget
  <2>3. Restores(F, Write(f, Filtered(a[f], Suppressed(F, a))))
    BY <1>2, <2>2 DEF Restores
  <2>4. QED BY <2>1, <2>3 DEF RestoreSteps
<1>7. Write(Catalog, CardsOf(G)) \in S
  <2>1. Write(Catalog, CardsOf(G)) \in Writes
    BY <1>1 DEF Allows
  <2>2. /\ Catalog[1] \notin {"backup", "zip", "queue"}
        /\ \A id \in Ids : Catalog # Memory(id) /\ Catalog # Tombstone(id) /\ Catalog # Forget(id)
    BY Named DEF Catalog, Memory, Tombstone, Forget
  <2> HIDE DEF G
  <2>3. Restores(F, Write(Catalog, CardsOf(G)))
    BY <1>2, <2>2 DEF Restores
  <2>4. QED BY <2>1, <2>3 DEF RestoreSteps
<1>8. QED BY <1>3, <1>4, <1>5, <1>6, <1>7 DEF Allows

LEMMA RevertAllowed ==
  ASSUME NEW F \in Roots, NEW f \in Replaceable
  PROVE  Write(f, Absent) \in RestoreSteps(F) /\ Write(f, F[f]) \in RestoreSteps(F)
<1>1. \A v : Write(f, v).file = f /\ Write(f, v).value = v
  BY DEF Write
<1>2. f \in Files /\ f[1] \notin {"backup", "zip", "tombstone", "forget"}
  BY DEF Replaceable
<1>3. \A id \in Ids : f # Tombstone(id) /\ f # Forget(id)
  BY <1>2, Named
<1>4. F[f] \in Values(f) /\ Absent \in Values(f)
  BY <1>2, InRoot DEF Values
<1>5. Write(f, Absent) \in Writes /\ Write(f, F[f]) \in Writes
  BY <1>2, <1>4, WriteOf
<1>6. Restores(F, Write(f, Absent)) /\ Restores(F, Write(f, F[f]))
  BY <1>1, <1>2, <1>3 DEF Restores
<1>7. QED BY <1>5, <1>6 DEF RestoreSteps

\* What a forget may still write when it is at step.
ForgetSteps(step, F, id) ==
  IF step = "purging" THEN PurgeSteps(F, id)
  ELSE IF step = "entombing" THEN {Write(Tombstone(id), "forgotten")}
  ELSE IF step = "closing" THEN {Write(Forget(id), Absent)}
  ELSE UndoSteps(F, id)

LEMMA CutGrows ==
  ASSUME NEW F \in Roots, NEW R \in Roots, NEW R2 \in Roots, NEW id \in Ids,
         Cut(R, F, id), Cut(R2, F, id), Marked(R2, id)
  PROVE  Grows(R, R2)
<1>1. \A b \in Ids : b # id => R[Tombstone(b)] = F[Tombstone(b)] /\ R[Forget(b)] = F[Forget(b)]
  BY CutIs
<1>2. \A b \in Ids : b # id => R2[Tombstone(b)] = F[Tombstone(b)] /\ R2[Forget(b)] = F[Forget(b)]
  BY CutIs
<1>3. QED BY <1>1, <1>2 DEF Grows, Marked

\* With the journal there the purge may go on or be undone.
LEMMA CutWrites ==
  ASSUME NEW F \in Roots, NEW R \in Roots, NEW id \in Ids, Cut(R, F, id), NEW w \in Writes,
         \/ \E r \in Requests : w = Write(Forget(id), r)
         \/ /\ R[Forget(id)] # Absent
            /\ \/ w \in PurgeWrites(F, id)
               \/ w = Write(Tombstone(id), "forgotten")
               \/ w \in UndoSteps(F, id)
  PROVE  Cut(After(R, w), F, id) /\ After(R, w)[Forget(id)] # Absent
<1> DEFINE R2 == After(R, w)
<1>1. w.file \in Files /\ R2[w.file] = w.value /\ \A f \in Files : f # w.file => R2[f] = R[f]
  BY AfterIs, WriteIs
<1>2. \A f, v : Write(f, v).file = f /\ Write(f, v).value = v
  BY DEF Write
<1>3. \A r \in Requests : r # Absent
  BY ManagedAssumption
<1>4. \A f \in Files \ {Forget(id)} :
        R[f] \in {F[f], Purged(F, id, f)} \/ (f = Tombstone(id) /\ R[f] = "forgotten")
  BY DEF Cut
<1>5. Forget(id) \in Files /\ Tombstone(id) # Forget(id) /\ Forget(id)[1] = "forget"
  BY Named DEF Tombstone, Forget
<1> HIDE DEF R2
<1>6. ASSUME R2[Forget(id)] # Absent,
             w.file = Forget(id) \/ w.value \in {F[w.file], Purged(F, id, w.file)}
               \/ (w.file = Tombstone(id) /\ w.value = "forgotten")
      PROVE  Cut(R2, F, id) /\ R2[Forget(id)] # Absent
  BY ONLY <1>1, <1>4, <1>6 DEF Cut
<1>7. ASSUME NEW r \in Requests, w = Write(Forget(id), r)
      PROVE  Cut(R2, F, id) /\ R2[Forget(id)] # Absent
  <2>1. w.file = Forget(id) /\ w.value = r
    BY <1>2, <1>7
  <2>2. QED BY <1>1, <1>3, <1>6, <2>1
<1>8. ASSUME R[Forget(id)] # Absent, w \in PurgeWrites(F, id)
      PROVE  Cut(R2, F, id) /\ R2[Forget(id)] # Absent
  <2>1. w = Write(w.file, Purged(F, id, w.file)) /\ w.file[1] \notin {"tombstone", "forget"}
    BY <1>8, PurgeFits DEF Fits
  <2>2. w.value = Purged(F, id, w.file) /\ w.file # Forget(id)
    BY <1>2, <1>5, <2>1
  <2>3. QED BY <1>1, <1>5, <1>6, <1>8, <2>2
<1>9. ASSUME R[Forget(id)] # Absent, w = Write(Tombstone(id), "forgotten")
      PROVE  Cut(R2, F, id) /\ R2[Forget(id)] # Absent
  BY <1>1, <1>2, <1>5, <1>6, <1>9
<1>10. ASSUME R[Forget(id)] # Absent, w \in UndoSteps(F, id)
       PROVE  Cut(R2, F, id) /\ R2[Forget(id)] # Absent
  <2>1. PICK f \in Files \ {Forget(id)} : w = Write(f, F[f])
    BY <1>10 DEF UndoSteps
  <2>2. w.file = f /\ w.value = F[f]
    BY <1>2, <2>1
  <2>3. QED BY <1>1, <1>5, <1>6, <1>10, <2>1, <2>2
<1>11. Cut(R2, F, id) /\ R2[Forget(id)] # Absent
  <2>1. CASE \E r \in Requests : w = Write(Forget(id), r)
    BY <1>7, <2>1
  <2>2. CASE R[Forget(id)] # Absent /\ w \in PurgeWrites(F, id)
    BY <1>8, <2>2
  <2>3. CASE R[Forget(id)] # Absent /\ w = Write(Tombstone(id), "forgotten")
    BY <1>9, <2>3
  <2>4. CASE R[Forget(id)] # Absent /\ w \in UndoSteps(F, id)
    BY <1>10, <2>4
  <2>5. QED BY <2>1, <2>2, <2>3, <2>4
<1>12. QED BY <1>11 DEF R2

\* The journal goes when all the rest is done.
LEMMA CutCloses ==
  ASSUME NEW F \in Roots, NEW R \in Roots, NEW id \in Ids,
         NEW w \in Writes, w = Write(Forget(id), Absent),
         \A f \in Files \ {Forget(id)} : R[f] = Entombed(F, id, f)
  PROVE  Cut(After(R, w), F, id) /\ Marked(After(R, w), id)
<1> DEFINE R2 == After(R, w)
<1>1. w.file = Forget(id)
  BY DEF Write
<1>2. \A f \in Files : f # w.file => R2[f] = R[f]
  BY AfterIs
<1> HIDE DEF R2
<1>3. \A f \in Files \ {Forget(id)} : R2[f] = Entombed(F, id, f)
  BY <1>1, <1>2
<1>4. \A f \in Files \ {Forget(id)} : Entombed(F, id, f) = Purged(F, id, f)
                                        \/ (f = Tombstone(id) /\ Entombed(F, id, f) = "forgotten")
  BY DEF Entombed
<1>5. Cut(R2, F, id)
  BY ONLY <1>3, <1>4 DEF Cut
<1>6. Tombstone(id) \in Files \ {Forget(id)} /\ Absent # "forgotten"
  BY Named, ManagedAssumption DEF Tombstone, Forget
<1>7. R2[Tombstone(id)] = "forgotten"
  BY <1>3, <1>6 DEF Entombed
<1>8. QED BY <1>5, <1>6, <1>7 DEF R2, Marked

-----------------------------------------------------------------------------
(* Nothing of what was forgotten comes back                                *)

\* Between calls the root is sound; during one it was when the call began, and
\* what the call has made of it, and may yet write, keeps it so.
Guarded(step, R, list, J) ==
  /\ step = "idle" => Sound(R)
  /\ step # "idle" => Sound(J.before)
  /\ step \in Forgetting => /\ Cut(R, J.before, J.id)
                            /\ list \in Seq(SUBSET ForgetSteps(step, J.before, J.id))
  /\ step = "purging" =>
       \/ R[Forget(J.id)] # Absent
       \/ /\ J.done = {} /\ list # << >>
          /\ \E r \in Requests : Head(list) = {Write(Forget(J.id), r)}
  /\ step = "entombing" => R[Forget(J.id)] # Absent
  /\ step = "undoing" => R[Forget(J.id)] # Absent \/ list = << >>
  /\ step \in {"restoring", "reverting"} => /\ Keeps(R, J.before)
                                            /\ list \in Seq(SUBSET RestoreSteps(J.before))

LEMMA AllSound ==
  ASSUME NEW step \in Labels, NEW R \in Roots, NEW list, NEW J \in Jobs,
         Shape(step, J), Guarded(step, R, list, J)
  PROVE  Sound(R) /\ (step # "idle" => Grows(J.before, R))
<1>1. CASE step = "idle"
  BY <1>1 DEF Guarded
<1>2. CASE step \in Forgetting
  <2>1. J.id \in Ids /\ J.before \in Roots /\ Cut(R, J.before, J.id) /\ Sound(J.before)
    BY <1>2 DEF Shape, Guarded, Forgetting
  <2>2. QED BY <2>1, CutSound
<1>3. CASE step \in {"restoring", "reverting"}
  <2>1. J.before \in Roots /\ Keeps(R, J.before) /\ Sound(J.before)
    BY <1>3 DEF Shape, Guarded
  <2>2. QED BY <2>1, KeepsSound
<1>4. QED BY <1>1, <1>2, <1>3 DEF Labels, Forgetting

LEMMA ForgetStepsTyped ==
  ASSUME NEW step \in Forgetting, NEW F \in Roots, NEW id \in Ids
  PROVE  ForgetSteps(step, F, id) \subseteq Writes
<1>1. Write(Tombstone(id), "forgotten") \in Writes /\ Write(Forget(id), Absent) \in Writes
  <2>1. /\ Tombstone(id) \in Files /\ "forgotten" \in Values(Tombstone(id))
        /\ Forget(id) \in Files /\ Absent \in Values(Forget(id))
    BY Named, ValuesOf
  <2>2. QED BY <2>1, WriteOf
<1>2. QED BY <1>1, PurgeStepsTyped, UndoStepsTyped DEF ForgetSteps

\* A list of one batch with one write is done when it is made.
LEMMA ForgetGoesOn ==
  ASSUME NEW step \in Forgetting, NEW R \in Roots, NEW list \in Plans, list # << >>, NEW w \in Head(list),
         NEW J \in Jobs, Shape(step, J), Underway(step, R, list, J), Guarded(step, R, list, J)
  PROVE  /\ Cut(After(R, w), J.before, J.id) /\ Grows(R, After(R, w))
         /\ Less(list, w) \in Seq(SUBSET ForgetSteps(step, J.before, J.id))
         /\ step # "closing" => After(R, w)[Forget(J.id)] # Absent
<1> DEFINE F == J.before
           id == J.id
           S == ForgetSteps(step, F, id)
<1>1. /\ F \in Roots /\ id \in Ids /\ Cut(R, F, id) /\ list \in Seq(SUBSET S)
      /\ step = "purging" => \/ R[Forget(id)] # Absent
                             \/ \E r \in Requests : Head(list) = {Write(Forget(id), r)}
      /\ step \in {"entombing", "undoing"} => R[Forget(id)] # Absent
      /\ S \subseteq Writes
  <2>1. F \in Roots /\ id \in Ids
    BY DEF Shape
  <2>2. S \subseteq Writes
    BY <2>1, ForgetStepsTyped
  <2>3. QED BY <2>1, <2>2 DEF Guarded
<1>2. step = "closing" => \A f \in Files \ {Forget(id)} : R[f] = Entombed(F, id, f)
  <2> SUFFICES ASSUME step = "closing", NEW f \in Files \ {Forget(id)}
               PROVE  R[f] = Entombed(F, id, f)
    OBVIOUS
  <2>1. Lands(list, f, Entombed(F, id, f), R[f]) /\ Spares(list, f)
    BY DEF Underway, Planned, Targets, Rest, Aim
  <2>2. QED BY <2>1 DEF Lands, Sets, Spares
<1> HIDE DEF F, id, S
<1>3. Less(list, w) \in Seq(SUBSET S) /\ w \in S /\ After(R, w) \in Roots
  BY <1>1, WriteMade
<1>4. w \in Writes
  BY <1>1, <1>3
<1>5. ASSUME step # "closing"
      PROVE  Cut(After(R, w), F, id) /\ After(R, w)[Forget(id)] # Absent
  <2>1. CASE \E r \in Requests : w = Write(Forget(id), r)
    BY <1>1, <1>4, <2>1, CutWrites
  <2>2. CASE step = "purging" /\ ~ \E r \in Requests : w = Write(Forget(id), r)
    <3>1. w \in PurgeWrites(F, id)
      BY <1>3, <2>2 DEF S, ForgetSteps, PurgeSteps
    <3>2. R[Forget(id)] # Absent
      BY <1>1, <2>2
    <3>3. QED BY <1>1, <1>4, <3>1, <3>2, CutWrites
  <2>3. CASE step = "entombing"
    <3>1. w = Write(Tombstone(id), "forgotten")
      BY <1>3, <2>3 DEF S, ForgetSteps
    <3>2. R[Forget(id)] # Absent
      BY <1>1, <2>3
    <3>3. QED BY <1>1, <1>4, <3>1, <3>2, CutWrites
  <2>4. CASE step = "undoing"
    <3>1. w \in UndoSteps(F, id)
      BY <1>3, <2>4 DEF S, ForgetSteps
    <3>2. R[Forget(id)] # Absent
      BY <1>1, <2>4
    <3>3. QED BY <1>1, <1>4, <3>1, <3>2, CutWrites
  <2>5. QED BY <1>5, <2>1, <2>2, <2>3, <2>4 DEF Forgetting
<1>6. ASSUME step = "closing"
      PROVE  Cut(After(R, w), F, id) /\ Marked(After(R, w), id)
  <2>1. w = Write(Forget(id), Absent)
    BY <1>3, <1>6 DEF S, ForgetSteps
  <2>2. QED BY <1>1, <1>2, <1>4, <1>6, <2>1, CutCloses
<1>7. Cut(After(R, w), F, id) /\ Marked(After(R, w), id)
  BY <1>5, <1>6 DEF Marked
<1>8. Grows(R, After(R, w))
  BY <1>1, <1>3, <1>7, CutGrows
<1>9. QED BY <1>3, <1>5, <1>7, <1>8 DEF F, id, S

LEMMA GuardGoesOn ==
  ASSUME NEW step \in Labels, NEW R \in Roots, NEW list \in Plans, list # << >>, NEW w \in Head(list),
         NEW J \in Jobs, Shape(step, J), Underway(step, R, list, J), Guarded(step, R, list, J),
         NEW J2, J2 = IF step \in {"purging", "entombing"}
                        THEN [J EXCEPT !.done = @ \cup {w.file}] ELSE J
  PROVE  Guarded(step, After(R, w), Less(list, w), J2) /\ Grows(R, After(R, w))
<1>1. J2.id = J.id /\ J2.before = J.before
  BY DEF Jobs
<1>2. step # "idle" /\ Sound(J.before)
  BY DEF Underway, Guarded
<1>3. CASE step \in Forgetting
  <2>1. /\ Cut(After(R, w), J.before, J.id) /\ Grows(R, After(R, w))
        /\ Less(list, w) \in Seq(SUBSET ForgetSteps(step, J.before, J.id))
        /\ step # "closing" => After(R, w)[Forget(J.id)] # Absent
    BY <1>3, ForgetGoesOn
  <2>2. QED BY ONLY <1>1, <1>2, <1>3, <2>1 DEF Guarded, Forgetting
<1>4. CASE step \in {"restoring", "reverting"}
  <2>1. J.before \in Roots /\ Keeps(R, J.before) /\ list \in Seq(SUBSET RestoreSteps(J.before))
    BY <1>4 DEF Shape, Guarded
  <2>2. RestoreSteps(J.before) \subseteq Writes
    BY DEF RestoreSteps
  <2>3. Less(list, w) \in Seq(SUBSET RestoreSteps(J.before)) /\ w \in RestoreSteps(J.before)
    BY <2>1, <2>2, WriteMade
  <2>4. Keeps(After(R, w), J.before) /\ Grows(R, After(R, w))
    BY <2>1, <2>3, KeepsOn
  <2>5. QED BY ONLY <1>1, <1>2, <1>4, <2>3, <2>4 DEF Guarded, Forgetting
<1>5. QED BY <1>2, <1>3, <1>4 DEF Labels, Forgetting

LEMMA NoBatches == Reverse(Batches({})) = << >>
<1>1. \A d : {w \in {} : w.file[1] \in d} = {}
  OBVIOUS
<1>2. Group({}) = << >>
  BY DEF Group
<1>3. << >> \o << >> = << >>
  OBVIOUS
<1>4. Batches({}) = << >>
  BY <1>1, <1>2, <1>3 DEF Batches
<1>5. Reverse(<< >>) = << >>
  BY DEF Reverse
<1>6. QED BY <1>4, <1>5

LEMMA GuardsForget ==
  ASSUME NEW F \in Roots, Sound(F), NEW id \in Ids, NEW r \in Requests,
         NEW list, list = (IF F[Forget(id)] = Absent THEN <<{Write(Forget(id), r)}>> ELSE << >>)
                            \o Batches(PurgeWrites(F, id)),
         NEW J, J = [NoJob EXCEPT !.id = id, !.before = F]
  PROVE  Guarded("purging", F, list, J)
<1>1. J.id = id /\ J.before = F /\ J.done = {}
  BY DEF NoJob
<1>2. /\ list \in Seq(SUBSET PurgeSteps(F, id))
      /\ F[Forget(id)] # Absent \/ (list # << >> /\ Head(list) = {Write(Forget(id), r)})
  BY StartsPurge
<1>3. Cut(F, F, id)
  BY DEF Cut
<1>4. ForgetSteps("purging", F, id) = PurgeSteps(F, id)
  BY DEF ForgetSteps
<1>5. QED BY ONLY <1>1, <1>2, <1>3, <1>4, Sound(F), r \in Requests DEF Guarded, Forgetting

LEMMA GuardsTomb ==
  ASSUME NEW R \in Roots, NEW J \in Jobs, Guarded("purging", R, << >>, J),
         NEW list, list = <<{Write(Tombstone(J.id), "forgotten")}>>
  PROVE  Guarded("entombing", R, list, J)
<1> DEFINE w == Write(Tombstone(J.id), "forgotten")
<1>1. w \in ForgetSteps("entombing", J.before, J.id) /\ list = <<{w}>>
  BY DEF ForgetSteps
<1> HIDE DEF w
<1>2. list \in Seq(SUBSET ForgetSteps("entombing", J.before, J.id))
  BY <1>1, OneOf
<1>3. Sound(J.before) /\ Cut(R, J.before, J.id) /\ R[Forget(J.id)] # Absent
  BY DEF Guarded, Forgetting
<1>4. QED BY ONLY <1>2, <1>3 DEF Guarded, Forgetting

LEMMA GuardsClose ==
  ASSUME NEW R \in Roots, NEW J \in Jobs, Guarded("entombing", R, << >>, J),
         NEW list, list = <<{Write(Forget(J.id), Absent)}>>
  PROVE  Guarded("closing", R, list, J)
<1> DEFINE w == Write(Forget(J.id), Absent)
<1>1. w \in ForgetSteps("closing", J.before, J.id) /\ list = <<{w}>>
  BY DEF ForgetSteps
<1> HIDE DEF w
<1>2. list \in Seq(SUBSET ForgetSteps("closing", J.before, J.id))
  BY <1>1, OneOf
<1>3. Sound(J.before) /\ Cut(R, J.before, J.id)
  BY DEF Guarded, Forgetting
<1>4. QED BY ONLY <1>2, <1>3 DEF Guarded, Forgetting

LEMMA GuardsUndo ==
  ASSUME NEW R \in Roots, NEW J \in Jobs, NEW step \in {"purging", "entombing"}, Shape(step, J),
         NEW before, Underway(step, R, before, J), Guarded(step, R, before, J),
         NEW list, list = Reverse(Batches({Write(f, J.before[f]) : f \in J.done \ {Forget(J.id)}}))
  PROVE  Guarded("undoing", R, list, J)
<1>1. J.id \in Ids /\ J.before \in Roots /\ J.done \in SUBSET Files
  BY InJob DEF Shape, Forgetting
<1>2. \A f \in Files \ {Forget(J.id)} : f \notin J.done => R[f] = J.before[f]
  BY DEF Underway, Rest
<1> DEFINE F == J.before
           id == J.id
           D == J.done
<1>3. F \in Roots /\ id \in Ids /\ D \in SUBSET Files /\ \A f \in Files \ {Forget(id)} : f \notin D => R[f] = F[f]
  BY <1>1, <1>2
<1>4. list = Reverse(Batches({Write(f, F[f]) : f \in D \ {Forget(id)}}))
  OBVIOUS
<1> HIDE DEF F, id, D
<1>5. list \in Seq(SUBSET UndoSteps(F, id))
  BY <1>3, <1>4, StartsUndo
<1>6. D = {} => list = << >>
  <2>1. D = {} => {Write(f, F[f]) : f \in D \ {Forget(id)}} = {}
    OBVIOUS
  <2>2. QED BY <1>4, <2>1, NoBatches
<1>7. R[Forget(id)] # Absent \/ D = {}
  BY DEF Guarded, id, D
<1>8. Sound(F) /\ Cut(R, F, id)
  BY DEF Guarded, Forgetting, F, id
<1>9. ForgetSteps("undoing", F, id) = UndoSteps(F, id)
  BY DEF ForgetSteps
<1>10. QED BY ONLY <1>5, <1>6, <1>7, <1>8, <1>9 DEF Guarded, Forgetting, F, id

LEMMA GuardsRestore ==
  ASSUME NEW F \in Roots, Sound(F), NEW a \in ArchiveSet, \A id \in Ids : Marked(a, id) => Marked(F, id),
         NEW J, J = [NoJob EXCEPT !.archive = a, !.before = F]
  PROVE  Guarded("restoring", F, RestoreWrites(F, a), J)
<1>1. J.before = F
  BY DEF NoJob
<1>2. Allows(RestoreSteps(F), F, a)
  BY RestoreAllowed
<1>3. RestoreSteps(F) \subseteq Writes
  BY DEF RestoreSteps
<1> DEFINE S == RestoreSteps(F)
<1> HIDE DEF S
<1>4. Allows(S, F, a) /\ S \subseteq Writes
  BY <1>2, <1>3 DEF S
<1>5. RestoreWrites(F, a) \in Seq(SUBSET S)
  BY <1>4, StartsRestore
<1>6. Keeps(F, F)
  BY KeepsItself
<1>7. RestoreWrites(F, a) \in Seq(SUBSET RestoreSteps(F))
  BY <1>5 DEF S
<1>8. QED BY ONLY <1>1, <1>6, <1>7, Sound(F) DEF Guarded, Forgetting

LEMMA GuardsRevert ==
  ASSUME NEW R \in Roots, NEW J \in Jobs, Shape("restoring", J), NEW before, Guarded("restoring", R, before, J),
         NEW list, list = Clearing(R) \o Batches({Write(f, J.before[f]) :
                                          f \in {f \in Replaceable : J.before[f] # Absent}})
  PROVE  Guarded("reverting", R, list, J)
<1> DEFINE F == J.before
<1>1. F \in Roots /\ Sound(F) /\ Keeps(R, F)
  BY DEF Shape, Guarded
<1>2. list = Clearing(R) \o Batches({Write(f, F[f]) : f \in {f \in Replaceable : F[f] # Absent}})
  OBVIOUS
<1> HIDE DEF F
<1> DEFINE S == RestoreSteps(F)
<1>3. \A f \in Replaceable : Write(f, Absent) \in S /\ Write(f, F[f]) \in S
  BY <1>1, RevertAllowed
<1> HIDE DEF S
<1>4. list \in Seq(SUBSET S)
  BY <1>1, <1>2, <1>3, RevertTyped
<1>5. list \in Seq(SUBSET RestoreSteps(F))
  BY <1>4 DEF S
<1>6. QED BY ONLY <1>1, <1>5 DEF Guarded, Forgetting, F

\* Tombstones and journals are as they were.
SameMarks(F, R) ==
  \A id \in Ids : R[Tombstone(id)] = F[Tombstone(id)] /\ R[Forget(id)] = F[Forget(id)]

LEMMA SameMarksGrow ==
  ASSUME NEW F, NEW R, SameMarks(F, R)
  PROVE  Grows(F, R)
BY DEF SameMarks, Grows, Marked

\* A recovery puts back nothing that was forgotten, and leaves nothing pending.
LEMMA SoundRecovered ==
  ASSUME NEW F \in Roots, Sound(F)
  PROVE  /\ Sound(Recovered(F)) /\ SameMarks(F, Recovered(F))
         /\ \A s \in Sources : Recovered(F)[Queue(s)] = Absent
<1> DEFINE R == Recovered(F)
<1>1. CASE R = F /\ \A s \in Sources : F[Queue(s)] = Absent
  BY <1>1 DEF SameMarks
<1>2. ASSUME NEW s \in Sources, F[Queue(s)] \in Pending, F[Queue(s)] # Absent,
             \A f \in Files : R[f] =
               IF f = Undo(F[Queue(s)].source) \/ f = Queue(F[Queue(s)].source) THEN Absent
               ELSE IF Committed(F, F[Queue(s)]) THEN F[f] ELSE RolledBack(F, F[Queue(s)])[f]
      PROVE  /\ Sound(R) /\ SameMarks(F, R)
             /\ \A t \in Sources : R[Queue(t)] = Absent
  <2> DEFINE j == F[Queue(s)]
             B == RolledBack(F, j)
  <2>1. /\ j \in Pending /\ j.source = s /\ j.object \in Ids /\ j.existed \in BOOLEAN
        /\ (j.existed /\ F[Undo(s)] # Absent => F[Undo(s)].object = j.object)
        /\ \A t \in Sources : t # s => F[Queue(t)] = Absent
    BY <1>2 DEF Sound, OnePending, Pending
  <2>2. /\ B[Memory(j.object)] \in {Absent, F[Memory(j.object)]}
             \/ (j.existed /\ F[Undo(s)] # Absent)
        /\ \A f \in Files : f # Memory(j.object) /\ f # Events /\ f # SourceKeys => B[f] = F[f]
    BY <2>1, RolledBackIs
  <2> HIDE DEF B
  <2>3. \A f \in Files : /\ f \in {Undo(s), Queue(s)} => R[f] = Absent
                         /\ f \notin {Undo(s), Queue(s)} => R[f] \in {F[f], B[f]}
    BY <1>2, <2>1 DEF B
  <2> HIDE DEF j, R
  <2>4. ASSUME NEW f \in Files, f[1] \in {"backup", "zip", "tombstone", "forget", "queue"}
        PROVE  B[f] = F[f]
    <3>1. f # Memory(j.object) /\ f # Events /\ f # SourceKeys
      BY <2>4 DEF Memory, Events, SourceKeys
    <3>2. QED BY <2>2, <3>1
  <2>5. ASSUME NEW f \in Files, f[1] \in {"zip", "tombstone", "forget"}
        PROVE  R[f] = F[f]
    <3>1. f \notin {Undo(s), Queue(s)}
      BY <2>5 DEF Undo, Queue
    <3>2. QED BY <2>3, <2>4, <2>5, <3>1
  <2>6. SameMarks(F, R)
    BY <2>5, Named DEF SameMarks
  <2>7. \A z \in Slots : R[Archive(z)] = F[Archive(z)]
    BY <2>5, Named
  <2>8. ASSUME NEW t \in Sources
        PROVE  R[Queue(t)] = Absent /\ R[Undo(t)] \in {F[Undo(t)], Absent}
    <3>1. /\ Queue(t) \in Files /\ Queue(t)[1] = "queue" /\ Undo(t) \in Files /\ Undo(t)[1] = "backup"
          /\ t # s => Queue(t) # Queue(s) /\ Undo(t) # Undo(s)
          /\ Queue(t) # Undo(s) /\ Undo(t) # Queue(s)
      BY Named DEF Queue, Undo
    <3>2. B[Queue(t)] = F[Queue(t)] /\ B[Undo(t)] = F[Undo(t)]
      BY <2>4, <3>1
    <3>3. QED BY <2>1, <2>3, <3>1, <3>2
  <2>9. ASSUME NEW b \in Ids, F[Memory(b)] = Absent, R[Memory(b)] # Absent
        PROVE  F[Undo(s)] # Absent /\ F[Undo(s)].object = b
    <3>1. Memory(b) \in Files /\ Memory(b) \notin {Undo(s), Queue(s)}
      BY Named DEF Memory, Undo, Queue
    <3>2. B[Memory(b)] # F[Memory(b)]
      BY <2>3, <2>9, <3>1
    <3>3. Memory(b) # Events /\ Memory(b) # SourceKeys
      BY DEF Memory, Events, SourceKeys
    <3>4. Memory(b) = Memory(j.object)
      BY <2>2, <3>1, <3>2, <3>3
    <3>5. b = j.object
      BY <3>4 DEF Memory
    <3>6. QED BY <2>1, <2>2, <2>9, <3>2, <3>5
  <2>10. AllGone(R)
    <3> SUFFICES ASSUME NEW b \in Ids, R[Tombstone(b)] # Absent, R[Forget(b)] = Absent
                 PROVE  Gone(R, b)
      BY DEF AllGone
    <3>1. Gone(F, b)
      BY <2>6 DEF SameMarks, Sound, AllGone
    <3>2. R[Memory(b)] = Absent
      BY <2>9, <3>1 DEF Gone
    <3>3. QED BY <2>7, <2>8, <3>1, <3>2 DEF Gone
  <2>11. ZipsAreBehind(R)
    BY <2>6, <2>7 DEF ZipsAreBehind, Sound, SameMarks, Marked
  <2>12. OnePending(R)
    BY <2>8 DEF OnePending
  <2>13. QED BY <2>6, <2>8, <2>10, <2>11, <2>12 DEF Sound
<1>3. QED BY <1>1, <1>2, RecoveredIs

\* A mutation of what is not forgotten, or whose forgetting is under way.
LEMMA SoundMutated ==
  ASSUME NEW F \in Roots, Sound(F), \A t \in Sources : F[Queue(t)] = Absent,
         NEW id \in Ids, NEW s \in Sources, NEW some \in Seq(Writes),
         \A i \in DOMAIN some : Mutates(some[i], id, s, F[Memory(id)] # Absent),
         F[Memory(id)] # Absent => 1 \in DOMAIN some /\ some[1].file = Undo(s),
         F[Tombstone(id)] = Absent \/ F[Forget(id)] # Absent
  PROVE  Sound(Written(F, some)) /\ SameMarks(F, Written(F, some))
<1> DEFINE G == Written(F, some)
<1>1. ASSUME NEW f \in Files
      PROVE  \/ G[f] = F[f] /\ \A i \in DOMAIN some : some[i].file # f
             \/ \E i \in DOMAIN some : some[i].file = f /\ G[f] = some[i].value
  BY WrittenIs
<1> HIDE DEF G
<1>2. ASSUME NEW f \in Files, f \notin {Undo(s), Queue(s), Memory(id), Events, SourceKeys}
      PROVE  G[f] = F[f]
  BY <1>1, <1>2 DEF Mutates
<1>3. \/ G[Undo(s)] = F[Undo(s)] /\ F[Memory(id)] = Absent
      \/ G[Undo(s)] = Absent
      \/ G[Undo(s)].object = id
  <2>1. Undo(s) \in Files
    BY Named
  <2>2. QED BY <1>1, <2>1 DEF Mutates
<1>4. \/ G[Queue(s)] = Absent
      \/ /\ G[Queue(s)].object = id /\ G[Queue(s)].source = s
         /\ G[Queue(s)].existed => F[Memory(id)] # Absent
  <2>1. Queue(s) \in Files
    BY Named
  <2>2. QED BY <1>1, <2>1 DEF Mutates
<1>5. ASSUME NEW b \in Ids
      PROVE  /\ G[Tombstone(b)] = F[Tombstone(b)] /\ G[Forget(b)] = F[Forget(b)]
             /\ b # id => G[Memory(b)] = F[Memory(b)]
  <2>1. /\ Tombstone(b) \in Files /\ Forget(b) \in Files /\ Memory(b) \in Files
        /\ Tombstone(b) \notin {Undo(s), Queue(s), Memory(id), Events, SourceKeys}
        /\ Forget(b) \notin {Undo(s), Queue(s), Memory(id), Events, SourceKeys}
        /\ b # id => Memory(b) \notin {Undo(s), Queue(s), Memory(id), Events, SourceKeys}
    BY Named DEF Tombstone, Forget, Memory, Undo, Queue, Events, SourceKeys
  <2>2. QED BY <1>2, <2>1
<1>6. ASSUME NEW z \in Slots
      PROVE  G[Archive(z)] = F[Archive(z)]
  <2>1. Archive(z) \in Files /\ Archive(z) \notin {Undo(s), Queue(s), Memory(id), Events, SourceKeys}
    BY Named DEF Archive, Memory, Undo, Queue, Events, SourceKeys
  <2>2. QED BY <1>2, <2>1
<1>7. ASSUME NEW t \in Sources, t # s
      PROVE  G[Undo(t)] = F[Undo(t)] /\ G[Queue(t)] = Absent
  <2>1. /\ Undo(t) \in Files /\ Undo(t) \notin {Undo(s), Queue(s), Memory(id), Events, SourceKeys}
        /\ Queue(t) \in Files /\ Queue(t) \notin {Undo(s), Queue(s), Memory(id), Events, SourceKeys}
    BY <1>7, Named DEF Memory, Undo, Queue, Events, SourceKeys
  <2>2. QED BY <1>2, <2>1
<1>8. SameMarks(F, G)
  BY <1>5 DEF SameMarks
<1>9. AllGone(G)
  <2> SUFFICES ASSUME NEW b \in Ids, G[Tombstone(b)] # Absent, G[Forget(b)] = Absent
               PROVE  Gone(G, b)
    BY DEF AllGone
  <2>1. b # id /\ Gone(F, b)
    BY <1>5 DEF Sound, AllGone
  <2>2. QED BY <1>3, <1>5, <1>6, <1>7, <2>1 DEF Gone
<1>10. OnePending(G)
  BY <1>3, <1>4, <1>7 DEF OnePending
<1>11. ZipsAreBehind(G)
  BY <1>6, <1>8 DEF ZipsAreBehind, Sound, SameMarks, Marked
<1>12. QED BY <1>8, <1>9, <1>10, <1>11 DEF Sound, G

LEMMA SoundBackup ==
  ASSUME NEW F \in Roots, Sound(F), NEW z \in Slots, F[Archive(z)] = Absent,
         NEW a, a = [f \in Archived |-> F[f]]
  PROVE  Sound(Set(F, Archive(z), a)) /\ SameMarks(F, Set(F, Archive(z), a))
<1> DEFINE R == Set(F, Archive(z), a)
<1>1. DOMAIN F = Files /\ Archive(z) \in Files
  BY InRoot, Named
<1>2. R[Archive(z)] = a /\ \A f \in Files : f # Archive(z) => R[f] = F[f]
  BY <1>1 DEF Set
<1> HIDE DEF R
<1>3. ASSUME NEW b \in Ids
      PROVE  /\ R[Tombstone(b)] = F[Tombstone(b)] /\ R[Forget(b)] = F[Forget(b)]
             /\ R[Memory(b)] = F[Memory(b)]
             /\ a[Tombstone(b)] = F[Tombstone(b)] /\ a[Forget(b)] = F[Forget(b)]
             /\ a[Memory(b)] = F[Memory(b)]
  <2>1. /\ Tombstone(b) \in Files /\ Forget(b) \in Files /\ Memory(b) \in Files
        /\ Tombstone(b) # Archive(z) /\ Forget(b) # Archive(z) /\ Memory(b) # Archive(z)
    BY Named DEF Tombstone, Forget, Memory, Archive
  <2>2. QED BY <1>2, <2>1, InArchive
<1>4. ASSUME NEW t \in Sources
      PROVE  R[Undo(t)] = F[Undo(t)] /\ R[Queue(t)] = F[Queue(t)]
  <2>1. /\ Undo(t) \in Files /\ Queue(t) \in Files
        /\ Undo(t) # Archive(z) /\ Queue(t) # Archive(z)
    BY Named DEF Undo, Queue, Archive
  <2>2. QED BY <1>2, <2>1
<1>5. ASSUME NEW y \in Slots
      PROVE  R[Archive(y)] = a \/ R[Archive(y)] = F[Archive(y)]
  BY <1>2, Named
<1>6. SameMarks(F, R)
  BY <1>3 DEF SameMarks
<1>7. AllGone(R)
  <2> SUFFICES ASSUME NEW b \in Ids, R[Tombstone(b)] # Absent, R[Forget(b)] = Absent
               PROVE  Gone(R, b)
    BY DEF AllGone
  <2>1. Gone(F, b)
    BY <1>3 DEF Sound, AllGone
  <2>2. QED BY <1>3, <1>4, <1>5, <2>1 DEF Gone
<1>8. OnePending(R)
  BY <1>4 DEF OnePending, Sound
<1>9. ZipsAreBehind(R)
  <2> SUFFICES ASSUME NEW y \in Slots, R[Archive(y)] # Absent, NEW b \in Ids, Marked(R[Archive(y)], b)
               PROVE  Marked(R, b)
    BY DEF ZipsAreBehind
  <2>1. CASE R[Archive(y)] = a
    BY <1>3, <2>1 DEF Marked
  <2>2. CASE R[Archive(y)] = F[Archive(y)]
    BY <1>3, <2>2 DEF Sound, ZipsAreBehind, Marked
  <2>3. QED BY <1>5, <2>1, <2>2
<1>10. QED BY <1>6, <1>7, <1>8, <1>9 DEF Sound, R

LEMMA SoundCatalog ==
  ASSUME NEW F \in Roots, Sound(F), NEW v
  PROVE  Sound(Set(F, Catalog, v)) /\ SameMarks(F, Set(F, Catalog, v))
<1> DEFINE R == Set(F, Catalog, v)
<1>1. \A f \in Files : f # Catalog => R[f] = F[f]
  BY InRoot DEF Set
<1> HIDE DEF R
<1>2. /\ \A b \in Ids : /\ R[Tombstone(b)] = F[Tombstone(b)] /\ R[Forget(b)] = F[Forget(b)]
                        /\ R[Memory(b)] = F[Memory(b)]
      /\ \A t \in Sources : R[Undo(t)] = F[Undo(t)] /\ R[Queue(t)] = F[Queue(t)]
      /\ \A z \in Slots : R[Archive(z)] = F[Archive(z)]
  BY <1>1, Named
<1>3. AllGone(R)
  BY <1>2 DEF Sound, AllGone, Gone
<1>4. OnePending(R)
  BY <1>2 DEF Sound, OnePending
<1>5. ZipsAreBehind(R)
  BY <1>2 DEF Sound, ZipsAreBehind, Marked
<1>6. SameMarks(F, R)
  BY <1>2 DEF SameMarks
<1>7. QED BY <1>3, <1>4, <1>5, <1>6 DEF Sound, R

\* An archive the user has kept knows of no forget that the root does not know of.
SafeInv ==
  /\ Guarded(pc, root, todo, job)
  /\ outside # Absent => \A id \in Ids : Marked(outside, id) => Marked(root, id)

LEMMA RootSound ==
  ASSUME PlanInv, SafeInv
  PROVE  Sound(root)
<1>1. pc \in Labels /\ root \in Roots /\ job \in Jobs /\ Shape(pc, job) /\ Guarded(pc, root, todo, job)
  BY DEF PlanInv, TypeInv, SafeInv
<1>2. QED BY ONLY <1>1, AllSound

LEMMA IdleGuarded ==
  ASSUME NEW R, Sound(R), NEW list, NEW J
  PROVE  Guarded("idle", R, list, J)
BY DEF Guarded, Forgetting

LEMMA SafeCall ==
  ASSUME SafeInv, outside' = outside, Grows(root, root'), Guarded(pc', root', todo', job')
  PROVE  SafeInv'
<1>1. outside' # Absent => \A id \in Ids : Marked(outside', id) => Marked(root', id)
  BY DEF SafeInv, Grows
<1>2. QED BY <1>1 DEF SafeInv

LEMMA SafeIdle ==
  ASSUME SafeInv, pc = "idle", UNCHANGED <<outside, pc, todo, job>>, Sound(root'), SameMarks(root, root')
  PROVE  SafeInv'
<1>1. Guarded("idle", root', todo', job')
  BY IdleGuarded
<1>2. Grows(root, root')
  BY SameMarksGrow
<1>3. Guarded(pc', root', todo', job')
  BY <1>1
<1>4. QED BY <1>2, <1>3, SafeCall

LEMMA GrowsItself == \A R : Grows(R, R)
BY DEF Grows

LEMMA MutateSafe ==
  ASSUME PlanInv, SafeInv, NEW id \in Ids, NEW s \in Sources, NEW n \in Nat, n # 0,
         n <= MutationLength(id, s), MutateUpTo(id, s, n), MayMutate(id), ~Recreate
  PROVE  SafeInv'
<1>1. root \in Roots /\ Sound(root)
  BY RootSound DEF PlanInv, TypeInv
<1> DEFINE F == Recovered(root)
           some == SubSeq(MutationWrites(F, id, s), 1, n)
<1>2. F \in Roots /\ Sound(F) /\ SameMarks(root, F) /\ \A t \in Sources : F[Queue(t)] = Absent
  BY <1>1, RecoveredTyped, SoundRecovered
<1>3. n <= Len(MutationWrites(F, id, s))
  BY DEF MutationLength
<1>4. root' = Written(F, some) /\ pc = "idle" /\ UNCHANGED <<outside, pc, todo, job>>
  BY DEF MutateUpTo
<1> HIDE DEF F
<1>5. /\ some \in Seq(Writes)
      /\ \A i \in DOMAIN some : Mutates(some[i], id, s, F[Memory(id)] # Absent)
      /\ F[Memory(id)] # Absent => 1 \in DOMAIN some /\ some[1].file = Undo(s)
  BY <1>2, <1>3, MutationIs
<1> HIDE DEF some
<1>6. F[Tombstone(id)] = Absent \/ F[Forget(id)] # Absent
  <2>1. root[Tombstone(id)] = Absent \/ root[Forget(id)] # Absent
    BY <1>1 DEF MayMutate, Sound, AllGone, Gone
  <2>2. QED BY <1>2, <2>1 DEF SameMarks
<1>7. Sound(Written(F, some)) /\ SameMarks(F, Written(F, some))
  BY <1>2, <1>5, <1>6, SoundMutated
<1>8. SameMarks(root, root') /\ Sound(root')
  BY <1>2, <1>4, <1>7 DEF SameMarks
<1>9. QED BY <1>4, <1>8, SafeIdle

LEMMA BackupSafe ==
  ASSUME PlanInv, SafeInv, NEW z \in Slots, Backup(z)
  PROVE  SafeInv'
<1>1. root \in Roots /\ Sound(root)
  BY RootSound DEF PlanInv, TypeInv
<1> DEFINE a == [f \in Archived |-> root[f]]
<1>2. /\ root' = Set(root, Archive(z), a) /\ root[Archive(z)] = Absent
      /\ pc = "idle" /\ UNCHANGED <<outside, pc, todo, job>>
  BY DEF Backup, Set
<1>3. Sound(Set(root, Archive(z), a)) /\ SameMarks(root, Set(root, Archive(z), a))
  BY <1>1, <1>2, SoundBackup
<1>4. QED BY <1>2, <1>3, SafeIdle

LEMMA CatalogSafe ==
  ASSUME PlanInv, SafeInv, RebuildCatalog
  PROVE  SafeInv'
<1>1. root \in Roots /\ Sound(root)
  BY RootSound DEF PlanInv, TypeInv
<1>2. root' = Set(root, Catalog, CardsOf(root)) /\ pc = "idle" /\ UNCHANGED <<outside, pc, todo, job>>
  BY DEF RebuildCatalog, Set
<1>3. Sound(root') /\ SameMarks(root, root')
  BY <1>1, <1>2, SoundCatalog
<1>4. QED BY <1>2, <1>3, SafeIdle

LEMMA RecoverSafe ==
  ASSUME PlanInv, SafeInv, Recover
  PROVE  SafeInv'
<1>1. root \in Roots /\ Sound(root)
  BY RootSound DEF PlanInv, TypeInv
<1>2. root' = Recovered(root) /\ pc = "idle" /\ UNCHANGED <<outside, pc, todo, job>>
  BY DEF Recover
<1>3. Sound(root') /\ SameMarks(root, root')
  BY <1>1, <1>2, SoundRecovered
<1>4. QED BY <1>2, <1>3, SafeIdle

LEMMA ExportSafe ==
  ASSUME PlanInv, SafeInv, NEW z \in Slots, Export(z)
  PROVE  SafeInv'
<1>1. UNCHANGED <<root, pc, todo, job>> /\ outside' = root[Archive(z)] /\ root[Archive(z)] # Absent
  BY DEF Export
<1>2. \A id \in Ids : Marked(root[Archive(z)], id) => Marked(root, id)
  BY <1>1, RootSound DEF Sound, ZipsAreBehind
<1>3. Guarded(pc', root', todo', job')
  BY <1>1 DEF SafeInv
<1>4. \A id \in Ids : Marked(outside', id) => Marked(root', id)
  BY <1>1, <1>2
<1>5. QED BY <1>3, <1>4 DEF SafeInv

LEMMA ReturnSafe ==
  ASSUME PlanInv, SafeInv, Return
  PROVE  SafeInv'
<1>1. pc' = "idle" /\ todo' = << >> /\ job' = NoJob /\ UNCHANGED <<root, outside>>
  BY DEF Return
<1>2. Sound(root')
  BY <1>1, RootSound
<1>3. Guarded("idle", root', todo', job')
  BY <1>2, IdleGuarded
<1>4. Guarded(pc', root', todo', job') /\ Grows(root, root')
  BY <1>1, <1>3, GrowsItself
<1>5. QED BY <1>1, <1>4, SafeCall

LEMMA WriteSafe ==
  ASSUME PlanInv, SafeInv, WriteNext
  PROVE  SafeInv'
<1>1. /\ root \in Roots /\ todo \in Plans /\ job \in Jobs /\ pc \in Labels
      /\ Shape(pc, job) /\ Underway(pc, root, todo, job) /\ Guarded(pc, root, todo, job)
  BY DEF PlanInv, TypeInv, SafeInv
<1>2. todo # << >> /\ UNCHANGED <<outside, pc>>
  BY DEF WriteNext
<1>3. PICK w \in Head(todo) :
        /\ root' = [root EXCEPT ![w.file] = w.value]
        /\ todo' = IF Head(todo) = {w} THEN Tail(todo) ELSE <<Head(todo) \ {w}>> \o Tail(todo)
        /\ job' = IF pc \in {"purging", "entombing"}
                    THEN [job EXCEPT !.done = @ \cup {w.file}] ELSE job
  BY DEF WriteNext
<1>4. root' = After(root, w) /\ todo' = Less(todo, w)
  BY <1>3 DEF After, Set, Less
<1>5. Guarded(pc, After(root, w), Less(todo, w), job') /\ Grows(root, After(root, w))
  <2> DEFINE J2 == job'
  <2>1. J2 = IF pc \in {"purging", "entombing"} THEN [job EXCEPT !.done = @ \cup {w.file}] ELSE job
    BY <1>3
  <2> HIDE DEF J2
  <2>2. Guarded(pc, After(root, w), Less(todo, w), J2) /\ Grows(root, After(root, w))
    BY ONLY <1>1, <1>2, <2>1, GuardGoesOn
  <2>3. QED BY <2>2 DEF J2
<1>6. Guarded(pc', root', todo', job') /\ Grows(root, root')
  BY <1>2, <1>4, <1>5
<1>7. QED BY <1>2, <1>6, SafeCall

LEMMA StartForgetSafe ==
  ASSUME PlanInv, SafeInv, NEW id \in Ids, NEW r \in Requests, StartForget(id, r)
  PROVE  SafeInv'
<1>1. root \in Roots /\ Sound(root)
  BY RootSound DEF PlanInv, TypeInv
<1>2. /\ pc' = "purging" /\ UNCHANGED <<root, outside>>
      /\ todo' = (IF root[Forget(id)] = Absent THEN <<{Write(Forget(id), r)}>> ELSE << >>)
                   \o Batches(PurgeWrites(root, id))
      /\ job' = [NoJob EXCEPT !.id = id, !.before = root]
  BY DEF StartForget
<1>3. Guarded("purging", root, todo', job')
  <2> DEFINE J == job'
             list == todo'
  <2>1. /\ list = (IF root[Forget(id)] = Absent THEN <<{Write(Forget(id), r)}>> ELSE << >>)
                     \o Batches(PurgeWrites(root, id))
        /\ J = [NoJob EXCEPT !.id = id, !.before = root]
    BY <1>2
  <2> HIDE DEF J, list
  <2>2. Guarded("purging", root, list, J)
    BY <1>1, <2>1, GuardsForget
  <2>3. QED BY <2>2 DEF J, list
<1>4. Guarded(pc', root', todo', job') /\ Grows(root, root')
  BY <1>2, <1>3, GrowsItself
<1>5. QED BY <1>2, <1>4, SafeCall

LEMMA RollBackSafe ==
  ASSUME PlanInv, SafeInv, pc \in {"purging", "entombing"}, RollBack
  PROVE  SafeInv'
<1>1. /\ root \in Roots /\ job \in Jobs
      /\ Shape(pc, job) /\ Underway(pc, root, todo, job) /\ Guarded(pc, root, todo, job)
  BY DEF PlanInv, TypeInv, SafeInv
<1>2. /\ pc' = "undoing" /\ UNCHANGED <<root, outside, job>>
      /\ todo' = Reverse(Batches({Write(f, job.before[f]) : f \in job.done \ {Forget(job.id)}}))
  BY DEF RollBack, UndoWrites, Applied
<1>3. Guarded("undoing", root, todo', job)
  <2> DEFINE list == todo'
  <2>1. list = Reverse(Batches({Write(f, job.before[f]) : f \in job.done \ {Forget(job.id)}}))
    BY <1>2
  <2> HIDE DEF list
  <2>2. Guarded("undoing", root, list, job)
    BY <1>1, <2>1, GuardsUndo
  <2>3. QED BY <2>2 DEF list
<1>4. Guarded(pc', root', todo', job') /\ Grows(root, root')
  BY <1>2, <1>3, GrowsItself
<1>5. QED BY <1>2, <1>4, SafeCall

LEMMA VerifySafe ==
  ASSUME PlanInv, SafeInv, Verify
  PROVE  SafeInv'
<1>1. CASE Leaks(job.id)
  BY <1>1, RollBackSafe DEF Verify
<1>2. CASE ~Leaks(job.id)
  <2>1. root \in Roots /\ job \in Jobs /\ Guarded(pc, root, todo, job)
    BY DEF PlanInv, TypeInv, SafeInv
  <2>2. /\ pc = "purging" /\ todo = << >> /\ pc' = "entombing" /\ UNCHANGED <<root, outside, job>>
        /\ todo' = <<{Write(Tombstone(job.id), "forgotten")}>>
    BY <1>2 DEF Verify
  <2>3. Guarded("entombing", root, todo', job)
    <3> DEFINE list == todo'
    <3>1. list = <<{Write(Tombstone(job.id), "forgotten")}>>
      BY <2>2
    <3> HIDE DEF list
    <3>2. Guarded("entombing", root, list, job)
      BY <2>1, <2>2, <3>1, GuardsTomb
    <3>3. QED BY <3>2 DEF list
  <2>4. Guarded(pc', root', todo', job') /\ Grows(root, root')
    BY <2>2, <2>3, GrowsItself
  <2>5. QED BY <2>2, <2>4, SafeCall
<1>3. QED BY <1>1, <1>2

LEMMA DropSafe ==
  ASSUME PlanInv, SafeInv, DropJournal
  PROVE  SafeInv'
<1>1. root \in Roots /\ job \in Jobs /\ Guarded(pc, root, todo, job)
  BY DEF PlanInv, TypeInv, SafeInv
<1>2. /\ pc = "entombing" /\ todo = << >> /\ pc' = "closing" /\ UNCHANGED <<root, outside, job>>
      /\ todo' = <<{Write(Forget(job.id), Absent)}>>
  BY DEF DropJournal
<1>3. Guarded("closing", root, todo', job)
  <2> DEFINE list == todo'
  <2>1. list = <<{Write(Forget(job.id), Absent)}>>
    BY <1>2
  <2> HIDE DEF list
  <2>2. Guarded("closing", root, list, job)
    BY <1>1, <1>2, <2>1, GuardsClose
  <2>3. QED BY <2>2 DEF list
<1>4. Guarded(pc', root', todo', job') /\ Grows(root, root')
  BY <1>2, <1>3, GrowsItself
<1>5. QED BY <1>2, <1>4, SafeCall

\* A file that cannot be put back is passed over.
LEMMA GuardSkips ==
  ASSUME NEW R \in Roots, NEW list \in Plans, list # << >>, NEW w \in Head(list),
         NEW J \in Jobs, Guarded("undoing", R, list, J),
         NEW J2, J2 = [J EXCEPT !.clean = FALSE]
  PROVE  Guarded("undoing", R, Less(list, w), J2)
<1>1. J2.id = J.id /\ J2.before = J.before
  BY DEF Jobs
<1> DEFINE S == ForgetSteps("undoing", J.before, J.id)
<1>2. Sound(J.before) /\ Cut(R, J.before, J.id) /\ R[Forget(J.id)] # Absent /\ list \in Seq(SUBSET S)
  BY DEF Guarded, Forgetting
<1> HIDE DEF S
<1>3. Less(list, w) \in Seq(SUBSET S)
  BY <1>2, LessIs
<1>4. QED BY ONLY <1>1, <1>2, <1>3 DEF Guarded, Forgetting, S

LEMMA ForgetFailsSafe ==
  ASSUME PlanInv, SafeInv, ForgetFails
  PROVE  SafeInv'
<1>1. CASE pc \in {"purging", "entombing"} /\ RollBack
  BY <1>1, RollBackSafe
<1>2. CASE Return
  BY <1>2, ReturnSafe
<1>3. ASSUME pc = "undoing", NEW w \in Head(todo),
             todo' = IF Head(todo) = {w} THEN Tail(todo) ELSE <<Head(todo) \ {w}>> \o Tail(todo),
             job' = [job EXCEPT !.clean = FALSE],
             UNCHANGED <<root, outside, pc>>
      PROVE  SafeInv'
  <2>1. /\ root \in Roots /\ job \in Jobs /\ todo \in Plans /\ todo # << >>
        /\ Guarded("undoing", root, todo, job)
    BY <1>3 DEF PlanInv, TypeInv, SafeInv, ForgetFails
  <2>2. todo' = Less(todo, w)
    BY <1>3 DEF Less
  <2>3. Guarded("undoing", root, Less(todo, w), job')
    <3> DEFINE J2 == job'
    <3>1. J2 = [job EXCEPT !.clean = FALSE]
      BY <1>3
    <3> HIDE DEF J2
    <3>2. Guarded("undoing", root, Less(todo, w), J2)
      BY <2>1, <3>1, GuardSkips
    <3>3. QED BY <3>2 DEF J2
  <2>4. /\ pc' = "undoing" /\ root' = root /\ outside' = outside
    BY <1>3
  <2>5. Guarded(pc', root', todo', job') /\ Grows(root, root')
    BY <2>2, <2>3, <2>4, GrowsItself
  <2>6. QED BY <2>4, <2>5, SafeCall
<1>4. QED BY <1>1, <1>2, <1>3 DEF ForgetFails

LEMMA StartRestoreSafe ==
  ASSUME PlanInv, SafeInv, NEW a \in Archives, StartRestore(a)
  PROVE  SafeInv'
<1>1. root \in Roots /\ Sound(root) /\ outside \in ArchiveSet \cup {Absent}
  BY RootSound DEF PlanInv, TypeInv
<1>2. a \in ArchiveSet /\ \A id \in Ids : Marked(a, id) => Marked(root, id)
  <2>1. a # Absent
    BY DEF StartRestore
  <2>2. CASE a = outside
    BY <1>1, <2>1, <2>2 DEF SafeInv
  <2>3. ASSUME NEW z \in Slots, a = root[Archive(z)]
        PROVE  a \in ArchiveSet /\ \A id \in Ids : Marked(a, id) => Marked(root, id)
    <3>1. root[Archive(z)] \in ArchiveSet \cup {Absent}
      BY <1>1, InRoot, Named, ValuesOf
    <3>2. QED BY <1>1, <2>1, <2>3, <3>1 DEF Sound, ZipsAreBehind
  <2>4. QED BY <2>2, <2>3 DEF Archives
<1>3. /\ pc' = "restoring" /\ UNCHANGED <<root, outside>> /\ todo' = RestoreWrites(root, a)
      /\ job' = [NoJob EXCEPT !.archive = a, !.before = root]
  BY DEF StartRestore
<1>4. Guarded("restoring", root, RestoreWrites(root, a), job')
  <2> DEFINE J == job'
  <2>1. J = [NoJob EXCEPT !.archive = a, !.before = root]
    BY <1>3
  <2> HIDE DEF J
  <2>2. Guarded("restoring", root, RestoreWrites(root, a), J)
    BY <1>1, <1>2, <2>1, GuardsRestore
  <2>3. QED BY <2>2 DEF J
<1>5. Guarded(pc', root', todo', job') /\ Grows(root, root')
  BY <1>3, <1>4, GrowsItself
<1>6. QED BY <1>3, <1>5, SafeCall

LEMMA RestoreFailsSafe ==
  ASSUME PlanInv, SafeInv, RestoreFails
  PROVE  SafeInv'
<1>1. CASE Return
  BY <1>1, ReturnSafe
<1>2. ASSUME pc = "restoring", pc' = "reverting", UNCHANGED <<root, outside, job>>,
             todo' = Clearing(root) \o Batches({Write(f, job.before[f]) :
                                          f \in {f \in Replaceable : job.before[f] # Absent}})
      PROVE  SafeInv'
  <2>1. root \in Roots /\ job \in Jobs /\ Shape("restoring", job) /\ Guarded("restoring", root, todo, job)
    BY <1>2 DEF PlanInv, TypeInv, SafeInv
  <2>2. Guarded("reverting", root, todo', job)
    <3> DEFINE list == todo'
    <3>1. list = Clearing(root) \o Batches({Write(f, job.before[f]) :
                                         f \in {f \in Replaceable : job.before[f] # Absent}})
      BY <1>2
    <3> HIDE DEF list
    <3>2. Guarded("reverting", root, list, job)
      BY <2>1, <3>1, GuardsRevert
    <3>3. QED BY <3>2 DEF list
  <2>3. Guarded(pc', root', todo', job') /\ Grows(root, root')
    BY <1>2, <2>2, GrowsItself
  <2>4. QED BY <1>2, <2>3, SafeCall
<1>3. QED BY <1>1, <1>2 DEF RestoreFails

LEMMA SafeInit == Init => SafeInv
<1> SUFFICES ASSUME Init PROVE SafeInv
  OBVIOUS
<1>1. root = [f \in Files |-> Absent] /\ outside = Absent /\ pc = "idle"
  BY DEF Init, ManagedInit
<1>2. /\ \A b \in Ids : root[Tombstone(b)] = Absent
      /\ \A s \in Sources : root[Queue(s)] = Absent
      /\ \A z \in Slots : root[Archive(z)] = Absent
  BY <1>1, Named
<1>3. Sound(root)
  BY <1>2 DEF Sound, AllGone, OnePending, ZipsAreBehind
<1>4. Guarded("idle", root, todo, job)
  BY <1>3, IdleGuarded
<1>5. QED BY <1>1, <1>4 DEF SafeInv

LEMMA SafeStep ==
  ASSUME PlanInv, SafeInv, [Next]_all, ~Recreate
  PROVE  SafeInv'
<1>1. CASE UNCHANGED all
  BY <1>1 DEF all, vars, SafeInv
<1>2. ASSUME NEW id \in Ids, NEW s \in Sources
      PROVE  /\ MayMutate(id) /\ Mutate(id, s) => SafeInv'
             /\ MayMutate(id) /\ MutateDies(id, s) => SafeInv'
  <2>1. root \in Roots
    BY DEF PlanInv, TypeInv
  <2>2. MutationLength(id, s) \in Nat /\ MutationLength(id, s) >= 6
    BY <2>1, MutationLengthIs
  <2>3. ASSUME MayMutate(id), Mutate(id, s) PROVE SafeInv'
    BY <2>2, <2>3, MutateSafe DEF Mutate
  <2>4. ASSUME MayMutate(id), MutateDies(id, s) PROVE SafeInv'
    <3>1. PICK n \in 1 .. MutationLength(id, s) - 1 : MutateUpTo(id, s, n)
      BY <2>4 DEF MutateDies
    <3>2. n \in Nat /\ n # 0 /\ n <= MutationLength(id, s)
      BY <2>2
    <3>3. QED BY <2>4, <3>1, <3>2, MutateSafe
  <2>5. QED BY <2>3, <2>4
<1>3. CASE Begin
  <2>1. ASSUME NEW id \in Ids, NEW r \in Requests, StartForget(id, r) PROVE SafeInv'
    BY <2>1, StartForgetSafe
  <2>2. ASSUME NEW z \in Slots, Backup(z) PROVE SafeInv'
    BY <2>2, BackupSafe
  <2>3. ASSUME NEW a \in Archives, StartRestore(a) PROVE SafeInv'
    BY <2>3, StartRestoreSafe
  <2>4. QED BY <1>2, <1>3, <2>1, <2>2, <2>3 DEF Begin
<1>4. CASE Other
  <2>1. CASE Continue
    <3>1. CASE ForgetReturns
      BY <3>1, ReturnSafe DEF ForgetReturns
    <3>2. CASE RestoreReturns
      BY <3>2, ReturnSafe DEF RestoreReturns
    <3>3. QED BY <2>1, <3>1, <3>2, WriteSafe, VerifySafe, DropSafe DEF Continue
  <2>2. ASSUME NEW id \in Ids, NEW r \in Requests, RepeatForget(id, r) PROVE SafeInv'
    BY <2>2, StartForgetSafe DEF RepeatForget
  <2>3. ASSUME NEW z \in Slots, Export(z) PROVE SafeInv'
    BY <2>3, ExportSafe
  <2>4. QED BY <1>4, <2>1, <2>2, <2>3, RecoverSafe, CatalogSafe DEF Other
<1>5. CASE Fault
  <2>1. CASE Crash
    BY <2>1, ReturnSafe DEF Crash
  <2>2. QED BY <1>2, <1>5, <2>1, ForgetFailsSafe, RestoreFailsSafe DEF Fault
<1>6. QED BY <1>1, <1>3, <1>4, <1>5 DEF Next

LEMMA SafeGone == PlanInv /\ SafeInv => ForgottenTextsAreGone
<1> SUFFICES ASSUME PlanInv, SafeInv, NEW id \in Ids,
                    root[Tombstone(id)] = "forgotten", root[Forget(id)] = Absent
             PROVE  Gone(root, id)
  BY DEF ForgottenTextsAreGone, Gone
<1>1. root[Tombstone(id)] # Absent
  BY ManagedAssumption
<1>2. QED BY <1>1, RootSound DEF Sound, AllGone

\* Unless a caller creates anew what was forgotten, a forget takes every copy
\* of the text, and no recovery, no restore and no failure of either brings one
\* back; and it takes nothing from the memories that do not mention it
\* (forget_transaction.py, admin_service.py).
THEOREM ForgetExact ==
  ASSUME ~Recreate
  PROVE  Spec => []ForgetIsExact
<1>1. Init => PlanInv /\ SafeInv
  BY PlanInit, SafeInit
<1>2. PlanInv /\ SafeInv /\ [Next]_all => (PlanInv /\ SafeInv)'
  <2> SUFFICES ASSUME PlanInv, SafeInv, [Next]_all PROVE PlanInv' /\ SafeInv'
    OBVIOUS
  <2>1. PlanInv'
    BY PlanStep
  <2>2. SafeInv'
    BY SafeStep
  <2>3. QED BY <2>1, <2>2
<1>3. PlanInv /\ SafeInv => ForgetIsExact
  BY SafeGone, PlanKeeps DEF ForgetIsExact
<1>4. QED BY <1>1, <1>2, <1>3, PTL DEF Spec
=============================================================================
