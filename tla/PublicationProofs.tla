--------------------------- MODULE PublicationProofs ---------------------------
(***************************************************************************)
(* Lemmas about the operators of Publication, for any finite set of        *)
(* catalogs and any feed limit: the loop of Latest, the list of fresh      *)
(* events, the types of a snapshot, and where in the feed the newest event *)
(* of a catalog is. The loop is proved by the least number of steps for    *)
(* which it would go wrong.                                                *)
(***************************************************************************)
EXTENDS Publication, FiniteSetTheorems, SequenceTheorems,
        WellFoundedInduction, TLAPS

(* A set of numbers has a least one: the order of the numbers is well      *)
(* founded. Every induction below is over it.                              *)
LEMMA Smallest ==
  ASSUME NEW T, T \subseteq Nat, T # {}
  PROVE  \E x \in T : \A y \in T : x <= y
<1>1. PICK x \in T : \A y \in T : ~ (<<y, x>> \in OpToRel(<, Nat))
  BY NatLessThanWellFounded, WFMin, Zenon
<1>2. \A y \in T : ~ (y < x)
  BY <1>1, Zenon DEF OpToRel
<1>3. x \in Nat /\ \A y \in T : y \in Nat
  OBVIOUS
<1>4. \A y \in T : x <= y
  BY <1>2, <1>3
<1> QED BY <1>4

(* One event of the loop of Latest, and what the loop has kept after each  *)
(* of the first n events.                                                  *)
Keep(s, seen, e) ==
  IF /\ s.cats[e.catalog].doc = e.doc
     /\ \A j \in DOMAIN seen : seen[j].catalog # e.catalog
  THEN Append(seen, e) ELSE seen
Loop(s, kept, n) ==
  kept = [i \in 0 .. n |-> IF i = 0 THEN <<>>
                           ELSE Keep(s, kept[i - 1], s.events[i])]

(* The loop of Latest over the feed is a function over its prefixes ...    *)
LEMMA LatestLoop ==
  ASSUME NEW s
  PROVE  LatestEvents(s) = (CHOOSE kept : Loop(s, kept, Len(s.events)))[Len(s.events)]
BY Zenon DEF LatestEvents, Loop, Keep

(* ... and there is one for every length, by the least length without.     *)
LEMMA LoopExists ==
  ASSUME NEW s, NEW n \in Nat
  PROVE  \E kept : Loop(s, kept, n)
<1> DEFINE T == {i \in Nat : ~ \E kept : Loop(s, kept, i)}
<1>1. SUFFICES ASSUME T # {} PROVE FALSE
  OBVIOUS
<1>2. PICK i \in T : \A j \in T : i <= j
  BY <1>1, Smallest
<1>3. i \in Nat /\ ~ \E kept : Loop(s, kept, i)
  OBVIOUS
<1>4. CASE i = 0
  <2> DEFINE k == [j \in 0 .. 0 |-> <<>>]
  <2>1. Loop(s, k, 0)
    BY DEF Loop
  <2> QED BY <2>1, <1>3, <1>4
<1>5. CASE i # 0
  <2>1. i - 1 \in Nat /\ i - 1 \notin T
    BY <1>5, <1>3, <1>2
  <2>2. PICK k : Loop(s, k, i - 1)
    BY <2>1
  <2> DEFINE g == [j \in 0 .. i |-> IF j = i THEN Keep(s, k[i - 1], s.events[i])
                                    ELSE k[j]]
  <2>3. Loop(s, g, i)
    <3>1. \A j \in 0 .. i : g[j] = IF j = 0 THEN <<>>
                                   ELSE Keep(s, g[j - 1], s.events[j])
      <4> SUFFICES ASSUME NEW j \in 0 .. i
                   PROVE  g[j] = IF j = 0 THEN <<>>
                                 ELSE Keep(s, g[j - 1], s.events[j])
        OBVIOUS
      <4>1. CASE j = i
        <5>1. g[j - 1] = k[i - 1]
          BY <4>1, <1>3, <1>5
        <5> QED BY <5>1, <4>1, <1>5
      <4>2. CASE j # i
        <5>1. j \in 0 .. i - 1 /\ g[j] = k[j]
          BY <4>2, <1>3
        <5>2. k[j] = IF j = 0 THEN <<>> ELSE Keep(s, k[j - 1], s.events[j])
          BY <5>1, <2>2 DEF Loop
        <5>3. j # 0 => g[j - 1] = k[j - 1]
          BY <4>2, <1>3
        <5> QED BY <5>1, <5>2, <5>3
      <4> QED BY <4>1, <4>2
    <3>2. g = [j \in 0 .. i |-> g[j]]
      OBVIOUS
    <3> HIDE DEF g
    <3>3. g = [j \in 0 .. i |-> IF j = 0 THEN <<>>
                                ELSE Keep(s, g[j - 1], s.events[j])]
      BY <3>1, <3>2
    <3> QED BY <3>3 DEF Loop
  <2> QED BY <2>3, <1>3
<1> QED BY <1>4, <1>5

(* The event at i names the document of its catalog, and is the first one  *)
(* of that catalog that does.                                              *)
Announced(s, i) == s.cats[s.events[i].catalog].doc = s.events[i].doc
First(s, i) ==
  /\ Announced(s, i)
  /\ \A j \in 1 .. i - 1 :
       Announced(s, j) => s.events[j].catalog # s.events[i].catalog

(* What the loop has kept after the first n events.                        *)
KeptTo(s, n, seen) ==
  /\ seen \in Seq(Event)
  /\ Len(seen) <= n
  /\ \A j \in 1 .. Len(seen) : \E i \in 1 .. n : First(s, i) /\ seen[j] = s.events[i]
  /\ \A i \in 1 .. n : Announced(s, i) =>
       \E j \in 1 .. Len(seen) : seen[j].catalog = s.events[i].catalog
  /\ \A i \in 1 .. n : First(s, i) =>
       \E j \in 1 .. Len(seen) : seen[j] = s.events[i]
  /\ \A i, j \in 1 .. Len(seen) : seen[i].catalog = seen[j].catalog => i = j

(* One more event of the feed: it is kept if it is the first that its      *)
(* catalog's document is announced by.                                     *)
LEMMA KeepKeeps ==
  ASSUME NEW s, NEW n \in Nat, NEW seen, KeptTo(s, n, seen),
         s.events[n + 1] \in Event
  PROVE  KeptTo(s, n + 1, Keep(s, seen, s.events[n + 1]))
<1> DEFINE e == s.events[n + 1]
           k == Keep(s, seen, e)
<1> SUFFICES KeptTo(s, n + 1, k)
  OBVIOUS
<1>1. /\ seen \in Seq(Event) /\ Len(seen) \in Nat /\ Len(seen) <= n
      /\ DOMAIN seen = 1 .. Len(seen)
  BY DEF KeptTo
<1>2. CASE Announced(s, n + 1) /\ \A j \in 1 .. Len(seen) : seen[j].catalog # e.catalog
  <2>1. k = Append(seen, e)
    BY <1>1, <1>2 DEF Keep, Announced
  <2>2. /\ k \in Seq(Event) /\ Len(k) = Len(seen) + 1
        /\ \A j \in 1 .. Len(seen) : k[j] = seen[j]
        /\ k[Len(k)] = e
    BY <1>1, <2>1
  <2> HIDE DEF k
  <2>3. First(s, n + 1)
    <3> SUFFICES ASSUME NEW j \in 1 .. n, Announced(s, j)
                 PROVE  s.events[j].catalog # e.catalog
      BY <1>2 DEF First
    <3>1. PICK i \in 1 .. Len(seen) : seen[i].catalog = s.events[j].catalog
      BY DEF KeptTo
    <3> QED BY <3>1, <1>2
  <2>4. \A j \in 1 .. Len(k) : \E i \in 1 .. n + 1 : First(s, i) /\ k[j] = s.events[i]
    <3> SUFFICES ASSUME NEW j \in 1 .. Len(k)
                 PROVE  \E i \in 1 .. n + 1 : First(s, i) /\ k[j] = s.events[i]
      OBVIOUS
    <3>1. CASE j = Len(k)
      BY <3>1, <2>2, <2>3
    <3>2. CASE j # Len(k)
      <4>1. j \in 1 .. Len(seen)
        BY <3>2, <2>2, <1>1
      <4>2. PICK i \in 1 .. n : First(s, i) /\ seen[j] = s.events[i]
        BY <4>1 DEF KeptTo
      <4> QED BY <4>1, <4>2, <2>2
    <3> QED BY <3>1, <3>2
  <2>5. ASSUME NEW i \in 1 .. n + 1, Announced(s, i)
        PROVE  \E j \in 1 .. Len(k) : k[j].catalog = s.events[i].catalog
    <3>1. CASE i = n + 1
      BY <3>1, <2>2, <1>1
    <3>2. CASE i # n + 1
      <4>1. PICK j \in 1 .. Len(seen) : seen[j].catalog = s.events[i].catalog
        BY <3>2, <2>5 DEF KeptTo
      <4> QED BY <4>1, <2>2, <1>1
    <3> QED BY <3>1, <3>2
  <2>6. ASSUME NEW i \in 1 .. n + 1, First(s, i)
        PROVE  \E j \in 1 .. Len(k) : k[j] = s.events[i]
    <3>1. CASE i = n + 1
      BY <3>1, <2>2, <1>1
    <3>2. CASE i # n + 1
      <4>1. PICK j \in 1 .. Len(seen) : seen[j] = s.events[i]
        BY <3>2, <2>6 DEF KeptTo
      <4> QED BY <4>1, <2>2, <1>1
    <3> QED BY <3>1, <3>2
  <2>7. ASSUME NEW i \in 1 .. Len(k), NEW j \in 1 .. Len(k),
               k[i].catalog = k[j].catalog
        PROVE  i = j
    <3>1. i # Len(k) => i \in 1 .. Len(seen) /\ k[i] = seen[i]
      BY <2>2, <1>1
    <3>2. j # Len(k) => j \in 1 .. Len(seen) /\ k[j] = seen[j]
      BY <2>2, <1>1
    <3>3. \A x, y \in 1 .. Len(seen) : seen[x].catalog = seen[y].catalog => x = y
      BY DEF KeptTo
    <3> QED BY <3>1, <3>2, <3>3, <2>7, <2>2, <1>2
  <2> QED BY <1>1, <2>2, <2>4, <2>5, <2>6, <2>7 DEF KeptTo
<1>3. CASE ~ Announced(s, n + 1)
  <2>1. k = seen
    BY <1>3 DEF Keep, Announced
  <2>2. ~ First(s, n + 1)
    BY <1>3 DEF First
  <2>3. \A i \in 1 .. n + 1 : i = n + 1 \/ i \in 1 .. n
    OBVIOUS
  <2> HIDE DEF k
  <2> QED BY <1>1, <1>3, <2>1, <2>2, <2>3 DEF KeptTo
<1>4. CASE Announced(s, n + 1) /\ \E j \in 1 .. Len(seen) : seen[j].catalog = e.catalog
  <2>1. k = seen
    BY <1>1, <1>4 DEF Keep
  <2>2. ~ First(s, n + 1)
    <3>1. PICK j \in 1 .. Len(seen) : seen[j].catalog = e.catalog
      BY <1>4
    <3>2. PICK i \in 1 .. n : First(s, i) /\ seen[j] = s.events[i]
      BY DEF KeptTo
    <3> QED BY <3>1, <3>2 DEF First
  <2>3. \A i \in 1 .. n + 1 : s.events[i] = e \/ i \in 1 .. n
    OBVIOUS
  <2>4. \A i \in 1 .. n + 1 : First(s, i) => i \in 1 .. n
    BY <2>2
  <2> HIDE DEF k, e
  <2>5. \A i \in 1 .. n + 1 : Announced(s, i) =>
          \E j \in 1 .. Len(seen) : seen[j].catalog = s.events[i].catalog
    BY <1>4, <2>3 DEF KeptTo
  <2>6. Len(seen) <= n + 1
    BY <1>1
  <2>7. \A j \in 1 .. Len(seen) :
          \E i \in 1 .. n + 1 : First(s, i) /\ seen[j] = s.events[i]
    BY DEF KeptTo
  <2> QED BY <1>1, <2>1, <2>4, <2>5, <2>6, <2>7 DEF KeptTo
<1> QED BY <1>2, <1>3, <1>4

(* Latest keeps, of every catalog, the first event that announces its      *)
(* document, and nothing else.                                             *)
LEMMA LatestKept ==
  ASSUME NEW s, s.events \in Seq(Event)
  PROVE  KeptTo(s, Len(s.events), LatestEvents(s))
<1> DEFINE N == Len(s.events)
           k == CHOOSE kept : Loop(s, kept, N)
<1>1. N \in Nat /\ \A i \in 1 .. N : s.events[i] \in Event
  OBVIOUS
<1>2. Loop(s, k, N)
  <2> HIDE DEF N
  <2> QED BY <1>1, LoopExists
<1>3. LatestEvents(s) = k[N]
  BY LatestLoop
<1> HIDE DEF k, N
<1>4. k[0] = <<>> /\ \A i \in 1 .. N : k[i] = Keep(s, k[i - 1], s.events[i])
  BY <1>1, <1>2 DEF Loop
<1> DEFINE T == {i \in 0 .. N : ~ KeptTo(s, i, k[i])}
<1>5. ASSUME T # {} PROVE FALSE
  <2>0. T \subseteq Nat
    BY <1>1
  <2>1. PICK i \in T : \A j \in T : i <= j
    <3> HIDE DEF T
    <3> QED BY <1>5, <2>0, Smallest
  <2>2. CASE i = 0
    <3>1. KeptTo(s, 0, <<>>)
      BY DEF KeptTo
    <3> QED BY <3>1, <2>2, <1>4
  <2>3. CASE i # 0
    <3>1. i \in 1 .. N /\ i - 1 \in 0 .. N /\ i - 1 \in Nat /\ (i - 1) + 1 = i
      BY <2>3, <1>1
    <3>2. KeptTo(s, i - 1, k[i - 1])
      BY <3>1, <2>1
    <3>3. s.events[i] \in Event
      BY <3>1, <1>1
    <3>4. KeptTo(s, (i - 1) + 1, Keep(s, k[i - 1], s.events[(i - 1) + 1]))
      BY ONLY <3>1, <3>2, <3>3, KeepKeeps, Zenon
    <3>5. KeptTo(s, i, k[i])
      BY ONLY <3>4, <3>1, <1>4
    <3> QED BY <3>5, <2>1
  <2> QED BY <2>2, <2>3
<1>6. N \in 0 .. N
  BY <1>1
<1>7. KeptTo(s, N, k[N])
  BY <1>5, <1>6
<1> QED BY <1>7, <1>3 DEF N

(* Two finite sets and an injection: what a list of distinct elements is.  *)
LEMMA ListedAll ==
  ASSUME NEW S, IsFiniteSet(S), NEW f \in [1 .. Cardinality(S) -> S],
         \A i, j \in 1 .. Cardinality(S) : f[i] = f[j] => i = j
  PROVE  \A x \in S : \E i \in 1 .. Cardinality(S) : f[i] = x
<1> DEFINE n == Cardinality(S)
           U == {f[i] : i \in 1 .. n}
<1>1. n \in Nat
  BY FS_CardinalityType
<1>2. U \subseteq S
  OBVIOUS
<1>3. f \in Bijection(1 .. n, U)
  BY DEF Bijection, Injection, Surjection, IsInjective
<1>4. ExistsBijection(1 .. n, U)
  BY <1>3 DEF ExistsBijection
<1>5. Cardinality(U) = n
  BY <1>1, <1>4, FS_CountingElements
<1>6. U = S
  BY <1>2, <1>5, FS_Subset
<1> QED BY <1>6

(* SetToSeq lists a finite set without repetition.                         *)
LEMMA Enumeration ==
  ASSUME NEW S, IsFiniteSet(S)
  PROVE  /\ Cardinality(S) \in Nat
         /\ SetToSeq(S) \in [1 .. Cardinality(S) -> S]
         /\ \A i, j \in 1 .. Cardinality(S) :
              SetToSeq(S)[i] = SetToSeq(S)[j] => i = j
         /\ \A x \in S : \E i \in 1 .. Cardinality(S) : SetToSeq(S)[i] = x
<1> DEFINE n == Cardinality(S)
<1>1. n \in Nat /\ ExistsBijection(1 .. n, S)
  BY FS_CardinalityType
<1>2. PICK f : f \in [1 .. n -> S] /\ \A i, j \in 1 .. n : f[i] = f[j] => i = j
  BY <1>1 DEF ExistsBijection, Bijection, Injection, IsInjective
<1>3. f \in [1 .. n -> S] /\ IsInjective(f)
  BY <1>2 DEF IsInjective
<1>4. SetToSeq(S) \in [1 .. n -> S] /\ IsInjective(SetToSeq(S))
  BY <1>3 DEF SetToSeq
<1>5. \A i, j \in 1 .. n : SetToSeq(S)[i] = SetToSeq(S)[j] => i = j
  BY <1>4 DEF IsInjective
<1> HIDE DEF n
<1> QED BY <1>1, <1>4, <1>5, ListedAll DEF n

(* What an attempt in a manifest consists of.                              *)
LEMMA ManifestType ==
  ASSUME NEW m \in Manifests
  PROVE  /\ DOMAIN m \subseteq Catalogs
         /\ \A c \in DOMAIN m : m[c] \in Attempt
<1>1. PICK cs \in SUBSET Catalogs : m \in [cs -> Attempt]
  BY DEF Manifests
<1> QED BY <1>1

LEMMA AttemptType ==
  ASSUME NEW a \in Attempt
  PROVE  /\ a.name \in Names /\ a.doc \in Docs \cup {NoDoc}
         /\ a.retry \in Deadlines \cup {Never}
BY DEF Attempt

(* Listed once and completely, the new contents are the events of the      *)
(* publication.                                                            *)
LEMMA FreshList ==
  ASSUME NEW old \in Snapshot, NEW m \in Manifests, NEW stamp \in Time
  PROVE  LET f == FreshEvents(old, m, stamp) IN
         /\ f \in Seq(Event)
         /\ Len(f) = Cardinality(ChangedBy(old, m))
         /\ \A i \in 1 .. Len(f) : /\ f[i].catalog \in ChangedBy(old, m)
                                   /\ f[i].doc = m[f[i].catalog].doc
                                   /\ f[i].at = stamp
         /\ \A c \in ChangedBy(old, m) : \E i \in 1 .. Len(f) : f[i].catalog = c
         /\ \A i, j \in 1 .. Len(f) : f[i].catalog = f[j].catalog => i = j
<1> DEFINE S == ChangedBy(old, m)
           n == Cardinality(S)
           ids == SetToSeq(S)
           f == FreshEvents(old, m, stamp)
<1>1. S \subseteq Catalogs /\ IsFiniteSet(S)
  <2>1. S \subseteq Catalogs
    BY ManifestType DEF ChangedBy
  <2> QED BY <2>1, CatalogsAssumption, FS_Subset
<1>2. /\ n \in Nat /\ ids \in [1 .. n -> S]
      /\ \A i, j \in 1 .. n : ids[i] = ids[j] => i = j
      /\ \A x \in S : \E i \in 1 .. n : ids[i] = x
  <2> HIDE DEF S
  <2> QED BY <1>1, Enumeration
<1>3. \A c \in S : m[c].doc \in Docs
  BY ManifestType, AttemptType DEF ChangedBy
<1>4. f = [i \in 1 .. n |-> [catalog |-> ids[i], seq |-> old.seq + 1,
                             at |-> stamp, doc |-> m[ids[i]].doc]]
  <2> HIDE DEF n
  <2> QED BY <1>2 DEF FreshEvents
<1>5. old.seq + 1 \in Nat
  BY DEF Snapshot
<1> HIDE DEF n, ids, f, S
<1>6. \A i \in 1 .. n : /\ f[i] \in Event /\ f[i].catalog = ids[i]
                        /\ f[i].doc = m[ids[i]].doc /\ f[i].at = stamp
  BY <1>1, <1>2, <1>3, <1>4, <1>5 DEF Event
<1>7. f \in Seq(Event) /\ Len(f) = n
  <2>1. f \in [1 .. n -> Event]
    BY <1>4, <1>6
  <2> QED BY <2>1, <1>2
<1>8. /\ f \in Seq(Event) /\ Len(f) = n
      /\ \A i \in 1 .. Len(f) : f[i].catalog \in S /\ f[i].doc = m[f[i].catalog].doc
                                  /\ f[i].at = stamp
      /\ \A c \in S : \E i \in 1 .. Len(f) : f[i].catalog = c
      /\ \A i, j \in 1 .. Len(f) : f[i].catalog = f[j].catalog => i = j
  BY <1>2, <1>6, <1>7
<1> QED BY <1>8 DEF f, S, n

(* The feed of the next snapshot: the fresh events, then the old ones, cut *)
(* off at the limit.                                                       *)
LEMMA NextEventsAre ==
  ASSUME NEW old \in Snapshot, NEW m \in Manifests, NEW stamp \in Time
  PROVE  LET f == FreshEvents(old, m, stamp)
             e == NextEvents(old, m, stamp)
         IN
         /\ e \in Seq(Event) /\ Len(e) <= FeedLimit
         /\ \/ Len(e) = Len(f) + Len(old.events)
            \/ Len(e) = FeedLimit /\ FeedLimit <= Len(f) + Len(old.events)
         /\ \A i \in 1 .. Len(e) :
              e[i] = IF i <= Len(f) THEN f[i] ELSE old.events[i - Len(f)]
<1> DEFINE f == FreshEvents(old, m, stamp)
           g == f \o old.events
           k == IF Len(g) < FeedLimit THEN Len(g) ELSE FeedLimit
<1>1. f \in Seq(Event) /\ old.events \in Seq(Event) /\ FeedLimit \in Nat
  BY FreshList, LimitAssumption DEF Snapshot
<1>2. NextEvents(old, m, stamp) = SubSeq(g, 1, k)
  BY DEF NextEvents, Cut
<1> HIDE DEF f
<1>3. /\ g \in Seq(Event) /\ Len(g) = Len(f) + Len(old.events)
      /\ Len(f) \in Nat /\ Len(old.events) \in Nat
      /\ \A i \in 1 .. Len(g) :
           g[i] = IF i <= Len(f) THEN f[i] ELSE old.events[i - Len(f)]
  BY <1>1
<1> HIDE DEF g
<1>4. k \in Nat /\ k <= Len(g) /\ k <= FeedLimit
  BY <1>1, <1>3
<1>5. \A i \in 1 .. k : g[i] \in Event
  BY <1>3, <1>4
<1>6. /\ SubSeq(g, 1, k) \in Seq(Event) /\ Len(SubSeq(g, 1, k)) = k
      /\ \A i \in 1 .. k : SubSeq(g, 1, k)[i] = g[i]
  <2> HIDE DEF k
  <2> QED BY <1>4, <1>5, SubSeqProperties
<1>7. k = Len(g) \/ (k = FeedLimit /\ FeedLimit <= Len(g))
  BY <1>1, <1>3
<1>8. \A i \in 1 .. k : i \in 1 .. Len(g)
  BY <1>3, <1>4
<1> HIDE DEF k
<1> QED BY <1>2, <1>3, <1>4, <1>6, <1>7, <1>8 DEF f

(* An attempt leaves a catalog of its type ...                             *)
LEMMA AttemptedType ==
  ASSUME NEW k \in Catalog, NEW a \in Attempt, NEW stamp \in Time
  PROVE  Attempted(k, a, stamp) \in Catalog
<1>1. /\ k.doc \in Docs \cup {NoDoc} /\ k.changed \in Time
      /\ k.retry \in Deadlines \cup {Never}
  BY DEF Catalog
<1> QED BY <1>1, AttemptType DEF Attempted, Catalog

(* ... and a publication a snapshot whose feed is within the limit.        *)
LEMMA NextSnapshotType ==
  ASSUME NEW old \in Snapshot, NEW m \in Manifests, NEW stamp \in Time
  PROVE  /\ NextSnapshot(old, m, stamp) \in Snapshot
         /\ Len(NextSnapshot(old, m, stamp).events) <= FeedLimit
<1> DEFINE cats == [c \in Catalogs |-> IF c \in DOMAIN m
                                       THEN Attempted(old.cats[c], m[c], stamp)
                                       ELSE old.cats[c]]
           e == NextEvents(old, m, stamp)
<1>1. old.seq \in Nat /\ old.cats \in [Catalogs -> Catalog]
  BY DEF Snapshot
<1>2. cats \in [Catalogs -> Catalog]
  BY <1>1, ManifestType, AttemptedType
<1>3. e \in Seq(Event) /\ Len(e) <= FeedLimit
  BY NextEventsAre
<1>4. NextSnapshot(old, m, stamp) =
        [seq |-> old.seq + 1, at |-> stamp, cats |-> cats, events |-> e]
  BY DEF NextSnapshot
<1> HIDE DEF cats, e
<1> QED BY <1>1, <1>2, <1>3, <1>4 DEF Snapshot

(* So is the snapshot before the first publication.                        *)
LEMMA NoSnapshotType == NoSnapshot \in Snapshot /\ Len(NoSnapshot.events) <= FeedLimit
<1>1. NoCatalog \in Catalog
  BY LimitAssumption DEF NoCatalog, Catalog, Time, Never
<1>2. <<>> \in Seq(Event) /\ Len(<<>>) = 0 /\ Never \in Time
  BY LimitAssumption DEF Time, Never
<1> QED BY <1>1, <1>2, LimitAssumption DEF NoSnapshot, Snapshot

(* What Latest leaves alone.                                               *)
LEMMA LatestType ==
  ASSUME NEW s \in Snapshot
  PROVE  /\ Latest(s) \in Snapshot /\ Latest(s).cats = s.cats
         /\ Latest(s).events = LatestEvents(s)
         /\ Latest(s).at = s.at /\ Latest(s).seq = s.seq
         /\ Len(LatestEvents(s)) <= Len(s.events)
<1>1. /\ s.seq \in Nat /\ s.at \in Time /\ s.cats \in [Catalogs -> Catalog]
      /\ s.events \in Seq(Event)
  BY DEF Snapshot
<1>2. LatestEvents(s) \in Seq(Event) /\ Len(LatestEvents(s)) <= Len(s.events)
  BY <1>1, LatestKept DEF KeptTo
<1> QED BY <1>1, <1>2 DEF Latest, Snapshot

(* A catalog of the next snapshot.                                         *)
LEMMA NextCatalog ==
  ASSUME NEW old \in Snapshot, NEW m \in Manifests, NEW stamp \in Time,
         NEW c \in Catalogs
  PROVE  LET k == NextSnapshot(old, m, stamp).cats[c] IN
         /\ c \in ChangedBy(old, m) =>
              k.doc = m[c].doc /\ k.doc # NoDoc /\ k.doc # old.cats[c].doc
                /\ k.changed = stamp
         /\ c \notin ChangedBy(old, m) =>
              k.doc = old.cats[c].doc /\ k.changed = old.cats[c].changed
BY DEF NextSnapshot, ChangedBy, Attempted

(* What a snapshot refers to is documents.                                 *)
LEMMA ArtifactsType ==
  ASSUME NEW s \in Snapshot
  PROVE  ArtifactsOf(s) \subseteq Docs
BY DEF ArtifactsOf, Snapshot, Catalog

-----------------------------------------------------------------------------
(* The newest event of a catalog in the feed, and feeds whose newest       *)
(* events are the last changes of the catalogs.                            *)
NewestAt(s, i) ==
  \A j \in 1 .. i - 1 : s.events[j].catalog # s.events[i].catalog
Matched(s) ==
  \A i \in 1 .. Len(s.events) :
    NewestAt(s, i) =>
      /\ s.events[i].doc = s.cats[s.events[i].catalog].doc
      /\ s.events[i].at = s.cats[s.events[i].catalog].changed

(* A publication puts the events of its changes before the others, and     *)
(* what stays in the feed of an unchanged catalog stays its newest event.  *)
LEMMA EventKept ==
  ASSUME NEW old \in Snapshot, NEW m \in Manifests, NEW stamp \in Time,
         NEW i \in 1 .. Len(old.events), NewestAt(old, i),
         old.events[i].catalog \notin ChangedBy(old, m),
         i + Cardinality(ChangedBy(old, m)) <= FeedLimit
  PROVE  LET n == NextSnapshot(old, m, stamp)
             k == i + Cardinality(ChangedBy(old, m))
         IN k \in 1 .. Len(n.events) /\ NewestAt(n, k) /\ n.events[k] = old.events[i]
<1> DEFINE f == FreshEvents(old, m, stamp)
           e == NextEvents(old, m, stamp)
           S == ChangedBy(old, m)
           L == Cardinality(S)
           k == i + L
<1>1. NextSnapshot(old, m, stamp).events = e
  BY DEF NextSnapshot
<1>2. f \in Seq(Event) /\ Len(f) = L /\ L \in Nat
  <2>1. f \in Seq(Event) /\ Len(f) = L
    BY FreshList
  <2> HIDE DEF L
  <2> QED BY <2>1
<1>3. \A j \in 1 .. L : f[j].catalog \in S
  BY FreshList
<1>4. /\ e \in Seq(Event)
      /\ Len(e) = L + Len(old.events) \/ Len(e) = FeedLimit
      /\ \A j \in 1 .. Len(e) :
           e[j] = IF j <= L THEN f[j] ELSE old.events[j - L]
  <2>1. /\ e \in Seq(Event)
        /\ \/ Len(e) = Len(f) + Len(old.events)
           \/ Len(e) = FeedLimit /\ FeedLimit <= Len(f) + Len(old.events)
        /\ \A j \in 1 .. Len(e) :
             e[j] = IF j <= Len(f) THEN f[j] ELSE old.events[j - Len(f)]
    BY NextEventsAre
  <2> HIDE DEF f, e, L
  <2> QED BY <2>1, <1>2
<1>5. old.events \in Seq(Event) /\ i \in Nat
  BY DEF Snapshot
<1>6. k <= FeedLimit /\ old.events[i].catalog \notin S
  OBVIOUS
<1> HIDE DEF f, e, S, L
<1>7. k \in 1 .. Len(e) /\ k > L
  BY <1>2, <1>4, <1>5, <1>6
<1>8. e[k] = old.events[i]
  BY <1>2, <1>4, <1>5, <1>7
<1>9. ASSUME NEW j \in 1 .. k - 1
      PROVE  e[j].catalog # e[k].catalog
  <2>1. j \in 1 .. Len(e)
    BY <1>7
  <2>2. CASE j <= L
    <3>1. e[j] = f[j] /\ j \in 1 .. L
      BY <2>1, <2>2, <1>2, <1>4
    <3> QED BY <3>1, <1>3, <1>6, <1>8
  <2>3. CASE ~ (j <= L)
    <3>1. e[j] = old.events[j - L] /\ j - L \in 1 .. i - 1
      BY <2>1, <2>3, <1>2, <1>4
    <3> QED BY <3>1, <1>8 DEF NewestAt
  <2> QED BY <2>2, <2>3
<1> HIDE DEF k
<1>10. NewestAt(NextSnapshot(old, m, stamp), k)
  BY <1>1, <1>9 DEF NewestAt
<1> QED BY <1>1, <1>7, <1>8, <1>10 DEF k, L, S

(* A publication keeps the newest event of a catalog equal to its last     *)
(* change.                                                                 *)
LEMMA NextMatched ==
  ASSUME NEW old \in Snapshot, NEW m \in Manifests, NEW stamp \in Time, Matched(old)
  PROVE  Matched(NextSnapshot(old, m, stamp))
<1> DEFINE f == FreshEvents(old, m, stamp)
           n == NextSnapshot(old, m, stamp)
           e == n.events
           S == ChangedBy(old, m)
           L == Len(f)
<1>1. /\ f \in Seq(Event) /\ L \in Nat
      /\ \A j \in 1 .. L : f[j].catalog \in S /\ f[j].doc = m[f[j].catalog].doc
                           /\ f[j].at = stamp
      /\ \A c \in S : \E j \in 1 .. L : f[j].catalog = c
  BY FreshList
<1>2. /\ e \in Seq(Event)
      /\ Len(e) <= L + Len(old.events)
      /\ \A j \in 1 .. Len(e) :
           e[j] = IF j <= L THEN f[j] ELSE old.events[j - L]
  <2>1. e = NextEvents(old, m, stamp)
    BY DEF NextSnapshot
  <2>2. Len(old.events) \in Nat /\ FeedLimit \in Nat
    BY LimitAssumption DEF Snapshot
  <2> QED BY <2>1, <2>2, <1>1, NextEventsAre
<1>3. \A c \in Catalogs :
        /\ c \in S => n.cats[c].doc = m[c].doc /\ n.cats[c].changed = stamp
        /\ c \notin S => /\ n.cats[c].doc = old.cats[c].doc
                         /\ n.cats[c].changed = old.cats[c].changed
  BY NextCatalog
<1>4. old.events \in Seq(Event) /\ Len(old.events) \in Nat
  BY DEF Snapshot
<1>5. Len(e) \in Nat /\ \A j \in 1 .. Len(e) : e[j].catalog \in Catalogs
  <2>1. e \in Seq(Event)
    BY <1>2
  <2> HIDE DEF e
  <2>2. Len(e) \in Nat /\ \A j \in 1 .. Len(e) : e[j] \in Event
    BY <2>1
  <2> QED BY <2>2 DEF Event
<1>6. SUFFICES ASSUME NEW i \in 1 .. Len(e), NewestAt(n, i)
               PROVE  /\ e[i].doc = n.cats[e[i].catalog].doc
                      /\ e[i].at = n.cats[e[i].catalog].changed
  BY DEF Matched
<1>7. \A j \in 1 .. i - 1 : e[j].catalog # e[i].catalog
  BY <1>6 DEF NewestAt
<1> HIDE DEF f, n, S, L
<1>8. CASE i <= L
  <2>1. i \in 1 .. L /\ e[i] = f[i]
    BY <1>8, <1>1, <1>2
  <2> QED BY <2>1, <1>1, <1>3, <1>5
<1>9. CASE ~ (i <= L)
  <2>1. i - L \in 1 .. Len(old.events) /\ e[i] = old.events[i - L]
    BY <1>9, <1>1, <1>2, <1>4
  <2>2. e[i].catalog \notin S
    <3> SUFFICES ASSUME e[i].catalog \in S PROVE FALSE
      OBVIOUS
    <3>1. PICK j \in 1 .. L : f[j].catalog = e[i].catalog
      BY <1>1
    <3>2. j \in 1 .. i - 1 /\ j \in 1 .. Len(e) /\ j <= L
      BY <1>9, <1>1, <1>5
    <3>3. e[j] = f[j]
      BY <3>2, <1>2
    <3> QED BY <3>1, <3>2, <3>3, <1>7
  <2>3. NewestAt(old, i - L)
    <3> SUFFICES ASSUME NEW j \in 1 .. (i - L) - 1
                 PROVE  old.events[j].catalog # old.events[i - L].catalog
      BY DEF NewestAt
    <3>1. j + L \in 1 .. i - 1 /\ j + L \in 1 .. Len(e) /\ ~ (j + L <= L)
          /\ (j + L) - L = j
      BY <1>1, <1>5
    <3>2. e[j + L] = old.events[j]
      BY <3>1, <1>2
    <3> QED BY <3>1, <3>2, <2>1, <1>7
  <2> QED BY <2>1, <2>2, <2>3, <1>3, <1>5 DEF Matched
<1> QED BY <1>8, <1>9

(* In a matched feed the event that Latest takes is the newest one.        *)
LEMMA FirstIsNewest ==
  ASSUME NEW s, s.events \in Seq(Event), Matched(s),
         NEW i \in 1 .. Len(s.events)
  PROVE  First(s, i) <=> NewestAt(s, i)
<1>1. Len(s.events) \in Nat
  OBVIOUS
<1>2. ASSUME NewestAt(s, i) PROVE First(s, i)
  BY <1>2 DEF First, NewestAt, Matched, Announced
<1>3. ASSUME First(s, i), ~ NewestAt(s, i) PROVE FALSE
  <2> DEFINE T == {j \in 1 .. i - 1 : s.events[j].catalog = s.events[i].catalog}
  <2>1. T # {} /\ T \subseteq Nat
    BY <1>1, <1>3 DEF NewestAt
  <2>2. PICK j \in T : \A k \in T : j <= k
    <3> HIDE DEF T
    <3> QED BY <2>1, Smallest
  <2>3. j \in 1 .. i - 1 /\ j \in 1 .. Len(s.events)
        /\ s.events[j].catalog = s.events[i].catalog
    BY <1>1
  <2>4. NewestAt(s, j)
    <3> SUFFICES ASSUME NEW k \in 1 .. j - 1,
                        s.events[k].catalog = s.events[j].catalog
                 PROVE  FALSE
      BY DEF NewestAt
    <3>1. k \in T /\ k < j
      BY <2>3
    <3>2. k \in 1 .. i - 1 /\ j \in Nat
      BY <2>3
    <3> QED BY <3>1, <3>2, <2>2
  <2>5. Announced(s, j)
    BY <2>3, <2>4 DEF Matched, Announced
  <2> QED BY <2>3, <2>5, <1>3 DEF First
<1> QED BY <1>2, <1>3

(* Latest lists the newest event of every catalog, and no other.           *)
LEMMA LatestOfMatched ==
  ASSUME NEW s \in Snapshot, Matched(s)
  PROVE  LET l == LatestEvents(s) IN
         /\ \A j \in 1 .. Len(l) : \E i \in 1 .. Len(s.events) :
              NewestAt(s, i) /\ l[j] = s.events[i]
         /\ \A i \in 1 .. Len(s.events) :
              NewestAt(s, i) => \E j \in 1 .. Len(l) : l[j] = s.events[i]
<1>1. s.events \in Seq(Event)
  BY DEF Snapshot
<1>2. KeptTo(s, Len(s.events), LatestEvents(s))
  BY <1>1, LatestKept
<1>3. \A i \in 1 .. Len(s.events) : First(s, i) <=> NewestAt(s, i)
  BY <1>1, FirstIsNewest
<1> QED BY <1>2, <1>3 DEF KeptTo

(* So does Latest.                                                         *)
LEMMA LatestMatched ==
  ASSUME NEW s \in Snapshot, Matched(s)
  PROVE  Matched(Latest(s))
<1> DEFINE l == LatestEvents(s)
<1>1. Latest(s).events = l /\ Latest(s).cats = s.cats
  BY LatestType
<1>2. ASSUME NEW j \in 1 .. Len(l)
      PROVE  /\ l[j].doc = s.cats[l[j].catalog].doc
             /\ l[j].at = s.cats[l[j].catalog].changed
  <2>1. PICK i \in 1 .. Len(s.events) : NewestAt(s, i) /\ l[j] = s.events[i]
    BY LatestOfMatched
  <2> QED BY <2>1 DEF Matched
<1> HIDE DEF l
<1> QED BY <1>1, <1>2 DEF Matched

(* The latest view lists each catalog once, hence has at most one event    *)
(* for each, and each of them is newest.                                   *)
LEMMA LatestOnce ==
  ASSUME NEW s \in Snapshot
  PROVE  LET l == LatestEvents(s) IN
         /\ l \in Seq(Event) /\ Len(l) <= Cardinality(Catalogs)
         /\ \A i, j \in 1 .. Len(l) : l[i].catalog = l[j].catalog => i = j
         /\ \A i \in 1 .. Len(l) : NewestAt(Latest(s), i)
<1> DEFINE l == LatestEvents(s)
<1>1. /\ l \in Seq(Event)
      /\ \A i, j \in 1 .. Len(l) : l[i].catalog = l[j].catalog => i = j
  <2>1. s.events \in Seq(Event)
    BY DEF Snapshot
  <2> QED BY <2>1, LatestKept DEF KeptTo
<1>2. Latest(s).events = l
  BY LatestType
<1> HIDE DEF l
<1>3. Len(l) \in Nat /\ \A i \in 1 .. Len(l) : l[i].catalog \in Catalogs
  <2>1. Len(l) \in Nat /\ \A i \in 1 .. Len(l) : l[i] \in Event
    BY <1>1
  <2> QED BY <2>1 DEF Event
<1>4. Len(l) <= Cardinality(Catalogs)
  <2> DEFINE f == [i \in 1 .. Len(l) |-> l[i].catalog]
  <2>1. f \in [1 .. Len(l) -> Catalogs]
    BY <1>3
  <2>2. \A i, j \in 1 .. Len(l) : f[i] = f[j] => i = j
    BY <1>1
  <2> HIDE DEF f
  <2>3. f \in Injection(1 .. Len(l), Catalogs)
    BY <2>1, <2>2 DEF Injection, IsInjective
  <2>4. Cardinality(1 .. Len(l)) <= Cardinality(Catalogs)
    BY <2>3, CatalogsAssumption, FS_Injection, Zenon
  <2>5. ASSUME NEW k \in Nat PROVE Cardinality(1 .. k) = k
    <3>1. Cardinality(1 .. k) = IF 1 > k THEN 0 ELSE k - 1 + 1
      BY FS_Interval
    <3> QED BY <3>1
  <2>6. Len(l) \in Nat /\ Cardinality(1 .. Len(l)) = Len(l)
    BY <1>3, <2>5
  <2> QED BY <2>4, <2>6
<1>5. \A i \in 1 .. Len(l) : NewestAt(Latest(s), i)
  <2> SUFFICES ASSUME NEW i \in 1 .. Len(l), NEW j \in 1 .. i - 1
               PROVE  l[j].catalog # l[i].catalog
    BY <1>2 DEF NewestAt
  <2>1. j \in 1 .. Len(l) /\ j # i
    BY <1>3
  <2> QED BY <2>1, <1>1
<1> QED BY <1>1, <1>4, <1>5 DEF l

(* Every document is announced by an event among the first b.              *)
Placed(s, b) ==
  \A c \in Catalogs :
    s.cats[c].doc # NoDoc =>
      \E i \in 1 .. Len(s.events) :
        i <= b /\ NewestAt(s, i) /\ s.events[i].catalog = c

(* A publication changes at most every catalog, and when it leaves one     *)
(* alone, at most every other one.                                         *)
LEMMA ChangedCardinality ==
  ASSUME NEW old \in Snapshot, NEW m \in Manifests
  PROVE  /\ Cardinality(ChangedBy(old, m)) \in Nat
         /\ Cardinality(Catalogs) \in Nat
         /\ Cardinality(ChangedBy(old, m)) <= Cardinality(Catalogs)
         /\ \A c \in Catalogs : c \notin ChangedBy(old, m) =>
              Cardinality(ChangedBy(old, m)) <= Cardinality(Catalogs) - 1
<1> DEFINE S == ChangedBy(old, m)
<1>1. S \subseteq Catalogs
  BY ManifestType DEF ChangedBy
<1> HIDE DEF S
<1>2. /\ IsFiniteSet(S) /\ Cardinality(S) <= Cardinality(Catalogs)
      /\ Cardinality(S) = Cardinality(Catalogs) => S = Catalogs
  BY <1>1, CatalogsAssumption, FS_Subset
<1>3. Cardinality(S) \in Nat /\ Cardinality(Catalogs) \in Nat
  BY <1>2, CatalogsAssumption, FS_CardinalityType
<1>4. \A c \in Catalogs : c \notin S => Cardinality(S) # Cardinality(Catalogs)
  BY <1>2
<1>5. \A c \in Catalogs : c \notin S => Cardinality(S) <= Cardinality(Catalogs) - 1
  BY <1>2, <1>3, <1>4
<1> QED BY <1>2, <1>3, <1>5 DEF S

(* A publication moves an announcement back by at most the number of the   *)
(* other catalogs.                                                         *)
LEMMA NextPlaced ==
  ASSUME NEW old \in Snapshot, NEW m \in Manifests, NEW stamp \in Time,
         NEW b \in Nat \ {0}, Placed(old, b),
         b + Cardinality(Catalogs) - 1 <= FeedLimit
  PROVE  Placed(NextSnapshot(old, m, stamp), b + Cardinality(Catalogs) - 1)
<1> DEFINE f == FreshEvents(old, m, stamp)
           n == NextSnapshot(old, m, stamp)
           e == NextEvents(old, m, stamp)
           S == ChangedBy(old, m)
           K == Cardinality(Catalogs)
           L == Cardinality(S)
<1>1. n.events = e
  BY DEF NextSnapshot
<1>2. SUFFICES ASSUME NEW c \in Catalogs, n.cats[c].doc # NoDoc
               PROVE  \E i \in 1 .. Len(e) :
                        i <= b + K - 1 /\ NewestAt(n, i) /\ e[i].catalog = c
  BY <1>1 DEF Placed
<1>3. /\ L \in Nat /\ K \in Nat /\ L <= K
      /\ c \notin S => L <= K - 1
  BY ChangedCardinality
<1>4. CASE c \in S
  <2>1. /\ f \in Seq(Event) /\ Len(f) = L
        /\ \A i, j \in 1 .. Len(f) : f[i].catalog = f[j].catalog => i = j
        /\ \E i \in 1 .. Len(f) : f[i].catalog = c
    BY <1>4, FreshList
  <2>2. /\ e \in Seq(Event)
        /\ \/ Len(e) = Len(f) + Len(old.events)
           \/ Len(e) = FeedLimit /\ FeedLimit <= Len(f) + Len(old.events)
        /\ \A j \in 1 .. Len(e) :
             e[j] = IF j <= Len(f) THEN f[j] ELSE old.events[j - Len(f)]
    BY NextEventsAre
  <2>3. Len(old.events) \in Nat
    BY DEF Snapshot
  <2> HIDE DEF f, e, S, K, L
  <2>4. PICK i \in 1 .. L : f[i].catalog = c
    BY <2>1
  <2>5. i \in 1 .. Len(e) /\ i <= b + K - 1
    <3>1. b + K - 1 <= FeedLimit
      BY DEF K
    <3> QED BY <3>1, <2>1, <2>2, <2>3, <1>3
  <2>6. \A j \in 1 .. i : e[j] = f[j] /\ j \in 1 .. Len(f)
    BY <2>1, <2>2, <2>5
  <2>7. e[i].catalog = c /\ \A j \in 1 .. i - 1 : e[j].catalog # e[i].catalog
    BY <2>1, <2>4, <2>6
  <2>8. NewestAt(n, i)
    BY <1>1, <2>7 DEF NewestAt
  <2> QED BY <2>5, <2>7, <2>8
<1>5. CASE c \notin S
  <2>1. old.cats[c].doc # NoDoc
    BY <1>2, <1>5, NextCatalog
  <2>2. PICK i \in 1 .. Len(old.events) :
          i <= b /\ NewestAt(old, i) /\ old.events[i].catalog = c
    BY <2>1 DEF Placed
  <2>3. i \in Nat
    BY DEF Snapshot
  <2>4. i + L <= b + K - 1 /\ i + L <= FeedLimit
    <3> HIDE DEF K, L
    <3>1. b + K - 1 <= FeedLimit
      BY DEF K
    <3> QED BY <3>1, <1>3, <1>5, <2>2, <2>3, LimitAssumption
  <2>5. i + L \in 1 .. Len(e) /\ NewestAt(n, i + L) /\ e[i + L] = old.events[i]
    BY <1>1, <1>5, <2>2, <2>4, EventKept
  <2> QED BY <2>2, <2>4, <2>5
<1> QED BY <1>4, <1>5

(* The latest view has all announcements at its front.                     *)
LEMMA LatestPlaced ==
  ASSUME NEW s \in Snapshot, Matched(s), NEW b, Placed(s, b)
  PROVE  Placed(Latest(s), Cardinality(Catalogs))
<1> DEFINE l == LatestEvents(s)
<1>1. Latest(s).events = l /\ Latest(s).cats = s.cats
  BY LatestType
<1>2. SUFFICES ASSUME NEW c \in Catalogs, s.cats[c].doc # NoDoc
               PROVE  \E j \in 1 .. Len(l) : /\ j <= Cardinality(Catalogs)
                                             /\ NewestAt(Latest(s), j)
                                             /\ l[j].catalog = c
  BY <1>1 DEF Placed
<1>3. PICK i \in 1 .. Len(s.events) : NewestAt(s, i) /\ s.events[i].catalog = c
  BY <1>2 DEF Placed
<1>4. PICK j \in 1 .. Len(l) : l[j] = s.events[i]
  BY <1>3, LatestOfMatched
<1>5. /\ Len(l) \in Nat /\ Len(l) <= Cardinality(Catalogs)
      /\ NewestAt(Latest(s), j)
  BY LatestOnce
<1>6. Cardinality(Catalogs) \in Nat
  BY CatalogsAssumption, FS_CardinalityType
<1>7. j <= Cardinality(Catalogs)
  <2> HIDE DEF l
  <2> QED BY <1>5, <1>6
<1> QED BY <1>3, <1>4, <1>5, <1>7
===============================================================================
