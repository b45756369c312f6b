---------------------------- MODULE PublisherProofs ----------------------------
(***************************************************************************)
(* Proofs about Publisher, for any processes, catalogs and limits. The     *)
(* commit of a process is right because its snapshot was made from the     *)
(* current one (MadeInv), which nobody replaces meanwhile (HeldInv), and   *)
(* because its last check looks at every object. That the feed announces   *)
(* every document needs the feed to be long enough (FeedHoldsCycle).       *)
(***************************************************************************)
EXTENDS Publisher, PublicationProofs

(* The operators of the abstract log are those of the publisher.           *)
LEMMA SameSnapshot ==
  ASSUME NEW old, NEW m, NEW stamp
  PROVE  Log!NextSnapshot(old, m, stamp) = NextSnapshot(old, m, stamp)
<1>1. Log!ChangedBy(old, m) = ChangedBy(old, m)
  BY DEF Log!ChangedBy, ChangedBy
<1>2. \A S : Log!Cardinality(S) = Cardinality(S)
  BY Zenon DEF Log!Cardinality, Cardinality
<1>3. \A S : Log!SetToSeq(S) = SetToSeq(S)
  BY <1>2, Zenon DEF Log!SetToSeq, SetToSeq, Log!IsInjective, IsInjective
<1>4. Log!FreshEvents(old, m, stamp) = FreshEvents(old, m, stamp)
  BY <1>1, <1>3, Zenon DEF Log!FreshEvents, FreshEvents
<1> QED BY <1>4, Zenon DEF Log!NextSnapshot, NextSnapshot, Log!NextEvents, NextEvents, Log!Cut, Cut, Log!Attempted, Attempted, Log!Never, Never

LEMMA SameLatest ==
  ASSUME NEW s
  PROVE  Log!Latest(s) = Latest(s)
BY Zenon DEF Log!Latest, Latest, Log!LatestEvents, LatestEvents

-----------------------------------------------------------------------------
(* A process that publishes holds the lock.                                *)
HeldInv == \A p \in Procs : pc[p] # "idle" => lock = {p}

(* What it builds is made from the snapshot that is published, which only  *)
(* it can replace.                                                         *)
MadeFrom(s, n) ==
  \E m \in Manifests, stamp \in Time \ {Never} :
    stamp >= s.at /\ SameIdentity(s, m) /\ n = NextSnapshot(s, m, stamp)
MadeInv ==
  \A p \in Procs :
    pc[p] # "idle" => cycle < PerCycle /\ MadeFrom(current, next[p])

(* Past the feed, the feed is there.                                       *)
FeedInv ==
  \A p \in Procs : pc[p] \in {"feed", "snapshot"} => next[p].events \in feeds

(* What every step keeps.                                                  *)
IInv ==
  /\ TypeOK /\ HeldInv /\ MadeInv /\ FeedInv /\ CurrentComplete
  /\ Matched(current)

(* The property of the run and the predicate of the lemmas agree.          *)
LEMMA MatchIsMatched ==
  ASSUME current \in Snapshot
  PROVE  EventsMatch <=> Matched(current)
<1>1. DOMAIN current.events = 1 .. Len(current.events)
  BY DEF Snapshot
<1> QED BY <1>1 DEF EventsMatch, Newest, Matched, NewestAt

(* The first state has no publication and nothing under way.               *)
LEMMA InitOK == Init => IInv
<1> SUFFICES ASSUME Init PROVE IInv
  OBVIOUS
<1>1. TypeOK
  <2>1. current \in Snapshot /\ Len(current.events) <= FeedLimit
    BY NoSnapshotType DEF Init
  <2>2. next \in [Procs -> Snapshot]
    BY NoSnapshotType DEF Init
  <2>3. 0 \in 0 .. PerCycle /\ 0 \in 0 .. MaxFails
    BY BoundAssumption
  <2> QED BY <2>1, <2>2, <2>3 DEF Init, TypeOK
<1>2. Matched(current)
  BY DEF Init, NoSnapshot, Matched
<1>3. HeldInv /\ MadeInv /\ FeedInv /\ CurrentComplete
  BY DEF Init, HeldInv, MadeInv, FeedInv, CurrentComplete
<1> QED BY <1>1, <1>2, <1>3 DEF IInv

(* What a process is about to commit is a snapshot.                        *)
LEMMA MadeType ==
  ASSUME NEW s \in Snapshot, NEW n, MadeFrom(s, n)
  PROVE  n \in Snapshot /\ Len(n.events) <= FeedLimit
BY NextSnapshotType DEF MadeFrom

(* A process ends: it is idle, and the lock is free.                       *)
LEMMA EndOK ==
  ASSUME IInv, NEW p \in Procs, pc[p] # "idle", End(p)
  PROVE  /\ pc' \in [Procs -> {"idle", "documents", "feed", "snapshot"}]
         /\ next' \in [Procs -> Snapshot]
         /\ lock' = {}
         /\ \A q \in Procs : pc'[q] = "idle"
<1>1. lock = {p} /\ \A q \in Procs : q # p => pc[q] = "idle"
  BY DEF IInv, HeldInv
<1>2. /\ pc \in [Procs -> {"idle", "documents", "feed", "snapshot"}]
      /\ next \in [Procs -> Snapshot]
  BY DEF IInv, TypeOK
<1>3. NoSnapshot \in Snapshot
  BY NoSnapshotType
<1> QED BY <1>1, <1>2, <1>3 DEF End

(* Begin prepares the next snapshot from the current one, under the lock.  *)
LEMMA BeginOK ==
  ASSUME IInv, NEW p \in Procs, Begin(p)
  PROVE  IInv'
<1>1. TypeOK /\ HeldInv /\ FeedInv /\ CurrentComplete /\ Matched(current)
  BY DEF IInv
<1>2. /\ current \in Snapshot /\ current' = current
      /\ \A q \in Procs : pc[q] = "idle"
  <2>1. lock = {}
    BY DEF Begin, Lock
  <2> QED BY <2>1, <1>1 DEF TypeOK, HeldInv, Begin
<1>3. PICK n : MadeFrom(current, n) /\ next' = [next EXCEPT ![p] = n]
  BY DEF Begin, MadeFrom
<1>4. n \in Snapshot
  BY <1>2, <1>3, MadeType
<1>5. /\ pc' = [pc EXCEPT ![p] = "documents"] /\ lock' = {p}
      /\ cycle < PerCycle
      /\ UNCHANGED <<dats, feeds, snaps, current, cycle, fails>>
  BY DEF Begin, Lock, objects
<1>6. /\ pc \in [Procs -> {"idle", "documents", "feed", "snapshot"}]
      /\ next \in [Procs -> Snapshot]
  BY <1>1 DEF TypeOK
<1>7. TypeOK'
  BY <1>1, <1>4, <1>3, <1>5, <1>6 DEF TypeOK
<1>8. HeldInv' /\ FeedInv'
  BY <1>2, <1>5, <1>6 DEF HeldInv, FeedInv
<1>9. MadeInv'
  BY <1>2, <1>3, <1>5, <1>6 DEF MadeInv
<1>10. CurrentComplete' /\ Matched(current)'
  BY <1>1, <1>2, <1>5 DEF CurrentComplete
<1> QED BY <1>7, <1>8, <1>9, <1>10 DEF IInv

(* Objects are only added, under names that are their content.             *)
LEMMA PutDocumentOK ==
  ASSUME IInv, NEW p \in Procs, PutDocument(p)
  PROVE  IInv'
<1>1. /\ TypeOK /\ HeldInv /\ MadeInv /\ FeedInv /\ CurrentComplete
      /\ Matched(current) /\ next[p] \in Snapshot
  BY DEF IInv, TypeOK
<1>2. PICK d \in ArtifactsOf(next[p]) : dats' = dats \cup {d}
  BY DEF PutDocument
<1>3. d \in Docs
  BY <1>1, ArtifactsType
<1>4. UNCHANGED <<feeds, snaps, current, lock, pc, next, cycle, fails>>
  BY DEF PutDocument
<1>5. TypeOK'
  BY <1>1, <1>2, <1>3, <1>4 DEF TypeOK
<1>6. HeldInv' /\ MadeInv' /\ FeedInv'
  BY <1>1, <1>4 DEF HeldInv, MadeInv, FeedInv
<1>7. CurrentComplete' /\ Matched(current)'
  BY <1>1, <1>2, <1>4 DEF CurrentComplete
<1> QED BY <1>5, <1>6, <1>7 DEF IInv

LEMMA PutFeedOK ==
  ASSUME IInv, NEW p \in Procs, PutFeed(p)
  PROVE  IInv'
<1>1. /\ TypeOK /\ HeldInv /\ MadeInv /\ FeedInv /\ CurrentComplete
      /\ Matched(current)
  BY DEF IInv
<1>2. /\ pc[p] = "documents" /\ pc' = [pc EXCEPT ![p] = "feed"]
      /\ feeds' = feeds \cup {next[p].events}
      /\ UNCHANGED <<dats, snaps, current, lock, next, cycle, fails>>
  BY DEF PutFeed
<1>3. pc \in [Procs -> {"idle", "documents", "feed", "snapshot"}]
  BY <1>1 DEF TypeOK
<1>4. TypeOK'
  BY <1>1, <1>2, <1>3 DEF TypeOK
<1>5. HeldInv' /\ MadeInv'
  BY <1>1, <1>2, <1>3 DEF HeldInv, MadeInv
<1>6. FeedInv'
  BY <1>1, <1>2, <1>3 DEF FeedInv
<1>7. CurrentComplete' /\ Matched(current)'
  BY <1>1, <1>2 DEF CurrentComplete
<1> QED BY <1>4, <1>5, <1>6, <1>7 DEF IInv

LEMMA PutSnapshotOK ==
  ASSUME IInv, NEW p \in Procs, PutSnapshot(p)
  PROVE  IInv'
<1>1. /\ TypeOK /\ HeldInv /\ MadeInv /\ FeedInv /\ CurrentComplete
      /\ Matched(current)
  BY DEF IInv
<1>2. /\ pc[p] = "feed" /\ pc' = [pc EXCEPT ![p] = "snapshot"]
      /\ snaps' = snaps \cup {next[p]}
      /\ UNCHANGED <<dats, feeds, current, lock, next, cycle, fails>>
  BY DEF PutSnapshot
<1>3. pc \in [Procs -> {"idle", "documents", "feed", "snapshot"}]
  BY <1>1 DEF TypeOK
<1>4. next[p].events \in feeds
  BY <1>1, <1>2 DEF FeedInv
<1>5. TypeOK'
  BY <1>1, <1>2, <1>3, <1>4 DEF TypeOK
<1>6. HeldInv' /\ MadeInv'
  BY <1>1, <1>2, <1>3 DEF HeldInv, MadeInv
<1>7. FeedInv'
  BY <1>1, <1>2, <1>3, <1>4 DEF FeedInv
<1>8. CurrentComplete' /\ Matched(current)'
  BY <1>1, <1>2 DEF CurrentComplete
<1> QED BY <1>5, <1>6, <1>7, <1>8 DEF IInv

(* The commit makes the snapshot that was verified the current one.        *)
LEMMA CommitMakes ==
  ASSUME IInv, NEW p \in Procs, Commit(p)
  PROVE  /\ MadeFrom(current, current') /\ current' = next[p]
         /\ cycle < PerCycle /\ cycle' = cycle + 1
         /\ Verified(current') /\ UNCHANGED objects
         /\ current' \in Snapshot /\ Len(current'.events) <= FeedLimit
<1>1. pc[p] = "snapshot" /\ MadeInv /\ current \in Snapshot
  BY DEF IInv, TypeOK, Commit
<1>2. MadeFrom(current, next[p]) /\ cycle < PerCycle
  BY <1>1 DEF MadeInv
<1> QED BY <1>1, <1>2, MadeType DEF Commit

(* What the last check of a commit says of the snapshot.                   *)
LEMMA VerifiedIsComplete ==
  ASSUME NEW s \in Snapshot, Verified(s)
  PROVE  /\ s \in snaps /\ s.events \in feeds
         /\ \A c \in Catalogs : s.cats[c].doc \in dats \cup {NoDoc}
         /\ \A i \in DOMAIN s.events : s.events[i].doc \in dats
BY DEF Verified, Artifacts, ArtifactsOf

(* The commit replaces the current snapshot by one that is complete and    *)
(* whose feed matches it.                                                  *)
LEMMA CommitOK ==
  ASSUME IInv, NEW p \in Procs, Commit(p)
  PROVE  IInv'
<1>1. TypeOK /\ HeldInv /\ Matched(current) /\ pc[p] # "idle"
  BY DEF IInv, Commit
<1>2. /\ MadeFrom(current, current') /\ cycle < PerCycle /\ cycle' = cycle + 1
      /\ Verified(current') /\ UNCHANGED objects
      /\ current' \in Snapshot /\ Len(current'.events) <= FeedLimit
  BY CommitMakes
<1>3. /\ pc' \in [Procs -> {"idle", "documents", "feed", "snapshot"}]
      /\ next' \in [Procs -> Snapshot] /\ lock' = {}
      /\ \A q \in Procs : pc'[q] = "idle"
  BY <1>1, EndOK DEF Commit
<1>4. TypeOK'
  <2>1. cycle' \in 0 .. PerCycle /\ fails' \in 0 .. MaxFails
    BY <1>1, <1>2, BoundAssumption DEF TypeOK, Commit
  <2> QED BY <1>1, <1>2, <1>3, <2>1 DEF TypeOK, objects
<1>5. HeldInv' /\ MadeInv' /\ FeedInv'
  BY <1>3 DEF HeldInv, MadeInv, FeedInv
<1>6. CurrentComplete'
  BY <1>2, VerifiedIsComplete DEF CurrentComplete, objects
<1>7. Matched(current)'
  BY <1>1, <1>2, NextMatched DEF MadeFrom, TypeOK
<1> QED BY <1>4, <1>5, <1>6, <1>7 DEF IInv

(* A death leaves objects without a snapshot, and gives the lock back.     *)
LEMMA FailOK ==
  ASSUME IInv, NEW p \in Procs, Fail(p)
  PROVE  IInv'
<1>1. TypeOK /\ CurrentComplete /\ Matched(current) /\ pc[p] # "idle"
  BY DEF IInv, Fail
<1>2. UNCHANGED <<dats, feeds, snaps, current, cycle>>
  BY DEF Fail, objects
<1>3. /\ pc' \in [Procs -> {"idle", "documents", "feed", "snapshot"}]
      /\ next' \in [Procs -> Snapshot] /\ lock' = {}
      /\ \A q \in Procs : pc'[q] = "idle"
  BY <1>1, EndOK DEF Fail
<1>4. TypeOK'
  <2>1. fails' \in 0 .. MaxFails
    BY <1>1, BoundAssumption DEF TypeOK, Fail
  <2> QED BY <1>1, <1>2, <1>3, <2>1 DEF TypeOK
<1>5. HeldInv' /\ MadeInv' /\ FeedInv'
  BY <1>3 DEF HeldInv, MadeInv, FeedInv
<1>6. CurrentComplete' /\ Matched(current)'
  BY <1>1, <1>2 DEF CurrentComplete
<1> QED BY <1>4, <1>5, <1>6 DEF IInv

(* A restoration keeps the objects of the latest events.                   *)
LEMMA RedistributeOK ==
  ASSUME IInv, Redistribute
  PROVE  IInv'
<1> DEFINE s == Latest(current)
<1>1. TypeOK /\ HeldInv /\ Matched(current)
  BY DEF IInv
<1>2. /\ lock = {} /\ lock' = {} /\ UNCHANGED <<pc, next, fails>>
      /\ cycle' = 0 /\ current' = s
      /\ Artifacts(s) \subseteq ArtifactsOf(s)
      /\ dats' = ArtifactsOf(s) /\ feeds' = {s.events} /\ snaps' = {s}
  BY DEF Redistribute
<1>3. \A q \in Procs : pc[q] = "idle"
  BY <1>1, <1>2 DEF HeldInv
<1>4. current \in Snapshot /\ Len(current.events) <= FeedLimit
  BY <1>1 DEF TypeOK
<1>5. s \in Snapshot /\ Len(s.events) <= FeedLimit
  <2>1. Len(current.events) \in Nat /\ Len(LatestEvents(current)) \in Nat
    BY <1>4, LatestOnce DEF Snapshot
  <2>2. /\ s \in Snapshot /\ s.events = LatestEvents(current)
        /\ Len(LatestEvents(current)) <= Len(current.events)
    BY <1>4, LatestType
  <2> HIDE DEF s
  <2> QED BY <2>1, <2>2, <1>4, LimitAssumption
<1>6. Matched(s)
  BY <1>1, <1>4, LatestMatched
<1> HIDE DEF s
<1>7. TypeOK'
  <2>1. cycle' \in 0 .. PerCycle
    BY <1>2, BoundAssumption
  <2>2. dats' \subseteq Docs
    BY <1>2, <1>5, ArtifactsType
  <2> QED BY <1>1, <1>2, <1>5, <2>1, <2>2 DEF TypeOK
<1>8. HeldInv' /\ MadeInv' /\ FeedInv'
  BY <1>2, <1>3 DEF HeldInv, MadeInv, FeedInv
<1>9. CurrentComplete'
  <2>1. \A c \in Catalogs : s.cats[c].doc \in ArtifactsOf(s) \cup {NoDoc}
    BY DEF ArtifactsOf
  <2>2. \A i \in DOMAIN s.events : s.events[i].doc \in ArtifactsOf(s)
    BY <1>2 DEF Artifacts
  <2> QED BY <1>2, <2>1, <2>2 DEF CurrentComplete
<1>10. Matched(current)'
  BY <1>2, <1>6
<1> QED BY <1>7, <1>8, <1>9, <1>10 DEF IInv

(* Together: the invariant is inductive.                                   *)
LEMMA NextOK == IInv /\ [Next]_vars => IInv'
<1> SUFFICES ASSUME IInv, [Next]_vars PROVE IInv'
  OBVIOUS
<1>1. CASE UNCHANGED vars
  BY <1>1 DEF IInv, TypeOK, HeldInv, MadeInv, FeedInv, CurrentComplete, vars, objects
<1>2. CASE Next
  BY <1>2, BeginOK, PutDocumentOK, PutFeedOK, PutSnapshotOK, CommitOK, FailOK,
     RedistributeOK DEF Next
<1> QED BY <1>1, <1>2

(* The inductive invariant holds of every behaviour of the publisher.      *)
THEOREM Invariance == Spec => []IInv
BY InitOK, NextOK, PTL DEF Spec

(* Every reachable state of the publisher is one of the types of the code: *)
(* snapshots, feeds within the limit, and documents.                       *)
THEOREM TypeCorrect == Spec => []TypeOK
<1>1. IInv => TypeOK
  BY DEF IInv
<1> QED BY <1>1, Invariance, PTL

(* Whatever dies between two writes, all that current.json leads to can    *)
(* be read (LoadSnapshot, verifySnapshot).                                 *)
THEOREM AlwaysComplete == Spec => []CurrentComplete
<1>1. IInv => CurrentComplete
  BY DEF IInv
<1> QED BY <1>1, Invariance, PTL

(* The newest event of each catalog in the feed is its last change.        *)
THEOREM FeedTellsLastChange == Spec => []EventsMatch
<1>1. IInv => EventsMatch
  BY MatchIsMatched DEF IInv, TypeOK
<1> QED BY <1>1, Invariance, PTL

(* No publication takes a working document away.                           *)
THEOREM DocumentsKept == Spec => DocumentsRetained
<1>1. ASSUME IInv, [Next]_vars, NEW c \in Catalogs, current.cats[c].doc # NoDoc
      PROVE  current'.cats[c].doc # NoDoc
  <2>1. current \in Snapshot
    BY <1>1 DEF IInv, TypeOK
  <2>2. CASE \E p \in Procs : Commit(p)
    <3>1. MadeFrom(current, current')
      BY <1>1, <2>2, CommitMakes
    <3>2. PICK m \in Manifests, stamp \in Time : current' = NextSnapshot(current, m, stamp)
      BY <3>1 DEF MadeFrom
    <3> QED BY <1>1, <2>1, <3>2, NextCatalog
  <2>3. CASE Redistribute
    <3>1. current'.cats = current.cats
      BY <2>1, <2>3, LatestType DEF Redistribute
    <3> QED BY <3>1, <1>1
  <2>4. CASE ~ (\E p \in Procs : Commit(p)) /\ ~ Redistribute
    BY <1>1, <2>4 DEF Next, Begin, PutDocument, PutFeed, PutSnapshot, Fail, vars
  <2> QED BY <2>2, <2>3, <2>4
<1>2. IInv /\ [Next]_vars =>
        [\A c \in Catalogs :
           current.cats[c].doc # NoDoc => current'.cats[c].doc # NoDoc]_vars
  BY <1>1
<1> QED BY <1>2, Invariance, PTL DEF Spec, DocumentsRetained

(* Every step of the processes, deaths included, is a whole publication    *)
(* made from the last one, the round trip through the signed site, or      *)
(* nothing to a reader of the directory.                                   *)
LEMMA StepImplements == IInv /\ [Next]_vars => [Log!Next]_current
<1> SUFFICES ASSUME IInv, [Next]_vars PROVE [Log!Next]_current
  OBVIOUS
<1>1. ASSUME NEW p \in Procs, Commit(p) PROVE Log!Publish
  <2>1. PICK m \in Manifests, stamp \in Time \ {Never} :
          /\ stamp >= current.at /\ SameIdentity(current, m)
          /\ current' = NextSnapshot(current, m, stamp)
    BY <1>1, CommitMakes DEF MadeFrom
  <2>2. current'.seq = current.seq + 1
    BY <2>1 DEF NextSnapshot
  <2>3. m \in Log!Manifests /\ stamp \in Log!Time \ {Log!Never}
    BY <2>1 DEF Log!Manifests, Manifests, Log!Attempt, Attempt, Log!Time, Time,
       Log!Never, Never
  <2>4. Log!SameIdentity(current, m)
    BY <2>1 DEF Log!SameIdentity, SameIdentity
  <2>5. current' = Log!NextSnapshot(current, m, stamp)
    BY <2>1, SameSnapshot
  <2> QED BY <2>1, <2>2, <2>3, <2>4, <2>5 DEF Log!Publish
<1>2. ASSUME Redistribute PROVE Log!Redistribute
  BY <1>2, SameLatest DEF Redistribute, Log!Redistribute
<1>3. CASE ~ (\E p \in Procs : Commit(p)) /\ ~ Redistribute
  BY <1>3 DEF Next, Begin, PutDocument, PutFeed, PutSnapshot, Fail, vars
<1> QED BY <1>1, <1>2, <1>3 DEF Log!Next

(* The publication in single writes, with deaths between them, implements  *)
(* publications and restorations that are atomic on the current snapshot.  *)
THEOREM Implementation == Spec => ImplementsLog
<1>1. Init => Log!Init
  BY DEF Init, Log!Init, Log!NoSnapshot, NoSnapshot, Log!NoCatalog, NoCatalog,
     Log!Never, Never
<1> QED BY <1>1, StepImplements, Invariance, PTL DEF Spec, ImplementsLog, Log!Spec

-----------------------------------------------------------------------------
(* The feed has room for the announcements of a cycle: at the restoration  *)
(* each catalog has at most one event, and each publication puts the       *)
(* events of the other catalogs before the one of an unchanged catalog.    *)
Depth(n) == Cardinality(Catalogs) + n * (Cardinality(Catalogs) - 1)
FeedHoldsCycle == Depth(PerCycle) <= FeedLimit

(* Every document's newest event is within the part of the feed that the   *)
(* publications since the last restoration can fill.                       *)
PlaceInv == Placed(current, Depth(cycle))

(* A publication moves what it leaves alone by one event of every other    *)
(* catalog at most.                                                        *)
LEMMA DepthGrows ==
  ASSUME Catalogs # {}, NEW n \in Nat, n < PerCycle
  PROVE  /\ Depth(n) \in Nat \ {0}
         /\ Depth(n + 1) = Depth(n) + Cardinality(Catalogs) - 1
         /\ Depth(n + 1) <= Depth(PerCycle) /\ Depth(PerCycle) \in Nat
<1> DEFINE k == Cardinality(Catalogs) - 1
<1>1. k \in Nat /\ Cardinality(Catalogs) = k + 1
  <2>1. Cardinality(Catalogs) \in Nat /\ Cardinality(Catalogs) # 0
    BY CatalogsAssumption, FS_CardinalityType, FS_EmptySet
  <2> QED BY <2>1
<1> HIDE DEF k
<1>2. \A i \in Nat : Depth(i) = (k + 1) + i * k
  BY <1>1 DEF Depth
<1>3. PerCycle \in Nat
  BY BoundAssumption
<1>4. \A i, j \in Nat : i <= j => i * k <= j * k
  BY <1>1
<1>5. \A i \in Nat : i * k \in Nat
  BY <1>1
<1>6. (n + 1) * k = n * k + k
  BY <1>1
<1>7. n + 1 \in Nat /\ n + 1 <= PerCycle
  BY <1>3
<1>8. (n + 1) * k <= PerCycle * k
  BY <1>4, <1>7, <1>3
<1>9. Depth(n) = (k + 1) + n * k /\ Depth(n + 1) = (k + 1) + (n + 1) * k
      /\ Depth(PerCycle) = (k + 1) + PerCycle * k
  BY <1>2, <1>3, <1>7
<1>10. n * k \in Nat /\ (n + 1) * k \in Nat /\ PerCycle * k \in Nat
  BY <1>3, <1>5, <1>7
<1> QED BY <1>1, <1>6, <1>8, <1>9, <1>10

LEMMA PlaceInit == Init => PlaceInv
BY DEF Init, PlaceInv, Placed, NoSnapshot, NoCatalog

LEMMA PlaceNext ==
  ASSUME FeedHoldsCycle, IInv, PlaceInv, [Next]_vars
  PROVE  PlaceInv'
<1>1. current \in Snapshot /\ cycle \in Nat /\ Matched(current)
  BY BoundAssumption DEF IInv, TypeOK
<1>2. ASSUME NEW p \in Procs, Commit(p) PROVE PlaceInv'
  <2>1. /\ cycle < PerCycle /\ cycle' = cycle + 1
        /\ MadeFrom(current, current')
    BY <1>2, CommitMakes
  <2>2. PICK m \in Manifests, stamp \in Time : current' = NextSnapshot(current, m, stamp)
    BY <2>1 DEF MadeFrom
  <2>3. CASE Catalogs = {}
    BY <2>3 DEF PlaceInv, Placed
  <2>4. CASE Catalogs # {}
    <3>1. /\ Depth(cycle) \in Nat \ {0}
          /\ Depth(cycle + 1) = Depth(cycle) + Cardinality(Catalogs) - 1
          /\ Depth(cycle + 1) <= Depth(PerCycle) /\ Depth(PerCycle) \in Nat
      BY <1>1, <2>1, <2>4, DepthGrows
    <3>2. Depth(cycle) + Cardinality(Catalogs) - 1 <= FeedLimit
      <4>1. Depth(cycle) + Cardinality(Catalogs) - 1 \in Int
        BY <3>1, CatalogsAssumption, FS_CardinalityType
      <4>2. Depth(PerCycle) <= FeedLimit
        BY DEF FeedHoldsCycle
      <4> QED BY <3>1, <4>1, <4>2, LimitAssumption
    <3>3. Placed(current, Depth(cycle))
      BY DEF PlaceInv
    <3>4. Placed(NextSnapshot(current, m, stamp),
                 Depth(cycle) + Cardinality(Catalogs) - 1)
      BY <1>1, <3>1, <3>2, <3>3, NextPlaced
    <3>5. Depth(cycle)' = Depth(cycle) + Cardinality(Catalogs) - 1
      BY <2>1, <3>1 DEF Depth
    <3>6. Placed(current', Depth(cycle)')
      BY <2>2, <3>4, <3>5
    <3> QED BY <3>6 DEF PlaceInv, Depth
  <2> QED BY <2>3, <2>4
<1>3. ASSUME Redistribute PROVE PlaceInv'
  <2>1. Placed(Latest(current), Cardinality(Catalogs))
    BY <1>1, LatestPlaced DEF PlaceInv
  <2>2. cycle' = 0 /\ current' = Latest(current)
    BY <1>3 DEF Redistribute
  <2>3. Depth(0) = Cardinality(Catalogs)
    BY CatalogsAssumption, FS_CardinalityType DEF Depth
  <2> QED BY <2>1, <2>2, <2>3 DEF PlaceInv, Depth
<1>4. CASE ~ (\E p \in Procs : Commit(p)) /\ ~ Redistribute
  <2>1. current' = current /\ cycle' = cycle
    BY <1>4 DEF Next, Begin, PutDocument, PutFeed, PutSnapshot, Fail, vars
  <2> QED BY <2>1 DEF PlaceInv, Depth
<1> QED BY <1>2, <1>3, <1>4

(* The event of a document is in the latest view, which lists its catalog  *)
(* once.                                                                   *)
LEMMA PlacedIsAnnounced ==
  ASSUME NEW s \in Snapshot, Matched(s), NEW b, Placed(s, b),
         NEW c \in Catalogs, s.cats[c].doc # NoDoc
  PROVE  Cardinality({i \in DOMAIN LatestEvents(s) :
                        LatestEvents(s)[i].catalog = c}) = 1
<1> DEFINE l == LatestEvents(s)
           S == {i \in DOMAIN l : l[i].catalog = c}
<1>1. PICK i \in 1 .. Len(s.events) : NewestAt(s, i) /\ s.events[i].catalog = c
  BY DEF Placed
<1>2. PICK j \in 1 .. Len(l) : l[j] = s.events[i]
  BY <1>1, LatestOfMatched
<1>3. /\ l \in Seq(Event)
      /\ \A x, y \in 1 .. Len(l) : l[x].catalog = l[y].catalog => x = y
  BY LatestOnce
<1> HIDE DEF l
<1>4. DOMAIN l = 1 .. Len(l)
  BY <1>3
<1>5. S = {j}
  BY <1>1, <1>2, <1>3, <1>4
<1>6. Cardinality({j}) = 1
  BY FS_Singleton
<1>7. Cardinality(S) = 1
  BY <1>5, <1>6
<1> QED BY <1>7 DEF l

(* With room for a cycle, the signed feed announces every published        *)
(* document, once.                                                         *)
THEOREM EveryDocumentTold ==
  ASSUME FeedHoldsCycle
  PROVE  Spec => []EveryDocumentAnnounced
<1>1. Init => PlaceInv
  BY PlaceInit
<1>2. IInv /\ PlaceInv /\ [Next]_vars => PlaceInv'
  BY PlaceNext
<1>3. IInv /\ PlaceInv => EveryDocumentAnnounced
  BY PlacedIsAnnounced DEF IInv, TypeOK, PlaceInv, EveryDocumentAnnounced
<1> QED BY <1>1, <1>2, <1>3, Invariance, PTL DEF Spec

(* The newest event of an unchanged catalog is in the latest view of the   *)
(* next snapshot, as it was in that of the last.                           *)
LEMMA EventSurvives ==
  ASSUME NEW old \in Snapshot, NEW m \in Manifests, NEW stamp \in Time,
         Matched(old), NEW b \in Nat \ {0}, Placed(old, b),
         b + Cardinality(Catalogs) - 1 <= FeedLimit,
         NEW j \in 1 .. Len(LatestEvents(old)),
         LatestEvents(old)[j].catalog \notin ChangedBy(old, m)
  PROVE  LET l == LatestEvents(NextSnapshot(old, m, stamp))
         IN \E k \in 1 .. Len(l) : l[k] = LatestEvents(old)[j]
<1> DEFINE n == NextSnapshot(old, m, stamp)
           S == ChangedBy(old, m)
           e == LatestEvents(old)[j]
           c == e.catalog
           k(i) == i + Cardinality(S)
<1>1. PICK i \in 1 .. Len(old.events) : NewestAt(old, i) /\ e = old.events[i]
  BY LatestOfMatched
<1>2. /\ Len(old.events) \in Nat /\ \A x \in 1 .. Len(old.events) : old.events[x] \in Event
  BY DEF Snapshot
<1>3. c \in Catalogs /\ e.doc \in Docs
  BY <1>1, <1>2 DEF Event
<1>4. old.cats[c].doc # NoDoc
  BY <1>1, <1>3, NullAssumption DEF Matched
<1>5. PICK x \in 1 .. Len(old.events) :
        x <= b /\ NewestAt(old, x) /\ old.events[x].catalog = c
  BY <1>3, <1>4 DEF Placed
<1>6. x = i
  <2>1. ~ (x < i) /\ ~ (i < x)
    BY <1>1, <1>2, <1>5 DEF NewestAt
  <2> QED BY <2>1, <1>2
<1>7. i + Cardinality(S) <= FeedLimit
  <2>1. /\ Cardinality(S) \in Nat /\ Cardinality(Catalogs) \in Nat
        /\ Cardinality(S) <= Cardinality(Catalogs) - 1
    BY <1>3, ChangedCardinality
  <2> HIDE DEF S
  <2> QED BY <2>1, <1>2, <1>5, <1>6, LimitAssumption
<1>8. k(i) \in 1 .. Len(n.events) /\ NewestAt(n, k(i)) /\ n.events[k(i)] = e
  BY <1>1, <1>7, EventKept
<1>9. n \in Snapshot /\ Matched(n)
  BY NextSnapshotType, NextMatched
<1>10. \A y \in 1 .. Len(n.events) : NewestAt(n, y) =>
         \E z \in 1 .. Len(LatestEvents(n)) : LatestEvents(n)[z] = n.events[y]
  BY <1>9, LatestOfMatched
<1> HIDE DEF n, k, e
<1> QED BY <1>8, <1>10 DEF n, e

(* The latest view of a latest view lists the same events.                 *)
LEMMA LatestAgain ==
  ASSUME NEW s \in Snapshot, Matched(s), NEW j \in 1 .. Len(LatestEvents(s))
  PROVE  LET l == LatestEvents(Latest(s))
         IN \E k \in 1 .. Len(l) : l[k] = LatestEvents(s)[j]
<1>1. /\ Latest(s) \in Snapshot /\ Matched(Latest(s))
      /\ Latest(s).events = LatestEvents(s)
  BY LatestType, LatestMatched
<1>2. NewestAt(Latest(s), j)
  BY LatestOnce
<1> QED BY <1>1, <1>2, LatestOfMatched

(* With room for a cycle, the event of a catalog keeps its identity while  *)
(* its document does not change: through checks, failures and the round    *)
(* trip.                                                                   *)
THEOREM EventsKept ==
  ASSUME FeedHoldsCycle
  PROVE  Spec => EventsStable
<1> DEFINE Told(s) == {LatestEvents(s)[j] : j \in DOMAIN LatestEvents(s)}
<1>1. ASSUME IInv, PlaceInv, [Next]_vars, NEW i \in DOMAIN LatestEvents(current),
             current'.cats[LatestEvents(current)[i].catalog].doc
               = LatestEvents(current)[i].doc
      PROVE  LatestEvents(current)[i] \in Told(current')
  <2> DEFINE e == LatestEvents(current)[i]
  <2>1. current \in Snapshot /\ cycle \in Nat /\ Matched(current)
    BY <1>1, BoundAssumption DEF IInv, TypeOK
  <2>2. /\ LatestEvents(current) \in Seq(Event) /\ i \in 1 .. Len(LatestEvents(current))
        /\ e \in Event
    BY <1>1, <2>1, LatestOnce
  <2>3. ASSUME NEW p \in Procs, Commit(p) PROVE e \in Told(current')
    <3>1. /\ cycle < PerCycle /\ MadeFrom(current, current')
          /\ current' \in Snapshot
      BY <1>1, <2>3, CommitMakes
    <3>2. PICK m \in Manifests, stamp \in Time :
            current' = NextSnapshot(current, m, stamp)
      BY <3>1 DEF MadeFrom
    <3>3. e.catalog \in Catalogs /\ Catalogs # {}
      BY <2>2 DEF Event
    <3>4. e.doc = current.cats[e.catalog].doc
      <4>1. PICK x \in 1 .. Len(current.events) :
              NewestAt(current, x) /\ e = current.events[x]
        BY <2>1, <2>2, LatestOfMatched
      <4> QED BY <2>1, <4>1 DEF Matched
    <3>5. e.catalog \notin ChangedBy(current, m)
      BY <1>1, <2>1, <3>2, <3>3, <3>4, NextCatalog
    <3>6. /\ Depth(cycle) \in Nat \ {0}
          /\ Depth(cycle) + Cardinality(Catalogs) - 1 <= FeedLimit
      <4>1. /\ Depth(cycle) \in Nat \ {0}
            /\ Depth(cycle + 1) = Depth(cycle) + Cardinality(Catalogs) - 1
            /\ Depth(cycle + 1) <= Depth(PerCycle) /\ Depth(PerCycle) \in Nat
        BY <2>1, <3>1, <3>3, DepthGrows
      <4>2. Depth(PerCycle) <= FeedLimit
        BY DEF FeedHoldsCycle
      <4>3. Cardinality(Catalogs) \in Nat
        BY CatalogsAssumption, FS_CardinalityType
      <4> QED BY <4>1, <4>2, <4>3, LimitAssumption
    <3>7. Placed(current, Depth(cycle))
      BY <1>1 DEF PlaceInv
    <3> DEFINE l == LatestEvents(NextSnapshot(current, m, stamp))
    <3>8. \E k \in 1 .. Len(l) : l[k] = e
      BY <2>1, <2>2, <3>5, <3>6, <3>7, EventSurvives
    <3>9. l \in Seq(Event) /\ l = LatestEvents(current')
      BY <3>1, <3>2, LatestOnce
    <3> HIDE DEF l, e
    <3>10. \E k \in DOMAIN l : l[k] = e
      BY <3>8, <3>9
    <3> QED BY <3>9, <3>10
  <2>4. ASSUME Redistribute PROVE e \in Told(current')
    <3> DEFINE l == LatestEvents(Latest(current))
    <3>1. current' = Latest(current)
      BY <2>4 DEF Redistribute
    <3>2. \E k \in 1 .. Len(l) : l[k] = e
      BY <2>1, <2>2, LatestAgain
    <3>3. l \in Seq(Event)
      BY <2>1, LatestType, LatestOnce
    <3>4. l = LatestEvents(current')
      BY <3>1
    <3> HIDE DEF l, e
    <3>5. \E k \in DOMAIN l : l[k] = e
      BY <3>2, <3>3
    <3> QED BY <3>4, <3>5
  <2>5. CASE ~ (\E p \in Procs : Commit(p)) /\ ~ Redistribute
    <3>1. current' = current
      BY <1>1, <2>5 DEF Next, Begin, PutDocument, PutFeed, PutSnapshot, Fail, vars
    <3> QED BY <1>1, <3>1
  <2> QED BY <2>3, <2>4, <2>5
<1>2. IInv /\ PlaceInv /\ [Next]_vars =>
        [\A i \in DOMAIN LatestEvents(current) :
           LET e == LatestEvents(current)[i] IN
             current'.cats[e.catalog].doc = e.doc =>
               e \in {LatestEvents(current')[j] :
                        j \in DOMAIN LatestEvents(current')}]_vars
  BY <1>1
<1>3. Init => PlaceInv
  BY PlaceInit
<1>4. IInv /\ PlaceInv /\ [Next]_vars => PlaceInv'
  BY PlaceNext
<1> QED BY <1>2, <1>3, <1>4, Invariance, PTL DEF Spec, EventsStable
===============================================================================
