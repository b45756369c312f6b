------------------------------ MODULE Publication ------------------------------
(***************************************************************************)
(* The data of a publication: catalogs, attempts, change events and        *)
(* snapshots, and what one call of Publish makes of them                   *)
(* (internal/publisher/publisher.go), with the latest-only view that is    *)
(* signed and restored (latest.go).  A hash is its content.                *)
(***************************************************************************)
EXTENDS Integers, FiniteSets, Sequences, SequencesExt

CONSTANTS
  Catalogs,   \* catalog IDs
  Docs,       \* extracted documents
  NoDoc,      \* no artifact, or a failed attempt
  Names,      \* expected DAT header names
  NoName,     \* the catalog is not in the snapshot
  MaxTime,    \* bound on clock readings
  Deadlines,  \* retry deadlines a failed acquisition may bring
  FeedLimit   \* Options.FeedLimit

ASSUME NullAssumption == NoDoc \notin Docs /\ NoName \notin Names
ASSUME CatalogsAssumption == IsFiniteSet(Catalogs)
ASSUME LimitAssumption ==
  MaxTime \in Nat /\ FeedLimit \in Nat \ {0} /\ Deadlines \subseteq Nat \ {0}

Never == 0
Time == 0 .. MaxTime

(* changed stands for LastChanged, Counts and Provenance, which are set    *)
(* together; the error code of a failed catalog is left out.               *)
Catalog == [name : Names \cup {NoName}, doc : Docs \cup {NoDoc},
            changed : Time, retry : Deadlines \cup {Never},
            health : {"none", "healthy", "failed"}]
Event == [catalog : Catalogs, seq : Nat, at : Time, doc : Docs]
Snapshot == [seq : Nat, at : Time, cats : [Catalogs -> Catalog],
             events : Seq(Event)]

NoCatalog == [name |-> NoName, doc |-> NoDoc, changed |-> Never,
              retry |-> Never, health |-> "none"]
NoSnapshot == [seq |-> 0, at |-> Never, cats |-> [c \in Catalogs |-> NoCatalog],
               events |-> <<>>]

(* A candidate document, or a failure with or without a retry time.        *)
Attempt == [name : Names, doc : Docs, retry : {Never}]
             \cup [name : Names, doc : {NoDoc}, retry : Deadlines \cup {Never}]

(* A manifest has at most one attempt for each catalog.                    *)
Manifests == UNION {[cs -> Attempt] : cs \in SUBSET Catalogs}

(* Mutant of Attempted: the failed refresh drops the artifact.             *)
AttemptedDropped(k, a, stamp) ==
  IF a.doc = NoDoc
  THEN [name |-> a.name, doc |-> NoDoc, changed |-> k.changed,
        retry |-> a.retry, health |-> "failed"]
  ELSE [name |-> a.name, doc |-> a.doc, retry |-> Never, health |-> "healthy",
        changed |-> IF k.doc = a.doc THEN k.changed ELSE stamp]

(* What an attempt does to its catalog: a failure keeps the last working   *)
(* document and the deadline unless it brings one.                         *)
Attempted(k, a, stamp) ==
  IF a.doc = NoDoc
  THEN [name |-> a.name, doc |-> k.doc, changed |-> k.changed,
        retry |-> IF a.retry # Never THEN a.retry ELSE k.retry,
        health |-> "failed"]
  ELSE [name |-> a.name, doc |-> a.doc, retry |-> Never, health |-> "healthy",
        changed |-> IF k.doc = a.doc THEN k.changed ELSE stamp]

(* A manifest may not rename a catalog of the snapshot.                    *)
SameIdentity(old, m) ==
  \A c \in DOMAIN m : old.cats[c].name \in {NoName, m[c].name}

(* Mutant of ChangedBy: every successful check is a change.                *)
ChangedByCheck(old, m) == {c \in DOMAIN m : m[c].doc # NoDoc}

(* The catalogs whose artifact is a new content.                           *)
ChangedBy(old, m) ==
  {c \in DOMAIN m : m[c].doc \notin {NoDoc, old.cats[c].doc}}

(* One event for each new content; the order within a publication is that  *)
(* of the catalog IDs.                                                     *)
FreshEvents(old, m, stamp) ==
  LET ids == SetToSeq(ChangedBy(old, m)) IN
    [i \in DOMAIN ids |-> [catalog |-> ids[i], seq |-> old.seq + 1,
                           at |-> stamp, doc |-> m[ids[i]].doc]]

Cut(events) ==
  SubSeq(events, 1, IF Len(events) < FeedLimit THEN Len(events) ELSE FeedLimit)

(* Mutants of NextEvents: the newest events go to the end of the feed, and *)
(* the feed is not cut off.                                                *)
NextEventsAppended(old, m, stamp) == Cut(old.events \o FreshEvents(old, m, stamp))
NextEventsUncut(old, m, stamp) == FreshEvents(old, m, stamp) \o old.events

(* Newest first, cut off at FeedLimit.                                     *)
NextEvents(old, m, stamp) == Cut(FreshEvents(old, m, stamp) \o old.events)

NextSnapshot(old, m, stamp) ==
  [seq |-> old.seq + 1, at |-> stamp,
   cats |-> [c \in Catalogs |-> IF c \in DOMAIN m
                                THEN Attempted(old.cats[c], m[c], stamp)
                                ELSE old.cats[c]],
   events |-> NextEvents(old, m, stamp)]

(* Mutant of LatestEvents: a catalog is not marked as seen.                *)
LatestEventsRepeated(s) ==
  SelectSeq(s.events, LAMBDA e : s.cats[e.catalog].doc = e.doc)

(* Latest: for each catalog the first event that names its document.       *)
LatestEvents(s) ==
  LET kept[i \in 0 .. Len(s.events)] ==
        IF i = 0 THEN <<>>
        ELSE LET seen == kept[i - 1]
                 e == s.events[i]
             IN IF /\ s.cats[e.catalog].doc = e.doc
                   /\ \A j \in DOMAIN seen : seen[j].catalog # e.catalog
                THEN Append(seen, e) ELSE seen
  IN kept[Len(s.events)]

Latest(s) == [seq |-> s.seq, at |-> s.at, cats |-> s.cats,
              events |-> LatestEvents(s)]

(* The documents of the catalogs, and all documents a snapshot refers to.  *)
ArtifactsOf(s) == {s.cats[c].doc : c \in Catalogs} \ {NoDoc}
Artifacts(s) ==
  ArtifactsOf(s) \cup {s.events[i].doc : i \in DOMAIN s.events}
=============================================================================
