------------------------------- MODULE Publisher -------------------------------
(***************************************************************************)
(* Publish (internal/publisher/publisher.go) by processes that share one   *)
(* publication directory and may die between any two writes, and the round *)
(* trip of a publication through the signed latest-only distribution into  *)
(* a new directory (Latest and RestoreLatest).  Objects are content        *)
(* addressed; clocks are read before the lock is awaited and not trusted.  *)
(***************************************************************************)
EXTENDS Publication

CONSTANTS
  Procs,      \* processes that publish
  MaxSeq,     \* bound on publications
  MaxFails,   \* bound on failed publications
  PerCycle    \* publications between two restores of the workflow

ASSUME BoundAssumption ==
  MaxSeq \in Nat /\ MaxFails \in Nat /\ PerCycle \in Nat

VARIABLES
  dats,     \* objects/*.dat
  feeds,    \* objects/*.xml, by the events they list
  snaps,    \* objects/*.json
  current,  \* the snapshot current.json points to; NoSnapshot: no file
  lock,     \* the process that holds .publish.lock
  pc,       \* where each process is
  next,     \* the snapshot each process builds
  cycle,    \* publications since the directory was restored
  fails     \* publications that failed

objects == <<dats, feeds, snaps>>
vars == <<objects, current, lock, pc, next, cycle, fails>>

Init ==
  /\ dats = {} /\ feeds = {} /\ snaps = {}
  /\ current = NoSnapshot
  /\ lock = {}
  /\ pc = [p \in Procs |-> "idle"]
  /\ next = [p \in Procs |-> NoSnapshot]
  /\ cycle = 0 /\ fails = 0

-----------------------------------------------------------------------------
(* Mutant of Lock: the exclusive lock is not taken.                        *)
LockShared(p) == lock' = {p}

(* lockPublisher waits for the exclusive lock.                             *)
Lock(p) == lock = {} /\ lock' = {p}

(* A process ends or dies; what it wrote stays.                            *)
End(p) ==
  /\ pc' = [pc EXCEPT ![p] = "idle"]
  /\ next' = [next EXCEPT ![p] = NoSnapshot]
  /\ lock' = lock \ {p}

(* Publish up to the first write: the manifest, the lock, the prior        *)
(* snapshot and the clock.  A renamed catalog is refused here; the code    *)
(* may have put documents by then, as a publication that fails later has.  *)
Begin(p) ==
  /\ pc[p] = "idle"
  /\ current.seq < MaxSeq /\ cycle < PerCycle
  /\ Lock(p)
  /\ \E m \in Manifests, stamp \in Time \ {Never} :
       /\ stamp >= current.at
       /\ SameIdentity(current, m)
       /\ next' = [next EXCEPT ![p] = NextSnapshot(current, m, stamp)]
  /\ pc' = [pc EXCEPT ![p] = "documents"]
  /\ UNCHANGED <<objects, current, cycle, fails>>

(* put of a candidate document; one that is there is left alone.           *)
PutDocument(p) ==
  /\ pc[p] = "documents"
  /\ \E d \in ArtifactsOf(next[p]) \ dats : dats' = dats \cup {d}
  /\ UNCHANGED <<feeds, snaps, current, lock, pc, next, cycle, fails>>

(* Mutant of PutFeed: current.json is replaced before the snapshot is put. *)
PutFeedCommitting(p) ==
  /\ pc[p] = "documents"
  /\ ArtifactsOf(next[p]) \subseteq dats
  /\ feeds' = feeds \cup {next[p].events}
  /\ current' = next[p]
  /\ pc' = [pc EXCEPT ![p] = "feed"]
  /\ UNCHANGED <<dats, snaps, lock, next, cycle, fails>>

PutFeed(p) ==
  /\ pc[p] = "documents"
  /\ ArtifactsOf(next[p]) \subseteq dats
  /\ feeds' = feeds \cup {next[p].events}
  /\ pc' = [pc EXCEPT ![p] = "feed"]
  /\ UNCHANGED <<dats, snaps, current, lock, next, cycle, fails>>

PutSnapshot(p) ==
  /\ pc[p] = "feed"
  /\ snaps' = snaps \cup {next[p]}
  /\ pc' = [pc EXCEPT ![p] = "snapshot"]
  /\ UNCHANGED <<dats, feeds, current, lock, next, cycle, fails>>

(* verifySnapshot: everything the snapshot refers to can be read back.     *)
Verified(s) ==
  /\ s \in snaps /\ s.events \in feeds
  /\ Artifacts(s) \subseteq dats

Commit(p) ==
  /\ pc[p] = "snapshot"
  /\ Verified(next[p])
  /\ current' = next[p]
  /\ cycle' = cycle + 1
  /\ End(p)
  /\ UNCHANGED <<objects, fails>>

(* An error return or the death of the process between two writes.         *)
Fail(p) ==
  /\ pc[p] # "idle" /\ fails < MaxFails
  /\ fails' = fails + 1
  /\ End(p)
  /\ UNCHANGED <<objects, current, cycle>>

(* The directory is signed as its latest view, deployed, and rebuilt in a  *)
(* new directory by RestoreLatest, which renames it into place complete.   *)
Redistribute ==
  /\ lock = {} /\ current.seq > 0
  /\ LET s == Latest(current) IN
       /\ Artifacts(s) \subseteq ArtifactsOf(s)
       /\ dats' = ArtifactsOf(s) /\ feeds' = {s.events} /\ snaps' = {s}
       /\ current' = s
  /\ cycle' = 0
  /\ UNCHANGED <<lock, pc, next, fails>>

Next ==
  \/ \E p \in Procs :
       \/ Begin(p) \/ PutDocument(p) \/ PutFeed(p) \/ PutSnapshot(p)
       \/ Commit(p) \/ Fail(p)
  \/ Redistribute

Spec == Init /\ [][Next]_vars

-----------------------------------------------------------------------------
TypeOK ==
  /\ dats \subseteq Docs
  /\ \A s \in snaps : s.events \in feeds
  /\ current \in Snapshot /\ Len(current.events) <= FeedLimit
  /\ lock \subseteq Procs
  /\ pc \in [Procs -> {"idle", "documents", "feed", "snapshot"}]
  /\ next \in [Procs -> Snapshot]
  /\ cycle \in 0 .. PerCycle /\ fails \in 0 .. MaxFails

(* LoadSnapshot always succeeds: whatever dies between two writes, all     *)
(* that current.json leads to is there.                                    *)
CurrentComplete ==
  current # NoSnapshot =>
    /\ current \in snaps /\ current.events \in feeds
    /\ \A c \in Catalogs : current.cats[c].doc \in dats \cup {NoDoc}
    /\ \A i \in DOMAIN current.events : current.events[i].doc \in dats

(* No publication takes a working document away: it is kept until another  *)
(* one replaces it, whatever fails.                                        *)
DocumentsRetained ==
  [][\A c \in Catalogs :
       current.cats[c].doc # NoDoc => current'.cats[c].doc # NoDoc]_vars

(* The newest event of a catalog in the feed is its last change, also      *)
(* after a document came back to an earlier content.                       *)
Newest(i) ==
  \A j \in 1 .. i - 1 : current.events[j].catalog # current.events[i].catalog
EventsMatch ==
  \A i \in DOMAIN current.events :
    LET e == current.events[i] IN
      Newest(i) => /\ e.doc = current.cats[e.catalog].doc
                   /\ e.at = current.cats[e.catalog].changed

(* The signed feed announces every published document, once.               *)
EveryDocumentAnnounced ==
  \A c \in Catalogs :
    current.cats[c].doc # NoDoc =>
      Cardinality({i \in DOMAIN LatestEvents(current) :
                     LatestEvents(current)[i].catalog = c}) = 1

(* The event of a catalog keeps its identity while its document does not   *)
(* change, through checks, failures and the round trip.                    *)
EventsStable ==
  [][\A i \in DOMAIN LatestEvents(current) :
       LET e == LatestEvents(current)[i] IN
         current'.cats[e.catalog].doc = e.doc =>
           e \in {LatestEvents(current')[j] :
                    j \in DOMAIN LatestEvents(current')}]_vars

(* The writes of several processes and their deaths implement publications *)
(* that are atomic: none overwrites another that it did not read, and the  *)
(* clock of the publication does not go back.                              *)
Log == INSTANCE PublicationLog WITH current <- current
ImplementsLog == Log!Spec
=============================================================================
