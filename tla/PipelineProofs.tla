---------------------------- MODULE PipelineProofs -----------------------------
(***************************************************************************)
(* Proofs about Pipeline: its types, that every deployed site can be       *)
(* restored, and, when readers see a deployment before the next job, that  *)
(* versions and publications advance.                                      *)
(***************************************************************************)
EXTENDS Pipeline, PublicationProofs

(* The data repository has a tree when it is checked out, and the machine  *)
(* of a job that ended is gone.                                            *)
StepInv ==
  /\ step \in Ended => state = NoSnapshot /\ prior = 0
  /\ step = "checkout" => base \in 1 .. Len(data)

(* What every step keeps.                                                  *)
IInv == TypeOK /\ StepInv

(* A publication in the job's directory is a snapshot.                     *)
LEMMA PublishType ==
  ASSUME state \in Snapshot, NEW m \in Manifests, Publish(m)
  PROVE  /\ state' \in Snapshot
         /\ \E stamp \in Time : state' = NextSnapshot(state, m, stamp)
BY NextSnapshotType DEF Publish

(* The manifest of the synthetic catalog is a manifest.                    *)
LEMMA SyntheticManifest ==
  ASSUME NEW name \in Names
  PROVE  [c \in {Synthetic} |->
            [name |-> name, doc |-> Fixture, retry |-> Never]] \in Manifests
<1>1. [name |-> name, doc |-> Fixture, retry |-> Never] \in Attempt
  BY PipelineAssumption DEF Attempt
<1>2. {Synthetic} \in SUBSET Catalogs
  BY PipelineAssumption
<1> DEFINE f == [c \in {Synthetic} |->
                   [name |-> name, doc |-> Fixture, retry |-> Never]]
<1>3. f \in [{Synthetic} -> Attempt]
  BY <1>1
<1> HIDE DEF f
<1>4. f \in Manifests
  BY <1>2, <1>3, Zenon DEF Manifests
<1> QED BY <1>4 DEF f

(* The export is a tree: every catalog has a document or none.             *)
LEMMA ExportedType ==
  ASSUME IInv, step = "checkout"
  PROVE  Exported \in Tree /\ Append(data, Exported) \in Seq(Tree)
         /\ Len(Append(data, Exported)) = Len(data) + 1
<1>1. data \in Seq(Tree) /\ base \in 1 .. Len(data) /\ state \in Snapshot
  BY DEF IInv, TypeOK, StepInv
<1>2. data[base] \in Tree
  BY <1>1
<1>3. Exported \in Tree
  BY <1>1, <1>2 DEF Exported, Tree, Snapshot, Catalog
<1> QED BY <1>1, <1>3

(* What the steps of a job hold before they have anything.                 *)
LEMMA NoIndexType == NoIndex \in Index
BY NoSnapshotType DEF NoIndex, Index

(* The first state has no deployment and no job.                           *)
LEMMA InitOK == Init => IInv
<1> SUFFICES ASSUME Init PROVE IInv
  OBVIOUS
<1> DEFINE t == [c \in Catalogs |-> NoDoc]
<1>1. t \in Tree
  BY DEF Tree
<1> HIDE DEF t
<1>2. <<t>> \in Seq(Tree) /\ Len(<<t>>) = 1
  BY <1>1
<1>3. data = <<t>>
  BY DEF Init, t
<1>4. TypeOK
  <2>1. sites \in Seq(Index) /\ Len(sites) = 0
    BY DEF Init
  <2> QED BY <1>2, <1>3, <2>1, NoIndexType, NoSnapshotType, PipelineAssumption
          DEF Init, TypeOK, Ended
<1>5. StepInv
  BY DEF Init, StepInv, Ended
<1> QED BY <1>4, <1>5 DEF IInv

(* The end of a job keeps the public state and clears its own.             *)
LEMMA EndJobOK ==
  ASSUME IInv, NEW how \in {"succeeded", "failed"}, EndJob(how), UNCHANGED public,
         fails' \in 0 .. MaxFails
  PROVE  IInv'
<1>1. TypeOK'
  <2>1. index' \in Index /\ state' \in Snapshot
    BY NoIndexType, NoSnapshotType DEF EndJob
  <2> QED BY <2>1 DEF IInv, TypeOK, EndJob, public, Ended
<1>2. StepInv'
  BY DEF StepInv, EndJob, Ended
<1> QED BY <1>1, <1>2 DEF IInv

(* Every step of the job, and what comes from outside, keeps it.           *)
LEMMA NextOK == IInv /\ [Next]_vars => IInv'
<1> SUFFICES ASSUME IInv, [Next]_vars PROVE IInv'
  OBVIOUS
<1> USE DEF public, job
<1>1. CASE UNCHANGED vars
  BY <1>1 DEF IInv, TypeOK, StepInv, vars
<1>2. CASE Bootstrap
  BY <1>2 DEF IInv, TypeOK, StepInv, Bootstrap, Ended
<1>3. CASE Restore
  <2>1. sites[served] \in Index
    BY <1>3 DEF IInv, TypeOK, Restore
  <2>2. state' \in Snapshot /\ prior' \in Nat
    BY <1>3, <2>1 DEF Restore, Index
  <2> QED BY <1>3, <2>2 DEF IInv, TypeOK, StepInv, Restore, Ended
<1>4. CASE PublishSynthetic
  <2>1. state' \in Snapshot
    BY <1>4, SyntheticManifest, PublishType DEF IInv, TypeOK, PublishSynthetic
  <2> QED BY <1>4, <2>1 DEF IInv, TypeOK, StepInv, PublishSynthetic, Ended
<1>5. CASE PublishAcquired
  <2>1. state' \in Snapshot
    BY <1>5, PublishType DEF IInv, TypeOK, PublishAcquired
  <2> QED BY <1>5, <2>1 DEF IInv, TypeOK, StepInv, PublishAcquired, Ended
<1>6. CASE Checkout
  <2>1. Len(data) \in Nat /\ Len(data) > 0
    BY DEF IInv, TypeOK
  <2> QED BY <1>6, <2>1 DEF IInv, TypeOK, StepInv, Checkout, Ended
<1>7. CASE PushData
  <2>1. /\ data \in Seq(Tree) /\ base \in 1 .. Len(data)
        /\ Append(data, Exported) \in Seq(Tree)
        /\ Len(Append(data, Exported)) = Len(data) + 1
    BY <1>7, ExportedType DEF IInv, TypeOK, StepInv, PushData
  <2>2. /\ data' \in Seq(Tree) /\ Len(data') > 0
        /\ base \in 0 .. Len(data') /\ commit' \in 0 .. Len(data')
    <3> DEFINE e == Exported
    <3> HIDE DEF e
    <3>1. \/ commit' = base /\ data' = data
          \/ Len(data) = base /\ data' = Append(data, e) /\ commit' = base + 1
      BY <1>7 DEF PushData, e
    <3> QED BY <2>1, <3>1 DEF e
  <2> QED BY <1>7, <2>2 DEF IInv, TypeOK, StepInv, PushData, Ended
<1>8. CASE PushRefused
  BY <1>8, EndJobOK DEF PushRefused, IInv, TypeOK
<1>9. CASE Stage
  <2>1. index' \in Index
    BY <1>9, LatestType DEF IInv, TypeOK, Stage, Index
  <2> QED BY <1>9, <2>1 DEF IInv, TypeOK, StepInv, Stage, Ended
<1>10. CASE VerifyDownloads
  BY <1>10 DEF IInv, TypeOK, StepInv, VerifyDownloads, Ended
<1>11. CASE Deploy
  <2>1. sites' \in Seq(Index) /\ Len(sites') = Len(sites) + 1 /\ Len(sites) \in Nat
    BY <1>11 DEF IInv, TypeOK, Deploy
  <2>2. served' \in 0 .. Len(sites') /\ expired' \in 0 .. Len(sites')
    BY <1>11, <2>1 DEF IInv, TypeOK, Deploy
  <2> QED BY <1>11, <2>1, <2>2 DEF IInv, TypeOK, StepInv, Deploy, Ended
<1>12. CASE VerifyDeployed
  BY <1>12, EndJobOK DEF VerifyDeployed, IInv, TypeOK
<1>13. CASE VerifyGivenUp
  BY <1>13, EndJobOK DEF VerifyGivenUp, IInv, TypeOK
<1>14. CASE Fail
  <2>1. fails' \in 0 .. MaxFails
    BY <1>14, PipelineAssumption DEF IInv, TypeOK, Fail
  <2> QED BY <1>14, <2>1, EndJobOK DEF Fail
<1>15. CASE Propagate \/ Expire
  <2>1. Len(sites) \in Nat
    BY DEF IInv, TypeOK
  <2> QED BY <1>15, <2>1 DEF IInv, TypeOK, StepInv, Propagate, Expire
<1>16. CASE OtherPush
  <2>1. PICK c \in Catalogs : data' = Append(data, [data[Len(data)] EXCEPT ![c] = NoDoc])
    BY <1>16 DEF OtherPush
  <2>2. data \in Seq(Tree) /\ Len(data) \in Nat /\ Len(data) > 0
    BY DEF IInv, TypeOK
  <2>3. data[Len(data)] \in Tree
    BY <2>2
  <2> DEFINE t == [data[Len(data)] EXCEPT ![c] = NoDoc]
  <2>4. t \in Tree
    BY <2>3 DEF Tree
  <2> HIDE DEF t
  <2>5. data' \in Seq(Tree) /\ Len(data') = Len(data) + 1
    BY <2>1, <2>2, <2>4 DEF t
  <2>6. UNCHANGED <<sites, served, expired, job, fails>>
    BY <1>16 DEF OtherPush
  <2> QED BY <2>2, <2>5, <2>6 DEF IInv, TypeOK, StepInv
<1> QED BY <1>1, <1>2, <1>3, <1>4, <1>5, <1>6, <1>7, <1>8, <1>9, <1>10, <1>11,
        <1>12, <1>13, <1>14, <1>15, <1>16 DEF Next, JobStep

(* The inductive invariant holds of every behaviour of the pipeline.       *)
THEOREM Invariance == Spec => []IInv
BY InitOK, NextOK, PTL DEF Spec

(* Every reachable state has the types of the job's files and of the site. *)
THEOREM TypeCorrect == Spec => []TypeOK
<1>1. IInv => TypeOK
  BY DEF IInv
<1> QED BY <1>1, Invariance, PTL

-----------------------------------------------------------------------------
(* The commit of an index holds its documents, in a data repository t.     *)
Held(i, t) ==
  /\ i.commit \in DOMAIN t
  /\ \A d \in ArtifactsOf(i.snap) : t[i.commit][Download(i, d)] = d

(* The feed of a signed index refers to the documents of its catalogs.     *)
Closed(i) == Artifacts(i.snap) \subseteq ArtifactsOf(i.snap)

(* What was verified is deployed, and what was deployed stays.             *)
ServeInv ==
  /\ step \in {"staged", "verified", "deployed"} => Closed(index)
  /\ step \in {"verified", "deployed"} => Held(index, data)
  /\ \A i \in 1 .. Len(sites) : Held(sites[i], data) /\ Closed(sites[i])

(* The check of downloads against the data repository is what readers need *)
(* to restore a site.                                                      *)
LEMMA HeldIsDownloadable ==
  ASSUME NEW i
  PROVE  Held(i, data) <=> Downloadable(i)
BY DEF Held, Downloadable

(* A push leaves the earlier commits as they are.                          *)
LEMMA HeldGrows ==
  ASSUME NEW i, NEW t \in Seq(Tree), NEW u \in Tree, Held(i, t)
  PROVE  Held(i, Append(t, u))
<1>1. /\ i.commit \in 1 .. Len(t) /\ i.commit \in DOMAIN Append(t, u)
      /\ Append(t, u)[i.commit] = t[i.commit]
  BY DEF Held
<1> QED BY <1>1 DEF Held

(* The latest view refers to the documents of its catalogs only.           *)
LEMMA LatestClosed ==
  ASSUME NEW s \in Snapshot
  PROVE  Artifacts(Latest(s)) \subseteq ArtifactsOf(Latest(s))
<1> DEFINE l == LatestEvents(s)
<1>1. /\ Latest(s).cats = s.cats /\ Latest(s).events = l
      /\ s.cats \in [Catalogs -> Catalog]
      /\ s.events \in Seq(Event)
  BY LatestType DEF Snapshot
<1>2. l \in Seq(Event)
  BY LatestOnce
<1>3. ASSUME NEW j \in 1 .. Len(l)
      PROVE  l[j].doc \in ArtifactsOf(s)
  <2>1. PICK i \in 1 .. Len(s.events) : First(s, i) /\ l[j] = s.events[i]
    BY <1>1, LatestKept DEF KeptTo
  <2>2. l[j].doc = s.cats[l[j].catalog].doc
    BY <2>1 DEF First, Announced
  <2>3. l[j] \in Event
    BY <1>2
  <2>4. l[j].catalog \in Catalogs /\ l[j].doc # NoDoc
    BY <2>3, NullAssumption DEF Event
  <2> QED BY <2>2, <2>4 DEF ArtifactsOf
<1> HIDE DEF l
<1>4. DOMAIN l = 1 .. Len(l)
  BY <1>2
<1> QED BY <1>1, <1>3, <1>4 DEF Artifacts, ArtifactsOf

(* Nothing succeeds before a job runs ...                                  *)
LEMMA ServeInit == Init => ServeInv
BY DEF Init, ServeInv

(* ... and a job that succeeds has seen its own deployment served.         *)
LEMMA ServeNext ==
  ASSUME IInv, ServeInv, [Next]_vars
  PROVE  ServeInv'
<1> USE DEF public, job
<1>1. CASE Deploy
  <2>1. /\ sites \in Seq(Index) /\ sites' = Append(sites, index)
        /\ index \in Index /\ step = "verified" /\ step' = "deployed"
        /\ UNCHANGED <<data, index>>
    BY <1>1 DEF IInv, TypeOK, Deploy
  <2>2. /\ Len(sites') = Len(sites) + 1 /\ Len(sites) \in Nat
        /\ \A i \in 1 .. Len(sites) : sites'[i] = sites[i]
        /\ sites'[Len(sites) + 1] = index
    BY <2>1
  <2>3. Held(index, data) /\ Closed(index)
    BY <2>1 DEF ServeInv
  <2>4. ASSUME NEW i \in 1 .. Len(sites')
        PROVE  Held(sites'[i], data') /\ Closed(sites'[i])
    <3>1. CASE i \in 1 .. Len(sites)
      BY <2>1, <2>2, <3>1 DEF ServeInv
    <3>2. CASE i = Len(sites) + 1
      BY <2>1, <2>2, <2>3, <3>2
    <3> QED BY <2>2, <3>1, <3>2
  <2>5. Held(index', data') /\ Closed(index')
    BY <2>1, <2>3
  <2> QED BY <2>4, <2>5 DEF ServeInv
<1>2. CASE Stage
  <2>1. Closed(index')
    BY <1>2, LatestClosed DEF IInv, TypeOK, Stage, Closed
  <2> QED BY <1>2, <2>1 DEF ServeInv, Stage
<1>3. CASE VerifyDownloads
  <2>1. Held(index', data')
    BY <1>3, HeldIsDownloadable DEF VerifyDownloads
  <2> QED BY <1>3, <2>1 DEF ServeInv, VerifyDownloads
<1>4. ASSUME NEW u \in Tree, data' = Append(data, u), UNCHANGED <<sites, index>>,
             \/ step' = step
             \/ step' = "pushed"
      PROVE  ServeInv'
  <2>1. data \in Seq(Tree)
    BY DEF IInv, TypeOK
  <2> QED BY <1>4, <2>1, HeldGrows DEF ServeInv
<1>5. CASE PushData
  <2>1. Exported \in Tree
    BY <1>5, ExportedType DEF PushData
  <2>2. CASE data' = Append(data, Exported)
    BY <1>4, <1>5, <2>1, <2>2 DEF PushData
  <2>3. CASE data' = data
    BY <1>5, <2>3 DEF PushData, ServeInv
  <2> QED BY <1>5, <2>2, <2>3 DEF PushData
<1>6. CASE OtherPush
  <2>1. PICK c \in Catalogs : data' = Append(data, [data[Len(data)] EXCEPT ![c] = NoDoc])
    BY <1>6 DEF OtherPush
  <2>2. data[Len(data)] \in Tree
    BY DEF IInv, TypeOK
  <2>3. [data[Len(data)] EXCEPT ![c] = NoDoc] \in Tree
    BY <2>2 DEF Tree
  <2>4. UNCHANGED <<sites, index, step>>
    BY <1>6 DEF OtherPush
  <2> QED BY <1>4, <2>1, <2>3, <2>4
<1>7. CASE \/ PushRefused \/ VerifyDeployed \/ VerifyGivenUp \/ Fail
  <2>1. UNCHANGED <<sites, data>> /\ step' \in {"succeeded", "failed"}
    BY <1>7 DEF PushRefused, VerifyDeployed, VerifyGivenUp, Fail, EndJob
  <2> QED BY <2>1 DEF ServeInv
<1>8. CASE \/ Bootstrap \/ Restore \/ PublishSynthetic \/ PublishAcquired \/ Checkout
  <2>1. /\ UNCHANGED <<sites, data, index>>
        /\ step' \in {"restored", "published", "acquired", "checkout"}
    BY <1>8 DEF Bootstrap, Restore, PublishSynthetic, PublishAcquired, Checkout
  <2> QED BY <2>1 DEF ServeInv
<1>9. CASE Propagate \/ Expire \/ UNCHANGED vars
  BY <1>9 DEF ServeInv, Propagate, Expire, vars
<1> QED BY <1>1, <1>2, <1>3, <1>5, <1>6, <1>7, <1>8, <1>9 DEF Next, JobStep

(* Unless a document is longer than MaxInput, every site that was ever     *)
(* deployed can be restored from its index (RestorePublication), whatever  *)
(* was pushed to the data repository since.                                *)
THEOREM AlwaysRestorable ==
  ASSUME BigDocs = {}
  PROVE  Spec => []SiteRestorable
<1>1. IInv /\ ServeInv => SiteRestorable
  <2> SUFFICES ASSUME IInv, ServeInv, NEW i \in DOMAIN sites
               PROVE  Restorable(sites[i])
    BY DEF SiteRestorable
  <2>1. i \in 1 .. Len(sites)
    BY DEF IInv, TypeOK
  <2>2. Held(sites[i], data) /\ Closed(sites[i])
    BY <2>1 DEF ServeInv
  <2> QED BY <2>2, HeldIsDownloadable DEF Restorable, Closed
<1> QED BY <1>1, ServeInit, ServeNext, Invariance, PTL DEF Spec

-----------------------------------------------------------------------------
(* No catalog loses its document from one snapshot to another.             *)
Keeps(s, t) ==
  \A c \in Catalogs : s.cats[c].doc # NoDoc => t.cats[c].doc # NoDoc

Newest == sites[Len(sites)]

(* A snapshot continues the newest deployment: at least as new, or newer.  *)
Continues(s) ==
  Len(sites) > 0 => Newest.snap.seq <= s.seq /\ Keeps(Newest.snap, s)
Advances(s) ==
  Len(sites) > 0 => Newest.snap.seq < s.seq /\ Keeps(Newest.snap, s)

LastVersion == IF Len(sites) > 0 THEN Newest.version ELSE 0

(* The job works on the newest deployment: it has its version, continues   *)
(* its publication and has deployed at most one index itself.              *)
JobInv ==
  /\ step \in {"restored", "published", "acquired", "checkout", "pushed",
               "staged", "verified"} => prior = LastVersion
  /\ step = "restored" => Continues(state)
  /\ step \in {"published", "acquired", "checkout", "pushed"} => Advances(state)
  /\ step \in {"staged", "verified"} =>
       index.version = LastVersion + 1 /\ Advances(index.snap)
  /\ step = "deployed" => Len(sites) > 0 /\ Newest = index

ContInv == JobInv /\ VersionsAdvance /\ SiteContinues

(* The types of the last deployment.                                       *)
LEMMA NewestType ==
  ASSUME IInv
  PROVE  /\ Len(sites) \in Nat
         /\ \A i \in 1 .. Len(sites) : /\ sites[i].version \in Nat
                                      /\ sites[i].snap \in Snapshot
                                      /\ sites[i].snap.seq \in Nat
         /\ Len(sites) > 0 => /\ Newest.version \in Nat /\ Newest.snap \in Snapshot
                              /\ Newest.snap.seq \in Nat
<1>1. sites \in Seq(Index)
  BY DEF IInv, TypeOK
<1>2. Len(sites) \in Nat /\ \A i \in 1 .. Len(sites) : sites[i] \in Index
  BY <1>1
<1>3. \A i \in Index : i.version \in Nat /\ i.snap \in Snapshot /\ i.snap.seq \in Nat
  BY DEF Index, Snapshot
<1>4. Len(sites) > 0 => Newest \in Index
  BY <1>2 DEF Newest
<1> QED BY <1>2, <1>3, <1>4

(* Only a deployment changes the sites.                                    *)
LEMMA OthersKeepSites ==
  ASSUME [Next]_vars, ~ Deploy
  PROVE  sites' = sites
<1> USE DEF public
<1>1. ASSUME JobStep PROVE sites' = sites
  <2>1. CASE Bootstrap \/ Restore \/ PublishSynthetic \/ PublishAcquired
    BY <2>1 DEF Bootstrap, Restore, PublishSynthetic, PublishAcquired
  <2>2. CASE Checkout \/ PushData \/ PushRefused \/ Stage \/ VerifyDownloads
    BY <2>2 DEF Checkout, PushData, PushRefused, Stage, VerifyDownloads
  <2>3. CASE VerifyDeployed \/ VerifyGivenUp
    BY <2>3 DEF VerifyDeployed, VerifyGivenUp
  <2> QED BY <1>1, <2>1, <2>2, <2>3 DEF JobStep
<1>2. CASE Fail \/ Propagate \/ Expire \/ OtherPush
  BY <1>2 DEF Fail, Propagate, Expire, OtherPush
<1>3. CASE UNCHANGED vars
  BY <1>3 DEF vars
<1> QED BY <1>1, <1>2, <1>3 DEF Next

(* A publication is numbered next and keeps every document it does not     *)
(* replace.                                                                *)
LEMMA NextKeeps ==
  ASSUME NEW s \in Snapshot, NEW m \in Manifests, NEW stamp \in Time
  PROVE  /\ NextSnapshot(s, m, stamp).seq = s.seq + 1
         /\ Keeps(s, NextSnapshot(s, m, stamp))
<1>1. NextSnapshot(s, m, stamp).seq = s.seq + 1
  BY DEF NextSnapshot
<1>2. Keeps(s, NextSnapshot(s, m, stamp))
  BY NextCatalog DEF Keeps
<1> QED BY <1>1, <1>2

(* A publication in the job's directory moves on from the newest           *)
(* deployment.                                                             *)
LEMMA PublishAdvances ==
  ASSUME IInv, NEW m \in Manifests, Publish(m), Continues(state), UNCHANGED sites
  PROVE  Advances(state)'
<1>1. PICK stamp \in Time : state' = NextSnapshot(state, m, stamp)
  BY PublishType DEF IInv, TypeOK
<1>2. state \in Snapshot /\ state.seq \in Nat
  BY DEF IInv, TypeOK, Snapshot
<1>3. state'.seq = state.seq + 1 /\ Keeps(state, state')
  BY <1>1, <1>2, NextKeeps
<1>4. CASE Len(sites) > 0
  <2>1. Newest.snap.seq \in Nat
    BY <1>4, NewestType
  <2>2. Newest.snap.seq <= state.seq /\ Keeps(Newest.snap, state)
    BY <1>4 DEF Continues
  <2>3. Newest' = Newest
    BY DEF Newest
  <2>4. Keeps(Newest.snap, state')
    BY <2>2, <1>3 DEF Keeps
  <2> QED BY <1>2, <1>3, <2>1, <2>2, <2>3, <2>4 DEF Advances
<1>5. CASE ~ (Len(sites) > 0)
  BY <1>5 DEF Advances
<1> QED BY <1>4, <1>5

(* A job that begins when the last deployment is served continues it.      *)
LEMMA ContInit == Init => ContInv
BY DEF Init, ContInv, JobInv, VersionsAdvance, SiteContinues

(* The deployment of a newer publication with the next version keeps the   *)
(* order of all of them.                                                   *)
LEMMA DeployContinues ==
  ASSUME IInv, ContInv, Deploy
  PROVE  ContInv'
<1> DEFINE n == Len(sites)
<1>1. /\ sites \in Seq(Index) /\ index \in Index /\ n \in Nat
      /\ sites' = Append(sites, index) /\ index' = index
      /\ step = "verified" /\ step' = "deployed"
  BY DEF IInv, TypeOK, Deploy
<1>2. /\ Len(sites') = n + 1
      /\ \A i \in 1 .. n : sites'[i] = sites[i]
      /\ sites'[n + 1] = index
  BY <1>1
<1>3. JobInv'
  BY <1>1, <1>2 DEF JobInv, Newest
<1>4. \A i \in 1 .. n : /\ sites[i].version \in Nat /\ sites[i].snap.seq \in Nat
                        /\ sites[i].snap \in Snapshot
  BY NewestType
<1>5. index.version \in Nat /\ index.snap.seq \in Nat
  BY <1>1 DEF Index, Snapshot
<1>6. n > 0 => /\ index.version = sites[n].version + 1
               /\ sites[n].snap.seq < index.snap.seq
               /\ Keeps(sites[n].snap, index.snap)
  BY <1>1 DEF ContInv, JobInv, Advances, LastVersion, Newest
<1>7. ASSUME NEW i \in 1 .. n
      PROVE  /\ sites[i].version < index.version
             /\ sites[i].snap.seq < index.snap.seq
             /\ Keeps(sites[i].snap, index.snap)
  <2>1. n > 0 /\ n \in 1 .. n /\ n \in DOMAIN sites /\ i \in DOMAIN sites
    BY <1>1
  <2>2. i < n => /\ sites[i].version < sites[n].version
                 /\ sites[i].snap.seq < sites[n].snap.seq
                 /\ Keeps(sites[i].snap, sites[n].snap)
    BY <2>1 DEF ContInv, VersionsAdvance, SiteContinues, Keeps
  <2>3. CASE i = n
    BY <2>1, <2>3, <1>4, <1>5, <1>6
  <2>4. CASE i # n
    <3>1. i < n
      BY <2>4, <1>1
    <3>2. Keeps(sites[i].snap, index.snap)
      BY <2>1, <2>2, <3>1, <1>6 DEF Keeps
    <3>3. /\ sites[i].version \in Nat /\ sites[i].snap.seq \in Nat
          /\ sites[n].version \in Nat /\ sites[n].snap.seq \in Nat
      BY <2>1, <1>4
    <3> QED BY <2>1, <2>2, <3>1, <3>2, <3>3, <1>5, <1>6
  <2> QED BY <2>3, <2>4
<1>8. DOMAIN sites = 1 .. n /\ DOMAIN sites' = 1 .. n + 1
  BY <1>1, <1>2
<1>9. ASSUME NEW i \in 1 .. n + 1, NEW j \in 1 .. n + 1, i < j
      PROVE  /\ sites'[i].version < sites'[j].version
             /\ sites'[i].snap.seq < sites'[j].snap.seq
             /\ Keeps(sites'[i].snap, sites'[j].snap)
  <2>1. i \in 1 .. n
    BY <1>1, <1>9
  <2>2. CASE j = n + 1
    BY <2>1, <2>2, <1>2, <1>7
  <2>3. CASE j # n + 1
    <3>1. j \in 1 .. n
      BY <2>3, <1>1
    <3> QED BY <2>1, <3>1, <1>2, <1>8, <1>9 DEF ContInv, VersionsAdvance, SiteContinues, Keeps
  <2> QED BY <2>2, <2>3
<1>10. VersionsAdvance' /\ SiteContinues'
  BY <1>8, <1>9 DEF VersionsAdvance, SiteContinues, Keeps
<1> QED BY <1>3, <1>10 DEF ContInv

LEMMA ContNext ==
  ASSUME Prompt, IInv, ContInv, [Next]_vars
  PROVE  ContInv'
<1> USE DEF public, job
<1>1. CASE Deploy
  BY <1>1, DeployContinues
<1>2. SUFFICES ASSUME ~ Deploy PROVE JobInv'
  <2>1. ~ Deploy => sites' = sites
    BY OthersKeepSites
  <2> QED BY <1>1, <1>2, <2>1 DEF ContInv, VersionsAdvance, SiteContinues
<1>3. JobInv
  BY DEF ContInv
<1>4. CASE Bootstrap
  <2>1. /\ prior = 0 /\ prior' = prior /\ sites' = sites /\ ~ (Len(sites) > 0)
        /\ step' = "restored"
    BY <1>4 DEF IInv, StepInv, Bootstrap
  <2> QED BY <2>1 DEF JobInv, LastVersion, Continues
<1>5. CASE Restore
  <2>1. /\ served = Len(sites) /\ Len(sites) > 0 /\ sites' = sites
        /\ state' = Newest.snap /\ prior' = Newest.version /\ step' = "restored"
    <3>1. /\ served \in Nat /\ expired \in Nat /\ expired < served
      BY <1>5 DEF IInv, TypeOK, Restore
    <3> QED BY <1>5, <3>1 DEF Restore, Newest
  <2>2. Newest.snap.seq \in Nat
    BY <2>1, NewestType
  <2>3. Newest' = Newest
    BY <2>1 DEF Newest
  <2>4. Continues(state)'
    BY <2>1, <2>2, <2>3 DEF Continues, Keeps
  <2>5. prior' = LastVersion'
    BY <2>1, <2>3 DEF LastVersion
  <2> QED BY <2>1, <2>4, <2>5 DEF JobInv
<1>6. CASE PublishSynthetic
  <2>1. Advances(state)'
    BY <1>6, <1>3, SyntheticManifest, PublishAdvances DEF PublishSynthetic, JobInv
  <2> QED BY <1>6, <1>3, <2>1 DEF PublishSynthetic, JobInv, LastVersion, Newest
<1>7. CASE PublishAcquired
  <2>1. Advances(state) /\ sites' = sites /\ step' = "acquired" /\ prior' = prior
        /\ prior = LastVersion
    BY <1>7, <1>3 DEF PublishAcquired, JobInv
  <2>2. Continues(state)
    <3>1. Len(sites) > 0 => Newest.snap.seq \in Nat /\ state.seq \in Nat
      BY NewestType DEF IInv, TypeOK, Snapshot
    <3> QED BY <2>1, <3>1 DEF Continues, Advances
  <2>3. Advances(state)'
    <3>1. CASE UNCHANGED state
      BY <2>1, <3>1 DEF Advances, Newest
    <3>2. CASE \E m \in Manifests : Publish(m)
      BY <2>1, <2>2, <3>2, PublishAdvances
    <3> QED BY <1>7, <3>1, <3>2 DEF PublishAcquired
  <2>4. LastVersion' = LastVersion
    BY <2>1 DEF LastVersion, Newest
  <2> QED BY <2>1, <2>3, <2>4 DEF JobInv
<1>8. CASE Stage
  <2>1. /\ index' = [version |-> prior + 1, snap |-> Latest(state), commit |-> commit]
        /\ UNCHANGED <<sites, prior>> /\ step = "pushed" /\ step' = "staged"
    BY <1>8 DEF Stage
  <2>2. Latest(state).seq = state.seq /\ Latest(state).cats = state.cats
    BY LatestType DEF IInv, TypeOK
  <2>3. LastVersion' = LastVersion /\ Newest' = Newest
    BY <2>1 DEF LastVersion, Newest
  <2>4. Advances(index.snap)'
    BY <1>3, <2>1, <2>2, <2>3 DEF JobInv, Advances, Keeps
  <2> QED BY <1>3, <2>1, <2>3, <2>4 DEF JobInv
<1>9. CASE Checkout \/ PushData \/ VerifyDownloads
  <2>1. /\ UNCHANGED <<sites, state, prior, index>>
        /\ \/ step = "acquired" /\ step' = "checkout"
           \/ step = "checkout" /\ step' = "pushed"
           \/ step = "staged" /\ step' = "verified"
    BY <1>9 DEF Checkout, PushData, VerifyDownloads
  <2>2. LastVersion' = LastVersion /\ Newest' = Newest
    BY <2>1 DEF LastVersion, Newest
  <2> QED BY <1>3, <2>1, <2>2 DEF JobInv, Advances
<1>10. CASE \/ PushRefused \/ VerifyDeployed \/ VerifyGivenUp \/ Fail
  <2>1. step' \in {"succeeded", "failed"}
    BY <1>10 DEF PushRefused, VerifyDeployed, VerifyGivenUp, Fail, EndJob
  <2> QED BY <2>1 DEF JobInv
<1>11. CASE Propagate \/ Expire \/ OtherPush \/ UNCHANGED vars
  <2>1. UNCHANGED <<sites, step, state, prior, index>>
    BY <1>11 DEF Propagate, Expire, OtherPush, vars
  <2>2. LastVersion' = LastVersion /\ Newest' = Newest
    BY <2>1 DEF LastVersion, Newest
  <2> QED BY <1>3, <2>1, <2>2 DEF JobInv, Advances, Continues
<1> QED BY <1>2, <1>4, <1>5, <1>6, <1>7, <1>8, <1>9, <1>10, <1>11 DEF Next, JobStep

(* When readers see a deployment before the next job, the metadata         *)
(* versions of the deployments rise.                                       *)
THEOREM VersionsRise ==
  ASSUME Prompt
  PROVE  Spec => []VersionsAdvance
<1>1. IInv /\ ContInv /\ [Next]_vars => ContInv'
  BY ContNext
<1>2. ContInv => VersionsAdvance
  BY DEF ContInv
<1> QED BY <1>1, <1>2, ContInit, Invariance, PTL DEF Spec

(* Then every deployment is a newer publication than the ones before, and  *)
(* no catalog lost its document in between, whatever jobs failed.          *)
THEOREM DeploymentsContinue ==
  ASSUME Prompt
  PROVE  Spec => []SiteContinues
<1>1. IInv /\ ContInv /\ [Next]_vars => ContInv'
  BY ContNext
<1>2. ContInv => SiteContinues
  BY DEF ContInv
<1> QED BY <1>1, <1>2, ContInit, Invariance, PTL DEF Spec

(* Then a job succeeds only when readers see the index that it deployed.   *)
THEOREM SuccessServed ==
  ASSUME Prompt
  PROVE  Spec => SuccessIsServed
<1>1. ASSUME IInv, ContInv, [Next]_vars, step = "deployed", step' = "succeeded"
      PROVE  sites[served] = index
  <2>1. VerifyDeployed
    BY <1>1 DEF Next, JobStep, Bootstrap, Restore, PublishSynthetic, PublishAcquired,
       Checkout, PushData, PushRefused, Stage, VerifyDownloads, Deploy, VerifyGivenUp,
       Fail, Propagate, Expire, OtherPush, EndJob, vars, public, job
  <2>2. /\ served > expired /\ sites[served].version = index.version
    BY <2>1 DEF VerifyDeployed, DeploymentVerified
  <2>3. /\ served \in 1 .. Len(sites) /\ Len(sites) \in 1 .. Len(sites)
        /\ Newest = index /\ DOMAIN sites = 1 .. Len(sites)
    <3>1. /\ served \in 0 .. Len(sites) /\ expired \in 0 .. Len(sites)
          /\ sites \in Seq(Index) /\ Len(sites) \in Nat
      BY <1>1 DEF IInv, TypeOK
    <3>2. Len(sites) > 0 /\ Newest = index
      BY <1>1 DEF ContInv, JobInv
    <3> QED BY <2>2, <3>1, <3>2
  <2>4. sites[served].version \in Nat /\ Len(sites) \in Nat
    BY <1>1, <2>3, NewestType
  <2>5. ~ (served < Len(sites))
    BY <1>1, <2>2, <2>3, <2>4 DEF ContInv, VersionsAdvance, Newest
  <2>6. served = Len(sites)
    BY <2>3, <2>4, <2>5
  <2> QED BY <2>3, <2>6 DEF Newest
<1>2. IInv /\ ContInv /\ [Next]_vars =>
        [step = "deployed" /\ step' = "succeeded" => sites[served] = index]_vars
  BY <1>1
<1>3. IInv /\ ContInv /\ [Next]_vars => ContInv'
  BY ContNext
<1> QED BY <1>2, <1>3, ContInit, Invariance, PTL DEF Spec, SuccessIsServed
===============================================================================
