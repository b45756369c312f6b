------------------------------- MODULE Pipeline --------------------------------
(***************************************************************************)
(* The publication job (.github/workflows/publish-synthetic.yml and the    *)
(* distribution commands it calls, internal/distribution): restore the     *)
(* signed site, publish twice, push the documents to the data repository,  *)
(* stage and sign, verify the downloads, deploy, verify the deployment.    *)
(*                                                                         *)
(* One job runs at a time (the workflow's concurrency group) on a machine  *)
(* that is thrown away; what lasts is the data repository and the site.  A *)
(* job may stop at any step.  Readers see a deployment some time after it. *)
(* One publication on the job's machine is a step: Publisher shows that it *)
(* is atomic.  Of the signed metadata only versions and expiry are kept.   *)
(***************************************************************************)
EXTENDS Publication

CONSTANTS
  Synthetic,   \* the catalog of fixtures/manifest.json
  Fixture,     \* its document
  BigDocs,     \* documents longer than MaxInput (extracted from an archive)
  Prompt,      \* readers see a deployment before the next job starts
  MaxDeploys,  \* bound on deployments
  MaxCommits,  \* bound on commits of the data repository
  MaxFails     \* bound on jobs that stop before their end

ASSUME PipelineAssumption ==
  /\ Synthetic \in Catalogs /\ Fixture \in Docs \ BigDocs
  /\ Prompt \in BOOLEAN
  /\ MaxDeploys \in Nat /\ MaxCommits \in Nat /\ MaxFails \in Nat

Tree == [Catalogs -> Docs \cup {NoDoc}]
Index == [version : Nat, snap : Snapshot, commit : Nat]
NoIndex == [version |-> 0, snap |-> NoSnapshot, commit |-> 0]

VARIABLES
  sites,   \* the deployed indexes, oldest first
  served,  \* the deployment that readers see; 0: none
  expired, \* the deployments up to this one have expired
  data,    \* the trees of the commits of the data repository's main branch
  step,    \* where the job is
  state,   \* the job's publication directory: its current snapshot
  prior,   \* the job's .distribution-version; 0: no file
  base,    \* the commit the job checked out
  commit,  \* the commit the job signs
  index,   \* the index the job staged
  fails    \* jobs that stopped before their end

public == <<sites, served, expired, data>>
job == <<step, state, prior, base, commit, index>>
vars == <<public, job, fails>>

Init ==
  /\ sites = <<>> /\ served = 0 /\ expired = 0
  /\ data = <<[c \in Catalogs |-> NoDoc]>>
  /\ step = "idle" /\ state = NoSnapshot /\ prior = 0
  /\ base = 0 /\ commit = 0 /\ index = NoIndex
  /\ fails = 0

-----------------------------------------------------------------------------
Ended == {"idle", "succeeded", "failed"}

(* The machine of the job is thrown away.                                  *)
EndJob(how) ==
  /\ step' = how /\ state' = NoSnapshot /\ prior' = 0
  /\ base' = 0 /\ commit' = 0 /\ index' = NoIndex

(* Catalogs with the same document share one download.                     *)
Download(i, d) == CHOOSE c \in Catalogs : i.snap.cats[c].doc = d

(* FetchAsset of every download: the commit of the URL holds the document. *)
Downloadable(i) ==
  /\ i.commit \in DOMAIN data
  /\ \A d \in ArtifactsOf(i.snap) : data[i.commit][Download(i, d)] = d

(* RestorePublication: the downloads, Document's limit on its input (also  *)
(* for a document that is extracted already) and verifySnapshot.           *)
Restorable(i) ==
  /\ Downloadable(i)
  /\ ArtifactsOf(i.snap) \cap BigDocs = {}
  /\ Artifacts(i.snap) \subseteq ArtifactsOf(i.snap)

(* An operator asks for a bootstrap when there never was a deployment.     *)
Bootstrap ==
  /\ step \in Ended /\ Len(sites) = 0 /\ MaxDeploys > 0
  /\ step' = "restored"
  /\ UNCHANGED <<public, state, prior, base, commit, index, fails>>

(* Mutants of Restore: the version is not saved; a restoration that fails  *)
(* is taken for a new site.                                                *)
RestoreUnversioned ==
  /\ step \in Ended /\ expired < served /\ Len(sites) < MaxDeploys
  /\ Prompt => served = Len(sites)
  /\ Restorable(sites[served])
  /\ state' = sites[served].snap
  /\ step' = "restored"
  /\ UNCHANGED <<public, prior, base, commit, index, fails>>
RestoreOrReset ==
  /\ step \in Ended /\ expired < served /\ Len(sites) < MaxDeploys
  /\ Prompt => served = Len(sites)
  /\ state' \in {sites[served].snap, NoSnapshot}
  /\ prior' = sites[served].version
  /\ step' = "restored"
  /\ UNCHANGED <<public, base, commit, index, fails>>

(* distribution restore of the site the job sees, which must not have      *)
(* expired; the job has no cache of earlier metadata.                      *)
Restore ==
  /\ step \in Ended /\ expired < served /\ Len(sites) < MaxDeploys
  /\ Prompt => served = Len(sites)
  /\ Restorable(sites[served])
  /\ state' = sites[served].snap
  /\ prior' = sites[served].version
  /\ step' = "restored"
  /\ UNCHANGED <<public, base, commit, index, fails>>

(* One Publish in the job's directory.                                     *)
Publish(m) ==
  \E stamp \in Time \ {Never} :
    /\ stamp >= state.at
    /\ SameIdentity(state, m)
    /\ state' = NextSnapshot(state, m, stamp)

PublishSynthetic ==
  /\ step = "restored"
  /\ \E name \in Names :
       Publish([c \in {Synthetic} |->
                  [name |-> name, doc |-> Fixture, retry |-> Never]])
  /\ step' = "published"
  /\ UNCHANGED <<public, prior, base, commit, index, fails>>

(* The selected catalogs: nothing is published without an attempt.         *)
PublishAcquired ==
  /\ step = "published"
  /\ \E m \in Manifests :
       /\ Synthetic \notin DOMAIN m
       /\ IF DOMAIN m = {} THEN UNCHANGED state ELSE Publish(m)
  /\ step' = "acquired"
  /\ UNCHANGED <<public, prior, base, commit, index, fails>>

Checkout ==
  /\ step = "acquired"
  /\ base' = Len(data)
  /\ step' = "checkout"
  /\ UNCHANGED <<public, state, prior, commit, index, fails>>

(* ExportData: the documents of the publication over the checkout.         *)
Exported ==
  [c \in Catalogs |-> IF state.cats[c].doc # NoDoc THEN state.cats[c].doc
                      ELSE data[base][c]]

(* Mutants of PushData: there is a new commit in any case; an empty        *)
(* commit is an error; the last commit is amended and forced.              *)
PushDataCounted ==
  /\ step = "checkout" /\ Len(data) = base
  /\ data' = IF Exported = data[base] THEN data ELSE Append(data, Exported)
  /\ commit' = base + 1
  /\ step' = "pushed"
  /\ UNCHANGED <<sites, served, expired, state, prior, base, index, fails>>
PushDataChanged ==
  /\ step = "checkout" /\ Exported # data[base] /\ Len(data) = base
  /\ data' = Append(data, Exported)
  /\ commit' = base + 1
  /\ step' = "pushed"
  /\ UNCHANGED <<sites, served, expired, state, prior, base, index, fails>>
PushDataAmended ==
  /\ step = "checkout"
  /\ data' = [data EXCEPT ![base] = Exported]
  /\ commit' = base
  /\ step' = "pushed"
  /\ UNCHANGED <<sites, served, expired, state, prior, base, index, fails>>

(* A commit when a document differs, on top of the commit checked out.     *)
PushData ==
  /\ step = "checkout"
  /\ \/ /\ Exported = data[base]
        /\ commit' = base /\ UNCHANGED data
     \/ /\ Exported # data[base] /\ Len(data) = base
        /\ data' = Append(data, Exported) /\ commit' = base + 1
  /\ step' = "pushed"
  /\ UNCHANGED <<sites, served, expired, state, prior, base, index, fails>>

(* Somebody else pushed in between: the job fails.                         *)
PushRefused ==
  /\ step = "checkout" /\ Exported # data[base] /\ Len(data) > base
  /\ EndJob("failed")
  /\ UNCHANGED <<public, fails>>

(* The next version, and StageGit: the latest view at the pushed commit.   *)
Stage ==
  /\ step = "pushed"
  /\ index' = [version |-> prior + 1, snap |-> Latest(state), commit |-> commit]
  /\ step' = "staged"
  /\ UNCHANGED <<public, state, prior, base, commit, fails>>

VerifyDownloads ==
  /\ step = "staged" /\ Downloadable(index)
  /\ step' = "verified"
  /\ UNCHANGED <<public, state, prior, base, commit, index, fails>>

Deploy ==
  /\ step = "verified"
  /\ sites' = Append(sites, index)
  /\ step' = "deployed"
  /\ UNCHANGED <<served, expired, data, state, prior, base, commit, index, fails>>

(* restore --expected-version of the site the job sees.                    *)
DeploymentVerified ==
  /\ served > expired
  /\ sites[served].version = index.version
  /\ Restorable(sites[served])

(* Mutant of VerifyDeployed: the version is not compared.                  *)
VerifyDeployedAny ==
  /\ step = "deployed" /\ served > expired /\ Restorable(sites[served])
  /\ EndJob("succeeded")
  /\ UNCHANGED <<public, fails>>

VerifyDeployed ==
  /\ step = "deployed" /\ DeploymentVerified
  /\ EndJob("succeeded")
  /\ UNCHANGED <<public, fails>>

(* The check is repeated, and then given up.                               *)
VerifyGivenUp ==
  /\ step = "deployed" /\ ~DeploymentVerified
  /\ EndJob("failed")
  /\ UNCHANGED <<public, fails>>

(* An error, the job's timeout or the loss of its machine.                 *)
Fail ==
  /\ step \notin Ended /\ fails < MaxFails
  /\ fails' = fails + 1
  /\ EndJob("failed")
  /\ UNCHANGED public

-----------------------------------------------------------------------------
(* Readers, the next job among them, see the newest deployment.            *)
Propagate ==
  /\ served < Len(sites)
  /\ served' = Len(sites)
  /\ UNCHANGED <<sites, expired, data, job, fails>>

(* An outage of 48 hours: the timestamps of all deployments expire.  No    *)
(* job takes that long.                                                    *)
Expire ==
  /\ step # "deployed" /\ expired < Len(sites)
  /\ expired' = Len(sites)
  /\ UNCHANGED <<sites, served, data, job, fails>>

(* Somebody else pushes to the data repository and removes a document.     *)
OtherPush ==
  /\ Len(data) < MaxCommits
  /\ \E c \in Catalogs :
       data' = Append(data, [data[Len(data)] EXCEPT ![c] = NoDoc])
  /\ UNCHANGED <<sites, served, expired, job, fails>>

JobStep ==
  \/ Bootstrap \/ Restore \/ PublishSynthetic \/ PublishAcquired \/ Checkout
  \/ PushData \/ PushRefused \/ Stage \/ VerifyDownloads \/ Deploy
  \/ VerifyDeployed \/ VerifyGivenUp

Next == JobStep \/ Fail \/ Propagate \/ Expire \/ OtherPush

(* Jobs are started daily and have a timeout; a deployment reaches its     *)
(* readers.  Nothing is assumed of failures and of other pushes, which are *)
(* bounded.                                                                *)
Fairness == WF_vars(JobStep) /\ WF_vars(Propagate)

Spec == Init /\ [][Next]_vars /\ Fairness

-----------------------------------------------------------------------------
TypeOK ==
  /\ sites \in Seq(Index)
  /\ served \in 0 .. Len(sites) /\ expired \in 0 .. Len(sites)
  /\ data \in Seq(Tree) /\ Len(data) > 0
  /\ step \in Ended \cup {"restored", "published", "acquired", "checkout",
                           "pushed", "staged", "verified", "deployed"}
  /\ state \in Snapshot /\ index \in Index
  /\ prior \in Nat /\ base \in 0 .. Len(data) /\ commit \in 0 .. Len(data)
  /\ fails \in 0 .. MaxFails

(* Every signed site that was ever deployed leads to a publication that    *)
(* can be restored from it, by the next job and by a reader that kept the  *)
(* index: its downloads stay at their immutable URLs.                      *)
SiteRestorable == \A i \in DOMAIN sites : Restorable(sites[i])

(* The metadata version of a deployment is above all earlier ones, so that *)
(* a client that saw one accepts the next.                                 *)
VersionsAdvance ==
  \A i, j \in DOMAIN sites : i < j => sites[i].version < sites[j].version

(* A deployment continues the one before it, whatever jobs failed between  *)
(* the two: the publication is newer and no catalog lost its document.     *)
SiteContinues ==
  \A i, j \in DOMAIN sites :
    i < j => /\ sites[i].snap.seq < sites[j].snap.seq
             /\ \A c \in Catalogs : sites[i].snap.cats[c].doc # NoDoc
                                      => sites[j].snap.cats[c].doc # NoDoc

(* A job that succeeds was seen by readers: the check cannot be passed by  *)
(* an earlier deployment that is still served.                             *)
SuccessIsServed ==
  [][step = "deployed" /\ step' = "succeeded" => sites[served] = index]_vars

(* The pipeline never wedges but by an outage: when jobs stop failing,     *)
(* sites are deployed and reach their readers until the bound.             *)
KeepsDeploying ==
  [](expired = 0) => <>[](Len(sites) = MaxDeploys /\ served = Len(sites))
=============================================================================
