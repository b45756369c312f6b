-------------------------------- MODULE Bundle --------------------------------
(***************************************************************************)
(* Signed bundles of format 1 (internal/distribution/stage.go, keys.go,    *)
(* client.go): staging from a publisher directory that other processes may *)
(* change meanwhile, the roots and online keys behind the signatures, the  *)
(* restoration of a directory, and readers with a persistent cache.        *)
(*                                                                         *)
(* The generation of a set of keys is the version of the root that         *)
(* introduced them.  The walk from a reader's root to the newest one and   *)
(* the comparison of versions are the updater's of go-tuf.                 *)
(***************************************************************************)
EXTENDS Naturals, FiniteSets, Sequences, FiniteSetsExt

CONSTANTS
  Readers,     \* candidate and catalogs processes that share a cache
  MaxSeq,      \* bound on publications
  MaxRoot,     \* bound on roots
  MaxVersion,  \* bound on metadata versions
  MaxBundles   \* bound on bundles

ASSUME BundleAssumption ==
  /\ MaxSeq \in Nat \ {0} /\ MaxRoot \in Nat \ {0}
  /\ MaxVersion \in Nat \ {0} /\ MaxBundles \in Nat

Versions == 1 .. MaxVersion
Roots == 1 .. MaxRoot

(* A snapshot of one catalog: its document and those of its events, which  *)
(* are also its feed.  A document is the number of the publication that    *)
(* first had it.                                                           *)
First == [seq |-> 1, doc |-> 1, events |-> {1}]

(* A root and the generations of the keys that signed it.                  *)
FirstRoot == [version |-> 1, by |-> {1}]

VARIABLES
  state,    \* the publisher directory: snapshot and .distribution-version
  stage,    \* the staging process and what it has read so far
  bundles,  \* the bundles staged so far
  trust,    \* the public roots directory
  rotated,  \* the newest root, made offline
  keys,     \* the generation of the online keys that stage is given
  expired,  \* the roots up to this one have expired
  stale,    \* the timestamps of the bundles up to this one have expired
  cache,    \* the readers' cache: root and version of its metadata
  reader,   \* the step and the bundle of each reader
  out       \* the candidate directory: the bundles that candidate.dat and
            \* candidate.json are from; 0: no file, or one that was cut short

signing == <<trust, rotated, keys, expired, stale>>
reading == <<cache, reader, out>>
vars == <<state, stage, bundles, signing, reading>>

NoReader == [pc |-> "idle", bundle |-> 0]
NoOut == [made |-> FALSE, dat |-> 0, json |-> 0]
Idle == [pc |-> "idle", version |-> 0, snap |-> First, listed |-> First]

Init ==
  /\ state = [snap |-> First, prior |-> 0]
  /\ stage = Idle /\ bundles = <<>>
  /\ trust = {FirstRoot} /\ rotated = FirstRoot /\ keys = 1 /\ expired = 0
  /\ stale = 0
  /\ cache = [root |-> 1, version |-> 0]
  /\ reader = [r \in Readers |-> NoReader] /\ out = NoOut

Newest(roots) == Max({root.version : root \in roots})

-----------------------------------------------------------------------------
(* Another process publishes: a new document, or a check that changes      *)
(* nothing but the health.                                                 *)
Publish ==
  /\ state.snap.seq < MaxSeq
  /\ \E d \in {state.snap.doc, state.snap.seq + 1} :
       state' = [state EXCEPT !.snap = [seq |-> @.seq + 1, doc |-> d,
                                        events |-> @.events \cup {d}]]
  /\ UNCHANGED <<stage, bundles, signing, reading>>

(* Stage, up to its LoadSnapshot.                                          *)
Load(v) ==
  /\ stage.pc = "idle" /\ Len(bundles) < MaxBundles
  /\ Newest(trust) > expired
  /\ v > state.prior
  /\ stage' = [Idle EXCEPT !.pc = "loaded", !.version = v, !.snap = state.snap]
  /\ UNCHANGED <<state, bundles, signing, reading>>

(* current.json for the list of the objects.                               *)
List ==
  /\ stage.pc = "loaded"
  /\ stage' = [stage EXCEPT !.pc = "listed", !.listed = state.snap]
  /\ UNCHANGED <<state, bundles, signing, reading>>

(* The archive: the listed snapshot and what the loaded one refers to; and *)
(* current.json once more.                                                 *)
Archive ==
  [snaps |-> {stage.listed}, docs |-> {stage.snap.doc} \cup stage.snap.events,
   feeds |-> {stage.snap.events}, current |-> state.snap]

(* VerifyDelegate for the three online roles.                              *)
Authorized == keys = Newest(trust)

Sign ==
  /\ stage.pc = "listed" /\ Authorized
  /\ bundles' = Append(bundles, [version |-> stage.version, snap |-> stage.snap,
                                 archive |-> Archive, roots |-> trust, key |-> keys])
  /\ stage' = Idle
  /\ UNCHANGED <<state, signing, reading>>

(* Wrong keys, another error or the end of the process: the output is      *)
(* private and is thrown away.                                             *)
Abandon ==
  /\ stage.pc # "idle"
  /\ stage' = Idle
  /\ UNCHANGED <<state, bundles, signing, reading>>

-----------------------------------------------------------------------------
(* What LoadSnapshot accepts in the extracted archive.                     *)
Loadable(a) ==
  /\ a.current \in a.snaps
  /\ {a.current.doc} \cup a.current.events \subseteq a.docs
  /\ a.current.events \in a.feeds

(* Mutant of Restorable: the archive is not compared with the index.       *)
RestorableUncompared(b) == Loadable(b.archive)

Restorable(b) == Loadable(b.archive) /\ b.archive.current = b.snap

-----------------------------------------------------------------------------
(* Mutant of Rotate: the new root is signed with its own key only.         *)
RotateUnlinked ==
  /\ rotated.version = keys /\ rotated \in trust /\ keys < MaxRoot
  /\ rotated' = [version |-> keys + 1, by |-> {keys + 1}]
  /\ UNCHANGED <<state, stage, bundles, trust, keys, expired, stale, reading>>

(* Initialize with the newest root and its key: both keys sign the next.   *)
(* The operator finishes a rotation before another one.                    *)
Rotate ==
  /\ rotated.version = keys /\ rotated \in trust /\ keys < MaxRoot
  /\ rotated' = [version |-> keys + 1, by |-> {keys, keys + 1}]
  /\ UNCHANGED <<state, stage, bundles, trust, keys, expired, stale, reading>>

(* The new root is added while publication is paused, as the procedure     *)
(* says, and the online keys are replaced, in either order.                *)
AddRoot ==
  /\ rotated \notin trust /\ stage.pc = "idle"
  /\ trust' = trust \cup {rotated}
  /\ UNCHANGED <<state, stage, bundles, rotated, keys, expired, stale, reading>>

ReplaceKeys ==
  /\ keys # rotated.version
  /\ keys' = rotated.version
  /\ UNCHANGED <<state, stage, bundles, trust, rotated, expired, stale, reading>>

(* A year without a rotation.                                              *)
ExpireRoot ==
  /\ expired < Newest(trust)
  /\ expired' = Newest(trust)
  /\ UNCHANGED <<state, stage, bundles, trust, rotated, keys, stale, reading>>

(* 48 hours since a bundle was staged: its timestamp expires, the earliest *)
(* of its three expiries.  Bundles expire in the order of their staging.   *)
ExpireTimestamp ==
  /\ stale < Len(bundles)
  /\ stale' = stale + 1
  /\ UNCHANGED <<state, stage, bundles, trust, rotated, keys, expired, reading>>

-----------------------------------------------------------------------------
(* The chain from the first root, each root signed by the one before it.   *)
Chained(roots) ==
  \A root \in roots \ {FirstRoot} :
    /\ root.version - 1 \in root.by
    /\ \E prior \in roots : prior.version = root.version - 1

(* The newest root and the metadata of a bundle have not expired.          *)
Current(i) == Newest(bundles[i].roots) > expired /\ i > stale

(* Refresh of the updater, without its comparison with the cache.          *)
Readable(i) ==
  /\ Chained(bundles[i].roots) /\ bundles[i].key = Newest(bundles[i].roots)
  /\ Current(i)

(* The restore command, with a cache of its own: RefreshIndex and          *)
(* RestoreState, which saves the version before the rename.  The operator  *)
(* goes on with the restored directory.                                    *)
Restore(i) ==
  /\ stage.pc = "idle" /\ Readable(i) /\ Restorable(bundles[i])
  /\ state' = [snap |-> bundles[i].archive.current, prior |-> bundles[i].version]
  /\ UNCHANGED <<stage, bundles, signing, reading>>

(* RefreshIndex refuses a version below the cached one; cached metadata    *)
(* counts, expired or not, as long as its keys are those of the newest     *)
(* root.                                                                   *)
Older(b) == cache.root = b.key /\ b.version < cache.version

At(r, pc) == reader[r].pc = pc
Goes(r, pc) == reader' = [reader EXCEPT ![r].pc = pc]
outside == <<state, stage, bundles, signing>>

(* Mutant of Open: the lock of the cache is not taken.                     *)
OpenUnlocked(r, i) ==
  /\ At(r, "idle")
  /\ Readable(i) /\ ~Older(bundles[i])
  /\ reader' = [reader EXCEPT ![r] = [pc |-> "verified", bundle |-> i]]
  /\ UNCHANGED <<outside, cache, out>>

(* A reader takes the lock of the cache, or gives up, and verifies the     *)
(* bundle it was handed, which need not be the newest.                     *)
Open(r, i) ==
  /\ \A o \in Readers : At(o, "idle")
  /\ Readable(i) /\ ~Older(bundles[i])
  /\ reader' = [reader EXCEPT ![r] = [pc |-> "verified", bundle |-> i]]
  /\ UNCHANGED <<outside, cache, out>>

(* The metadata is saved in the cache.                                     *)
Save(r) ==
  /\ At(r, "verified") /\ Goes(r, "saved")
  /\ LET b == bundles[reader[r].bundle] IN cache' = [root |-> b.key, version |-> b.version]
  /\ UNCHANGED <<outside, out>>

(* Mutant of MakeOut: the directory may exist.                             *)
MakeOutAgain(r) ==
  /\ At(r, "saved") /\ Goes(r, "made")
  /\ out' = [out EXCEPT !.made = TRUE]
  /\ UNCHANGED <<outside, cache>>

(* ReadCandidate fetched the document; the directory must not exist.       *)
MakeOut(r) ==
  /\ At(r, "saved") /\ ~out.made /\ Goes(r, "made")
  /\ out' = [out EXCEPT !.made = TRUE]
  /\ UNCHANGED <<outside, cache>>

(* Each file is written to its end; a death before that leaves none or a   *)
(* part of it, which is no document and no JSON.                           *)
WriteDocument(r) ==
  /\ At(r, "made") /\ Goes(r, "written")
  /\ out' = [out EXCEPT !.dat = reader[r].bundle]
  /\ UNCHANGED <<outside, cache>>

WriteCandidate(r) ==
  /\ At(r, "written")
  /\ reader' = [reader EXCEPT ![r] = NoReader]
  /\ out' = [out EXCEPT !.json = reader[r].bundle]
  /\ UNCHANGED <<outside, cache>>

(* An error: the directory is removed by the reader that made it.          *)
GiveUp(r) ==
  /\ ~At(r, "idle")
  /\ reader' = [reader EXCEPT ![r] = NoReader]
  /\ out' = IF reader[r].pc \in {"made", "written"} THEN NoOut ELSE out
  /\ UNCHANGED <<outside, cache>>

(* The process dies; what it wrote stays.                                  *)
DieReading(r) ==
  /\ ~At(r, "idle")
  /\ reader' = [reader EXCEPT ![r] = NoReader]
  /\ UNCHANGED <<outside, cache, out>>

Next ==
  \/ Publish \/ List \/ Sign \/ Abandon
  \/ \E v \in Versions : Load(v)
  \/ \E i \in DOMAIN bundles : Restore(i)
  \/ Rotate \/ AddRoot \/ ReplaceKeys \/ ExpireRoot \/ ExpireTimestamp
  \/ \E r \in Readers :
       \/ \E i \in DOMAIN bundles : Open(r, i)
       \/ Save(r) \/ MakeOut(r) \/ WriteDocument(r) \/ WriteCandidate(r)
       \/ GiveUp(r) \/ DieReading(r)

Spec == Init /\ [][Next]_vars

-----------------------------------------------------------------------------
IsSnapshot(s) ==
  /\ s.seq \in 1 .. MaxSeq /\ s.doc \in 1 .. s.seq
  /\ s.doc \in s.events /\ s.events \subseteq 1 .. s.seq

(* The roots are numbered without gaps, the online keys are never more     *)
(* than one rotation behind, and one reader at a time has the lock.        *)
TypeOK ==
  /\ IsSnapshot(state.snap) /\ state.prior \in 0 .. MaxVersion
  /\ stage.pc \in {"idle", "loaded", "listed"} /\ stage.version \in 0 .. MaxVersion
  /\ IsSnapshot(stage.snap) /\ IsSnapshot(stage.listed)
  /\ \A i \in DOMAIN bundles :
       /\ bundles[i].version \in Versions /\ IsSnapshot(bundles[i].snap)
       /\ bundles[i].roots \subseteq trust /\ bundles[i].key \in Roots
  /\ \A root \in trust \cup {rotated} : root.version \in Roots /\ root.by \subseteq Roots
  /\ {root.version : root \in trust} = 1 .. Newest(trust)
  /\ \A q, r \in trust : q.version = r.version => q = r
  /\ rotated.version - keys \in {0, 1} /\ expired \in 0 .. Newest(trust)
  /\ stale \in 0 .. Len(bundles)
  /\ cache.root \in Roots /\ cache.version \in 0 .. MaxVersion
  /\ reader \in [Readers -> [pc : {"idle", "verified", "saved", "made", "written"},
                            bundle : {0} \cup DOMAIN bundles]]
  /\ \A q, r \in Readers : At(q, "idle") \/ At(r, "idle") \/ q = r
  /\ out \in [made : BOOLEAN, dat : {0} \cup DOMAIN bundles,
              json : {0} \cup DOMAIN bundles]

(* A bundle restores to the publication that its index signs or not at     *)
(* all, whatever was published between the reads of current.json; and it   *)
(* does restore when nothing was.                                          *)
RestoresWhatWasSigned ==
  \A i \in DOMAIN bundles :
    Restorable(bundles[i]) <=> bundles[i].archive.current = bundles[i].snap

(* "Clients returning after downtime": whoever has only the first root     *)
(* reads every bundle that has not expired, neither its timestamp nor its  *)
(* newest root, whatever rotations were under way when it was staged and   *)
(* whatever rotations followed.                                            *)
OldRootsFollow ==
  \A i \in DOMAIN bundles : Current(i) => Readable(i)

(* Readers with a common cache never take it back to an older version of   *)
(* the same keys, whatever bundles they are handed and in which order.     *)
CacheForward ==
  [][cache'.root = cache.root => cache'.version >= cache.version]_vars

(* A candidate that a reader left is whole: a candidate.json that was not  *)
(* cut short describes the document next to it, and that document is not   *)
(* cut short either, however readers failed or died before.                *)
CandidateWhole ==
  out.json # 0 =>
    /\ out.dat # 0
    /\ bundles[out.dat].snap.doc = bundles[out.json].snap.doc
=============================================================================
