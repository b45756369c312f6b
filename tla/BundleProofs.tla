----------------------------- MODULE BundleProofs -----------------------------
(***************************************************************************)
(* Proofs about Bundle, for any readers and bounds.  What a bundle         *)
(* restores to is settled by what stage has read so far being in the order *)
(* of the publications; what old readers can follow by the roots being a   *)
(* chain at every moment of a rotation; what readers leave behind by the   *)
(* lock of the cache and by who made the candidate directory.              *)
(***************************************************************************)
EXTENDS Bundle, TLAPS

Snap == [seq : 1 .. MaxSeq, doc : 1 .. MaxSeq, events : SUBSET (1 .. MaxSeq)]
Root == [version : Roots, by : SUBSET Roots]
BundleSet ==
  [version : Versions, snap : Snap,
   archive : [snaps : SUBSET Snap, docs : SUBSET (1 .. MaxSeq),
              feeds : SUBSET SUBSET (1 .. MaxSeq), current : Snap],
   roots : SUBSET Root, key : Roots]

Types ==
  /\ state \in [snap : Snap, prior : 0 .. MaxVersion]
  /\ stage \in [pc : {"idle", "loaded", "listed"}, version : 0 .. MaxVersion,
                snap : Snap, listed : Snap]
  /\ stage.pc # "idle" => stage.version \in Versions
  /\ bundles \in Seq(BundleSet)
  /\ trust \subseteq Root /\ rotated \in Root /\ keys \in Roots
  /\ expired \in Nat
  /\ cache \in [root : Roots, version : 0 .. MaxVersion]
  /\ reader \in [Readers -> [pc : {"idle", "verified", "saved", "made", "written"},
                             bundle : Nat]]
  /\ out \in [made : BOOLEAN, dat : Nat, json : Nat]

(* A snapshot is no later than another one of the same directory.          *)
Upto(s, t) == s = t \/ s.seq < t.seq

(* What stage reads, it reads in the order of the publications.            *)
StageInv ==
  /\ IsSnapshot(state.snap) /\ IsSnapshot(stage.snap) /\ IsSnapshot(stage.listed)
  /\ stage.pc = "loaded" => Upto(stage.snap, state.snap)
  /\ stage.pc = "listed" => Upto(stage.snap, stage.listed) /\ Upto(stage.listed, state.snap)

(* A bundle whose archive ends with the signed snapshot has all of it.     *)
Restored(b) == b.archive.current = b.snap => Loadable(b.archive)

(* The last version of the trusted roots.                                  *)
Last == IF rotated \in trust THEN rotated.version ELSE rotated.version - 1

RootInv ==
  /\ FirstRoot \in trust /\ Chained(trust) /\ Last \in Roots
  /\ \A v \in 1 .. Last : \E root \in trust : root.version = v
  /\ \A root \in trust : root.version <= Last
  /\ \A q, r \in trust : q.version = r.version => q = r
  /\ rotated \notin trust => rotated.version - 1 \in rotated.by
  /\ rotated.version - keys \in {0, 1}
  /\ expired <= Last

BundleInv ==
  \A i \in DOMAIN bundles :
    /\ IsSnapshot(bundles[i].snap) /\ IsSnapshot(bundles[i].archive.current)
    /\ Restored(bundles[i])
    /\ Chained(bundles[i].roots) /\ bundles[i].key = Newest(bundles[i].roots)
    /\ bundles[i].roots \subseteq trust

(* One reader at a time has the lock; it has checked its bundle against    *)
(* the cache, which nobody else changes; and the candidate directory is as *)
(* far as the reader that made it is, or as one left it that is gone.      *)
ReaderInv ==
  /\ \A q, r \in Readers : At(q, "idle") \/ At(r, "idle") \/ q = r
  /\ \A r \in Readers :
       /\ IF At(r, "idle") THEN reader[r].bundle = 0 ELSE reader[r].bundle \in DOMAIN bundles
       /\ At(r, "verified") => ~Older(bundles[reader[r].bundle])
       /\ At(r, "made") => out = [made |-> TRUE, dat |-> 0, json |-> 0]
       /\ At(r, "written") => out = [made |-> TRUE, dat |-> reader[r].bundle, json |-> 0]
  /\ ~out.made => out = NoOut
  /\ out.dat \in {0} \cup DOMAIN bundles
  /\ out.json # 0 => out.dat = out.json

(* Only bundles that were staged expire.                                   *)
StaleInv == stale \in 0 .. Len(bundles)

(* What every step keeps.                                                  *)
IInv == Types /\ StageInv /\ RootInv /\ BundleInv /\ StaleInv /\ ReaderInv

-----------------------------------------------------------------------------
(* The newest root is the one that no other one surpasses.                 *)
LEMMA NewestIs ==
  ASSUME NEW R \in SUBSET Root, NEW r \in R, \A q \in R : q.version <= r.version
  PROVE  Newest(R) = r.version
<1> DEFINE V == {q.version : q \in R}
<1>1. r.version \in V /\ V \subseteq Int /\ \A v \in V : r.version >= v
  BY DEF Root, Roots
<1>2. \A x \in V : (\A y \in V : x >= y) => x = r.version
  BY <1>1
<1> QED
  BY <1>1, <1>2 DEF Newest, Max

(* The roots are numbered without a gap, so that the newest is their       *)
(* number.                                                                 *)
LEMMA NewestTrust ==
  ASSUME Types, RootInv
  PROVE  Newest(trust) = Last
<1>1. PICK r \in trust : r.version = Last
  BY DEF RootInv, Roots
<1> QED
  BY <1>1, NewestIs DEF Types, RootInv

(* A publication makes a snapshot.                                         *)
LEMMA Published ==
  ASSUME NEW t, IsSnapshot(t), t.seq < MaxSeq, NEW d \in {t.doc, t.seq + 1}
  PROVE  IsSnapshot([seq |-> t.seq + 1, doc |-> d, events |-> t.events \cup {d}])
<1> DEFINE s == [seq |-> t.seq + 1, doc |-> d, events |-> t.events \cup {d}]
<1>1. s.seq = t.seq + 1 /\ s.doc = d /\ s.events = t.events \cup {d}
  OBVIOUS
<1>2. /\ t.seq \in Nat /\ t.seq + 1 \in 1 .. MaxSeq /\ t.doc \in 1 .. t.seq
      /\ t.events \subseteq 1 .. t.seq
  BY BundleAssumption DEF IsSnapshot
<1>3. d \in 1 .. t.seq + 1 /\ t.events \cup {d} \subseteq 1 .. t.seq + 1
  BY <1>2
<1> HIDE DEF s
<1>4. IsSnapshot(s)
  BY <1>1, <1>2, <1>3 DEF IsSnapshot
<1> QED
  BY <1>4 DEF s

-----------------------------------------------------------------------------
(* Every step keeps the types.                                             *)
LEMMA TypesNext ==
  ASSUME IInv, [Next]_vars
  PROVE  Types'
<1> USE BundleAssumption DEF IInv, Types
<1>0. First \in Snap /\ NoReader \in [pc : {"idle"}, bundle : Nat]
      /\ Idle \in [pc : {"idle"}, version : {0}, snap : Snap, listed : Snap]
  BY DEF First, Snap, NoReader, Idle
<1>1. CASE Publish
  <2>1. PICK d \in {state.snap.doc, state.snap.seq + 1} :
          state' = [state EXCEPT !.snap = [seq |-> @.seq + 1, doc |-> d,
                                           events |-> @.events \cup {d}]]
    BY <1>1 DEF Publish
  <2>2. d \in 1 .. MaxSeq /\ state.snap.seq + 1 \in 1 .. MaxSeq
    <3>1. /\ state.snap.doc \in 1 .. MaxSeq /\ state.snap.seq \in 1 .. MaxSeq
          /\ state.snap.events \in SUBSET (1 .. MaxSeq)
      BY DEF Snap
    <3>2. state.snap.seq < MaxSeq
      BY <1>1 DEF Publish
    <3>3. state.snap.seq + 1 \in 1 .. MaxSeq
      BY <3>1, <3>2
    <3> QED
      BY <2>1, <3>1, <3>3
  <2>3. [seq |-> state.snap.seq + 1, doc |-> d, events |-> state.snap.events \cup {d}] \in Snap
    BY <2>2 DEF Snap
  <2> QED
    BY <1>1, <2>1, <2>3 DEF Publish, signing, reading
<1>2. ASSUME NEW v \in Versions, Load(v) PROVE Types'
  <2>1. stage' = [pc |-> "loaded", version |-> v, snap |-> state.snap, listed |-> First]
    BY <1>2 DEF Load, Idle
  <2> QED
    BY <1>0, <1>2, <2>1 DEF Load, Versions, signing, reading
<1>3. CASE List
  BY <1>3 DEF List, signing, reading
<1>4. CASE Sign
  <2> DEFINE b == [version |-> stage.version, snap |-> stage.snap,
                   archive |-> Archive, roots |-> trust, key |-> keys]
  <2>1. Archive \in [snaps : SUBSET Snap, docs : SUBSET (1 .. MaxSeq),
                     feeds : SUBSET SUBSET (1 .. MaxSeq), current : Snap]
    BY DEF Archive, Snap
  <2>2. b \in BundleSet
    BY <1>4, <2>1 DEF Sign, BundleSet
  <2>3. bundles' \in Seq(BundleSet)
    BY <1>4, <2>2 DEF Sign
  <2> QED
    BY <1>0, <1>4, <2>3 DEF Sign, signing, reading
<1>5. CASE Abandon
  BY <1>0, <1>5 DEF Abandon, signing, reading
<1>6. ASSUME NEW i \in DOMAIN bundles, Restore(i) PROVE Types'
  <2>1. bundles[i] \in BundleSet
    OBVIOUS
  <2>2. state' \in [snap : Snap, prior : 0 .. MaxVersion]
    BY <1>6, <2>1 DEF Restore, BundleSet, Versions
  <2> QED
    BY <1>6, <2>2 DEF Restore, signing, reading
<1>7. CASE Rotate
  BY <1>7 DEF Rotate, Root, Roots, reading
<1>8. CASE AddRoot \/ ReplaceKeys
  BY <1>8 DEF AddRoot, ReplaceKeys, Root, reading
<1>9. CASE ExpireRoot
  BY <1>9, NewestTrust DEF ExpireRoot, RootInv, Roots, reading
<1>15. CASE ExpireTimestamp
  BY <1>15 DEF ExpireTimestamp, reading
<1>10. ASSUME NEW r \in Readers, NEW i \in DOMAIN bundles, Open(r, i) PROVE Types'
  BY <1>10 DEF Open, outside, signing
<1>11. ASSUME NEW r \in Readers, Save(r) PROVE Types'
  <2>1. bundles[reader[r].bundle] \in BundleSet
    BY <1>11 DEF Save, ReaderInv, At
  <2> QED
    BY <1>11, <2>1 DEF Save, Goes, BundleSet, Versions, outside, signing
<1>12. ASSUME NEW r \in Readers, MakeOut(r) \/ WriteDocument(r) PROVE Types'
  <2>0. PICK pc \in {"made", "written"} : reader' = [reader EXCEPT ![r].pc = pc]
    BY <1>12 DEF MakeOut, WriteDocument, Goes
  <2>1. reader' \in [Readers -> [pc : {"idle", "verified", "saved", "made", "written"},
                                 bundle : Nat]]
    <3>1. [reader[r] EXCEPT !.pc = pc] \in
            [pc : {"idle", "verified", "saved", "made", "written"}, bundle : Nat]
      OBVIOUS
    <3> QED
      BY <2>0, <3>1
  <2>2. out' \in [made : BOOLEAN, dat : Nat, json : Nat]
    BY <1>12 DEF MakeOut, WriteDocument
  <2> QED
    BY <1>12, <2>1, <2>2 DEF MakeOut, WriteDocument, outside, signing
<1>13. ASSUME NEW r \in Readers, WriteCandidate(r) \/ GiveUp(r) \/ DieReading(r) PROVE Types'
  <2>1. reader' \in [Readers -> [pc : {"idle", "verified", "saved", "made", "written"},
                                 bundle : Nat]]
    BY <1>0, <1>13 DEF WriteCandidate, GiveUp, DieReading
  <2>2. out' \in [made : BOOLEAN, dat : Nat, json : Nat]
    <3>1. out' \in {out, NoOut, [out EXCEPT !.json = reader[r].bundle]}
      BY <1>13 DEF WriteCandidate, GiveUp, DieReading
    <3>2. reader[r].bundle \in Nat /\ NoOut \in [made : BOOLEAN, dat : Nat, json : Nat]
      BY DEF NoOut
    <3> QED
      BY <3>1, <3>2
  <2> QED
    BY <1>13, <2>1, <2>2 DEF WriteCandidate, GiveUp, DieReading, outside, signing
<1>14. CASE UNCHANGED vars
  BY <1>14 DEF vars, signing, reading
<1> QED
  BY <1>1, <1>2, <1>3, <1>4, <1>5, <1>6, <1>7, <1>8, <1>9, <1>10, <1>11, <1>12,
     <1>13, <1>14, <1>15 DEF Next

(* Publications and reads keep their order; a restoration waits for stage. *)
LEMMA StageNext ==
  ASSUME IInv, [Next]_vars
  PROVE  StageInv'
<1> USE BundleAssumption DEF IInv, Types, StageInv, Upto
<1>0. IsSnapshot(First) /\ Idle.pc = "idle" /\ Idle.snap = First /\ Idle.listed = First
  BY DEF First, IsSnapshot, Idle
<1>1. CASE Publish
  <2>1. PICK d \in {state.snap.doc, state.snap.seq + 1} :
          state' = [state EXCEPT !.snap = [seq |-> @.seq + 1, doc |-> d,
                                           events |-> @.events \cup {d}]]
    BY <1>1 DEF Publish
  <2> DEFINE s == [seq |-> state.snap.seq + 1, doc |-> d, events |-> state.snap.events \cup {d}]
  <2>2. state'.snap = s
    BY <2>1
  <2>3. IsSnapshot(s) /\ s.seq = state.snap.seq + 1 /\ state.snap.seq \in Nat
    <3>1. IsSnapshot(s)
      BY <1>1, Published DEF Publish
    <3> QED
      BY <3>1 DEF IsSnapshot
  <2>4. \A t : IsSnapshot(t) /\ Upto(t, state.snap) => Upto(t, s)
    BY <2>3 DEF IsSnapshot
  <2> HIDE DEF s
  <2> QED
    BY <1>1, <2>2, <2>3, <2>4 DEF Publish
<1>2. ASSUME NEW v \in Versions, Load(v) PROVE StageInv'
  <2>1. stage' = [pc |-> "loaded", version |-> v, snap |-> state.snap, listed |-> First]
    BY <1>2 DEF Load, Idle
  <2> QED
    BY <1>0, <1>2, <2>1 DEF Load
<1>3. CASE List
  BY <1>3 DEF List
<1>4. CASE Sign \/ Abandon
  BY <1>0, <1>4 DEF Sign, Abandon
<1>5. ASSUME NEW i \in DOMAIN bundles, Restore(i) PROVE StageInv'
  BY <1>5 DEF Restore, BundleInv
<1>6. CASE UNCHANGED <<state, stage>>
  BY <1>6 DEF IsSnapshot
<1>7. ASSUME NEW r \in Readers,
             \/ \E i \in DOMAIN bundles : Open(r, i)
             \/ Save(r) \/ MakeOut(r) \/ WriteDocument(r) \/ WriteCandidate(r)
             \/ GiveUp(r) \/ DieReading(r)
      PROVE  UNCHANGED <<state, stage>>
  BY <1>7 DEF Open, Save, MakeOut, WriteDocument, WriteCandidate, GiveUp, DieReading, outside
<1>8. CASE Rotate \/ AddRoot \/ ReplaceKeys \/ ExpireRoot
           \/ ExpireTimestamp \/ UNCHANGED vars
  BY <1>6, <1>8 DEF Rotate, AddRoot, ReplaceKeys, ExpireRoot,
                    ExpireTimestamp, vars
<1> QED
  BY <1>1, <1>2, <1>3, <1>4, <1>5, <1>6, <1>7, <1>8 DEF Next

-----------------------------------------------------------------------------
(* The roots are a chain at every moment of a rotation.                    *)
LEMMA RootNext ==
  ASSUME IInv, [Next]_vars
  PROVE  RootInv'
<1> USE BundleAssumption DEF IInv
<1>0. /\ trust \subseteq Root /\ rotated \in Root /\ keys \in Roots /\ expired \in Nat
      /\ \A root \in Root : root.version \in Roots
      /\ RootInv
  BY DEF Types, Root
<1>1. CASE Rotate
  <2> DEFINE new == [version |-> keys + 1, by |-> {keys, keys + 1}]
  <2>1. rotated' = new /\ trust' = trust /\ keys' = keys /\ expired' = expired
    BY <1>1 DEF Rotate
  <2>2. Last = keys /\ keys \in Nat /\ rotated \in trust /\ keys < MaxRoot
    BY <1>0, <1>1 DEF Rotate, Last, Roots
  <2>3. new.version = keys + 1 /\ keys \in new.by
    OBVIOUS
  <2>4. new \notin trust
    BY <1>0, <2>2, <2>3 DEF RootInv
  <2> HIDE DEF new
  <2>5. Last' = Last
    BY <2>1, <2>2, <2>3, <2>4 DEF Last
  <2> QED
    BY <1>0, <2>1, <2>2, <2>3, <2>4, <2>5 DEF RootInv, Chained
<1>2. CASE AddRoot
  <2>1. rotated' = rotated /\ trust' = trust \cup {rotated} /\ keys' = keys
        /\ expired' = expired /\ rotated \notin trust
    BY <1>2 DEF AddRoot
  <2>2. Last' = rotated.version /\ Last = rotated.version - 1 /\ rotated.version \in Nat
    BY <1>0, <2>1 DEF Last, Roots
  <2>3. Chained(trust')
    <3>1. \E prior \in trust : prior.version = rotated.version - 1
      BY <1>0, <2>2 DEF RootInv, Roots
    <3> QED
      BY <1>0, <2>1, <3>1 DEF RootInv, Chained
  <2>4. \A v \in 1 .. Last' : \E root \in trust' : root.version = v
    <3> TAKE v \in 1 .. Last'
    <3>1. CASE v = rotated.version
      BY <2>1, <3>1
    <3>2. CASE v # rotated.version
      <4>1. v \in 1 .. Last
        BY <2>2, <3>2
      <4> QED
        BY <1>0, <2>1, <4>1 DEF RootInv
    <3> QED
      BY <3>1, <3>2
  <2>5. \A root \in trust : root.version < rotated.version
    BY <1>0, <2>2 DEF RootInv, Roots
  <2>6. /\ \A root \in trust' : root.version <= Last'
        /\ \A q, r \in trust' : q.version = r.version => q = r
    <3>1. \A root \in trust : root.version # rotated.version /\ root.version <= Last'
      BY <1>0, <2>2, <2>5 DEF Roots
    <3> QED
      BY <1>0, <2>1, <2>2, <3>1 DEF RootInv
  <2>7. expired' <= Last' /\ Last' \in Roots /\ FirstRoot \in trust' /\ rotated' \in trust'
    BY <1>0, <2>1, <2>2 DEF RootInv
  <2> QED
    BY <1>0, <2>1, <2>3, <2>4, <2>6, <2>7 DEF RootInv
<1>3. CASE ReplaceKeys
  <2>1. rotated' = rotated /\ trust' = trust /\ keys' = rotated.version /\ expired' = expired
    BY <1>3 DEF ReplaceKeys
  <2>2. rotated.version - rotated.version = 0 /\ Last' = Last
    BY <1>0, <2>1 DEF Last, Roots
  <2> QED
    BY <1>0, <2>1, <2>2 DEF RootInv, Chained
<1>4. CASE ExpireRoot
  <2>1. rotated' = rotated /\ trust' = trust /\ keys' = keys /\ expired' = Last
    BY <1>4, NewestTrust DEF ExpireRoot
  <2>2. Last' = Last /\ Last <= Last
    BY <1>0, <2>1 DEF Last, Roots, RootInv
  <2> QED
    BY <1>0, <2>1, <2>2 DEF RootInv, Chained
<1>5. CASE UNCHANGED signing
  BY <1>0, <1>5 DEF signing, RootInv, Chained, Last
<1>6. CASE \/ Publish \/ List \/ Sign \/ Abandon \/ \E v \in Versions : Load(v)
           \/ \E i \in DOMAIN bundles : Restore(i)
  BY <1>5, <1>6 DEF Publish, List, Sign, Abandon, Load, Restore
<1>8. CASE ExpireTimestamp
  BY <1>0, <1>8 DEF ExpireTimestamp, RootInv, Chained, Last
<1>7. ASSUME NEW r \in Readers,
             \/ \E i \in DOMAIN bundles : Open(r, i)
             \/ Save(r) \/ MakeOut(r) \/ WriteDocument(r) \/ WriteCandidate(r)
             \/ GiveUp(r) \/ DieReading(r)
      PROVE  UNCHANGED signing
  BY <1>7 DEF Open, Save, MakeOut, WriteDocument, WriteCandidate, GiveUp, DieReading, outside
<1> QED
  BY <1>1, <1>2, <1>3, <1>4, <1>5, <1>6, <1>7, <1>8 DEF Next, vars

(* What stage signs: the archive is whole when it ends with the snapshot   *)
(* that stage read first.                                                  *)
LEMMA SignedWhole ==
  ASSUME IInv, stage.pc = "listed", Archive.current = stage.snap
  PROVE  Loadable(Archive)
<1>1. Upto(stage.snap, stage.listed) /\ Upto(stage.listed, state.snap)
      /\ state.snap = stage.snap
  BY DEF IInv, StageInv, Archive
<1>2. stage.listed = stage.snap
  BY <1>1 DEF IInv, StageInv, Upto, IsSnapshot
<1> QED
  BY <1>1, <1>2 DEF Loadable, Archive

(* A bundle is sealed once and never changed.                              *)
LEMMA BundleNext ==
  ASSUME IInv, [Next]_vars
  PROVE  BundleInv'
<1> USE DEF IInv, BundleInv
<1>1. CASE Sign
  <2> DEFINE b == [version |-> stage.version, snap |-> stage.snap,
                   archive |-> Archive, roots |-> trust, key |-> keys]
  <2>1. bundles' = Append(bundles, b) /\ trust' = trust /\ stage.pc = "listed" /\ Authorized
    BY <1>1 DEF Sign, signing
  <2>2. /\ b.snap = stage.snap /\ b.archive = Archive /\ b.roots = trust /\ b.key = keys
        /\ Archive.current = state.snap
    BY DEF Archive
  <2> HIDE DEF b
  <2>3. IsSnapshot(b.snap) /\ IsSnapshot(b.archive.current)
    BY <2>2 DEF StageInv
  <2>4. Restored(b)
    BY <2>1, <2>2, SignedWhole DEF Restored
  <2>5. Chained(b.roots) /\ b.key = Newest(b.roots) /\ b.roots \subseteq trust
    BY <2>1, <2>2 DEF RootInv, Authorized
  <2>6. bundles \in Seq(BundleSet) /\ Len(bundles) \in Nat
    BY DEF Types
  <2>7. \A i \in DOMAIN bundles' : bundles'[i] = b \/ (i \in DOMAIN bundles /\ bundles'[i] = bundles[i])
    BY <2>1, <2>6
  <2> QED
    BY <2>1, <2>3, <2>4, <2>5, <2>7
<1>2. CASE AddRoot
  BY <1>2 DEF AddRoot
<1>3. CASE UNCHANGED <<bundles, trust>>
  BY <1>3
<1>4. CASE \/ Publish \/ List \/ Abandon \/ \E v \in Versions : Load(v)
           \/ \E i \in DOMAIN bundles : Restore(i)
           \/ Rotate \/ ReplaceKeys \/ ExpireRoot \/ ExpireTimestamp
  BY <1>3, <1>4 DEF Publish, List, Abandon, Load, Restore, Rotate, ReplaceKeys, ExpireRoot,
                    ExpireTimestamp, signing
<1>5. ASSUME NEW r \in Readers,
             \/ \E i \in DOMAIN bundles : Open(r, i)
             \/ Save(r) \/ MakeOut(r) \/ WriteDocument(r) \/ WriteCandidate(r)
             \/ GiveUp(r) \/ DieReading(r)
      PROVE  UNCHANGED <<bundles, trust>>
  BY <1>5 DEF Open, Save, MakeOut, WriteDocument, WriteCandidate, GiveUp, DieReading,
              outside, signing
<1> QED
  BY <1>1, <1>2, <1>3, <1>4, <1>5 DEF Next, vars, signing

(* Bundles are added and never removed.                                    *)
LEMMA StaleNext ==
  ASSUME IInv, [Next]_vars
  PROVE  StaleInv'
<1> USE DEF IInv, StaleInv
<1>0. Len(bundles) \in Nat
  BY DEF Types
<1>1. CASE Sign
  <2>1. stale' = stale /\ Len(bundles') = Len(bundles) + 1
    BY <1>1 DEF Sign, signing, Types
  <2> QED
    BY <1>0, <2>1
<1>2. CASE ExpireTimestamp
  BY <1>0, <1>2 DEF ExpireTimestamp
<1>3. CASE \/ Publish \/ List \/ Abandon \/ \E v \in Versions : Load(v)
           \/ \E i \in DOMAIN bundles : Restore(i)
           \/ Rotate \/ AddRoot \/ ReplaceKeys \/ ExpireRoot \/ UNCHANGED vars
  BY <1>3 DEF Publish, List, Abandon, Load, Restore, Rotate, AddRoot, ReplaceKeys,
              ExpireRoot, signing, vars
<1>4. ASSUME NEW r \in Readers,
             \/ \E i \in DOMAIN bundles : Open(r, i)
             \/ Save(r) \/ MakeOut(r) \/ WriteDocument(r) \/ WriteCandidate(r)
             \/ GiveUp(r) \/ DieReading(r)
      PROVE  UNCHANGED <<bundles, stale>>
  BY <1>4 DEF Open, Save, MakeOut, WriteDocument, WriteCandidate, GiveUp, DieReading,
              outside, signing
<1> QED
  BY <1>1, <1>2, <1>3, <1>4 DEF Next

-----------------------------------------------------------------------------
(* A reader works under the lock of the cache.                             *)
LEMMA ReaderNext ==
  ASSUME IInv, [Next]_vars
  PROVE  ReaderInv'
<1> USE DEF IInv, ReaderInv, At
<1>0. /\ bundles \in Seq(BundleSet) /\ Len(bundles) \in Nat
      /\ reader \in [Readers -> [pc : {"idle", "verified", "saved", "made", "written"},
                                 bundle : Nat]]
      /\ out \in [made : BOOLEAN, dat : Nat, json : Nat]
      /\ cache \in [root : Roots, version : 0 .. MaxVersion]
  BY DEF Types
<1>1. CASE Sign
  <2>1. /\ DOMAIN bundles \subseteq DOMAIN bundles' /\ UNCHANGED <<cache, reader, out>>
        /\ \A i \in DOMAIN bundles : bundles'[i] = bundles[i]
    BY <1>0, <1>1 DEF Sign, reading
  <2> QED
    BY <2>1 DEF Older
<1>2. CASE UNCHANGED <<bundles, reading>>
  BY <1>2 DEF reading, Older
<1>3. CASE \/ Publish \/ List \/ Abandon \/ \E v \in Versions : Load(v)
           \/ \E i \in DOMAIN bundles : Restore(i)
           \/ Rotate \/ AddRoot \/ ReplaceKeys \/ ExpireRoot
           \/ ExpireTimestamp \/ UNCHANGED vars
  BY <1>2, <1>3 DEF Publish, List, Abandon, Load, Restore, Rotate, AddRoot, ReplaceKeys,
                    ExpireRoot, ExpireTimestamp, vars
<1>4. ASSUME NEW r \in Readers, NEW i \in DOMAIN bundles, Open(r, i) PROVE ReaderInv'
  <2>1. /\ reader' = [reader EXCEPT ![r] = [pc |-> "verified", bundle |-> i]]
        /\ UNCHANGED <<bundles, cache, out>> /\ ~Older(bundles[i])
        /\ \A o \in Readers : reader[o].pc = "idle"
    BY <1>4 DEF Open, outside
  <2>2. reader'[r] = [pc |-> "verified", bundle |-> i]
        /\ \A o \in Readers \ {r} : reader'[o] = reader[o]
    BY <1>0, <2>1
  <2> QED
    BY <2>1, <2>2 DEF Older
<1>5. ASSUME NEW r \in Readers, Save(r) PROVE ReaderInv'
  <2>1. /\ reader' = [reader EXCEPT ![r].pc = "saved"] /\ UNCHANGED <<bundles, out>>
        /\ reader[r].pc = "verified"
    BY <1>5 DEF Save, Goes, outside
  <2>2. /\ reader'[r].pc = "saved" /\ reader'[r].bundle = reader[r].bundle
        /\ \A o \in Readers \ {r} : reader'[o] = reader[o] /\ reader[o].pc = "idle"
    BY <1>0, <2>1
  <2> QED
    BY <2>1, <2>2
<1>6. ASSUME NEW r \in Readers, MakeOut(r) PROVE ReaderInv'
  <2>1. /\ reader' = [reader EXCEPT ![r].pc = "made"] /\ UNCHANGED <<bundles, cache>>
        /\ reader[r].pc = "saved" /\ ~out.made /\ out' = [out EXCEPT !.made = TRUE]
    BY <1>6 DEF MakeOut, Goes, outside
  <2>2. /\ reader'[r].pc = "made" /\ reader'[r].bundle = reader[r].bundle
        /\ \A o \in Readers \ {r} : reader'[o] = reader[o] /\ reader[o].pc = "idle"
    BY <1>0, <2>1
  <2>3. out' = [made |-> TRUE, dat |-> 0, json |-> 0]
    <3>1. out = [made |-> FALSE, dat |-> 0, json |-> 0]
      BY <2>1 DEF NoOut
    <3> QED
      BY <2>1, <3>1
  <2>4. out'.made = TRUE /\ out'.dat = 0 /\ out'.json = 0
    BY <2>3
  <2>5. \A q, o \in Readers : reader'[q].pc = "idle" \/ reader'[o].pc = "idle" \/ q = o
    BY <2>2
  <2>6. /\ \A o \in Readers \ {r} : reader'[o].pc = "idle" /\ reader'[o].bundle = 0
        /\ reader'[r].bundle \in DOMAIN bundles'
    BY <2>1, <2>2
  <2> QED
    BY <2>2, <2>3, <2>4, <2>5, <2>6
<1>7. ASSUME NEW r \in Readers, WriteDocument(r) PROVE ReaderInv'
  <2>1. /\ reader' = [reader EXCEPT ![r].pc = "written"] /\ UNCHANGED <<bundles, cache>>
        /\ reader[r].pc = "made" /\ out' = [out EXCEPT !.dat = reader[r].bundle]
    BY <1>7 DEF WriteDocument, Goes, outside
  <2>2. /\ reader'[r].pc = "written" /\ reader'[r].bundle = reader[r].bundle
        /\ \A o \in Readers \ {r} : reader'[o] = reader[o] /\ reader[o].pc = "idle"
    BY <1>0, <2>1
  <2>3. out' = [made |-> TRUE, dat |-> reader[r].bundle, json |-> 0]
    <3>1. out = [made |-> TRUE, dat |-> 0, json |-> 0]
      BY <2>1
    <3> QED
      BY <2>1, <3>1
  <2>4. out'.made = TRUE /\ out'.dat = reader[r].bundle /\ out'.json = 0
    BY <2>3
  <2>5. \A q, o \in Readers : reader'[q].pc = "idle" \/ reader'[o].pc = "idle" \/ q = o
    BY <2>2
  <2>6. /\ \A o \in Readers \ {r} : reader'[o].pc = "idle" /\ reader'[o].bundle = 0
        /\ reader'[r].bundle \in DOMAIN bundles'
    BY <2>1, <2>2
  <2> QED
    BY <2>2, <2>3, <2>4, <2>5, <2>6
<1>8. ASSUME NEW r \in Readers, WriteCandidate(r) PROVE ReaderInv'
  <2>1. /\ reader' = [reader EXCEPT ![r] = NoReader] /\ UNCHANGED <<bundles, cache>>
        /\ reader[r].pc = "written" /\ out' = [out EXCEPT !.json = reader[r].bundle]
    BY <1>8 DEF WriteCandidate, outside
  <2>2. /\ reader'[r].pc = "idle" /\ reader'[r].bundle = 0
        /\ \A o \in Readers \ {r} : reader'[o] = reader[o] /\ reader[o].pc = "idle"
    BY <1>0, <2>1 DEF NoReader
  <2>3. out' = [made |-> TRUE, dat |-> reader[r].bundle, json |-> reader[r].bundle]
    <3>1. out = [made |-> TRUE, dat |-> reader[r].bundle, json |-> 0]
      BY <2>1
    <3> QED
      BY <2>1, <3>1
  <2>4. /\ out'.made = TRUE /\ out'.dat = reader[r].bundle /\ out'.json = out'.dat
        /\ reader[r].bundle \in DOMAIN bundles
    BY <2>1, <2>3
  <2> QED
    BY <2>1, <2>2, <2>4
<1>9. ASSUME NEW r \in Readers, GiveUp(r) \/ DieReading(r) PROVE ReaderInv'
  <2>1. /\ reader' = [reader EXCEPT ![r] = NoReader] /\ UNCHANGED <<bundles, cache>>
        /\ reader[r].pc # "idle" /\ out' \in {out, NoOut}
    BY <1>9 DEF GiveUp, DieReading, outside
  <2>2. /\ reader'[r].pc = "idle" /\ reader'[r].bundle = 0
        /\ \A o \in Readers \ {r} : reader'[o] = reader[o] /\ reader[o].pc = "idle"
    BY <1>0, <2>1 DEF NoReader
  <2>3. NoOut.json = 0 /\ NoOut.dat = 0
    BY DEF NoOut
  <2> QED
    BY <2>1, <2>2, <2>3
<1> QED
  BY <1>1, <1>2, <1>3, <1>4, <1>5, <1>6, <1>7, <1>8, <1>9 DEF Next

-----------------------------------------------------------------------------
(* The first state, and with it the invariant of every behaviour.          *)
LEMMA InvInit == ASSUME Init PROVE IInv
<1> USE BundleAssumption DEF Init
<1>1. First \in Snap /\ IsSnapshot(First) /\ FirstRoot \in Root /\ FirstRoot.version = 1
  BY DEF First, Snap, IsSnapshot, FirstRoot, Root, Roots
<1>2. Types
  BY <1>1 DEF Types, Idle, Roots, NoReader, NoOut
<1>3. StageInv
  BY <1>1 DEF StageInv, Idle
<1>4. RootInv
  BY <1>1 DEF RootInv, Last, Chained, Roots
<1>5. BundleInv /\ StaleInv /\ ReaderInv
  BY DEF BundleInv, StaleInv, ReaderInv, At, NoReader, NoOut
<1> QED
  BY <1>2, <1>3, <1>4, <1>5 DEF IInv

(* The inductive invariant holds in every reachable state.                 *)
THEOREM Invariance == Spec => []IInv
<1>1. Init => IInv
  BY InvInit
<1>2. IInv /\ [Next]_vars => IInv'
  BY TypesNext, StageNext, RootNext, BundleNext, StaleNext, ReaderNext DEF IInv
<1> QED
  BY <1>1, <1>2, PTL DEF Spec

(* Every value has its type, the roots are numbered without gaps, the      *)
(* online keys are at most one rotation behind, and one reader at a time   *)
(* has the lock.                                                           *)
THEOREM TypeCorrect == Spec => []TypeOK
<1>1. IInv => TypeOK
  <2> SUFFICES ASSUME IInv PROVE TypeOK
    OBVIOUS
  <2> USE BundleAssumption DEF IInv
  <2>1. Newest(trust) = Last /\ Last \in Nat
    BY NewestTrust DEF RootInv, Roots
  <2>2. {root.version : root \in trust} = 1 .. Newest(trust)
    BY <2>1 DEF RootInv, Types, Root, Roots
  <2>3. \A i \in DOMAIN bundles :
          /\ bundles[i].version \in Versions /\ IsSnapshot(bundles[i].snap)
          /\ bundles[i].roots \subseteq trust /\ bundles[i].key \in Roots
    <3> TAKE i \in DOMAIN bundles
    <3>1. bundles[i] \in BundleSet
      BY DEF Types
    <3> QED
      BY <3>1 DEF BundleSet, BundleInv
  <2>4. \A root \in trust \cup {rotated} : root.version \in Roots /\ root.by \subseteq Roots
    BY DEF Types, Root
  <2>5. /\ reader \in [Readers -> [pc : {"idle", "verified", "saved", "made", "written"},
                                  bundle : {0} \cup DOMAIN bundles]]
        /\ \A q, r \in Readers : At(q, "idle") \/ At(r, "idle") \/ q = r
    BY DEF Types, ReaderInv, At
  <2>6. out \in [made : BOOLEAN, dat : {0} \cup DOMAIN bundles, json : {0} \cup DOMAIN bundles]
    BY DEF Types, ReaderInv
  <2>7. IsSnapshot(state.snap) /\ IsSnapshot(stage.snap) /\ IsSnapshot(stage.listed)
    BY DEF StageInv
  <2>8. /\ rotated.version - keys \in {0, 1} /\ expired \in 0 .. Newest(trust)
        /\ stale \in 0 .. Len(bundles)
        /\ \A q, r \in trust : q.version = r.version => q = r
    BY <2>1 DEF RootInv, StaleInv, Types
  <2>9. /\ state.prior \in 0 .. MaxVersion /\ stage.pc \in {"idle", "loaded", "listed"}
        /\ stage.version \in 0 .. MaxVersion
        /\ cache.root \in Roots /\ cache.version \in 0 .. MaxVersion
    BY DEF Types
  <2> QED
    BY <2>2, <2>3, <2>4, <2>5, <2>6, <2>7, <2>8, <2>9 DEF TypeOK
<1> QED
  BY <1>1, Invariance, PTL

(* A bundle restores to the publication that its index signs or not at     *)
(* all, for any number of publications between the reads of stage.         *)
THEOREM RestorationSigned == Spec => []RestoresWhatWasSigned
<1>1. IInv => RestoresWhatWasSigned
  BY DEF IInv, BundleInv, Restored, RestoresWhatWasSigned, Restorable
<1> QED
  BY <1>1, Invariance, PTL

(* Whoever has only the first root can follow all rotations to any bundle  *)
(* that has not expired.                                                   *)
THEOREM RootsFollowed == Spec => []OldRootsFollow
<1>1. IInv => OldRootsFollow
  BY DEF IInv, BundleInv, OldRootsFollow, Readable
<1> QED
  BY <1>1, Invariance, PTL

(* A candidate directory with its description is of one bundle, whatever   *)
(* readers failed or died before.                                          *)
THEOREM CandidatesWhole == Spec => []CandidateWhole
<1>1. IInv => CandidateWhole
  BY DEF IInv, ReaderInv, CandidateWhole
<1> QED
  BY <1>1, Invariance, PTL

(* The cache does not go back among metadata of the same keys, for any     *)
(* readers and any order of the bundles they are handed.                   *)
THEOREM CacheMonotonic == Spec => CacheForward
<1> DEFINE A == cache'.root = cache.root => cache'.version >= cache.version
<1>1. IInv /\ [Next]_vars => A
  <2> SUFFICES ASSUME IInv, [Next]_vars PROVE A
    OBVIOUS
  <2>0. cache \in [root : Roots, version : 0 .. MaxVersion] /\ MaxVersion \in Nat
    BY BundleAssumption DEF IInv, Types
  <2>1. ASSUME NEW r \in Readers, Save(r) PROVE A
    <3>1. bundles[reader[r].bundle] \in BundleSet /\ ~Older(bundles[reader[r].bundle])
      BY <2>1 DEF Save, At, IInv, ReaderInv, Types
    <3> QED
      BY <2>0, <2>1, <3>1 DEF Save, Older, BundleSet, Versions
  <2>2. ASSUME NEW r \in Readers,
               \/ \E i \in DOMAIN bundles : Open(r, i)
               \/ MakeOut(r) \/ WriteDocument(r) \/ WriteCandidate(r)
               \/ GiveUp(r) \/ DieReading(r)
        PROVE  cache' = cache
    BY <2>2 DEF Open, MakeOut, WriteDocument, WriteCandidate, GiveUp, DieReading
  <2>3. CASE \/ Publish \/ List \/ Sign \/ Abandon \/ \E v \in Versions : Load(v)
             \/ \E i \in DOMAIN bundles : Restore(i)
             \/ Rotate \/ AddRoot \/ ReplaceKeys \/ ExpireRoot
           \/ ExpireTimestamp \/ UNCHANGED vars
    <3>1. cache' = cache
      BY <2>3 DEF Publish, List, Sign, Abandon, Load, Restore, Rotate, AddRoot, ReplaceKeys,
                  ExpireRoot, ExpireTimestamp, vars, reading
    <3> QED
      BY <2>0, <3>1
  <2> QED
    BY <2>0, <2>1, <2>2, <2>3 DEF Next
<1>2. IInv /\ [Next]_vars => [A]_vars
  BY <1>1
<1> HIDE DEF A
<1>3. Spec => [][A]_vars
  BY <1>2, Invariance, PTL DEF Spec
<1> QED
  BY <1>3 DEF CacheForward, A
===============================================================================
