--------------------------- MODULE AcquisitionProofs ---------------------------
(***************************************************************************)
(* Proofs about Acquisition, for any catalogs, providers, deadlines and    *)
(* processes.  A published deadline is one that its provider gave however  *)
(* many batches overlap.  That a deadline is remembered, and that no       *)
(* provider is asked before it, holds as long as batches follow each       *)
(* other, which the run acquisition_pair shows to be needed.               *)
(***************************************************************************)
EXTENDS Acquisition, PublicationProofs

(* The deadlines a batch works with, and those it will publish, are ones   *)
(* that a published batch was told or that it was told itself.             *)
Known(p, q) == Later(told[q], heard[p][q])
OwnInv ==
  /\ DeadlineOwned
  /\ \A p \in Procs :
       /\ \A c \in Catalogs : prior[p].cats[c].retry <= told[Provider[c]]
       /\ \A q \in Providers : backoff[p][q] <= Known(p, q)
       /\ \A c \in DOMAIN attempts[p] : attempts[p][c].retry <= Known(p, Provider[c])

IInv == TypeOK /\ OwnInv

(* Batches follow each other.                                              *)
OneAtATime == \A p, q \in running : p = q

(* A batch that nobody overlaps works with the published snapshot, and its *)
(* deadlines are no earlier than those of the snapshot; what it was told   *)
(* last by a provider is one of its attempts; a document is of a provider  *)
(* without a deadline ahead; and a failure takes no deadline back.         *)
Batch(p) ==
  /\ p \notin running =>
       active[p] = {} /\ DOMAIN attempts[p] = {} /\ heard[p] = NoDeadlines
  /\ p \in running =>
       /\ prior[p] = current
       /\ \A c \in Catalogs : current.cats[c].retry <= backoff[p][Provider[c]]
  /\ active[p] \cap DOMAIN attempts[p] = {}
  /\ \A q \in Providers :
       /\ heard[p][q] <= backoff[p][q]
       /\ heard[p][q] # Never =>
            \E c \in DOMAIN attempts[p] :
              Provider[c] = q /\ attempts[p][c].retry = heard[p][q]
  /\ \A c \in DOMAIN attempts[p] :
       /\ attempts[p][c].doc # NoDoc =>
            \A k \in Catalogs :
              Provider[k] = Provider[c] => current.cats[k].retry <= now
       /\ attempts[p][c].retry # Never =>
            current.cats[c].retry <= attempts[p][c].retry
BatchInv == \A p \in Procs : Batch(p)

-----------------------------------------------------------------------------
(* Times and deadlines are numbers.                                        *)
LEMMA Moments ==
  /\ Never \in Nat /\ Deadlines \cup {Never} \subseteq Nat
  /\ MaxTime \in Nat /\ 1 \in 1 .. MaxTime /\ 1 .. MaxTime \subseteq Time
BY LimitAssumption, AcquisitionAssumption DEF Never, Time

(* Among finitely many catalogs one has the greatest value: the one that   *)
(* the fewest catalogs surpass.                                            *)
LEMMA Greatest ==
  ASSUME NEW K, IsFiniteSet(K), K # {}, NEW f \in [K -> Nat]
  PROVE  \E c \in K : \A k \in K : f[k] <= f[c]
<1> DEFINE Above(c) == {k \in K : f[c] < f[k]}
           T == {Cardinality(Above(c)) : c \in K}
<1>1. \A c \in K : IsFiniteSet(Above(c)) /\ Cardinality(Above(c)) \in Nat
  BY FS_Subset, FS_CardinalityType
<1>2. T \subseteq Nat /\ T # {}
  BY <1>1
<1>3. PICK x \in T : \A y \in T : x <= y
  <2> HIDE DEF T
  <2> QED BY <1>2, Smallest
<1>4. PICK c \in K : x = Cardinality(Above(c))
  BY <1>3
<1>5. ASSUME NEW k \in K, f[c] < f[k] PROVE FALSE
  <2>1. Above(k) \subseteq Above(c) /\ k \in Above(c) /\ k \notin Above(k)
    BY <1>5
  <2>2. Cardinality(Above(k)) <= Cardinality(Above(c))
        /\ Cardinality(Above(k)) # Cardinality(Above(c))
    <3> HIDE DEF Above
    <3> QED BY <1>1, <2>1, FS_Subset
  <2>3. Cardinality(Above(c)) <= Cardinality(Above(k))
    BY <1>3, <1>4
  <2> QED
    <3> HIDE DEF Above
    <3> QED BY <1>1, <2>2, <2>3
<1> QED
  BY <1>5

(* The deadline of a provider is that of one of its catalogs, if it has    *)
(* any, and no catalog of it has a later one.                              *)
LEMMA CooldownIs ==
  ASSUME NEW s \in Snapshot, NEW selected, NEW q \in Providers
  PROVE  LET d == Cooldown(s, selected)[q] IN
         /\ d \in Deadlines \cup {Never}
         /\ \A c \in Catalogs : Provider[c] = q => s.cats[c].retry <= d
         /\ d # Never => \E c \in Catalogs : Provider[c] = q /\ s.cats[c].retry = d
<1> DEFINE K == {k \in Catalogs : Provider[k] = q}
           f == [k \in K |-> s.cats[k].retry]
           S == {Never} \cup {s.cats[c].retry : c \in K}
<1>1. \A k \in Catalogs : s.cats[k].retry \in Deadlines \cup {Never}
  BY DEF Snapshot, Catalog
<1>2. IsFiniteSet(K) /\ f \in [K -> Nat]
  BY <1>1, Moments, CatalogsAssumption, FS_Subset
<1>3. \E x \in S : \A y \in S : y <= x
  <2>1. CASE K = {}
    <3>1. S = {Never}
      BY <2>1
    <3> QED BY <3>1, Moments
  <2>2. CASE K # {}
    <3>1. PICK c \in K : \A k \in K : f[k] <= f[c]
      <4> HIDE DEF f, K
      <4> QED BY <1>2, <2>2, Greatest
    <3>2. s.cats[c].retry \in S /\ s.cats[c].retry \in Nat
      BY <1>1, Moments
    <3>3. \A k \in K : s.cats[k].retry <= s.cats[c].retry
      BY <3>1
    <3>4. Never <= s.cats[c].retry
      BY <3>2 DEF Never
    <3>5. \A y \in S : y <= s.cats[c].retry
      BY <3>3, <3>4
    <3> QED BY <3>2, <3>5
  <2> QED BY <2>1, <2>2
<1>4. S \subseteq Nat
  BY <1>1, Moments
<1>5. Max(S) \in S /\ \A y \in S : y <= Max(S)
  <2> HIDE DEF S
  <2> QED BY <1>3, <1>4 DEF Max
<1>6. Cooldown(s, selected)[q] = Max(S)
  BY DEF Cooldown, Cooldowns
<1>7. Max(S) \in Deadlines \cup {Never}
  <2>1. S \subseteq Deadlines \cup {Never}
    BY <1>1
  <2> HIDE DEF S
  <2> QED BY <2>1, <1>5
<1>8. \A c \in Catalogs : Provider[c] = q => s.cats[c].retry <= Max(S)
  <2>1. \A c \in Catalogs : Provider[c] = q => s.cats[c].retry \in S
    OBVIOUS
  <2> HIDE DEF S
  <2> QED BY <2>1, <1>5
<1>9. Max(S) # Never => \E c \in Catalogs : Provider[c] = q /\ s.cats[c].retry = Max(S)
  <2>1. \A x \in S : x # Never => \E c \in Catalogs : Provider[c] = q /\ s.cats[c].retry = x
    OBVIOUS
  <2> HIDE DEF S
  <2> QED BY <2>1, <1>5
<1> HIDE DEF S
<1> QED
  BY <1>6, <1>7, <1>8, <1>9

(* Two parts of a batch are a batch.                                       *)
LEMMA JoinedType ==
  ASSUME NEW m \in Manifests, NEW n \in Manifests
  PROVE  /\ Joined(m, n) \in Manifests
         /\ DOMAIN Joined(m, n) = DOMAIN m \cup DOMAIN n
         /\ \A c \in DOMAIN m : Joined(m, n)[c] = m[c]
         /\ \A c \in DOMAIN n \ DOMAIN m : Joined(m, n)[c] = n[c]
<1>1. DOMAIN m \cup DOMAIN n \subseteq Catalogs
  BY ManifestType
<1>2. Joined(m, n) \in [DOMAIN m \cup DOMAIN n -> Attempt]
  BY ManifestType DEF Joined
<1> QED
  BY <1>1, <1>2 DEF Joined, Manifests

(* A failure is an attempt without a document.                             *)
LEMMA FailureType ==
  ASSUME NEW name \in Names, NEW retry \in Deadlines \cup {Never}
  PROVE  /\ Failure(name, retry) \in Attempt
         /\ Failure(name, retry).doc = NoDoc /\ Failure(name, retry).retry = retry
BY DEF Failure, Attempt

(* An attempt with a deadline is a failure.                                *)
LEMMA DeadlineFails ==
  ASSUME NEW a \in Attempt
  PROVE  /\ a.name \in Names /\ a.retry \in Deadlines \cup {Never}
         /\ a.retry # Never => a.doc = NoDoc
BY DEF Attempt

(* One attempt is added to the batch of p, and nothing else changes there. *)
LEMMA Collected ==
  ASSUME TypeOK, NEW p \in Procs, NEW c \in Catalogs, NEW a \in Attempt, Collect(p, c, a)
  PROVE  /\ active' = [active EXCEPT ![p] = @ \ {c}]
         /\ attempts' \in [Procs -> Manifests]
         /\ \A r \in Procs \ {p} : attempts'[r] = attempts[r]
         /\ DOMAIN attempts'[p] = DOMAIN attempts[p] \cup {c}
         /\ attempts'[p][c] = a
         /\ \A k \in DOMAIN attempts[p] \ {c} : attempts'[p][k] = attempts[p][k]
<1> DEFINE m == [k \in {c} |-> a]
<1>1. {c} \in SUBSET Catalogs /\ m \in [{c} -> Attempt] /\ m[c] = a
  OBVIOUS
<1>2. attempts \in [Procs -> Manifests]
  BY DEF TypeOK
<1>3. attempts' = [attempts EXCEPT ![p] = Joined(m, attempts[p])]
  BY DEF Collect
<1>4. active' = [active EXCEPT ![p] = @ \ {c}]
  BY DEF Collect
<1> HIDE DEF m
<1>5. m \in Manifests /\ DOMAIN m = {c}
  BY <1>1, Zenon DEF Manifests
<1>6. attempts[p] \in Manifests /\ attempts'[p] = Joined(m, attempts[p])
  BY <1>2, <1>3
<1>7. /\ attempts'[p] \in Manifests
      /\ DOMAIN attempts'[p] = {c} \cup DOMAIN attempts[p]
      /\ \A k \in {c} : attempts'[p][k] = m[k]
      /\ \A k \in DOMAIN attempts[p] \ {c} : attempts'[p][k] = attempts[p][k]
  <2> DEFINE j == Joined(m, attempts[p])
  <2>1. /\ j \in Manifests /\ DOMAIN j = DOMAIN m \cup DOMAIN attempts[p]
        /\ \A k \in DOMAIN m : j[k] = m[k]
        /\ \A k \in DOMAIN attempts[p] \ DOMAIN m : j[k] = attempts[p][k]
    BY <1>5, <1>6, JoinedType
  <2> HIDE DEF j
  <2> QED
    BY <2>1, <1>5, <1>6 DEF j
<1>8. attempts' \in [Procs -> Manifests] /\ \A r \in Procs \ {p} : attempts'[r] = attempts[r]
  <2>1. Joined(m, attempts[p]) \in Manifests
    BY <1>6, <1>7
  <2> QED
    BY <1>2, <1>3, <2>1
<1> QED
  BY <1>1, <1>4, <1>7, <1>8

(* What a publication leaves of the deadline of a catalog: that of its     *)
(* attempt, if the batch has one; else its own or that of the snapshot the *)
(* batch loaded.                                                           *)
LEMMA PublishedRetry ==
  ASSUME TypeOK, NEW p \in Procs, Publish(p)
  PROVE  /\ current' \in Snapshot
         /\ \A c \in DOMAIN attempts[p] :
              current'.cats[c].retry =
                IF attempts[p][c].doc # NoDoc THEN Never
                ELSE IF attempts[p][c].retry # Never THEN attempts[p][c].retry
                ELSE current.cats[c].retry
         /\ \A c \in Catalogs \ DOMAIN attempts[p] :
              current'.cats[c].retry \in {current.cats[c].retry, prior[p].cats[c].retry}
<1>1. /\ current \in Snapshot /\ attempts[p] \in Manifests /\ prior[p] \in Snapshot
      /\ now \in Time /\ paused[p] \subseteq Catalogs
  BY Moments DEF TypeOK
<1>2. PICK name \in Names :
        LET m == Joined(attempts[p], PausedAttempts(p, name)) IN
          IF DOMAIN m = {} THEN UNCHANGED current
          ELSE current' = NextSnapshot(current, m, now)
  BY Zenon DEF Publish
<1> DEFINE n == PausedAttempts(p, name)
           m == Joined(attempts[p], n)
<1>3. /\ n \in Manifests /\ DOMAIN n \subseteq Catalogs
      /\ \A c \in DOMAIN n : n[c].doc = NoDoc /\ n[c].retry = prior[p].cats[c].retry
  <2> DEFINE cs == {k \in paused[p] : Exists(prior[p], k)}
  <2>1. \A c \in cs : prior[p].cats[c].retry \in Deadlines \cup {Never}
    BY <1>1 DEF Snapshot, Catalog
  <2>2. n = [c \in cs |-> Failure(name, prior[p].cats[c].retry)]
    BY DEF PausedAttempts
  <2>3. cs \in SUBSET Catalogs
    BY <1>1
  <2> HIDE DEF cs, n
  <2>4. n \in [cs -> Attempt] /\ DOMAIN n = cs
    BY <2>1, <2>2, FailureType
  <2>5. n \in Manifests
    BY <2>3, <2>4, Zenon DEF Manifests
  <2>6. \A c \in cs : n[c].doc = NoDoc /\ n[c].retry = prior[p].cats[c].retry
    BY <2>1, <2>2, FailureType
  <2> QED
    BY <2>3, <2>4, <2>5, <2>6
<1> HIDE DEF n
<1>4. /\ m \in Manifests /\ DOMAIN m = DOMAIN attempts[p] \cup DOMAIN n
      /\ \A c \in DOMAIN attempts[p] : m[c] = attempts[p][c]
      /\ \A c \in DOMAIN n \ DOMAIN attempts[p] : m[c] = n[c]
  BY <1>1, <1>3, JoinedType
<1>5. IF DOMAIN m = {} THEN current' = current ELSE current' = NextSnapshot(current, m, now)
  BY <1>2 DEF n
<1>6. DOMAIN attempts[p] \subseteq Catalogs
  BY <1>1, ManifestType
<1> HIDE DEF m
<1>7. CASE DOMAIN m = {}
  BY <1>1, <1>4, <1>5, <1>7
<1>8. CASE DOMAIN m # {}
  <2>1. current' = NextSnapshot(current, m, now)
    BY <1>5, <1>8
  <2>2. NextSnapshot(current, m, now) \in Snapshot
    BY <1>1, <1>4, NextSnapshotType
  <2>3. \A c \in Catalogs :
          NextSnapshot(current, m, now).cats[c] =
            IF c \in DOMAIN m THEN Attempted(current.cats[c], m[c], now)
            ELSE current.cats[c]
    BY DEF NextSnapshot
  <2>4. \A c \in DOMAIN m :
          Attempted(current.cats[c], m[c], now).retry =
            IF m[c].doc # NoDoc THEN Never
            ELSE IF m[c].retry # Never THEN m[c].retry ELSE current.cats[c].retry
    BY DEF Attempted
  <2> QED
    BY <1>3, <1>4, <1>6, <2>1, <2>2, <2>3, <2>4
<1> QED BY <1>7, <1>8

(* The batch of p is gone, and the others are as they were.                *)
LEMMA Ended ==
  ASSUME TypeOK, NEW p \in Procs, End(p)
  PROVE  /\ running' \subseteq Procs /\ p \notin running'
         /\ active' \in [Procs -> SUBSET Catalogs] /\ active'[p] = {}
         /\ paused' \in [Procs -> SUBSET Catalogs]
         /\ prior' \in [Procs -> Snapshot] /\ prior'[p] = NoSnapshot
         /\ backoff' \in [Procs -> [Providers -> Deadlines \cup {Never}]]
         /\ backoff'[p] = NoDeadlines
         /\ attempts' \in [Procs -> Manifests] /\ DOMAIN attempts'[p] = {}
         /\ heard' \in [Procs -> [Providers -> Deadlines \cup {Never}]]
         /\ heard'[p] = NoDeadlines
         /\ \A r \in Procs \ {p} :
              /\ r \in running' <=> r \in running
              /\ active'[r] = active[r] /\ prior'[r] = prior[r]
              /\ backoff'[r] = backoff[r] /\ attempts'[r] = attempts[r]
              /\ heard'[r] = heard[r]
<1>1. NoSnapshot \in Snapshot /\ NoDeadlines \in [Providers -> Deadlines \cup {Never}]
  BY NoSnapshotType DEF NoDeadlines
<1>2. NoAttempts \in Manifests /\ DOMAIN NoAttempts = {}
  <2>1. NoAttempts \in [{} -> Attempt]
    BY DEF NoAttempts
  <2> QED BY <2>1, Zenon DEF Manifests, NoAttempts
<1>3. /\ attempts \in [Procs -> Manifests]
      /\ attempts' = [attempts EXCEPT ![p] = NoAttempts]
  BY DEF TypeOK, End
<1>4. /\ attempts' \in [Procs -> Manifests] /\ attempts'[p] = NoAttempts
      /\ \A r \in Procs \ {p} : attempts'[r] = attempts[r]
  BY <1>2, <1>3
<1>5. /\ prior' \in [Procs -> Snapshot] /\ prior'[p] = NoSnapshot
      /\ \A r \in Procs \ {p} : prior'[r] = prior[r]
  BY <1>1 DEF TypeOK, End
<1>6. /\ backoff' \in [Procs -> [Providers -> Deadlines \cup {Never}]]
      /\ backoff'[p] = NoDeadlines
      /\ \A r \in Procs \ {p} : backoff'[r] = backoff[r]
  BY <1>1 DEF TypeOK, End
<1>7. /\ heard' \in [Procs -> [Providers -> Deadlines \cup {Never}]]
      /\ heard'[p] = NoDeadlines
      /\ \A r \in Procs \ {p} : heard'[r] = heard[r]
  BY <1>1 DEF TypeOK, End
<1>8. /\ running' \subseteq Procs /\ p \notin running'
      /\ active' \in [Procs -> SUBSET Catalogs] /\ active'[p] = {}
      /\ paused' \in [Procs -> SUBSET Catalogs]
      /\ \A r \in Procs \ {p} : (r \in running' <=> r \in running) /\ active'[r] = active[r]
  BY DEF TypeOK, End
<1> QED
  BY <1>2, <1>4, <1>5, <1>6, <1>7, <1>8

(* A deadline that p is told is the later one from then on.                *)
LEMMA LaterType ==
  ASSUME NEW s \in Nat, NEW t \in Nat
  PROVE  /\ Later(s, t) \in {s, t} /\ Later(s, t) \in Nat
         /\ s <= Later(s, t) /\ t <= Later(s, t)
BY DEF Later

(* What a batch leaves told is the later of the two of each provider.      *)
LEMMA AlsoToldType ==
  ASSUME TypeOK, NEW p \in Procs, NEW t \in [Providers -> Deadlines \cup {Never}]
  PROVE  /\ AlsoTold(t, p) \in [Providers -> Deadlines \cup {Never}]
         /\ \A q \in Providers : AlsoTold(t, p)[q] = Later(t[q], heard[p][q])
<1>1. \A q \in Providers : heard[p][q] \in Deadlines \cup {Never}
  BY DEF TypeOK
<1>2. \A q \in Providers : Later(t[q], heard[p][q]) \in Deadlines \cup {Never}
  BY <1>1 DEF Later
<1> QED
  BY <1>2 DEF AlsoTold


(* A throttled provider: its deadline is later than all that the batch     *)
(* knows of it.                                                            *)
LEMMA ThrottledIs ==
  ASSUME TypeOK, NEW p \in Procs, NEW c \in Catalogs, Throttled(p, c)
  PROVE  \E name \in Names, retry \in Deadlines :
           /\ Failure(name, retry) \in Attempt /\ retry >= now
           /\ Collect(p, c, Failure(name, retry))
           /\ LET q == Provider[c] IN
              /\ q \in Providers
              /\ backoff' = [backoff EXCEPT ![p][q] = Later(backoff[p][q], retry)]
              /\ heard' = [heard EXCEPT ![p][q] = Later(heard[p][q], retry)]
<1>1. PICK name \in Names, retry \in {d \in Deadlines : d >= now} :
        /\ Collect(p, c, Failure(name, retry))
        /\ backoff' = [backoff EXCEPT ![p][Provider[c]] = Later(@, retry)]
        /\ heard' = [heard EXCEPT ![p][Provider[c]] = Later(@, retry)]
  BY DEF Throttled
<1>2. retry \in Deadlines /\ retry >= now /\ Provider[c] \in Providers
  BY AcquisitionAssumption
<1>3. Failure(name, retry) \in Attempt
  BY <1>2, FailureType
<1> QED
  BY <1>1, <1>2, <1>3

(* Every step of a batch keeps the types.                                  *)
LEMMA TypeNext ==
  ASSUME TypeOK, [Next]_vars
  PROVE  TypeOK'
<1>0. /\ \A c \in Catalogs : Provider[c] \in Providers
      /\ \A p \in Procs, q \in Providers : backoff[p][q] \in Deadlines \cup {Never}
      /\ told \in [Providers -> Deadlines \cup {Never}]
      /\ dropped \in [Providers -> Deadlines \cup {Never}]
  BY AcquisitionAssumption DEF TypeOK
<1>1. ASSUME NEW p \in Procs, Start(p) PROVE TypeOK'
  <2>1. PICK act, pau \in SUBSET Catalogs :
          /\ active' = [active EXCEPT ![p] = act]
          /\ paused' = [paused EXCEPT ![p] = pau]
          /\ backoff' = [backoff EXCEPT ![p] = Cooldown(current, act \cup pau)]
    BY <1>1 DEF Start
  <2>2. Cooldown(current, act \cup pau) \in [Providers -> Deadlines \cup {Never}]
    <3>1. \A q \in Providers : Cooldown(current, act \cup pau)[q] \in Deadlines \cup {Never}
      BY CooldownIs DEF TypeOK
    <3> QED BY <3>1 DEF Cooldown, Cooldowns
  <2>3. backoff' \in [Procs -> [Providers -> Deadlines \cup {Never}]]
    BY <2>1, <2>2 DEF TypeOK
  <2> QED
    BY <1>1, <2>1, <2>3 DEF Start, TypeOK, history
<1>2. ASSUME NEW p \in Procs, NEW c \in Catalogs,
             Hold(p, c) \/ Acquired(p, c) \/ Refused(p, c)
      PROVE  TypeOK'
  <2>1. /\ UNCHANGED <<now, current, running, paused, prior, backoff, heard, told, dropped>>
        /\ \/ active' = [active EXCEPT ![p] = @ \ {c}] /\ UNCHANGED attempts
           \/ \E a \in Attempt : Collect(p, c, a)
    <3>1. \A name \in Names :
            /\ Failure(name, Never) \in Attempt
            /\ Failure(name, backoff[p][Provider[c]]) \in Attempt
      BY <1>0, FailureType
    <3>2. \A name \in Names, d \in Docs : [name |-> name, doc |-> d, retry |-> Never] \in Attempt
      BY DEF Attempt
    <3> QED BY <1>2, <3>1, <3>2 DEF Hold, Acquired, Refused, history
  <2>2. active' \in [Procs -> SUBSET Catalogs] /\ attempts' \in [Procs -> Manifests]
    <3>1. CASE active' = [active EXCEPT ![p] = @ \ {c}] /\ UNCHANGED attempts
      BY <3>1 DEF TypeOK
    <3>2. CASE \E a \in Attempt : Collect(p, c, a)
      BY <3>2, Collected DEF TypeOK
    <3> QED BY <2>1, <3>1, <3>2
  <2> QED
    BY <2>1, <2>2 DEF TypeOK
<1>3. ASSUME NEW p \in Procs, NEW c \in Catalogs, Throttled(p, c) PROVE TypeOK'
  <2>1. PICK name \in Names, retry \in Deadlines :
           /\ Failure(name, retry) \in Attempt
           /\ Collect(p, c, Failure(name, retry))
           /\ backoff' = [backoff EXCEPT ![p][Provider[c]] = Later(backoff[p][Provider[c]], retry)]
           /\ heard' = [heard EXCEPT ![p][Provider[c]] = Later(heard[p][Provider[c]], retry)]
    BY <1>3, ThrottledIs
  <2>2. active' \in [Procs -> SUBSET Catalogs] /\ attempts' \in [Procs -> Manifests]
    <3>1. active' = [active EXCEPT ![p] = @ \ {c}] /\ attempts' \in [Procs -> Manifests]
      BY <2>1, Collected
    <3> QED BY <3>1 DEF TypeOK
  <2>3. \A t \in Deadlines \cup {Never} : Later(t, retry) \in Deadlines \cup {Never}
    BY DEF Later
  <2>4. /\ backoff' \in [Procs -> [Providers -> Deadlines \cup {Never}]]
        /\ heard' \in [Procs -> [Providers -> Deadlines \cup {Never}]]
    BY <1>0, <2>1, <2>3 DEF TypeOK
  <2> QED
    BY <1>3, <2>2, <2>4 DEF Throttled, TypeOK, history
<1>4. ASSUME NEW p \in Procs, Publish(p) PROVE TypeOK'
  <2>1. current' \in Snapshot
    BY <1>4, PublishedRetry
  <2>2. told' \in [Providers -> Deadlines \cup {Never}]
    BY <1>0, <1>4, AlsoToldType DEF Publish
  <2>3. End(p)
    BY <1>4 DEF Publish
  <2> QED
    BY <1>4, <2>1, <2>2, <2>3, Ended DEF Publish, TypeOK
<1>5. ASSUME NEW p \in Procs, NEW c \in Catalogs, Stall(p, c) PROVE TypeOK'
  <2>1. dropped' \in [Providers -> Deadlines \cup {Never}]
    BY <1>0, <1>5, AlsoToldType DEF Stall
  <2>2. End(p)
    BY <1>5 DEF Stall
  <2> QED
    BY <1>5, <2>1, <2>2, Ended DEF Stall, TypeOK
<1>6. ASSUME NEW p \in Procs, Die(p) PROVE TypeOK'
  <2>1. End(p)
    BY <1>6 DEF Die
  <2> QED
    BY <1>6, <2>1, Ended DEF Die, TypeOK, history
<1>7. CASE Tick
  BY <1>7, Moments DEF Tick, TypeOK, batch, history
<1>8. CASE UNCHANGED vars
  BY <1>8 DEF TypeOK, vars, batch, history
<1> QED
  BY <1>1, <1>2, <1>3, <1>4, <1>5, <1>6, <1>7, <1>8 DEF Next

(* A step that calls no provider, or hears of no deadline: an attempt it   *)
(* adds has no deadline or the one the batch has for the provider.         *)
LEMMA Attempts ==
  ASSUME TypeOK, NEW p \in Procs, NEW c \in Catalogs,
         Hold(p, c) \/ Acquired(p, c) \/ Refused(p, c)
  PROVE  /\ UNCHANGED <<now, current, running, paused, prior, backoff, heard, told, dropped>>
         /\ c \in active[p]
         /\ \/ active' = [active EXCEPT ![p] = @ \ {c}] /\ UNCHANGED attempts
            \/ \E a \in Attempt :
                 /\ Collect(p, c, a)
                 /\ \/ a.retry = Never /\ now >= backoff[p][Provider[c]]
                    \/ a.doc = NoDoc /\ a.retry = backoff[p][Provider[c]]
<1>1. backoff[p][Provider[c]] \in Deadlines \cup {Never}
  BY AcquisitionAssumption DEF TypeOK
<1>2. UNCHANGED <<now, current, running, paused, prior, backoff, heard, told, dropped>>
      /\ c \in active[p]
  BY DEF Hold, Acquired, Refused, Asked, history
<1>3. CASE Hold(p, c)
  <2>1. \/ active' = [active EXCEPT ![p] = @ \ {c}] /\ UNCHANGED attempts
        \/ \E name \in Names : Collect(p, c, Failure(name, backoff[p][Provider[c]]))
    BY <1>3 DEF Hold
  <2> QED BY <1>1, <1>2, <2>1, FailureType
<1>4. CASE Acquired(p, c)
  <2>1. PICK name \in Names, d \in Docs :
          Collect(p, c, [name |-> name, doc |-> d, retry |-> Never])
    BY <1>4 DEF Acquired
  <2>2. /\ [name |-> name, doc |-> d, retry |-> Never] \in Attempt
        /\ [name |-> name, doc |-> d, retry |-> Never].retry = Never
        /\ now >= backoff[p][Provider[c]]
    BY <1>4 DEF Attempt, Acquired, Asked
  <2> QED BY <1>2, <2>1, <2>2
<1>5. CASE Refused(p, c)
  <2>1. PICK name \in Names : Collect(p, c, Failure(name, Never))
    BY <1>5 DEF Refused
  <2>2. /\ Failure(name, Never) \in Attempt /\ Failure(name, Never).retry = Never
        /\ now >= backoff[p][Provider[c]]
    BY <1>5, FailureType DEF Refused, Asked
  <2> QED BY <1>2, <2>1, <2>2
<1> QED BY <1>3, <1>4, <1>5

(* Everything that is compared is a number.                                *)
LEMMA Numbers ==
  ASSUME TypeOK
  PROVE  /\ now \in Nat /\ current \in Snapshot
         /\ \A c \in Catalogs :
              /\ Provider[c] \in Providers
              /\ current.cats[c].retry \in Nat
              /\ \A p \in Procs : prior[p].cats[c].retry \in Nat
         /\ \A p \in Procs, q \in Providers : backoff[p][q] \in Nat /\ heard[p][q] \in Nat
         /\ \A p \in Procs :
              /\ attempts[p] \in Manifests /\ DOMAIN attempts[p] \subseteq Catalogs
              /\ \A c \in DOMAIN attempts[p] :
                   attempts[p][c] \in Attempt /\ attempts[p][c].retry \in Nat
         /\ \A q \in Providers : told[q] \in Nat /\ dropped[q] \in Nat
         /\ \A p \in Procs, q \in Providers :
              /\ Known(p, q) \in Nat /\ told[q] <= Known(p, q) /\ heard[p][q] <= Known(p, q)
              /\ Known(p, q) \in {told[q], heard[p][q]}
<1>1. \A s \in Snapshot, c \in Catalogs : s.cats[c].retry \in Nat
  BY Moments DEF Snapshot, Catalog
<1>2. \A p \in Procs :
        /\ attempts[p] \in Manifests /\ DOMAIN attempts[p] \subseteq Catalogs
        /\ \A c \in DOMAIN attempts[p] :
             attempts[p][c] \in Attempt /\ attempts[p][c].retry \in Nat
  BY Moments, ManifestType, DeadlineFails DEF TypeOK
<1>3. /\ \A p \in Procs, q \in Providers : backoff[p][q] \in Nat /\ heard[p][q] \in Nat
      /\ \A q \in Providers : told[q] \in Nat /\ dropped[q] \in Nat
  BY Moments DEF TypeOK
<1>4. now \in Nat /\ current \in Snapshot /\ \A p \in Procs : prior[p] \in Snapshot
  BY Moments DEF TypeOK
<1>5. \A c \in Catalogs : Provider[c] \in Providers
  BY AcquisitionAssumption
<1>6. \A p \in Procs, q \in Providers :
              /\ Known(p, q) \in Nat /\ told[q] <= Known(p, q) /\ heard[p][q] <= Known(p, q)
              /\ Known(p, q) \in {told[q], heard[p][q]}
  BY <1>3 DEF Known, Later
<1> QED BY <1>1, <1>2, <1>3, <1>4, <1>5, <1>6

(* Every deadline that a step records was given by its provider.           *)
LEMMA OwnNext ==
  ASSUME TypeOK, OwnInv, [Next]_vars
  PROVE  OwnInv'
<1>0. /\ \A q \in Providers : told'[q] \in Nat
      /\ \A r \in Procs, q \in Providers :
           /\ Known(r, q)' \in Nat
           /\ told'[q] <= Known(r, q)' /\ heard'[r][q] <= Known(r, q)'
  <2>1. /\ \A q \in Providers : told'[q] \in Nat
        /\ \A r \in Procs, q \in Providers : heard'[r][q] \in Nat
    BY TypeNext, Moments DEF TypeOK
  <2>2. \A r \in Procs, q \in Providers : Known(r, q)' = Later(told'[q], heard'[r][q])
    BY DEF Known
  <2> QED BY <2>1, <2>2 DEF Later
<1>1. ASSUME NEW p \in Procs, Start(p) PROVE OwnInv'
  <2>1. PICK act, pau \in SUBSET Catalogs :
          backoff' = [backoff EXCEPT ![p] = Cooldown(current, act \cup pau)]
    BY <1>1 DEF Start
  <2>2. /\ UNCHANGED <<current, attempts, heard, told>>
        /\ prior' = [prior EXCEPT ![p] = current]
        /\ prior \in [Procs -> Snapshot]
        /\ backoff \in [Procs -> [Providers -> Deadlines \cup {Never}]]
    BY <1>1 DEF Start, history, TypeOK
  <2>3. \A q \in Providers : Cooldown(current, act \cup pau)[q] <= told[q]
    <3> TAKE q \in Providers
    <3> DEFINE d == Cooldown(current, act \cup pau)[q]
    <3>1. d # Never => \E c \in Catalogs : Provider[c] = q /\ current.cats[c].retry = d
      BY CooldownIs, Numbers
    <3> HIDE DEF d
    <3>2. d <= told[q]
      BY <3>1, Numbers DEF OwnInv, DeadlineOwned, Never
    <3> QED BY <3>2 DEF d
  <2>4. \A r \in Procs, c \in Catalogs : prior'[r].cats[c].retry <= told[Provider[c]]
    BY <2>2 DEF OwnInv, DeadlineOwned
  <2>5. \A r \in Procs, q \in Providers : backoff'[r][q] <= Known(r, q)
    <3>1. \A q \in Providers : Cooldown(current, act \cup pau)[q] \in Nat
      BY CooldownIs, Numbers, Moments
    <3>2. \A q \in Providers : Cooldown(current, act \cup pau)[q] <= Known(p, q)
      <4>1. \A q \in Providers :
              told[q] \in Nat /\ Known(p, q) \in Nat /\ told[q] <= Known(p, q)
        BY Numbers
      <4> QED BY <2>3, <3>1, <4>1
    <3> QED BY <2>1, <2>2, <3>2 DEF OwnInv
  <2>6. \A r \in Procs, q \in Providers : Known(r, q)' = Known(r, q)
    BY <2>2 DEF Known
  <2> QED
    BY <2>2, <2>4, <2>5, <2>6, Numbers DEF OwnInv, DeadlineOwned
<1>2. ASSUME NEW p \in Procs, NEW c \in Catalogs,
             Hold(p, c) \/ Acquired(p, c) \/ Refused(p, c)
      PROVE  OwnInv'
  <2>1. UNCHANGED <<current, prior, backoff, heard, told>>
    BY <1>2, Attempts
  <2>2. \A r \in Procs : \A k \in DOMAIN attempts'[r] :
           attempts'[r][k].retry <= Known(r, Provider[k])
    <3>1. CASE UNCHANGED attempts
      BY <3>1 DEF OwnInv
    <3>2. CASE \E a \in Attempt :
                 /\ Collect(p, c, a)
                 /\ a.retry = Never \/ a.retry = backoff[p][Provider[c]]
      <4>1. PICK a \in Attempt :
                 /\ Collect(p, c, a)
                 /\ a.retry = Never \/ a.retry = backoff[p][Provider[c]]
        BY <3>2
      <4>2. a.retry <= Known(p, Provider[c])
        BY <4>1, Numbers DEF OwnInv, Never
      <4>3. /\ \A r \in Procs \ {p} : attempts'[r] = attempts[r]
            /\ DOMAIN attempts'[p] = DOMAIN attempts[p] \cup {c} /\ attempts'[p][c] = a
            /\ \A k \in DOMAIN attempts[p] \ {c} : attempts'[p][k] = attempts[p][k]
        BY <4>1, Collected
      <4> QED BY <4>2, <4>3 DEF OwnInv
    <3> QED BY <1>2, <3>1, <3>2, Attempts
  <2>3. \A r \in Procs, q \in Providers : Known(r, q)' = Known(r, q)
    BY <2>1 DEF Known
  <2> QED
    <3>1. \A r \in Procs : \A k \in DOMAIN attempts'[r] :
             attempts'[r][k].retry <= Known(r, Provider[k])'
      <4>1. TypeOK'
        BY TypeNext
      <4>2. \A r \in Procs : \A k \in DOMAIN attempts'[r] : Provider[k] \in Providers
        BY <4>1, AcquisitionAssumption, ManifestType DEF TypeOK
      <4> QED BY <2>2, <2>3, <4>2
    <3> QED
      BY <2>1, <2>3, <3>1 DEF OwnInv, DeadlineOwned
<1>3. ASSUME NEW p \in Procs, NEW c \in Catalogs, Throttled(p, c) PROVE OwnInv'
  <2> DEFINE o == Provider[c]
  <2>1. PICK name \in Names, retry \in Deadlines :
           /\ Failure(name, retry) \in Attempt
           /\ Collect(p, c, Failure(name, retry))
           /\ backoff' = [backoff EXCEPT ![p][o] = Later(backoff[p][o], retry)]
           /\ heard' = [heard EXCEPT ![p][o] = Later(heard[p][o], retry)]
    BY <1>3, ThrottledIs
  <2>2. /\ UNCHANGED <<current, prior, told>> /\ retry \in Nat /\ o \in Providers
        /\ heard \in [Procs -> [Providers -> Deadlines \cup {Never}]]
        /\ backoff \in [Procs -> [Providers -> Deadlines \cup {Never}]]
        /\ heard[p][o] \in Nat /\ backoff[p][o] \in Nat
    BY <1>3, Numbers, Moments DEF Throttled, history, TypeOK
  <2>3. /\ \A r \in Procs, q \in Providers :
             (r # p \/ q # o) => heard'[r][q] = heard[r][q] /\ backoff'[r][q] = backoff[r][q]
        /\ heard'[p][o] = Later(heard[p][o], retry)
        /\ backoff'[p][o] = Later(backoff[p][o], retry)
    <3> HIDE DEF o
    <3> QED BY <2>1, <2>2
  <2>4. /\ \A r \in Procs, q \in Providers :
             (r # p \/ q # o) => Known(r, q)' = Known(r, q)
        /\ Known(p, o) <= Known(p, o)' /\ retry <= Known(p, o)'
        /\ backoff'[p][o] <= Known(p, o)'
    <3> HIDE DEF o
    <3>1. \A r \in Procs, q \in Providers :
             (r # p \/ q # o) => Known(r, q)' = Known(r, q)
      BY <2>2, <2>3 DEF Known
    <3>2. Known(p, o)' = Later(told[o], Later(heard[p][o], retry))
      BY <2>2, <2>3 DEF Known
    <3>3. backoff[p][o] <= Known(p, o) /\ Known(p, o) = Later(told[o], heard[p][o])
      BY <2>2 DEF OwnInv, Known
    <3>4. told[o] \in Nat
      BY <2>2, Numbers
    <3> QED
      BY <2>2, <2>3, <3>1, <3>2, <3>3, <3>4 DEF Later
  <2>5. \A r \in Procs : \A k \in DOMAIN attempts'[r] :
           attempts'[r][k].retry <= Known(r, Provider[k])'
    <3>1. /\ \A r \in Procs \ {p} : attempts'[r] = attempts[r]
          /\ DOMAIN attempts'[p] = DOMAIN attempts[p] \cup {c}
          /\ attempts'[p][c] = Failure(name, retry)
          /\ \A k \in DOMAIN attempts[p] \ {c} : attempts'[p][k] = attempts[p][k]
      BY <2>1, Collected
    <3>2. attempts'[p][c].retry = retry
      BY <3>1, FailureType
    <3>3. \A r \in Procs, q \in Providers :
            Known(r, q) \in Nat /\ Known(r, q)' \in Nat /\ Known(r, q) <= Known(r, q)'
      BY <2>4, Numbers, <1>0
    <3>4. \A r \in Procs : \A k \in DOMAIN attempts[r] :
            /\ attempts[r][k].retry \in Nat /\ Provider[k] \in Providers
            /\ attempts[r][k].retry <= Known(r, Provider[k])
      BY Numbers DEF OwnInv
    <3>5. \A r \in Procs : \A k \in DOMAIN attempts[r] :
            attempts[r][k].retry <= Known(r, Provider[k])'
      BY <3>3, <3>4
    <3> HIDE DEF o
    <3>6. \A r \in Procs : \A k \in DOMAIN attempts'[r] :
            \/ k \in DOMAIN attempts[r] /\ attempts'[r][k].retry = attempts[r][k].retry
            \/ r = p /\ k = c
      BY <3>1
    <3> QED BY <2>4, <3>2, <3>5, <3>6 DEF o
  <2>6. \A r \in Procs, q \in Providers : backoff'[r][q] <= Known(r, q)'
    <3> HIDE DEF o
    <3> QED BY <2>3, <2>4 DEF OwnInv
  <2> QED
    BY <2>2, <2>5, <2>6 DEF OwnInv, DeadlineOwned
<1>4. ASSUME NEW p \in Procs, Publish(p) PROVE OwnInv'
  <2>1. End(p) /\ told' = AlsoTold(told, p)
    BY <1>4 DEF Publish
  <2>2. \A q \in Providers : told'[q] = Known(p, q)
    BY <2>1, AlsoToldType DEF Known, TypeOK
  <2>3. \A q \in Providers : told[q] <= told'[q]
    BY <2>2, Numbers
  <2>4. \A c \in Catalogs : current'.cats[c].retry <= told'[Provider[c]]
    <3>1. ASSUME NEW c \in Catalogs PROVE current'.cats[c].retry <= told'[Provider[c]]
      <4>1. /\ current.cats[c].retry <= told[Provider[c]]
            /\ prior[p].cats[c].retry <= told[Provider[c]]
            /\ c \in DOMAIN attempts[p] => attempts[p][c].retry <= told'[Provider[c]]
        BY <2>2, Numbers DEF OwnInv, DeadlineOwned
      <4>2. \/ current'.cats[c].retry \in {Never, current.cats[c].retry, prior[p].cats[c].retry}
            \/ c \in DOMAIN attempts[p] /\ current'.cats[c].retry = attempts[p][c].retry
        BY <1>4, PublishedRetry
      <4>3. /\ told[Provider[c]] \in Nat /\ told'[Provider[c]] \in Nat /\ Never = 0
            /\ told[Provider[c]] <= told'[Provider[c]]
            /\ current.cats[c].retry \in Nat /\ prior[p].cats[c].retry \in Nat
        BY <1>0, <2>3, Numbers DEF Never
      <4> QED BY <4>1, <4>2, <4>3
    <3> QED BY <3>1
  <2>5. /\ prior'[p] = NoSnapshot /\ backoff'[p] = NoDeadlines /\ DOMAIN attempts'[p] = {}
        /\ \A r \in Procs \ {p} :
             /\ prior'[r] = prior[r] /\ backoff'[r] = backoff[r]
             /\ attempts'[r] = attempts[r] /\ heard'[r] = heard[r]
    BY <2>1, Ended
  <2>6. \A r \in Procs, q \in Providers :
           Known(r, q)' \in Nat /\ Known(r, q) \in Nat /\ (r # p => Known(r, q) <= Known(r, q)')
    <3>1. \A r \in Procs, q \in Providers : Known(r, q)' = Later(told'[q], heard'[r][q])
      BY DEF Known
    <3>2. \A r \in Procs, q \in Providers :
             /\ told[q] \in Nat /\ told'[q] \in Nat /\ heard[r][q] \in Nat
             /\ Known(r, q)' \in Nat /\ Known(r, q) \in Nat
      BY <1>0, Numbers
    <3>3. \A r \in Procs \ {p}, q \in Providers : heard'[r][q] = heard[r][q]
      BY <2>5
    <3> QED BY <2>3, <3>1, <3>2, <3>3 DEF Known, Later
  <2>7. \A r \in Procs :
          /\ \A c \in Catalogs : prior'[r].cats[c].retry <= told'[Provider[c]]
          /\ \A q \in Providers : backoff'[r][q] <= Known(r, q)'
          /\ \A c \in DOMAIN attempts'[r] : attempts'[r][c].retry <= Known(r, Provider[c])'
    <3>1. ASSUME NEW r \in Procs \ {p}
          PROVE  /\ \A c \in Catalogs : prior'[r].cats[c].retry <= told'[Provider[c]]
                 /\ \A q \in Providers : backoff'[r][q] <= Known(r, q)'
                 /\ \A c \in DOMAIN attempts'[r] :
                      attempts'[r][c].retry <= Known(r, Provider[c])'
      <4>1. \A c \in Catalogs : prior[r].cats[c].retry <= told'[Provider[c]]
        BY <2>3, <1>0, Numbers DEF OwnInv
      <4>2. \A q \in Providers : backoff[r][q] <= Known(r, q)'
        BY <2>6, Numbers DEF OwnInv
      <4>3. \A c \in DOMAIN attempts[r] : attempts[r][c].retry <= Known(r, Provider[c])'
        BY <2>6, Numbers DEF OwnInv
      <4> QED BY <2>5, <4>1, <4>2, <4>3
    <3>2. \A c \in Catalogs : prior'[p].cats[c].retry <= told'[Provider[c]]
      <4>1. \A c \in Catalogs : NoSnapshot.cats[c].retry = 0
        BY DEF NoSnapshot, NoCatalog, Never
      <4> QED BY <1>0, <2>5, <4>1, Numbers
    <3>3. \A q \in Providers : backoff'[p][q] <= Known(p, q)'
      BY <2>5, <2>6 DEF NoDeadlines, Never
    <3> QED BY <2>5, <3>1, <3>2, <3>3
  <2> QED
    BY <2>4, <2>7 DEF OwnInv, DeadlineOwned
<1>5. ASSUME NEW p \in Procs, Die(p) \/ \E c \in Catalogs : Stall(p, c) PROVE OwnInv'
  <2>1. End(p) /\ UNCHANGED <<current, told>>
    BY <1>5 DEF Die, Stall, history
  <2>2. /\ prior'[p] = NoSnapshot /\ backoff'[p] = NoDeadlines /\ DOMAIN attempts'[p] = {}
        /\ \A r \in Procs \ {p} :
             /\ prior'[r] = prior[r] /\ backoff'[r] = backoff[r]
             /\ attempts'[r] = attempts[r] /\ heard'[r] = heard[r]
    BY <2>1, Ended
  <2>3. \A r \in Procs \ {p}, q \in Providers : Known(r, q)' = Known(r, q)
    BY <2>1, <2>2 DEF Known
  <2>4. \A c \in Catalogs : prior'[p].cats[c].retry <= told'[Provider[c]]
    <3>1. \A c \in Catalogs : NoSnapshot.cats[c].retry = 0
      BY DEF NoSnapshot, NoCatalog, Never
    <3> QED BY <1>0, <2>2, <3>1, Numbers
  <2>5. \A q \in Providers : backoff'[p][q] <= Known(p, q)'
    BY <1>0, <2>2, Numbers DEF NoDeadlines, Never
  <2>6. \A c \in Catalogs : Provider[c] \in Providers
    BY Numbers
  <2>7. \A r \in Procs : \A c \in DOMAIN attempts[r] : Provider[c] \in Providers
    BY Numbers
  <2> QED
    BY <2>1, <2>2, <2>3, <2>4, <2>5, <2>6, <2>7 DEF OwnInv, DeadlineOwned
<1>6. CASE Tick \/ UNCHANGED vars
  <2>1. UNCHANGED <<current, prior, backoff, attempts, heard, told>>
    BY <1>6 DEF Tick, vars, batch, history
  <2> QED
    BY <2>1 DEF OwnInv, DeadlineOwned, Known
<1> QED
  BY <1>1, <1>2, <1>3, <1>4, <1>5, <1>6 DEF Next

(* The invariant holds of any number of overlapping batches.               *)
THEOREM Invariance == Spec => []IInv
<1>1. Init => IInv
  <2> SUFFICES ASSUME Init PROVE IInv
    OBVIOUS
  <2>1. NoDeadlines \in [Providers -> Deadlines \cup {Never}]
    BY DEF NoDeadlines
  <2>2. NoAttempts \in Manifests /\ DOMAIN NoAttempts = {}
    <3>1. NoAttempts \in [{} -> Attempt]
      BY DEF NoAttempts
    <3> QED BY <3>1, Zenon DEF Manifests, NoAttempts
  <2>3. TypeOK
    BY <2>1, <2>2, Moments, NoSnapshotType DEF Init, TypeOK
  <2>4. /\ \A c \in Catalogs : NoSnapshot.cats[c].retry = 0
        /\ \A q \in Providers : NoDeadlines[q] = 0
    BY DEF NoSnapshot, NoCatalog, NoDeadlines, Never
  <2>5. /\ \A c \in Catalogs : Provider[c] \in Providers
        /\ \A p \in Procs, q \in Providers : Known(p, q) \in Nat
    BY <2>3, Numbers
  <2>6. OwnInv
    <3>1. /\ current = NoSnapshot /\ told = NoDeadlines
          /\ \A p \in Procs : /\ prior[p] = NoSnapshot /\ backoff[p] = NoDeadlines
                              /\ DOMAIN attempts[p] = {}
      BY <2>2 DEF Init
    <3> QED BY <2>4, <2>5, <3>1 DEF OwnInv, DeadlineOwned
  <2> QED BY <2>3, <2>6 DEF IInv
<1>2. IInv /\ [Next]_vars => IInv'
  BY TypeNext, OwnNext DEF IInv
<1> QED BY <1>1, <1>2, PTL DEF Spec

-----------------------------------------------------------------------------
(* A batch that a step leaves alone, while the snapshot stays, is as good  *)
(* as before: time only makes the deadlines it respects pass.              *)
LEMMA BatchKept ==
  ASSUME TypeOK, NEW r \in Procs, Batch(r), now' \in Nat, now' >= now,
         current' = current, r \in running' <=> r \in running,
         active'[r] = active[r], prior'[r] = prior[r], backoff'[r] = backoff[r],
         attempts'[r] = attempts[r], heard'[r] = heard[r]
  PROVE  Batch(r)'
<1>1. \A c \in DOMAIN attempts[r], k \in Catalogs :
        current.cats[k].retry <= now => current.cats[k].retry <= now'
  BY Numbers
<1>2. \A c \in DOMAIN attempts[r] :
         /\ attempts[r][c].doc # NoDoc =>
              \A k \in Catalogs :
                Provider[k] = Provider[c] => current.cats[k].retry <= now'
         /\ attempts[r][c].retry # Never =>
              current.cats[c].retry <= attempts[r][c].retry
  BY <1>1 DEF Batch
<1>3. /\ r \notin running =>
           active[r] = {} /\ DOMAIN attempts[r] = {} /\ heard[r] = NoDeadlines
      /\ r \in running =>
           /\ prior[r] = current
           /\ \A c \in Catalogs : current.cats[c].retry <= backoff[r][Provider[c]]
      /\ active[r] \cap DOMAIN attempts[r] = {}
      /\ \A q \in Providers :
           /\ heard[r][q] <= backoff[r][q]
           /\ heard[r][q] # Never =>
                \E c \in DOMAIN attempts[r] :
                  Provider[c] = q /\ attempts[r][c].retry = heard[r][q]
  BY DEF Batch
<1> QED
  BY <1>2, <1>3 DEF Batch

(* Nothing is left of a batch that ends.                                   *)
LEMMA BatchEnded ==
  ASSUME TypeOK, NEW p \in Procs, End(p)
  PROVE  Batch(p)'
<1>1. \A q \in Providers : NoDeadlines[q] = 0
  BY DEF NoDeadlines, Never
<1> QED
  BY <1>1, Ended DEF Batch, Never

(* Every step keeps what is so of a batch that nobody overlaps.            *)
LEMMA BatchNext ==
  ASSUME TypeOK, BatchInv, OneAtATime, [Next]_vars
  PROVE  BatchInv'
<1>0. now' \in Nat /\ now' >= now /\ (now' = now \/ Tick)
  <2>1. now' = now \/ Tick
    BY Attempts, Zenon DEF Next, Start, Hold, Acquired, Refused, Throttled, Publish, Stall, Die, vars
  <2> QED
    BY <2>1, Numbers DEF Tick
<1>1. ASSUME NEW p \in Procs, Start(p) PROVE BatchInv'
  <2>1. PICK act, pau \in SUBSET Catalogs :
          /\ active' = [active EXCEPT ![p] = act]
          /\ backoff' = [backoff EXCEPT ![p] = Cooldown(current, act \cup pau)]
    BY <1>1 DEF Start
  <2>2. /\ UNCHANGED <<now, current, attempts, heard>>
        /\ p \notin running /\ running' = running \cup {p}
        /\ prior' = [prior EXCEPT ![p] = current]
    BY <1>1 DEF Start
  <2>3. /\ active'[p] = act /\ backoff'[p] = Cooldown(current, act \cup pau)
        /\ prior'[p] = current
        /\ \A r \in Procs \ {p} :
             active'[r] = active[r] /\ prior'[r] = prior[r] /\ backoff'[r] = backoff[r]
    BY <2>1, <2>2 DEF TypeOK
  <2>4. ASSUME NEW r \in Procs \ {p} PROVE Batch(r)'
    BY <1>0, <2>2, <2>3, BatchKept DEF BatchInv
  <2>5. Batch(p)'
    <3>1. DOMAIN attempts[p] = {} /\ heard[p] = NoDeadlines
      BY <2>2 DEF BatchInv, Batch
    <3>2. \A q \in Providers :
            /\ backoff'[p][q] \in Nat
            /\ \A c \in Catalogs : Provider[c] = q => current.cats[c].retry <= backoff'[p][q]
      BY <2>3, CooldownIs, Moments, Numbers
    <3>3. \A c \in Catalogs : current.cats[c].retry <= backoff'[p][Provider[c]]
      BY <3>2, Numbers
    <3>4. \A q \in Providers : heard'[p][q] = Never /\ heard'[p][q] <= backoff'[p][q]
      BY <2>2, <3>1, <3>2 DEF NoDeadlines, Never
    <3>5. p \in running' /\ prior'[p] = current' /\ current' = current
          /\ DOMAIN attempts'[p] = {}
      BY <2>2, <2>3, <3>1
    <3> QED
      BY <3>3, <3>4, <3>5 DEF Batch
  <2> QED BY <2>4, <2>5 DEF BatchInv
<1>2. ASSUME NEW p \in Procs, NEW c \in Catalogs,
             Hold(p, c) \/ Acquired(p, c) \/ Refused(p, c)
      PROVE  BatchInv'
  <2>1. /\ UNCHANGED <<now, current, running, prior, backoff, heard>> /\ c \in active[p]
        /\ active' = [active EXCEPT ![p] = @ \ {c}]
        /\ \A r \in Procs \ {p} : active'[r] = active[r] /\ attempts'[r] = attempts[r]
    BY <1>2, Attempts, Collected DEF TypeOK
  <2>2. active'[p] = active[p] \ {c}
    BY <2>1 DEF TypeOK
  <2>3. ASSUME NEW r \in Procs \ {p} PROVE Batch(r)'
    BY <1>0, <2>1, BatchKept DEF BatchInv
  <2>4. Batch(p)'
    <3>1. CASE UNCHANGED attempts
      BY <2>1, <2>2, <3>1 DEF BatchInv, Batch
    <3>2. CASE \E a \in Attempt :
                 /\ Collect(p, c, a)
                 /\ \/ a.retry = Never /\ now >= backoff[p][Provider[c]]
                    \/ a.doc = NoDoc /\ a.retry = backoff[p][Provider[c]]
      <4>1. PICK a \in Attempt :
                 /\ Collect(p, c, a)
                 /\ \/ a.retry = Never /\ now >= backoff[p][Provider[c]]
                    \/ a.doc = NoDoc /\ a.retry = backoff[p][Provider[c]]
        BY <3>2
      <4>2. /\ p \in running /\ c \notin DOMAIN attempts[p]
            /\ \A k \in Catalogs : current.cats[k].retry <= backoff[p][Provider[k]]
        BY <2>1 DEF BatchInv, Batch
      <4>3. /\ DOMAIN attempts'[p] = DOMAIN attempts[p] \cup {c} /\ attempts'[p][c] = a
            /\ \A k \in DOMAIN attempts[p] : attempts'[p][k] = attempts[p][k]
        BY <4>1, <4>2, Collected
      <4>4. a.doc # NoDoc =>
              \A k \in Catalogs : Provider[k] = Provider[c] => current.cats[k].retry <= now
        BY <4>1, <4>2, Numbers
      <4>5. a.retry # Never => current.cats[c].retry <= a.retry
        BY <4>1, <4>2
      <4>6. \A q \in Providers :
              heard[p][q] # Never =>
                \E k \in DOMAIN attempts'[p] :
                  Provider[k] = q /\ attempts'[p][k].retry = heard[p][q]
        BY <4>3 DEF BatchInv, Batch
      <4>7. \A k \in DOMAIN attempts[p] :
              /\ attempts[p][k].doc # NoDoc =>
                   \A l \in Catalogs :
                     Provider[l] = Provider[k] => current.cats[l].retry <= now
              /\ attempts[p][k].retry # Never =>
                   current.cats[k].retry <= attempts[p][k].retry
        BY DEF BatchInv, Batch
      <4>8. \A k \in DOMAIN attempts'[p] :
              /\ attempts'[p][k].doc # NoDoc =>
                   \A l \in Catalogs :
                     Provider[l] = Provider[k] => current.cats[l].retry <= now
              /\ attempts'[p][k].retry # Never =>
                   current.cats[k].retry <= attempts'[p][k].retry
        BY <4>3, <4>4, <4>5, <4>7
      <4>9. active'[p] \cap DOMAIN attempts'[p] = {}
        BY <2>2, <4>3 DEF BatchInv, Batch
      <4> QED
        BY <2>1, <4>2, <4>6, <4>8, <4>9 DEF BatchInv, Batch
    <3> QED BY <1>2, <3>1, <3>2, Attempts
  <2> QED BY <2>3, <2>4 DEF BatchInv
<1>3. ASSUME NEW p \in Procs, NEW c \in Catalogs, Throttled(p, c) PROVE BatchInv'
  <2> DEFINE o == Provider[c]
  <2>1. PICK name \in Names, retry \in Deadlines :
           /\ Failure(name, retry) \in Attempt /\ retry >= now
           /\ Collect(p, c, Failure(name, retry))
           /\ o \in Providers
           /\ backoff' = [backoff EXCEPT ![p][o] = Later(backoff[p][o], retry)]
           /\ heard' = [heard EXCEPT ![p][o] = Later(heard[p][o], retry)]
    BY <1>3, ThrottledIs
  <2>2. /\ UNCHANGED <<now, current, running, prior>> /\ retry \in Nat
        /\ c \in active[p] /\ now >= backoff[p][o]
        /\ heard \in [Procs -> [Providers -> Deadlines \cup {Never}]]
        /\ backoff \in [Procs -> [Providers -> Deadlines \cup {Never}]]
        /\ heard[p][o] \in Nat /\ backoff[p][o] \in Nat /\ now \in Nat
    BY <1>3, <2>1, Numbers, Moments DEF Throttled, Asked, TypeOK
  <2>3. /\ p \in running /\ c \notin DOMAIN attempts[p] /\ heard[p][o] <= backoff[p][o]
        /\ prior[p] = current
        /\ \A k \in Catalogs : current.cats[k].retry <= backoff[p][Provider[k]]
    BY <2>1, <2>2 DEF BatchInv, Batch
  <2>4. Later(heard[p][o], retry) = retry /\ Later(backoff[p][o], retry) = retry
    <3>1. heard[p][o] <= retry /\ backoff[p][o] <= retry
      BY <2>1, <2>2, <2>3
    <3>2. \A s, t \in Nat : s <= t => Later(s, t) = t
      BY DEF Later
    <3> HIDE DEF o
    <3> QED BY <2>2, <3>1, <3>2
  <2>5. /\ heard'[p][o] = retry /\ backoff'[p][o] = retry
        /\ \A q \in Providers \ {o} :
             heard'[p][q] = heard[p][q] /\ backoff'[p][q] = backoff[p][q]
        /\ \A r \in Procs \ {p} : heard'[r] = heard[r] /\ backoff'[r] = backoff[r]
    <3> HIDE DEF o
    <3> QED BY <2>1, <2>2, <2>4
  <2>6. /\ DOMAIN attempts'[p] = DOMAIN attempts[p] \cup {c}
        /\ attempts'[p][c] = Failure(name, retry)
        /\ \A k \in DOMAIN attempts[p] : attempts'[p][k] = attempts[p][k]
        /\ \A r \in Procs \ {p} : attempts'[r] = attempts[r]
    BY <2>1, <2>3, Collected
  <2>7. attempts'[p][c].retry = retry /\ attempts'[p][c].doc = NoDoc
    BY <2>6, FailureType
  <2>8. active'[p] = active[p] \ {c} /\ \A r \in Procs \ {p} : active'[r] = active[r]
    BY <2>1, Collected DEF TypeOK
  <2>9. ASSUME NEW r \in Procs \ {p} PROVE Batch(r)'
    <3> HIDE DEF o
    <3> QED BY <1>0, <2>2, <2>5, <2>6, <2>8, BatchKept DEF BatchInv
  <2>10. Batch(p)'
    <3>1. \A k \in Catalogs : current.cats[k].retry <= backoff'[p][Provider[k]]
      <4>1. \A k \in Catalogs : Provider[k] = o => current.cats[k].retry <= retry
        BY <2>1, <2>2, <2>3, Numbers
      <4> HIDE DEF o
      <4>2. \A k \in Catalogs : Provider[k] \in Providers
        BY Numbers
      <4> QED BY <2>3, <2>5, <4>1, <4>2
    <3>2. active'[p] \cap DOMAIN attempts'[p] = {}
      BY <2>6, <2>8 DEF BatchInv, Batch
    <3>3. \A q \in Providers :
            /\ heard'[p][q] <= backoff'[p][q]
            /\ heard'[p][q] # Never =>
                 \E k \in DOMAIN attempts'[p] :
                   Provider[k] = q /\ attempts'[p][k].retry = heard'[p][q]
      <4>1. /\ heard'[p][o] <= backoff'[p][o]
            /\ \E k \in DOMAIN attempts'[p] :
                 Provider[k] = o /\ attempts'[p][k].retry = heard'[p][o]
        BY <2>2, <2>5, <2>6, <2>7
      <4> HIDE DEF o
      <4>2. ASSUME NEW q \in Providers \ {o}
            PROVE  /\ heard'[p][q] <= backoff'[p][q]
                   /\ heard'[p][q] # Never =>
                        \E k \in DOMAIN attempts'[p] :
                          Provider[k] = q /\ attempts'[p][k].retry = heard'[p][q]
        BY <2>5, <2>6 DEF BatchInv, Batch
      <4> QED BY <4>1, <4>2
    <3>4. \A k \in DOMAIN attempts[p] :
            /\ attempts[p][k].doc # NoDoc =>
                 \A l \in Catalogs :
                   Provider[l] = Provider[k] => current.cats[l].retry <= now
            /\ attempts[p][k].retry # Never =>
                 current.cats[k].retry <= attempts[p][k].retry
      BY DEF BatchInv, Batch
    <3>5. current.cats[c].retry <= retry
      BY <2>1, <2>2, <2>3, Numbers
    <3> HIDE DEF o
    <3>6. \A k \in DOMAIN attempts'[p] :
            /\ attempts'[p][k].doc # NoDoc =>
                 \A l \in Catalogs :
                   Provider[l] = Provider[k] => current.cats[l].retry <= now
            /\ attempts'[p][k].retry # Never =>
                 current.cats[k].retry <= attempts'[p][k].retry
      BY <2>6, <2>7, <3>4, <3>5
    <3> QED
      BY <2>2, <2>3, <3>1, <3>2, <3>3, <3>6 DEF Batch
  <2> QED BY <2>9, <2>10 DEF BatchInv
<1>4. ASSUME NEW p \in Procs, p \in running,
             \/ Publish(p) \/ Die(p) \/ \E c \in Catalogs : Stall(p, c)
      PROVE  BatchInv'
  <2>1. End(p)
    BY <1>4 DEF Publish, Die, Stall
  <2>2. ASSUME NEW r \in Procs \ {p} PROVE Batch(r)'
    <3>1. /\ r \notin running /\ r \notin running'
          /\ active'[r] = active[r] /\ backoff'[r] = backoff[r]
          /\ attempts'[r] = attempts[r] /\ heard'[r] = heard[r]
      BY <1>4, <2>1, Ended DEF OneAtATime
    <3>2. /\ active[r] = {} /\ DOMAIN attempts[r] = {} /\ heard[r] = NoDeadlines
          /\ \A q \in Providers : heard[r][q] <= backoff[r][q]
          /\ \A q \in Providers : heard[r][q] = Never
      BY <3>1 DEF BatchInv, Batch, NoDeadlines
    <3> QED BY <3>1, <3>2 DEF Batch
  <2> QED BY <2>1, <2>2, BatchEnded DEF BatchInv
<1>5. \A p \in Procs, c \in Catalogs : Stall(p, c) => p \in running
  BY DEF Stall, Asked, BatchInv, Batch
<1>6. CASE Tick \/ UNCHANGED vars
  <2>1. UNCHANGED <<current, batch>>
    BY <1>6 DEF Tick, vars
  <2> QED BY <1>0, <2>1, BatchKept DEF BatchInv, batch
<1> QED
  BY <1>1, <1>2, <1>3, <1>4, <1>5, <1>6 DEF Next, Publish, Die

(* A publication of the only batch keeps the latest deadline of a provider *)
(* that is still ahead: by the attempt that was told it, or because none   *)
(* of the attempts takes it back.                                          *)
LEMMA RememberedNext ==
  ASSUME TypeOK, BatchInv, CooldownRemembered, [Next]_vars
  PROVE  CooldownRemembered'
<1>1. ASSUME NEW p \in Procs, Publish(p) PROVE CooldownRemembered'
  <2> SUFFICES ASSUME NEW q \in Providers, told'[q] > now'
               PROVE  \E c \in Catalogs : /\ Provider[c] = q
                                          /\ current'.cats[c].retry >= told'[q]
    BY DEF CooldownRemembered
  <2>1. /\ p \in running /\ now' = now
        /\ told'[q] = Later(told[q], heard[p][q])
    BY <1>1, AlsoToldType DEF Publish, TypeOK
  <2>2. /\ told[q] \in Nat /\ heard[p][q] \in Nat /\ now \in Nat
        /\ attempts[p] \in Manifests /\ DOMAIN attempts[p] \subseteq Catalogs
        /\ \A c \in DOMAIN attempts[p] : attempts[p][c] \in Attempt
    BY Numbers
  <2>3. CASE heard[p][q] # Never /\ told'[q] = heard[p][q]
    <3>1. PICK c \in DOMAIN attempts[p] :
            Provider[c] = q /\ attempts[p][c].retry = heard[p][q]
      BY <2>3 DEF BatchInv, Batch
    <3>2. attempts[p][c].retry # Never /\ attempts[p][c].doc = NoDoc
      BY <2>2, <2>3, <3>1, DeadlineFails
    <3>3. current'.cats[c].retry = heard[p][q]
      BY <1>1, <3>1, <3>2, PublishedRetry
    <3> QED BY <2>2, <2>3, <3>1, <3>3
  <2>4. CASE told'[q] = told[q]
    <3>1. PICK c \in Catalogs : Provider[c] = q /\ current.cats[c].retry >= told[q]
      BY <2>1, <2>4 DEF CooldownRemembered
    <3>2. current.cats[c].retry \in Nat /\ current.cats[c].retry > now
      BY <2>1, <2>2, <2>4, <3>1, Numbers
    <3>3. CASE c \in DOMAIN attempts[p]
      <4>1. attempts[p][c].doc = NoDoc
        BY <2>2, <3>1, <3>2, <3>3 DEF BatchInv, Batch
      <4>2. attempts[p][c].retry # Never =>
              current.cats[c].retry <= attempts[p][c].retry
        BY <3>3 DEF BatchInv, Batch
      <4>3. attempts[p][c].retry \in Nat
        BY <3>3, Numbers
      <4>4. current'.cats[c].retry >= told[q]
        BY <1>1, <2>2, <3>1, <3>2, <3>3, <4>1, <4>2, <4>3, PublishedRetry
      <4> QED BY <2>4, <3>1, <4>4
    <3>4. CASE c \notin DOMAIN attempts[p]
      <4>1. current'.cats[c].retry \in {current.cats[c].retry, prior[p].cats[c].retry}
        BY <1>1, <3>4, PublishedRetry
      <4>2. prior[p] = current
        BY <2>1 DEF BatchInv, Batch
      <4> QED BY <2>4, <3>1, <4>1, <4>2
    <3> QED BY <3>3, <3>4
  <2>5. told'[q] = told[q] \/ (heard[p][q] # Never /\ told'[q] = heard[p][q])
    BY <2>1, <2>2 DEF Later, Never
  <2> QED BY <2>3, <2>4, <2>5
<1>2. CASE UNCHANGED <<current, told>> /\ now' \in Nat /\ now' >= now
  BY <1>2, Numbers DEF CooldownRemembered
<1>3. CASE UNCHANGED vars \/ Tick
          \/ \E p \in Procs :
               \/ Start(p) \/ Die(p)
               \/ \E c \in Catalogs :
                    \/ Hold(p, c) \/ Acquired(p, c) \/ Refused(p, c)
                    \/ Throttled(p, c) \/ Stall(p, c)
  <2>1. UNCHANGED <<current, told>> /\ (now' = now \/ now' = now + 1)
    BY <1>3, Zenon DEF vars, history, batch, Tick, Start, Die, Hold, Acquired, Refused, Throttled,
                       Stall
  <2>2. now \in Nat
    BY Numbers
  <2> QED BY <1>2, <2>1, <2>2
<1> QED
  BY <1>1, <1>3, Zenon DEF Next

-----------------------------------------------------------------------------
(* The types hold of any number of batches.                                *)
THEOREM TypeCorrect == Spec => []TypeOK
<1>1. IInv => TypeOK
  BY DEF IInv
<1> QED BY <1>1, Invariance, PTL

(* No catalog is published with a deadline that its own provider did not   *)
(* give to a published batch, whatever batches overlap: retryByProvider is *)
(* one deadline for each provider, and is never mixed up between them.     *)
THEOREM DeadlinesOwned == Spec => []DeadlineOwned
<1>1. IInv => DeadlineOwned
  BY DEF IInv, OwnInv
<1> QED BY <1>1, Invariance, PTL

(* While batches follow each other, the invariant of the batch that runs   *)
(* and the memory of the deadlines hold together.                          *)
THEOREM Alone == Spec /\ []OneAtATime => [](BatchInv /\ CooldownRemembered)
<1>1. Init => BatchInv /\ CooldownRemembered
  <2> SUFFICES ASSUME Init PROVE BatchInv /\ CooldownRemembered
    OBVIOUS
  <2>1. \A q \in Providers : NoDeadlines[q] = 0
    BY DEF NoDeadlines, Never
  <2>2. DOMAIN NoAttempts = {}
    BY DEF NoAttempts
  <2>3. /\ running = {} /\ now = 1 /\ told = NoDeadlines
        /\ \A p \in Procs : /\ active[p] = {} /\ attempts[p] = NoAttempts
                            /\ heard[p] = NoDeadlines /\ backoff[p] = NoDeadlines
    BY DEF Init
  <2>4. BatchInv
    BY <2>1, <2>2, <2>3 DEF BatchInv, Batch, Never
  <2>5. CooldownRemembered
    BY <2>1, <2>3 DEF CooldownRemembered
  <2> QED BY <2>4, <2>5
<1>2. /\ IInv /\ OneAtATime /\ BatchInv /\ CooldownRemembered /\ [Next]_vars
      => (BatchInv /\ CooldownRemembered)'
  BY BatchNext, RememberedNext DEF IInv
<1> QED BY <1>1, <1>2, Invariance, PTL DEF Spec

(* A deadline that is still ahead is found by the next batch, also when it *)
(* does not select the catalog that was told, for as long as batches       *)
(* follow each other.                                                      *)
THEOREM DeadlinesRemembered == Spec /\ []OneAtATime => []CooldownRemembered
BY Alone, PTL

(* No adapter is called before a deadline that a published batch was told  *)
(* by its provider, for as long as batches follow each other.              *)
THEOREM ProvidersRespected == Spec /\ []OneAtATime => ProviderCooldown
<1>1. ASSUME TypeOK, BatchInv, CooldownRemembered PROVE Respects(told)
  <2> SUFFICES ASSUME NEW p \in Procs, NEW c \in Catalogs, Asked(p, c)
               PROVE  now >= told[Provider[c]]
    BY DEF Respects
  <2>1. /\ p \in running /\ now >= backoff[p][Provider[c]]
        /\ \A k \in Catalogs : current.cats[k].retry <= backoff[p][Provider[k]]
    BY <1>1 DEF Asked, BatchInv, Batch
  <2>2. /\ Provider[c] \in Providers /\ told[Provider[c]] \in Nat /\ now \in Nat
        /\ backoff[p][Provider[c]] \in Nat
    BY <1>1, Numbers
  <2>3. ASSUME told[Provider[c]] > now PROVE FALSE
    <3>1. PICK k \in Catalogs : /\ Provider[k] = Provider[c]
                                /\ current.cats[k].retry >= told[Provider[c]]
      BY <1>1, <2>2, <2>3 DEF CooldownRemembered
    <3>2. current.cats[k].retry \in Nat /\ current.cats[k].retry <= backoff[p][Provider[c]]
      BY <1>1, <2>1, <3>1, Numbers
    <3> QED BY <2>1, <2>2, <2>3, <3>1, <3>2
  <2> QED BY <2>2, <2>3
<1>2. TypeOK /\ BatchInv /\ CooldownRemembered /\ [Next]_vars => [Respects(told)]_vars
  BY <1>1
<1>3. Spec /\ []OneAtATime => [][Respects(told)]_vars
  BY <1>2, Alone, TypeCorrect, PTL DEF Spec
<1> QED BY <1>3 DEF ProviderCooldown
===============================================================================
