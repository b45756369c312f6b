------------------------------ MODULE Acquisition ------------------------------
(***************************************************************************)
(* One batch of acquisitions and its publication: runWithAdapters          *)
(* (cmd/publisher/main.go) with the outcomes of the two provider adapters  *)
(* (internal/redump/adapter.go, internal/nointro/adapter.go).  Invocations *)
(* share a publication directory.  Only the publication itself is under    *)
(* the lock of the directory; Publisher shows that it is atomic.  The      *)
(* registry of definitions is fixed: every catalog is known.               *)
(***************************************************************************)
EXTENDS Publication

CONSTANTS
  Procs,     \* processes that run the publisher command
  Provider,  \* Provider[c]: "redump" or "no-intro"
  MaxSeq     \* bound on publications

Providers == {"redump", "no-intro"}

ASSUME AcquisitionAssumption ==
  /\ Provider \in [Catalogs -> Providers]
  /\ MaxSeq \in Nat /\ MaxTime > 0

VARIABLES
  now,       \* the clock, which the processes of one machine share
  current,   \* the published snapshot
  running,   \* the processes that run a batch
  active,    \* catalogs each batch has still to acquire
  paused,    \* catalogs each batch pauses
  prior,     \* the snapshot each batch loaded
  backoff,   \* retryByProvider of each batch
  attempts,  \* the attempts each batch collected
  heard,     \* history: latest deadline each batch was told, by provider
  told,      \* history: latest deadline a published batch was told, by provider
  dropped    \* history: the same for batches that were given up

batch == <<running, active, paused, prior, backoff, attempts, heard>>
history == <<told, dropped>>
vars == <<now, current, batch, history>>

NoAttempts == [c \in {} |-> NoDoc]
NoDeadlines == [q \in Providers |-> Never]
Later(s, t) == IF s < t THEN t ELSE s
Exists(s, c) == s.cats[c].name # NoName

Init ==
  /\ now = 1 /\ current = NoSnapshot
  /\ running = {}
  /\ active = [p \in Procs |-> {}] /\ paused = [p \in Procs |-> {}]
  /\ prior = [p \in Procs |-> NoSnapshot]
  /\ backoff = [p \in Procs |-> NoDeadlines]
  /\ attempts = [p \in Procs |-> NoAttempts]
  /\ heard = [p \in Procs |-> NoDeadlines]
  /\ told = NoDeadlines /\ dropped = NoDeadlines

-----------------------------------------------------------------------------
(* The latest deadline published for each provider, over the catalogs cs.  *)
Cooldowns(s, cs) ==
  [q \in Providers |->
     Max({Never} \cup {s.cats[c].retry : c \in {k \in cs : Provider[k] = q}})]

(* Mutants of Cooldown: only the selected catalogs count; the providers    *)
(* share one deadline.                                                     *)
CooldownSelected(s, selected) == Cooldowns(s, selected)
CooldownShared(s, selected) ==
  [q \in Providers |-> Max({Never} \cup {s.cats[c].retry : c \in Catalogs})]

(* The cooldown of a provider counts every catalog that was published,     *)
(* also one that is not selected.                                          *)
Cooldown(s, selected) == Cooldowns(s, Catalogs)

(* The selection is checked and the prior snapshot is loaded, without the  *)
(* lock.  The operator may name the active catalogs in any order.          *)
Start(p) ==
  /\ p \notin running /\ current.seq < MaxSeq
  /\ \E act, pau \in SUBSET Catalogs :
       /\ act \cup pau # {} /\ act \cap pau = {}
       /\ active' = [active EXCEPT ![p] = act]
       /\ paused' = [paused EXCEPT ![p] = pau]
       /\ backoff' = [backoff EXCEPT ![p] = Cooldown(current, act \cup pau)]
  /\ running' = running \cup {p}
  /\ prior' = [prior EXCEPT ![p] = current]
  /\ UNCHANGED <<now, current, attempts, heard, history>>

(* The attempts m, and those of n for other catalogs.                      *)
Joined(m, n) == [c \in DOMAIN m \cup DOMAIN n |-> IF c \in DOMAIN m THEN m[c] ELSE n[c]]

Collect(p, c, a) ==
  /\ active' = [active EXCEPT ![p] = @ \ {c}]
  /\ attempts' = [attempts EXCEPT ![p] = Joined([k \in {c} |-> a], @)]

Failure(name, retry) == [name |-> name, doc |-> NoDoc, retry |-> retry]

(* A provider in its cooldown is not asked; its deadline is recorded when  *)
(* the catalog does not have it yet.                                       *)
Hold(p, c) ==
  LET deadline == backoff[p][Provider[c]] IN
    /\ c \in active[p] /\ now < deadline
    /\ IF Exists(prior[p], c) /\ prior[p].cats[c].retry = deadline
       THEN active' = [active EXCEPT ![p] = @ \ {c}] /\ UNCHANGED attempts
       ELSE \E name \in Names : Collect(p, c, Failure(name, deadline))
    /\ UNCHANGED <<now, current, running, paused, prior, backoff, heard, history>>

(* The adapter is called and makes requests to the provider.               *)
Asked(p, c) == c \in active[p] /\ now >= backoff[p][Provider[c]]

(* Mutant of Acquired: the document keeps the deadline of its provider.    *)
AcquiredWithDeadline(p, c) ==
  /\ Asked(p, c)
  /\ \E name \in Names, d \in Docs :
       Collect(p, c, [name |-> name, doc |-> d,
                      retry |-> backoff[p][Provider[c]]])
  /\ UNCHANGED <<now, current, running, paused, prior, backoff, heard, history>>

Acquired(p, c) ==
  /\ Asked(p, c)
  /\ \E name \in Names, d \in Docs :
       Collect(p, c, [name |-> name, doc |-> d, retry |-> Never])
  /\ UNCHANGED <<now, current, running, paused, prior, backoff, heard, history>>

(* Any failure but a throttled provider.                                   *)
Refused(p, c) ==
  /\ Asked(p, c)
  /\ \E name \in Names : Collect(p, c, Failure(name, Never))
  /\ UNCHANGED <<now, current, running, paused, prior, backoff, heard, history>>

(* Mutant of Throttled: the deadline holds for this batch only.            *)
ThrottledUnrecorded(p, c) ==
  /\ Asked(p, c)
  /\ \E name \in Names, retry \in {d \in Deadlines : d >= now} :
       /\ Collect(p, c, Failure(name, Never))
       /\ backoff' = [backoff EXCEPT ![p][Provider[c]] = Later(@, retry)]
       /\ heard' = [heard EXCEPT ![p][Provider[c]] = Later(@, retry)]
  /\ UNCHANGED <<now, current, running, paused, prior, history>>

(* 429 or 503: the deadline, which is not in the past, holds for the rest  *)
(* of the batch.  The cooldown of the adapter itself is the same.          *)
Throttled(p, c) ==
  /\ Asked(p, c)
  /\ \E name \in Names, retry \in {d \in Deadlines : d >= now} :
       /\ Collect(p, c, Failure(name, retry))
       /\ backoff' = [backoff EXCEPT ![p][Provider[c]] = Later(@, retry)]
       /\ heard' = [heard EXCEPT ![p][Provider[c]] = Later(@, retry)]
  /\ UNCHANGED <<now, current, running, paused, prior, history>>

-----------------------------------------------------------------------------
(* The batch of p is over.                                                 *)
End(p) ==
  /\ running' = running \ {p}
  /\ active' = [active EXCEPT ![p] = {}]
  /\ paused' = [paused EXCEPT ![p] = {}]
  /\ prior' = [prior EXCEPT ![p] = NoSnapshot]
  /\ backoff' = [backoff EXCEPT ![p] = NoDeadlines]
  /\ attempts' = [attempts EXCEPT ![p] = NoAttempts]
  /\ heard' = [heard EXCEPT ![p] = NoDeadlines]

AlsoTold(t, p) == [q \in Providers |-> Later(t[q], heard[p][q])]

(* The two minutes of a No-Intro acquisition end between two attempts:     *)
(* Acquire returns an error and the batch is given up.                     *)
Stall(p, c) ==
  /\ Asked(p, c) /\ Provider[c] = "no-intro"
  /\ End(p) /\ dropped' = AlsoTold(dropped, p)
  /\ UNCHANGED <<now, current, told>>

(* Paused catalogs that were published keep the deadline of the prior      *)
(* snapshot.                                                               *)
PausedAttempts(p, name) ==
  [c \in {k \in paused[p] : Exists(prior[p], k)} |->
     Failure(name, prior[p].cats[c].retry)]

(* The end of the batch: one publication of all attempts, if any.          *)
Publish(p) ==
  /\ p \in running /\ active[p] = {}
  /\ \E name \in Names :
       LET m == Joined(attempts[p], PausedAttempts(p, name)) IN
         IF DOMAIN m = {} THEN UNCHANGED current
         ELSE /\ SameIdentity(current, m) /\ now >= current.at
              /\ current' = NextSnapshot(current, m, now)
  /\ End(p) /\ told' = AlsoTold(told, p)
  /\ UNCHANGED <<now, dropped>>

(* The process dies, or an error other than a stall ends it: what it was   *)
(* told is lost with it.                                                   *)
Die(p) ==
  /\ p \in running
  /\ End(p)
  /\ UNCHANGED <<now, current, history>>

Tick ==
  /\ now < MaxTime
  /\ now' = now + 1
  /\ UNCHANGED <<current, batch, history>>

Next ==
  \/ \E p \in Procs :
       \/ Start(p) \/ Publish(p) \/ Die(p)
       \/ \E c \in Catalogs :
            \/ Hold(p, c) \/ Acquired(p, c) \/ Refused(p, c)
            \/ Throttled(p, c) \/ Stall(p, c)
  \/ Tick

Spec == Init /\ [][Next]_vars

-----------------------------------------------------------------------------
TypeOK ==
  /\ now \in 1 .. MaxTime
  /\ current \in Snapshot
  /\ running \subseteq Procs
  /\ active \in [Procs -> SUBSET Catalogs]
  /\ paused \in [Procs -> SUBSET Catalogs]
  /\ prior \in [Procs -> Snapshot]
  /\ backoff \in [Procs -> [Providers -> Deadlines \cup {Never}]]
  /\ attempts \in [Procs -> Manifests]
  /\ heard \in [Procs -> [Providers -> Deadlines \cup {Never}]]
  /\ {told, dropped} \subseteq [Providers -> Deadlines \cup {Never}]

(* No step asks a provider before the deadline t has for it.               *)
Respects(t) ==
  \A p \in Procs, c \in Catalogs :
    (Asked(p, c) /\ c \notin active'[p] /\ c \in DOMAIN attempts'[p])
      => now >= t[Provider[c]]

(* A provider is not asked before a deadline that a published batch was    *)
(* told, whichever catalog it was told for and whichever are selected now. *)
ProviderCooldown == [][Respects(told)]_vars

(* ... nor before one that was told to a batch that was given up.          *)
CooldownAfterError == [][Respects(dropped)]_vars

(* A published deadline is one that the catalog's own provider gave.       *)
DeadlineOwned ==
  \A c \in Catalogs :
    current.cats[c].retry <= told[Provider[c]]

(* A deadline that is still ahead survives the process that was told: the  *)
(* next process finds it, or a later one, with a catalog of the provider.  *)
CooldownRemembered ==
  \A q \in Providers :
    told[q] > now => \E c \in Catalogs : /\ Provider[c] = q
                                        /\ current.cats[c].retry >= told[q]
=============================================================================
