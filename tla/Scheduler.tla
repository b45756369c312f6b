------------------------------ MODULE Scheduler ------------------------------
(***************************************************************************)
(* Durable admission of Redump source runs: internal/redump/scheduler.go   *)
(* and recovery.go over the checkpoint store of internal/checkpoint.       *)
(*                                                                         *)
(* Each element of Procs is one invocation (one call of Initialize, Run or *)
(* Recover in a process of its own).  Invocations share a state directory  *)
(* (Remote = FALSE) or a GitHub checkpoint that is replaced by conditional *)
(* PUT requests (Remote = TRUE).  An invocation may crash at any step; a   *)
(* PUT may outlive the invocation that sent it and its answer may be lost. *)
(* Clocks are not trusted: every reading of the clock is any value.        *)
(***************************************************************************)
EXTENDS SourceState, FiniteSets

CONSTANTS
  Procs,        \* invocations of the scheduler's operations
  Dirs,         \* state or lock directories
  LockDir,      \* LockDir[p]: the directory invocation p was given
  Remote,       \* TRUE: remote checkpoint custody; FALSE: local state file
  Batch,        \* number of catalogs of a registry
  MaxTime,      \* bound on clock readings, retry deadlines and reviews
  Existing      \* states an earlier release or run may have left

ASSUME BoolAssumption == Remote \in BOOLEAN
ASSUME NatAssumption == Batch \in Nat \ {0} /\ MaxTime \in Nat
ASSUME DirAssumption ==
  /\ LockDir \in [Procs -> Dirs]
  /\ ~Remote => \A p, q \in Procs : LockDir[p] = LockDir[q]
ASSUME ExistingAssumption == Existing \subseteq {s \in State : Readable(s)}

Time == 0 .. MaxTime

VARIABLES
  store,     \* content of state.json or of the checkpoint file
  disk,      \* the contents a loss of power may leave as state.json
  made,      \* the directories that exist
  lock,      \* lock[d]: invocations that hold the lock file of directory d
  pc,        \* where each invocation is
  mem,       \* the state each invocation holds in memory
  ver,       \* the content whose version the invocation will write against
  link,      \* the conditional PUT of each invocation
  todo,      \* catalogs the run has not requested yet
  review,    \* the state the operator last inspected
  attempt,   \* history: the admission under which a run went to the source
  learned,   \* history: latest provider deadline a run was told, or Never
  completed, \* history: admission times whose completion is in the store
  discarded, \* history: admission times resolved by a committed recovery
  untrue     \* history: what an operator confirmed and was not so

custody == <<store, disk, made, lock>>
local == <<pc, mem, ver, link, todo>>
resolved == <<completed, discarded>>
history == <<attempt, learned, resolved, untrue>>
vars == <<custody, local, review, history>>

Writing   == {"initializing", "admitting", "extending", "completing",
              "recovering"}
Acquiring == {"fetching", "extending"}
Active    == Writing \cup {"fetching"}
Ended     == {"returned", "done", "failed"}

Init ==
  /\ store \in {Absent} \cup Existing
  /\ disk = {store}
  /\ made = IF Remote \/ store = Absent THEN {} ELSE Dirs
  /\ lock = [d \in Dirs |-> {}]
  /\ pc = [p \in Procs |-> "new"]
  /\ mem = [p \in Procs |-> Absent]
  /\ ver = [p \in Procs |-> Absent]
  /\ link = [p \in Procs |-> "none"]
  /\ todo = [p \in Procs |-> 0]
  /\ review = Absent
  /\ attempt = [p \in Procs |-> Never]
  /\ learned = [p \in Procs |-> Never]
  /\ completed = {}
  /\ discarded = {}
  /\ untrue = {}

-----------------------------------------------------------------------------
(* lockState: flock(LOCK_EX | LOCK_NB), ErrBusy when another owner has it. *)
TryLock(p) ==
  /\ lock[LockDir[p]] = {}
  /\ lock' = [lock EXCEPT ![LockDir[p]] = {p}]

(* The end of an invocation, by a return or by the death of the process    *)
(* ("failed"): either gives the lock back.  A PUT already sent stays under *)
(* way.                                                                    *)
End(p, how) ==
  /\ pc' = [pc EXCEPT ![p] = how]
  /\ lock' = [lock EXCEPT ![LockDir[p]] = @ \ {p}]

(* With remote custody the lock directory is made when it is missing.      *)
MkdirAll(d) == made' = IF Remote THEN made \cup {d} ELSE made

(* Scheduler.commit begins to write s over the content base.  The remote   *)
(* version is a blob SHA, a function of the content and of nothing else.   *)
Write(p, base, s, where) ==
  /\ pc' = [pc EXCEPT ![p] = where]
  /\ mem' = [mem EXCEPT ![p] = s]
  /\ ver' = [ver EXCEPT ![p] = base]
  /\ link' = [link EXCEPT ![p] = IF Remote THEN "sent" ELSE "none"]

(* What follows a commit that reported success: the source is visited only *)
(* then, and results are returned only then.                               *)
Continue(p) ==
  \/ /\ pc[p] = "admitting"
     /\ pc' = [pc EXCEPT ![p] = "fetching"]
     /\ attempt' = [attempt EXCEPT ![p] = mem[p].last]
     /\ UNCHANGED lock
  \/ /\ pc[p] = "extending"
     /\ pc' = [pc EXCEPT ![p] = "fetching"]
     /\ UNCHANGED <<lock, attempt>>
  \/ pc[p] = "completing" /\ End(p, "returned") /\ UNCHANGED attempt
  \/ /\ pc[p] \in {"initializing", "recovering"}
     /\ End(p, "done") /\ UNCHANGED attempt

(* What the write of p over the store settles of the run in flight.        *)
Resolves(p) ==
  /\ completed' = IF Completed(store, mem[p])
                  THEN completed \cup {mem[p].last} ELSE completed
  /\ discarded' = IF mem[p].count > store.count
                  THEN discarded \cup {mem[p].last} ELSE discarded

(* Mutant of Replace: the directory is never synced after the rename.      *)
ReplaceUnsynced(p, survivors) ==
  /\ store' = mem[p]
  /\ disk' = disk \cup {mem[p]}
  /\ Resolves(p)

(* The content of the store is replaced; survivors are the contents that a *)
(* loss of power may still bring back.                                     *)
Replace(p, survivors) ==
  /\ store' = mem[p]
  /\ disk' = survivors \cup {mem[p]}
  /\ Resolves(p)

-----------------------------------------------------------------------------
(* Initialize: os.Mkdir refuses a directory that exists.                   *)
Initialize(p) ==
  /\ pc[p] = "new"
  /\ LockDir[p] \notin made
  /\ made' = made \cup {LockDir[p]}
  /\ TryLock(p)
  /\ \E reg \in Registries : Write(p, Absent, FreshState(reg), "initializing")
  /\ UNCHANGED <<store, disk, todo, review, history>>

(* Mutant of Admissible: a run in flight is not respected.                 *)
AdmissibleInFlight(s, reg, now) ==
  s.registry = reg /\ now # Never /\ now >= s.last /\ now >= s.next

(* The checks of Run on the state it loaded.                               *)
Admissible(s, reg, now) ==
  /\ s.registry = reg
  /\ ~s.inFlight
  /\ now # Never /\ now >= s.last /\ now >= s.next

(* Run, up to the commit of its admission.                                 *)
Admit(p) ==
  /\ pc[p] = "new"
  /\ MkdirAll(LockDir[p])
  /\ TryLock(p)
  /\ Readable(store)
  /\ LET s == Decode(store) IN
       \E reg \in Registries, now \in Time :
         /\ Admissible(s, reg, now)
         /\ Write(p, store, Admission(s, now), "admitting")
  /\ todo' = [todo EXCEPT ![p] = Batch]
  /\ UNCHANGED <<store, disk, review, history>>

(* Adapter.acquire: the next catalog is handled without retry guidance.    *)
Fetch(p) ==
  /\ pc[p] = "fetching" /\ todo[p] > 0
  /\ todo' = [todo EXCEPT ![p] = @ - 1]
  /\ UNCHANGED <<custody, pc, mem, ver, link, review, history>>

(* Mutant of Throttled: the deadline is kept in memory only.               *)
ThrottledInMemory(p) ==
  /\ pc[p] = "fetching" /\ todo[p] > 0
  /\ todo' = [todo EXCEPT ![p] = 0]
  /\ \E retry \in Time \ {Never} : learned' = [learned EXCEPT ![p] = retry]
  /\ UNCHANGED <<custody, pc, mem, ver, link, review, attempt, resolved, untrue>>

(* 429 or 503: the batch stops (every other catalog is provider_backoff    *)
(* with the same deadline) and observe commits a deadline that is later.   *)
Throttled(p) ==
  /\ pc[p] = "fetching" /\ todo[p] > 0
  /\ todo' = [todo EXCEPT ![p] = 0]
  /\ \E retry \in Time \ {Never} :
       /\ learned' = [learned EXCEPT ![p] = retry]
       /\ IF retry > mem[p].next
          THEN Write(p, mem[p], Extension(mem[p], retry), "extending")
          ELSE UNCHANGED <<pc, mem, ver, link>>
  /\ UNCHANGED <<custody, review, attempt, resolved, untrue>>

(* Mutant of Complete: results are returned before completion is committed. *)
CompleteUncommitted(p) ==
  /\ pc[p] = "fetching" /\ todo[p] = 0
  /\ End(p, "returned")
  /\ UNCHANGED <<store, disk, made, mem, ver, link, todo, review, history>>

(* Every catalog was handled: commit completion before returning results.  *)
Complete(p) ==
  /\ pc[p] = "fetching" /\ todo[p] = 0
  /\ Write(p, mem[p], Completion(mem[p]), "completing")
  /\ UNCHANGED <<custody, todo, review, history>>

(* Inspect: read under the lock and release it.                            *)
Inspect(d) ==
  /\ lock[d] = {}
  /\ Readable(store)
  /\ MkdirAll(d)
  /\ review' = Decode(store)
  /\ UNCHANGED <<store, disk, lock, local, history>>

Confirmations == {"stopped", "window"}

(* What of the operator's confirmations is not so: ConfirmedStopped and    *)
(* ConfirmedRetryWindow are statements about the interrupted run that the  *)
(* operator reviewed, which the code cannot check.                         *)
Untrue(s, notBefore) ==
  {c \in Confirmations :
     \E q \in Procs :
       /\ s.inFlight /\ mem[q].last = s.last
       /\ IF c = "stopped" THEN pc[q] \notin Ended ELSE notBefore < learned[q]}

(* Mutants of Recoverable: the counter wraps, the record ends before it    *)
(* starts, the deadline is shortened, or the digest is not compared.       *)
RecoverableAlways(s, now, notBefore) ==
  /\ s.inFlight /\ s = review
  /\ now # Never /\ now >= s.last /\ notBefore >= now /\ notBefore >= s.next
RecoverableBeforeNow(s, now, notBefore) ==
  /\ s.inFlight /\ s = review /\ s.count # MaxRecovery
  /\ now # Never /\ now >= s.last /\ notBefore >= s.next
RecoverableShorter(s, now, notBefore) ==
  /\ s.inFlight /\ s = review /\ s.count # MaxRecovery
  /\ now # Never /\ now >= s.last /\ notBefore >= now

RecoverableUnreviewed(s, now, notBefore) ==
  /\ s.inFlight /\ s.count # MaxRecovery
  /\ now # Never /\ now >= s.last /\ notBefore >= now /\ notBefore >= s.next

(* The checks of Recover; its digest is that of the inspected state.       *)
Recoverable(s, now, notBefore) ==
  /\ s.inFlight
  /\ s = review
  /\ now # Never /\ now >= s.last
  /\ notBefore # Never /\ notBefore >= now /\ notBefore >= s.next
  /\ s.count # MaxRecovery

(* Recover, up to its commit.                                              *)
Recover(p) ==
  /\ pc[p] = "new"
  /\ MkdirAll(LockDir[p])
  /\ TryLock(p)
  /\ Readable(store)
  /\ LET s == Decode(store) IN
       \E now, notBefore \in Time :
         /\ Recoverable(s, now, notBefore)
         /\ untrue' = untrue \cup Untrue(review, notBefore)
         /\ Write(p, store, Resolution(s, now, notBefore), "recovering")
  /\ UNCHANGED <<store, disk, todo, review, attempt, learned, resolved>>

-----------------------------------------------------------------------------
(* saveState: a temporary file, rename, and a sync of the directory.       *)
SaveLocal(p) ==
  /\ ~Remote /\ pc[p] \in Writing
  /\ Replace(p, {})
  /\ Continue(p)
  /\ UNCHANGED <<made, mem, ver, link, todo, review, learned, untrue>>

(* The rename is done and an error or a crash comes before the sync.       *)
SaveLocalLate(p) ==
  /\ ~Remote /\ pc[p] \in Writing
  /\ Replace(p, disk)
  /\ End(p, "failed")
  /\ UNCHANGED <<made, mem, ver, link, todo, review, attempt, learned, untrue>>

(* The runs that are behind the stored state s.                            *)
Behind(s, runs) == {t \in runs : t < s.last \/ (t = s.last /\ ~s.inFlight)}

(* The machine stops: every process dies and the directory comes back with *)
(* one of the contents that may have reached the disk.  A completion or a  *)
(* recovery that is lost has not settled its run.                          *)
PowerLoss ==
  /\ ~Remote
  /\ \E s \in disk :
       /\ store' = s /\ disk' = {s}
       /\ completed' = Behind(s, completed) /\ discarded' = Behind(s, discarded)
  /\ pc' = [p \in Procs |-> IF pc[p] \in Active THEN "failed" ELSE pc[p]]
  /\ lock' = [d \in Dirs |-> {}]
  /\ UNCHANGED <<made, mem, ver, link, todo, review, attempt, learned, untrue>>

(* Mutant of ApplyPut: the version the writer loaded is not compared.      *)
ApplyAnyPut(p) ==
  /\ link[p] = "sent"
  /\ Replace(p, {})
  /\ link' = [link EXCEPT ![p] = "ok"]
  /\ UNCHANGED <<made, lock, pc, mem, ver, todo, review, attempt, learned, untrue>>

(* GitHub handles a PUT, whether or not its sender is still there.         *)
ApplyPut(p) ==
  /\ link[p] = "sent" /\ store = ver[p]
  /\ Replace(p, {})
  /\ link' = [link EXCEPT ![p] = "ok"]
  /\ UNCHANGED <<made, lock, pc, mem, ver, todo, review, attempt, learned, untrue>>

RefusePut(p) ==
  /\ link[p] = "sent" /\ store # ver[p]
  /\ link' = [link EXCEPT ![p] = "conflict"]
  /\ UNCHANGED <<custody, pc, mem, ver, todo, review, history>>

(* The answer of a PUT that was applied reaches its sender.                *)
Receipt(p) ==
  /\ pc[p] \in Writing /\ link[p] = "ok"
  /\ link' = [link EXCEPT ![p] = "none"]
  /\ Continue(p)
  /\ UNCHANGED <<store, disk, made, mem, ver, todo, review, learned, resolved,
                 untrue>>

(* An error of any kind (before the rename, a conflict, a lost or invalid  *)
(* answer, a timeout, a staging failure) ends the operation; so does the   *)
(* death of the process.                                                   *)
Fail(p) ==
  /\ pc[p] \in Active
  /\ End(p, "failed")
  /\ UNCHANGED <<store, disk, made, mem, ver, link, todo, review, history>>

Next ==
  \/ \E p \in Procs :
       \/ Initialize(p) \/ Admit(p) \/ Fetch(p) \/ Throttled(p)
       \/ Complete(p) \/ Recover(p) \/ SaveLocal(p) \/ SaveLocalLate(p)
       \/ ApplyPut(p) \/ RefusePut(p) \/ Receipt(p) \/ Fail(p)
  \/ \E d \in Dirs : Inspect(d)
  \/ PowerLoss

Spec == Init /\ [][Next]_vars

-----------------------------------------------------------------------------
TypeOK ==
  /\ store \in State
  /\ disk \in SUBSET State
  /\ made \in SUBSET Dirs
  /\ lock \in [Dirs -> SUBSET Procs]
  /\ pc \in [Procs -> {"new"} \cup Active \cup Ended]
  /\ mem \in [Procs -> State]
  /\ ver \in [Procs -> State]
  /\ link \in [Procs -> {"none", "sent", "ok", "conflict"}]
  /\ todo \in [Procs -> 0 .. Batch]
  /\ review \in State
  /\ attempt \in [Procs -> Nat]
  /\ learned \in [Procs -> Nat]
  /\ completed \in SUBSET Nat /\ discarded \in SUBSET Nat
  /\ untrue \in SUBSET Confirmations

(* decodeState accepts whatever any operation stored, also after a crash:  *)
(* no write of the scheduler locks it out of its own state.                *)
StoreReadable ==
  \A s \in disk \cup {store} : s = Absent \/ Readable(s)

(* Two runs that went to the source were admitted at least Poll apart,     *)
(* whatever the clocks read, whatever crashed, whatever an operator        *)
(* recovered and whatever PUT was applied late.                            *)
AdmissionSpacing ==
  \A p, q \in Procs :
    (p # q /\ attempt[p] # Never /\ attempt[q] # Never) =>
      (attempt[p] >= attempt[q] + Poll \/ attempt[q] >= attempt[p] + Poll)

(* A run that went to the source keeps the source paused until its         *)
(* completion is in the store or a recovery resolves exactly that run, at  *)
(* whatever step it failed, died or lost its power.                        *)
NoSilentRetry ==
  \A p \in Procs :
    (attempt[p] # Never /\ (store.last > attempt[p] \/ ~store.inFlight)) =>
      attempt[p] \in completed \cup discarded

(* Candidates of a run that a recovery discarded are never handed to the   *)
(* caller, even when the operator was wrong that the runner had stopped.   *)
DiscardedNeverReturned ==
  \A p \in Procs : pc[p] = "returned" => attempt[p] \notin discarded

(* At most one run is at the source as long as operators confirmed a stop  *)
(* only when the runner had stopped.                                       *)
OneAcquirer ==
  "stopped" \notin untrue =>
    \A p, q \in Procs : (pc[p] \in Acquiring /\ pc[q] \in Acquiring) => p = q

(* No run goes to the source before a deadline that an earlier run was     *)
(* told, as long as operators confirmed only what was so.                  *)
RetryAfterHonoured ==
  untrue = {} =>
    \A p, q \in Procs :
      (attempt[p] # Never /\ attempt[q] > attempt[p]) => attempt[q] >= learned[p]

(* The stored state only moves forward and so never takes a content it had *)
(* before: a content-addressed version identifies one moment.              *)
Newer(t, s) ==
  \/ s.format = 0
  \/ /\ t.registry = s.registry
     /\ t.count >= s.count /\ t.next >= s.next
     /\ \/ t.last > s.last /\ ~s.inFlight
        \/ t.last = s.last /\ s.inFlight /\ (t.next > s.next \/ ~t.inFlight)

StoreProgress ==
  [][store' = store \/ Newer(store', store) \/ store' \in disk]_vars

(* The protocol of locks, renames and conditional requests implements      *)
(* operations that are atomic on the stored state.                         *)
Schedule == INSTANCE SourceSchedule WITH store <- store, disk <- disk
ImplementsSchedule == Schedule!Spec
=============================================================================
