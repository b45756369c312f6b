---------------------------- MODULE SchedulerProofs ---------------------------
(***************************************************************************)
(* Theorems about Scheduler for any number of invocations, any directories *)
(* and either kind of custody.                                             *)
(***************************************************************************)
EXTENDS Scheduler, TLAPS

(* A lock file has one owner, and an invocation that has begun owns it.    *)
LockInv ==
  \A p \in Procs : pc[p] \in Active => lock[LockDir[p]] = {p}

(* With local custody there are no requests, the content that is being     *)
(* replaced is the one that was loaded, and a run holds what is stored.    *)
LocalInv ==
  ~Remote => \A p \in Procs :
    /\ link[p] = "none"
    /\ pc[p] \in Writing => ver[p] = store
    /\ pc[p] = "fetching" => mem[p] = store

(* A local directory that does not exist holds no state, and it exists     *)
(* once an invocation has begun.                                           *)
MadeInv ==
  ~Remote => \A p \in Procs :
    /\ LockDir[p] \notin made => store = Absent /\ disk = {Absent}
    /\ pc[p] \in Active => LockDir[p] \in made

(* With remote custody every PUT that was accepted is safe.                *)
RemoteInv == Remote => disk = {store}

(* What is on its way to the store is one operation on its base, and a     *)
(* run stays in flight in its own memory until it completes.               *)
WriteInv ==
  \A p \in Procs :
    /\ (pc[p] \in Writing \/ link[p] = "sent") =>
         Operation(ver[p], mem[p])
    /\ pc[p] = "admitting" => Admitted(ver[p], mem[p])
    /\ pc[p] \in {"admitting", "fetching", "extending"} => mem[p].inFlight

(* The admissions that the store has taken: those of runs that went to the *)
(* source and those of runs whose receipt is still to be read.             *)
Taken(p) ==
  IF attempt[p] # Never THEN attempt[p]
  ELSE IF pc[p] = "admitting" /\ link[p] = "ok" THEN mem[p].last ELSE Never

(* A run that is still being admitted has not been at the source.          *)
Unvisited ==
  \A p \in Procs : pc[p] \in {"new", "admitting"} => attempt[p] = Never

(* The store is at or beyond every admission it took, and those are        *)
(* spaced.                                                                 *)
AdmissionInv ==
  /\ Unvisited
  /\ \A p \in Procs : \A s \in disk \cup {store} : Taken(p) <= s.last
  /\ \A p, q \in Procs :
       (p # q /\ Taken(p) # Never /\ Taken(q) # Never) =>
         (Taken(p) >= Taken(q) + Poll \/ Taken(q) >= Taken(p) + Poll)

(* What every step keeps.                                                  *)
IInv ==
  /\ TypeOK /\ LockInv /\ MadeInv /\ LocalInv /\ RemoteInv /\ WriteInv
  /\ StoreReadable /\ AdmissionInv

-----------------------------------------------------------------------------
(* The contents that the operations write are states.                      *)
LEMMA AbsentState == Absent \in State /\ Absent.format = 0 /\ ~Absent.inFlight
  <1>1. (CHOOSE reg \in Registries : TRUE) \in Registries
    BY RegistryAssumption
  <1>2. QED
    BY <1>1, CountAssumption
    DEF Absent, Schedule0, State, NoRecovery, Recoveries, Never

LEMMA FreshType ==
  ASSUME NEW reg \in Registries
  PROVE  FreshState(reg) \in State
  BY CountAssumption
  DEF FreshState, Schedule0, State, NoRecovery, Recoveries, Never

LEMMA WrittenTypes ==
  ASSUME NEW s \in State, NEW now \in Nat, NEW deadline \in Nat
  PROVE  /\ Decode(s) \in State
         /\ Admission(s, now) \in State
         /\ Extension(s, deadline) \in State
         /\ Completion(s) \in State
         /\ s.count # MaxRecovery => Resolution(s, now, deadline) \in State
  BY PollAssumption, CountAssumption
  DEF Decode, Admission, Extension, Completion, Resolution, State, Recoveries

(* The parts of the type invariant that several actions share.             *)
LockType == lock \in [Dirs -> SUBSET Procs]
PCType == pc \in [Procs -> {"new"} \cup Active \cup Ended]

(* What the common parts of the operations keep of the types.              *)
LEMMA TryLockType ==
  ASSUME NEW p \in Procs, LockType, TryLock(p)
  PROVE  LockType'
  <1>1. {p} \in SUBSET Procs
    OBVIOUS
  <1>2. QED
    BY <1>1, DirAssumption DEF LockType, TryLock

LEMMA WriteType ==
  ASSUME NEW p \in Procs, NEW base \in State, NEW s \in State,
         NEW where \in Writing, TypeOK, Write(p, base, s, where)
  PROVE  /\ PCType'
         /\ (mem \in [Procs -> State])'
         /\ (ver \in [Procs -> State])'
         /\ (link \in [Procs -> {"none", "sent", "ok", "conflict"}])'
  BY DEF TypeOK, Write, PCType, Active

LEMMA EndType ==
  ASSUME NEW p \in Procs, NEW how \in Ended, LockType, PCType, End(p, how)
  PROVE  LockType' /\ PCType'
  <1>1. LockDir[p] \in Dirs
    BY DirAssumption
  <1>2. lock[LockDir[p]] \ {p} \in SUBSET Procs
    BY <1>1 DEF LockType
  <1>3. LockType'
    BY <1>2 DEF LockType, End
  <1>4. PCType'
    BY DEF PCType, End
  <1>5. QED
    BY <1>3, <1>4

LEMMA ContinueType ==
  ASSUME NEW p \in Procs, TypeOK, Continue(p)
  PROVE  LockType' /\ PCType' /\ attempt' \in [Procs -> Nat]
  <1> USE DEF TypeOK
  <1>1. LockType /\ PCType
    BY DEF LockType, PCType
  <1>2. CASE pc[p] = "admitting"
    <2>1. mem[p].last \in Nat
      BY DEF State
    <2>2. QED
      BY <1>1, <1>2, <2>1 DEF Continue, LockType, PCType, Active
  <1>3. CASE pc[p] = "extending"
    BY <1>1, <1>3 DEF Continue, LockType, PCType, Active
  <1>4. CASE pc[p] \notin {"admitting", "extending"}
    <2>1. \E how \in Ended : End(p, how) /\ UNCHANGED attempt
      BY <1>4 DEF Continue, Ended
    <2>2. QED
      BY <1>1, <2>1, EndType
  <1>5. QED
    BY <1>2, <1>3, <1>4

LEMMA ReplaceType ==
  ASSUME NEW p \in Procs, TypeOK, NEW survivors \in SUBSET State,
         Replace(p, survivors)
  PROVE  /\ store' \in State /\ disk' \in SUBSET State
         /\ completed' \in SUBSET Nat /\ discarded' \in SUBSET Nat
  <1>1. mem[p] \in State /\ mem[p].last \in Nat
    BY DEF TypeOK, State
  <1>2. completed' \in SUBSET Nat /\ discarded' \in SUBSET Nat
    BY <1>1 DEF TypeOK, Replace, Resolves
  <1>3. QED
    BY <1>1, <1>2 DEF Replace

(* Every state the schedule can hold has its type after every operation    *)
(* of every invocation.                                                    *)
LEMMA TypeInit == Init => TypeOK
  BY AbsentState, ExistingAssumption, NatAssumption, DirAssumption
  DEF Init, TypeOK, Active, Ended, Writing, Never

LEMMA TypeNext == TypeOK /\ [Next]_vars => TypeOK'
  <1> SUFFICES ASSUME TypeOK, [Next]_vars PROVE TypeOK'
    OBVIOUS
  <1> USE DEF TypeOK
  <1>0. Time \subseteq Nat
    BY NatAssumption DEF Time
  <1>1. ASSUME NEW p \in Procs, Initialize(p) PROVE TypeOK'
    <2>1. PICK reg \in Registries :
            Write(p, Absent, FreshState(reg), "initializing")
      BY <1>1 DEF Initialize
    <2>2. LockType'
      BY <1>1, TryLockType DEF Initialize, LockType
    <2>3. FreshState(reg) \in State /\ Absent \in State
      BY FreshType, AbsentState
    <2>4. made' \in SUBSET Dirs
      BY <1>1, DirAssumption DEF Initialize
    <2>5. UNCHANGED <<store, disk, todo, review, history>>
      BY <1>1 DEF Initialize
    <2>6. QED
      BY <2>1, <2>2, <2>3, <2>4, <2>5, WriteType
      DEF history, resolved, Writing, LockType, PCType
  <1>2. ASSUME NEW p \in Procs, Admit(p) PROVE TypeOK'
    <2>1. PICK now \in Time :
            Write(p, store, Admission(Decode(store), now), "admitting")
      BY <1>2 DEF Admit
    <2>2. Admission(Decode(store), now) \in State
      BY <1>0, WrittenTypes
    <2>3. LockType'
      BY <1>2, TryLockType DEF Admit, LockType
    <2>4. made' \in SUBSET Dirs /\ todo' \in [Procs -> 0 .. Batch]
      <3>1. LockDir[p] \in Dirs /\ Batch \in 0 .. Batch
        BY DirAssumption, NatAssumption
      <3>2. MkdirAll(LockDir[p]) /\ todo' = [todo EXCEPT ![p] = Batch]
        BY <1>2 DEF Admit
      <3>3. QED
        BY <3>1, <3>2 DEF MkdirAll
    <2>5. UNCHANGED <<store, disk, review, history>>
      BY <1>2 DEF Admit
    <2>6. QED
      BY <2>1, <2>2, <2>3, <2>4, <2>5, WriteType
      DEF history, resolved, Writing, LockType, PCType
  <1>3. ASSUME NEW p \in Procs, Fetch(p) PROVE TypeOK'
    BY <1>3, NatAssumption DEF Fetch, custody, history, resolved
  <1>4. ASSUME NEW p \in Procs, Throttled(p) PROVE TypeOK'
    <2>1. PICK retry \in Time \ {Never} :
            /\ learned' = [learned EXCEPT ![p] = retry]
            /\ IF retry > mem[p].next
               THEN Write(p, mem[p], Extension(mem[p], retry), "extending")
               ELSE UNCHANGED <<pc, mem, ver, link>>
      BY <1>4 DEF Throttled
    <2>2. Extension(mem[p], retry) \in State /\ retry \in Nat
      BY <1>0, WrittenTypes
    <2>3. QED
      BY <1>4, <2>1, <2>2, NatAssumption
      DEF Throttled, Write, custody, resolved, Active, Writing
  <1>5. ASSUME NEW p \in Procs, Complete(p) PROVE TypeOK'
    <2>1. Completion(mem[p]) \in State
      BY WrittenTypes
    <2>2. QED
      BY <1>5, <2>1 DEF Complete, Write, custody, history, resolved, Active, Writing
  <1>6. ASSUME NEW p \in Procs, Recover(p) PROVE TypeOK'
    <2>1. PICK now \in Time, deadline \in Time :
            /\ Decode(store).count # MaxRecovery
            /\ Write(p, store, Resolution(Decode(store), now, deadline),
                     "recovering")
      BY <1>6 DEF Recover, Recoverable
    <2>2. Resolution(Decode(store), now, deadline) \in State
      BY <1>0, <2>1, WrittenTypes
    <2>3. LockType'
      BY <1>6, TryLockType DEF Recover, LockType
    <2>4. untrue' \in SUBSET Confirmations
      BY <1>6 DEF Recover, Untrue
    <2>5. QED
      BY <1>6, <2>1, <2>2, <2>3, <2>4, WriteType, DirAssumption
      DEF Recover, MkdirAll, history, resolved, Writing, LockType, PCType
  <1>7. ASSUME NEW p \in Procs, SaveLocal(p) PROVE TypeOK'
    BY <1>7, ReplaceType, ContinueType DEF SaveLocal, LockType, PCType
  <1>8. ASSUME NEW p \in Procs, SaveLocalLate(p) PROVE TypeOK'
    BY <1>8, ReplaceType, EndType
    DEF SaveLocalLate, LockType, PCType, Ended
  <1>9. CASE PowerLoss
    <2>1. /\ store' \in State /\ disk' \in SUBSET State
          /\ completed' \in SUBSET Nat /\ discarded' \in SUBSET Nat
      BY <1>9 DEF PowerLoss, Behind
    <2>2. LockType'
      BY <1>9 DEF PowerLoss, LockType
    <2>3. PCType'
      BY <1>9 DEF PowerLoss, PCType, Ended
    <2>4. QED
      BY <1>9, <2>1, <2>2, <2>3 DEF PowerLoss, history, resolved, LockType, PCType
  <1>10. ASSUME NEW p \in Procs, ApplyPut(p) PROVE TypeOK'
    BY <1>10, ReplaceType DEF ApplyPut
  <1>11. ASSUME NEW p \in Procs, RefusePut(p) PROVE TypeOK'
    BY <1>11 DEF RefusePut, custody, history, resolved
  <1>12. ASSUME NEW p \in Procs, Receipt(p) PROVE TypeOK'
    BY <1>12, ContinueType DEF Receipt, resolved, LockType, PCType
  <1>13. ASSUME NEW p \in Procs, Fail(p) PROVE TypeOK'
    BY <1>13, EndType DEF Fail, history, resolved, LockType, PCType, Ended
  <1>14. ASSUME NEW d \in Dirs, Inspect(d) PROVE TypeOK'
    BY <1>14, WrittenTypes DEF Inspect, MkdirAll, local, history, resolved
  <1>15. CASE UNCHANGED vars
    BY <1>15 DEF vars, custody, local, history, resolved
  <1>16. QED
    BY <1>1, <1>2, <1>3, <1>4, <1>5, <1>6, <1>7, <1>8, <1>9, <1>10, <1>11,
       <1>12, <1>13, <1>14, <1>15 DEF Next

(* Type correctness of the whole protocol.                                 *)
THEOREM TypeCorrect == Spec => []TypeOK
  BY TypeInit, TypeNext, PTL DEF Spec

-----------------------------------------------------------------------------
(* What the operations do to a state.                                      *)

(* An operation on a readable or missing state leaves a readable one.      *)
LEMMA OperationReadable ==
  ASSUME NEW s \in State, NEW t \in State, s = Absent \/ Readable(s),
         Operation(s, t)
  PROVE  Readable(t)
  <1> USE PollAssumption
  <1>1. CASE Initialized(s, t)
    BY <1>1 DEF Initialized, FreshState, Schedule0, Readable, Never
  <1>2. CASE Admitted(s, t)
    BY <1>2 DEF Admitted, Admission, Decode, Readable, ValidRecovery, State,
                Recoveries, Never, NoRecovery
  <1>3. CASE Extended(s, t)
    <2>1. Readable(s)
      BY <1>3, AbsentState DEF Extended
    <2>2. QED
      BY <1>3, <2>1 DEF Extended, Extension, Readable, ValidRecovery, State,
                        Recoveries, Never, NoRecovery
  <1>4. CASE Completed(s, t)
    <2>1. Readable(s)
      BY <1>4, AbsentState DEF Completed
    <2>2. QED
      BY <1>4, <2>1 DEF Completed, Completion, Readable, ValidRecovery, State,
                        Recoveries, Never, NoRecovery
  <1>5. CASE Recovered(s, t)
    BY <1>5 DEF Recovered, Resolution, Decode, Readable, ValidRecovery, State,
                Recoveries, Never, NoRecovery
  <1>6. QED
    BY <1>1, <1>2, <1>3, <1>4, <1>5 DEF Operation

(* ... and one that is newer.                                              *)
LEMMA OperationNewer ==
  ASSUME NEW s \in State, NEW t \in State, s = Absent \/ Readable(s),
         Operation(s, t)
  PROVE  Newer(t, s) /\ t.last >= s.last
  <1> USE PollAssumption
  <1>1. CASE Initialized(s, t)
    BY <1>1 DEF Initialized, Newer, FreshState, Absent, Schedule0, Never
  <1>2. CASE Admitted(s, t)
    BY <1>2 DEF Admitted, Admission, Decode, Newer, Readable, State, Never
  <1>3. CASE Extended(s, t)
    BY <1>3 DEF Extended, Extension, Newer, State
  <1>4. CASE Completed(s, t)
    BY <1>4 DEF Completed, Completion, Newer, State
  <1>5. CASE Recovered(s, t)
    BY <1>5 DEF Recovered, Resolution, Decode, Newer, State
  <1>6. QED
    BY <1>1, <1>2, <1>3, <1>4, <1>5 DEF Operation

-----------------------------------------------------------------------------
(* The lock.                                                               *)
LEMMA LockNext == TypeOK /\ LockInv /\ [Next]_vars => LockInv'
  <1> SUFFICES ASSUME TypeOK, LockInv, [Next]_vars PROVE LockInv'
    OBVIOUS
  <1> USE DirAssumption DEF LockInv
  <1>1. ASSUME NEW p \in Procs, TryLock(p),
               \A q \in Procs \ {p} : pc'[q] = pc[q]
        PROVE  LockInv'
    BY <1>1 DEF TryLock, TypeOK
  <1>2. ASSUME NEW p \in Procs, NEW how \in Ended, pc[p] \in Active, End(p, how)
        PROVE  LockInv'
    BY <1>2 DEF End, TypeOK, Active, Writing, Ended
  <1>3. ASSUME NEW p \in Procs, pc[p] \in Active, UNCHANGED lock,
               \A q \in Procs \ {p} : pc'[q] = pc[q]
        PROVE  LockInv'
    BY <1>3
  <1>4. ASSUME NEW p \in Procs, pc[p] \in Writing, Continue(p) PROVE LockInv'
    <2>1. \/ \E how \in Ended : End(p, how)
          \/ UNCHANGED lock /\ \A q \in Procs \ {p} : pc'[q] = pc[q]
      BY <1>4 DEF Continue, Ended, TypeOK
    <2>2. QED
      BY <1>2, <1>3, <1>4, <2>1 DEF Active
  <1>5. ASSUME NEW p \in Procs, NEW base, NEW s, NEW where,
               Write(p, base, s, where)
        PROVE  \A q \in Procs \ {p} : pc'[q] = pc[q]
    BY <1>5 DEF Write, TypeOK
  <1>6. ASSUME NEW p \in Procs, Initialize(p) \/ Admit(p) \/ Recover(p)
        PROVE  LockInv'
    BY <1>1, <1>5, <1>6 DEF Initialize, Admit, Recover
  <1>7. ASSUME NEW p \in Procs, Throttled(p) \/ Complete(p) PROVE LockInv'
    <2>1. pc[p] \in Active /\ UNCHANGED lock
      BY <1>7 DEF Throttled, Complete, custody, Active
    <2>2. \A q \in Procs \ {p} : pc'[q] = pc[q]
      BY <1>5, <1>7 DEF Throttled, Complete
    <2>3. QED
      BY <1>3, <2>1, <2>2
  <1>8. ASSUME NEW p \in Procs, SaveLocal(p) \/ Receipt(p) PROVE LockInv'
    BY <1>4, <1>8 DEF SaveLocal, Receipt
  <1>9. ASSUME NEW p \in Procs, SaveLocalLate(p) \/ Fail(p) PROVE LockInv'
    BY <1>2, <1>9 DEF SaveLocalLate, Fail, Active, Ended
  <1>10. CASE PowerLoss
    BY <1>10 DEF PowerLoss, Active, Writing, Ended
  <1>11. ASSUME NEW p \in Procs, Fetch(p) \/ ApplyPut(p) \/ RefusePut(p)
         PROVE  LockInv'
    BY <1>11 DEF Fetch, ApplyPut, RefusePut, custody
  <1>12. ASSUME NEW d \in Dirs, Inspect(d) PROVE LockInv'
    BY <1>12 DEF Inspect, local
  <1>13. CASE UNCHANGED vars
    BY <1>13 DEF vars, custody, local
  <1>14. QED
    BY <1>6, <1>7, <1>8, <1>9, <1>10, <1>11, <1>12, <1>13 DEF Next

(* With local custody an invocation that has begun is alone.               *)
LEMMA LocalAlone ==
  ASSUME LockInv, ~Remote, NEW p \in Procs, NEW q \in Procs,
         pc[p] \in Active, pc[q] \in Active
  PROVE  p = q
  BY DirAssumption DEF LockInv

-----------------------------------------------------------------------------
(* What is on its way to the store.                                        *)
LEMMA BegunWrites ==
  ASSUME TypeOK, WriteInv, NEW p \in Procs, NEW base, NEW s,
         NEW where \in Writing, Write(p, base, s, where), Operation(base, s),
         where = "admitting" => Admitted(base, s),
         where \in {"admitting", "extending"} => s.inFlight
  PROVE  WriteInv'
  BY DEF WriteInv, Write, TypeOK, Writing

(* What kind of operation each invocation begins to write.                 *)
LEMMA InitializedWrite ==
  ASSUME NEW reg \in Registries
  PROVE  Operation(Absent, FreshState(reg))
  BY DEF Operation, Initialized, FreshState, Schedule0

LEMMA AdmittedWrite ==
  ASSUME NEW reg, NEW now \in Time, Readable(store),
         Admissible(Decode(store), reg, now)
  PROVE  /\ Admitted(store, Admission(Decode(store), now))
         /\ Admission(Decode(store), now).inFlight
  BY DEF Admitted, Admissible, Admission, Decode

LEMMA ExtendedWrite ==
  ASSUME NEW s \in State, NEW retry, s.inFlight, retry > s.next
  PROVE  /\ Operation(s, Extension(s, retry))
         /\ Extension(s, retry).inFlight
  BY DEF Operation, Extended, Extension

LEMMA CompletedWrite ==
  ASSUME NEW s \in State, s.inFlight
  PROVE  Operation(s, Completion(s))
  BY DEF Operation, Completed, Completion

LEMMA RecoveredWrite ==
  ASSUME NEW now \in Time, NEW deadline \in Time, Readable(store),
         Recoverable(Decode(store), now, deadline)
  PROVE  Operation(store, Resolution(Decode(store), now, deadline))
  BY DEF Operation, Recovered, Recoverable, Resolution, Decode

(* Every step keeps what is under way an operation on its base.            *)
LEMMA WriteNext == TypeOK /\ WriteInv /\ [Next]_vars => WriteInv'
  <1> SUFFICES ASSUME TypeOK, WriteInv, [Next]_vars PROVE WriteInv'
    OBVIOUS
  <1>1. ASSUME NEW p \in Procs, Initialize(p) PROVE WriteInv'
    BY <1>1, BegunWrites, InitializedWrite DEF Initialize, Writing
  <1>2. ASSUME NEW p \in Procs, Admit(p) PROVE WriteInv'
    <2>1. PICK reg \in Registries, now \in Time :
            /\ Admissible(Decode(store), reg, now)
            /\ Write(p, store, Admission(Decode(store), now), "admitting")
      BY <1>2 DEF Admit
    <2>2. /\ Admitted(store, Admission(Decode(store), now))
          /\ Admission(Decode(store), now).inFlight
      BY <1>2, <2>1, AdmittedWrite DEF Admit
    <2>3. Operation(store, Admission(Decode(store), now))
      BY <2>2 DEF Operation
    <2>4. QED
      BY <2>1, <2>2, <2>3, BegunWrites DEF Writing
  <1>3. ASSUME NEW p \in Procs, Throttled(p) PROVE WriteInv'
    <2>1. mem[p] \in State /\ mem[p].inFlight
      BY <1>3 DEF Throttled, WriteInv, TypeOK
    <2>2. CASE UNCHANGED <<pc, mem, ver, link>>
      BY <2>2 DEF WriteInv
    <2>3. ASSUME NEW retry, retry > mem[p].next,
                 Write(p, mem[p], Extension(mem[p], retry), "extending")
          PROVE  WriteInv'
      BY <2>1, <2>3, ExtendedWrite, BegunWrites DEF Writing
    <2>4. QED
      BY <1>3, <2>2, <2>3 DEF Throttled
  <1>4. ASSUME NEW p \in Procs, Complete(p) PROVE WriteInv'
    <2>1. mem[p] \in State /\ mem[p].inFlight
      BY <1>4 DEF Complete, WriteInv, TypeOK
    <2>2. Write(p, mem[p], Completion(mem[p]), "completing")
      BY <1>4 DEF Complete
    <2>3. QED
      BY <2>1, <2>2, CompletedWrite, BegunWrites DEF Writing
  <1>5. ASSUME NEW p \in Procs, Recover(p) PROVE WriteInv'
    <2>1. PICK now \in Time, deadline \in Time :
            /\ Recoverable(Decode(store), now, deadline)
            /\ Write(p, store, Resolution(Decode(store), now, deadline),
                     "recovering")
      BY <1>5 DEF Recover
    <2>2. Operation(store, Resolution(Decode(store), now, deadline))
      BY <1>5, <2>1, RecoveredWrite DEF Recover
    <2>3. QED
      BY <2>1, <2>2, BegunWrites DEF Writing
  <1>6. ASSUME NEW p \in Procs, SaveLocal(p) \/ Receipt(p) PROVE WriteInv'
    <2>1. /\ pc[p] \in Writing /\ UNCHANGED <<mem, ver>> /\ Continue(p)
          /\ \A q \in Procs : link'[q] = "sent" => link[q] = "sent"
      BY <1>6 DEF SaveLocal, Receipt, TypeOK
    <2>2. /\ \A q \in Procs \ {p} : pc'[q] = pc[q]
          /\ pc'[p] \notin Writing
          /\ pc'[p] = "fetching" => pc[p] \in {"admitting", "extending"}
      BY <2>1 DEF Continue, End, TypeOK, Writing
    <2>3. QED
      BY <2>1, <2>2 DEF WriteInv, Writing
  <1>7. ASSUME NEW p \in Procs,
               SaveLocalLate(p) \/ Fail(p) \/ Fetch(p) \/ ApplyPut(p) \/ RefusePut(p)
        PROVE  WriteInv'
    <2>1. /\ UNCHANGED <<mem, ver>>
          /\ \A q \in Procs : link'[q] = "sent" => link[q] = "sent"
          /\ \A q \in Procs : pc'[q] = pc[q] \/ pc'[q] = "failed"
      BY <1>7 DEF SaveLocalLate, Fail, Fetch, ApplyPut, RefusePut, End, TypeOK,
                  custody
    <2>2. QED
      BY <2>1 DEF WriteInv, Writing
  <1>8. CASE PowerLoss
    <2>1. \A q \in Procs : pc'[q] = pc[q] \/ pc'[q] = "failed"
      BY <1>8 DEF PowerLoss
    <2>2. QED
      BY <1>8, <2>1 DEF PowerLoss, WriteInv, Writing
  <1>9. ASSUME NEW d \in Dirs, Inspect(d) PROVE WriteInv'
    BY <1>9 DEF Inspect, local, WriteInv
  <1>10. CASE UNCHANGED vars
    BY <1>10 DEF vars, local, WriteInv
  <1>11. QED
    BY <1>1, <1>2, <1>3, <1>4, <1>5, <1>6, <1>7, <1>8, <1>9, <1>10 DEF Next

-----------------------------------------------------------------------------
(* What a step does to the store: nothing, one whole operation on what is  *)
(* stored at that instant, or the loss of what was not yet synced.         *)
StoreStep ==
  \/ UNCHANGED <<store, disk>>
  \/ Operation(store, store') /\ disk' \in {{store'}, disk \cup {store'}}
  \/ ~Remote /\ store' \in disk /\ disk' = {store'}

(* A replacement takes what is under way ...                               *)
LEMMA ReplaceStep ==
  ASSUME TypeOK, LocalInv, WriteInv, NEW p \in Procs,
         SaveLocal(p) \/ SaveLocalLate(p) \/ ApplyPut(p)
  PROVE  /\ store' = mem[p] /\ Operation(store, store')
         /\ disk' \in {{store'}, disk \cup {store'}}
         /\ Remote => disk' = {store'}
  <1>1. store = ver[p] /\ (pc[p] \in Writing \/ link[p] = "sent")
    BY DEF SaveLocal, SaveLocalLate, ApplyPut, LocalInv
  <1>2. Operation(store, mem[p])
    BY <1>1 DEF WriteInv
  <1>3. /\ store' = mem[p]
        /\ disk' = {} \cup {mem[p]} \/ (~Remote /\ disk' = disk \cup {mem[p]})
    BY DEF SaveLocal, SaveLocalLate, ApplyPut, Replace
  <1>4. QED
    BY <1>2, <1>3

(* ... and so every step of the store is an operation or a loss of power.  *)
LEMMA StoreSteps ==
  ASSUME TypeOK, LocalInv, WriteInv, [Next]_vars
  PROVE  StoreStep /\ (RemoteInv => RemoteInv')
  <1>1. ASSUME NEW p \in Procs, SaveLocal(p) \/ SaveLocalLate(p) \/ ApplyPut(p)
        PROVE  StoreStep /\ (RemoteInv => RemoteInv')
    BY <1>1, ReplaceStep DEF StoreStep, RemoteInv
  <1>2. CASE PowerLoss
    BY <1>2 DEF PowerLoss, StoreStep, RemoteInv
  <1>3. CASE UNCHANGED <<store, disk>>
    BY <1>3 DEF StoreStep, RemoteInv
  <1>4. ASSUME NEW p \in Procs,
               Initialize(p) \/ Admit(p) \/ Fetch(p) \/ Throttled(p)
               \/ Complete(p) \/ Recover(p) \/ RefusePut(p) \/ Receipt(p)
               \/ Fail(p)
        PROVE  UNCHANGED <<store, disk>>
    BY <1>4 DEF Initialize, Admit, Fetch, Throttled, Complete, Recover,
                RefusePut, Receipt, Fail, custody
  <1>5. ASSUME NEW d \in Dirs, Inspect(d) PROVE UNCHANGED <<store, disk>>
    BY <1>5 DEF Inspect
  <1>6. UNCHANGED vars => UNCHANGED <<store, disk>>
    BY DEF vars, custody
  <1>7. QED
    BY <1>1, <1>2, <1>3, <1>4, <1>5, <1>6 DEF Next

(* What is stored stays readable.                                          *)
LEMMA ReadableNext ==
  TypeOK /\ TypeOK' /\ LocalInv /\ WriteInv /\ StoreReadable /\ [Next]_vars
    => StoreReadable'
  <1> SUFFICES ASSUME TypeOK, TypeOK', LocalInv, WriteInv, StoreReadable,
                      [Next]_vars
               PROVE  StoreReadable'
    OBVIOUS
  <1>1. CASE Operation(store, store') /\ disk' \in {{store'}, disk \cup {store'}}
    <2>1. store = Absent \/ Readable(store)
      BY DEF StoreReadable
    <2>2. Readable(store')
      BY <1>1, <2>1, OperationReadable DEF TypeOK
    <2>3. \A s \in disk' \cup {store'} : s = store' \/ s \in disk
      BY <1>1
    <2>4. QED
      BY <2>2, <2>3 DEF StoreReadable
  <1>2. CASE UNCHANGED <<store, disk>> \/ (store' \in disk /\ disk' = {store'})
    BY <1>2 DEF StoreReadable
  <1>3. QED
    BY <1>1, <1>2, StoreSteps DEF StoreStep

-----------------------------------------------------------------------------
(* Local custody.                                                          *)
LEMMA MadeNext ==
  TypeOK /\ LocalInv /\ MadeInv /\ [Next]_vars => MadeInv'
  <1> SUFFICES ASSUME TypeOK, LocalInv, MadeInv, ~Remote, [Next]_vars
               PROVE  MadeInv'
    BY DEF MadeInv
  <1> USE DirAssumption
  <1>1. ASSUME NEW p \in Procs, UNCHANGED <<store, disk>>,
               LockDir[p] \in made', made \subseteq made',
               \A q \in Procs \ {p} : pc'[q] \in Active => pc[q] \in Active
        PROVE  MadeInv'
    BY <1>1 DEF MadeInv
  <1>2. ASSUME NEW p \in Procs, pc[p] \in Active, UNCHANGED made
        PROVE  MadeInv'
    BY <1>2 DEF MadeInv
  <1>3. ASSUME NEW p \in Procs, Initialize(p) PROVE MadeInv'
    BY <1>1, <1>3 DEF Initialize, Write, TypeOK
  <1>4. ASSUME NEW p \in Procs, Admit(p) \/ Recover(p) PROVE MadeInv'
    <2>1. LockDir[p] \in made
      BY <1>4, AbsentState DEF Admit, Recover, Readable, MadeInv
    <2>2. /\ UNCHANGED <<store, disk, made>>
          /\ \A q \in Procs \ {p} : pc'[q] = pc[q]
      BY <1>4 DEF Admit, Recover, MkdirAll, Write, TypeOK
    <2>3. QED
      BY <1>1, <2>1, <2>2
  <1>5. ASSUME NEW p \in Procs,
               Fetch(p) \/ Throttled(p) \/ Complete(p) \/ SaveLocal(p)
               \/ SaveLocalLate(p) \/ Receipt(p) \/ Fail(p)
        PROVE  MadeInv'
    BY <1>2, <1>5 DEF Fetch, Throttled, Complete, SaveLocal, SaveLocalLate,
                      Receipt, Fail, custody, Active
  <1>6. ASSUME NEW p \in Procs, ApplyPut(p) PROVE MadeInv'
    BY <1>6 DEF ApplyPut, LocalInv
  <1>7. CASE PowerLoss
    BY <1>7 DEF PowerLoss, MadeInv, Active, Writing
  <1>8. CASE UNCHANGED <<store, disk, made, pc>>
    BY <1>8 DEF MadeInv
  <1>9. ASSUME NEW p \in Procs, RefusePut(p)
        PROVE  UNCHANGED <<store, disk, made, pc>>
    BY <1>9 DEF RefusePut, custody
  <1>10. ASSUME NEW d \in Dirs, Inspect(d)
         PROVE  UNCHANGED <<store, disk, made, pc>>
    BY <1>10 DEF Inspect, MkdirAll, local
  <1>11. UNCHANGED vars => UNCHANGED <<store, disk, made, pc>>
    BY DEF vars, custody, local
  <1>12. QED
    BY <1>3, <1>4, <1>5, <1>6, <1>7, <1>8, <1>9, <1>10, <1>11 DEF Next

(* Only the invocation that has begun matters for LocalInv.                *)
LEMMA LocalOne ==
  ASSUME LockInv', ~Remote, NEW p \in Procs,
         \A q \in Procs : link'[q] = "none",
         \A q \in Procs \ {p} : pc'[q] \in Active => pc'[p] \in Active,
         pc'[p] \in Writing => ver'[p] = store',
         pc'[p] = "fetching" => mem'[p] = store'
  PROVE  LocalInv'
  BY DirAssumption DEF LocalInv, LockInv, Active

(* With local custody a run holds what is stored.                          *)
LEMMA LocalNext ==
  TypeOK /\ LockInv /\ LockInv' /\ MadeInv /\ LocalInv /\ [Next]_vars
    => LocalInv'
  <1> SUFFICES ASSUME TypeOK, LockInv, LockInv', MadeInv, LocalInv, ~Remote,
                      [Next]_vars
               PROVE  LocalInv'
    BY DEF LocalInv
  <1> USE DEF TypeOK
  <1>1. ASSUME NEW p \in Procs, NEW base, NEW s, NEW where \in Writing,
               Write(p, base, s, where), UNCHANGED store, base = store
        PROVE  LocalInv'
    <2>1. /\ \A q \in Procs : link'[q] = "none"
          /\ pc'[p] = where /\ ver'[p] = store'
      BY <1>1 DEF Write, LocalInv
    <2>2. QED
      BY <1>1, <2>1, LocalOne DEF Active, Writing
  <1>2. ASSUME NEW p \in Procs, pc[p] \in Active,
               UNCHANGED <<mem, ver>>,
               \A q \in Procs : link'[q] = "none",
               \A q \in Procs \ {p} : pc'[q] = pc[q],
               pc'[p] \notin Writing,
               pc'[p] = "fetching" => mem[p] = store'
        PROVE  LocalInv'
    <2>1. \A q \in Procs \ {p} : pc'[q] \notin Active
      BY <1>2, LocalAlone
    <2>2. QED
      BY <1>2, <2>1, LocalOne
  <1>3. ASSUME NEW p \in Procs, Initialize(p) PROVE LocalInv'
    <2>1. store = Absent /\ UNCHANGED store
      BY <1>3 DEF Initialize, MadeInv
    <2>2. QED
      BY <1>1, <1>3, <2>1 DEF Initialize, Writing
  <1>4. ASSUME NEW p \in Procs, Admit(p) \/ Recover(p) PROVE LocalInv'
    BY <1>1, <1>4 DEF Admit, Recover, Writing
  <1>5. ASSUME NEW p \in Procs, Throttled(p) \/ Complete(p) PROVE LocalInv'
    <2>1. mem[p] = store /\ UNCHANGED store
      BY <1>5 DEF Throttled, Complete, LocalInv, custody
    <2>2. CASE UNCHANGED <<pc, mem, ver, link>>
      BY <2>1, <2>2 DEF LocalInv
    <2>3. QED
      BY <1>1, <1>5, <2>1, <2>2 DEF Throttled, Complete, Writing
  <1>6. ASSUME NEW p \in Procs, SaveLocal(p) PROVE LocalInv'
    <2>1. /\ pc[p] \in Active /\ UNCHANGED <<mem, ver, link>>
          /\ store' = mem[p] /\ Continue(p)
      BY <1>6 DEF SaveLocal, Replace, Active
    <2>2. /\ \A q \in Procs \ {p} : pc'[q] = pc[q]
          /\ pc'[p] \notin Writing
      BY <2>1 DEF Continue, End, Writing
    <2>3. QED
      BY <1>2, <2>1, <2>2 DEF LocalInv
  <1>7. ASSUME NEW p \in Procs, SaveLocalLate(p) \/ Fail(p) PROVE LocalInv'
    <2>1. /\ pc[p] \in Active /\ UNCHANGED <<mem, ver, link>>
          /\ \A q \in Procs \ {p} : pc'[q] = pc[q]
          /\ pc'[p] = "failed"
      BY <1>7 DEF SaveLocalLate, Fail, End, Active
    <2>2. QED
      BY <1>2, <2>1 DEF LocalInv, Writing
  <1>8. ASSUME NEW p \in Procs, ApplyPut(p) \/ RefusePut(p) \/ Receipt(p)
        PROVE  LocalInv'
    BY <1>8 DEF ApplyPut, RefusePut, Receipt, LocalInv
  <1>9. CASE PowerLoss
    BY <1>9 DEF PowerLoss, LocalInv, Active, Writing
  <1>10. CASE UNCHANGED <<store, pc, mem, ver, link>>
    BY <1>10 DEF LocalInv
  <1>11. ASSUME NEW p \in Procs, Fetch(p)
         PROVE  UNCHANGED <<store, pc, mem, ver, link>>
    BY <1>11 DEF Fetch, custody
  <1>12. ASSUME NEW d \in Dirs, Inspect(d)
         PROVE  UNCHANGED <<store, pc, mem, ver, link>>
    BY <1>12 DEF Inspect, local
  <1>13. UNCHANGED vars => UNCHANGED <<store, pc, mem, ver, link>>
    BY DEF vars, custody, local
  <1>14. QED
    BY <1>3, <1>4, <1>5, <1>6, <1>7, <1>8, <1>9, <1>10, <1>11, <1>12, <1>13
    DEF Next

-----------------------------------------------------------------------------
(* Admissions.                                                             *)
(* A step lets the store take the admission of p ...                       *)
TakesAdmission(p) ==
  /\ Admitted(store, store')
  /\ disk' = {store'}
  /\ Taken(p)' = store'.last
  /\ \A q \in Procs \ {p} : Taken(q)' = Taken(q)

(* ... or it takes none, and may forget one whose run ended before it went *)
(* to the source.                                                          *)
TakesNone == \A q \in Procs : Taken(q)' \in {Taken(q), Never}

LEMMA TakenType ==
  ASSUME TypeOK, NEW p \in Procs
  PROVE  Taken(p) \in Nat
  BY DEF TypeOK, Taken, State, Never

(* The contents that may be stored never have an earlier last admission.   *)
LEMMA LastGrows ==
  ASSUME TypeOK, TypeOK', LocalInv, WriteInv, StoreReadable, [Next]_vars,
         NEW t \in disk' \cup {store'}
  PROVE  \E s \in disk \cup {store} : t.last >= s.last
  <1>1. CASE t \in disk \cup {store}
    <2>1. t.last >= t.last
      BY <1>1 DEF TypeOK, State
    <2>2. QED
      BY <1>1, <2>1
  <1>2. CASE t = store' /\ Operation(store, store')
    <2>1. store = Absent \/ Readable(store)
      BY DEF StoreReadable
    <2>2. t.last >= store.last
      BY <1>2, <2>1, OperationNewer DEF TypeOK
    <2>3. QED
      BY <2>2
  <1>3. QED
    BY <1>1, <1>2, StoreSteps DEF StoreStep

(* A step that takes no admission, and one that takes one.                 *)
LEMMA AdmissionKept ==
  ASSUME TypeOK, TypeOK', LocalInv, WriteInv, StoreReadable, AdmissionInv,
         [Next]_vars, TakesNone, Unvisited'
  PROVE  AdmissionInv'
  <1>1. ASSUME NEW p \in Procs, NEW t \in disk' \cup {store'}
        PROVE  Taken(p)' <= t.last
    <2>1. PICK s \in disk \cup {store} : t.last >= s.last
      BY LastGrows
    <2>2. s.last \in Nat /\ t.last \in Nat
      BY DEF TypeOK, State
    <2>3. Taken(p) <= s.last /\ Taken(p) \in Nat
      BY TakenType DEF AdmissionInv
    <2>4. Taken(p)' \in {Taken(p), 0}
      BY DEF TakesNone, Never
    <2>5. QED
      BY <2>1, <2>2, <2>3, <2>4
  <1>2. ASSUME NEW p \in Procs, NEW q \in Procs, p # q,
               Taken(p)' # Never, Taken(q)' # Never
        PROVE  Taken(p)' >= Taken(q)' + Poll \/ Taken(q)' >= Taken(p)' + Poll
    BY <1>2 DEF TakesNone, AdmissionInv
  <1>3. QED
    BY <1>1, <1>2 DEF AdmissionInv, Unvisited

LEMMA AdmissionAdded ==
  ASSUME TypeOK, TypeOK', StoreReadable, AdmissionInv, NEW p \in Procs,
         TakesAdmission(p), Unvisited'
  PROVE  AdmissionInv'
  <1>1. store.last \in Nat /\ store.next \in Nat /\ store'.last \in Nat
    BY DEF TypeOK, State
  <1>2. /\ store'.last >= store.next /\ store'.last >= store.last
        /\ store.last # Never => store.next >= store.last + Poll
    BY DEF TakesAdmission, Admitted, Readable
  <1>3. ASSUME NEW q \in Procs \ {p}
        PROVE  /\ Taken(q)' <= store'.last
               /\ Taken(q)' # Never => store'.last >= Taken(q)' + Poll
    <2>1. Taken(q)' = Taken(q) /\ Taken(q) \in Nat /\ Taken(q) <= store.last
      BY TakenType DEF TakesAdmission, AdmissionInv
    <2>2. QED
      BY <1>1, <1>2, <2>1, PollAssumption DEF Never
  <1>4. Taken(p)' = store'.last /\ disk' = {store'}
    BY DEF TakesAdmission
  <1>5. \A q \in Procs : \A s \in disk' \cup {store'} : Taken(q)' <= s.last
    BY <1>1, <1>3, <1>4
  <1>6. \A q, r \in Procs :
          (q # r /\ Taken(q)' # Never /\ Taken(r)' # Never) =>
            (Taken(q)' >= Taken(r)' + Poll \/ Taken(r)' >= Taken(q)' + Poll)
    <2>1. ASSUME NEW q \in Procs \ {p}, NEW r \in Procs \ {p}, q # r,
                 Taken(q)' # Never, Taken(r)' # Never
          PROVE  Taken(q)' >= Taken(r)' + Poll \/ Taken(r)' >= Taken(q)' + Poll
      BY <2>1 DEF TakesAdmission, AdmissionInv
    <2>2. QED
      BY <1>3, <1>4, <2>1
  <1>7. QED
    BY <1>5, <1>6 DEF AdmissionInv, Unvisited

(* Every step is one of the two.                                           *)
LEMMA AdmissionSteps ==
  ASSUME TypeOK, LocalInv, WriteInv, Unvisited, [Next]_vars
  PROVE  Unvisited' /\ (TakesNone \/ \E p \in Procs : TakesAdmission(p))
  <1> USE DEF TypeOK, Unvisited
  <1>1. ASSUME NEW p \in Procs, NEW base, NEW s, NEW where \in Writing,
               pc[p] \in {"new", "fetching"}, Write(p, base, s, where),
               where = "admitting" => pc[p] = "new", UNCHANGED attempt
        PROVE  Unvisited' /\ TakesNone
    <2>1. /\ \A q \in Procs \ {p} : UNCHANGED <<pc[q], mem[q], link[q]>>
          /\ pc'[p] = where /\ link'[p] # "ok"
      BY <1>1 DEF Write
    <2>2. QED
      BY <1>1, <2>1 DEF TakesNone, Taken, Writing
  <1>2. ASSUME UNCHANGED <<attempt, mem>>,
               \A q \in Procs : pc'[q] \in {pc[q], "failed"},
               \A q \in Procs : link'[q] = "ok" => link[q] = "ok"
        PROVE  Unvisited' /\ TakesNone
    <2>1. \A q \in Procs : pc'[q] \in {"new", "admitting"} => pc'[q] = pc[q]
      BY <1>2
    <2>2. Unvisited'
      BY <1>2, <2>1
    <2>3. ASSUME NEW q \in Procs PROVE Taken(q)' \in {Taken(q), Never}
      <3>1. CASE attempt[q] # Never
        BY <1>2, <3>1 DEF Taken
      <3>2. CASE attempt[q] = Never
        <4>1. attempt'[q] = Never /\ mem'[q] = mem[q]
          BY <1>2, <3>2
        <4>2. CASE pc'[q] = "admitting" /\ link'[q] = "ok"
          BY <1>2, <2>1, <3>2, <4>1, <4>2 DEF Taken
        <4>3. CASE ~(pc'[q] = "admitting" /\ link'[q] = "ok")
          BY <4>1, <4>3 DEF Taken
        <4>4. QED
          BY <4>2, <4>3
      <3>3. QED
        BY <3>1, <3>2
    <2>4. QED
      BY <2>2, <2>3 DEF TakesNone
  <1>3. ASSUME NEW p \in Procs,
               Initialize(p) \/ Admit(p) \/ Recover(p)
        PROVE  Unvisited' /\ TakesNone
    BY <1>1, <1>3 DEF Initialize, Admit, Recover, history, resolved, Writing
  <1>4. ASSUME NEW p \in Procs, Throttled(p) \/ Complete(p)
        PROVE  Unvisited' /\ TakesNone
    <2>1. CASE UNCHANGED <<pc, mem, ver, link>> /\ UNCHANGED attempt
      BY <1>2, <2>1
    <2>2. QED
      BY <1>1, <1>4, <2>1 DEF Throttled, Complete, history, resolved, Writing
  <1>5. ASSUME NEW p \in Procs,
               Fetch(p) \/ Fail(p) \/ SaveLocalLate(p) \/ RefusePut(p)
        PROVE  Unvisited' /\ TakesNone
    <2>1. /\ UNCHANGED <<attempt, mem>>
          /\ \A q \in Procs : pc'[q] \in {pc[q], "failed"}
          /\ \A q \in Procs : link'[q] = "ok" => link[q] = "ok"
      BY <1>5 DEF Fetch, Fail, SaveLocalLate, RefusePut, End, history, resolved
    <2>2. QED
      BY <1>2, <2>1
  <1>6. CASE PowerLoss
    BY <1>2, <1>6 DEF PowerLoss, history, resolved
  <1>7. ASSUME NEW d \in Dirs, Inspect(d) PROVE Unvisited' /\ TakesNone
    BY <1>2, <1>7 DEF Inspect, local, history, resolved
  <1>8. CASE UNCHANGED vars
    BY <1>2, <1>8 DEF vars, local, history, resolved
  <1>9. ASSUME NEW p \in Procs, ApplyPut(p)
        PROVE  Unvisited' /\ (TakesNone \/ TakesAdmission(p))
    <2>1. /\ UNCHANGED <<attempt, mem, pc>> /\ Remote
          /\ store' = mem[p] /\ store = ver[p] /\ disk' = {store'}
          /\ \A q \in Procs \ {p} : link'[q] = link[q]
          /\ link'[p] = "ok"
      BY <1>9 DEF ApplyPut, Replace, LocalInv
    <2>2. CASE pc[p] = "admitting"
      <3>1. Admitted(store, store')
        BY <2>1, <2>2 DEF WriteInv
      <3>2. QED
        BY <2>1, <2>2, <3>1 DEF TakesAdmission, Taken
    <2>3. CASE pc[p] # "admitting"
      BY <2>1, <2>3 DEF TakesNone, Taken
    <2>4. QED
      BY <2>1, <2>2, <2>3
  <1>10. ASSUME NEW p \in Procs, pc[p] \in Writing, Continue(p), UNCHANGED mem
         PROVE  /\ Unvisited'
                /\ \A q \in Procs \ {p} :
                     UNCHANGED <<pc[q], attempt[q], mem[q]>>
                /\ pc[p] = "admitting" => attempt'[p] = mem[p].last
                /\ pc[p] # "admitting" => attempt'[p] = attempt[p]
                /\ pc'[p] # "admitting"
    BY <1>10 DEF Continue, End, Writing
  <1>11. ASSUME NEW p \in Procs, Receipt(p) PROVE Unvisited' /\ TakesNone
    <2>1. /\ pc[p] \in Writing /\ Continue(p) /\ UNCHANGED mem
          /\ link[p] = "ok" /\ \A q \in Procs \ {p} : link'[q] = link[q]
      BY <1>11 DEF Receipt
    <2>2. Taken(p)' = Taken(p)
      BY <1>10, <2>1 DEF Taken
    <2>3. \A q \in Procs \ {p} : Taken(q)' = Taken(q)
      BY <1>10, <2>1 DEF Taken
    <2>4. QED
      BY <1>10, <2>1, <2>2, <2>3 DEF TakesNone
  <1>12. ASSUME NEW p \in Procs, SaveLocal(p)
         PROVE  Unvisited' /\ (TakesNone \/ TakesAdmission(p))
    <2>1. /\ pc[p] \in Writing /\ Continue(p) /\ UNCHANGED <<mem, link>>
          /\ store' = mem[p] /\ store = ver[p] /\ disk' = {store'}
          /\ \A q \in Procs : link[q] = "none"
      BY <1>12 DEF SaveLocal, Replace, LocalInv
    <2>2. \A q \in Procs \ {p} : Taken(q)' = Taken(q)
      BY <1>10, <2>1 DEF Taken
    <2>3. CASE pc[p] = "admitting"
      <3>1. Admitted(store, store') /\ store'.last # Never
        BY <2>1, <2>3 DEF WriteInv, Admitted
      <3>2. Taken(p)' = store'.last
        BY <1>10, <2>1, <2>3, <3>1 DEF Taken
      <3>3. QED
        BY <1>10, <2>1, <2>2, <3>1, <3>2 DEF TakesAdmission
    <2>4. CASE pc[p] # "admitting"
      <3>1. Taken(p)' = Taken(p)
        BY <1>10, <2>1, <2>4 DEF Taken
      <3>2. QED
        BY <1>10, <2>1, <2>2, <3>1 DEF TakesNone
    <2>5. QED
      BY <2>3, <2>4
  <1>13. QED
    BY <1>3, <1>4, <1>5, <1>6, <1>7, <1>8, <1>9, <1>11, <1>12 DEF Next

-----------------------------------------------------------------------------
(* The inductive invariant.                                                *)
LEMMA InvInit == Init => IInv
  <1> SUFFICES ASSUME Init PROVE IInv
    OBVIOUS
  <1>1. TypeOK /\ store \in State
    BY TypeInit DEF TypeOK
  <1>2. LockInv /\ MadeInv /\ LocalInv /\ RemoteInv /\ WriteInv
    BY DirAssumption
    DEF Init, LockInv, MadeInv, LocalInv, RemoteInv, WriteInv, Active, Writing
  <1>3. StoreReadable
    BY ExistingAssumption DEF Init, StoreReadable
  <1>4. AdmissionInv
    <2>1. \A p \in Procs : Taken(p) = Never /\ attempt[p] = Never
      BY DEF Init, Taken
    <2>2. store.last \in Nat /\ disk = {store}
      BY <1>1 DEF State, Init
    <2>3. QED
      BY <2>1, <2>2 DEF AdmissionInv, Unvisited, Never
  <1>5. QED
    BY <1>1, <1>2, <1>3, <1>4 DEF IInv

(* Together: the invariant is inductive, and holds in every reachable      *)
(* state.                                                                  *)
LEMMA InvNext == IInv /\ [Next]_vars => IInv'
  <1> SUFFICES ASSUME IInv, [Next]_vars PROVE IInv'
    OBVIOUS
  <1> USE DEF IInv
  <1>1. TypeOK'
    BY TypeNext
  <1>2. LockInv'
    BY LockNext
  <1>3. MadeInv' /\ LocalInv'
    BY <1>2, MadeNext, LocalNext
  <1>4. RemoteInv' /\ WriteInv'
    BY StoreSteps, WriteNext
  <1>5. StoreReadable'
    BY <1>1, ReadableNext
  <1>6. AdmissionInv'
    <2>1. Unvisited' /\ (TakesNone \/ \E p \in Procs : TakesAdmission(p))
      BY AdmissionSteps DEF AdmissionInv
    <2>2. QED
      BY <1>1, <2>1, AdmissionKept, AdmissionAdded
  <1>7. QED
    BY <1>1, <1>2, <1>3, <1>4, <1>5, <1>6

(* The inductive invariant holds in every reachable state.                 *)
THEOREM Invariance == Spec => []IInv
  BY InvInit, InvNext, PTL DEF Spec

(* Whatever an invocation stores, decodeState will accept, for every       *)
(* interleaving, crash and late request.                                   *)
THEOREM AlwaysReadable == Spec => []StoreReadable
  BY Invariance, PTL DEF IInv

(* Any two runs that went to the source were admitted Poll apart, for any  *)
(* clocks, crashes, recoveries and delays of requests.                     *)
THEOREM AdmissionsSpaced == Spec => []AdmissionSpacing
  <1>1. IInv => AdmissionSpacing
    BY DEF IInv, AdmissionInv, AdmissionSpacing, Taken
  <1>2. QED
    BY <1>1, Invariance, PTL

(* The stored state only moves forward, except for the loss of what was    *)
(* not yet synced: a version never names two moments.                      *)
THEOREM Progress == Spec => StoreProgress
  <1>1. IInv /\ IInv' /\ [Next]_vars =>
          [store' = store \/ Newer(store', store) \/ store' \in disk]_vars
    <2> SUFFICES ASSUME IInv, IInv', [Next]_vars
                 PROVE  store' = store \/ Newer(store', store) \/ store' \in disk
      OBVIOUS
    <2>1. CASE Operation(store, store')
      BY <2>1, OperationNewer DEF IInv, TypeOK, StoreReadable
    <2>2. QED
      BY <2>1, StoreSteps DEF IInv, StoreStep
  <1>2. QED
    BY <1>1, Invariance, PTL DEF Spec, StoreProgress

(* The scheduler implements the schedule whose operations are atomic.      *)
LEMMA SameState == State = Schedule!State /\ Absent = Schedule!Absent
  BY DEF State, Schedule!State, Recoveries, Schedule!Recoveries, Absent,
         Schedule!Absent, Schedule0, Schedule!Schedule0, NoRecovery,
         Schedule!NoRecovery, Never, Schedule!Never

LEMMA SameOperation ==
  ASSUME NEW s, NEW t
  PROVE  Operation(s, t) => Schedule!Operation(s, t)
  <1> USE DEF Never, Schedule!Never, NoRecovery, Schedule!NoRecovery,
              Decode, Schedule!Decode
  <1>1. Readable(s) => Schedule!Readable(s)
    BY DEF Readable, Schedule!Readable, ValidRecovery, Schedule!ValidRecovery
  <1>2. Initialized(s, t) => Schedule!Initialized(s, t)
    BY SameState DEF Initialized, Schedule!Initialized, FreshState,
       Schedule!FreshState, Schedule0, Schedule!Schedule0
  <1>3. Admitted(s, t) => Schedule!Admitted(s, t)
    BY <1>1 DEF Admitted, Schedule!Admitted, Admission, Schedule!Admission
  <1>4. Extended(s, t) => Schedule!Extended(s, t)
    BY DEF Extended, Schedule!Extended, Extension, Schedule!Extension
  <1>5. Completed(s, t) => Schedule!Completed(s, t)
    BY DEF Completed, Schedule!Completed, Completion, Schedule!Completion
  <1>6. Recovered(s, t) => Schedule!Recovered(s, t)
    BY <1>1 DEF Recovered, Schedule!Recovered, Resolution, Schedule!Resolution
  <1>7. QED
    BY <1>2, <1>3, <1>4, <1>5, <1>6 DEF Operation, Schedule!Operation

(* With any invocations, crashes and late writes, each step of the         *)
(* protocol is one atomic operation of the schedule, a loss of power of    *)
(* it, or no step at all.                                                  *)
THEOREM Implementation == Spec => ImplementsSchedule
  <1>1. Init => Schedule!Init
    BY SameState DEF Init, Schedule!Init
  <1>2. IInv /\ IInv' /\ [Next]_vars => [Schedule!Next]_<<store, disk>>
    <2> SUFFICES ASSUME IInv, IInv', [Next]_vars
                 PROVE  [Schedule!Next]_<<store, disk>>
      OBVIOUS
    <2>1. store' \in Schedule!State
      BY SameState DEF IInv, TypeOK
    <2>2. QED
      BY <2>1, StoreSteps, SameOperation
      DEF IInv, StoreStep, Schedule!Next, Schedule!Commit, Schedule!PowerLoss
  <1>3. QED
    BY <1>1, <1>2, Invariance, PTL DEF Spec, ImplementsSchedule, Schedule!Spec

-----------------------------------------------------------------------------
(* Runs, recoveries and what operators confirmed.                          *)

(* A request of p is on its way, and a recovery among them.                *)
Pending(p) == pc[p] \in Writing \/ link[p] = "sent"
Resolving(p) == Pending(p) /\ Recovered(ver[p], mem[p])

(* In the content s the run of p is over.                                  *)
Settled(s, p) == s.last > Taken(p) \/ ~s.inFlight

(* A run holds the state of its own admission, extends and completes only  *)
(* that one, and holds every deadline it was told.                         *)
RunInv ==
  \A p \in Procs :
    /\ attempt[p] # Never => mem[p].last = attempt[p]
    /\ pc[p] \in {"fetching", "extending", "completing", "returned"} =>
         attempt[p] # Never
    /\ pc[p] \in {"completing", "returned"} => ~mem[p].inFlight
    /\ Pending(p) =>
         IF attempt[p] = Never
         THEN \/ Initialized(ver[p], mem[p]) \/ Admitted(ver[p], mem[p])
              \/ Recovered(ver[p], mem[p])
         ELSE Extended(ver[p], mem[p]) \/ Completed(ver[p], mem[p])
    /\ learned[p] <= mem[p].next
    /\ attempt[p] = Never => learned[p] = Never

(* The run of p was not resolved: no recovery of it was committed, and no  *)
(* completion, unless somebody else completed a run of the same admission. *)
Unresolved(p) ==
  /\ Taken(p) # Never /\ Taken(p) \notin discarded
  /\ mem[p].inFlight \/ Taken(p) \notin completed

(* Such a run is in flight in every content the store may have after a     *)
(* crash.                                                                  *)
ClaimInv ==
  \A p \in Procs :
    Unresolved(p) => \A s \in disk \cup {store} : ~Settled(s, p)

(* With local custody so is the run of the process that has the lock.      *)
HeldInv ==
  ~Remote => \A p \in Procs :
    (pc[p] \in Active /\ attempt[p] # Never) =>
      \A s \in disk \cup {store} : ~Settled(s, p)

(* With remote custody the store has passed what a recovery resolved and   *)
(* what a run completed, and no run is in both.                            *)
DiscardInv ==
  Remote =>
    /\ \A d \in discarded : d <= store.last /\ (store.last > d \/ ~store.inFlight)
    /\ \A p \in Procs :
         (attempt[p] # Never /\ ~mem[p].inFlight /\ (link[p] = "ok" \/ pc[p] = "returned"))
           => attempt[p] \notin discarded /\ Settled(store, p)
    /\ \A r \in Procs : Resolving(r) => mem[r].last <= store.last

(* What operators confirmed truly: the run that a recovery resolved or     *)
(* will resolve had stopped ...                                            *)
StopInv ==
  "stopped" \notin untrue =>
    \A p \in Procs : Taken(p) # Never =>
      /\ (Remote /\ Taken(p) \in discarded) => pc[p] \in Ended
      /\ \A r \in Procs : (Resolving(r) /\ Taken(p) = mem[r].last) => pc[p] \in Ended

(* ... and the deadlines it was told are part of what the store holds once *)
(* it is over, and of every later admission.                               *)
WindowInv ==
  untrue = {} =>
    \A p \in Procs : Taken(p) # Never =>
      /\ \A r \in Procs :
           (Resolving(r) /\ Taken(p) = mem[r].last) => learned[p] <= mem[r].next
      /\ \A s \in disk \cup {store} : Settled(s, p) => learned[p] <= s.next
      /\ \A q \in Procs : Taken(q) > Taken(p) => Taken(q) >= learned[p]

(* What every step keeps of the runs.                                      *)
RunsInv ==
  RunInv /\ ClaimInv /\ HeldInv /\ DiscardInv /\ StopInv /\ WindowInv

-----------------------------------------------------------------------------
(* The steps, by what they do to the runs.                                 *)
Others(p) ==
  \A q \in Procs \ {p} :
    UNCHANGED <<pc[q], mem[q], ver[q], link[q], attempt[q], learned[q]>>

(* An invocation begins to write.                                          *)
Begins(p) ==
  /\ Others(p) /\ UNCHANGED <<store, disk, attempt, learned, completed, discarded>>
  /\ pc[p] = "new" /\ link'[p] # "ok"
  /\ \/ pc'[p] = "initializing" /\ Initialized(ver'[p], mem'[p]) /\ UNCHANGED untrue
     \/ pc'[p] = "admitting" /\ Admitted(ver'[p], mem'[p]) /\ UNCHANGED untrue
     \/ /\ pc'[p] = "recovering" /\ Recovered(ver'[p], mem'[p])
        /\ mem'[p].last = store.last /\ store.inFlight
        /\ untrue' = untrue \cup Untrue(store, mem'[p].next)

(* The run of p was told a deadline, or begins to extend or complete.      *)
Works(p) ==
  /\ Others(p) /\ UNCHANGED <<store, disk, attempt, completed, discarded, untrue>>
  /\ pc[p] = "fetching" /\ mem[p].inFlight /\ mem'[p].last = mem[p].last
  /\ \/ /\ pc'[p] = "fetching" /\ UNCHANGED <<mem[p], ver[p], link[p]>>
        /\ learned'[p] <= mem[p].next
     \/ /\ pc'[p] = "extending" /\ Extended(ver'[p], mem'[p]) /\ link'[p] # "ok"
        /\ learned'[p] <= mem'[p].next
     \/ /\ pc'[p] = "completing" /\ Completed(ver'[p], mem'[p]) /\ link'[p] # "ok"
        /\ learned'[p] = learned[p] /\ mem'[p].next = mem[p].next

(* The commit of p is known to have succeeded.                             *)
Succeeds(p) ==
  \/ /\ pc[p] = "admitting" /\ pc'[p] = "fetching"
     /\ attempt'[p] = mem[p].last
  \/ /\ pc[p] = "extending" /\ pc'[p] = "fetching" /\ attempt'[p] = attempt[p]
  \/ /\ pc[p] = "completing" /\ pc'[p] = "returned" /\ attempt'[p] = attempt[p]
  \/ /\ pc[p] \in {"initializing", "recovering"} /\ pc'[p] = "done"
     /\ attempt'[p] = attempt[p]

(* What p wrote replaces the content of the store.                         *)
Stores(p) ==
  /\ Others(p) /\ UNCHANGED <<mem, ver, learned, untrue>>
  /\ Pending(p) /\ store = ver[p] /\ store' = mem[p]
  /\ completed' = IF Completed(store, mem[p])
                  THEN completed \cup {mem[p].last} ELSE completed
  /\ discarded' = IF mem[p].count > store.count
                  THEN discarded \cup {mem[p].last} ELSE discarded
  /\ \/ /\ Remote /\ disk' = {store'} /\ link[p] = "sent" /\ link'[p] = "ok"
        /\ pc'[p] = pc[p] /\ attempt'[p] = attempt[p]
     \/ /\ ~Remote /\ disk' = {store'} /\ pc[p] \in Writing /\ link'[p] = link[p]
        /\ Succeeds(p)
     \/ /\ ~Remote /\ disk' = disk \cup {store'} /\ pc[p] \in Writing
        /\ link'[p] = link[p] /\ pc'[p] = "failed" /\ attempt'[p] = attempt[p]

(* A loss of power ends every local invocation.                            *)
Loses ==
  /\ ~Remote /\ store' \in disk /\ disk' = {store'}
  /\ completed' = Behind(store', completed) /\ discarded' = Behind(store', discarded)
  /\ UNCHANGED <<mem, ver, link, attempt, learned, untrue>>
  /\ \A p \in Procs : pc'[p] = IF pc[p] \in Active THEN "failed" ELSE pc[p]

(* The runs, the store and the history stay: an answer arrives, a request  *)
(* is refused, an invocation fails, or nothing happens to either.          *)
Rests ==
  /\ UNCHANGED <<store, disk, mem, ver, learned, completed, discarded, untrue>>
  /\ \/ \E p \in Procs :
          /\ Others(p) /\ Remote /\ pc[p] \in Writing
          /\ link[p] = "ok" /\ link'[p] = "none" /\ Succeeds(p)
     \/ \E p \in Procs :
          /\ Others(p) /\ attempt'[p] = attempt[p]
          /\ \/ pc'[p] = "failed" /\ link'[p] = link[p]
             \/ pc'[p] = pc[p] /\ link[p] = "sent" /\ link'[p] = "conflict"
     \/ UNCHANGED <<pc, link, attempt>>

(* Every step of the protocol is of one of these kinds.                    *)
LEMMA RunSteps ==
  ASSUME IInv, [Next]_vars
  PROVE  \/ \E p \in Procs : Begins(p) \/ Works(p) \/ Stores(p)
         \/ Loses \/ Rests
  <1> USE DEF IInv
  <1>1. ASSUME NEW p \in Procs, NEW base, NEW s, NEW where, Write(p, base, s, where),
               UNCHANGED attempt, \A q \in Procs \ {p} : learned'[q] = learned[q]
        PROVE  /\ Others(p) /\ pc'[p] = where /\ mem'[p] = s /\ ver'[p] = base
               /\ link'[p] # "ok"
    BY <1>1 DEF Write, Others, TypeOK
  <1>2. ASSUME NEW p \in Procs, Initialize(p) PROVE Begins(p)
    <2>1. PICK reg \in Registries : Write(p, Absent, FreshState(reg), "initializing")
      BY <1>2 DEF Initialize
    <2>2. UNCHANGED <<store, disk, review, history>> /\ pc[p] = "new"
      BY <1>2 DEF Initialize
    <2>3. Initialized(Absent, FreshState(reg))
      BY DEF Initialized, FreshState, Schedule0
    <2>4. QED
      BY <1>1, <2>1, <2>2, <2>3 DEF Begins, history, resolved
  <1>3. ASSUME NEW p \in Procs, Admit(p) PROVE Begins(p)
    <2>1. PICK reg \in Registries, now \in Time :
            /\ Admissible(Decode(store), reg, now)
            /\ Write(p, store, Admission(Decode(store), now), "admitting")
      BY <1>3 DEF Admit
    <2>2. UNCHANGED <<store, disk, review, history>> /\ pc[p] = "new"
      BY <1>3 DEF Admit
    <2>3. Admitted(store, Admission(Decode(store), now))
      BY <1>3, <2>1, AdmittedWrite DEF Admit
    <2>4. QED
      BY <1>1, <2>1, <2>2, <2>3 DEF Begins, history, resolved
  <1>4. ASSUME NEW p \in Procs, Recover(p) PROVE Begins(p)
    <2>1. PICK now \in Time, deadline \in Time :
            /\ Recoverable(Decode(store), now, deadline)
            /\ untrue' = untrue \cup Untrue(review, deadline)
            /\ Write(p, store, Resolution(Decode(store), now, deadline),
                     "recovering")
      BY <1>4 DEF Recover
    <2>2. /\ UNCHANGED <<store, disk, review, attempt, learned, completed, discarded>>
          /\ pc[p] = "new" /\ Readable(store)
      BY <1>4 DEF Recover, resolved
    <2> DEFINE t == Resolution(Decode(store), now, deadline)
    <2>3. Recovered(store, t)
      BY <2>1, <2>2 DEF Recovered, Recoverable, Resolution, Decode
    <2>4. t.last = store.last /\ t.next = deadline
      BY DEF Resolution, Decode
    <2>5. /\ review = Decode(store) /\ store.inFlight
          /\ Untrue(review, deadline) = Untrue(store, t.next)
      BY <2>1, <2>4 DEF Recoverable, Untrue, Decode
    <2> HIDE DEF t
    <2>6. QED
      BY <1>1, <2>1, <2>2, <2>3, <2>4, <2>5 DEF Begins, t
  <1>5. ASSUME NEW p \in Procs, pc[p] = "fetching" PROVE mem[p].inFlight /\ mem[p] \in State
    BY <1>5 DEF WriteInv, TypeOK
  <1>6. ASSUME NEW p \in Procs, Throttled(p) PROVE Works(p)
    <2>1. PICK retry \in Time \ {Never} :
            /\ learned' = [learned EXCEPT ![p] = retry]
            /\ IF retry > mem[p].next
               THEN Write(p, mem[p], Extension(mem[p], retry), "extending")
               ELSE UNCHANGED <<pc, mem, ver, link>>
      BY <1>6 DEF Throttled
    <2>2. /\ UNCHANGED <<store, disk, attempt, completed, discarded, untrue>>
          /\ pc[p] = "fetching"
          /\ learned'[p] = retry /\ \A q \in Procs \ {p} : learned'[q] = learned[q]
          /\ retry \in Nat /\ mem[p].next \in Nat
      BY <1>6, <2>1, NatAssumption DEF Throttled, custody, resolved, TypeOK, State, Time
    <2>3. CASE retry > mem[p].next
      <3>1. Extended(mem[p], Extension(mem[p], retry)) /\ Extension(mem[p], retry).next = retry
            /\ Extension(mem[p], retry).last = mem[p].last
        BY <1>5, <2>2, <2>3 DEF Extended, Extension
      <3>2. QED
        BY <1>1, <1>5, <2>1, <2>2, <2>3, <3>1 DEF Works
    <2>4. CASE ~(retry > mem[p].next)
      BY <1>5, <2>1, <2>2, <2>4 DEF Works, Others
    <2>5. QED
      BY <2>3, <2>4
  <1>7. ASSUME NEW p \in Procs, Complete(p) PROVE Works(p)
    <2>1. /\ Write(p, mem[p], Completion(mem[p]), "completing")
          /\ UNCHANGED <<store, disk, history>> /\ pc[p] = "fetching"
      BY <1>7 DEF Complete, custody
    <2>2. /\ Completed(mem[p], Completion(mem[p])) /\ Completion(mem[p]).last = mem[p].last
          /\ Completion(mem[p]).next = mem[p].next
      BY <1>5, <2>1 DEF Completed, Completion
    <2>3. QED
      BY <1>1, <1>5, <2>1, <2>2 DEF Works, history, resolved
  <1>8. ASSUME NEW p \in Procs, Continue(p), pc[p] \in Writing
        PROVE  /\ Succeeds(p)
               /\ \A q \in Procs \ {p} : UNCHANGED <<pc[q], attempt[q]>>
    BY <1>8 DEF Continue, End, Succeeds, TypeOK, Writing
  <1>9. ASSUME NEW p \in Procs, SaveLocal(p) PROVE Stores(p)
    BY <1>8, <1>9 DEF SaveLocal, Replace, Resolves, Stores, Others, Pending, LocalInv
  <1>10. ASSUME NEW p \in Procs, SaveLocalLate(p) PROVE Stores(p)
    BY <1>10 DEF SaveLocalLate, Replace, Resolves, End, Stores, Others, Pending, LocalInv, TypeOK
  <1>11. ASSUME NEW p \in Procs, ApplyPut(p) PROVE Stores(p)
    <2>1. Remote
      BY <1>11 DEF ApplyPut, LocalInv
    <2>2. QED
      BY <1>11, <2>1 DEF ApplyPut, Replace, Resolves, Stores, Others, Pending, TypeOK
  <1>12. CASE PowerLoss
    BY <1>12 DEF PowerLoss, Loses, history, resolved
  <1>13. ASSUME NEW p \in Procs, Receipt(p) PROVE Rests
    <2>1. Remote
      BY <1>13 DEF Receipt, LocalInv
    <2>2. QED
      BY <1>8, <1>13, <2>1 DEF Receipt, resolved, Rests, Others, TypeOK
  <1>14. ASSUME NEW p \in Procs, RefusePut(p) PROVE Rests
    BY <1>14 DEF RefusePut, Rests, Others, TypeOK, custody, history, resolved
  <1>15. ASSUME NEW p \in Procs, Fail(p) PROVE Rests
    BY <1>15 DEF Fail, End, Rests, Others, TypeOK, history, resolved
  <1>16. ASSUME NEW p \in Procs, Fetch(p) PROVE Rests
    BY <1>16 DEF Fetch, Rests, custody, history, resolved
  <1>17. ASSUME NEW d \in Dirs, Inspect(d) PROVE Rests
    BY <1>17 DEF Inspect, Rests, local, history, resolved
  <1>18. UNCHANGED vars => Rests
    BY DEF vars, Rests, custody, local, history, resolved
  <1>19. QED
    BY <1>2, <1>3, <1>4, <1>6, <1>7, <1>9, <1>10, <1>11, <1>12, <1>13, <1>14, <1>15,
       <1>16, <1>17, <1>18 DEF Next

(* What tells the operations apart.                                        *)
LEMMA Kinds ==
  ASSUME NEW s \in State, NEW t \in State
  PROVE  /\ Initialized(s, t) =>
              /\ ~s.inFlight /\ ~t.inFlight /\ s.last = Never /\ t.last = Never
              /\ s.next = Never /\ t.count = s.count
         /\ Admitted(s, t) =>
              /\ ~s.inFlight /\ t.inFlight /\ t.last > s.last /\ t.last >= s.next
              /\ t.next >= s.next /\ t.count = s.count
         /\ Extended(s, t) =>
              /\ s.inFlight /\ t.inFlight /\ t.last = s.last
              /\ t.next >= s.next /\ t.count = s.count
         /\ Completed(s, t) =>
              /\ s.inFlight /\ ~t.inFlight /\ t.last = s.last
              /\ t.next = s.next /\ t.count = s.count
         /\ Recovered(s, t) =>
              /\ s.inFlight /\ ~t.inFlight /\ t.last = s.last
              /\ t.next >= s.next /\ t.count = s.count + 1
  <1>1. Initialized(s, t) =>
          /\ ~s.inFlight /\ ~t.inFlight /\ s.last = Never /\ t.last = Never
          /\ s.next = Never /\ t.count = s.count
    BY DEF Initialized, Absent, FreshState, Schedule0
  <1>2. Admitted(s, t) =>
          /\ ~s.inFlight /\ t.inFlight /\ t.last > s.last /\ t.last >= s.next
          /\ t.next >= s.next /\ t.count = s.count
    BY PollAssumption DEF Admitted, Admission, Decode, Readable, State, Never
  <1>3. Extended(s, t) =>
          /\ s.inFlight /\ t.inFlight /\ t.last = s.last
          /\ t.next >= s.next /\ t.count = s.count
    BY DEF Extended, Extension, State
  <1>4. Completed(s, t) =>
          /\ s.inFlight /\ ~t.inFlight /\ t.last = s.last
          /\ t.next = s.next /\ t.count = s.count
    BY DEF Completed, Completion, State
  <1>5. Recovered(s, t) =>
          /\ s.inFlight /\ ~t.inFlight /\ t.last = s.last
          /\ t.next >= s.next /\ t.count = s.count + 1
    BY DEF Recovered, Resolution, Decode, State
  <1>6. QED
    BY <1>1, <1>2, <1>3, <1>4, <1>5

(* Everything that is compared is a number.                                *)
LEMMA RunTypes ==
  ASSUME TypeOK
  PROVE  /\ \A s \in disk \cup {store} :
              /\ s \in State /\ s.last \in Nat /\ s.next \in Nat /\ s.count \in Nat
              /\ s.inFlight \in BOOLEAN
         /\ \A p \in Procs :
              /\ mem[p] \in State /\ ver[p] \in State
              /\ mem[p].last \in Nat /\ mem[p].next \in Nat /\ mem[p].count \in Nat
              /\ mem[p].inFlight \in BOOLEAN
              /\ attempt[p] \in Nat /\ learned[p] \in Nat /\ Taken(p) \in Nat
  BY CountAssumption, TakenType DEF TypeOK, State

(* The admission that the store took from p, before and after a step.      *)
LEMMA TakenSteps ==
  ASSUME IInv, RunInv, NEW p \in Procs
  PROVE  /\ Taken(p) # Never => Taken(p) = mem[p].last
         /\ attempt[p] # Never => Taken(p) = attempt[p]
         /\ pc[p] = "new" => Taken(p) = Never
         /\ Begins(p) \/ Works(p) => \A q \in Procs : Taken(q)' = Taken(q)
         /\ Stores(p) =>
              /\ \A q \in Procs \ {p} : Taken(q)' = Taken(q)
              /\ Taken(p)' = Taken(p) \/ (/\ Taken(p)' = mem[p].last /\ learned[p] = Never
                                          /\ Admitted(store, store') /\ disk' = {store'}
                                          /\ pc[p] \in Writing /\ pc'[p] \notin Ended)
         /\ Loses => Taken(p)' = Taken(p)
         /\ Rests => Taken(p)' = Taken(p) \/ Taken(p)' = Never
  <1> USE DEF IInv
  <1>1. /\ Taken(p) # Never => Taken(p) = mem[p].last
        /\ attempt[p] # Never => Taken(p) = attempt[p]
        /\ pc[p] = "new" => Taken(p) = Never
    BY DEF Taken, RunInv, AdmissionInv, Unvisited
  <1>2. Others(p) => \A q \in Procs \ {p} : Taken(q)' = Taken(q)
    BY DEF Others, Taken
  <1>3. Begins(p) => Taken(p)' = Taken(p)
    BY <1>1 DEF Begins, Taken, AdmissionInv, Unvisited
  <1>4. Works(p) => Taken(p)' = Taken(p)
    BY DEF Works, Taken, RunInv
  <1>5. ASSUME Stores(p)
        PROVE  Taken(p)' = Taken(p) \/ (/\ Taken(p)' = mem[p].last /\ learned[p] = Never
                                          /\ Admitted(store, store') /\ disk' = {store'}
                                          /\ pc[p] \in Writing /\ pc'[p] \notin Ended)
    <2>1. CASE pc[p] = "admitting"
      <3>1. attempt[p] = Never /\ learned[p] = Never
        BY <2>1 DEF AdmissionInv, Unvisited, RunInv
      <3>2. Admitted(store, store')
        BY <1>5, <2>1 DEF Stores, WriteInv
      <3>3. CASE pc'[p] = "failed"
        BY <1>5, <2>1, <3>1, <3>3 DEF Stores, Succeeds, Taken, LocalInv
      <3>4. CASE pc'[p] # "failed"
        <4>1. mem'[p] = mem[p] /\ (attempt'[p] = mem[p].last \/ attempt'[p] = Never)
              /\ (attempt'[p] = Never => \/ pc'[p] = "admitting" /\ link'[p] = "ok"
                                         \/ mem[p].last = Never)
              /\ disk' = {store'} /\ pc'[p] \in {"admitting", "fetching"}
          BY <1>5, <2>1, <3>1, <3>4 DEF Stores, Succeeds
        <4>2. Taken(p)' = mem[p].last
          BY <4>1 DEF Taken
        <4>3. QED
          BY <2>1, <3>1, <3>2, <4>1, <4>2 DEF Writing, Ended
      <3>5. QED
        BY <3>3, <3>4
    <2>2. CASE pc[p] # "admitting"
      BY <1>5, <2>2 DEF Stores, Succeeds, Taken
    <2>3. QED
      BY <2>1, <2>2
  <1>6. Loses => Taken(p)' = Taken(p)
    BY DEF Loses, LocalInv, Taken
  <1>7. ASSUME Rests PROVE Taken(p)' = Taken(p) \/ Taken(p)' = Never
    <2>1. CASE UNCHANGED <<pc, link, attempt>>
      BY <1>7, <2>1 DEF Rests, Taken
    <2>2. ASSUME NEW r \in Procs, Others(r), mem' = mem,
                 link[r] = "ok", link'[r] = "none", Succeeds(r)
          PROVE  Taken(p)' = Taken(p)
      <3>1. CASE p = r
        <4>1. pc[r] = "admitting" => attempt[r] = Never
          BY DEF AdmissionInv, Unvisited
        <4>2. QED
          BY <2>2, <3>1, <4>1 DEF Succeeds, Taken
      <3>2. QED
        BY <2>2, <3>1 DEF Others, Taken
    <2>3. ASSUME NEW r \in Procs, Others(r), mem' = mem, attempt'[r] = attempt[r],
                 \/ pc'[r] = "failed" /\ link'[r] = link[r]
                 \/ pc'[r] = pc[r] /\ link[r] = "sent" /\ link'[r] = "conflict"
          PROVE  Taken(p)' = Taken(p) \/ Taken(p)' = Never
      BY <2>3 DEF Others, Taken
    <2>4. QED
      BY <1>7, <2>1, <2>2, <2>3 DEF Rests
  <1>8. (Begins(p) \/ Works(p) \/ Stores(p)) => Others(p)
    BY DEF Begins, Works, Stores
  <1>9. QED
    BY <1>1, <1>2, <1>3, <1>4, <1>5, <1>6, <1>7, <1>8

(* Every step keeps a run with its own admission and its deadlines.        *)
LEMMA RunNext ==
  ASSUME IInv, TypeOK', RunInv, [Next]_vars
  PROVE  RunInv'
  <1> USE DEF IInv
  <1>1. ASSUME NEW p \in Procs, Begins(p) PROVE RunInv'
    <2>1. attempt[p] = Never /\ learned[p] = Never /\ mem'[p].next \in Nat
      BY <1>1 DEF Begins, AdmissionInv, Unvisited, RunInv, TypeOK, State
    <2>2. \A q \in Procs \ {p} : Pending(q)' = Pending(q)
      BY <1>1 DEF Begins, Others, Pending
    <2>3. learned'[p] = learned[p] /\ attempt'[p] = Never /\ learned'[p] <= mem'[p].next
      BY <1>1, <2>1 DEF Begins, Never, TypeOK
    <2>4. QED
      BY <1>1, <2>1, <2>2, <2>3 DEF RunInv, Begins, Others
  <1>2. ASSUME NEW p \in Procs, Works(p) PROVE RunInv'
    <2>1. attempt[p] # Never /\ attempt'[p] = attempt[p] /\ mem'[p].last = attempt[p]
      BY <1>2 DEF Works, RunInv
    <2>2. \A q \in Procs \ {p} : Pending(q)' = Pending(q)
      BY <1>2 DEF Works, Others, Pending
    <2>3. learned'[p] <= mem'[p].next
      BY <1>2 DEF Works, RunInv
    <2>4. Pending(p)' => Extended(ver'[p], mem'[p]) \/ Completed(ver'[p], mem'[p])
      BY <1>2, <2>1 DEF Works, Pending, RunInv, Writing
    <2>5. pc'[p] \in {"completing", "returned"} => ~mem'[p].inFlight
      <3>1. mem'[p] \in State /\ ver'[p] \in State
        BY DEF TypeOK
      <3>2. QED
        BY <1>2, <3>1, Kinds DEF Works
    <2>6. QED
      BY <1>2, <2>1, <2>2, <2>3, <2>4, <2>5 DEF RunInv, Works, Others
  <1>3. ASSUME NEW p \in Procs, Others(p), UNCHANGED <<mem, ver, learned>>,
               \/ Succeeds(p) /\ link'[p] # "sent"
               \/ attempt'[p] = attempt[p] /\ pc'[p] \in {pc[p], "failed"}
                  /\ (link'[p] = "sent" => link[p] = "sent")
        PROVE  RunInv'
    <2>1. \A q \in Procs \ {p} : Pending(q)' = Pending(q)
      BY <1>3 DEF Others, Pending
    <2>2. CASE Succeeds(p) /\ link'[p] # "sent"
      <3>1. ~Pending(p)'
        BY <2>2 DEF Succeeds, Pending, Writing
      <3>2. pc[p] = "admitting" => mem[p].last # Never
        BY DEF WriteInv, Admitted
      <3>3. /\ attempt'[p] # Never => mem[p].last = attempt'[p]
            /\ pc'[p] \in {"fetching", "extending", "completing", "returned"} =>
                 attempt'[p] # Never
            /\ pc'[p] \in {"completing", "returned"} => ~mem[p].inFlight
            /\ attempt'[p] = Never => learned[p] = Never
        BY <2>2, <3>2 DEF Succeeds, RunInv
      <3>4. QED
        BY <1>3, <2>1, <3>1, <3>3 DEF RunInv, Others
    <2>3. CASE /\ attempt'[p] = attempt[p] /\ pc'[p] \in {pc[p], "failed"}
               /\ (link'[p] = "sent" => link[p] = "sent")
      <3>1. Pending(p)' => Pending(p)
        BY <2>3 DEF Pending, Writing
      <3>2. QED
        BY <1>3, <2>1, <2>3, <3>1 DEF RunInv, Others
    <2>4. QED
      BY <1>3, <2>2, <2>3
  <1>4. ASSUME NEW p \in Procs, Stores(p) PROVE RunInv'
    <2>1. ~Remote => link[p] # "sent"
      BY DEF LocalInv
    <2>2. QED
      BY <1>3, <1>4, <2>1 DEF Stores
  <1>5. CASE Loses
    <2>1. \A q \in Procs : Pending(q)' => Pending(q)
      BY <1>5 DEF Loses, Pending, Writing, Active
    <2>2. \A q \in Procs : pc'[q] \in {pc[q], "failed"}
      BY <1>5 DEF Loses
    <2>3. QED
      BY <1>5, <2>1, <2>2 DEF RunInv, Loses
  <1>6. CASE Rests
    <2>1. CASE UNCHANGED <<pc, link, attempt>>
      BY <1>6, <2>1 DEF Rests, RunInv, Pending
    <2>2. QED
      BY <1>3, <1>6, <2>1 DEF Rests
  <1>7. QED
    BY <1>1, <1>2, <1>4, <1>5, <1>6, RunSteps

(* The store takes a content while the run of x is in flight there: only   *)
(* its own completion or its recovery settles it.                          *)
LEMMA StoreUnsettled ==
  ASSUME IInv, RunInv, NEW p \in Procs, NEW x \in Procs, Stores(p),
         Taken(x) # Never, ~Settled(store, x)
  PROVE  /\ store.last = Taken(x) /\ store.inFlight
         /\ \/ Extended(store, store') /\ store'.last = Taken(x) /\ store'.inFlight
            \/ Completed(store, store') /\ p = x /\ Taken(x) \in completed'
            \/ Resolving(p) /\ mem[p].last = Taken(x) /\ Taken(x) \in discarded'
  <1> USE DEF IInv
  <1>1. /\ store \in State /\ store' = mem[p] /\ mem[p] \in State /\ store = ver[p]
        /\ store.last \in Nat /\ Taken(x) \in Nat /\ Taken(x) <= store.last
        /\ mem[p].count \in Nat /\ store.count \in Nat
    BY RunTypes DEF Stores, AdmissionInv
  <1>2. store.last = Taken(x) /\ store.inFlight
    BY <1>1 DEF Settled
  <1>3. Pending(p)
    BY DEF Stores
  <1>4. CASE attempt[p] = Never
    <2>1. Recovered(store, mem[p])
      BY <1>1, <1>2, <1>3, <1>4, Kinds DEF RunInv
    <2>2. mem[p].last = store.last /\ mem[p].count > store.count
      BY <1>1, <2>1, Kinds
    <2>3. QED
      BY <1>1, <1>2, <1>3, <2>1, <2>2 DEF Stores, Resolving
  <1>5. CASE attempt[p] # Never
    <2>1. Extended(store, mem[p]) \/ Completed(store, mem[p])
      BY <1>1, <1>3, <1>5 DEF RunInv
    <2>2. CASE Extended(store, mem[p])
      BY <1>1, <1>2, <2>2, Kinds
    <2>3. CASE Completed(store, mem[p])
      <3>1. mem[p].last = Taken(x) /\ mem[p].last = attempt[p] /\ Taken(p) = attempt[p]
        <4>1. mem[p].last = store.last
          BY <1>1, <2>3, Kinds
        <4>2. mem[p].last = attempt[p]
          BY <1>5 DEF RunInv
        <4>3. Taken(p) = attempt[p]
          BY <1>5, TakenSteps
        <4>4. QED
          BY <1>2, <4>1, <4>2, <4>3
      <3>2. p = x
        <4>1. p # x => Taken(p) >= Taken(x) + Poll \/ Taken(x) >= Taken(p) + Poll
          BY <3>1 DEF AdmissionInv
        <4>2. Taken(p) = Taken(x) /\ Taken(x) \in Nat
          BY <1>1, <3>1
        <4>3. QED
          BY <4>1, <4>2, PollAssumption
      <3>3. Taken(x) \in completed'
        BY <1>1, <2>3, <3>1 DEF Stores
      <3>4. QED
        BY <1>1, <1>2, <2>3, <3>2, <3>3
    <2>4. QED
      BY <2>1, <2>2, <2>3
  <1>6. QED
    BY <1>4, <1>5

(* Every step keeps a run in flight until it is resolved.                  *)
LEMMA ClaimNext ==
  ASSUME IInv, TypeOK', RunInv, ClaimInv, [Next]_vars
  PROVE  ClaimInv'
  <1>1. ASSUME NEW p \in Procs, Begins(p) \/ Works(p) PROVE ClaimInv'
    <2>1. \A q \in Procs : Taken(q)' = Taken(q)
      BY <1>1, TakenSteps
    <2>2. UNCHANGED <<store, disk, completed, discarded>>
      BY <1>1 DEF Begins, Works
    <2>3. \A q \in Procs : (Taken(q) # Never /\ mem'[q].inFlight) => mem[q].inFlight
      BY <1>1, TakenSteps DEF Begins, Works, Others
    <2>4. QED
      BY <2>1, <2>2, <2>3 DEF ClaimInv, Unresolved, Settled
  <1>2. ASSUME NEW p \in Procs, Stores(p) PROVE ClaimInv'
    <2> SUFFICES ASSUME NEW x \in Procs, Unresolved(x)', NEW s \in disk' \cup {store'}
                 PROVE  ~Settled(s, x)'
      BY DEF ClaimInv
    <2>1. /\ mem' = mem /\ store' = mem[p] /\ disk' \subseteq disk \cup {store'}
          /\ completed \subseteq completed' /\ discarded \subseteq discarded'
      BY <1>2 DEF Stores
    <2>2. CASE Taken(x)' = Taken(x)
      <3>1. Unresolved(x)
        BY <2>1, <2>2 DEF Unresolved
      <3>2. \A t \in disk \cup {store} : ~Settled(t, x)
        BY <3>1 DEF ClaimInv
      <3>3. CASE s = store'
        <4>1. \/ store'.last = Taken(x) /\ store'.inFlight
              \/ Completed(store, store') /\ p = x /\ Taken(x) \in completed'
          BY <1>2, <2>2, <3>1, <3>2, StoreUnsettled DEF Unresolved
        <4>2. CASE Completed(store, store') /\ p = x /\ Taken(x) \in completed'
          <5>1. ~mem[x].inFlight
            BY <2>1, <4>2, RunTypes, Kinds DEF IInv
          <5>2. QED
            BY <2>1, <2>2, <4>2, <5>1 DEF Unresolved
        <4>3. QED
          BY <2>2, <3>3, <4>1, <4>2, RunTypes DEF Settled, IInv
      <3>4. QED
        BY <2>1, <2>2, <3>2, <3>3 DEF Settled
    <2>3. CASE Taken(x)' # Taken(x)
      <3>1. x = p /\ Taken(x)' = mem[p].last /\ Admitted(store, store') /\ disk' = {store'}
        BY <1>2, <2>3, TakenSteps DEF Unresolved
      <3>2. s = store' /\ store'.inFlight /\ store'.last = Taken(x)' /\ store'.last \in Nat
        BY <2>1, <3>1, RunTypes, Kinds DEF IInv
      <3>3. QED
        BY <3>2 DEF Settled
    <2>4. QED
      BY <2>2, <2>3
  <1>3. CASE Rests
    <2>1. \A q \in Procs : Taken(q)' \in {Taken(q), Never}
      BY <1>3, TakenSteps
    <2>2. UNCHANGED <<mem, store, disk, completed, discarded>>
      BY <1>3 DEF Rests
    <2>3. QED
      BY <2>1, <2>2 DEF ClaimInv, Unresolved, Settled
  <1>4. CASE Loses
    <2> SUFFICES ASSUME NEW x \in Procs, Unresolved(x)', NEW s \in disk' \cup {store'}
                 PROVE  ~Settled(s, x)'
      BY DEF ClaimInv
    <2>1. /\ s = store' /\ s \in disk /\ mem' = mem
          /\ completed' = Behind(s, completed) /\ discarded' = Behind(s, discarded)
      BY <1>4 DEF Loses
    <2>2. Taken(x)' = Taken(x)
      BY <1>4, TakenSteps
    <2>3. Taken(x) <= s.last /\ Taken(x) \in Nat /\ s.last \in Nat
      BY <2>1, RunTypes DEF IInv, AdmissionInv
    <2>4. CASE Unresolved(x)
      BY <2>1, <2>2, <2>4 DEF ClaimInv, Settled
    <2>5. CASE ~Unresolved(x)
      <3>1. \/ Taken(x) \in completed /\ Taken(x) \notin completed'
            \/ Taken(x) \in discarded /\ Taken(x) \notin discarded'
        BY <2>1, <2>2, <2>5 DEF Unresolved
      <3>2. ~(Taken(x) < s.last \/ (Taken(x) = s.last /\ ~s.inFlight))
        BY <2>1, <3>1 DEF Behind
      <3>3. QED
        BY <2>2, <2>3, <3>2 DEF Settled
    <2>6. QED
      BY <2>4, <2>5
  <1>5. QED
    BY <1>1, <1>2, <1>3, <1>4, RunSteps

(* With local custody, every step keeps the active run in flight.          *)
LEMMA HeldNext ==
  ASSUME IInv, TypeOK', RunInv, HeldInv, [Next]_vars
  PROVE  HeldInv'
  <1> SUFFICES ASSUME ~Remote PROVE HeldInv'
    BY DEF HeldInv
  <1>1. ASSUME NEW p \in Procs, Begins(p) \/ Works(p) PROVE HeldInv'
    <2>1. \A q \in Procs : Taken(q)' = Taken(q)
      BY <1>1, TakenSteps
    <2>2. UNCHANGED <<store, disk, attempt>>
      BY <1>1 DEF Begins, Works
    <2>3. \A q \in Procs : (attempt[q] # Never /\ pc'[q] \in Active) => pc[q] \in Active
      BY <1>1 DEF Begins, Works, Others, Active, IInv, AdmissionInv, Unvisited
    <2>4. QED
      BY <2>1, <2>2, <2>3 DEF HeldInv, Settled
  <1>2. ASSUME NEW p \in Procs, Stores(p) PROVE HeldInv'
    <2> SUFFICES ASSUME NEW x \in Procs, pc'[x] \in Active, attempt'[x] # Never,
                        NEW s \in disk' \cup {store'}
                 PROVE  ~Settled(s, x)'
      BY DEF HeldInv
    <2>1. pc[p] \in Active /\ (x # p => pc[x] \in Active)
      BY <1>2 DEF Stores, Others, Active
    <2>2. x = p
      BY <2>1, LocalAlone DEF IInv
    <2>3. Succeeds(p) /\ disk' = {store'} /\ store' = mem[p] /\ pc[p] \in Writing
      BY <1>2, <2>2 DEF Stores, Active, Writing
    <2>4. CASE Taken(p)' = Taken(p)
      <3>1. pc[p] = "extending"
        <4>1. pc[p] \in {"admitting", "extending"}
          BY <2>2, <2>3 DEF Succeeds, Active, Writing
        <4>2. pc[p] = "admitting" => Taken(p) = Never
          BY DEF Taken, IInv, AdmissionInv, Unvisited, LocalInv
        <4>3. pc[p] = "admitting" => attempt'[p] = mem[p].last /\ Taken(p)' = attempt'[p]
          BY <2>2, <2>3 DEF Succeeds, Taken
        <4>4. QED
          BY <2>2, <2>4, <4>1, <4>2, <4>3
      <3>2. attempt[p] # Never /\ Taken(p) = attempt[p] /\ mem[p].inFlight
        BY <3>1, TakenSteps DEF RunInv, IInv, WriteInv
      <3>3. ~Settled(store, p)
        BY <2>1, <3>2 DEF HeldInv
      <3>4. store'.last = Taken(p) /\ store'.inFlight
        <4>1. ~Completed(store, store')
          BY <2>3, <3>2, RunTypes, Kinds DEF IInv
        <4>2. ~Resolving(p)
          BY <3>2, RunTypes, Kinds DEF IInv, Resolving
        <4>3. QED
          BY <1>2, <3>2, <3>3, <4>1, <4>2, StoreUnsettled
      <3>5. QED
        BY <2>2, <2>3, <2>4, <3>4, RunTypes DEF Settled, IInv
    <2>5. CASE Taken(p)' # Taken(p)
      <3>1. Taken(p)' = mem[p].last /\ Admitted(store, store')
        BY <1>2, <2>5, TakenSteps
      <3>2. store'.inFlight /\ store'.last = Taken(p)' /\ store'.last \in Nat
        BY <2>3, <3>1, RunTypes, Kinds DEF IInv
      <3>3. QED
        BY <2>2, <2>3, <3>2 DEF Settled
    <2>6. QED
      BY <2>4, <2>5
  <1>3. CASE Loses
    <2>1. \A q \in Procs : pc'[q] \notin Active
      BY <1>3 DEF Loses, Active, Writing
    <2>2. QED
      BY <2>1 DEF HeldInv
  <1>4. CASE Rests
    <2>1. \A q \in Procs : Taken(q)' = Taken(q) \/ Taken(q)' = Never
      BY <1>4, TakenSteps
    <2>2. UNCHANGED <<store, disk>>
      BY <1>4 DEF Rests
    <2>3. ASSUME NEW q \in Procs, pc'[q] \in Active, attempt'[q] # Never
          PROVE  pc[q] \in Active /\ attempt[q] # Never /\ Taken(q)' = Taken(q)
      <3>1. pc[q] \in Active /\ attempt'[q] = attempt[q]
        BY <1>4, <2>3 DEF Rests, Others, Active, Writing
      <3>2. QED
        BY <2>3, <3>1 DEF Taken
    <2>4. QED
      BY <2>2, <2>3 DEF HeldInv, Settled
  <1>5. QED
    BY <1>1, <1>2, <1>3, <1>4, RunSteps

(* What the store takes is an operation on its content: it never goes back, *)
(* and a run that is over stays over.                                      *)
LEMMA StoreSettled ==
  ASSUME IInv, NEW p \in Procs, Stores(p)
  PROVE  /\ Operation(store, store') /\ store \in State /\ store' \in State
         /\ store'.last >= store.last /\ store'.next >= store.next
         /\ store'.last = mem[p].last /\ store'.inFlight = mem[p].inFlight
         /\ discarded' = discarded \/ /\ discarded' = discarded \cup {store'.last}
                                      /\ Recovered(store, store')
         /\ \A x \in Procs : Settled(store, x) =>
              store'.last > Taken(x) \/ ~store'.inFlight
  <1> USE DEF IInv
  <1>1. /\ store \in State /\ store' = mem[p] /\ mem[p] \in State /\ store = ver[p]
        /\ Operation(store, store')
    BY RunTypes DEF Stores, WriteInv, Pending
  <1>2. store.last \in Nat /\ store'.last \in Nat /\ store.next \in Nat /\ store'.next \in Nat
        /\ store.count \in Nat /\ store'.count \in Nat
    BY <1>1, RunTypes
  <1>3. \/ Initialized(store, store') \/ Admitted(store, store')
        \/ Extended(store, store') \/ Completed(store, store')
        \/ Recovered(store, store')
    BY <1>1 DEF Operation
  <1>4. store'.last >= store.last /\ store'.next >= store.next
        /\ (store'.count > store.count => Recovered(store, store'))
        /\ (~store.inFlight => store'.last > store.last \/ ~store'.inFlight)
    <2>1. Initialized(store, store') =>
            store'.last = store.last /\ store'.next >= store.next
            /\ store'.count = store.count /\ ~store'.inFlight
      BY <1>1, <1>2, Kinds DEF Never
    <2>2. Admitted(store, store') =>
            store'.last > store.last /\ store'.next >= store.next
            /\ store'.count = store.count
      BY <1>1, Kinds
    <2>3. Extended(store, store') \/ Completed(store, store') =>
            store'.last = store.last /\ store'.next >= store.next
            /\ store'.count = store.count /\ store.inFlight
      BY <1>1, <1>2, Kinds
    <2>4. Recovered(store, store') =>
            store'.last = store.last /\ store'.next >= store.next /\ store.inFlight
      BY <1>1, Kinds
    <2>5. QED
      BY <1>2, <1>3, <2>1, <2>2, <2>3, <2>4
  <1>5. discarded' = discarded \/ /\ discarded' = discarded \cup {store'.last}
                                  /\ Recovered(store, store')
    BY <1>1, <1>4 DEF Stores
  <1>6. ASSUME NEW x \in Procs, Settled(store, x)
        PROVE  store'.last > Taken(x) \/ ~store'.inFlight
    <2>1. Taken(x) \in Nat /\ Taken(x) <= store.last
      BY RunTypes DEF AdmissionInv
    <2>2. store.last > Taken(x) \/ ~store.inFlight
      BY <1>6 DEF Settled
    <2>3. QED
      BY <1>2, <1>4, <2>1, <2>2
  <1>7. QED
    BY <1>1, <1>4, <1>5, <1>6

(* A request that is still on its way was on its way before.               *)
LEMMA StillPending ==
  ASSUME IInv, \/ \E p \in Procs : Stores(p)
               \/ Loses
               \/ Rests
  PROVE  mem' = mem /\ ver' = ver /\ learned' = learned
         /\ \A r \in Procs : Pending(r)' => Pending(r)
  <1>1. ASSUME NEW p \in Procs, Stores(p)
        PROVE  \A r \in Procs : Pending(r)' => Pending(r)
    <2>1. \A r \in Procs \ {p} : Pending(r)' = Pending(r)
      BY <1>1 DEF Stores, Others, Pending
    <2>2. Pending(p)
      BY <1>1 DEF Stores
    <2>3. QED
      BY <2>1, <2>2
  <1>2. ASSUME Loses PROVE \A r \in Procs : Pending(r)' => Pending(r)
    BY <1>2 DEF Loses, Pending, Writing, Active
  <1>3. ASSUME Rests PROVE \A r \in Procs : Pending(r)' => Pending(r)
    BY <1>3 DEF Rests, Succeeds, Others, Pending, Writing
  <1>4. mem' = mem /\ ver' = ver /\ learned' = learned
    BY DEF Stores, Loses, Rests
  <1>5. QED
    BY <1>1, <1>2, <1>3, <1>4

(* With remote custody, of a completion and a recovery of the same run the *)
(* store takes one.                                                        *)
LEMMA DiscardNext ==
  ASSUME IInv, TypeOK', RunInv, DiscardInv, [Next]_vars
  PROVE  DiscardInv'
  <1> SUFFICES ASSUME Remote PROVE DiscardInv'
    BY DEF DiscardInv
  <1> DEFINE Passed == \A d \in discarded : d <= store.last
                                            /\ (store.last > d \/ ~store.inFlight)
             Over(x) == attempt[x] # Never /\ ~mem[x].inFlight
                        /\ (link[x] = "ok" \/ pc[x] = "returned")
             Free(x) == attempt[x] \notin discarded /\ Settled(store, x)
  <1>0. /\ Passed /\ \A x \in Procs : Over(x) => Free(x)
        /\ \A r \in Procs : Resolving(r) => mem[r].last <= store.last
    BY DEF DiscardInv
  <1>q. ASSUME Passed', \A x \in Procs : Over(x)' => Free(x)',
               \A r \in Procs : Resolving(r)' => mem'[r].last <= store'.last
        PROVE  DiscardInv'
    BY <1>q DEF DiscardInv
  <1>1. ASSUME NEW p \in Procs, Begins(p) \/ Works(p) PROVE DiscardInv'
    <2>1. UNCHANGED <<store, discarded, attempt>> /\ Others(p)
          /\ \A x \in Procs : Taken(x)' = Taken(x)
      BY <1>1, TakenSteps DEF Begins, Works
    <2>2. ~Over(p)'
      <3>1. CASE Begins(p)
        BY <3>1 DEF Begins
      <3>2. CASE Works(p)
        BY <3>2 DEF Works
      <3>3. QED
        BY <1>1, <3>1, <3>2
    <2>3. \A x \in Procs \ {p} : Over(x)' = Over(x)
      BY <2>1 DEF Others
    <2>4. \A x \in Procs : Free(x)' = Free(x)
      BY <2>1 DEF Settled
    <2>5. \A r \in Procs \ {p} : Resolving(r)' = Resolving(r) /\ mem'[r] = mem[r]
      BY <2>1 DEF Others, Resolving, Pending
    <2>6. Resolving(p)' => mem'[p].last <= store'.last
      <3>1. mem'[p] \in State /\ ver'[p] \in State
        BY DEF TypeOK
      <3>2. /\ Initialized(ver'[p], mem'[p]) \/ Admitted(ver'[p], mem'[p])
                 => ~Recovered(ver'[p], mem'[p])
            /\ Extended(ver'[p], mem'[p]) \/ Completed(ver'[p], mem'[p])
                 => ~Recovered(ver'[p], mem'[p])
        <4>1. mem'[p].count \in Nat /\ ver'[p].count \in Nat
          BY <3>1, CountAssumption DEF State
        <4>2. QED
          BY <3>1, <4>1, Kinds
      <3>3. CASE Begins(p)
        <4>1. store.last <= store.last
          BY RunTypes DEF IInv
        <4>2. QED
          BY <3>2, <3>3, <4>1 DEF Begins, Resolving
      <3>4. CASE Works(p)
        <4>1. CASE UNCHANGED <<mem[p], ver[p], link[p]>> /\ pc'[p] = pc[p]
          BY <1>0, <2>1, <4>1 DEF Resolving, Pending
        <4>2. CASE Extended(ver'[p], mem'[p]) \/ Completed(ver'[p], mem'[p])
          BY <3>2, <4>2 DEF Resolving
        <4>3. QED
          BY <3>4, <4>1, <4>2 DEF Works
      <3>5. QED
        BY <1>1, <3>3, <3>4
    <2>7. Passed'
      BY <1>0, <2>1
    <2> HIDE DEF Passed, Over, Free
    <2>8. QED
      BY <1>0, <1>q, <2>1, <2>2, <2>3, <2>4, <2>5, <2>6, <2>7
  <1>2. ASSUME NEW p \in Procs, Stores(p) PROVE DiscardInv'
    <2>1. /\ disk' = {store'} /\ link[p] = "sent" /\ link'[p] = "ok"
          /\ pc' = pc /\ attempt' = attempt /\ Others(p) /\ mem' = mem /\ ver' = ver
          /\ store = ver[p] /\ store' = mem[p]
      BY <1>2 DEF Stores, Others, IInv, TypeOK
    <2>2. /\ store \in State /\ store' \in State
          /\ store.last \in Nat /\ store'.last \in Nat /\ store'.last >= store.last
          /\ store.inFlight \in BOOLEAN /\ store'.inFlight \in BOOLEAN
      BY <1>2, <2>1, RunTypes, StoreSettled DEF IInv
    <2>3. \/ discarded' = discarded
          \/ /\ discarded' = discarded \cup {store'.last}
             /\ store.inFlight /\ ~store'.inFlight /\ store'.last = store.last
      BY <1>2, <2>2, StoreSettled, Kinds
    <2>4. Passed'
      <3>1. ~store.inFlight => store'.last > store.last \/ ~store'.inFlight
        <4>1. \/ Initialized(store, store') \/ Admitted(store, store')
              \/ Extended(store, store') \/ Completed(store, store')
              \/ Recovered(store, store')
          BY <1>2, StoreSettled DEF Operation
        <4>2. QED
          BY <2>2, <4>1, Kinds
      <3>2. ASSUME NEW d \in discarded
            PROVE  d <= store'.last /\ (store'.last > d \/ ~store'.inFlight)
        <4>1. d \in Nat /\ d <= store.last /\ (store.last > d \/ ~store.inFlight)
          BY <1>0 DEF IInv, TypeOK
        <4>2. QED
          BY <2>2, <3>1, <4>1
      <3>3. QED
        BY <2>2, <2>3, <3>2
    <2>5. ASSUME NEW x \in Procs, Over(x)' PROVE Free(x)'
      <3>1. attempt[x] # Never /\ ~mem[x].inFlight /\ (x # p => link'[x] = link[x])
        BY <2>1, <2>5 DEF Others
      <3>2. Taken(x) = attempt[x] /\ Taken(x)' = attempt[x] /\ attempt[x] \in Nat
        BY <2>1, <3>1, RunTypes DEF Taken, IInv
      <3>3. CASE x # p
        <4>1. Over(x)
          BY <2>1, <2>5, <3>1, <3>3 DEF Others
        <4>2. attempt[x] \notin discarded /\ Settled(store, x)
          BY <1>0, <4>1
        <4>3. store.inFlight => store.last > attempt[x]
          BY <3>2, <4>2 DEF Settled
        <4>4. attempt[x] \notin discarded'
          BY <2>2, <2>3, <3>2, <4>2, <4>3
        <4>5. Settled(store, x)'
          <5>1. store'.last > Taken(x) \/ ~store'.inFlight
            BY <1>2, <4>2, StoreSettled
          <5>2. QED
            BY <3>2, <5>1 DEF Settled
        <4>6. QED
          BY <2>1, <4>4, <4>5
      <3>4. CASE x = p
        <4>1. Completed(store, store') /\ mem[p].last = attempt[p]
          <5>1. Pending(p)
            BY <2>1 DEF Pending
          <5>2. mem[p].last = attempt[p]
                /\ (Extended(ver[p], mem[p]) \/ Completed(ver[p], mem[p]))
            BY <3>1, <3>4, <5>1 DEF RunInv
          <5>3. ~Extended(store, store')
            BY <2>1, <2>2, <3>1, <3>4, Kinds
          <5>4. QED
            BY <2>1, <5>2, <5>3
        <4>2. /\ store.inFlight /\ ~store'.inFlight /\ store.last = attempt[p]
              /\ discarded' = discarded
          <5>1. store.inFlight /\ ~store'.inFlight /\ store'.last = store.last
                /\ store'.count = store.count /\ store.count \in Nat
            BY <2>2, <4>1, Kinds, RunTypes DEF IInv
          <5>2. discarded' = discarded
            BY <1>2, <2>1, <5>1 DEF Stores
          <5>3. QED
            BY <2>1, <4>1, <5>1, <5>2
        <4>3. attempt[p] \notin discarded
          BY <1>0, <2>2, <4>2
        <4>4. QED
          BY <2>1, <3>4, <4>2, <4>3 DEF Settled
      <3>5. QED
        BY <3>3, <3>4
    <2>6. ASSUME NEW r \in Procs, Resolving(r)' PROVE mem'[r].last <= store'.last
      <3>1. Resolving(r)
        BY <1>2, <2>6, StillPending DEF Resolving
      <3>2. mem[r].last \in Nat /\ mem[r].last <= store.last
        BY <1>0, <3>1, RunTypes DEF IInv
      <3>3. QED
        BY <2>1, <2>2, <3>2
    <2> HIDE DEF Passed, Over, Free
    <2>7. QED
      BY <1>q, <2>4, <2>5, <2>6
  <1>3. CASE Rests
    <2>1. UNCHANGED <<store, discarded, mem, ver>>
      BY <1>3 DEF Rests
    <2>2. ASSUME NEW x \in Procs, Over(x)' PROVE Free(x)'
      <3>1. pc[x] \in {"admitting", "extending"} => mem[x].inFlight
        BY DEF IInv, WriteInv
      <3>2. attempt'[x] = attempt[x] /\ (link[x] = "ok" \/ pc[x] = "returned")
        BY <1>3, <2>1, <2>2, <3>1 DEF Rests, Succeeds, Others, Writing
      <3>3. Free(x)
        BY <1>0, <2>1, <2>2, <3>2
      <3>4. Taken(x)' = Taken(x)
        BY <2>2, <3>2 DEF Taken
      <3>5. QED
        BY <2>1, <3>2, <3>3, <3>4 DEF Settled
    <2>3. \A r \in Procs : Resolving(r)' => Resolving(r)
      BY <1>3, StillPending DEF Resolving
    <2>4. Passed'
      BY <1>0, <2>1
    <2> HIDE DEF Passed, Over, Free
    <2>5. QED
      BY <1>0, <1>q, <2>1, <2>2, <2>3, <2>4
  <1>4. ~Loses
    BY DEF Loses
  <1>5. QED
    BY <1>1, <1>2, <1>3, <1>4, RunSteps

(* Of the invocations that begin to write, only a recovery resolves a run: *)
(* the last one of the store, with what its operator confirmed of it.      *)
LEMMA ResolutionBegins ==
  ASSUME TypeOK', NEW p \in Procs, Begins(p) \/ Works(p), Resolving(p)'
  PROVE  \/ Resolving(p) /\ mem'[p] = mem[p]
         \/ Begins(p) /\ mem'[p].last = store.last /\ store.inFlight
            /\ untrue' = untrue \cup Untrue(store, mem'[p].next)
  <1>1. mem'[p] \in State /\ ver'[p] \in State /\ Recovered(ver'[p], mem'[p])
        /\ Pending(p)'
    BY DEF TypeOK, Resolving
  <1>2. mem'[p].count \in Nat /\ ver'[p].count \in Nat
    BY <1>1, CountAssumption DEF State
  <1>3. /\ ~Initialized(ver'[p], mem'[p]) /\ ~Admitted(ver'[p], mem'[p])
        /\ ~Extended(ver'[p], mem'[p]) /\ ~Completed(ver'[p], mem'[p])
    BY <1>1, <1>2, Kinds
  <1>4. CASE Begins(p)
    BY <1>3, <1>4 DEF Begins
  <1>5. CASE Works(p)
    <2>1. UNCHANGED <<mem[p], ver[p], link[p]>> /\ pc'[p] = pc[p]
      BY <1>3, <1>5 DEF Works
    <2>2. QED
      BY <1>1, <2>1 DEF Resolving, Pending
  <1>6. QED
    BY <1>4, <1>5

(* What the steps of the store and of the answers leave of the runs.       *)
LEMMA EndedStays ==
  ASSUME IInv, \/ \E p \in Procs : Stores(p)
               \/ Loses
               \/ Rests,
         NEW x \in Procs, pc[x] \in Ended
  PROVE  pc'[x] \in Ended
  <1>1. ASSUME NEW p \in Procs, Stores(p) PROVE pc'[x] \in Ended
    BY <1>1 DEF Stores, Others, Succeeds, Writing, Ended
  <1>2. ASSUME Loses PROVE pc'[x] \in Ended
    BY <1>2 DEF Loses, Ended
  <1>3. ASSUME Rests PROVE pc'[x] \in Ended
    BY <1>3 DEF Rests, Others, Succeeds, Writing, Ended
  <1>4. QED
    BY <1>1, <1>2, <1>3

(* A recovery begins when its run has stopped, and no ended run goes on.   *)
LEMMA StopNext ==
  ASSUME IInv, TypeOK', RunInv, DiscardInv, StopInv, [Next]_vars
  PROVE  StopInv'
  <1> SUFFICES ASSUME "stopped" \notin untrue', NEW x \in Procs, Taken(x)' # Never
               PROVE  /\ (Remote /\ Taken(x)' \in discarded') => pc'[x] \in Ended
                      /\ \A r \in Procs :
                           (Resolving(r)' /\ Taken(x)' = mem'[r].last) => pc'[x] \in Ended
    BY DEF StopInv
  <1>1. ASSUME "stopped" \notin untrue, Taken(x) # Never
        PROVE  /\ (Remote /\ Taken(x) \in discarded) => pc[x] \in Ended
               /\ \A r \in Procs :
                    (Resolving(r) /\ Taken(x) = mem[r].last) => pc[x] \in Ended
    BY <1>1 DEF StopInv
  <1>2. ASSUME NEW p \in Procs, Begins(p) \/ Works(p), Taken(x)' = Taken(x),
               "stopped" \notin untrue
        PROVE  /\ (Remote /\ Taken(x)' \in discarded') => pc'[x] \in Ended
               /\ \A r \in Procs :
                    (Resolving(r)' /\ Taken(x)' = mem'[r].last) => pc'[x] \in Ended
    <2>1. discarded' = discarded /\ Others(p)
      BY <1>2 DEF Begins, Works
    <2>2. pc[x] \in Ended => pc'[x] = pc[x]
      BY <1>2, <2>1 DEF Begins, Works, Others, Ended
    <2>3. ASSUME NEW r \in Procs, Resolving(r)', Taken(x)' = mem'[r].last
          PROVE  pc[x] \in Ended
      <3>1. CASE Resolving(r) /\ mem'[r] = mem[r]
        BY <1>1, <1>2, <2>3, <3>1
      <3>2. CASE r # p
        <4>1. Resolving(r) /\ mem'[r] = mem[r]
          BY <2>1, <2>3, <3>2 DEF Others, Resolving, Pending
        <4>2. QED
          BY <3>1, <4>1
      <3>3. CASE r = p /\ ~(Resolving(r) /\ mem'[r] = mem[r])
        <4>1. /\ mem'[p].last = store.last /\ store.inFlight
              /\ untrue' = untrue \cup Untrue(store, mem'[p].next)
          BY <1>2, <2>3, <3>3, ResolutionBegins
        <4>2. "stopped" \notin Untrue(store, mem'[p].next)
          BY <4>1
        <4>3. mem[x].last = store.last
          BY <1>2, <2>3, <3>3, <4>1, TakenSteps
        <4>4. QED
          BY <4>1, <4>2, <4>3 DEF Untrue, Confirmations
      <3>4. QED
        BY <3>1, <3>2, <3>3
    <2>4. QED
      BY <1>1, <1>2, <2>1, <2>2, <2>3
  <1>3. ASSUME NEW p \in Procs, Stores(p), "stopped" \notin untrue
        PROVE  /\ (Remote /\ Taken(x)' \in discarded') => pc'[x] \in Ended
               /\ \A r \in Procs :
                    (Resolving(r)' /\ Taken(x)' = mem'[r].last) => pc'[x] \in Ended
    <2>1. mem' = mem /\ store' = mem[p] /\ store = ver[p] /\ Pending(p)
      BY <1>3 DEF Stores
    <2>2. \A r \in Procs : Resolving(r)' => Resolving(r)
      BY <1>3, StillPending DEF Resolving
    <2>3. \/ discarded' = discarded
          \/ discarded' = discarded \cup {store'.last} /\ Resolving(p)
      BY <1>3, <2>1, StoreSettled DEF Resolving
    <2>4. CASE Taken(x)' = Taken(x)
      <3>1. (Remote /\ Taken(x)' \in discarded') => pc[x] \in Ended
        BY <1>1, <1>3, <2>1, <2>3, <2>4
      <3>2. \A r \in Procs :
              (Resolving(r)' /\ Taken(x)' = mem'[r].last) => pc[x] \in Ended
        BY <1>1, <1>3, <2>1, <2>2, <2>4
      <3>3. pc[x] \in Ended => pc'[x] \in Ended
        BY <1>3, EndedStays
      <3>4. QED
        BY <3>1, <3>2, <3>3
    <2>5. CASE Taken(x)' # Taken(x)
      <3>1. /\ x = p /\ Taken(x)' = mem[p].last /\ Admitted(store, store')
            /\ pc[p] \in Writing
        BY <1>3, <2>5, TakenSteps
      <3>2. /\ store \in State /\ store' \in State /\ store.last \in Nat
            /\ store'.last \in Nat /\ store.count \in Nat
            /\ \A r \in Procs : mem[r].last \in Nat
        BY <1>3, StoreSettled, RunTypes DEF IInv, State
      <3>3. Taken(x)' > store.last /\ ~Resolving(p)
        <4>1. store'.last > store.last /\ store'.count = store.count
          BY <3>1, <3>2, Kinds
        <4>2. ~Recovered(store, store')
          BY <3>2, <4>1, Kinds
        <4>3. QED
          BY <2>1, <3>1, <4>1, <4>2 DEF Resolving
      <3>4. Remote => Taken(x)' \notin discarded'
        <4>1. Remote => \A d \in discarded : d \in Nat /\ d <= store.last
          BY DEF DiscardInv, IInv, TypeOK
        <4>2. QED
          BY <2>1, <2>3, <3>1, <3>2, <3>3, <4>1
      <3>5. ASSUME NEW r \in Procs, Resolving(r)', Taken(x)' = mem'[r].last
            PROVE  FALSE
        <4>1. Resolving(r)
          BY <2>2, <3>5
        <4>2. CASE Remote
          <5>1. mem[r].last <= store.last
            BY <4>1, <4>2 DEF DiscardInv
          <5>2. QED
            BY <2>1, <3>2, <3>3, <3>5, <5>1
        <4>3. CASE ~Remote
          <5>1. pc[r] \in Active /\ pc[p] \in Active
            BY <3>1, <4>1, <4>3 DEF Resolving, Pending, IInv, LocalInv, Active
          <5>2. r = p
            BY <4>3, <5>1, LocalAlone DEF IInv
          <5>3. QED
            BY <3>3, <4>1, <5>2
        <4>4. QED
          BY <4>2, <4>3
      <3>6. QED
        BY <3>4, <3>5
    <2>6. QED
      BY <2>4, <2>5
  <1>4. ASSUME Loses \/ Rests
        PROVE  /\ (Remote /\ Taken(x)' \in discarded') => pc'[x] \in Ended
               /\ \A r \in Procs :
                    (Resolving(r)' /\ Taken(x)' = mem'[r].last) => pc'[x] \in Ended
    <2>1. UNCHANGED <<mem, untrue>> /\ (Remote => discarded' = discarded)
      BY <1>4 DEF Loses, Rests
    <2>2. Taken(x)' = Taken(x)
      BY <1>4, TakenSteps
    <2>3. \A r \in Procs : Resolving(r)' => Resolving(r)
      BY <1>4, StillPending DEF Resolving
    <2>4. pc[x] \in Ended => pc'[x] \in Ended
      BY <1>4, EndedStays
    <2>5. QED
      BY <1>1, <2>1, <2>2, <2>3, <2>4
  <1>5. ASSUME NEW p \in Procs, Begins(p) \/ Works(p) PROVE Taken(x)' = Taken(x)
    BY <1>5, TakenSteps
  <1>6. \/ Loses \/ Rests
        \/ \E p \in Procs : (Begins(p) \/ Works(p) \/ Stores(p))
                            /\ "stopped" \notin untrue
    <2>1. ASSUME NEW p \in Procs, Begins(p) \/ Works(p) \/ Stores(p)
          PROVE  "stopped" \notin untrue
      BY <2>1 DEF Begins, Works, Stores
    <2>2. QED
      BY <2>1, RunSteps
  <1>7. QED
    BY <1>2, <1>3, <1>4, <1>5, <1>6

(* The runs of one invocation, as WindowInv states it of each.             *)
Window(p) ==
  Taken(p) # Never =>
    /\ \A r \in Procs :
         (Resolving(r) /\ Taken(p) = mem[r].last) => learned[p] <= mem[r].next
    /\ \A s \in disk \cup {store} : Settled(s, p) => learned[p] <= s.next
    /\ \A q \in Procs : Taken(q) > Taken(p) => Taken(q) >= learned[p]

(* A run at the source is in flight wherever the store may be found, and   *)
(* no recovery of it is on its way.                                        *)
LEMMA AtTheSource ==
  ASSUME IInv, RunInv, ClaimInv, HeldInv, StopInv, "stopped" \notin untrue,
         NEW p \in Procs, Works(p)
  PROVE  /\ Taken(p) # Never
         /\ \A s \in disk \cup {store} : ~Settled(s, p)
         /\ \A r \in Procs : ~(Resolving(r) /\ Taken(p) = mem[r].last)
  <1>1. pc[p] = "fetching" /\ mem[p].inFlight
    BY DEF Works
  <1>2. pc[p] \in Active /\ pc[p] \notin Ended
    BY <1>1 DEF Active, Writing, Ended
  <1>3. attempt[p] # Never /\ Taken(p) = attempt[p]
    BY <1>1, TakenSteps DEF RunInv
  <1>4. /\ Remote => Taken(p) \notin discarded
        /\ \A r \in Procs : ~(Resolving(r) /\ Taken(p) = mem[r].last)
    BY <1>2, <1>3 DEF StopInv
  <1>5. CASE Remote
    BY <1>1, <1>3, <1>4, <1>5 DEF ClaimInv, Unresolved
  <1>6. CASE ~Remote
    BY <1>2, <1>3, <1>4, <1>6 DEF HeldInv
  <1>7. QED
    BY <1>5, <1>6

(* Every step keeps the deadlines of a run in what follows it.             *)
LEMMA WindowNext ==
  ASSUME IInv, TypeOK', RunInv, ClaimInv, HeldInv, StopInv, WindowInv,
         [Next]_vars
  PROVE  WindowInv'
  <1> SUFFICES ASSUME untrue' = {}, NEW x \in Procs, Taken(x)' # Never
               PROVE  Window(x)'
    BY DEF WindowInv, Window
  <1>0. untrue = {}
    BY RunSteps DEF Begins, Works, Stores, Loses, Rests
  <1>1. Taken(x) # Never => Window(x)
    BY <1>0 DEF WindowInv, Window
  <1>2. /\ \A s \in disk \cup {store} : s.next \in Nat
        /\ \A q \in Procs : Taken(q) \in Nat /\ learned[q] \in Nat /\ mem[q].next \in Nat
                            /\ mem[q].last \in Nat
    BY RunTypes DEF IInv
  <1>3. ASSUME NEW p \in Procs, Begins(p) PROVE Window(x)'
    <2>1. /\ UNCHANGED <<store, disk, learned>> /\ Others(p)
          /\ \A q \in Procs : Taken(q)' = Taken(q)
      BY <1>3, TakenSteps DEF Begins
    <2>2. ASSUME NEW r \in Procs, Resolving(r)', Taken(x)' = mem'[r].last
          PROVE  learned'[x] <= mem'[r].next
      <3>1. CASE Resolving(r) /\ mem'[r] = mem[r]
        BY <1>1, <2>1, <2>2, <3>1 DEF Window
      <3>2. CASE r # p
        <4>1. Resolving(r) /\ mem'[r] = mem[r]
          BY <2>1, <2>2, <3>2 DEF Others, Resolving, Pending
        <4>2. QED
          BY <3>1, <4>1
      <3>3. CASE r = p /\ ~(Resolving(r) /\ mem'[r] = mem[r])
        <4>1. /\ mem'[p].last = store.last /\ store.inFlight
              /\ untrue' = untrue \cup Untrue(store, mem'[p].next)
          BY <1>3, <2>2, <3>3, ResolutionBegins
        <4>2. "window" \notin Untrue(store, mem'[p].next)
          BY <4>1
        <4>3. mem[x].last = store.last
          BY <2>1, <2>2, <3>3, <4>1, TakenSteps
        <4>4. ~(mem'[p].next < learned[x])
          BY <4>1, <4>2, <4>3 DEF Untrue, Confirmations
        <4>5. mem'[p].next \in Nat
          BY DEF TypeOK, State
        <4>6. QED
          BY <1>2, <2>1, <3>3, <4>4, <4>5
      <3>4. QED
        BY <3>1, <3>2, <3>3
    <2>3. QED
      BY <1>1, <2>1, <2>2 DEF Window, Settled
  <1>4. ASSUME NEW p \in Procs, Works(p) PROVE Window(x)'
    <2>1. /\ UNCHANGED <<store, disk>> /\ Others(p)
          /\ \A q \in Procs : Taken(q)' = Taken(q)
      BY <1>4, TakenSteps DEF Works
    <2>2. ASSUME NEW r \in Procs, Resolving(r)', Taken(x)' = mem'[r].last
          PROVE  Resolving(r) /\ mem'[r] = mem[r]
      <3>1. CASE r # p
        BY <2>1, <2>2, <3>1 DEF Others, Resolving, Pending
      <3>2. CASE r = p
        <4>1. ~Begins(p)
          BY <1>4 DEF Begins, Works
        <4>2. QED
          BY <1>4, <2>2, <3>2, <4>1, ResolutionBegins
      <3>3. QED
        BY <3>1, <3>2
    <2>3. CASE x # p
      BY <1>1, <2>1, <2>2, <2>3 DEF Others, Window, Settled
    <2>4. CASE x = p
      <3>1. /\ \A s \in disk \cup {store} : ~Settled(s, x)
            /\ \A r \in Procs : ~(Resolving(r) /\ Taken(x) = mem[r].last)
        BY <1>0, <1>4, <2>4, AtTheSource
      <3>2. \A q \in Procs : ~(Taken(q) > Taken(x))
        <4>1. ~(store.last > Taken(x)) /\ store.last \in Nat
          BY <3>1, RunTypes DEF Settled, IInv
        <4>2. \A q \in Procs : Taken(q) <= store.last
          BY DEF IInv, AdmissionInv
        <4>3. QED
          BY <1>2, <4>1, <4>2
      <3>3. QED
        BY <2>1, <2>2, <3>1, <3>2 DEF Window, Settled
    <2>5. QED
      BY <2>3, <2>4
  <1>5. ASSUME NEW p \in Procs, Stores(p) PROVE Window(x)'
    <2>1. /\ mem' = mem /\ learned' = learned /\ store' = mem[p] /\ store = ver[p]
          /\ disk' \subseteq disk \cup {store'} /\ store'.next >= store.next
          /\ store'.next \in Nat /\ store.next \in Nat
      BY <1>2, <1>5, StoreSettled DEF Stores
    <2>2. CASE Taken(x)' = Taken(x)
      <3>1. \A r \in Procs :
              (Resolving(r)' /\ Taken(x)' = mem'[r].last) => learned'[x] <= mem'[r].next
        <4>1. \A r \in Procs : Resolving(r)' => Resolving(r)
          BY <1>5, StillPending DEF Resolving
        <4>2. QED
          BY <1>1, <2>1, <2>2, <4>1 DEF Window
      <3>2. (store'.last > Taken(x)' \/ ~store'.inFlight) => learned[x] <= store'.next
        <4>1. CASE Settled(store, x)
          <5>1. learned[x] <= store.next
            BY <1>1, <2>2, <4>1 DEF Window
          <5>2. QED
            BY <1>2, <2>1, <5>1
        <4>2. CASE ~Settled(store, x)
          <5>1. \/ store'.last = Taken(x) /\ store'.inFlight
                \/ p = x
                \/ Resolving(p) /\ mem[p].last = Taken(x)
            BY <1>5, <2>2, <4>2, StoreUnsettled
          <5>2. CASE store'.last = Taken(x) /\ store'.inFlight
            BY <1>2, <2>2, <5>2
          <5>3. CASE p = x
            BY <2>1, <5>3 DEF RunInv
          <5>4. CASE Resolving(p) /\ mem[p].last = Taken(x)
            BY <1>1, <2>1, <2>2, <5>4 DEF Window
          <5>5. QED
            BY <5>1, <5>2, <5>3, <5>4
        <4>3. QED
          BY <4>1, <4>2
      <3>3. \A s \in disk' \cup {store'} : Settled(s, x)' => learned'[x] <= s.next
        <4>1. \A s \in disk \cup {store} : Settled(s, x)' => learned'[x] <= s.next
          BY <1>1, <2>1, <2>2 DEF Window, Settled
        <4>2. QED
          BY <2>1, <3>2, <4>1 DEF Settled
      <3>4. ASSUME NEW q \in Procs, Taken(q)' > Taken(x)'
            PROVE  Taken(q)' >= learned'[x]
        <4>1. CASE Taken(q)' = Taken(q)
          BY <1>1, <2>1, <2>2, <3>4, <4>1 DEF Window
        <4>2. CASE Taken(q)' # Taken(q)
          <5>1. q = p /\ Taken(q)' = mem[p].last /\ Admitted(store, store')
            BY <1>5, <4>2, TakenSteps
          <5>2. ~store.inFlight /\ store'.last >= store.next
            BY <1>5, <5>1, StoreSettled, Kinds
          <5>3. learned[x] <= store.next
            BY <1>1, <2>2, <5>2 DEF Window, Settled
          <5>4. QED
            BY <1>2, <2>1, <5>1, <5>2, <5>3
        <4>3. QED
          BY <4>1, <4>2
      <3>5. QED
        BY <3>1, <3>3, <3>4 DEF Window
    <2>3. CASE Taken(x)' # Taken(x)
      <3>1. learned'[x] = 0
        BY <1>5, <2>1, <2>3, TakenSteps DEF Never
      <3>2. /\ \A r \in Procs : mem'[r].next \in Nat
            /\ \A s \in disk' \cup {store'} : s.next \in Nat
            /\ \A q \in Procs : Taken(q)' \in Nat
        BY <1>2, <1>5, <2>1, TakenSteps
      <3>3. QED
        BY <3>1, <3>2 DEF Window
    <2>4. QED
      BY <2>2, <2>3
  <1>6. CASE Loses \/ Rests
    <2>1. /\ mem' = mem /\ learned' = learned
          /\ disk' \cup {store'} \subseteq disk \cup {store}
      BY <1>6 DEF Loses, Rests
    <2>2. Taken(x)' = Taken(x) /\ \A q \in Procs : Taken(q)' \in {Taken(q), Never}
      BY <1>6, TakenSteps
    <2>3. \A r \in Procs : Resolving(r)' => Resolving(r)
      BY <1>6, StillPending DEF Resolving
    <2>4. \A q \in Procs : Taken(q)' > Taken(x) => Taken(q)' = Taken(q)
      BY <1>2, <2>2 DEF Never
    <2>5. QED
      BY <1>1, <2>1, <2>2, <2>3, <2>4 DEF Window, Settled
  <1>7. QED
    BY <1>3, <1>4, <1>5, <1>6, RunSteps

-----------------------------------------------------------------------------
(* No run has begun at first.                                              *)
LEMMA RunsInit == Init => RunsInv
  <1> SUFFICES ASSUME Init PROVE RunsInv
    OBVIOUS
  <1>1. \A p \in Procs : /\ ~Pending(p) /\ ~Resolving(p) /\ Taken(p) = Never
                         /\ attempt[p] = Never /\ pc[p] = "new" /\ learned[p] = 0
                         /\ mem[p].next \in Nat
    BY TypeInit DEF Init, Pending, Resolving, Taken, Writing, TypeOK, State, Never
  <1>2. RunInv
    BY <1>1 DEF RunInv, Never
  <1>3. ClaimInv /\ HeldInv /\ StopInv /\ WindowInv
    BY <1>1 DEF ClaimInv, Unresolved, HeldInv, StopInv, WindowInv
  <1>4. DiscardInv
    BY <1>1 DEF DiscardInv, Init
  <1>5. QED
    BY <1>2, <1>3, <1>4 DEF RunsInv

(* The invariants of the runs hold in every reachable state.               *)
THEOREM RunsInvariance == Spec => []RunsInv
  <1>1. IInv /\ IInv' /\ RunsInv /\ [Next]_vars => RunsInv'
    BY RunNext, ClaimNext, HeldNext, DiscardNext, StopNext, WindowNext
    DEF RunsInv, IInv
  <1>2. QED
    BY <1>1, RunsInit, Invariance, PTL DEF Spec

(* A run that went to the source keeps the source paused until its         *)
(* completion is in the store or a recovery resolves exactly that run,     *)
(* whatever crashed, whatever PUT was applied late and whatever the clocks *)
(* read.                                                                   *)
THEOREM NothingRetriedSilently == Spec => []NoSilentRetry
  <1>1. IInv /\ RunsInv => NoSilentRetry
    BY TakenSteps DEF RunsInv, ClaimInv, Unresolved, Settled, NoSilentRetry, IInv
  <1>2. QED
    BY <1>1, Invariance, RunsInvariance, PTL

(* With remote custody the candidates of a run that a recovery discarded   *)
(* are never returned, whatever its operator confirmed: the completion of  *)
(* the run and its recovery replace the same content.                      *)
THEOREM DiscardedNotReturned ==
  ASSUME Remote PROVE Spec => []DiscardedNeverReturned
  <1>1. IInv /\ RunsInv => DiscardedNeverReturned
    BY DEF RunsInv, RunInv, DiscardInv, DiscardedNeverReturned
  <1>2. QED
    BY <1>1, Invariance, RunsInvariance, PTL

(* At most one run is at the source as long as operators confirmed a stop  *)
(* only when the runner had stopped.                                       *)
THEOREM AcquirersAlone == Spec => []OneAcquirer
  <1>1. ASSUME IInv, RunsInv, "stopped" \notin untrue, NEW p \in Procs, NEW q \in Procs,
               pc[p] \in Acquiring, pc[q] \in Acquiring
        PROVE  p = q
    <2> USE <1>1 DEF IInv, RunsInv
    <2>1. ASSUME NEW r \in Procs, pc[r] \in Acquiring
          PROVE  /\ pc[r] \in Active /\ pc[r] \notin Ended /\ mem[r].inFlight
                 /\ Taken(r) # Never
      BY <2>1, TakenSteps DEF Acquiring, Active, Writing, Ended, RunInv, WriteInv
    <2>2. CASE ~Remote
      BY <2>1, <2>2, LocalAlone
    <2>3. CASE Remote
      <3>1. ASSUME NEW r \in Procs, pc[r] \in Acquiring
            PROVE  Taken(r) = store.last
        <4>1. Taken(r) \notin discarded
          BY <2>1, <2>3, <3>1 DEF StopInv
        <4>2. ~Settled(store, r)
          BY <2>1, <3>1, <4>1 DEF ClaimInv, Unresolved
        <4>3. Taken(r) <= store.last /\ Taken(r) \in Nat /\ store.last \in Nat
          BY RunTypes DEF AdmissionInv
        <4>4. QED
          BY <4>2, <4>3 DEF Settled
      <3>2. Taken(p) = Taken(q) /\ Taken(p) # Never /\ Taken(p) \in Nat
        BY <2>1, <3>1, RunTypes
      <3>3. p # q => Taken(p) >= Taken(q) + Poll \/ Taken(q) >= Taken(p) + Poll
        BY <3>2 DEF AdmissionInv
      <3>4. QED
        BY <3>2, <3>3, PollAssumption
    <2>4. QED
      BY <2>2, <2>3
  <1>2. IInv /\ RunsInv => OneAcquirer
    BY <1>1 DEF OneAcquirer
  <1>3. QED
    BY <1>2, Invariance, RunsInvariance, PTL

(* No run goes to the source before a deadline that an earlier run was     *)
(* told, as long as operators confirmed only what was so: also when the    *)
(* write of the deadline failed or its fate is unknown.                    *)
THEOREM DeadlinesHonoured == Spec => []RetryAfterHonoured
  <1>1. ASSUME IInv, RunsInv, untrue = {}, NEW p \in Procs, NEW q \in Procs,
               attempt[p] # Never, attempt[q] > attempt[p]
        PROVE  attempt[q] >= learned[p]
    <2>1. attempt[p] \in Nat /\ attempt[q] \in Nat
      BY <1>1, RunTypes DEF IInv
    <2>2. attempt[q] # Never
      BY <1>1, <2>1 DEF Never
    <2>3. Taken(p) = attempt[p] /\ Taken(q) = attempt[q]
      BY <1>1, <2>2, TakenSteps DEF RunsInv
    <2>4. QED
      BY <1>1, <2>3 DEF RunsInv, WindowInv
  <1>2. IInv /\ RunsInv => RetryAfterHonoured
    BY <1>1 DEF RetryAfterHonoured
  <1>3. QED
    BY <1>2, Invariance, RunsInvariance, PTL
===============================================================================
