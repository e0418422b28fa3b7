---------------------- MODULE ClassicScheduler_proofs ----------------------
(***************************************************************************)
(* Proofs about ClassicScheduler for every choice of its constants.  Inv   *)
(* is the inductive invariant: the consistency of the tables (RegistryInv) *)
(* gives exclusiveness, because a routine is re-created (and its lock_     *)
(* reset) only when nobody can hold it any more.                           *)
(***************************************************************************)
EXTENDS ClassicScheduler, TLAPS

\* vector::erase leaves a queue of routines.
LEMMA EraseFirstType ==
  ASSUME NEW S, NEW s \in Seq(S), NEW c
  PROVE  EraseFirst(s, c) \in Seq(S)
<1>1. CASE Within(s, c)
  <2> DEFINE k == CHOOSE i \in DOMAIN s : s[i] = c /\ \A j \in 1 .. i - 1 : s[j] # c
             e == [i \in 1 .. Len(s) - 1 |-> IF i < k THEN s[i] ELSE s[i + 1]]
  <2>1. Len(s) \in Nat /\ Len(s) - 1 \in Nat
    BY <1>1 DEF Within
  <2>2. \A i \in 1 .. Len(s) - 1 : e[i] \in S
    BY <2>1
  <2>3. e \in Seq(S)
    BY <2>1, <2>2
  <2> QED BY <1>1, <2>3 DEF EraseFirst
<1>2. CASE ~ Within(s, c)
  BY <1>2 DEF EraseFirst
<1> QED BY <1>1, <1>2

\* Init is well typed.
LEMMA TypeInit == Init => TypeOK
<1> SUFFICES ASSUME Init PROVE TypeOK
  OBVIOUS
<1> USE SchedulerAssumption DEF Init
<1>1. CRoutineTypeOK
  BY DEF CRoutineInit, CRoutineTypeOK, RoutineState
<1>2. DataTypeOK
  BY DEF DataTypeOK
<1>3. RegistryTypeOK
  BY DEF RegistryTypeOK, Prios
<1>4. ProcessorTypeOK
  BY DEF ProcessorTypeOK, ProcessorPc, Holding, Prios
<1>5. StopTypeOK
  BY DEF StopTypeOK
<1>6. ClientTypeOK
  BY DEF ClientTypeOK, ClientPc, Working
<1> QED BY <1>1, <1>2, <1>3, <1>4, <1>5, <1>6 DEF TypeOK

\* Every step keeps the type of the routines.
LEMMA CRoutineTypeStep == TypeOK /\ [Next]_vars => CRoutineTypeOK'
<1> SUFFICES ASSUME TypeOK, [Next]_vars PROVE CRoutineTypeOK'
  OBVIOUS
<1> USE SchedulerAssumption DEF TypeOK, CRoutineTypeOK, RoutineState,
        ProcessorTypeOK, ClientTypeOK, Holding, Working
<1>1. ASSUME NEW p \in Processors, Scan(p) \/ ReleaseAndGoOn(p) \/ Done(p)
      PROVE  CRoutineTypeOK'
  BY <1>1 DEF Scan, ReleaseAndGoOn, Done, Acquire, Release, Goto
<1>2. ASSUME NEW p \in Processors, Update(p)
      PROVE  CRoutineTypeOK'
  <2>1. cur[p] \in Routines
    BY <1>2 DEF Update, Goto
  <2>2. NextState(cur[p], expired[cur[p]]) \in RoutineState
    BY <2>1 DEF NextState
  <2> QED BY <1>2, <2>1, <2>2 DEF Update, UpdateState, SetState
<1>3. ASSUME NEW p \in Processors,
             Resume(p) \/ SetDataWait(p) \/ CallbackReturns(p) \/ CallbackSleeps(p)
      PROVE  CRoutineTypeOK'
  BY <1>3 DEF Resume, SetDataWait, CallbackReturns, CallbackSleeps, SetState, Goto
<1>4. ASSUME NEW k \in Clients, DispatchRegister(k) \/ RemoveUnregister(k) \/ NotifyFlag(k)
      PROVE  CRoutineTypeOK'
  <2>1. cpc[k] \in Working
    BY <1>4 DEF DispatchRegister, RemoveUnregister, NotifyFlag, Step
  <2>2. arg[k] \in Routines
    BY <2>1
  <2> HIDE DEF ProcessorTypeOK, ClientTypeOK
  <2>3. CASE DispatchRegister(k)
    BY <2>2, <2>3 DEF DispatchRegister, Construct, croutineVars
  <2>4. CASE RemoveUnregister(k)
    BY <2>2, <2>4 DEF RemoveUnregister, Stop
  <2>5. CASE NotifyFlag(k)
    BY <2>2, <2>5 DEF NotifyFlag, SetUpdateFlag
  <2> QED BY <1>4, <2>3, <2>4, <2>5
<1>5. CASE UNCHANGED croutineVars
  BY <1>5 DEF croutineVars
<1> QED
  BY <1>1, <1>2, <1>3, <1>4, <1>5
  DEF Next, vars, ProcessorStep, ClientStep, Loop, NextRoutine, LockQueue,
      EndOfQueue, TryFetch, WaitCheck, WaitBlock, Timeout, SpuriousWake,
      DispatchLock, DispatchEnqueue, DispatchNotify, RegisterNotifyCallback,
      RemoveLock, RemoveWriteLock, RemoveErase, NotifyCallback,
      NotifyStopCheck, NotifyLookup, NotifyCv, StopContext, NotifyContext,
      RemoveNext, StopProcessor, NotifyStopped, Join, Shutdown, CreateTask,
      RemoveTask, Dispatch, NotifyTask, Tick

\* Every step keeps the type of the message buffers and routine bodies.
LEMMA DataTypeStep == TypeOK /\ [Next]_vars => DataTypeOK'
<1> SUFFICES ASSUME TypeOK, [Next]_vars PROVE DataTypeOK'
  OBVIOUS
<1> USE SchedulerAssumption DEF TypeOK, DataTypeOK, dataVars, bodyVars
<1>1. ASSUME NEW p \in Processors, CallbackReturns(p) \/ CallbackSleeps(p)
      PROVE  DataTypeOK'
  BY <1>1 DEF CallbackReturns, CallbackSleeps
<1>2. ASSUME NEW p \in Processors, TryFetch(p)
      PROVE  DataTypeOK'
  <2>1. cur[p] \in Routines
    BY <1>2 DEF TryFetch, Goto, ProcessorTypeOK, Holding
  <2>2. FetchIndex(cur[p]) + 1 \in Nat
    BY <2>1 DEF FetchIndex
  <2> QED BY <1>2, <2>1, <2>2 DEF TryFetch
<1>3. ASSUME NEW k \in Clients, DispatchRegister(k) \/ RegisterNotifyCallback(k)
      PROVE  DataTypeOK'
  BY <1>3 DEF DispatchRegister, RegisterNotifyCallback
<1>4. ASSUME NEW k \in Clients, NotifyCallback(k)
      PROVE  DataTypeOK'
  <2>1. arg[k] \in Routines
    BY <1>4 DEF NotifyCallback, Step, ClientTypeOK, Working
  <2> QED BY <1>4, <2>1 DEF NotifyCallback
<1>5. ASSUME NEW k \in Clients, NEW c \in Routines, Dispatch(k, c)
      PROVE  DataTypeOK'
  BY <1>5 DEF Dispatch
<1>6. ASSUME NEW c \in Routines, Tick(c)
      PROVE  DataTypeOK'
  BY <1>6 DEF Tick
<1>7. CASE UNCHANGED <<dataVars, bodyVars>>
  BY <1>7
<1> QED
  BY ZenonT(60), <1>1, <1>2, <1>3, <1>4, <1>5, <1>6, <1>7
  DEF Next, vars, ProcessorStep, ClientStep, Loop, NextRoutine, LockQueue,
      Scan, EndOfQueue, Update, ReleaseAndGoOn, Resume, SetDataWait, Done,
      WaitCheck, WaitBlock, Timeout, SpuriousWake, DispatchLock,
      DispatchEnqueue, DispatchNotify, RemoveLock, RemoveUnregister,
      RemoveWriteLock, RemoveErase, NotifyStopCheck, NotifyLookup,
      NotifyFlag, NotifyCv, StopContext, NotifyContext, RemoveNext,
      StopProcessor, NotifyStopped, Join, Shutdown, CreateTask, RemoveTask,
      NotifyTask

\* Every step keeps the type of id_cr_, its mutexes and the run queues.
LEMMA RegistryTypeStep == TypeOK /\ [Next]_vars => RegistryTypeOK'
<1> SUFFICES ASSUME TypeOK, [Next]_vars PROVE RegistryTypeOK'
  OBVIOUS
<1> USE SchedulerAssumption DEF TypeOK, RegistryTypeOK, registryVars
<1>1. ASSUME NEW k \in Clients,
             \/ DispatchLock(k) \/ DispatchNotify(k) \/ RemoveLock(k)
             \/ DispatchRegister(k) \/ RemoveUnregister(k)
      PROVE  RegistryTypeOK'
  <2>1. arg[k] \in Routines
    BY <1>1 DEF DispatchLock, DispatchNotify, RemoveLock, DispatchRegister,
                RemoveUnregister, Step, ClientTypeOK, Working
  <2> QED BY <1>1, <2>1
          DEF DispatchLock, DispatchNotify, RemoveLock, DispatchRegister,
              RemoveUnregister, LockId, UnlockId
<1>2. ASSUME NEW k \in Clients, DispatchEnqueue(k)
      PROVE  RegistryTypeOK'
  <2>1. arg[k] \in Routines
    BY <1>2 DEF DispatchEnqueue, Step, ClientTypeOK, Working
  <2>2. \A i \in Prios : Append(cr_group_[i], arg[k]) \in Seq(Routines)
    BY <2>1
  <2> QED BY <1>2, <2>2 DEF DispatchEnqueue
<1>3. ASSUME NEW k \in Clients, RemoveErase(k)
      PROVE  RegistryTypeOK'
  <2>1. \A i \in Prios : EraseFirst(cr_group_[i], arg[k]) \in Seq(Routines)
    BY EraseFirstType
  <2>2. cr_group_' \in [Prios -> Seq(Routines)]
    BY <1>3, <2>1 DEF RemoveErase
  <2> QED BY <1>3, <2>2 DEF RemoveErase, UnlockId
<1>4. CASE UNCHANGED registryVars
  BY <1>4
<1> QED
  BY ZenonT(60), <1>1, <1>2, <1>3, <1>4
  DEF Next, vars, ProcessorStep, ClientStep, Loop, NextRoutine, LockQueue,
      Scan, EndOfQueue, Update, ReleaseAndGoOn, Resume, SetDataWait, TryFetch,
      CallbackReturns, CallbackSleeps, Done, WaitCheck, WaitBlock, Timeout,
      SpuriousWake, RegisterNotifyCallback, RemoveWriteLock, NotifyCallback,
      NotifyStopCheck, NotifyLookup, NotifyFlag, NotifyCv, StopContext,
      NotifyContext, RemoveNext, StopProcessor, NotifyStopped, Join, Shutdown,
      CreateTask, RemoveTask, Dispatch, NotifyTask, Tick

\* Every step keeps the type of the processors (cur names a routine exactly while one is held).
LEMMA ProcessorTypeStep == TypeOK /\ [Next]_vars => ProcessorTypeOK'
<1> SUFFICES ASSUME TypeOK, [Next]_vars PROVE ProcessorTypeOK'
  OBVIOUS
<1> USE SchedulerAssumption DEF TypeOK, ProcessorTypeOK, ProcessorPc, Holding, Prios
<1>1. ASSUME NEW p \in Processors, NEW from, NEW to \in ProcessorPc,
             from \in Holding <=> to \in Holding, Goto(p, from, to),
             UNCHANGED cur, lvl' \in [Processors -> Prios],
             idx' \in [Processors -> Nat \ {0}],
             need_sleep_' \in [Processors -> BOOLEAN]
      PROVE  ProcessorTypeOK'
  BY <1>1 DEF Goto
<1>2. ASSUME NEW p \in Processors,
             \/ Loop(p) \/ LockQueue(p) \/ WaitCheck(p) \/ WaitBlock(p)
             \/ SetDataWait(p) \/ TryFetch(p) \/ CallbackReturns(p)
             \/ CallbackSleeps(p)
      PROVE  ProcessorTypeOK'
  <2>1. UNCHANGED <<cur, lvl, idx, need_sleep_>>
    BY <1>2 DEF Loop, LockQueue, WaitCheck, WaitBlock, SetDataWait, TryFetch,
                CallbackReturns, CallbackSleeps
  <2>2. PICK from, to \in ProcessorPc :
          (from \in Holding <=> to \in Holding) /\ Goto(p, from, to)
    BY <1>2 DEF Loop, LockQueue, WaitCheck, WaitBlock, SetDataWait, TryFetch,
                CallbackReturns, CallbackSleeps
  <2> QED BY <1>1, <2>1, <2>2
<1>3. ASSUME NEW p \in Processors, NextRoutine(p) \/ EndOfQueue(p)
      PROVE  ProcessorTypeOK'
  <2>1. /\ UNCHANGED <<cur, need_sleep_>>
        /\ lvl' \in [Processors -> Prios]
        /\ idx' \in [Processors -> Nat \ {0}]
    BY <1>3 DEF NextRoutine, EndOfQueue
  <2>2. PICK from, to \in ProcessorPc :
          (from \in Holding <=> to \in Holding) /\ Goto(p, from, to)
    BY <1>3 DEF NextRoutine, EndOfQueue
  <2> QED BY <1>1, <2>1, <2>2
<1>9. ASSUME NEW p \in Processors, Update(p) \/ Resume(p)
      PROVE  ProcessorTypeOK'
  <2>3. /\ UNCHANGED cur
        /\ lvl' \in [Processors -> Prios]
        /\ idx' \in [Processors -> Nat \ {0}]
    BY <1>9 DEF Update, Resume
  <2>4. (need_sleep_[p] \/ NextState(cur[p], expired[cur[p]]) = "SLEEP") \in BOOLEAN
    OBVIOUS
  <2>1. need_sleep_' \in [Processors -> BOOLEAN]
    BY <1>9, <2>4 DEF Update, Resume
  <2>2. PICK from, to \in ProcessorPc :
          (from \in Holding <=> to \in Holding) /\ Goto(p, from, to)
    BY <1>9 DEF Update, Resume, Goto
  <2> QED BY <1>1, <2>1, <2>2, <2>3
<1>10. ASSUME NEW p \in Processors, Scan(p)
       PROVE  ProcessorTypeOK'
  <2>1. cr_group_[lvl[p]][idx[p]] \in Routines
    BY <1>10 DEF Scan, RegistryTypeOK
  <2>2. CASE UNCHANGED idx
    BY <1>10, <2>1, <2>2 DEF Scan
  <2>3. CASE UNCHANGED <<ppc, cur>>
    BY <1>10, <2>3 DEF Scan
  <2> QED BY <1>10, <2>2, <2>3 DEF Scan
<1>4. ASSUME NEW p \in Processors, ReleaseAndGoOn(p) \/ Done(p)
      PROVE  ProcessorTypeOK'
  BY <1>4 DEF ReleaseAndGoOn, Done, Goto
<1>5. ASSUME NEW ps \in SUBSET Blocked, Wake(ps)
      PROVE  ProcessorTypeOK'
  BY <1>5 DEF Wake, Blocked
<1>6. ASSUME NEW p \in Processors, Timeout(p) \/ SpuriousWake(p)
      PROVE  ProcessorTypeOK'
  BY <1>5, <1>6 DEF Timeout, SpuriousWake, Blocked
<1>7. ASSUME NEW k \in Clients,
             \/ DispatchNotify(k) \/ NotifyCv(k)
             \/ NotifyContext(k) \/ NotifyStopped(k)
      PROVE  ProcessorTypeOK'
  <2>1. \/ UNCHANGED procVars
        \/ \E ps \in SUBSET Blocked : Wake(ps)
    BY <1>7 DEF DispatchNotify, NotifyCv, NotifyContext, NotifyStopped,
                NotifyOne, NotifyAll
  <2> QED BY <1>5, <2>1 DEF procVars
<1>8. CASE UNCHANGED procVars
  BY <1>8 DEF procVars
<1> QED
  BY <1>2, <1>3, <1>4, <1>6, <1>7, <1>8, <1>9, <1>10
  DEF Next, vars, ProcessorStep, ClientStep, DispatchLock, DispatchRegister,
      DispatchEnqueue, RegisterNotifyCallback, RemoveLock, RemoveUnregister,
      RemoveWriteLock, RemoveErase, NotifyCallback, NotifyStopCheck,
      NotifyLookup, NotifyFlag, StopContext, RemoveNext, StopProcessor, Join,
      Shutdown, CreateTask, RemoveTask, Dispatch, NotifyTask, Tick

\* Every step keeps the type of the shutdown state.
LEMMA StopTypeStep == TypeOK /\ [Next]_vars => StopTypeOK'
<1> SUFFICES ASSUME TypeOK, [Next]_vars PROVE StopTypeOK'
  OBVIOUS
<1> USE SchedulerAssumption DEF TypeOK, StopTypeOK, stopVars
<1>1. ASSUME NEW k \in Clients,
             \/ StopContext(k) \/ NotifyContext(k) \/ RemoveNext(k)
             \/ StopProcessor(k) \/ Shutdown(k)
      PROVE  StopTypeOK'
  BY <1>1 DEF StopContext, NotifyContext, RemoveNext, StopProcessor, Shutdown,
              RegistryTypeOK
<1>2. CASE UNCHANGED stopVars
  BY <1>2
<1> QED
  BY ZenonT(60), <1>1, <1>2
  DEF Next, vars, ProcessorStep, ClientStep, Loop, NextRoutine, LockQueue,
      Scan, EndOfQueue, Update, ReleaseAndGoOn, Resume, SetDataWait, TryFetch,
      CallbackReturns, CallbackSleeps, Done, WaitCheck, WaitBlock, Timeout,
      SpuriousWake, DispatchLock, DispatchRegister, DispatchEnqueue,
      DispatchNotify, RegisterNotifyCallback, RemoveLock, RemoveUnregister,
      RemoveWriteLock, RemoveErase, NotifyCallback, NotifyStopCheck,
      NotifyLookup, NotifyFlag, NotifyCv, NotifyStopped, Join, CreateTask,
      RemoveTask, Dispatch, NotifyTask, Tick

\* Every step keeps the type of the clients.
LEMMA ClientTypeStep == TypeOK /\ [Next]_vars => ClientTypeOK'
<1> SUFFICES ASSUME TypeOK, [Next]_vars PROVE ClientTypeOK'
  OBVIOUS
<1> USE SchedulerAssumption DEF TypeOK, ClientTypeOK, ClientPc, Working
<1>1. ASSUME NEW k \in Clients, NEW from, NEW to \in ClientPc,
             from \in Working \/ to \notin Working, Step(k, from, to)
      PROVE  ClientTypeOK'
  BY <1>1 DEF Step
<1>2. ASSUME NEW k \in Clients, NEW from, NEW to \in ClientPc,
             NEW c \in Routines, Call(k, from, c, to)
      PROVE  ClientTypeOK'
  BY <1>2 DEF Call
<1>3. ASSUME NEW k \in Clients, ClientStep(k) \/ Shutdown(k)
      PROVE  ClientTypeOK'
  <2>1. CASE \/ DispatchLock(k) \/ DispatchRegister(k) \/ DispatchEnqueue(k)
             \/ DispatchNotify(k) \/ RegisterNotifyCallback(k)
    BY <1>1, <2>1 DEF DispatchLock, DispatchRegister, DispatchEnqueue,
                      DispatchNotify, RegisterNotifyCallback
  <2>2. CASE RemoveLock(k) \/ RemoveUnregister(k) \/ RemoveWriteLock(k) \/ RemoveErase(k)
    <3>1. Returned(k) \in {"idle", "sd_remove"}
      BY DEF Returned
    <3> QED BY <1>1, <2>2, <3>1
            DEF RemoveLock, RemoveUnregister, RemoveWriteLock, RemoveErase
  <2>3. CASE \/ NotifyCallback(k) \/ NotifyStopCheck(k) \/ NotifyLookup(k)
             \/ NotifyFlag(k) \/ NotifyCv(k)
    BY <1>1, <2>3 DEF NotifyCallback, NotifyStopCheck, NotifyLookup,
                      NotifyFlag, NotifyCv
  <2>4. CASE \/ StopContext(k) \/ NotifyContext(k) \/ StopProcessor(k)
             \/ NotifyStopped(k) \/ Join(k) \/ Shutdown(k)
    BY <1>1, <2>4 DEF StopContext, NotifyContext, StopProcessor,
                      NotifyStopped, Join, Shutdown
  <2>5. CASE RemoveNext(k)
    BY <2>5 DEF RemoveNext, StopTypeOK, Step, Call
  <2> QED BY <1>3, <2>1, <2>2, <2>3, <2>4, <2>5 DEF ClientStep
<1>4. ASSUME NEW k \in Clients, NEW c \in Routines,
             CreateTask(k, c) \/ RemoveTask(k, c) \/ Dispatch(k, c) \/ NotifyTask(k, c)
      PROVE  ClientTypeOK'
  BY <1>2, <1>4 DEF CreateTask, RemoveTask, Dispatch, NotifyTask
<1>5. CASE UNCHANGED clientVars
  BY <1>5 DEF clientVars
<1> QED
  BY <1>3, <1>4, <1>5
  DEF Next, vars, ProcessorStep, Loop, NextRoutine, LockQueue, Scan,
      EndOfQueue, Update, ReleaseAndGoOn, Resume, SetDataWait, TryFetch,
      CallbackReturns, CallbackSleeps, Done, WaitCheck, WaitBlock, Timeout,
      SpuriousWake, Tick

\* The type invariant of the scheduler.
THEOREM TypeCorrect == Spec => []TypeOK
<1>1. TypeOK /\ [Next]_vars => TypeOK'
  BY CRoutineTypeStep, DataTypeStep, RegistryTypeStep, ProcessorTypeStep,
     StopTypeStep, ClientTypeStep DEF TypeOK
<1> QED BY TypeInit, <1>1, PTL DEF Spec

-----------------------------------------------------------------------------
\* A clamped priority is the index of a run queue.
LEMMA PrioType == ASSUME NEW c \in Routines PROVE Prio(c) \in Prios
  BY SchedulerAssumption DEF Prio, Prios

\* What emplace_back adds to a queue.
LEMMA AppendWithin ==
  ASSUME NEW s \in Seq(Routines), NEW c \in Routines, NEW x \in Routines
  PROVE  Within(Append(s, c), x) <=> Within(s, x) \/ x = c
<1>1. ASSUME Within(s, x) PROVE Within(Append(s, c), x)
  BY <1>1 DEF Within
<1>2. ASSUME x = c PROVE Within(Append(s, c), x)
  <2>1. Len(s) + 1 \in DOMAIN Append(s, c) /\ Append(s, c)[Len(s) + 1] = c
    OBVIOUS
  <2> QED BY <1>2, <2>1 DEF Within
<1>3. ASSUME Within(Append(s, c), x) PROVE Within(s, x) \/ x = c
  BY <1>3 DEF Within
<1> QED BY <1>1, <1>2, <1>3

\* Erasing an id from a queue without duplicates removes it and nothing else.
LEMMA EraseFirstWithin ==
  ASSUME NEW s \in Seq(Routines), NEW c \in Routines,
         \A a, b \in DOMAIN s : s[a] = s[b] => a = b
  PROVE  LET e == EraseFirst(s, c) IN
         /\ \A a, b \in DOMAIN e : e[a] = e[b] => a = b
         /\ \A a \in DOMAIN e : \E b \in DOMAIN s : e[a] = s[b]
         /\ \A x \in Routines : Within(e, x) <=> Within(s, x) /\ x # c
<1> DEFINE First(i) == s[i] = c /\ \A j \in 1 .. i - 1 : s[j] # c
           k == CHOOSE i \in DOMAIN s : First(i)
           e == EraseFirst(s, c)
<1>1. CASE ~Within(s, c)
  <2>1. e = s
    BY <1>1 DEF EraseFirst
  <2> QED BY <1>1, <2>1 DEF Within
<1>2. CASE Within(s, c)
  <2>1. PICK m \in DOMAIN s : s[m] = c
    BY <1>2 DEF Within
  <2>2. First(m)
    BY <2>1
  <2>3. k \in DOMAIN s /\ First(k)
    BY <2>2
  <2>4. k \in 1 .. Len(s) /\ s[k] = c
    BY <2>3
  <2>5. e = [i \in 1 .. Len(s) - 1 |-> IF i < k THEN s[i] ELSE s[i + 1]]
    BY <1>2 DEF EraseFirst
  <2> HIDE DEF k, e
  <2>6. Len(s) \in Nat /\ DOMAIN s = 1 .. Len(s) /\ DOMAIN e = 1 .. Len(s) - 1
    BY <2>5
  <2> DEFINE At(a) == IF a < k THEN a ELSE a + 1
  <2>7. \A a \in DOMAIN e : At(a) \in DOMAIN s /\ At(a) # k /\ e[a] = s[At(a)]
    BY <2>4, <2>5, <2>6
  <2>8. \A a, b \in DOMAIN e : e[a] = e[b] => a = b
    <3> SUFFICES ASSUME NEW a \in DOMAIN e, NEW b \in DOMAIN e, e[a] = e[b]
                 PROVE  a = b
      OBVIOUS
    <3>1. At(a) = At(b)
      BY <2>7
    <3> QED BY <3>1, <2>4, <2>6
  <2>9. \A a \in DOMAIN e : e[a] # c
    BY <2>4, <2>6, <2>7
  <2>10. ASSUME NEW x \in Routines, Within(s, x), x # c
         PROVE  Within(e, x)
    <3>1. PICK i \in DOMAIN s : s[i] = x
      BY <2>10 DEF Within
    <3>2. i # k
      BY <3>1, <2>4, <2>10
    <3>3. CASE i < k
      <4>1. i \in DOMAIN e /\ e[i] = x
        BY <3>1, <3>3, <2>4, <2>5, <2>6
      <4> QED BY <4>1 DEF Within
    <3>4. CASE i > k
      <4>1. i - 1 \in DOMAIN e /\ e[i - 1] = x
        BY <3>1, <3>4, <2>4, <2>5, <2>6
      <4> QED BY <4>1 DEF Within
    <3> QED BY <3>2, <3>3, <3>4, <2>4, <2>6
  <2>11. ASSUME NEW x \in Routines, Within(e, x)
         PROVE  Within(s, x) /\ x # c
    BY <2>7, <2>9, <2>11 DEF Within
  <2> QED BY <2>7, <2>8, <2>10, <2>11 DEF e
<1> QED BY <1>1, <1>2

-----------------------------------------------------------------------------
\* No client enters or leaves the part of an operation that owns an id.
Aloof ==
  /\ UNCHANGED registryVars
  /\ \A k \in Clients : cpc[k] \in Owning \/ cpc'[k] \in Owning =>
                         cpc'[k] = cpc[k] /\ arg'[k] = arg[k]

\* DispatchTask queues exactly its routine.
LEMMA EnqueueEffect ==
  ASSUME TypeOK, NEW k \in Clients, DispatchEnqueue(k)
  PROVE  \A x \in Routines : Queued(x)' <=> Queued(x) \/ x = arg[k]
<1> DEFINE c == arg[k]
<1>1. c \in Routines /\ Prio(c) \in Prios /\ cr_group_ \in [Prios -> Seq(Routines)]
  BY PrioType DEF DispatchEnqueue, Step, TypeOK, RegistryTypeOK, ClientTypeOK, Working
<1>2. cr_group_' = [cr_group_ EXCEPT ![Prio(c)] = Append(@, c)]
  BY DEF DispatchEnqueue
<1> HIDE DEF c
<1>3. ASSUME NEW x \in Routines PROVE Queued(x)' <=> Queued(x) \/ x = c
  <2>1. CASE Prio(x) = Prio(c)
    <3>1. cr_group_'[Prio(x)] = Append(cr_group_[Prio(x)], c)
      BY <1>1, <1>2, <2>1
    <3> QED BY <3>1, <1>1, <2>1, AppendWithin DEF Queued
  <2>2. CASE Prio(x) # Prio(c)
    <3>1. cr_group_'[Prio(x)] = cr_group_[Prio(x)]
      BY <1>1, <1>2, <2>2, PrioType
    <3> QED BY <3>1, <2>2 DEF Queued
  <2> QED BY <2>1, <2>2
<1> QED BY <1>3 DEF c

\* RemoveCRoutine dequeues exactly its routine.
LEMMA EraseEffect ==
  ASSUME TypeOK, QueuedOnce, NEW k \in Clients, RemoveErase(k)
  PROVE  \A x \in Routines : Queued(x)' <=> Queued(x) /\ x # arg[k]
<1> DEFINE c == arg[k]
           s == cr_group_[Prio(c)]
<1>1. c \in Routines /\ Prio(c) \in Prios /\ cr_group_ \in [Prios -> Seq(Routines)]
  BY PrioType DEF RemoveErase, Step, TypeOK, RegistryTypeOK, ClientTypeOK, Working
<1>2. cr_group_' = [cr_group_ EXCEPT ![Prio(c)] = EraseFirst(s, c)]
  BY <1>1 DEF RemoveErase
<1>3. s \in Seq(Routines) /\ \A a, b \in DOMAIN s : s[a] = s[b] => a = b
  BY <1>1 DEF QueuedOnce
<1>4. \A x \in Routines : Within(EraseFirst(s, c), x) <=> Within(s, x) /\ x # c
  BY <1>1, <1>3, EraseFirstWithin
<1> HIDE DEF c
<1>5. ASSUME NEW x \in Routines PROVE Queued(x)' <=> Queued(x) /\ x # c
  <2>1. CASE Prio(x) = Prio(c)
    <3>1. cr_group_'[Prio(x)] = EraseFirst(s, c)
      BY <1>1, <1>2, <2>1
    <3> QED BY <3>1, <1>4, <2>1 DEF Queued
  <2>2. CASE Prio(x) # Prio(c)
    <3>1. cr_group_'[Prio(x)] = cr_group_[Prio(x)]
      BY <1>1, <1>2, <2>2, PrioType
    <3> QED BY <3>1, <2>2 DEF Queued
  <2> QED BY <2>1, <2>2
<1> QED BY <1>5 DEF c

\* The tables stay consistent under every step.
LEMMA RegistryStep == TypeOK /\ RegistryInv /\ [Next]_vars => RegistryInv'
<1> SUFFICES ASSUME TypeOK, RegistryInv, [Next]_vars
             PROVE  RegistryInv'
  OBVIOUS
<1> USE SchedulerAssumption DEF TypeOK, RegistryTypeOK, ClientTypeOK,
        ClientPc, Working, Owning, Removing
<1>0. UNCHANGED cr_group_ => QueuedOnce' /\ \A c \in Routines : Queued(c)' <=> Queued(c)
  BY DEF RegistryInv, QueuedOnce, Queued
<1>1. CASE Aloof
  <2>1. /\ UNCHANGED <<id_cr_, id_map_mutex_, cr_group_>>
        /\ \A k \in Clients : cpc[k] \in Owning \/ cpc'[k] \in Owning =>
                               cpc'[k] = cpc[k] /\ arg'[k] = arg[k]
    BY <1>1 DEF Aloof, registryVars
  <2>2. OwnsId'
    BY <2>1 DEF RegistryInv, OwnsId
  <2>3. EnqueuedOnceRegistered' /\ RemovedOnceUnregistered'
    BY <2>1, <1>0 DEF RegistryInv, EnqueuedOnceRegistered, RemovedOnceUnregistered
  <2>4. QueuedIsKnown'
    BY <2>1, <1>0 DEF RegistryInv, QueuedIsKnown
  <2> QED BY <1>0, <2>1, <2>2, <2>3, <2>4 DEF RegistryInv
<1>2. ASSUME NEW k \in Clients, DispatchLock(k) \/ RemoveLock(k)
      PROVE  RegistryInv'
  <2>1. arg[k] \in Routines
    BY <1>2 DEF DispatchLock, RemoveLock, Step
  <2>2. /\ UNCHANGED <<id_cr_, cr_group_>>
        /\ id_map_mutex_[arg[k]] = None
        /\ id_map_mutex_' = [id_map_mutex_ EXCEPT ![arg[k]] = k]
        /\ cpc'[k] \in Owning \ Removing /\ cpc'[k] # "cr_enqueue"
        /\ cpc[k] \notin Removing
        /\ arg'[k] = arg[k]
        /\ \A j \in Clients \ {k} : cpc'[j] = cpc[j] /\ arg'[j] = arg[j]
    BY <1>2 DEF DispatchLock, RemoveLock, Step, LockId
  <2>3. OwnsId'
    BY <2>1, <2>2 DEF RegistryInv, OwnsId
  <2>4. EnqueuedOnceRegistered' /\ RemovedOnceUnregistered'
    BY <2>2 DEF RegistryInv, EnqueuedOnceRegistered, RemovedOnceUnregistered, Queued
  <2>5. QueuedIsKnown' /\ QueuedOnce'
    BY <2>2, <1>0 DEF RegistryInv, QueuedIsKnown
  <2> QED BY <2>3, <2>4, <2>5 DEF RegistryInv
<1>3. ASSUME NEW k \in Clients, DispatchRegister(k)
      PROVE  RegistryInv'
  <2>1. arg[k] \in Routines /\ id_map_mutex_[arg[k]] = k
    BY <1>3 DEF DispatchRegister, Step, RegistryInv, OwnsId
  <2>2. /\ UNCHANGED cr_group_
        /\ cpc[k] = "cr_register"
        /\ \A j \in Clients \ {k} : cpc'[j] = cpc[j] /\ arg'[j] = arg[j]
    BY <1>3 DEF DispatchRegister, Step
  <2>3. \A j \in Clients \ {k} : cpc[j] \in Owning => arg[j] # arg[k]
    BY <2>1 DEF RegistryInv, OwnsId
  <2>4. CASE arg[k] \in id_cr_
    <3>1. /\ UNCHANGED id_cr_
          /\ cpc'[k] = "idle"
          /\ id_map_mutex_' = [id_map_mutex_ EXCEPT ![arg[k]] = None]
      BY <1>3, <2>4 DEF DispatchRegister, Step, UnlockId
    <3>2. OwnsId'
      BY <2>1, <2>2, <2>3, <3>1 DEF RegistryInv, OwnsId
    <3>3. EnqueuedOnceRegistered' /\ RemovedOnceUnregistered'
      BY <2>2, <3>1 DEF RegistryInv, EnqueuedOnceRegistered, RemovedOnceUnregistered, Queued
    <3>4. QueuedIsKnown' /\ QueuedOnce'
      BY <2>2, <3>1, <1>0, SMTT(40) DEF RegistryInv, QueuedIsKnown
    <3> QED BY <3>2, <3>3, <3>4 DEF RegistryInv
  <2>5. CASE arg[k] \notin id_cr_
    <3>1. /\ id_cr_' = id_cr_ \union {arg[k]}
          /\ cpc'[k] = "cr_enqueue" /\ arg'[k] = arg[k]
          /\ UNCHANGED id_map_mutex_
      BY <1>3, <2>5 DEF DispatchRegister, Step
    <3>2. ~Queued(arg[k])
      BY <2>1, <2>2, <2>3, <2>5 DEF RegistryInv, QueuedIsKnown
    <3>3. OwnsId'
      BY <2>1, <2>2, <3>1 DEF RegistryInv, OwnsId
    <3>4. EnqueuedOnceRegistered' /\ RemovedOnceUnregistered'
      BY <2>2, <2>3, <3>1, <3>2 DEF RegistryInv, EnqueuedOnceRegistered, RemovedOnceUnregistered, Queued
    <3>5. QueuedIsKnown' /\ QueuedOnce'
      BY <2>2, <3>1, <1>0 DEF RegistryInv, QueuedIsKnown
    <3> QED BY <3>3, <3>4, <3>5 DEF RegistryInv
  <2> QED BY <2>4, <2>5
<1>4. ASSUME NEW k \in Clients, DispatchEnqueue(k)
      PROVE  RegistryInv'
  <2> DEFINE c == arg[k]
  <2>1. c \in Routines /\ Prio(c) \in Prios /\ id_map_mutex_[c] = k
    BY <1>4, PrioType DEF DispatchEnqueue, Step, RegistryInv, OwnsId
  <2>2. c \in id_cr_ /\ ~Queued(c)
    BY <1>4 DEF DispatchEnqueue, Step, RegistryInv, EnqueuedOnceRegistered
  <2>3. /\ UNCHANGED <<id_cr_, id_map_mutex_>>
        /\ cr_group_' = [cr_group_ EXCEPT ![Prio(c)] = Append(@, c)]
        /\ cpc[k] = "cr_enqueue" /\ cpc'[k] = "cr_notify" /\ arg'[k] = c
        /\ \A j \in Clients \ {k} : cpc'[j] = cpc[j] /\ arg'[j] = arg[j]
    BY <1>4 DEF DispatchEnqueue, Step
  <2>4. \A j \in Clients \ {k} : cpc[j] \in Owning => arg[j] # c
    BY <2>1 DEF RegistryInv, OwnsId
  <2> HIDE DEF c
  <2>5. \A x \in Routines : Queued(x)' <=> Queued(x) \/ x = c
    BY <1>4, EnqueueEffect DEF c
  <2>6. OwnsId'
    BY <2>1, <2>3 DEF RegistryInv, OwnsId, c
  <2>7. EnqueuedOnceRegistered' /\ RemovedOnceUnregistered'
    BY <2>3, <2>4, <2>5 DEF RegistryInv, EnqueuedOnceRegistered, RemovedOnceUnregistered
  <2>8. QueuedIsKnown'
    BY <2>2, <2>3, <2>5, ZenonT(60) DEF RegistryInv, QueuedIsKnown
  <2>9. QueuedOnce'
    <3> SUFFICES ASSUME NEW i \in Prios, NEW a \in DOMAIN cr_group_'[i],
                        NEW b \in DOMAIN cr_group_'[i]
                 PROVE  /\ Prio(cr_group_'[i][a]) = i
                        /\ cr_group_'[i][a] = cr_group_'[i][b] => a = b
      BY DEF QueuedOnce
    <3>1. CASE i # Prio(c)
      <4>1. cr_group_'[i] = cr_group_[i]
        BY <2>1, <2>3, <3>1
      <4> QED BY <4>1 DEF RegistryInv, QueuedOnce
    <3>2. CASE i = Prio(c)
      <4> DEFINE s == cr_group_[i]
      <4>1. s \in Seq(Routines) /\ cr_group_'[i] = Append(s, c)
        BY <2>1, <2>3, <3>2
      <4>2. \A m \in DOMAIN s : s[m] # c
        BY <2>2, <3>2 DEF Queued, Within
      <4>3. \A m, n \in DOMAIN s : Prio(s[m]) = i /\ (s[m] = s[n] => m = n)
        BY DEF RegistryInv, QueuedOnce
      <4> HIDE DEF s
      <4>4. /\ a \in 1 .. Len(s) + 1 /\ b \in 1 .. Len(s) + 1
            /\ Append(s, c)[a] = IF a = Len(s) + 1 THEN c ELSE s[a]
            /\ Append(s, c)[b] = IF b = Len(s) + 1 THEN c ELSE s[b]
            /\ a # Len(s) + 1 => a \in DOMAIN s
            /\ b # Len(s) + 1 => b \in DOMAIN s
        BY <4>1, <2>1
      <4> QED BY <4>1, <4>2, <4>3, <4>4, <3>2
    <3> QED BY <3>1, <3>2
  <2> QED BY <2>6, <2>7, <2>8, <2>9 DEF RegistryInv
<1>5. ASSUME NEW k \in Clients, DispatchNotify(k)
      PROVE  RegistryInv'
  <2>1. arg[k] \in Routines /\ id_map_mutex_[arg[k]] = k
    BY <1>5 DEF DispatchNotify, Step, RegistryInv, OwnsId
  <2>2. /\ UNCHANGED <<id_cr_, cr_group_>>
        /\ id_map_mutex_' = [id_map_mutex_ EXCEPT ![arg[k]] = None]
        /\ cpc[k] = "cr_notify" /\ cpc'[k] = "cr_callback"
        /\ \A j \in Clients \ {k} : cpc'[j] = cpc[j] /\ arg'[j] = arg[j]
    BY <1>5 DEF DispatchNotify, Step, UnlockId
  <2>3. OwnsId'
    BY <2>1, <2>2 DEF RegistryInv, OwnsId
  <2>4. EnqueuedOnceRegistered' /\ RemovedOnceUnregistered'
    BY <2>2 DEF RegistryInv, EnqueuedOnceRegistered, RemovedOnceUnregistered, Queued
  <2>5. QueuedIsKnown' /\ QueuedOnce'
    BY <2>2, <1>0 DEF RegistryInv, QueuedIsKnown
  <2> QED BY <2>3, <2>4, <2>5 DEF RegistryInv
<1>6. ASSUME NEW k \in Clients, RemoveUnregister(k)
      PROVE  RegistryInv'
  <2>1. arg[k] \in Routines /\ id_map_mutex_[arg[k]] = k
    BY <1>6 DEF RemoveUnregister, Step, RegistryInv, OwnsId
  <2>2. /\ UNCHANGED cr_group_
        /\ cpc[k] = "rm_unregister"
        /\ \A j \in Clients \ {k} : cpc'[j] = cpc[j] /\ arg'[j] = arg[j]
    BY <1>6 DEF RemoveUnregister, Step
  <2>3. \A j \in Clients \ {k} : cpc[j] \in Owning => arg[j] # arg[k]
    BY <2>1 DEF RegistryInv, OwnsId
  <2>4. CASE arg[k] \notin id_cr_
    <3>1. /\ UNCHANGED id_cr_
          /\ cpc'[k] \notin Owning
          /\ id_map_mutex_' = [id_map_mutex_ EXCEPT ![arg[k]] = None]
      BY <1>6, <2>4 DEF RemoveUnregister, Step, UnlockId, Returned
    <3>2. OwnsId'
      BY <2>1, <2>2, <2>3, <3>1 DEF RegistryInv, OwnsId
    <3>3. EnqueuedOnceRegistered' /\ RemovedOnceUnregistered'
      BY <2>2, <3>1 DEF RegistryInv, EnqueuedOnceRegistered, RemovedOnceUnregistered, Queued
    <3>5. \A j \in Clients : cpc[j] \in Removing => cpc'[j] = cpc[j] /\ arg'[j] = arg[j]
      BY <2>2
    <3>4. QueuedIsKnown' /\ QueuedOnce'
      BY <2>2, <3>1, <3>5, <1>0 DEF RegistryInv, QueuedIsKnown
    <3> QED BY <3>2, <3>3, <3>4 DEF RegistryInv
  <2>5. CASE arg[k] \in id_cr_
    <3>1. /\ id_cr_' = id_cr_ \ {arg[k]}
          /\ cpc'[k] = "rm_wlock" /\ arg'[k] = arg[k]
          /\ UNCHANGED id_map_mutex_
      BY <1>6, <2>5 DEF RemoveUnregister, Step
    <3>2. OwnsId'
      BY <2>1, <2>2, <3>1 DEF RegistryInv, OwnsId
    <3>3. EnqueuedOnceRegistered' /\ RemovedOnceUnregistered'
      BY <2>2, <2>3, <3>1 DEF RegistryInv, EnqueuedOnceRegistered, RemovedOnceUnregistered, Queued
    <3>4. QueuedIsKnown'
      <4> SUFFICES ASSUME NEW x \in Routines, Queued(x)', x \notin id_cr_'
                   PROVE  \E j \in Clients : cpc'[j] \in Removing /\ arg'[j] = x
        BY DEF QueuedIsKnown
      <4>1. CASE x = arg[k]
        BY <3>1, <4>1
      <4>2. CASE x # arg[k]
        <5>1. PICK j \in Clients : cpc[j] \in Removing /\ arg[j] = x
          BY <1>0, <2>2, <3>1, <4>2 DEF RegistryInv, QueuedIsKnown
        <5> QED BY <5>1, <2>2, <4>2
      <4> QED BY <4>1, <4>2
    <3>5. QueuedOnce'
      BY <1>0, <2>2
    <3> QED BY <3>2, <3>3, <3>4, <3>5 DEF RegistryInv
  <2> QED BY <2>4, <2>5
<1>7. ASSUME NEW k \in Clients, RemoveWriteLock(k)
      PROVE  RegistryInv'
  <2>1. /\ UNCHANGED <<id_cr_, cr_group_, id_map_mutex_>>
        /\ cpc[k] = "rm_wlock" /\ cpc'[k] = "rm_acquire" /\ arg'[k] = arg[k]
        /\ \A j \in Clients \ {k} : cpc'[j] = cpc[j] /\ arg'[j] = arg[j]
    BY <1>7 DEF RemoveWriteLock, Step, registryVars
  <2>2. OwnsId'
    BY <2>1 DEF RegistryInv, OwnsId
  <2>3. EnqueuedOnceRegistered' /\ RemovedOnceUnregistered'
    BY <2>1 DEF RegistryInv, EnqueuedOnceRegistered, RemovedOnceUnregistered, Queued
  <2>4. QueuedIsKnown' /\ QueuedOnce'
    BY <2>1, <1>0 DEF RegistryInv, QueuedIsKnown
  <2> QED BY <2>2, <2>3, <2>4 DEF RegistryInv
<1>8. ASSUME NEW k \in Clients, RemoveErase(k)
      PROVE  RegistryInv'
  <2> DEFINE c == arg[k]
             s == cr_group_[Prio(c)]
             e == EraseFirst(s, c)
  <2>1. c \in Routines /\ Prio(c) \in Prios /\ id_map_mutex_[c] = k
    BY <1>8, PrioType DEF RemoveErase, Step, RegistryInv, OwnsId
  <2>2. /\ UNCHANGED id_cr_
        /\ id_map_mutex_' = [id_map_mutex_ EXCEPT ![c] = None]
        /\ cr_group_' = [cr_group_ EXCEPT ![Prio(c)] = e]
        /\ cpc[k] = "rm_acquire" /\ cpc'[k] \notin Owning
        /\ \A j \in Clients \ {k} : cpc'[j] = cpc[j] /\ arg'[j] = arg[j]
    BY <1>8 DEF RemoveErase, Step, UnlockId, Returned
  <2>3. \A j \in Clients \ {k} : cpc[j] \in Owning => arg[j] # c
    BY <2>1 DEF RegistryInv, OwnsId
  <2>4. s \in Seq(Routines) /\ \A a, b \in DOMAIN s : s[a] = s[b] => a = b
    BY <2>1 DEF RegistryInv, QueuedOnce
  <2>5. /\ \A a, b \in DOMAIN e : e[a] = e[b] => a = b
        /\ \A a \in DOMAIN e : \E b \in DOMAIN s : e[a] = s[b]
        /\ \A x \in Routines : Within(e, x) <=> Within(s, x) /\ x # c
    BY <2>1, <2>4, EraseFirstWithin
  <2> HIDE DEF c, e
  <2>6. \A x \in Routines : Queued(x)' <=> Queued(x) /\ x # c
    BY <1>8, EraseEffect DEF RegistryInv, c
  <2>7. OwnsId'
    BY <2>1, <2>2, <2>3 DEF RegistryInv, OwnsId, c
  <2>8. EnqueuedOnceRegistered' /\ RemovedOnceUnregistered'
    BY <2>2, <2>6 DEF RegistryInv, EnqueuedOnceRegistered, RemovedOnceUnregistered
  <2>9. QueuedIsKnown'
    <3> SUFFICES ASSUME NEW x \in Routines, Queued(x)', x \notin id_cr_
                 PROVE  \E j \in Clients : cpc'[j] \in Removing /\ arg'[j] = x
      BY <2>2 DEF QueuedIsKnown
    <3>1. PICK j \in Clients : cpc[j] \in Removing /\ arg[j] = x
      BY <2>6 DEF RegistryInv, QueuedIsKnown
    <3>2. j # k
      BY <3>1, <2>6 DEF c
    <3> QED BY <3>1, <3>2, <2>2
  <2>10. QueuedOnce'
    <3> SUFFICES ASSUME NEW i \in Prios, NEW a \in DOMAIN cr_group_'[i],
                        NEW b \in DOMAIN cr_group_'[i]
                 PROVE  /\ Prio(cr_group_'[i][a]) = i
                        /\ cr_group_'[i][a] = cr_group_'[i][b] => a = b
      BY DEF QueuedOnce
    <3>1. CASE i # Prio(c)
      <4>1. cr_group_'[i] = cr_group_[i]
        BY <2>1, <2>2, <3>1
      <4> QED BY <4>1 DEF RegistryInv, QueuedOnce
    <3>2. CASE i = Prio(c)
      <4>1. cr_group_'[i] = e
        BY <2>1, <2>2, <3>2
      <4>2. \A m \in DOMAIN s : Prio(s[m]) = i
        BY <2>1, <3>2 DEF RegistryInv, QueuedOnce
      <4> QED BY <4>1, <4>2, <2>5
    <3> QED BY <3>1, <3>2
  <2> QED BY <2>7, <2>8, <2>9, <2>10 DEF RegistryInv
<1>9. ASSUME NEW k \in Clients,
             \/ RegisterNotifyCallback(k) \/ NotifyCallback(k) \/ NotifyStopCheck(k)
             \/ NotifyLookup(k) \/ NotifyFlag(k) \/ NotifyCv(k) \/ StopContext(k)
             \/ NotifyContext(k) \/ StopProcessor(k) \/ NotifyStopped(k)
             \/ Join(k) \/ Shutdown(k)
      PROVE  Aloof
  BY <1>9 DEF RegisterNotifyCallback, NotifyCallback, NotifyStopCheck,
      NotifyLookup, NotifyFlag, NotifyCv, StopContext, NotifyContext,
      StopProcessor, NotifyStopped, Join, Shutdown, Step, Aloof
<1>10. ASSUME NEW k \in Clients, RemoveNext(k)
       PROVE  Aloof
  BY <1>10 DEF RemoveNext, Step, Call, Aloof
<1>11. ASSUME NEW k \in Clients, NEW c \in Routines,
              CreateTask(k, c) \/ RemoveTask(k, c) \/ Dispatch(k, c) \/ NotifyTask(k, c)
       PROVE  Aloof
  BY <1>11 DEF CreateTask, RemoveTask, Dispatch, NotifyTask, Call, Aloof
<1>12. CASE UNCHANGED <<registryVars, clientVars>>
  BY <1>1, <1>12 DEF Aloof, clientVars
<1> QED
  BY <1>1, <1>2, <1>3, <1>4, <1>5, <1>6, <1>7, <1>8, <1>9, <1>10, <1>11, <1>12
  DEF Next, vars, ProcessorStep, ClientStep, Loop, NextRoutine, LockQueue,
      Scan, EndOfQueue, Update, ReleaseAndGoOn, Resume, SetDataWait, TryFetch,
      CallbackReturns, CallbackSleeps, Done, WaitCheck, WaitBlock, Timeout,
      SpuriousWake, Tick

\* A registration in progress finds nobody inside the routine.
LEMMA UnregisteredIsFree ==
  ASSUME TypeOK, RegistryInv, HeldIsLocked, NEW k \in Clients,
         cpc[k] = "cr_register", arg[k] \notin id_cr_
  PROVE  arg[k] \in Routines /\ \A p \in Processors : cur[p] # arg[k]
<1>1. arg[k] \in Routines /\ id_map_mutex_[arg[k]] = k
  BY DEF TypeOK, ClientTypeOK, Working, RegistryInv, OwnsId, Owning
<1>2. \A j \in Clients : cpc[j] \in Removing => arg[j] # arg[k]
  BY <1>1 DEF RegistryInv, OwnsId, Owning, Removing
<1>3. ~Queued(arg[k])
  BY <1>1, <1>2 DEF RegistryInv, QueuedIsKnown
<1> QED BY <1>1, <1>3, SchedulerAssumption DEF HeldIsLocked

\* Acquire and Release keep holders exclusive, locked and queued.
LEMMA HolderStep ==
  TypeOK /\ RegistryInv /\ HeldIsLocked /\ ExclusiveRoutine /\ [Next]_vars
    => HeldIsLocked' /\ ExclusiveRoutine'
<1> SUFFICES ASSUME TypeOK, RegistryInv, HeldIsLocked, ExclusiveRoutine, [Next]_vars
             PROVE  HeldIsLocked' /\ ExclusiveRoutine'
  OBVIOUS
<1> USE SchedulerAssumption DEF HeldIsLocked, ExclusiveRoutine
<1>0. \A p \in Processors : cur[p] \in Routines \union {None}
  BY DEF TypeOK, ProcessorTypeOK
<1>1. ASSUME NEW p \in Processors, Scan(p)
      PROVE  HeldIsLocked' /\ ExclusiveRoutine'
  <2> DEFINE c == cr_group_[lvl[p]][idx[p]]
  <2>1. lvl[p] \in Prios /\ idx[p] \in DOMAIN cr_group_[lvl[p]] /\ c \in Routines
    BY <1>1 DEF Scan, TypeOK, ProcessorTypeOK, RegistryTypeOK
  <2>2. Queued(c)
    BY <2>1 DEF Queued, Within, RegistryInv, QueuedOnce
  <2>3. UNCHANGED cr_group_
    BY <1>1 DEF Scan, registryVars
  <2>4. \A x \in Routines : Queued(x)' <=> Queued(x)
    BY <2>3 DEF Queued
  <2>5. CASE UNCHANGED <<cur, lock_>>
    BY <2>4, <2>5, <1>0
  <2>6. CASE /\ ~lock_[c] /\ lock_' = [lock_ EXCEPT ![c] = TRUE]
             /\ cur' = [cur EXCEPT ![p] = c]
    <3> HIDE DEF c
    <3>1. /\ cur'[p] = c /\ \A q \in Processors \ {p} : cur'[q] = cur[q]
          /\ lock_'[c] /\ \A x \in Routines \ {c} : lock_'[x] = lock_[x]
          /\ \A q \in Processors : cur[q] # c
      BY <2>1, <2>6 DEF TypeOK, CRoutineTypeOK, ProcessorTypeOK
    <3> QED BY <1>0, <2>1, <2>2, <2>4, <3>1
  <2> QED BY <1>1, <2>5, <2>6 DEF Scan, Acquire
<1>2. ASSUME NEW p \in Processors, ReleaseAndGoOn(p) \/ Done(p)
      PROVE  HeldIsLocked' /\ ExclusiveRoutine'
  <2>1. /\ cur[p] \in Routines /\ UNCHANGED cr_group_
        /\ cur' = [cur EXCEPT ![p] = None]
        /\ lock_' = [lock_ EXCEPT ![cur[p]] = FALSE]
    BY <1>2 DEF ReleaseAndGoOn, Done, Goto, Release, registryVars, TypeOK,
                ProcessorTypeOK, Holding
  <2>2. /\ cur'[p] = None /\ \A q \in Processors \ {p} : cur'[q] = cur[q]
        /\ \A x \in Routines \ {cur[p]} : lock_'[x] = lock_[x]
    BY <2>1 DEF TypeOK, CRoutineTypeOK, ProcessorTypeOK
  <2>3. \A x \in Routines : Queued(x)' <=> Queued(x)
    BY <2>1 DEF Queued
  <2> QED BY <1>0, <2>1, <2>2, <2>3
<1>3. ASSUME NEW k \in Clients, DispatchRegister(k)
      PROVE  HeldIsLocked' /\ ExclusiveRoutine'
  <2>1. UNCHANGED <<cur, cr_group_>> /\ \A x \in Routines : Queued(x)' <=> Queued(x)
    BY <1>3 DEF DispatchRegister, procVars, Queued
  <2>2. CASE arg[k] \in id_cr_
    BY <1>0, <1>3, <2>1, <2>2 DEF DispatchRegister, croutineVars
  <2>3. CASE arg[k] \notin id_cr_
    <3>1. arg[k] \in Routines /\ \A p \in Processors : cur[p] # arg[k]
      BY <1>3, <2>3, UnregisteredIsFree DEF DispatchRegister, Step
    <3>2. lock_' = [lock_ EXCEPT ![arg[k]] = FALSE]
      BY <1>3, <2>3 DEF DispatchRegister, Construct
    <3>3. \A x \in Routines \ {arg[k]} : lock_'[x] = lock_[x]
      BY <3>1, <3>2 DEF TypeOK, CRoutineTypeOK
    <3> QED BY <1>0, <2>1, <3>1, <3>3
  <2> QED BY <2>2, <2>3
<1>4. ASSUME NEW k \in Clients, DispatchEnqueue(k)
      PROVE  HeldIsLocked' /\ ExclusiveRoutine'
  <2>1. UNCHANGED <<cur, lock_>>
    BY <1>4 DEF DispatchEnqueue, procVars, croutineVars
  <2>2. \A x \in Routines : Queued(x) => Queued(x)'
    BY <1>4, EnqueueEffect
  <2> QED BY <1>0, <2>1, <2>2
<1>5. ASSUME NEW k \in Clients, RemoveErase(k)
      PROVE  HeldIsLocked' /\ ExclusiveRoutine'
  <2>1. UNCHANGED <<cur, lock_>> /\ (Queued(arg[k]) => ~lock_[arg[k]])
    BY <1>5 DEF RemoveErase, procVars, croutineVars
  <2>2. \A x \in Routines : Queued(x)' <=> Queued(x) /\ x # arg[k]
    BY <1>5, EraseEffect DEF RegistryInv
  <2>3. \A p \in Processors : cur[p] # None => cur[p] # arg[k]
    BY <2>1
  <2> QED BY <1>0, <2>1, <2>2, <2>3
<1>6. CASE UNCHANGED <<cur, lock_, cr_group_>>
  BY <1>6, <1>0 DEF Queued
<1>7. \/ UNCHANGED <<cur, lock_, cr_group_>>
      \/ \E p \in Processors : Scan(p) \/ ReleaseAndGoOn(p) \/ Done(p)
      \/ \E k \in Clients : DispatchRegister(k) \/ DispatchEnqueue(k) \/ RemoveErase(k)
  BY DEF Next, vars, ProcessorStep, ClientStep, Loop, NextRoutine, LockQueue,
      EndOfQueue, Update, Resume, SetDataWait, TryFetch, CallbackReturns,
      CallbackSleeps, WaitCheck, WaitBlock, Timeout, SpuriousWake,
      DispatchLock, DispatchNotify, RegisterNotifyCallback, RemoveLock,
      RemoveUnregister, RemoveWriteLock, NotifyCallback, NotifyStopCheck,
      NotifyLookup, NotifyFlag, NotifyCv, StopContext, NotifyContext,
      RemoveNext, StopProcessor, NotifyStopped, Join, Shutdown, CreateTask,
      RemoveTask, Dispatch, NotifyTask, Tick, croutineVars, procVars,
      registryVars, Wake, NotifyOne, NotifyAll
<1> QED BY <1>1, <1>2, <1>3, <1>4, <1>5, <1>6, <1>7

\* Nobody changes the state of a routine between NextRoutine and Resume.
LEMMA ResumeStep ==
  TypeOK /\ RegistryInv /\ HeldIsLocked /\ ExclusiveRoutine /\ ResumedIsReady
    /\ [Next]_vars => ResumedIsReady'
<1> SUFFICES ASSUME TypeOK, RegistryInv, HeldIsLocked, ExclusiveRoutine,
                    ResumedIsReady, [Next]_vars,
                    NEW q \in Processors, ppc'[q] = "resume"
             PROVE  state_'[cur'[q]] = "READY"
  BY DEF ResumedIsReady
<1> USE SchedulerAssumption DEF ResumedIsReady
<1>0. /\ state_ \in [Routines -> RoutineState]
      /\ ppc \in [Processors -> ProcessorPc]
      /\ \A p \in Processors : ppc[p] \in Holding => cur[p] \in Routines
  BY DEF TypeOK, CRoutineTypeOK, ProcessorTypeOK
<1>1. ASSUME NEW p \in Processors, Update(p)
      PROVE  state_'[cur'[q]] = "READY"
  <2>1. /\ ppc[p] = "update" /\ UNCHANGED cur
        /\ ppc' = [ppc EXCEPT ![p] = IF NextState(cur[p], expired[cur[p]]) = "READY"
                                       THEN "resume" ELSE "release"]
        /\ state_' = [state_ EXCEPT ![cur[p]] = NextState(cur[p], expired[cur[p]])]
    BY <1>1 DEF Update, Goto, UpdateState, SetState
  <2>2. CASE q = p
    BY <1>0, <2>1, <2>2 DEF Holding
  <2>3. CASE q # p
    <3>1. ppc[q] = "resume" /\ cur[q] \in Routines /\ cur[q] # cur[p]
      BY <1>0, <2>1, <2>3 DEF Holding, ExclusiveRoutine
    <3> QED BY <1>0, <2>1, <2>3, <3>1
  <2> QED BY <2>2, <2>3
<1>2. ASSUME NEW p \in Processors,
             Resume(p) \/ SetDataWait(p) \/ CallbackReturns(p) \/ CallbackSleeps(p)
      PROVE  state_'[cur'[q]] = "READY"
  <2>1. /\ ppc[p] \in Holding /\ UNCHANGED cur
        /\ ppc'[p] # "resume" /\ \A r \in Processors \ {p} : ppc'[r] = ppc[r]
        /\ \A x \in Routines \ {cur[p]} : state_'[x] = state_[x]
    BY <1>0, <1>2 DEF Resume, SetDataWait, CallbackReturns, CallbackSleeps,
        Goto, SetState, Holding
  <2>2. q # p /\ ppc[q] = "resume" /\ cur[q] \in Routines /\ cur[q] # cur[p]
    BY <1>0, <2>1 DEF Holding, ExclusiveRoutine
  <2> QED BY <2>1, <2>2
<1>3. ASSUME NEW k \in Clients, DispatchRegister(k)
      PROVE  state_'[cur'[q]] = "READY"
  <2>1. UNCHANGED <<cur, ppc>>
    BY <1>3 DEF DispatchRegister, procVars
  <2>2. \/ UNCHANGED state_
        \/ state_' = [state_ EXCEPT ![arg[k]] = "READY"]
    BY <1>3 DEF DispatchRegister, Construct, croutineVars
  <2>3. cur[q] \in Routines
    BY <1>0, <2>1 DEF Holding
  <2> QED BY <1>0, <2>1, <2>2, <2>3
<1>4. ASSUME NEW p \in Processors, ReleaseAndGoOn(p) \/ Done(p) \/ Scan(p)
      PROVE  state_'[cur'[q]] = "READY"
  <2>1. UNCHANGED state_ /\ ppc'[p] # "resume"
    BY <1>0, <1>4 DEF ReleaseAndGoOn, Done, Scan, Goto
  <2>2. \A r \in Processors \ {p} : ppc'[r] = ppc[r] /\ cur'[r] = cur[r]
    BY <1>0, <1>4 DEF ReleaseAndGoOn, Done, Scan, Goto, TypeOK, ProcessorTypeOK
  <2> QED BY <2>1, <2>2
<1>5. CASE UNCHANGED <<state_, cur>> /\ \A r \in Processors : ppc'[r] = "resume" => ppc[r] = "resume"
  BY <1>5
<1>6. ASSUME NEW p \in Processors,
             \/ Loop(p) \/ NextRoutine(p) \/ LockQueue(p) \/ EndOfQueue(p)
             \/ TryFetch(p) \/ WaitCheck(p) \/ WaitBlock(p)
      PROVE  state_'[cur'[q]] = "READY"
  <2>1. UNCHANGED <<state_, cur>>
    BY <1>6 DEF Loop, NextRoutine, LockQueue, EndOfQueue, TryFetch, WaitCheck,
        WaitBlock, croutineVars
  <2>2. \E from, to : to # "resume" /\ Goto(p, from, to)
    BY <1>6 DEF Loop, NextRoutine, LockQueue, EndOfQueue, TryFetch, WaitCheck, WaitBlock
  <2>3. \A r \in Processors : ppc'[r] = "resume" => ppc[r] = "resume"
    BY <1>0, <2>2 DEF Goto
  <2> QED BY <1>5, <2>1, <2>3
<1>7. ASSUME NEW ps, Wake(ps), UNCHANGED state_
      PROVE  state_'[cur'[q]] = "READY"
  BY <1>0, <1>5, <1>7 DEF Wake
<1>8. CASE UNCHANGED <<state_, procVars>>
  BY <1>8 DEF procVars
<1>9. ASSUME NEW k \in Clients,
             \/ DispatchNotify(k) \/ NotifyCv(k)
             \/ NotifyContext(k) \/ NotifyStopped(k)
      PROVE  state_'[cur'[q]] = "READY"
  <2>1. UNCHANGED state_ /\ (UNCHANGED procVars \/ \E ps : Wake(ps))
    BY <1>9 DEF DispatchNotify, NotifyCv, NotifyContext, NotifyStopped,
        NotifyOne, NotifyAll, croutineVars
  <2> QED BY <1>7, <1>8, <2>1
<1>10. ASSUME NEW p \in Processors, Timeout(p) \/ SpuriousWake(p)
       PROVE  state_'[cur'[q]] = "READY"
  BY <1>7, <1>10 DEF Timeout, SpuriousWake, croutineVars
<1> QED
  BY <1>1, <1>2, <1>3, <1>4, <1>6, <1>8, <1>9, <1>10
  DEF Next, vars, ProcessorStep, ClientStep, croutineVars, DispatchLock,
      DispatchEnqueue, RegisterNotifyCallback, RemoveLock, RemoveUnregister,
      RemoveWriteLock, RemoveErase, NotifyCallback, NotifyStopCheck,
      NotifyLookup, NotifyFlag, StopContext, RemoveNext, StopProcessor, Join,
      Shutdown, CreateTask, RemoveTask, Dispatch, NotifyTask, Tick

\* The consistency of the tables implies quiescence after a removal.
LEMMA QuiescentFromInv == RegistryInv /\ HeldIsLocked /\ TypeOK => RemovedIsQuiescent
<1> SUFFICES ASSUME RegistryInv, HeldIsLocked, TypeOK, NEW c \in Routines,
                    c \notin id_cr_, id_map_mutex_[c] = None
             PROVE  ~Queued(c) /\ \A p \in Processors : cur[p] # c
  BY DEF RemovedIsQuiescent
<1>1. ~Queued(c)
  BY SchedulerAssumption
  DEF RegistryInv, QueuedIsKnown, OwnsId, Owning, Removing
<1> QED BY <1>1, SchedulerAssumption DEF HeldIsLocked

-----------------------------------------------------------------------------
\* The routine body is between set_state(DATA_WAIT) and its Yield.
Fetching(c) == \E p \in Processors : cur[p] = c /\ ppc[p] \in {"fetch", "busy"}

\* Steps that cannot make the premise of NoLostNotification true.
Inert(c) ==
  /\ state_'[c] = state_[c] /\ updated_'[c] = updated_[c]
  /\ tail'[c] = tail[c] /\ skipped'[c] = skipped[c]
  /\ next_msg_index_'[c] = next_msg_index_[c]
  /\ c \in id_cr_' => c \in id_cr_
  /\ stop_ => stop_'
  /\ Fetching(c) => Fetching(c)'
  /\ Notifying(c) => Notifying(c)'

\* The handshake is inductive by itself.
LEMMA NotificationStep == TypeOK /\ NoLostNotification /\ [Next]_vars => NoLostNotification'
<1> SUFFICES ASSUME TypeOK, NoLostNotification, [Next]_vars, NEW c \in Routines,
                    Parked(c)', Unread(c)', tail'[c] > skipped'[c], ~stop_',
                    ~Notifying(c)'
             PROVE  ~updated_'[c]
  BY DEF NoLostNotification
<1> USE SchedulerAssumption
<1>0. /\ ppc \in [Processors -> ProcessorPc] /\ cpc \in [Clients -> ClientPc]
      /\ cur \in [Processors -> Routines \union {None}]
      /\ arg \in [Clients -> Routines \union {None}]
      /\ state_ \in [Routines -> RoutineState] /\ updated_ \in [Routines -> BOOLEAN]
      /\ tail \in [Routines -> Nat] /\ skipped \in [Routines -> Nat]
      /\ next_msg_index_ \in [Routines -> Nat]
      /\ \A p \in Processors : ppc[p] \in Holding => cur[p] \in Routines
      /\ \A k \in Clients : cpc[k] \in Working => arg[k] \in Routines
  BY DEF TypeOK, ProcessorTypeOK, ClientTypeOK, CRoutineTypeOK, DataTypeOK
<1>1. c \in id_cr_' /\ state_'[c] = "DATA_WAIT" /\ ~Fetching(c)'
  BY DEF Parked, Fetching
<1>2. CASE Inert(c)
  <2>1. Parked(c) /\ Unread(c) /\ tail[c] > skipped[c] /\ ~stop_ /\ ~Notifying(c)
    BY <1>1, <1>2 DEF Inert, Parked, Unread, Fetching
  <2> QED BY <1>2, <2>1 DEF Inert, NoLostNotification
\* The routine's own processor.
<1>3. ASSUME NEW p \in Processors, Update(p)
      PROVE  ~updated_'[c]
  <2>1. /\ ppc[p] = "update" /\ cur[p] \in Routines
        /\ ppc'[p] \notin {"fetch", "busy"}
        /\ \A q \in Processors \ {p} : ppc'[q] = ppc[q]
        /\ UNCHANGED <<cur, id_cr_, stop_, cpc, arg, tail, skipped, next_msg_index_>>
    BY <1>0, <1>3 DEF Update, Goto, registryVars, stopVars, clientVars, dataVars, Holding
  <2>2. CASE cur[p] # c
    <3>1. state_'[c] = state_[c] /\ updated_'[c] = updated_[c]
      BY <1>0, <1>3, <2>1, <2>2 DEF Update, UpdateState, SetState
    <3>2. Inert(c)
      BY <2>1, <2>2, <3>1 DEF Inert, Fetching, Notifying
    <3> QED BY <1>2, <3>2
  <2>3. CASE cur[p] = c
    <3>1. state_'[c] = NextState(c, expired[c])
      BY <1>0, <1>3, <2>3 DEF Update, UpdateState, SetState
    <3>2. state_[c] = "DATA_WAIT" /\ updated_[c]
      BY <1>0, <1>1, <3>1 DEF NextState, Waiting
    <3>3. updated_'[c] = updated_[c]
      BY <1>0, <1>3, <2>3, <3>2 DEF Update, UpdateState
    <3>4. Inert(c)
      BY <1>1, <2>1, <3>2, <3>3 DEF Inert, Fetching, Notifying
    <3> QED BY <1>2, <3>4
  <2> QED BY <2>2, <2>3
<1>4. ASSUME NEW p \in Processors,
             Resume(p) \/ SetDataWait(p) \/ CallbackReturns(p) \/ CallbackSleeps(p)
      PROVE  ~updated_'[c]
  <2>1. /\ ppc[p] \in Holding /\ cur[p] \in Routines
        /\ \A q \in Processors \ {p} : ppc'[q] = ppc[q]
        /\ \A x \in Routines \ {cur[p]} : state_'[x] = state_[x]
        /\ UNCHANGED <<cur, updated_, id_cr_, stop_, cpc, arg, tail, skipped, next_msg_index_>>
    BY <1>0, <1>4 DEF Resume, SetDataWait, CallbackReturns, CallbackSleeps,
        SetState, Goto, registryVars, stopVars, clientVars, dataVars, Holding
  <2>2. CASE cur[p] # c
    <3>1. Inert(c)
      BY <2>1, <2>2 DEF Inert, Fetching, Notifying
    <3> QED BY <1>2, <3>1
  <2>3. CASE cur[p] = c
    <3>1. CASE SetDataWait(p)
      <4>1. ppc'[p] = "fetch"
        BY <1>0, <3>1 DEF SetDataWait, Goto
      <4> QED BY <1>1, <2>1, <2>3, <4>1 DEF Fetching
    <3>2. CASE CallbackReturns(p) \/ CallbackSleeps(p)
      BY <1>0, <1>1, <2>3, <3>2 DEF CallbackReturns, CallbackSleeps, SetState
    <3>3. CASE Resume(p)
      <4>1. UNCHANGED state_ /\ ppc[p] = "resume"
        BY <1>0, <1>1, <2>3, <3>3 DEF Resume, SetState
      <4>2. Inert(c)
        BY <1>1, <2>1, <4>1 DEF Inert, Fetching, Notifying
      <4> QED BY <1>2, <4>2
    <3> QED BY <1>4, <3>1, <3>2, <3>3
  <2> QED BY <2>2, <2>3
<1>5. ASSUME NEW p \in Processors, TryFetch(p)
      PROVE  ~updated_'[c]
  <2>1. /\ ppc[p] = "fetch" /\ cur[p] \in Routines
        /\ ppc'[p] = IF Unread(cur[p]) THEN "busy" ELSE "done"
        /\ \A q \in Processors \ {p} : ppc'[q] = ppc[q]
        /\ \A x \in Routines : ~(x = cur[p] /\ Unread(x)) => next_msg_index_'[x] = next_msg_index_[x]
        /\ UNCHANGED <<cur, updated_, state_, id_cr_, stop_, cpc, arg, tail, skipped>>
    BY <1>0, <1>5 DEF TryFetch, Goto, croutineVars, registryVars, stopVars,
        clientVars, Holding
  <2>2. CASE cur[p] # c
    <3>1. Inert(c)
      BY <2>1, <2>2 DEF Inert, Fetching, Notifying
    <3> QED BY <1>2, <3>1
  <2>3. CASE cur[p] = c /\ Unread(c)
    BY <1>1, <2>1, <2>3 DEF Fetching
  <2>4. CASE cur[p] = c /\ ~Unread(c)
    BY <2>1, <2>4 DEF Unread
  <2> QED BY <2>2, <2>3, <2>4
\* Processors elsewhere.
<1>6. ASSUME UNCHANGED <<croutineVars, dataVars, id_cr_, stop_, cpc, arg>>,
             \A q \in Processors : ppc[q] \in {"fetch", "busy"} =>
                                   ppc'[q] = ppc[q] /\ cur'[q] = cur[q]
      PROVE  ~updated_'[c]
  BY <1>2, <1>6 DEF Inert, Fetching, Notifying, croutineVars, dataVars
<1>7. ASSUME NEW p \in Processors,
             \/ Loop(p) \/ NextRoutine(p) \/ LockQueue(p) \/ EndOfQueue(p)
             \/ WaitCheck(p) \/ WaitBlock(p)
      PROVE  ~updated_'[c]
  <2>1. UNCHANGED <<croutineVars, dataVars, id_cr_, stop_, cpc, arg, cur>>
    BY <1>7 DEF Loop, NextRoutine, LockQueue, EndOfQueue, WaitCheck, WaitBlock,
        registryVars, stopVars, clientVars
  <2>2. PICK from, to : from \notin {"fetch", "busy"} /\ Goto(p, from, to)
    BY <1>7 DEF Loop, NextRoutine, LockQueue, EndOfQueue, WaitCheck, WaitBlock
  <2>3. \A q \in Processors : ppc[q] \in {"fetch", "busy"} => ppc'[q] = ppc[q]
    BY <1>0, <2>2 DEF Goto
  <2> QED BY <1>6, <2>1, <2>3
<1>8. ASSUME NEW p \in Processors, Scan(p) \/ ReleaseAndGoOn(p) \/ Done(p)
      PROVE  ~updated_'[c]
  <2>1. /\ UNCHANGED <<state_, updated_, dataVars, id_cr_, stop_, cpc, arg>>
        /\ ppc[p] \notin {"fetch", "busy"}
        /\ \A q \in Processors \ {p} : ppc'[q] = ppc[q] /\ cur'[q] = cur[q]
    BY <1>0, <1>8 DEF Scan, ReleaseAndGoOn, Done, Goto, registryVars, stopVars, clientVars
  <2>2. Inert(c)
    BY <2>1 DEF Inert, Fetching, Notifying, dataVars
  <2> QED BY <1>2, <2>2
<1>9. ASSUME NEW ps \in SUBSET Blocked, Wake(ps)
      PROVE  \A q \in Processors : ppc[q] \in {"fetch", "busy"} =>
                                   ppc'[q] = ppc[q] /\ cur'[q] = cur[q]
  BY <1>0, <1>9 DEF Wake, Blocked
<1>10. ASSUME NEW p \in Processors, Timeout(p) \/ SpuriousWake(p)
       PROVE  ~updated_'[c]
  <2>1. UNCHANGED <<croutineVars, dataVars, id_cr_, stop_, cpc, arg>>
    BY <1>10 DEF Timeout, SpuriousWake, registryVars, stopVars, clientVars
  <2>2. {p} \in SUBSET Blocked /\ Wake({p})
    BY <1>10 DEF Timeout, SpuriousWake, Blocked
  <2> QED BY <1>6, <1>9, <2>1, <2>2
\* Clients.
<1>11. ASSUME NEW k \in Clients, DispatchRegister(k)
       PROVE  ~updated_'[c]
  <2>1. /\ UNCHANGED <<dataVars, ppc, cur, stop_>>
        /\ cpc[k] = "cr_register" /\ \A j \in Clients \ {k} : cpc'[j] = cpc[j] /\ arg'[j] = arg[j]
        /\ arg[k] \in Routines
    BY <1>0, <1>11 DEF DispatchRegister, procVars, stopVars, Step, Working
  <2>2. CASE arg[k] \in id_cr_ \/ arg[k] # c
    <3>1. state_'[c] = state_[c] /\ updated_'[c] = updated_[c] /\ (c \in id_cr_' => c \in id_cr_)
      BY <1>0, <1>11, <2>1, <2>2 DEF DispatchRegister, Construct, croutineVars
    <3>2. Inert(c)
      BY <2>1, <3>1 DEF Inert, Fetching, Notifying, dataVars
    <3> QED BY <1>2, <3>2
  <2>3. CASE arg[k] \notin id_cr_ /\ arg[k] = c
    BY <1>0, <1>1, <1>11, <2>3 DEF DispatchRegister, Construct
  <2> QED BY <2>2, <2>3
<1>12. ASSUME NEW k \in Clients, cpc[k] \notin {"nt_callback", "nt_stop", "nt_lookup", "nt_flag"},
              \A j \in Clients \ {k} : cpc'[j] = cpc[j] /\ arg'[j] = arg[j],
              UNCHANGED <<state_, updated_, tail, skipped, next_msg_index_>>,
              id_cr_' \subseteq id_cr_, stop_ => stop_',
              \A q \in Processors : ppc[q] \in {"fetch", "busy"} =>
                                   ppc'[q] = ppc[q] /\ cur'[q] = cur[q]
       PROVE  ~updated_'[c]
  BY <1>2, <1>12 DEF Inert, Fetching, Notifying
<1>13. ASSUME NEW k \in Clients,
              \/ DispatchNotify(k) \/ NotifyCv(k) \/ NotifyContext(k) \/ NotifyStopped(k)
       PROVE  ~updated_'[c]
  <2>1. UNCHANGED procVars \/ \E ps \in SUBSET Blocked : Wake(ps)
    BY <1>13 DEF DispatchNotify, NotifyCv, NotifyContext, NotifyStopped, NotifyOne, NotifyAll
  <2>2. \A q \in Processors : ppc[q] \in {"fetch", "busy"} =>
                              ppc'[q] = ppc[q] /\ cur'[q] = cur[q]
    BY <1>9, <2>1 DEF procVars
  <2>3. /\ cpc[k] \notin {"nt_callback", "nt_stop", "nt_lookup", "nt_flag"}
        /\ \A j \in Clients \ {k} : cpc'[j] = cpc[j] /\ arg'[j] = arg[j]
    BY <1>0, <1>13 DEF DispatchNotify, NotifyCv, NotifyContext, NotifyStopped, Step
  <2>4. UNCHANGED <<state_, updated_, tail, skipped, next_msg_index_, id_cr_, stop_>>
    BY <1>13 DEF DispatchNotify, NotifyCv, NotifyContext, NotifyStopped,
        croutineVars, dataVars, registryVars, stopVars
  <2> QED BY <1>12, <2>2, <2>3, <2>4
<1>14. ASSUME NEW k \in Clients,
              \/ DispatchLock(k) \/ DispatchEnqueue(k) \/ RegisterNotifyCallback(k)
              \/ RemoveLock(k) \/ RemoveUnregister(k) \/ RemoveWriteLock(k)
              \/ RemoveErase(k) \/ StopContext(k) \/ RemoveNext(k)
              \/ StopProcessor(k) \/ Join(k) \/ Shutdown(k)
       PROVE  ~updated_'[c]
  <2>1. /\ cpc[k] \notin {"nt_callback", "nt_stop", "nt_lookup", "nt_flag"}
        /\ \A j \in Clients \ {k} : cpc'[j] = cpc[j] /\ arg'[j] = arg[j]
    BY <1>0, <1>14 DEF DispatchLock, DispatchEnqueue, RegisterNotifyCallback,
        RemoveLock, RemoveUnregister, RemoveWriteLock, RemoveErase, StopContext,
        RemoveNext, StopProcessor, Join, Shutdown, Step, Call
  <2>2. /\ UNCHANGED <<state_, updated_, tail, skipped, next_msg_index_, ppc, cur>>
        /\ id_cr_' \subseteq id_cr_ /\ (stop_ => stop_')
    BY <1>14 DEF DispatchLock, DispatchEnqueue, RegisterNotifyCallback,
        RemoveLock, RemoveUnregister, RemoveWriteLock, RemoveErase, StopContext,
        RemoveNext, StopProcessor, Join, Shutdown, croutineVars, dataVars,
        procVars, registryVars, stopVars
  <2> QED BY <1>12, <2>1, <2>2
\* Notifications.
<1>15. ASSUME NEW k \in Clients,
              NotifyCallback(k) \/ NotifyStopCheck(k) \/ NotifyLookup(k) \/ NotifyFlag(k)
       PROVE  ~updated_'[c]
  <2>1. /\ UNCHANGED <<state_, tail, next_msg_index_, id_cr_, stop_, ppc, cur>>
        /\ \A j \in Clients \ {k} : cpc'[j] = cpc[j] /\ arg'[j] = arg[j]
        /\ arg[k] \in Routines
    BY <1>0, <1>15 DEF NotifyCallback, NotifyStopCheck, NotifyLookup, NotifyFlag,
        Step, croutineVars, dataVars, registryVars, stopVars, procVars, Working
  <2>2. CASE arg[k] # c
    <3>1. updated_'[c] = updated_[c] /\ skipped'[c] = skipped[c]
      BY <1>0, <1>15, <2>1, <2>2 DEF NotifyCallback, NotifyStopCheck,
          NotifyLookup, NotifyFlag, SetUpdateFlag, croutineVars, dataVars
    <3>2. Inert(c)
      BY <2>1, <2>2, <3>1 DEF Inert, Fetching, Notifying
    <3> QED BY <1>2, <3>2
  <2>3. CASE arg[k] = c
    <3>0. cpc'[k] \notin {"nt_callback", "nt_stop", "nt_lookup", "nt_flag"} \/ arg'[k] # c
      BY DEF Notifying
    <3>1. CASE NotifyCallback(k)
      <4>1. ~callback[c]
        BY <1>0, <2>3, <3>0, <3>1 DEF NotifyCallback, Step
      <4>2. skipped'[c] = tail[c] /\ tail'[c] = tail[c]
        BY <1>0, <2>1, <2>3, <3>1, <4>1 DEF NotifyCallback
      <4> QED BY <1>0, <4>2
    <3>2. CASE NotifyStopCheck(k)
      BY <1>0, <2>1, <2>3, <3>0, <3>2 DEF NotifyStopCheck, Step
    <3>3. CASE NotifyLookup(k)
      BY <1>0, <1>1, <2>1, <2>3, <3>0, <3>3 DEF NotifyLookup, Step, Waiting
    <3>4. CASE NotifyFlag(k)
      BY <1>0, <2>1, <2>3, <3>4 DEF NotifyFlag, SetUpdateFlag
    <3> QED BY <1>15, <3>1, <3>2, <3>3, <3>4
  <2> QED BY <2>2, <2>3
<1>16. ASSUME NEW k \in Clients, NEW x \in Routines,
              CreateTask(k, x) \/ RemoveTask(k, x) \/ NotifyTask(k, x)
       PROVE  ~updated_'[c]
  <2>1. /\ cpc[k] = "idle"
        /\ \A j \in Clients \ {k} : cpc'[j] = cpc[j] /\ arg'[j] = arg[j]
        /\ UNCHANGED <<state_, updated_, tail, skipped, next_msg_index_, ppc, cur, id_cr_, stop_>>
    BY <1>0, <1>16 DEF CreateTask, RemoveTask, NotifyTask, Call, croutineVars,
        dataVars, procVars, registryVars, stopVars
  <2> QED BY <1>12, <2>1
<1>17. ASSUME NEW k \in Clients, NEW x \in Routines, Dispatch(k, x)
       PROVE  ~updated_'[c]
  <2>1. /\ cpc[k] = "idle" /\ cpc'[k] = "nt_callback" /\ arg'[k] = x
        /\ \A j \in Clients \ {k} : cpc'[j] = cpc[j] /\ arg'[j] = arg[j]
        /\ UNCHANGED <<state_, updated_, skipped, next_msg_index_, ppc, cur, id_cr_, stop_>>
    BY <1>0, <1>17 DEF Dispatch, Call, croutineVars, procVars, registryVars, stopVars
  <2>2. x # c
    BY <2>1 DEF Notifying
  <2>3. tail'[c] = tail[c]
    BY <1>0, <1>17, <2>2 DEF Dispatch
  <2>4. Inert(c)
    BY <2>1, <2>3 DEF Inert, Fetching, Notifying
  <2> QED BY <1>2, <2>4
<1>18. CASE UNCHANGED <<croutineVars, dataVars, procVars, registryVars, stopVars, clientVars>>
  BY <1>6, <1>18 DEF procVars, registryVars, stopVars, clientVars
<1> QED
  BY <1>3, <1>4, <1>5, <1>7, <1>8, <1>10, <1>11, <1>13, <1>14, <1>15, <1>16, <1>17, <1>18
  DEF Next, vars, ProcessorStep, ClientStep, Tick

-----------------------------------------------------------------------------
\* The inductive invariant holds initially ...
LEMMA InvInit == Init => Inv
<1> SUFFICES ASSUME Init PROVE Inv
  OBVIOUS
<1>1. TypeOK
  BY TypeInit
<1>2. \A c \in Routines : ~Queued(c)
  <2> SUFFICES ASSUME NEW c \in Routines PROVE ~Queued(c)
    OBVIOUS
  <2>1. Prio(c) \in Prios
    BY PrioType
  <2>2. cr_group_[Prio(c)] = <<>>
    BY <2>1 DEF Init
  <2> QED BY <2>2 DEF Queued, Within
<1>3. RegistryInv
  <2>1. QueuedOnce
    BY DEF Init, QueuedOnce
  <2>2. OwnsId /\ EnqueuedOnceRegistered /\ RemovedOnceUnregistered
    BY DEF Init, OwnsId, Owning, Removing, EnqueuedOnceRegistered,
        RemovedOnceUnregistered
  <2>3. QueuedIsKnown
    BY <1>2 DEF QueuedIsKnown
  <2> QED BY <2>1, <2>2, <2>3 DEF RegistryInv
<1>4. HeldIsLocked /\ ExclusiveRoutine
  BY DEF Init, HeldIsLocked, ExclusiveRoutine
<1>5. ResumedIsReady /\ NoLostNotification
  BY DEF Init, ResumedIsReady, NoLostNotification, Parked, Unread
<1> QED BY <1>1, <1>3, <1>4, <1>5 DEF Inv

\* ... and is preserved by every step.
LEMMA InvStep == Inv /\ [Next]_vars => Inv'
<1> SUFFICES ASSUME Inv, [Next]_vars PROVE Inv'
  OBVIOUS
<1>1. TypeOK'
  BY CRoutineTypeStep, DataTypeStep, RegistryTypeStep, ProcessorTypeStep,
     StopTypeStep, ClientTypeStep DEF Inv, TypeOK
<1>2. RegistryInv'
  BY RegistryStep DEF Inv
<1>3. HeldIsLocked' /\ ExclusiveRoutine'
  BY HolderStep DEF Inv
<1>4. ResumedIsReady'
  BY ResumeStep DEF Inv
<1>5. NoLostNotification'
  BY NotificationStep DEF Inv
<1> QED BY <1>1, <1>2, <1>3, <1>4, <1>5 DEF Inv

(***************************************************************************)
(* For any number of processors, clients, routines, priorities and         *)
(* messages: no routine is ever entered by two processors, so its stack    *)
(* and its data visitor are never used concurrently.                       *)
(***************************************************************************)
THEOREM RoutinesAreExclusive == Spec => []ExclusiveRoutine
<1>1. Inv => ExclusiveRoutine
  BY DEF Inv
<1> QED BY InvInit, InvStep, <1>1, PTL DEF Spec

(***************************************************************************)
(* CRoutine::Resume never takes its "Invalid Routine State!" branch.       *)
(***************************************************************************)
THEOREM ResumeIsLegal == Spec => []ResumedIsReady
<1>1. Inv => ResumedIsReady
  BY DEF Inv
<1> QED BY InvInit, InvStep, <1>1, PTL DEF Spec

(***************************************************************************)
(* RemoveCRoutine returns only when the routine is in no run queue and no  *)
(* processor is inside it.                                                 *)
(***************************************************************************)
THEOREM RemovalIsQuiescent == Spec => []RemovedIsQuiescent
<1>1. Inv => RemovedIsQuiescent
  BY QuiescentFromInv DEF Inv
<1> QED BY InvInit, InvStep, <1>1, PTL DEF Spec

(***************************************************************************)
(* The handshake of the routine body with NotifyProcessor loses no         *)
(* notification: the routine is flagged, or will be.                       *)
(***************************************************************************)
THEOREM NotificationsAreKept == Spec => []NoLostNotification
<1>1. Inv => NoLostNotification
  BY DEF Inv
<1> QED BY InvInit, InvStep, <1>1, PTL DEF Spec

(***************************************************************************)
(* Every routine is queued at most once, at its own priority.              *)
(***************************************************************************)
THEOREM QueuesAreConsistent == Spec => []QueuedOnce
<1>1. Inv => QueuedOnce
  BY DEF Inv, RegistryInv
<1> QED BY InvInit, InvStep, <1>1, PTL DEF Spec

(***************************************************************************)
(* The tables of the scheduler agree: whoever holds a routine has its      *)
(* lock_, id_map_mutex_ is owned, a routine is enqueued only once it is in *)
(* id_cr_ and erased only once it is out of it.                            *)
(***************************************************************************)
THEOREM TablesAgree == Spec => []Bookkeeping
<1>1. Inv => Bookkeeping
  BY DEF Inv, RegistryInv, Bookkeeping
<1> QED BY InvInit, InvStep, <1>1, PTL DEF Spec
=============================================================================
