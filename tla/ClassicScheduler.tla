-------------------------- MODULE ClassicScheduler --------------------------
(***************************************************************************)
(* cyber/scheduler with the classic policy: Scheduler, SchedulerClassic,   *)
(* ClassicContext and Processor, running the data-driven routines that     *)
(* croutine/routine_factory.h builds.  Processors are the worker threads,  *)
(* Clients are the application threads that create and remove tasks,       *)
(* deliver messages and shut the scheduler down.                           *)
(*                                                                         *)
(* A routine and its crid are one element of Routines: an old incarnation  *)
(* is unreachable before the next one is registered.  One scheduling group *)
(* is modelled; groups share nothing but the id_cr_ table.  AtomicRWLock   *)
(* critical sections that nothing blocks in are single steps; the run      *)
(* queue locks are held across steps and appear as RqReadable/RqWritable.  *)
(***************************************************************************)
EXTENDS CRoutine, Integers, Sequences

CONSTANTS
  Processors,    \* worker threads, each with a ClassicContext of the group
  Clients,       \* application threads
  None,          \* no client, no routine
  MaxPrio,       \* MAX_PRIO: number of run queues
  ConfPrio,      \* configured priority of each routine
  QueueSize,     \* capacity of each routine's message buffer
  MaxMsgs        \* bound: messages delivered to each routine

ASSUME SchedulerAssumption ==
  /\ None \notin Clients \union Routines
  /\ MaxPrio \in Nat \ {0}
  /\ ConfPrio \in [Routines -> Nat]
  /\ QueueSize \in Nat \ {0}
  /\ MaxMsgs \in Nat

VARIABLES
  stop_,         \* Scheduler::stop_
  id_cr_,        \* registered crids
  id_map_mutex_, \* per-crid mutex: its owner
  cr_group_,     \* the run queues, by priority
  callback,      \* notifier_->callback is set for the routine's visitor
  tail,          \* CacheBuffer::tail_ of the routine's channel
  next_msg_index_, \* DataVisitorBase::next_msg_index_
  skipped,       \* history: tail when a delivery last found no callback
  slept,         \* the callback being run has already slept
  expired,       \* wake_time_ of a sleeping routine has passed
  ppc, cur, lvl, idx,  \* each processor's control state in Run/NextRoutine
  need_sleep_,   \* ClassicContext::need_sleep_
  ctxStop,       \* ProcessorContext::stop_
  running_,      \* Processor::running_
  cpc, arg,      \* each client's control state and the crid it works on
  sdTodo,        \* processors the loops of Shutdown have still to visit
  cr_list,       \* crids Shutdown has still to remove
  shutter        \* the client executing Shutdown()

dataVars == <<callback, tail, next_msg_index_, skipped>>
bodyVars == <<slept, expired>>
procVars == <<ppc, cur, lvl, idx, need_sleep_>>
registryVars == <<id_cr_, id_map_mutex_, cr_group_>>
stopVars == <<stop_, ctxStop, running_, sdTodo, cr_list, shutter>>
clientVars == <<cpc, arg>>
vars == <<croutineVars, dataVars, bodyVars, procVars, registryVars, stopVars,
          clientVars>>

Prios == 0 .. MaxPrio - 1

\* DispatchTask clamps a configured priority to the last queue.
Prio(c) == IF ConfPrio[c] >= MaxPrio THEN MaxPrio - 1 ELSE ConfPrio[c]

Within(s, c) == \E i \in DOMAIN s : s[i] = c
Queued(c) == Within(cr_group_[Prio(c)], c)

\* vector::erase of the first entry that is c; no entry, no change.
EraseFirst(s, c) ==
  LET k == CHOOSE i \in DOMAIN s : s[i] = c /\ \A j \in 1 .. i - 1 : s[j] # c
  IN  IF Within(s, c)
        THEN [i \in 1 .. Len(s) - 1 |-> IF i < k THEN s[i] ELSE s[i + 1]]
        ELSE s

-----------------------------------------------------------------------------
(* Locks.  A processor between "scan" and "release" holds the read lock of *)
(* its level; a client waiting to take the routine it removes holds the    *)
(* write lock; NotifyProcessor holds id_cr_lock_ for reading to its end.   *)
Scanning == {"scan", "update", "release"}

RqReadable(i) ==
  \A k \in Clients : ~(cpc[k] = "rm_acquire" /\ Prio(arg[k]) = i)
RqWritable(i) ==
  /\ RqReadable(i)
  /\ \A p \in Processors : ~(ppc[p] \in Scanning /\ lvl[p] = i)
IdCrWritable == \A k \in Clients : cpc[k] \notin {"nt_flag", "nt_cv"}

(* The condition variable of the group.  "waiting" is wait(), "timed" is   *)
(* wait_for(); either way need_sleep_ is false when Wait() returns.        *)
Blocked == {p \in Processors : ppc[p] \in {"waiting", "timed"}}

Wake(ps) ==
  /\ ppc' = [p \in Processors |-> IF p \in ps THEN "loop" ELSE ppc[p]]
  /\ need_sleep_' = [p \in Processors |-> p \notin ps /\ need_sleep_[p]]
  /\ UNCHANGED <<cur, lvl, idx>>

NotifyOne ==
  \/ Blocked = {} /\ UNCHANGED procVars
  \/ \E p \in Blocked : Wake({p})

-----------------------------------------------------------------------------
(* Processor::Run and ClassicContext.                                      *)
Goto(p, from, to) == ppc[p] = from /\ ppc' = [ppc EXCEPT ![p] = to]

\* while (running_.load())
Loop(p) ==
  /\ Goto(p, "loop", IF running_[p] THEN "next" ELSE "exit")
  /\ UNCHANGED <<croutineVars, dataVars, bodyVars, registryVars, stopVars,
                 clientVars, cur, lvl, idx, need_sleep_>>

\* NextRoutine(): nothing to run once the context is stopped, otherwise the
\* queues are searched from the highest priority.
NextRoutine(p) ==
  /\ Goto(p, "next", IF ctxStop[p] THEN "wait" ELSE "lock")
  /\ lvl' = [lvl EXCEPT ![p] = IF ctxStop[p] THEN @ ELSE MaxPrio - 1]
  /\ UNCHANGED <<croutineVars, dataVars, bodyVars, registryVars, stopVars,
                 clientVars, cur, idx, need_sleep_>>

\* ReadLockGuard on the queue of the current priority.
LockQueue(p) ==
  /\ Goto(p, "lock", "scan")
  /\ RqReadable(lvl[p])
  /\ UNCHANGED <<croutineVars, dataVars, bodyVars, registryVars, stopVars,
                 clientVars, cur, lvl, idx, need_sleep_>>

\* One iteration over the queue: take the routine, or skip a held one.
Scan(p) ==
  LET queue == cr_group_[lvl[p]] IN
  /\ ppc[p] = "scan" /\ idx[p] <= Len(queue)
  /\ \/ /\ Acquire(queue[idx[p]])
        /\ ppc' = [ppc EXCEPT ![p] = "update"]
        /\ cur' = [cur EXCEPT ![p] = queue[idx[p]]]
        /\ UNCHANGED idx
     \/ /\ lock_[queue[idx[p]]]
        /\ idx' = [idx EXCEPT ![p] = @ + 1]
        /\ UNCHANGED <<ppc, cur, lock_>>
  /\ UNCHANGED <<state_, updated_, force_stop_, dataVars, bodyVars,
                 registryVars, stopVars, clientVars, lvl, need_sleep_>>

\* The end of one queue: on to the next priority, or nullptr.
EndOfQueue(p) ==
  /\ idx[p] > Len(cr_group_[lvl[p]])
  /\ Goto(p, "scan", IF lvl[p] = 0 THEN "wait" ELSE "lock")
  /\ lvl' = [lvl EXCEPT ![p] = IF @ = 0 THEN 0 ELSE @ - 1]
  /\ idx' = [idx EXCEPT ![p] = 1]
  /\ UNCHANGED <<croutineVars, dataVars, bodyVars, registryVars, stopVars,
                 clientVars, cur, need_sleep_>>

\* UpdateState() decides whether the routine is returned (the read lock goes)
\* or released; a sleeping routine bounds the next Wait().
Update(p) ==
  LET c == cur[p] IN
  /\ Goto(p, "update", IF NextState(c, expired[c]) = "READY"
                         THEN "resume" ELSE "release")
  /\ UpdateState(c, expired[c])
  /\ need_sleep_' = [need_sleep_ EXCEPT
                       ![p] = @ \/ NextState(c, expired[c]) = "SLEEP"]
  /\ lvl' = [lvl EXCEPT ![p] = IF NextState(c, expired[c]) = "READY"
                                THEN 0 ELSE @]
  /\ idx' = [idx EXCEPT ![p] = IF NextState(c, expired[c]) = "READY"
                                THEN 1 ELSE @]
  /\ UNCHANGED <<lock_, force_stop_, dataVars, bodyVars, registryVars,
                 stopVars, clientVars, cur>>

ReleaseAndGoOn(p) ==
  /\ Goto(p, "release", "scan")
  /\ Release(cur[p])
  /\ cur' = [cur EXCEPT ![p] = None]
  /\ idx' = [idx EXCEPT ![p] = @ + 1]
  /\ UNCHANGED <<state_, updated_, force_stop_, dataVars, bodyVars,
                 registryVars, stopVars, clientVars, lvl, need_sleep_>>

\* Resume(): a stopped routine finishes; one that is not READY is an error
\* ("Invalid Routine State!") and is not entered; otherwise it continues at
\* the top of its loop, or inside the callback it slept in.
Resume(p) ==
  LET c == cur[p] IN
  /\ ppc[p] = "resume"
  /\ \/ /\ force_stop_[c]
        /\ SetState(c, "FINISHED")
        /\ ppc' = [ppc EXCEPT ![p] = "done"]
     \/ /\ ~force_stop_[c]
        /\ ppc' = [ppc EXCEPT ![p] = IF state_[c] # "READY" THEN "done"
                                     ELSE IF slept[c] THEN "busy" ELSE "run"]
        /\ UNCHANGED state_
  /\ UNCHANGED <<lock_, updated_, force_stop_, dataVars, bodyVars,
                 registryVars, stopVars, clientVars, cur, lvl, idx,
                 need_sleep_>>

\* Fault: the routine is not released.
FaultyDone(p) ==
  /\ Goto(p, "done", "loop")
  /\ cur' = [cur EXCEPT ![p] = None]
  /\ UNCHANGED <<croutineVars, dataVars, bodyVars, registryVars, stopVars,
                 clientVars, lvl, idx, need_sleep_>>

\* Run() of Processor releases what NextRoutine() acquired.
Done(p) ==
  /\ Goto(p, "done", "loop")
  /\ Release(cur[p])
  /\ cur' = [cur EXCEPT ![p] = None]
  /\ UNCHANGED <<state_, updated_, force_stop_, dataVars, bodyVars,
                 registryVars, stopVars, clientVars, lvl, idx,
                 need_sleep_>>

\* Wait(): the check of stop_ ...
WaitCheck(p) ==
  /\ Goto(p, "wait", IF ctxStop[p] THEN "loop" ELSE "block")
  /\ UNCHANGED <<croutineVars, dataVars, bodyVars, registryVars, stopVars,
                 clientVars, cur, lvl, idx, need_sleep_>>

\* ... and then, with nothing in between re-checked, the condition variable.
WaitBlock(p) ==
  /\ Goto(p, "block", IF need_sleep_[p] THEN "timed" ELSE "waiting")
  /\ UNCHANGED <<croutineVars, dataVars, bodyVars, registryVars, stopVars,
                 clientVars, cur, lvl, idx, need_sleep_>>

\* wait_for() returns when the wake time has come.
Timeout(p) ==
  /\ ppc[p] = "timed"
  /\ Wake({p})
  /\ UNCHANGED <<croutineVars, dataVars, bodyVars, registryVars, stopVars,
                 clientVars>>

\* A condition variable may wake for no reason; nothing makes it do so.
SpuriousWake(p) ==
  /\ p \in Blocked
  /\ Wake({p})
  /\ UNCHANGED <<croutineVars, dataVars, bodyVars, registryVars, stopVars,
                 clientVars>>

-----------------------------------------------------------------------------
(* The routine body of CreateRoutineFactory, executed by the processor.    *)
SetDataWait(p) ==
  /\ Goto(p, "run", "fetch")
  /\ SetState(cur[p], "DATA_WAIT")
  /\ UNCHANGED <<lock_, updated_, force_stop_, dataVars, bodyVars,
                 registryVars, stopVars, clientVars, cur, lvl, idx,
                 need_sleep_>>

\* ChannelBuffer::Fetch succeeds on a non-empty buffer with a message the
\* index has not passed; an index of 0 or behind Head() jumps to Tail().
Unread(c) == tail[c] # 0 /\ next_msg_index_[c] # tail[c] + 1
Head_(c) == IF tail[c] > QueueSize THEN tail[c] - QueueSize + 1 ELSE 1
FetchIndex(c) ==
  IF next_msg_index_[c] = 0 \/ next_msg_index_[c] < Head_(c)
    THEN tail[c] ELSE next_msg_index_[c]

\* TryFetch(): a message goes to the callback, an empty buffer yields.
TryFetch(p) ==
  LET c == cur[p] IN
  /\ Goto(p, "fetch", IF Unread(c) THEN "busy" ELSE "done")
  /\ next_msg_index_' = [next_msg_index_ EXCEPT
                           ![c] = IF Unread(c) THEN FetchIndex(c) + 1 ELSE @]
  /\ UNCHANGED <<croutineVars, callback, tail, skipped, bodyVars,
                 registryVars, stopVars, clientVars, cur, lvl, idx,
                 need_sleep_>>

\* The callback returns and the routine yields READY.
CallbackReturns(p) ==
  /\ Goto(p, "busy", "done")
  /\ SetState(cur[p], "READY")
  /\ slept' = [slept EXCEPT ![cur[p]] = FALSE]
  /\ UNCHANGED <<lock_, updated_, force_stop_, dataVars, expired,
                 registryVars, stopVars, clientVars, cur, lvl, idx,
                 need_sleep_>>

\* The callback calls CRoutine::Sleep (bound: once per callback).
CallbackSleeps(p) ==
  /\ Goto(p, "busy", "done")
  /\ ~slept[cur[p]]
  /\ SetState(cur[p], "SLEEP")
  /\ slept' = [slept EXCEPT ![cur[p]] = TRUE]
  /\ expired' = [expired EXCEPT ![cur[p]] = FALSE]
  /\ UNCHANGED <<lock_, updated_, force_stop_, dataVars, registryVars,
                 stopVars, clientVars, cur, lvl, idx, need_sleep_>>

\* steady_clock passes a sleeping routine's wake_time_.
Tick(c) ==
  /\ ~expired[c]
  /\ expired' = [expired EXCEPT ![c] = TRUE]
  /\ UNCHANGED <<croutineVars, dataVars, slept, procVars, registryVars,
                 stopVars, clientVars>>

-----------------------------------------------------------------------------
(* Clients.  Every operation starts at "idle" and returns there, except    *)
(* that Shutdown() calls RemoveCRoutine() for itself.                      *)
Step(k, from, to) ==
  /\ cpc[k] = from
  /\ cpc' = [cpc EXCEPT ![k] = to]
  /\ arg' = [arg EXCEPT ![k] = IF to = "idle" THEN None ELSE @]
Call(k, from, c, to) ==
  /\ cpc[k] = from
  /\ cpc' = [cpc EXCEPT ![k] = to]
  /\ arg' = [arg EXCEPT ![k] = c]
Returned(k) == IF shutter = k THEN "sd_remove" ELSE "idle"

LockId(k) ==
  /\ id_map_mutex_[arg[k]] = None
  /\ id_map_mutex_' = [id_map_mutex_ EXCEPT ![arg[k]] = k]
UnlockId(k) == id_map_mutex_' = [id_map_mutex_ EXCEPT ![arg[k]] = None]

\* Scheduler::CreateTask: refused once stopped (a refusal changes nothing).
CreateTask(k, c) ==
  /\ ~stop_
  /\ Call(k, "idle", c, "cr_lock")
  /\ UNCHANGED <<croutineVars, dataVars, bodyVars, procVars, registryVars,
                 stopVars>>

DispatchLock(k) ==
  /\ Step(k, "cr_lock", "cr_register")
  /\ LockId(k)
  /\ UNCHANGED <<croutineVars, dataVars, bodyVars, procVars, id_cr_,
                 cr_group_, stopVars>>

\* Fault: id_cr_ is not searched for the id first.
FaultyDispatchRegister(k) ==
  LET c == arg[k] IN
  /\ IdCrWritable
  /\ Step(k, "cr_register", "cr_enqueue")
  /\ id_cr_' = id_cr_ \union {c}
  /\ Construct(c)
  /\ slept' = [slept EXCEPT ![c] = FALSE]
  /\ UNCHANGED <<expired, id_map_mutex_, dataVars, procVars, cr_group_,
                 stopVars>>

\* DispatchTask enters the routine in id_cr_ unless the id is there already.
DispatchRegister(k) ==
  LET c == arg[k] IN
  /\ IdCrWritable
  /\ \/ /\ c \in id_cr_
        /\ Step(k, "cr_register", "idle")
        /\ UnlockId(k)
        /\ UNCHANGED <<croutineVars, bodyVars, id_cr_>>
     \/ /\ c \notin id_cr_
        /\ Step(k, "cr_register", "cr_enqueue")
        /\ id_cr_' = id_cr_ \union {c}
        /\ Construct(c)
        /\ slept' = [slept EXCEPT ![c] = FALSE]
        /\ UNCHANGED <<expired, id_map_mutex_>>
  /\ UNCHANGED <<dataVars, procVars, cr_group_, stopVars>>

DispatchEnqueue(k) ==
  LET c == arg[k] IN
  /\ Step(k, "cr_enqueue", "cr_notify")
  /\ RqWritable(Prio(c))
  /\ cr_group_' = [cr_group_ EXCEPT ![Prio(c)] = Append(@, c)]
  /\ UNCHANGED <<croutineVars, dataVars, bodyVars, procVars, id_cr_,
                 id_map_mutex_, stopVars>>

\* ClassicContext::Notify, then the per-id mutex goes.
DispatchNotify(k) ==
  /\ Step(k, "cr_notify", "cr_callback")
  /\ NotifyOne
  /\ UnlockId(k)
  /\ UNCHANGED <<croutineVars, dataVars, bodyVars, id_cr_, cr_group_,
                 stopVars>>

\* Back in CreateTask: only now is the visitor told whom to notify.
RegisterNotifyCallback(k) ==
  /\ Step(k, "cr_callback", "idle")
  /\ callback' = [callback EXCEPT ![arg[k]] = TRUE]
  /\ UNCHANGED <<croutineVars, tail, next_msg_index_, skipped, bodyVars,
                 procVars, registryVars, stopVars>>

\* RemoveTask: after a stop it reports success without removing anything.
RemoveTask(k, c) ==
  /\ ~stop_
  /\ Call(k, "idle", c, "rm_lock")
  /\ UNCHANGED <<croutineVars, dataVars, bodyVars, procVars, registryVars,
                 stopVars>>

RemoveLock(k) ==
  /\ Step(k, "rm_lock", "rm_unregister")
  /\ LockId(k)
  /\ UNCHANGED <<croutineVars, dataVars, bodyVars, procVars, id_cr_,
                 cr_group_, stopVars>>

\* Fault: the routine is stopped but stays in id_cr_.
FaultyRemoveUnregister(k) ==
  /\ IdCrWritable
  /\ Step(k, "rm_unregister", "rm_wlock")
  /\ Stop(arg[k])
  /\ UNCHANGED <<state_, lock_, updated_, dataVars, bodyVars, procVars,
                 registryVars, stopVars>>

RemoveUnregister(k) ==
  LET c == arg[k] IN
  /\ IdCrWritable
  /\ \/ /\ c \notin id_cr_
        /\ Step(k, "rm_unregister", Returned(k))
        /\ UnlockId(k)
        /\ UNCHANGED <<force_stop_, id_cr_>>
     \/ /\ c \in id_cr_
        /\ Step(k, "rm_unregister", "rm_wlock")
        /\ Stop(c)
        /\ id_cr_' = id_cr_ \ {c}
        /\ UNCHANGED id_map_mutex_
  /\ UNCHANGED <<state_, lock_, updated_, dataVars, bodyVars, procVars,
                 cr_group_, stopVars>>

RemoveWriteLock(k) ==
  /\ Step(k, "rm_wlock", "rm_acquire")
  /\ RqWritable(Prio(arg[k]))
  /\ UNCHANGED <<croutineVars, dataVars, bodyVars, procVars, registryVars,
                 stopVars>>

\* Fault: the routine is erased without waiting for the processor inside.
FaultyRemoveErase(k) ==
  LET c == arg[k] IN
  /\ Step(k, "rm_acquire", Returned(k))
  /\ cr_group_' = [cr_group_ EXCEPT ![Prio(c)] = EraseFirst(@, c)]
  /\ UnlockId(k)
  /\ UNCHANGED <<croutineVars, dataVars, bodyVars, procVars, id_cr_,
                 stopVars>>

\* Under the write lock: spin until the routine can be acquired, erase the
\* first queue entry with that id, release everything.
RemoveErase(k) ==
  LET c == arg[k] IN
  /\ Step(k, "rm_acquire", Returned(k))
  /\ Queued(c) => ~lock_[c]
  /\ cr_group_' = [cr_group_ EXCEPT ![Prio(c)] = EraseFirst(@, c)]
  /\ UnlockId(k)
  /\ UNCHANGED <<croutineVars, dataVars, bodyVars, procVars, id_cr_,
                 stopVars>>

\* DataDispatcher::Dispatch: Fill() the routine's buffer, then Notify().
Dispatch(k, c) ==
  /\ tail[c] < MaxMsgs
  /\ Call(k, "idle", c, "nt_callback")
  /\ tail' = [tail EXCEPT ![c] = @ + 1]
  /\ UNCHANGED <<croutineVars, callback, next_msg_index_, skipped, bodyVars,
                 procVars, registryVars, stopVars>>

\* DataNotifier::Notify skips a notifier whose callback is not set.
NotifyCallback(k) ==
  LET c == arg[k] IN
  /\ Step(k, "nt_callback", IF callback[c] THEN "nt_stop" ELSE "idle")
  /\ skipped' = [skipped EXCEPT ![c] = IF callback[c] THEN @ ELSE tail[c]]
  /\ UNCHANGED <<croutineVars, callback, tail, next_msg_index_, bodyVars,
                 procVars, registryVars, stopVars>>

\* Scheduler::NotifyTask, also called directly with a crid.
NotifyTask(k, c) ==
  /\ Call(k, "idle", c, "nt_stop")
  /\ UNCHANGED <<croutineVars, dataVars, bodyVars, procVars, registryVars,
                 stopVars>>

NotifyStopCheck(k) ==
  /\ Step(k, "nt_stop", IF stop_ THEN "idle" ELSE "nt_lookup")
  /\ UNCHANGED <<croutineVars, dataVars, bodyVars, procVars, registryVars,
                 stopVars>>

\* Fault: a routine that is running is not flagged.
FaultyNotifyLookup(k) ==
  LET c == arg[k] IN
  /\ Step(k, "nt_lookup", IF c \notin id_cr_ THEN "idle"
                          ELSE IF state_[c] \in Waiting /\ ~lock_[c]
                            THEN "nt_flag" ELSE "nt_cv")
  /\ UNCHANGED <<croutineVars, dataVars, bodyVars, procVars, registryVars,
                 stopVars>>

\* NotifyProcessor reads the routine's state without holding the routine ...
NotifyLookup(k) ==
  LET c == arg[k] IN
  /\ Step(k, "nt_lookup", IF c \notin id_cr_ THEN "idle"
                          ELSE IF state_[c] \in Waiting THEN "nt_flag"
                          ELSE "nt_cv")
  /\ UNCHANGED <<croutineVars, dataVars, bodyVars, procVars, registryVars,
                 stopVars>>

\* ... and flags it on the strength of that reading.
NotifyFlag(k) ==
  /\ Step(k, "nt_flag", "nt_cv")
  /\ SetUpdateFlag(arg[k])
  /\ UNCHANGED <<state_, lock_, force_stop_, dataVars, bodyVars, procVars,
                 registryVars, stopVars>>

\* A routine still on its way into the queue has no group_name yet, so the
\* notification goes to a condition variable nobody waits on.
NotifyCv(k) ==
  /\ Step(k, "nt_cv", "idle")
  /\ \/ NotifyOne
     \/ /\ \E j \in Clients : cpc[j] = "cr_enqueue" /\ arg[j] = arg[k]
        /\ UNCHANGED procVars
  /\ UNCHANGED <<croutineVars, dataVars, bodyVars, registryVars, stopVars>>

-----------------------------------------------------------------------------
(* Scheduler::Shutdown: stop every context, remove every routine, then     *)
(* stop and join every processor.                                          *)
NotifyAll == Wake(Blocked)

Shutdown(k) ==
  /\ ~stop_
  /\ Step(k, "idle", "sd_ctx")
  /\ stop_' = TRUE
  /\ shutter' = k
  /\ sdTodo' = Processors
  /\ UNCHANGED <<croutineVars, dataVars, bodyVars, procVars, registryVars,
                 ctxStop, running_, cr_list>>

\* ClassicContext::Shutdown: stop_ first, then notify_all.
StopContext(k) ==
  /\ Step(k, "sd_ctx", "sd_notify")
  /\ \E p \in sdTodo : /\ ctxStop' = [ctxStop EXCEPT ![p] = TRUE]
                       /\ sdTodo' = sdTodo \ {p}
  /\ UNCHANGED <<croutineVars, dataVars, bodyVars, procVars, registryVars,
                 stop_, running_, cr_list, shutter>>

NotifyContext(k) ==
  /\ Step(k, "sd_notify", IF sdTodo = {} THEN "sd_remove" ELSE "sd_ctx")
  /\ NotifyAll
  /\ cr_list' = IF sdTodo = {} THEN id_cr_ ELSE cr_list
  /\ UNCHANGED <<croutineVars, dataVars, bodyVars, registryVars, stop_,
                 ctxStop, running_, sdTodo, shutter>>

\* RemoveCRoutine for the ids that were registered at the snapshot.
RemoveNext(k) ==
  /\ \/ \E c \in cr_list : /\ Call(k, "sd_remove", c, "rm_lock")
                           /\ cr_list' = cr_list \ {c}
                           /\ UNCHANGED sdTodo
     \/ /\ cr_list = {}
        /\ Step(k, "sd_remove", "sd_stop")
        /\ sdTodo' = Processors
        /\ UNCHANGED cr_list
  /\ UNCHANGED <<croutineVars, dataVars, bodyVars, procVars, registryVars,
                 stop_, ctxStop, running_, shutter>>

\* Processor::Stop: clear running_, shut the context down again, join.
StopProcessor(k) ==
  /\ \/ \E p \in sdTodo :
          /\ Step(k, "sd_stop", "sd_join")
          /\ running_' = [running_ EXCEPT ![p] = FALSE]
          /\ sdTodo' = sdTodo \ {p}
     \/ /\ sdTodo = {}
        /\ Step(k, "sd_stop", "idle")
        /\ UNCHANGED <<running_, sdTodo>>
  /\ UNCHANGED <<croutineVars, dataVars, bodyVars, procVars, registryVars,
                 stop_, ctxStop, cr_list, shutter>>

NotifyStopped(k) ==
  /\ Step(k, "sd_join", "sd_joining")
  /\ NotifyAll
  /\ UNCHANGED <<croutineVars, dataVars, bodyVars, registryVars, stopVars>>

\* join() waits for every processor stopped so far (the earlier ones have
\* already exited).
Join(k) ==
  /\ Step(k, "sd_joining", "sd_stop")
  /\ \A p \in Processors : ~running_[p] => ppc[p] = "exit"
  /\ UNCHANGED <<croutineVars, dataVars, bodyVars, procVars, registryVars,
                 stopVars>>

-----------------------------------------------------------------------------
Init ==
  /\ CRoutineInit
  /\ stop_ = FALSE
  /\ id_cr_ = {}
  /\ id_map_mutex_ = [c \in Routines |-> None]
  /\ cr_group_ = [i \in Prios |-> <<>>]
  /\ callback = [c \in Routines |-> FALSE]
  /\ tail = [c \in Routines |-> 0]
  /\ next_msg_index_ = [c \in Routines |-> 0]
  /\ skipped = [c \in Routines |-> 0]
  /\ slept = [c \in Routines |-> FALSE]
  /\ expired = [c \in Routines |-> TRUE]
  /\ ppc = [p \in Processors |-> "loop"]
  /\ cur = [p \in Processors |-> None]
  /\ lvl = [p \in Processors |-> 0]
  /\ idx = [p \in Processors |-> 1]
  /\ need_sleep_ = [p \in Processors |-> FALSE]
  /\ ctxStop = [p \in Processors |-> FALSE]
  /\ running_ = [p \in Processors |-> TRUE]
  /\ cpc = [k \in Clients |-> "idle"]
  /\ arg = [k \in Clients |-> None]
  /\ sdTodo = {}
  /\ cr_list = {}
  /\ shutter = None

\* What a processor does by itself, in the order of its control states.
ProcessorStep(p) ==
  \/ Loop(p) \/ NextRoutine(p) \/ LockQueue(p) \/ Scan(p) \/ EndOfQueue(p)
  \/ Update(p) \/ ReleaseAndGoOn(p) \/ Resume(p) \/ SetDataWait(p)
  \/ TryFetch(p) \/ CallbackReturns(p) \/ CallbackSleeps(p) \/ Done(p)
  \/ WaitCheck(p) \/ WaitBlock(p) \/ Timeout(p)

\* What a client does once it has called an operation.
ClientStep(k) ==
  \/ DispatchLock(k) \/ DispatchRegister(k) \/ DispatchEnqueue(k)
  \/ DispatchNotify(k) \/ RegisterNotifyCallback(k)
  \/ RemoveLock(k) \/ RemoveUnregister(k) \/ RemoveWriteLock(k)
  \/ RemoveErase(k)
  \/ NotifyCallback(k) \/ NotifyStopCheck(k) \/ NotifyLookup(k)
  \/ NotifyFlag(k) \/ NotifyCv(k)
  \/ StopContext(k) \/ NotifyContext(k) \/ RemoveNext(k)
  \/ StopProcessor(k) \/ NotifyStopped(k) \/ Join(k)

Next ==
  \/ \E p \in Processors : ProcessorStep(p) \/ SpuriousWake(p)
  \/ \E k \in Clients : ClientStep(k) \/ Shutdown(k)
  \/ \E k \in Clients, c \in Routines :
       \/ CreateTask(k, c) \/ RemoveTask(k, c)
       \/ Dispatch(k, c) \/ NotifyTask(k, c)
  \/ \E c \in Routines : Tick(c)

Spec == Init /\ [][Next]_vars

-----------------------------------------------------------------------------
ProcessorPc ==
  {"loop", "next", "lock", "scan", "update", "release", "resume", "run",
   "fetch", "busy", "done", "wait", "block", "waiting", "timed", "exit"}
ClientPc ==
  {"idle", "cr_lock", "cr_register", "cr_enqueue", "cr_notify",
   "cr_callback", "rm_lock", "rm_unregister", "rm_wlock", "rm_acquire",
   "nt_callback", "nt_stop", "nt_lookup", "nt_flag", "nt_cv",
   "sd_ctx", "sd_notify", "sd_remove", "sd_stop", "sd_join", "sd_joining"}

\* Control states that need cur[p] or arg[k] to name a routine.
Holding == {"update", "release", "resume", "run", "fetch", "busy", "done"}
Working == {"cr_lock", "cr_register", "cr_enqueue", "cr_notify",
            "cr_callback", "rm_lock", "rm_unregister", "rm_wlock",
            "rm_acquire", "nt_callback", "nt_stop", "nt_lookup", "nt_flag",
            "nt_cv"}

DataTypeOK ==
  /\ callback \in [Routines -> BOOLEAN]
  /\ tail \in [Routines -> Nat]
  /\ next_msg_index_ \in [Routines -> Nat]
  /\ skipped \in [Routines -> Nat]
  /\ slept \in [Routines -> BOOLEAN]
  /\ expired \in [Routines -> BOOLEAN]
RegistryTypeOK ==
  /\ id_cr_ \subseteq Routines
  /\ id_map_mutex_ \in [Routines -> Clients \union {None}]
  /\ cr_group_ \in [Prios -> Seq(Routines)]
ProcessorTypeOK ==
  /\ ppc \in [Processors -> ProcessorPc]
  /\ cur \in [Processors -> Routines \union {None}]
  /\ \A p \in Processors : cur[p] # None <=> ppc[p] \in Holding
  /\ lvl \in [Processors -> Prios]
  /\ idx \in [Processors -> Nat \ {0}]
  /\ need_sleep_ \in [Processors -> BOOLEAN]
StopTypeOK ==
  /\ stop_ \in BOOLEAN
  /\ ctxStop \in [Processors -> BOOLEAN]
  /\ running_ \in [Processors -> BOOLEAN]
  /\ sdTodo \subseteq Processors
  /\ cr_list \subseteq Routines
  /\ shutter \in Clients \union {None}
ClientTypeOK ==
  /\ cpc \in [Clients -> ClientPc]
  /\ arg \in [Clients -> Routines \union {None}]
  /\ \A k \in Clients : cpc[k] \in Working => arg[k] # None

TypeOK ==
  /\ CRoutineTypeOK
  /\ DataTypeOK
  /\ RegistryTypeOK
  /\ ProcessorTypeOK
  /\ StopTypeOK
  /\ ClientTypeOK

(***************************************************************************)
(* A routine's stack is only ever entered by one processor: two processors *)
(* never hold the same routine between Acquire() in NextRoutine and        *)
(* Release() in Run.                                                       *)
(***************************************************************************)
ExclusiveRoutine ==
  \A p, q \in Processors : cur[p] # None /\ cur[p] = cur[q] => p = q

(***************************************************************************)
(* The "Invalid Routine State!" branch of CRoutine::Resume is dead: what   *)
(* NextRoutine returned is still READY when it is resumed, although other  *)
(* threads notify, stop and remove it in between.                          *)
(***************************************************************************)
ResumedIsReady ==
  \A p \in Processors : ppc[p] = "resume" => state_[cur[p]] = "READY"

(***************************************************************************)
(* Once RemoveCRoutine has returned (the id is unregistered and its mutex  *)
(* is free) the routine is in no run queue and no processor is inside it,  *)
(* so the caller may destroy what its callback uses.                       *)
(***************************************************************************)
RemovedIsQuiescent ==
  \A c \in Routines :
    c \notin id_cr_ /\ id_map_mutex_[c] = None =>
      ~Queued(c) /\ \A p \in Processors : cur[p] # c

(***************************************************************************)
(* The wait/notify handshake of routine_factory.h and NotifyProcessor: a   *)
(* routine parked in DATA_WAIT with a message to read has its update flag  *)
(* pending, unless a notification is still on its way or the delivery      *)
(* found no callback registered.                                           *)
(***************************************************************************)
Notifying(c) ==
  \E k \in Clients : /\ arg[k] = c
                     /\ cpc[k] \in {"nt_callback", "nt_stop", "nt_lookup",
                                    "nt_flag"}
Parked(c) ==
  /\ c \in id_cr_
  /\ state_[c] = "DATA_WAIT"
  /\ \A p \in Processors : ~(cur[p] = c /\ ppc[p] \in {"fetch", "busy"})

NoLostNotification ==
  \A c \in Routines :
    /\ Parked(c) /\ Unread(c) /\ tail[c] > skipped[c]
    /\ ~stop_ /\ ~Notifying(c)
    => ~updated_[c]

(***************************************************************************)
(* The run queues: a routine is in the queue of its (clamped) priority and *)
(* in no other, and there only once, however DispatchTask, RemoveTask and  *)
(* Shutdown of the same id interleave.                                     *)
(***************************************************************************)
QueuedOnce ==
  \A i \in Prios : \A a, b \in DOMAIN cr_group_[i] :
    /\ Prio(cr_group_[i][a]) = i
    /\ cr_group_[i][a] = cr_group_[i][b] => a = b

(***************************************************************************)
(* What makes the invariants above inductive.  A held routine is locked    *)
(* and still queued; a client past LockId owns the mutex of its id; a      *)
(* routine being enqueued is registered and not yet queued; one being      *)
(* removed is no longer registered; and a queued routine is registered or  *)
(* on its way out.                                                         *)
(***************************************************************************)
Owning == {"cr_register", "cr_enqueue", "cr_notify", "rm_unregister",
           "rm_wlock", "rm_acquire"}
Removing == {"rm_wlock", "rm_acquire"}

HeldIsLocked ==
  \A p \in Processors : cur[p] # None => lock_[cur[p]] /\ Queued(cur[p])
OwnsId ==
  \A k \in Clients : cpc[k] \in Owning => id_map_mutex_[arg[k]] = k
EnqueuedOnceRegistered ==
  \A k \in Clients :
    cpc[k] = "cr_enqueue" => arg[k] \in id_cr_ /\ ~Queued(arg[k])
RemovedOnceUnregistered ==
  \A k \in Clients : cpc[k] \in Removing => arg[k] \notin id_cr_
QueuedIsKnown ==
  \A c \in Routines :
    Queued(c) => \/ c \in id_cr_
                 \/ \E k \in Clients : cpc[k] \in Removing /\ arg[k] = c

\* Registry, mutexes, queues and held routines agree, between any two steps
\* of DispatchTask, RemoveCRoutine and NextRoutine, in the five ways above.
Bookkeeping ==
  /\ HeldIsLocked
  /\ OwnsId
  /\ EnqueuedOnceRegistered
  /\ RemovedOnceUnregistered
  /\ QueuedIsKnown

\* The inductive invariant: Bookkeeping and the properties above, but for
\* RemovedIsQuiescent, which follows from it.
RegistryInv ==
  /\ QueuedOnce
  /\ OwnsId
  /\ EnqueuedOnceRegistered
  /\ RemovedOnceUnregistered
  /\ QueuedIsKnown

Inv ==
  /\ TypeOK
  /\ RegistryInv
  /\ HeldIsLocked
  /\ ExclusiveRoutine
  /\ ResumedIsReady
  /\ NoLostNotification

(***************************************************************************)
(* Liveness.  Processor threads keep running and callbacks return; a       *)
(* client inside an operation goes on, and is not overtaken forever on a   *)
(* lock (AtomicRWLock lets no new reader in while a writer waits).         *)
(***************************************************************************)
Fairness ==
  /\ \A p \in Processors : WF_vars(ProcessorStep(p))
  /\ \A k \in Clients : SF_vars(ClientStep(k))
  /\ \A c \in Routines : WF_vars(Tick(c))

FairSpec == Spec /\ Fairness

\* RemoveCRoutine's spin on Acquire() under the write lock always ends.
RemoveCompletes ==
  \A k \in Clients : cpc[k] = "rm_acquire" ~> cpc[k] # "rm_acquire"

\* Scheduler::Shutdown returns: every processor is eventually joined.
ShutdownReturns ==
  \A k \in Clients : cpc[k] = "sd_ctx" ~> cpc[k] = "idle"
=============================================================================
