----------------------- MODULE ChoreographyScheduler -----------------------
(***************************************************************************)
(* cyber/scheduler with the choreography policy: SchedulerChoreography and *)
(* ChoreographyContext.  The first proc_num_ processors have a queue of    *)
(* their own that routines are pinned to, wait at most a millisecond and   *)
(* are notified through notified_; the others share the pool, the default  *)
(* group of ClassicContext, whose inner steps module ClassicScheduler has. *)
(* A queue is a sequence in descending order of priority, which is what    *)
(* both the multimap and the array of run queues amount to.  Routines do   *)
(* not sleep here, and a routine's unread message is one flag.             *)
(***************************************************************************)
EXTENDS CRoutine, Integers, Sequences

CONSTANTS
  Clients,       \* application threads
  None,          \* no client, no routine
  Confs,         \* what the constructor may read: ChoreographyConf
  MaxPrio        \* MAX_PRIO

\* A configuration has the sizes of the two parts and, for each routine, the
\* processor (-1 if it has none) and the priority.
ASSUME ChoreographyAssumption ==
  /\ None \notin Clients \union Routines
  /\ MaxPrio \in Nat \ {0}
  /\ \A f \in Confs :
       /\ f.proc_num_ \in Nat \ {0} /\ f.task_pool_size_ \in Nat
       /\ f.processor \in [Routines -> Nat \union {-1}]
       /\ f.prio \in [Routines -> Nat]

VARIABLES
  conf,          \* proc_num_, task_pool_size_ and cr_confs_
  stop_, id_cr_, id_map_mutex_,  \* of Scheduler
  cr_queue_,     \* the queues of the pinned contexts and of the pool
  notified_,     \* atomic_flag of each pinned context
  unread,        \* routines whose visitor has a message
  ppc, cur, idx, \* control state of the processors
  ctxStop, running_,
  cpc, arg,      \* control state of the clients
  todo, cr_list, shutter  \* Shutdown(): what its loops have left, its caller

queueVars == <<id_cr_, id_map_mutex_, cr_queue_>>
procVars == <<ppc, cur, idx>>
stopVars == <<stop_, ctxStop, running_, todo, cr_list, shutter>>
clientVars == <<cpc, arg>>
vars == <<conf, croutineVars, queueVars, notified_, unread, procVars, stopVars,
          clientVars>>

ConfProc == conf.processor
ConfPrio == conf.prio
Processors == 0 .. conf.proc_num_ + conf.task_pool_size_ - 1   \* of pctxs_
Pinned == 0 .. conf.proc_num_ - 1
Pool == -1
Queues == Pinned \union {Pool}
QueueOf(p) == IF p \in Pinned THEN p ELSE Pool

Within(s, c) == \E i \in DOMAIN s : s[i] = c

\* Fault: the bound is off by one.
FaultyDispatchQueue(c) ==
  IF ConfProc[c] + 1 \in Pinned THEN ConfProc[c] ELSE Pool

\* DispatchTask: a processor that is not a pinned one means the pool ...
DispatchQueue(c) == IF ConfProc[c] \in Pinned THEN ConfProc[c] ELSE Pool

\* ... but NotifyProcessor and RemoveCRoutine take only -1 for it.
RouteQueue(c) == ConfProc[c]

\* Only the pool has a highest priority.
Prio(c) == IF DispatchQueue(c) = Pool /\ ConfPrio[c] >= MaxPrio
             THEN MaxPrio - 1 ELSE ConfPrio[c]

\* Fault: the queue is kept in ascending order.
FaultyEmplace(s, c) ==
  LET before == {i \in DOMAIN s : Prio(s[i]) <= Prio(c)}
      k == CHOOSE n \in 0 .. Len(s) : before = 1 .. n
  IN  SubSeq(s, 1, k) \o <<c>> \o SubSeq(s, k + 1, Len(s))

\* emplace() behind those of the same priority.
Emplace(s, c) ==
  LET before == {i \in DOMAIN s : Prio(s[i]) >= Prio(c)}
      k == CHOOSE n \in 0 .. Len(s) : before = 1 .. n
  IN  SubSeq(s, 1, k) \o <<c>> \o SubSeq(s, k + 1, Len(s))

\* The loop over a queue erases the first match and returns.
Erase(s, c) ==
  IF Within(s, c)
    THEN LET i == CHOOSE i \in DOMAIN s :
                    s[i] = c /\ \A j \in DOMAIN s : j < i => s[j] # c
         IN  SubSeq(s, 1, i - 1) \o SubSeq(s, i + 1, Len(s))
    ELSE s

\* rq_lk_: read by a scanning processor, written by a removing client.
Readable(q) == \A k \in Clients : ~(cpc[k] = "rm_acquire"
                                    /\ RouteQueue(arg[k]) = q)
Writable(q) ==
  /\ Readable(q)
  /\ \A p \in Processors : ~(ppc[p] \in {"scan", "update"} /\ QueueOf(p) = q)

-----------------------------------------------------------------------------
(* Processor::Run with the two kinds of context.                           *)
Goto(p, from, to) == ppc[p] = from /\ ppc' = [ppc EXCEPT ![p] = to]

Loop(p) ==
  /\ Goto(p, "loop", IF running_[p] THEN "next" ELSE "exit")
  /\ UNCHANGED <<croutineVars, queueVars, notified_, unread, cur, idx,
                 stopVars, clientVars>>

NextRoutine(p) ==
  /\ \/ ctxStop[p] /\ Goto(p, "next", "wait") /\ UNCHANGED idx
     \/ /\ ~ctxStop[p] /\ Readable(QueueOf(p))
        /\ Goto(p, "next", "scan")
        /\ idx' = [idx EXCEPT ![p] = 1]
  /\ UNCHANGED <<croutineVars, queueVars, notified_, unread, cur, stopVars,
                 clientVars>>

\* Acquire() the next routine, or pass over one that somebody holds.
Scan(p) ==
  LET s == cr_queue_[QueueOf(p)] IN
  /\ ppc[p] = "scan" /\ idx[p] <= Len(s)
  /\ \/ /\ Acquire(s[idx[p]])
        /\ cur' = [cur EXCEPT ![p] = s[idx[p]]]
        /\ ppc' = [ppc EXCEPT ![p] = "update"]
        /\ UNCHANGED idx
     \/ /\ lock_[s[idx[p]]]
        /\ idx' = [idx EXCEPT ![p] = @ + 1]
        /\ UNCHANGED <<lock_, cur, ppc>>
  /\ UNCHANGED <<state_, updated_, force_stop_, queueVars, notified_, unread,
                 stopVars, clientVars>>

\* Fault: a routine that is not READY is kept.
FaultyUpdate(p) ==
  LET c == cur[p] IN
  /\ Goto(p, "update", IF NextState(c, FALSE) = "READY" THEN "resume"
                       ELSE "scan")
  /\ UpdateState(c, FALSE)
  /\ idx' = [idx EXCEPT ![p] = @ + 1]
  /\ UNCHANGED <<lock_, force_stop_, queueVars, notified_, unread, cur,
                 stopVars, clientVars>>

\* UpdateState(): a READY routine is returned, any other released.
Update(p) ==
  LET c == cur[p] IN
  /\ ppc[p] = "update"
  /\ UpdateState(c, FALSE)
  /\ \/ /\ NextState(c, FALSE) = "READY"
        /\ ppc' = [ppc EXCEPT ![p] = "resume"]
        /\ UNCHANGED <<lock_, cur, idx>>
     \/ /\ NextState(c, FALSE) # "READY"
        /\ Release(c)
        /\ cur' = [cur EXCEPT ![p] = None]
        /\ idx' = [idx EXCEPT ![p] = @ + 1]
        /\ ppc' = [ppc EXCEPT ![p] = "scan"]
  /\ UNCHANGED <<force_stop_, queueVars, notified_, unread, stopVars,
                 clientVars>>

\* Nothing to run: a pinned context also clears notified_.
EndOfQueue(p) ==
  /\ idx[p] > Len(cr_queue_[QueueOf(p)])
  /\ Goto(p, "scan", "wait")
  /\ notified_' = [q \in Pinned |-> q # p /\ notified_[q]]
  /\ UNCHANGED <<croutineVars, queueVars, unread, cur, idx, stopVars,
                 clientVars>>

\* CRoutine::Resume.
Resume(p) ==
  LET c == cur[p] IN
  /\ Goto(p, "resume", IF force_stop_[c] THEN "done" ELSE "run")
  /\ state_' = IF force_stop_[c] THEN [state_ EXCEPT ![c] = "FINISHED"]
               ELSE state_
  /\ UNCHANGED <<lock_, updated_, force_stop_, queueVars, notified_, unread,
                 cur, idx, stopVars, clientVars>>

\* The body of CreateRoutineFactory: announce DATA_WAIT, then look.
SetDataWait(p) ==
  /\ Goto(p, "run", "fetch")
  /\ SetState(cur[p], "DATA_WAIT")
  /\ UNCHANGED <<lock_, updated_, force_stop_, queueVars, notified_, unread,
                 cur, idx, stopVars, clientVars>>

TryFetch(p) ==
  LET c == cur[p] IN
  /\ Goto(p, "fetch", "done")
  /\ unread' = unread \ {c}
  /\ state_' = IF c \in unread THEN [state_ EXCEPT ![c] = "READY"] ELSE state_
  /\ UNCHANGED <<lock_, updated_, force_stop_, queueVars, notified_, cur, idx,
                 stopVars, clientVars>>

Done(p) ==
  /\ Goto(p, "done", "loop")
  /\ Release(cur[p])
  /\ cur' = [cur EXCEPT ![p] = None]
  /\ UNCHANGED <<state_, updated_, force_stop_, queueVars, notified_, unread,
                 idx, stopVars, clientVars>>

\* Wait(): a pinned context blocks at once; ClassicContext looks at stop_.
Wait(p) ==
  /\ \/ p \in Pinned /\ Goto(p, "wait", "blocked")
     \/ p \notin Pinned /\ Goto(p, "wait", IF ctxStop[p] THEN "loop"
                                           ELSE "block")
     \/ p \notin Pinned /\ Goto(p, "block", "blocked")
  /\ UNCHANGED <<croutineVars, queueVars, notified_, unread, cur, idx,
                 stopVars, clientVars>>

\* Fault: the pinned contexts wait without a timeout.
FaultyTimeout(p) == FALSE /\ UNCHANGED vars

\* wait_for(1 ms) ends by itself.
Timeout(p) ==
  /\ p \in Pinned
  /\ Goto(p, "blocked", "loop")
  /\ UNCHANGED <<croutineVars, queueVars, notified_, unread, cur, idx,
                 stopVars, clientVars>>

Wake(ps) ==
  /\ ppc' = [p \in Processors |-> IF p \in ps /\ ppc[p] = "blocked"
                                    THEN "loop" ELSE ppc[p]]
  /\ UNCHANGED <<cur, idx>>

-----------------------------------------------------------------------------
(* Clients.                                                                *)
Step(k, from, to) ==
  /\ cpc[k] = from
  /\ cpc' = [cpc EXCEPT ![k] = to]
  /\ arg' = [arg EXCEPT ![k] = IF to = "idle" THEN None ELSE @]
Call(k, c, to) ==
  /\ cpc[k] = "idle"
  /\ cpc' = [cpc EXCEPT ![k] = to]
  /\ arg' = [arg EXCEPT ![k] = c]
Returned(k) == IF shutter = k THEN "sd_remove" ELSE "idle"

LockId(k) ==
  /\ id_map_mutex_[arg[k]] = None
  /\ id_map_mutex_' = [id_map_mutex_ EXCEPT ![arg[k]] = k]
UnlockId(k) == id_map_mutex_' = [id_map_mutex_ EXCEPT ![arg[k]] = None]

CreateTask(k, c) ==
  /\ ~stop_
  /\ Call(k, c, "cr_lock")
  /\ UNCHANGED <<croutineVars, queueVars, notified_, unread, procVars,
                 stopVars>>

RemoveTask(k, c) ==
  /\ ~stop_
  /\ Call(k, c, "rm_lock")
  /\ UNCHANGED <<croutineVars, queueVars, notified_, unread, procVars,
                 stopVars>>

\* cr_wl_mtx_ and the mutex of the id, for DispatchTask and RemoveCRoutine.
TakeId(k) ==
  /\ Step(k, "cr_lock", "cr_register") \/ Step(k, "rm_lock", "rm_unregister")
  /\ LockId(k)
  /\ UNCHANGED <<croutineVars, id_cr_, cr_queue_, notified_, unread, procVars,
                 stopVars>>

DispatchRegister(k) ==
  LET c == arg[k] IN
  /\ \/ /\ c \in id_cr_
        /\ Step(k, "cr_register", "idle")
        /\ UnlockId(k)
        /\ UNCHANGED <<croutineVars, id_cr_>>
     \/ /\ c \notin id_cr_
        /\ Step(k, "cr_register", "cr_enqueue")
        /\ Construct(c)
        /\ id_cr_' = id_cr_ \union {c}
        /\ UNCHANGED id_map_mutex_
  /\ UNCHANGED <<cr_queue_, notified_, unread, procVars, stopVars>>

\* Into the queue; unlike SchedulerClassic, without a notification.
DispatchEnqueue(k) ==
  LET q == DispatchQueue(arg[k]) IN
  /\ Step(k, "cr_enqueue", "idle")
  /\ Writable(q)
  /\ cr_queue_' = [cr_queue_ EXCEPT ![q] = Emplace(@, arg[k])]
  /\ UnlockId(k)
  /\ UNCHANGED <<croutineVars, id_cr_, notified_, unread, procVars, stopVars>>

RemoveUnregister(k) ==
  LET c == arg[k] IN
  /\ \/ /\ c \notin id_cr_
        /\ Step(k, "rm_unregister", Returned(k))
        /\ UnlockId(k)
        /\ UNCHANGED <<force_stop_, id_cr_>>
     \/ /\ c \in id_cr_
        /\ Step(k, "rm_unregister", "rm_wlock")
        /\ Stop(c)
        /\ id_cr_' = id_cr_ \ {c}
        /\ UNCHANGED id_map_mutex_
  /\ UNCHANGED <<state_, lock_, updated_, cr_queue_, notified_, unread,
                 procVars, stopVars>>

\* Defined only if there is such a queue.
RemoveWriteLock(k) ==
  /\ Step(k, "rm_wlock", "rm_acquire")
  /\ RouteQueue(arg[k]) \in Queues
  /\ Writable(RouteQueue(arg[k]))
  /\ UNCHANGED <<croutineVars, queueVars, notified_, unread, procVars,
                 stopVars>>

\* Fault: the routine is erased without waiting for the processor inside.
FaultyRemoveErase(k) ==
  LET q == RouteQueue(arg[k]) IN
  /\ Step(k, "rm_acquire", Returned(k))
  /\ cr_queue_' = [cr_queue_ EXCEPT ![q] = Erase(@, arg[k])]
  /\ UnlockId(k)
  /\ UNCHANGED <<croutineVars, id_cr_, notified_, unread, procVars, stopVars>>

\* Spin on Acquire(), erase, Release().
RemoveErase(k) ==
  LET q == RouteQueue(arg[k]) IN
  /\ Step(k, "rm_acquire", Returned(k))
  /\ Within(cr_queue_[q], arg[k]) => ~lock_[arg[k]]
  /\ cr_queue_' = [cr_queue_ EXCEPT ![q] = Erase(@, arg[k])]
  /\ UnlockId(k)
  /\ UNCHANGED <<croutineVars, id_cr_, notified_, unread, procVars, stopVars>>

\* A message for c, and NotifyTask().
Dispatch(k, c) ==
  /\ Call(k, c, "nt_stop")
  /\ unread' = unread \union {c}
  /\ UNCHANGED <<croutineVars, queueVars, notified_, procVars, stopVars>>

NotifyStopCheck(k) ==
  /\ Step(k, "nt_stop", IF stop_ THEN "idle" ELSE "nt_flag")
  /\ UNCHANGED <<croutineVars, queueVars, notified_, unread, procVars,
                 stopVars>>

\* Fault: only a routine that waits for I/O is flagged.
FaultyNotifyFlag(k) ==
  LET c == arg[k] IN
  /\ Step(k, "nt_flag", IF c \in id_cr_ THEN "nt_wake" ELSE "idle")
  /\ updated_' = [updated_ EXCEPT ![c] = @ /\ state_[c] # "IO_WAIT"]
  /\ UNCHANGED <<state_, lock_, force_stop_, queueVars, notified_, unread,
                 procVars, stopVars>>

\* Look c up and flag it, under id_cr_lock_.
NotifyFlag(k) ==
  LET c == arg[k] IN
  /\ Step(k, "nt_flag", IF c \in id_cr_ THEN "nt_wake" ELSE "idle")
  /\ updated_' = [updated_ EXCEPT
                    ![c] = @ /\ ~(c \in id_cr_ /\ state_[c] \in Waiting)]
  /\ UNCHANGED <<state_, lock_, force_stop_, queueVars, notified_, unread,
                 procVars, stopVars>>

\* ChoreographyContext::Notify calls the processor once per notified_;
\* ClassicContext::Notify wakes any one of the pool.
NotifyWake(k) ==
  LET q == RouteQueue(arg[k])
      pool == {p \in Processors \ Pinned : ppc[p] = "blocked"}
  IN
  /\ Step(k, "nt_wake", "idle")
  /\ \/ /\ q \in Pinned
        /\ notified_' = [notified_ EXCEPT ![q] = TRUE]
        /\ Wake(IF notified_[q] THEN {} ELSE {q})
     \/ /\ q = Pool
        /\ \/ pool = {} /\ UNCHANGED procVars
           \/ \E p \in pool : Wake({p})
        /\ UNCHANGED notified_
  /\ UNCHANGED <<croutineVars, queueVars, unread, stopVars>>

-----------------------------------------------------------------------------
(* Scheduler::Shutdown.                                                    *)
Shutdown(k) ==
  /\ ~stop_
  /\ Step(k, "idle", "sd_stop")
  /\ stop_' = TRUE
  /\ shutter' = k
  /\ todo' = Processors
  /\ UNCHANGED <<croutineVars, queueVars, notified_, unread, procVars,
                 ctxStop, running_, cr_list>>

\* Shutdown() of every context; only ClassicContext's notifies.
StopContext(k) ==
  \E p \in todo :
    /\ Step(k, "sd_stop", IF todo = {p} THEN "sd_remove" ELSE "sd_stop")
    /\ ctxStop' = [ctxStop EXCEPT ![p] = TRUE]
    /\ Wake(IF p \in Pinned THEN {} ELSE Processors \ Pinned)
    /\ todo' = todo \ {p}
    /\ cr_list' = IF todo = {p} THEN id_cr_ ELSE cr_list
    /\ UNCHANGED <<croutineVars, queueVars, notified_, unread, stop_,
                   running_, shutter>>

RemoveNext(k) ==
  /\ \/ \E c \in cr_list :
          /\ cpc[k] = "sd_remove"
          /\ cpc' = [cpc EXCEPT ![k] = "rm_lock"]
          /\ arg' = [arg EXCEPT ![k] = c]
          /\ cr_list' = cr_list \ {c}
          /\ UNCHANGED todo
     \/ /\ cr_list = {}
        /\ Step(k, "sd_remove", "sd_join")
        /\ todo' = Processors
        /\ UNCHANGED cr_list
  /\ UNCHANGED <<croutineVars, queueVars, notified_, unread, procVars, stop_,
                 ctxStop, running_, shutter>>

\* Processor::Stop, one processor after the other, then the join.
StopProcessor(k) ==
  \E p \in todo :
    /\ cpc[k] = "sd_join" /\ running_[p]
    /\ \A r \in todo : p <= r
    /\ running_' = [running_ EXCEPT ![p] = FALSE]
    /\ Wake(IF p \in Pinned THEN {} ELSE Processors \ Pinned)
    /\ UNCHANGED <<croutineVars, queueVars, notified_, unread, stop_,
                   ctxStop, todo, cr_list, shutter, clientVars>>

Join(k) ==
  \E p \in todo :
    /\ ~running_[p] /\ ppc[p] = "exit"
    /\ Step(k, "sd_join", IF todo = {p} THEN "sd_done" ELSE "sd_join")
    /\ todo' = todo \ {p}
    /\ UNCHANGED <<croutineVars, queueVars, notified_, unread, procVars,
                   stop_, ctxStop, running_, cr_list, shutter>>

-----------------------------------------------------------------------------
Init ==
  /\ conf \in Confs
  /\ CRoutineInit
  /\ stop_ = FALSE /\ id_cr_ = {}
  /\ id_map_mutex_ = [c \in Routines |-> None]
  /\ cr_queue_ = [q \in Queues |-> <<>>]
  /\ notified_ = [q \in Pinned |-> FALSE]
  /\ unread = {}
  /\ ppc = [p \in Processors |-> "loop"]
  /\ cur = [p \in Processors |-> None]
  /\ idx = [p \in Processors |-> 1]
  /\ ctxStop = [p \in Processors |-> FALSE]
  /\ running_ = [p \in Processors |-> TRUE]
  /\ cpc = [k \in Clients |-> "idle"]
  /\ arg = [k \in Clients |-> None]
  /\ todo = {} /\ cr_list = {} /\ shutter = None

ProcessorStep(p) ==
  \/ Loop(p) \/ NextRoutine(p) \/ Scan(p) \/ Update(p) \/ EndOfQueue(p)
  \/ Resume(p) \/ SetDataWait(p) \/ TryFetch(p) \/ Done(p) \/ Wait(p)
  \/ Timeout(p)

ClientStep(k) ==
  \/ TakeId(k) \/ DispatchRegister(k) \/ DispatchEnqueue(k)
  \/ RemoveUnregister(k) \/ RemoveWriteLock(k) \/ RemoveErase(k)
  \/ NotifyStopCheck(k) \/ NotifyFlag(k) \/ NotifyWake(k)
  \/ StopContext(k) \/ RemoveNext(k) \/ StopProcessor(k) \/ Join(k)

Next ==
  /\ \/ \E p \in Processors : ProcessorStep(p)
     \/ \E k \in Clients : ClientStep(k) \/ Shutdown(k)
     \/ \E k \in Clients, c \in Routines :
          CreateTask(k, c) \/ RemoveTask(k, c) \/ Dispatch(k, c)
  /\ UNCHANGED conf

Spec == Init /\ [][Next]_vars

-----------------------------------------------------------------------------
Holding == {"update", "resume", "run", "fetch", "done"}
Owning == {"cr_register", "cr_enqueue", "rm_unregister", "rm_wlock", "rm_acquire"}

\* Types; a processor has a routine exactly while it holds it.
TypeOK ==
  /\ conf \in Confs
  /\ CRoutineTypeOK
  /\ stop_ \in BOOLEAN /\ id_cr_ \subseteq Routines
  /\ id_map_mutex_ \in [Routines -> Clients \union {None}]
  /\ cr_queue_ \in [Queues -> Seq(Routines)]
  /\ notified_ \in [Pinned -> BOOLEAN] /\ unread \subseteq Routines
  /\ ppc \in [Processors -> {"loop", "next", "scan", "wait", "block",
                             "blocked", "exit"} \union Holding]
  /\ cur \in [Processors -> Routines \union {None}]
  /\ \A p \in Processors : (cur[p] # None) <=> (ppc[p] \in Holding)
  /\ idx \in [Processors -> Nat \ {0}]
  /\ ctxStop \in [Processors -> BOOLEAN] /\ running_ \in [Processors -> BOOLEAN]
  /\ cpc \in [Clients -> {"idle", "nt_stop", "nt_flag", "nt_wake", "cr_lock",
                          "rm_lock", "sd_stop", "sd_remove", "sd_join",
                          "sd_done"} \union Owning]
  /\ arg \in [Clients -> Routines \union {None}]
  /\ todo \subseteq Processors /\ cr_list \subseteq Routines
  /\ shutter \in Clients \union {None}

(***************************************************************************)
(* NotifyProcessor and RemoveCRoutine turn to the queue DispatchTask put   *)
(* the routine in ("rm cr from pool if rt not in choreo context").         *)
(***************************************************************************)
RoutingAgrees ==
  \A k \in Clients : cpc[k] \in {"rm_wlock", "nt_wake"} =>
    \A q \in Queues :
      Within(cr_queue_[q], arg[k]) => q = RouteQueue(arg[k])

(***************************************************************************)
(* RemoveCRoutine returns when nobody runs the routine any more: unless    *)
(* somebody owns its id, an unregistered routine is held by no processor   *)
(* and in no queue, and a registered one is in exactly one, once.          *)
(***************************************************************************)
RemovedIsQuiescent ==
  \A c \in Routines : id_map_mutex_[c] = None =>
    /\ c \notin id_cr_ => \A p \in Processors : cur[p] # c
    /\ \A q \in Queues : \A i, j \in DOMAIN cr_queue_[q] :
         cr_queue_[q][i] = c =>
           /\ c \in id_cr_ /\ q = DispatchQueue(c)
           /\ cr_queue_[q][j] = c => i = j

\* The two of them: a processor has a routine exactly while it holds it.
QuiescentAfterRemove == TypeOK /\ RemovedIsQuiescent

(***************************************************************************)
(* Priorities: when a pinned context hands out a routine, none of a higher *)
(* priority in its queue is READY, whatever was enqueued, flagged or       *)
(* removed during the search.                                              *)
(***************************************************************************)
HighestFirst ==
  [][\A p \in Pinned : ppc[p] = "update" /\ ppc'[p] = "resume" =>
       \A i \in DOMAIN cr_queue_[p] :
         LET c == cr_queue_[p][i]
         IN  Prio(c) > Prio(cur[p]) => state_[c] # "READY"]_vars

\* The search starts at the front, so only the first in the queue has a
\* claim when the others always have something to do.
Foremost(c) ==
  \A d \in Routines \ {c} :
    DispatchQueue(d) = DispatchQueue(c) => Prio(d) < Prio(c)

\* A pinned routine with a message to read gets it, although notified_ may
\* swallow the notification: the wait is short and the update flag stays.
MessageIsFetched ==
  \A c \in Routines :
    ConfProc[c] \in Pinned /\ Foremost(c) =>
      ((c \in unread /\ c \in id_cr_)
         ~> (c \notin unread \/ c \notin id_cr_ \/ stop_))

\* Shutdown() ends if every processor is a pinned one.
ShutdownReturns ==
  \A k \in Clients : cpc[k] = "sd_stop" ~> cpc[k] = "sd_done"
=============================================================================
