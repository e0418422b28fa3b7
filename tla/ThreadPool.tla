----------------------------- MODULE ThreadPool -----------------------------
(***************************************************************************)
(* cyber/base/thread_pool.h: workers that WaitDequeue() tasks from a       *)
(* BoundedQueue with a BlockWaitStrategy, clients that Enqueue() them, and *)
(* the destructor.  A value is a task; each task is submitted once.        *)
(***************************************************************************)
EXTENDS BoundedQueue

CONSTANTS
  Workers, Clients,  \* some of the Consumers, of the Producers
  Owner              \* the client that destroys the pool

VARIABLES
  stop_,
  wpc,         \* each worker's place in its loop
  cpc,         \* each client's place in Enqueue() or ~ThreadPool()
  task,        \* the task a client is submitting
  submitted,   \* tasks handed to Enqueue()
  executed     \* how often each task was run

poolVars == <<stop_, wpc, cpc, task, submitted, executed>>
allVars == <<vars, poolVars>>

WorkersInit ==
  /\ stop_ = FALSE
  /\ wpc = [w \in Workers |-> "check"]
  /\ cpc = [c \in Clients |-> "idle"]
  /\ task = [c \in Clients |-> NoValue]
  /\ submitted = {}
  /\ executed = [v \in Values |-> 0]
PoolInit == Init /\ WorkersInit

Worker(w, from, to) == wpc[w] = from /\ wpc' = [wpc EXCEPT ![w] = to]
Client(c, from, to) == cpc[c] = from /\ cpc' = [cpc EXCEPT ![c] = to]

\* while (!stop_) ...
WorkerCheck(w) ==
  /\ Worker(w, "check", IF stop_ THEN "exit" ELSE "pull")
  /\ IF stop_ THEN UNCHANGED vars ELSE Dequeue(w, TRUE)
  /\ UNCHANGED <<stop_, cpc, task, submitted, executed>>

\* WaitDequeue() returned: run the task, if there is one.
WorkerRun(w) ==
  /\ Worker(w, "pull", "check")
  /\ pc[w] = "idle"
  /\ executed' = IF ok[w] THEN [executed EXCEPT ![out[w]] = @ + 1] ELSE executed
  /\ UNCHANGED <<vars, stop_, cpc, task, submitted>>

\* ThreadPool::Enqueue: refused once stopped; the queue's answer is ignored,
\* so a task that finds the queue full is dropped.
Submit(c, v) ==
  /\ Client(c, "idle", IF stop_ THEN "idle" ELSE "enqueue")
  /\ v \notin submitted /\ v # NoValue
  /\ submitted' = submitted \union {v}
  /\ task' = [task EXCEPT ![c] = v]
  /\ UNCHANGED <<vars, stop_, wpc, executed>>

SubmitEnqueue(c) ==
  /\ Client(c, "enqueue", "return")
  /\ Enqueue(c, task[c], FALSE)
  /\ UNCHANGED <<stop_, wpc, task, submitted, executed>>

SubmitReturn(c) ==
  /\ Client(c, "return", "idle")
  /\ pc[c] = "idle"
  /\ UNCHANGED <<vars, stop_, wpc, task, submitted, executed>>

\* ~ThreadPool(): stop_, BreakAllWait(), join.
Destroy ==
  /\ Client(Owner, "idle", "break")
  /\ ~stop_
  /\ stop_' = TRUE
  /\ UNCHANGED <<vars, wpc, task, submitted, executed>>

DestroyBreak ==
  /\ Client(Owner, "break", "join")
  /\ SetBreak(Owner)
  /\ UNCHANGED <<stop_, wpc, task, submitted, executed>>

DestroyJoin ==
  /\ Client(Owner, "join", "destroyed")
  /\ pc[Owner] = "idle"
  /\ \A w \in Workers : wpc[w] = "exit"
  /\ UNCHANGED <<vars, stop_, wpc, task, submitted, executed>>

QueueStep(t) == Step(t) /\ UNCHANGED poolVars
SpuriousCas(t) == CasFails(t) /\ UNCHANGED poolVars

ThreadStep(t) ==
  \/ QueueStep(t)
  \/ t \in Workers /\ (WorkerCheck(t) \/ WorkerRun(t))
  \/ t \in Clients /\ (SubmitEnqueue(t) \/ SubmitReturn(t))
  \/ t = Owner /\ (DestroyBreak \/ DestroyJoin)

PoolNext ==
  /\ \/ \E t \in Workers \union Clients : ThreadStep(t) \/ SpuriousCas(t)
     \/ \E c \in Clients, v \in Values : Submit(c, v)
     \/ Destroy
  /\ UNCHANGED setupVars

PoolSpec == PoolInit /\ [][PoolNext]_allVars

-----------------------------------------------------------------------------
PoolTypeOK ==
  /\ TypeOK
  /\ stop_ \in BOOLEAN
  /\ wpc \in [Workers -> {"check", "pull", "exit"}]
  /\ cpc \in [Clients -> {"idle", "enqueue", "return", "break", "join",
                            "destroyed"}]
  /\ task \in [Clients -> Values]
  /\ submitted \subseteq Values
  /\ executed \in [Values -> Nat]

(***************************************************************************)
(* No task is run twice and none is invented, whichever workers race for   *)
(* it and whenever the pool is stopped.                                    *)
(***************************************************************************)
TasksRunOnce ==
  \A v \in Values : executed[v] <= (IF v \in submitted THEN 1 ELSE 0)
=============================================================================
