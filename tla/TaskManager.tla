---------------------------- MODULE TaskManager ----------------------------
(***************************************************************************)
(* cyber/task: Async() hands a function to TaskManager::Enqueue, and the   *)
(* routines "/internal/task<i>" take functions from the queue and run      *)
(* them, hanging up (DATA_WAIT) when it is empty.  The queue is the FIFO   *)
(* that BoundedQueue implements; processors resume a routine that          *)
(* UpdateState() finds READY (ClassicScheduler).                           *)
(***************************************************************************)
EXTENDS CRoutine, Integers, Sequences, FiniteSets

CONSTANTS
  Clients,       \* threads that call Async()
  Tasks,         \* functions, each handed in once
  task_queue_size_   \* at least 1

VARIABLES
  stop_, task_queue_,
  rpc,           \* each routine's place in the loop
  running,       \* the function a routine has dequeued
  cpc, todo,     \* each client's place in Enqueue(), routines to notify
  handed,        \* functions handed to Enqueue()
  accepted,      \* those the queue took
  done           \* how often each function was run

routineVars == <<rpc, running>>
clientVars == <<cpc, todo, handed, accepted>>
vars == <<croutineVars, stop_, task_queue_, routineVars, clientVars, done>>

Init ==
  /\ CRoutineInit
  /\ stop_ = FALSE
  /\ task_queue_ = <<>>
  /\ rpc = [c \in Routines |-> "parked"]
  /\ running = [c \in Routines |-> {}]
  /\ cpc = [k \in Clients |-> "idle"]
  /\ todo = [k \in Clients |-> {}]
  /\ handed = {} /\ accepted = {}
  /\ done = [t \in Tasks |-> 0]

-----------------------------------------------------------------------------
(* The routines.                                                           *)
Go(c, from, to) == rpc[c] = from /\ rpc' = [rpc EXCEPT ![c] = to]

\* A processor acquires the routine and resumes it if it is READY.
Resume(c) ==
  /\ Go(c, "parked", "loop")
  /\ NextState(c, FALSE) = "READY"
  /\ Acquire(c)
  /\ UpdateState(c, FALSE)
  /\ UNCHANGED <<force_stop_, stop_, task_queue_, running, clientVars, done>>

\* while (!stop_): the function ends, and with it the routine.
Loop(c) ==
  /\ Go(c, "loop", IF stop_ THEN "finished" ELSE "dequeue")
  /\ state_' = IF stop_ THEN [state_ EXCEPT ![c] = "FINISHED"] ELSE state_
  /\ lock_' = IF stop_ THEN [lock_ EXCEPT ![c] = FALSE] ELSE lock_
  /\ UNCHANGED <<updated_, force_stop_, stop_, task_queue_, running,
                 clientVars, done>>

\* Fault: the element is read but not taken.
FaultyDequeue(c) ==
  /\ \/ /\ task_queue_ = <<>>
        /\ Go(c, "dequeue", "hangup")
        /\ UNCHANGED <<task_queue_, running>>
     \/ /\ task_queue_ # <<>>
        /\ Go(c, "dequeue", "task")
        /\ running' = [running EXCEPT ![c] = {Head(task_queue_)}]
        /\ UNCHANGED task_queue_
  /\ UNCHANGED <<croutineVars, stop_, clientVars, done>>

Dequeue(c) ==
  /\ \/ /\ task_queue_ = <<>>
        /\ Go(c, "dequeue", "hangup")
        /\ UNCHANGED <<task_queue_, running>>
     \/ /\ task_queue_ # <<>>
        /\ Go(c, "dequeue", "task")
        /\ running' = [running EXCEPT ![c] = {Head(task_queue_)}]
        /\ task_queue_' = Tail(task_queue_)
  /\ UNCHANGED <<croutineVars, stop_, clientVars, done>>

\* HangUp(): DATA_WAIT only now, after the queue was found empty.
HangUp(c) ==
  /\ Go(c, "hangup", "parked")
  /\ SetState(c, "DATA_WAIT")
  /\ Release(c)
  /\ UNCHANGED <<updated_, force_stop_, stop_, task_queue_, running,
                 clientVars, done>>

\* task(), then back to the loop.
RunTask(c) ==
  /\ Go(c, "task", "loop")
  /\ running' = [running EXCEPT ![c] = {}]
  /\ done' = [t \in Tasks |-> IF t \in running[c] THEN done[t] + 1 ELSE done[t]]
  /\ UNCHANGED <<croutineVars, stop_, task_queue_, clientVars>>

-----------------------------------------------------------------------------
(* TaskManager::Enqueue and Shutdown.                                      *)

\* Fault: the size of the queue is not minded.
FaultyEnqueue(k, t) ==
  /\ cpc[k] = "idle" /\ t \notin handed
  /\ handed' = handed \union {t}
  /\ task_queue_' = IF stop_ THEN task_queue_ ELSE Append(task_queue_, t)
  /\ accepted' = IF stop_ THEN accepted ELSE accepted \union {t}
  /\ cpc' = [cpc EXCEPT ![k] = IF stop_ THEN "idle" ELSE "notify"]
  /\ todo' = [todo EXCEPT ![k] = IF stop_ THEN {} ELSE Routines]
  /\ UNCHANGED <<croutineVars, stop_, routineVars, done>>

\* The answer of the queue is ignored: a function that finds it full is
\* gone.  Nothing is done after a shutdown.
Enqueue(k, t) ==
  /\ cpc[k] = "idle" /\ t \notin handed
  /\ handed' = handed \union {t}
  /\ LET fits == ~stop_ /\ Len(task_queue_) < task_queue_size_ IN
       /\ task_queue_' = IF fits THEN Append(task_queue_, t) ELSE task_queue_
       /\ accepted' = IF fits THEN accepted \union {t} ELSE accepted
  /\ cpc' = [cpc EXCEPT ![k] = IF stop_ THEN "idle" ELSE "notify"]
  /\ todo' = [todo EXCEPT ![k] = IF stop_ THEN {} ELSE Routines]
  /\ UNCHANGED <<croutineVars, stop_, routineVars, done>>

\* NotifyTask for each routine: a waiting one is flagged.  (That the state
\* may be stale when the flag is set is ClassicScheduler's business.)
NotifyTask(k) ==
  /\ cpc[k] = "notify"
  /\ \E c \in todo[k] :
       /\ IF state_[c] \in Waiting THEN SetUpdateFlag(c) ELSE UNCHANGED updated_
       /\ todo' = [todo EXCEPT ![k] = @ \ {c}]
       /\ cpc' = [cpc EXCEPT ![k] = IF todo[k] = {c} THEN "idle" ELSE @]
  /\ UNCHANGED <<state_, lock_, force_stop_, stop_, task_queue_, routineVars,
                 handed, accepted, done>>

Shutdown(k) ==
  /\ cpc[k] = "idle" /\ ~stop_
  /\ stop_' = TRUE
  /\ UNCHANGED <<croutineVars, task_queue_, routineVars, clientVars, done>>

RoutineStep(c) ==
  \/ Resume(c) \/ Loop(c) \/ Dequeue(c) \/ HangUp(c) \/ RunTask(c)

Next ==
  \/ \E c \in Routines : RoutineStep(c)
  \/ \E k \in Clients : NotifyTask(k) \/ Shutdown(k)
  \/ \E k \in Clients, t \in Tasks : Enqueue(k, t)

Spec == Init /\ [][Next]_vars

-----------------------------------------------------------------------------
TypeOK ==
  /\ CRoutineTypeOK
  /\ stop_ \in BOOLEAN
  /\ task_queue_ \in Seq(Tasks) /\ Len(task_queue_) <= task_queue_size_
  /\ rpc \in [Routines -> {"parked", "loop", "dequeue", "hangup", "task",
                           "finished"}]
  /\ running \in [Routines -> SUBSET Tasks]
  /\ cpc \in [Clients -> {"idle", "notify"}]
  /\ todo \in [Clients -> SUBSET Routines]
  /\ handed \subseteq Tasks /\ accepted \subseteq handed
  /\ done \in [Tasks -> Nat]

(***************************************************************************)
(* A function the queue took is in the queue, being run or run, exactly    *)
(* one of these and exactly once, whichever routines race for it and       *)
(* whenever Shutdown() comes.                                              *)
(***************************************************************************)
Places(t) ==
  Cardinality({i \in DOMAIN task_queue_ : task_queue_[i] = t})
  + Cardinality({c \in Routines : t \in running[c]}) + done[t]

AcceptedOnce ==
  \A t \in Tasks : Places(t) = IF t \in accepted THEN 1 ELSE 0

(***************************************************************************)
(* A function handed to Async() is run eventually: the future of           *)
(* task_test.cc becomes ready.  Processors resume what is READY, routines  *)
(* and clients go on; Shutdown() and a full queue are excused.             *)
(***************************************************************************)
FairSpec ==
  /\ Spec
  /\ \A c \in Routines : WF_vars(RoutineStep(c))
  /\ \A k \in Clients : WF_vars(NotifyTask(k))

TaskIsRun ==
  \A t \in Tasks : t \in accepted ~> (done[t] = 1 \/ stop_)
=============================================================================
