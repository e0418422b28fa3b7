------------------------------ MODULE MC_Data ------------------------------
(***************************************************************************)
(* What lies between the transports and the routines: DataFusion, with one *)
(* visitor (its constants are the cfg's) and with two, and TaskManager.    *)
(* The liveness of AtomicRWLock, which both rest on, is checked here too,  *)
(* as the run of the primitives uses symmetry.  Each behaviour exercises   *)
(* one subject.                                                            *)
(***************************************************************************)
EXTENDS DataFusion

CONSTANTS
  Pair,                       \* two visitors
  Routines, Clients, Tasks, task_queue_size_,   \* of TaskManager
  Threads                     \* of AtomicRWLock

ASSUME TaskQueueAssumption == task_queue_size_ \in Nat \ {0}

VARIABLES
  subject,
  state_, lock_, updated_, force_stop_, stop_, task_queue_, rpc, running,
  cpc, ktodo, handed, accepted, done,                 \* of TaskManager
  lock_num_, write_lock_wait_num_, pc, lock_num       \* of AtomicRWLock

fusionAll == vars
taskAll == <<state_, lock_, updated_, force_stop_, stop_, task_queue_, rpc,
             running, cpc, ktodo, handed, accepted, done>>
lockAll == <<lock_num_, write_lock_wait_num_, pc, lock_num>>
mcVars == <<fusionAll, taskAll, lockAll, subject>>

Two == INSTANCE DataFusion WITH Visitors <- Pair, MaxMain <- 1, MaxSub <- 1
Manager == INSTANCE TaskManager WITH todo <- ktodo
Lock == INSTANCE AtomicRWLock WITH write_first_ <- TRUE

-----------------------------------------------------------------------------
MCInit ==
  /\ Manager!Init /\ Lock!Init
  /\ \/ subject \in {"one", "tasks", "lock"} /\ Init
     \/ subject = "two" /\ Two!Init

Fusion(which, A) == subject = which /\ A /\ UNCHANGED <<taskAll, lockAll, subject>>
Locking(A) == subject = "lock" /\ A /\ UNCHANGED <<fusionAll, taskAll, subject>>

MCNext ==
  \/ Fusion("one", Next)
  \/ Fusion("two", Two!Next)
  \/ subject = "tasks" /\ Manager!Next /\ UNCHANGED <<fusionAll, lockAll, subject>>
  \/ Locking(Lock!Next)

(***************************************************************************)
(* Fairness: a thread that has begun Dispatch() goes on, a routine that    *)
(* was notified is resumed, and threads go on once they have called an     *)
(* operation of the lock, to unlock it in the end.                         *)
(***************************************************************************)
MCSpec ==
  /\ MCInit /\ [][MCNext]_mcVars
  /\ \A p \in Publishers : /\ WF_mcVars(Fusion("one", PublisherStep(p)))
                           /\ WF_mcVars(Fusion("two", Two!PublisherStep(p)))
  /\ \A v \in Visitors : WF_mcVars(Fusion("one", TryFetch(v)))
  /\ \A v \in Pair : WF_mcVars(Fusion("two", Two!TryFetch(v)))
  /\ \A t \in Threads : WF_mcVars(Locking(Lock!Step(t)))

-----------------------------------------------------------------------------
(***************************************************************************)
(* DataVisitor's routine: a fused message does not lie unread, unless it   *)
(* came before RegisterNotifyCallback(), although several threads dispatch *)
(* and other visitors of the channel have no callback yet.                 *)
(***************************************************************************)
FusedIsFetched ==
  /\ \A v \in Visitors : (subject = "one" /\ Pending(v))
                            ~> (subject = "one" /\ ~Pending(v))
  /\ \A v \in Pair : (subject = "two" /\ Two!Pending(v))
                        ~> (subject = "two" /\ ~Two!Pending(v))

\* TaskManager: a function the queue took is in the queue, being run or run,
\* and once, and the queue never holds more than its size.
AcceptedOnce == Manager!TypeOK /\ Manager!AcceptedOnce

(***************************************************************************)
(* AtomicRWLock, write_first_: a stream of readers cannot starve the       *)
(* writers; when one waits, it or another one is eventually inside.        *)
(***************************************************************************)
WriterGetsIn == Lock!WriterGetsIn
=============================================================================
