------------------------------ MODULE MC_Base ------------------------------
(***************************************************************************)
(* The synchronisation primitives of cyber/base in one run: AtomicRWLock,  *)
(* whose constants the cfg gives, BoundedQueue under its wait strategies   *)
(* and with several producers or several consumers, ThreadPool on top of   *)
(* it, the other containers and the reentrant lock, the registry of names  *)
(* built on a concurrent map, that of message descriptors and the files.   *)
(* They share no state, so each behaviour exercises one subject and leaves *)
(* the rest as it was initialised.                                         *)
(***************************************************************************)
EXTENDS AtomicRWLock, TLC

CONSTANTS
  p, c,          \* a thread that enqueues, one that dequeues
  Ps, Cs,        \* several of them
  Clients,       \* threads that submit tasks, p among them
  v0, v1, v2,    \* elements; v0 is T()
  Torn,
  SmallSize, LargeSize,                   \* sizes of the queue: LargeSize for several producers
  MaxProduced, MaxConsumed, MaxPooled,    \* bounds: its last position, by subject
  Keys, MaxSets, PoolSize, MaxCount,      \* of LockFree
  MaxNodes, MaxQueued,                    \* of UnboundedQueues
  MaxNesting                              \* of ReentrantRWLock

VARIABLES
  subject,
  pool_size_, wait_strategy_, head_, tail_, commit_, pool_, break_all_wait_, qpc,
  old, element, waits,
  out, ok,                                          \* of BoundedQueue
  stop_, wpc, cpc, task, submitted, executed,       \* of ThreadPool
  bucket, dropped, call, sets,                      \* of LockFree: the map
  free_head_, nexts, user,                          \* and the pool
  links, deleted, worker, taken, harm,              \* of UnboundedQueues,
  queued, broken, waiter, missed,                   \* with linked nodes or a mutex
  reentrant, locker, erased,                        \* of ReentrantRWLock
  id_map, registrar, registered, overlapped, aborted,   \* of Registries: the names
  descriptors, registering, accepted,               \* and the descriptors
  tree, source, caller                              \* of FileTree

lockVars == vars
queueVars == <<pool_size_, wait_strategy_, head_, tail_, commit_, pool_, break_all_wait_,
               qpc, old, element, waits, out, ok>>
poolVars == <<stop_, wpc, cpc, task, submitted, executed>>

mapVars == <<bucket, dropped, call, sets>>
unboundedVars == <<links, deleted, worker, taken, harm>>
reentrantVars == <<reentrant, locker, erased>>
objectsVars == <<free_head_, nexts, user>>
safeQueueVars == <<queued, broken, waiter, missed>>
namesVars == <<id_map, registrar, registered, overlapped, aborted>>
protobufVars == <<descriptors, registering, accepted>>
fileVars == <<tree, source, caller>>

Containers == INSTANCE LockFree WITH
  deleted <- dropped, Callers <- Threads, Users <- Cs
Unbounded == INSTANCE UnboundedQueues WITH
  Enqueuers <- Ps, Dequeuers <- Cs, Waiters <- Threads, Breaks <- TRUE
Reentrant == INSTANCE ReentrantRWLock WITH
  Lockers <- Threads, WritersFirst <- write_first_

\* Two processes agree on `pose' and `car' and have their own `header'; this
\* one was compiled with the first of these.
File(v, imports) == [version |-> v, dependencies |-> imports]
Schema(v) == [header |-> File(v, <<>>), pose |-> File(1, <<"header">>),
              car |-> File(1, <<"header", "pose">>)]
Registered == INSTANCE Registries WITH
  HashOf <- [node |-> 1, clash |-> 1, other |-> 2], Registrars <- Threads,
  pool_ <- descriptors, Schemas <- {Schema(1), Schema(2)},
  Generated <- [header |-> File(1, <<>>)], Registering <- Cs

\* A directory `a' with a file and a directory; `b' and `b/s' are not there,
\* are files or are directories; everything that writes goes to `b'.
Tree(b, bs, y) ==
  << >> :> "dir" @@ <<"a">> :> "dir" @@ <<"a", "x">> :> "X" @@ <<"a", "s">> :> "dir"
    @@ <<"a", "s", "y">> :> y @@ <<"b">> :> b @@ <<"b", "x">> :> "none"
    @@ <<"b", "s">> :> bs @@ <<"b", "s", "y">> :> "none"
FileCall(o, from, to) == [op |-> o, from |-> from, to |-> to]
Files == INSTANCE FileTree WITH
  FileThreads <- Cs, MaxShort <- 1,
  Trees <- {Tree("none", "none", "Y"), Tree("old", "none", "Y"), Tree("dir", "none", "Y"),
            Tree("dir", "dir", "Y"), Tree("dir", "old", "Y"), Tree("dir", "old", "none")},
  Calls <- {FileCall("copy", <<"a">>, <<"b">>), FileCall("copy", <<"a", "x">>, <<"b", "x">>),
            FileCall("ensure", <<>>, <<"b", "s">>), FileCall("remove", <<>>, <<"b">>)}

Queue == INSTANCE ThreadPool WITH
  pc <- qpc, Producers <- Ps \union Clients, Consumers <- Cs \union {c},
  Workers <- Cs, Owner <- p, Values <- {v0, v1, v2}, NoValue <- v0,
  Capacities <- {SmallSize, LargeSize}

ASSUME BaseAssumption ==
  /\ p \in Clients /\ (Clients \union Ps) \intersect Cs = {} /\ Torn \notin {v0, v1, v2}
  /\ {SmallSize, LargeSize, MaxSets, MaxCount, MaxNodes, MaxQueued, MaxNesting} \subseteq Nat
  /\ PoolSize \in Nat \ {0} /\ Keys \subseteq Nat \ {0}
  /\ IsFiniteSet(Ps) /\ IsFiniteSet(Cs) /\ Reentrant!NULL_THREAD_ID \notin Threads

-----------------------------------------------------------------------------
MCInit ==
  /\ Init /\ Queue!PoolInit
  /\ Containers!MapInit /\ Unbounded!UnboundedInit /\ Reentrant!ReentrantInit
  /\ Containers!ObjectPoolInit /\ Unbounded!ThreadSafeQueueInit /\ Registered!GlobalDataInit
  /\ Registered!ProtobufInit /\ Files!FileInit
  /\ subject \in {"lock", "producing", "consuming", "polling", "timing", "pool", "map",
                  "unbounded", "reentrant", "objects", "safe_queue", "names", "descriptors",
                  "files"}
  /\ Queue!Capacity = IF subject = "producing" THEN LargeSize ELSE SmallSize
  /\ wait_strategy_ = CASE subject = "timing" -> "timeout"
                         [] subject = "pool" -> "block"
                         [] OTHER -> "poll"
  /\ subject # "files" => tree = Tree("none", "none", "Y")

\* Several producers, several consumers, or one of each that waits.
QueueNext ==
  \/ /\ subject = "producing" /\ Queue!NextOf(Ps, {c}, {v0, v1}, {FALSE})
     /\ tail_' <= MaxProduced
  \/ /\ subject = "consuming" /\ Queue!NextOf({p}, Cs, {v1}, {FALSE})
     /\ tail_' <= MaxConsumed
  \/ /\ subject \in {"polling", "timing"} /\ Queue!NextOf({p}, {c}, {v0, v1}, {TRUE})
     /\ tail_' <= MaxConsumed

LockNext == subject = "lock" /\ Next
PoolNext == subject = "pool" /\ Queue!PoolNext /\ tail_' <= MaxPooled

olderVars == <<lockVars, queueVars, poolVars>>
ContainerNext ==
  \/ /\ subject = "map" /\ Containers!MapNext
     /\ UNCHANGED <<unboundedVars, reentrantVars, objectsVars, safeQueueVars, namesVars,
                    protobufVars, fileVars>>
  \/ /\ subject = "unbounded" /\ Unbounded!UnboundedNext
     /\ UNCHANGED <<mapVars, reentrantVars, objectsVars, safeQueueVars, namesVars,
                    protobufVars, fileVars>>
  \/ /\ subject = "reentrant" /\ Reentrant!ReentrantNext
     /\ UNCHANGED <<mapVars, unboundedVars, objectsVars, safeQueueVars, namesVars,
                    protobufVars, fileVars>>
  \/ /\ subject = "objects" /\ Containers!ObjectPoolNext
     /\ UNCHANGED <<mapVars, unboundedVars, reentrantVars, safeQueueVars, namesVars,
                    protobufVars, fileVars>>
  \/ /\ subject = "safe_queue" /\ Unbounded!ThreadSafeQueueNext
     /\ UNCHANGED <<mapVars, unboundedVars, reentrantVars, objectsVars, namesVars,
                    protobufVars, fileVars>>
  \/ /\ subject = "names" /\ Registered!GlobalDataNext
     /\ UNCHANGED <<mapVars, unboundedVars, reentrantVars, objectsVars, safeQueueVars,
                    protobufVars, fileVars>>
  \/ /\ subject = "descriptors" /\ Registered!ProtobufNext
     /\ UNCHANGED <<mapVars, unboundedVars, reentrantVars, objectsVars, safeQueueVars,
                    namesVars, fileVars>>
  \/ /\ subject = "files" /\ Files!FileNext
     /\ UNCHANGED <<mapVars, unboundedVars, reentrantVars, objectsVars, safeQueueVars,
                    namesVars, protobufVars>>
containerVars ==
  <<mapVars, unboundedVars, reentrantVars, objectsVars, safeQueueVars, namesVars,
    protobufVars, fileVars>>

MCNext ==
  \/ LockNext /\ UNCHANGED <<queueVars, poolVars, containerVars, subject>>
  \/ QueueNext /\ UNCHANGED <<lockVars, poolVars, containerVars, subject>>
  \/ PoolNext /\ UNCHANGED <<lockVars, containerVars, subject>>
  \/ ContainerNext /\ UNCHANGED <<olderVars, subject>>

MCSpec == MCInit /\ [][MCNext]_<<olderVars, containerVars, subject>>

\* Threads with the same role are interchangeable.
RoleSymmetry == Permutations(Ps) \union Permutations(Cs)

-----------------------------------------------------------------------------
(***************************************************************************)
(* BoundedQueue and ThreadPool, whichever of them the behaviour is about:  *)
(* the variables have their types, Enqueue and Dequeue keep the indexes in *)
(* order and claim no more than the capacity (IndexesOrdered), and a       *)
(* worker runs only tasks that were submitted, each once (TasksRunOnce).   *)
(***************************************************************************)
QueuesAreSound == Queue!PoolTypeOK /\ Queue!IndexesOrdered /\ Queue!TasksRunOnce

(***************************************************************************)
(* A Dequeue returns the oldest committed element, whole and once: the     *)
(* queue implements the FIFO of FifoQueue.                                 *)
(***************************************************************************)
ImplementsFifo == Queue!ImplementsFifo

(***************************************************************************)
(* The other containers under any interleaving: the lock-free map and the  *)
(* object pool neither lose nor share what they hold, the linked queue is  *)
(* a FIFO, no wake-up of the condition-variable queue is lost, and the     *)
(* reentrant lock's writer is alone (MapIsExact, PoolIsPartitioned,        *)
(* UnboundedIsFifo, SleepersAreWoken, ReentrantExcludes).                  *)
(***************************************************************************)
ContainersAreExact ==
  /\ Containers!MapIsExact /\ Unbounded!UnboundedIsFifo
  /\ Containers!PoolIsPartitioned /\ Unbounded!SleepersAreWoken
  /\ Reentrant!ReentrantExcludes

\* An id that RegisterTaskName() and its like returned names what was
\* registered, unless two names of one hash were registered concurrently; a
\* descriptor that RegisterMessage() accepted is found with all it imports
\* (RegisteredResolves); and what Copy(), EnsureDirectory() and
\* RemoveAllFiles() return of a path is so (FilesAreExact).
NamesResolve ==
  Registered!NamesResolve /\ Registered!RegisteredResolves /\ Files!FilesAreExact
=============================================================================
