--------------------------- MODULE UnboundedQueues ---------------------------
(***************************************************************************)
(* The two queues of cyber/base without a limit: one under a mutex, one of *)
(* linked nodes without.                                                   *)
(***************************************************************************)
EXTENDS FiniteSets, Integers, Sequences

(***************************************************************************)
(* cyber/base/thread_safe_queue.h: a queue under a mutex and a condition   *)
(* variable.  Every operation but BreakAllWait() holds mutex_ and is one   *)
(* step; a wait is an evaluation of the predicate, the sleep that releases *)
(* mutex_, and the wake-up.  BreakAllWait() takes no mutex, so it can fall *)
(* between an evaluation and the sleep.                                    *)
(***************************************************************************)
CONSTANTS
  Waiters,      \* threads that call WaitDequeue()
  MaxQueued,    \* bound: elements in the queue
  Breaks        \* whether BreakAllWait() is called

VARIABLES
  queued,       \* elements in queue_
  broken,       \* break_all_wait_
  waiter,       \* per thread: where it is in WaitDequeue()
  missed        \* history: sleepers whose predicate was evaluated before
                \* BreakAllWait() set the flag, and who slept after it notified

safeQueueVars == <<queued, broken, waiter, missed>>

ThreadSafeQueueInit ==
  /\ queued = 0 /\ broken = "no" /\ missed = {}
  /\ waiter = [w \in Waiters |-> "out"]

Sleepers == {w \in Waiters : waiter[w] = "asleep"}
MutexFree == \A w \in Waiters : waiter[w] # "checked"

\* Fault: nobody is notified.
FaultyEnqueue ==
  /\ MutexFree /\ queued < MaxQueued
  /\ queued' = queued + 1
  /\ UNCHANGED <<broken, waiter, missed>>

Enqueue ==
  /\ MutexFree /\ queued < MaxQueued
  /\ queued' = queued + 1
  /\ IF Sleepers = {} THEN UNCHANGED waiter
     ELSE \E w \in Sleepers : waiter' = [waiter EXCEPT ![w] = "awake"]
  /\ UNCHANGED <<broken, missed>>

Dequeue ==
  /\ MutexFree /\ queued > 0
  /\ queued' = queued - 1
  /\ UNCHANGED <<broken, waiter, missed>>

\* The predicate, on entry and after each wake-up, and what follows it.
WaitDequeue(w) ==
  /\ MutexFree /\ waiter[w] \in {"out", "awake"}
  /\ IF broken # "no" THEN
       waiter' = [waiter EXCEPT ![w] = "out"] /\ UNCHANGED queued
     ELSE IF queued > 0 THEN
       waiter' = [waiter EXCEPT ![w] = "out"] /\ queued' = queued - 1
     ELSE waiter' = [waiter EXCEPT ![w] = "checked"] /\ UNCHANGED queued
  /\ missed' = missed \ {w}
  /\ UNCHANGED broken

Sleep(w) ==
  /\ waiter[w] = "checked"
  /\ waiter' = [waiter EXCEPT ![w] = "asleep"]
  /\ missed' = IF broken = "notified" THEN missed \union {w} ELSE missed
  /\ UNCHANGED <<queued, broken>>

\* A condition variable may wake a thread for no reason.
WakeUp(w) ==
  /\ waiter[w] = "asleep"
  /\ waiter' = [waiter EXCEPT ![w] = "awake"]
  /\ missed' = missed \ {w}
  /\ UNCHANGED <<queued, broken>>

BreakAllWait ==
  \/ /\ Breaks /\ broken = "no"
     /\ broken' = "set"
     /\ UNCHANGED <<queued, waiter, missed>>
  \/ /\ broken = "set"
     /\ broken' = "notified"
     /\ waiter' = [w \in Waiters |-> IF w \in Sleepers THEN "awake" ELSE waiter[w]]
     /\ UNCHANGED <<queued, missed>>

ThreadSafeQueueNext ==
  \/ Enqueue \/ Dequeue \/ BreakAllWait
  \/ \E w \in Waiters : WaitDequeue(w) \/ Sleep(w) \/ WakeUp(w)

-----------------------------------------------------------------------------
(***************************************************************************)
(* No wake-up of Enqueue() is lost: before BreakAllWait(), while somebody  *)
(* sleeps, there is for every element a waiter already woken to take it.   *)
(* And after BreakAllWait() nobody sleeps, but for those that evaluated    *)
(* the predicate before it set the flag outside the mutex.                 *)
(***************************************************************************)
SleepersAreWoken ==
  /\ broken = "no" /\ Sleepers # {} =>
       queued <= Cardinality({w \in Waiters : waiter[w] = "awake"})
  /\ broken = "notified" => Sleepers \subseteq missed

-----------------------------------------------------------------------------
(***************************************************************************)
(* cyber/base/unbounded_queue.h: a linked queue whose nodes carry a count  *)
(* of two references, given up by the Enqueue() that appends behind the    *)
(* node and by the Dequeue() that moves head_ past it.  A node is named by *)
(* the order in which nodes enter tail_; node 0 is the constructor's.      *)
(*                                                                         *)
(* The two atomic operations of release() are separate, so both releasers  *)
(* can read 0 and delete the node twice, and a Dequeue() can read next of  *)
(* a deleted node.  What follows is undefined: `harm' records it, and the  *)
(* behaviour ends there.                                                   *)
(***************************************************************************)
CONSTANTS
  Enqueuers, Dequeuers,
  MaxNodes   \* bound: elements enqueued

VARIABLES
  links,     \* next and ref_count of each node, head_, tail_, size_
  deleted,   \* nodes deleted
  worker,    \* per thread: the operation under way and its locals
  taken,     \* history: the nodes whose data was returned, in order
  harm       \* "none", "released_twice" or "read_of_deleted"

unboundedVars == <<links, deleted, worker, taken, harm>>

Nodes == 0..MaxNodes
Null == MaxNodes + 1
Idle == [pc |-> "idle"]
Workers == Enqueuers \union Dequeuers

UnboundedInit ==
  /\ links = [next |-> [n \in Nodes |-> Null], refs |-> [n \in Nodes |-> 2],
              head_ |-> 0, tail_ |-> 0, size_ |-> 0]
  /\ deleted = {} /\ taken = << >> /\ harm = "none"
  /\ worker = [t \in Workers |-> Idle]

At(t, pc) == worker[t].pc = pc /\ harm = "none"
Step(t, pc) == worker' = [worker EXCEPT ![t].pc = pc]

\* Enqueue(): a failed compare-and-swap only reloads old_tail, so the loop is
\* an exchange.
SwapTail(t) ==
  /\ At(t, "idle") /\ links.tail_ < MaxNodes
  /\ worker' = [worker EXCEPT ![t] = [pc |-> "link", old |-> links.tail_]]
  /\ links' = [links EXCEPT !.tail_ = @ + 1]
  /\ UNCHANGED <<deleted, taken, harm>>

Link(t) ==
  /\ At(t, "link") /\ Step(t, "release")
  /\ links' = [links EXCEPT !.next[worker[t].old] = worker[t].old + 1]
  /\ UNCHANGED <<deleted, taken, harm>>

\* Node::release(): fetch_sub, then a load of its own.
Release(t) ==
  /\ At(t, "release") /\ Step(t, "test")
  /\ links' = [links EXCEPT !.refs[worker[t].old] = @ - 1]
  /\ UNCHANGED <<deleted, taken, harm>>

Test(t) ==
  LET n == worker[t].old  zero == links.refs[n] = 0 IN
  /\ At(t, "test")
  /\ harm' = IF n \in deleted THEN "released_twice" ELSE harm
  /\ deleted' = IF zero THEN deleted \union {n} ELSE deleted
  /\ IF t \in Enqueuers THEN Step(t, "count") ELSE worker' = [worker EXCEPT ![t] = Idle]
  /\ UNCHANGED <<links, taken>>

Count(t) ==
  /\ At(t, "count")
  /\ worker' = [worker EXCEPT ![t] = Idle]
  /\ links' = [links EXCEPT !.size_ = @ + 1]
  /\ UNCHANGED <<deleted, taken, harm>>

\* Dequeue(): load head_, read next of it, compare-and-swap.
LoadHead(t) ==
  /\ At(t, "idle")
  /\ worker' = [worker EXCEPT ![t] = [pc |-> "next", old |-> links.head_]]
  /\ UNCHANGED <<links, deleted, taken, harm>>

ReadNext(t) ==
  LET n == worker[t].old IN
  /\ At(t, "next")
  /\ harm' = IF n \in deleted THEN "read_of_deleted" ELSE harm
  /\ worker' = [worker EXCEPT ![t] =
       IF links.next[n] = Null THEN Idle
       ELSE [pc |-> "swap", old |-> n, next |-> links.next[n]]]
  /\ UNCHANGED <<links, deleted, taken>>

\* Fault: head_ is stored without comparing.
FaultySwapHead(t) ==
  /\ At(t, "swap") /\ Step(t, "uncount")
  /\ links' = [links EXCEPT !.head_ = worker[t].next]
  /\ taken' = Append(taken, worker[t].next)
  /\ UNCHANGED <<deleted, harm>>

\* A failure reloads old_head and reads its next again.
SwapHead(t) ==
  /\ At(t, "swap")
  /\ IF links.head_ = worker[t].old
       THEN /\ links' = [links EXCEPT !.head_ = worker[t].next]
            /\ taken' = Append(taken, worker[t].next)
            /\ Step(t, "uncount")
       ELSE /\ worker' = [worker EXCEPT ![t] = [pc |-> "next", old |-> links.head_]]
            /\ UNCHANGED <<links, taken>>
  /\ UNCHANGED <<deleted, harm>>

Uncount(t) ==
  /\ At(t, "uncount") /\ Step(t, "release")
  /\ links' = [links EXCEPT !.size_ = @ - 1]
  /\ UNCHANGED <<deleted, taken, harm>>

UnboundedNext ==
  \/ \E t \in Workers : Release(t) \/ Test(t)
  \/ \E t \in Enqueuers : SwapTail(t) \/ Link(t) \/ Count(t)
  \/ \E t \in Dequeuers : LoadHead(t) \/ ReadNext(t) \/ SwapHead(t) \/ Uncount(t)

-----------------------------------------------------------------------------
(***************************************************************************)
(* Until a node is deleted twice or read after its delete, Dequeue()       *)
(* returns the elements in the order in which Enqueue() entered tail_,     *)
(* each once; no node that head_ can still lead to is deleted; and when no *)
(* operation is under way every node behind head_ is deleted and size_     *)
(* counts the nodes in front of it.                                        *)
(***************************************************************************)
UnboundedIsFifo ==
  /\ taken = [i \in 1..links.head_ |-> i]
  /\ \A n \in deleted : n < links.head_
  /\ harm = "none" /\ (\A t \in Workers : worker[t] = Idle) =>
       deleted = 0..(links.head_ - 1) /\ links.size_ = links.tail_ - links.head_
=============================================================================
