---------------------------- MODULE BoundedQueue ----------------------------
(***************************************************************************)
(* cyber/base/bounded_queue.h and wait_strategy.h: a lock-free ring for    *)
(* any number of producers and consumers.  head_ is the last position that *)
(* was taken, tail_ the next to be claimed, and the elements before        *)
(* commit_ are complete.  Copying an element is not atomic: a slot that is *)
(* being assigned holds Torn, and so does a copy that overlaps such an     *)
(* assignment.  A weak compare-and-swap may fail for no reason.            *)
(***************************************************************************)
EXTENDS Integers, Sequences, FiniteSets

CONSTANTS
  Producers, Consumers,  \* the threads that enqueue, that dequeue
  Values,        \* elements, among them the T() the pool is filled with
  NoValue,       \* T()
  Torn,          \* a half-copied element, which is no element
  Capacities     \* the sizes Init() is called with

QueueThreads == Producers \union Consumers
Strategies == {"block", "timeout", "poll"}

VARIABLES
  pool_size_, wait_strategy_,  \* what Init() sets; nobody changes them after
  head_, tail_, commit_, pool_,
  break_all_wait_,
  pc,
  old,           \* old_tail of Enqueue, old_head of Dequeue
  element,       \* the argument of Enqueue, the copy Dequeue makes
  waits,         \* the operation is a Wait...()
  out,           \* what the last successful Dequeue returned
  ok             \* what the last operation returned

indexVars == <<head_, tail_, commit_, pool_>>
setupVars == <<pool_size_, wait_strategy_>>
vars == <<setupVars, indexVars, break_all_wait_, pc, old, element, waits, out, ok>>

GetIndex(num) == num % pool_size_

Goto(t, from, to) == pc[t] = from /\ pc' = [pc EXCEPT ![t] = to]

\* Head and tail each occupy a space.
Capacity == pool_size_ - 2

Init ==
  /\ pool_size_ \in {size + 2 : size \in Capacities}
  /\ wait_strategy_ \in Strategies
  /\ head_ = 0 /\ tail_ = 1 /\ commit_ = 1
  /\ pool_ = [i \in 0 .. pool_size_ - 1 |-> NoValue]
  /\ break_all_wait_ = FALSE
  /\ pc = [t \in QueueThreads |-> "idle"]
  /\ old = [t \in QueueThreads |-> 0]
  /\ element = [t \in QueueThreads |-> NoValue]
  /\ waits = [t \in QueueThreads |-> FALSE]
  /\ out = [t \in QueueThreads |-> NoValue]
  /\ ok = [t \in QueueThreads |-> FALSE]

\* The locals of an operation die when it returns.
Forget(t) ==
  /\ old' = [old EXCEPT ![t] = 0]
  /\ element' = [element EXCEPT ![t] = NoValue]

\* A failure returns false, unless the operation waits.
Fail(t, from, wait) ==
  /\ Goto(t, from, IF waits[t] THEN wait ELSE "idle")
  /\ ok' = [ok EXCEPT ![t] = FALSE]
  /\ IF waits[t] THEN UNCHANGED <<old, element>> ELSE Forget(t)

-----------------------------------------------------------------------------
(* Enqueue().                                                              *)
EnqueueLoad(t) ==
  /\ Goto(t, "enq", "enq_check")
  /\ old' = [old EXCEPT ![t] = tail_]
  /\ UNCHANGED <<indexVars, break_all_wait_, element, waits, out, ok>>

\* Fault: the test is for equal indexes, not for the next one.
FaultyFull(t) == GetIndex(old[t]) = GetIndex(head_)

Full(t) == GetIndex(old[t] + 1) = GetIndex(head_)

EnqueueFull(t) ==
  /\ Fail(t, "enq_check", "enq_block")
  /\ Full(t)
  /\ UNCHANGED <<indexVars, break_all_wait_, waits, out>>

EnqueueRoom(t) ==
  /\ Goto(t, "enq_check", "enq_cas")
  /\ ~Full(t)
  /\ UNCHANGED <<indexVars, break_all_wait_, old, element, waits, out, ok>>

\* The position is claimed ...
EnqueueCas(t) ==
  /\ Goto(t, "enq_cas", "enq_write")
  /\ tail_ = old[t]
  /\ tail_' = old[t] + 1
  /\ UNCHANGED <<head_, commit_, pool_, break_all_wait_, old, element, waits,
                 out, ok>>

EnqueueCasFails(t) ==
  /\ Goto(t, "enq_cas", "enq_check")
  /\ old' = [old EXCEPT ![t] = tail_]
  /\ UNCHANGED <<indexVars, break_all_wait_, element, waits, out, ok>>

\* ... assigned ...
EnqueueAssign(t) ==
  /\ Goto(t, "enq_write", "enq_writing")
  /\ pool_' = [pool_ EXCEPT ![GetIndex(old[t])] = Torn]
  /\ UNCHANGED <<head_, tail_, commit_, break_all_wait_, old, element, waits,
                 out, ok>>

EnqueueAssigned(t) ==
  /\ Goto(t, "enq_writing", "enq_commit")
  /\ pool_' = [pool_ EXCEPT ![GetIndex(old[t])] = element[t]]
  /\ UNCHANGED <<head_, tail_, commit_, break_all_wait_, old, element, waits,
                 out, ok>>

\* Fault: a producer does not wait for the ones that claimed before it.
FaultyEnqueueCommit(t) ==
  /\ Goto(t, "enq_commit", "enq_notify")
  /\ commit_' = commit_ + 1
  /\ UNCHANGED <<head_, tail_, pool_, break_all_wait_, old, element, waits,
                 out, ok>>

\* ... and committed in the order of the claims: the compare-and-swap spins
\* until everybody before has committed.
EnqueueCommit(t) ==
  /\ Goto(t, "enq_commit", "enq_notify")
  /\ commit_ = old[t]
  /\ commit_' = old[t] + 1
  /\ UNCHANGED <<head_, tail_, pool_, break_all_wait_, old, element, waits,
                 out, ok>>

-----------------------------------------------------------------------------
(* Dequeue().                                                              *)
DequeueLoad(t) ==
  /\ Goto(t, "deq", "deq_check")
  /\ old' = [old EXCEPT ![t] = head_]
  /\ UNCHANGED <<indexVars, break_all_wait_, element, waits, out, ok>>

DequeueEmpty(t) ==
  /\ Fail(t, "deq_check", "deq_block")
  /\ old[t] + 1 = commit_
  /\ UNCHANGED <<indexVars, break_all_wait_, waits, out>>

\* *element = pool_[...] starts ...
DequeueCopy(t) ==
  /\ Goto(t, "deq_check", "deq_copy")
  /\ old[t] + 1 # commit_
  /\ element' = [element EXCEPT ![t] = pool_[GetIndex(old[t] + 1)]]
  /\ UNCHANGED <<indexVars, break_all_wait_, old, waits, out, ok>>

\* ... and ends, torn when the slot has changed meanwhile.
DequeueCopied(t) ==
  /\ Goto(t, "deq_copy", "deq_cas")
  /\ element' = [element EXCEPT
       ![t] = IF pool_[GetIndex(old[t] + 1)] = @ THEN @ ELSE Torn]
  /\ UNCHANGED <<indexVars, break_all_wait_, old, waits, out, ok>>

\* Fault: head_ is stored, not compared and swapped.
FaultyDequeueCas(t) ==
  /\ Goto(t, "deq_cas", "idle")
  /\ head_' = old[t] + 1
  /\ out' = [out EXCEPT ![t] = element[t]]
  /\ ok' = [ok EXCEPT ![t] = TRUE]
  /\ Forget(t)
  /\ UNCHANGED <<tail_, commit_, pool_, break_all_wait_, waits>>

DequeueCas(t) ==
  /\ Goto(t, "deq_cas", "idle")
  /\ head_ = old[t]
  /\ head_' = old[t] + 1
  /\ out' = [out EXCEPT ![t] = element[t]]
  /\ ok' = [ok EXCEPT ![t] = TRUE]
  /\ Forget(t)
  /\ UNCHANGED <<tail_, commit_, pool_, break_all_wait_, waits>>

DequeueCasFails(t) ==
  /\ Goto(t, "deq_cas", "deq_check")
  /\ old' = [old EXCEPT ![t] = head_]
  /\ UNCHANGED <<indexVars, break_all_wait_, element, waits, out, ok>>

-----------------------------------------------------------------------------
(* The wait strategies.  "blocked" is inside cv_.wait(): a thread gets     *)
(* there some time after it found the queue empty or full.                 *)
Blocked == {t \in QueueThreads : pc[t] \in {"enq_blocked", "deq_blocked"}}
Retry(t) == IF pc[t] = "enq_blocked" THEN "enq_retry" ELSE "deq_retry"

\* EmptyWait() of Block- and TimeoutBlockWaitStrategy takes the mutex and
\* waits; the other strategies sleep, yield or spin, and return true.
EmptyWait(t, from, blocked, retry) ==
  /\ Goto(t, from, IF wait_strategy_ = "poll" THEN retry ELSE blocked)
  /\ UNCHANGED <<indexVars, break_all_wait_, old, element, waits, out, ok>>

EnqueueEmptyWait(t) == EmptyWait(t, "enq_block", "enq_blocked", "enq_retry")
DequeueEmptyWait(t) == EmptyWait(t, "deq_block", "deq_blocked", "deq_retry")

\* wait_for() reports a timeout and the operation returns false.
WaitTimeout(t) ==
  /\ wait_strategy_ = "timeout" /\ t \in Blocked
  /\ pc' = [pc EXCEPT ![t] = "idle"]
  /\ Forget(t)
  /\ UNCHANGED <<indexVars, break_all_wait_, waits, out, ok>>

\* The loop condition of WaitEnqueue and WaitDequeue.
WaitAgain(t, retry, op) ==
  /\ Goto(t, retry, IF break_all_wait_ THEN "idle" ELSE op)
  /\ ok' = [ok EXCEPT ![t] = @ /\ ~break_all_wait_]
  /\ IF break_all_wait_ THEN Forget(t) ELSE UNCHANGED <<old, element>>
  /\ UNCHANGED <<indexVars, break_all_wait_, waits, out>>

WaitEnqueueAgain(t) == WaitAgain(t, "enq_retry", "enq")
WaitDequeueAgain(t) == WaitAgain(t, "deq_retry", "deq")

\* Enqueue ends with NotifyOne(): one blocked thread, producer or consumer.
NotifyOne(t) ==
  /\ pc[t] = "enq_notify"
  /\ \/ Blocked = {} /\ pc' = [pc EXCEPT ![t] = "idle"]
     \/ \E b \in Blocked : pc' = [pc EXCEPT ![t] = "idle", ![b] = Retry(b)]
  /\ ok' = [ok EXCEPT ![t] = TRUE]
  /\ Forget(t)
  /\ UNCHANGED <<indexVars, break_all_wait_, waits, out>>

-----------------------------------------------------------------------------
(* The calls.                                                              *)
Call(t, op, w) ==
  /\ Goto(t, "idle", op)
  /\ waits' = [waits EXCEPT ![t] = w]
  /\ UNCHANGED <<indexVars, break_all_wait_, old, out, ok>>

Enqueue(t, v, w) ==
  /\ Call(t, IF w THEN "enq_retry" ELSE "enq", w)
  /\ element' = [element EXCEPT ![t] = v]

Dequeue(t, w) ==
  /\ Call(t, IF w THEN "deq_retry" ELSE "deq", w)
  /\ UNCHANGED element

\* BreakAllWait(): the flag, then notify_all.
SetBreak(t) ==
  /\ Goto(t, "idle", "brk")
  /\ break_all_wait_' = TRUE
  /\ UNCHANGED <<indexVars, old, element, waits, out, ok>>

BreakAllWait(t) ==
  /\ pc[t] = "brk"
  /\ pc' = [u \in QueueThreads |-> IF u = t THEN "idle"
                              ELSE IF u \in Blocked THEN Retry(u) ELSE pc[u]]
  /\ UNCHANGED <<indexVars, break_all_wait_, old, element, waits, out, ok>>

Step(t) ==
  \/ EnqueueLoad(t) \/ EnqueueFull(t) \/ EnqueueRoom(t) \/ EnqueueCas(t)
  \/ EnqueueAssign(t) \/ EnqueueAssigned(t) \/ EnqueueCommit(t) \/ NotifyOne(t)
  \/ DequeueLoad(t) \/ DequeueEmpty(t) \/ DequeueCopy(t) \/ DequeueCopied(t)
  \/ DequeueCas(t)
  \/ EnqueueEmptyWait(t) \/ DequeueEmptyWait(t) \/ WaitTimeout(t)
  \/ WaitEnqueueAgain(t) \/ WaitDequeueAgain(t) \/ BreakAllWait(t)

CasFails(t) == EnqueueCasFails(t) \/ DequeueCasFails(t)

\* A step of these threads, calling these operations with these elements.
NextOf(producers, consumers, values, waitCalls) ==
  /\ \/ \E t \in producers \union consumers : Step(t) \/ CasFails(t) \/ SetBreak(t)
     \/ \E t \in producers, v \in values, w \in waitCalls : Enqueue(t, v, w)
     \/ \E t \in consumers, w \in waitCalls : Dequeue(t, w)
  /\ UNCHANGED setupVars

Next == NextOf(Producers, Consumers, Values, BOOLEAN)

Spec == Init /\ [][Next]_vars

-----------------------------------------------------------------------------
Pcs == {"idle", "enq", "enq_check", "enq_cas", "enq_write", "enq_writing",
        "enq_commit", "enq_notify", "enq_block", "enq_blocked", "enq_retry",
        "deq", "deq_check", "deq_copy", "deq_cas", "deq_block",
        "deq_blocked", "deq_retry", "brk"}

TypeOK ==
  /\ pool_size_ \in {size + 2 : size \in Capacities} /\ wait_strategy_ \in Strategies
  /\ head_ \in Nat /\ tail_ \in Nat /\ commit_ \in Nat
  /\ pool_ \in [0 .. pool_size_ - 1 -> Values \union {NoValue, Torn}]
  /\ break_all_wait_ \in BOOLEAN
  /\ pc \in [QueueThreads -> Pcs]
  /\ old \in [QueueThreads -> Nat]
  /\ element \in [QueueThreads -> Values \union {NoValue, Torn}]
  /\ waits \in [QueueThreads -> BOOLEAN]
  /\ out \in [QueueThreads -> Values \union {NoValue}]
  /\ ok \in [QueueThreads -> BOOLEAN]

(***************************************************************************)
(* The indexes never cross: what is taken was committed, what is committed *)
(* was claimed, and at most Capacity positions are claimed and not taken,  *)
(* although Enqueue tests only that two indexes are equal.                 *)
(***************************************************************************)
IndexesOrdered ==
  /\ head_ < commit_ /\ commit_ <= tail_
  /\ tail_ - head_ - 1 <= Capacity

(***************************************************************************)
(* The ring is a FIFO: a Dequeue returns the oldest committed element,     *)
(* whole and once, though slots are reused and are copied without a lock.  *)
(***************************************************************************)
Contents == [i \in 1 .. commit_ - head_ - 1 |-> pool_[GetIndex(head_ + i)]]

Fifo == INSTANCE FifoQueue WITH q <- Contents, capacity <- Capacity
ImplementsFifo == Fifo!Spec
=============================================================================
