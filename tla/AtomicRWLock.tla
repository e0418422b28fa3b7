---------------------------- MODULE AtomicRWLock ----------------------------
(***************************************************************************)
(* cyber/base/atomic_rw_lock.h: a spinning read-write lock in two atomics. *)
(* Each load, compare-and-swap and fetch-and-add is a step of its own; a   *)
(* weak compare-and-swap may also fail for no reason.  The retry counter   *)
(* only decides when to yield() and is left out.                           *)
(***************************************************************************)
EXTENDS Integers, FiniteSets

CONSTANTS
  Threads,
  write_first_   \* the constructor's choice of who goes first

ASSUME LockAssumption == IsFiniteSet(Threads) /\ write_first_ \in BOOLEAN

RW_LOCK_FREE == 0
WRITE_EXCLUSIVE == -1

VARIABLES
  lock_num_,             \* number of readers, or WRITE_EXCLUSIVE
  write_lock_wait_num_,  \* writers between announcing themselves and entry
  pc,
  lock_num               \* ReadLock's local copy of lock_num_

vars == <<lock_num_, write_lock_wait_num_, pc, lock_num>>

Pcs == {"idle", "read_check", "read_cas", "reading",
        "write_cas", "write_entered", "writing"}

Init ==
  /\ lock_num_ = RW_LOCK_FREE
  /\ write_lock_wait_num_ = 0
  /\ pc = [t \in Threads |-> "idle"]
  /\ lock_num = [t \in Threads |-> 0]

Goto(t, from, to) == pc[t] = from /\ pc' = [pc EXCEPT ![t] = to]
Load(t) == lock_num' = [lock_num EXCEPT ![t] = lock_num_]

\* ReadLock(): the first load.
ReadLock(t) ==
  /\ Goto(t, "idle", "read_check")
  /\ Load(t)
  /\ UNCHANGED <<lock_num_, write_lock_wait_num_>>

\* Fault: announced writers are ignored.
FaultyMustWait(t) == lock_num[t] < RW_LOCK_FREE

\* The inner while: a reader gives way to the writer inside and, when
\* writers go first, to every writer that waits.
MustWait(t) ==
  \/ lock_num[t] < RW_LOCK_FREE
  \/ write_first_ /\ write_lock_wait_num_ > 0

ReadSpin(t) ==
  /\ pc[t] = "read_check" /\ MustWait(t)
  /\ Load(t)
  /\ UNCHANGED <<lock_num_, write_lock_wait_num_, pc>>

ReadPass(t) ==
  /\ Goto(t, "read_check", "read_cas")
  /\ ~MustWait(t)
  /\ UNCHANGED <<lock_num_, write_lock_wait_num_, lock_num>>

\* Fault: fetch_add in place of the compare-and-swap.
FaultyReadCas(t) ==
  /\ Goto(t, "read_cas", "reading")
  /\ lock_num_' = lock_num_ + 1
  /\ UNCHANGED <<write_lock_wait_num_, lock_num>>

ReadCas(t) ==
  /\ Goto(t, "read_cas", "reading")
  /\ lock_num_ = lock_num[t]
  /\ lock_num_' = lock_num[t] + 1
  /\ UNCHANGED <<write_lock_wait_num_, lock_num>>

\* A failed compare_exchange_weak reloads lock_num and the checks are redone.
ReadCasFails(t) ==
  /\ Goto(t, "read_cas", "read_check")
  /\ Load(t)
  /\ UNCHANGED <<lock_num_, write_lock_wait_num_>>

ReadUnlock(t) ==
  /\ Goto(t, "reading", "idle")
  /\ lock_num_' = lock_num_ - 1
  /\ UNCHANGED <<write_lock_wait_num_, lock_num>>

\* WriteLock(): announce, spin on the compare-and-swap (a failure changes
\* nothing), withdraw the announcement.
WriteLock(t) ==
  /\ Goto(t, "idle", "write_cas")
  /\ write_lock_wait_num_' = write_lock_wait_num_ + 1
  /\ UNCHANGED <<lock_num_, lock_num>>

\* Fault: rw_lock_free is not set again after a failure, so that the next
\* try expects whatever the last one saw.
FaultyWriteCas(t) ==
  /\ Goto(t, "write_cas", "write_entered")
  /\ lock_num_' = WRITE_EXCLUSIVE
  /\ UNCHANGED <<write_lock_wait_num_, lock_num>>

WriteCas(t) ==
  /\ Goto(t, "write_cas", "write_entered")
  /\ lock_num_ = RW_LOCK_FREE
  /\ lock_num_' = WRITE_EXCLUSIVE
  /\ UNCHANGED <<write_lock_wait_num_, lock_num>>

WriteEntered(t) ==
  /\ Goto(t, "write_entered", "writing")
  /\ write_lock_wait_num_' = write_lock_wait_num_ - 1
  /\ UNCHANGED <<lock_num_, lock_num>>

WriteUnlock(t) ==
  /\ Goto(t, "writing", "idle")
  /\ lock_num_' = lock_num_ + 1
  /\ UNCHANGED <<write_lock_wait_num_, lock_num>>

\* What a thread does once it has called an operation; guards unlock.
Step(t) ==
  \/ ReadSpin(t) \/ ReadPass(t) \/ ReadCas(t) \/ ReadUnlock(t)
  \/ WriteCas(t) \/ WriteEntered(t) \/ WriteUnlock(t)

Next ==
  \E t \in Threads :
    Step(t) \/ ReadCasFails(t) \/ ReadLock(t) \/ WriteLock(t)

Spec == Init /\ [][Next]_vars

-----------------------------------------------------------------------------
Readers == {t \in Threads : pc[t] = "reading"}
Writers == {t \in Threads : pc[t] \in {"write_entered", "writing"}}
Announced == {t \in Threads : pc[t] \in {"write_cas", "write_entered"}}

TypeOK ==
  /\ lock_num_ \in Int
  /\ write_lock_wait_num_ \in Int
  /\ pc \in [Threads -> Pcs]
  /\ lock_num \in [Threads -> Int]

(***************************************************************************)
(* The two counters mean what the comments say whatever the interleaving:  *)
(* lock_num_ counts the readers inside, or is WRITE_EXCLUSIVE with exactly *)
(* one writer and no reader; write_lock_wait_num_ counts the announced     *)
(* writers, so it never wraps below zero.                                  *)
(***************************************************************************)
CountersAgree ==
  /\ \/ Writers = {} /\ lock_num_ = Cardinality(Readers)
     \/ /\ \E t \in Threads : Writers = {t}
        /\ Readers = {}
        /\ lock_num_ = WRITE_EXCLUSIVE
  /\ write_lock_wait_num_ = Cardinality(Announced)

Inv == /\ TypeOK
       /\ CountersAgree
       /\ \A t \in Threads : pc[t] = "read_cas" => lock_num[t] >= RW_LOCK_FREE

\* The lock implements the abstract read-write lock.
Abstract == INSTANCE RWLock WITH readers <- Readers, writers <- Writers
ImplementsRWLock == Abstract!Spec

(***************************************************************************)
(* Writers first: a reader that has yet to pass the check cannot pass it   *)
(* while a writer is announced, so a stream of readers cannot starve the   *)
(* writers; a waiting writer is eventually inside, or another one is.      *)
(* (If threads that called an operation go on, and guards always unlock.)  *)
(***************************************************************************)
WriterGetsIn ==
  write_first_ =>
    ((\E t \in Threads : pc[t] = "write_cas") ~> Writers # {})
=============================================================================
