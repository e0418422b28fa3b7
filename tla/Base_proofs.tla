---------------------------- MODULE Base_proofs ----------------------------
(***************************************************************************)
(* The containers and the locks of cyber/base, for any number of threads,  *)
(* elements, sizes and bounds: AtomicRWLock is a readers-writer lock,      *)
(* BoundedQueue a FIFO whose ThreadPool runs no task twice, and the other  *)
(* containers keep what ContainersAreExact says of them.  The subjects     *)
(* share no state, so each has an inductive invariant of its own and the   *)
(* steps of the others leave it alone.                                     *)
(***************************************************************************)
EXTENDS MC_Base, Sequences, RingArithmetic, FiniteSetTheorems, WellFoundedInduction, TLAPS

-----------------------------------------------------------------------------
(* AtomicRWLock.  Inv is inductive because a reader that passed the check  *)
(* carries a non-negative copy of lock_num_, so its CAS cannot succeed     *)
(* against WRITE_EXCLUSIVE.                                                *)

\* The sets the two counters count are finite.
LEMMA CountedSets ==
  /\ IsFiniteSet(Readers) /\ Cardinality(Readers) \in Nat
  /\ IsFiniteSet(Announced) /\ Cardinality(Announced) \in Nat
<1>1. Readers \subseteq Threads /\ Announced \subseteq Threads
  BY DEF Readers, Announced
<1> QED BY <1>1, LockAssumption, FS_Subset, FS_CardinalityType

\* Nobody is inside when the lock is created.
LEMMA InvInit == Init => Inv
<1> SUFFICES ASSUME Init PROVE Inv
  OBVIOUS
<1>1. TypeOK
  BY DEF Init, TypeOK, Pcs, RW_LOCK_FREE
<1>2. Readers = {} /\ Writers = {} /\ Announced = {}
  BY DEF Init, Readers, Writers, Announced
<1>3. CountersAgree
  BY <1>2, FS_EmptySet DEF Init, CountersAgree, RW_LOCK_FREE
<1> QED BY <1>1, <1>3 DEF Inv, Init

\* What a step does to the sets of readers, writers and announced writers.
LEMMA SetsAfter ==
  ASSUME TypeOK, NEW t \in Threads, NEW from, NEW to \in Pcs, Goto(t, from, to)
  PROVE  /\ Readers' = IF to = "reading" THEN Readers \union {t} ELSE Readers \ {t}
         /\ Writers' = IF to \in {"write_entered", "writing"}
                         THEN Writers \union {t} ELSE Writers \ {t}
         /\ Announced' = IF to \in {"write_cas", "write_entered"}
                           THEN Announced \union {t} ELSE Announced \ {t}
         /\ t \in Readers <=> from = "reading"
         /\ t \in Writers <=> from \in {"write_entered", "writing"}
         /\ t \in Announced <=> from \in {"write_cas", "write_entered"}
         /\ pc' \in [Threads -> Pcs]
         /\ pc'[t] = to
         /\ \A u \in Threads \ {t} : pc'[u] = pc[u]
  BY DEF TypeOK, Goto, Readers, Writers, Announced

\* Every step keeps the counters in agreement with the threads inside.
LEMMA InvStep == Inv /\ [Next]_vars => Inv'
<1> SUFFICES ASSUME Inv, [Next]_vars PROVE Inv'
  OBVIOUS
<1> USE DEF Inv, RW_LOCK_FREE, WRITE_EXCLUSIVE
<1>1. TypeOK /\ CountersAgree
  OBVIOUS
<1>2. /\ IsFiniteSet(Readers) /\ Cardinality(Readers) \in Nat
      /\ IsFiniteSet(Announced) /\ Cardinality(Announced) \in Nat
  BY CountedSets
<1>3. ASSUME NEW t \in Threads, ReadLock(t) \/ ReadPass(t) \/ ReadCasFails(t)
      PROVE  Inv'
  <2>1. PICK from, to \in Pcs :
          /\ Goto(t, from, to)
          /\ {from, to} \subseteq {"idle", "read_check", "read_cas"}
    BY <1>3 DEF ReadLock, ReadPass, ReadCasFails, Pcs
  <2>8. t \notin Readers /\ t \notin Writers /\ t \notin Announced
    BY <2>1 DEF Goto, Readers, Writers, Announced
  <2>9. /\ Readers' = Readers \ {t} /\ Writers' = Writers \ {t}
        /\ Announced' = Announced \ {t} /\ pc' \in [Threads -> Pcs]
    BY <1>1, <2>1, SetsAfter
  <2>2. UNCHANGED <<Readers, Writers, Announced>> /\ pc' \in [Threads -> Pcs]
    BY <2>8, <2>9
  <2>3. UNCHANGED <<lock_num_, write_lock_wait_num_>>
    BY <1>3 DEF ReadLock, ReadPass, ReadCasFails
  <2>4. lock_num' \in [Threads -> Int]
    BY <1>1, <1>3 DEF ReadLock, ReadPass, ReadCasFails, Load, TypeOK
  <2>5. TypeOK'
    BY <1>1, <2>2, <2>3, <2>4 DEF TypeOK
  <2>6. CountersAgree'
    BY <1>1, <2>2, <2>3 DEF CountersAgree
  <2>7. \A u \in Threads : pc'[u] = "read_cas" => lock_num'[u] >= 0
    BY <1>1, <1>3 DEF ReadLock, ReadPass, ReadCasFails, Goto, Load, MustWait, TypeOK
  <2> QED BY <2>5, <2>6, <2>7
<1>4. ASSUME NEW t \in Threads, ReadSpin(t)
      PROVE  Inv'
  <2>1. UNCHANGED <<pc, lock_num_, write_lock_wait_num_>> /\ pc[t] = "read_check"
    BY <1>4 DEF ReadSpin
  <2>2. TypeOK'
    BY <1>1, <1>4, <2>1 DEF ReadSpin, Load, TypeOK
  <2>3. CountersAgree'
    BY <1>1, <2>1 DEF CountersAgree, Readers, Writers, Announced
  <2>4. \A u \in Threads : pc'[u] = "read_cas" => lock_num'[u] >= 0
    BY <1>1, <1>4, <2>1 DEF ReadSpin, Load, TypeOK
  <2> QED BY <2>2, <2>3, <2>4
<1>5. ASSUME NEW t \in Threads, ReadCas(t)
      PROVE  Inv'
  <2>1. Goto(t, "read_cas", "reading") /\ pc[t] = "read_cas"
    BY <1>5 DEF ReadCas, Goto
  <2>2. lock_num_ \in Int /\ lock_num_ >= 0 /\ lock_num_' = lock_num_ + 1
    BY <1>1, <1>5, <2>1 DEF ReadCas, TypeOK
  <2>9. t \notin Readers /\ t \notin Writers /\ t \notin Announced
    BY <2>1 DEF Readers, Writers, Announced
  <2>10. /\ Readers' = Readers \union {t} /\ Writers' = Writers \ {t}
         /\ Announced' = Announced \ {t} /\ pc' \in [Threads -> Pcs]
         /\ pc'[t] = "reading" /\ \A u \in Threads \ {t} : pc'[u] = pc[u]
    BY <1>1, <2>1, SetsAfter DEF Pcs
  <2>3. /\ UNCHANGED <<Writers, Announced>> /\ Readers' = Readers \union {t}
        /\ t \notin Readers /\ pc' \in [Threads -> Pcs]
        /\ pc'[t] = "reading" /\ \A u \in Threads \ {t} : pc'[u] = pc[u]
    BY <2>9, <2>10
  <2>4. Writers = {} /\ lock_num_ = Cardinality(Readers)
    BY <1>1, <2>2 DEF CountersAgree
  <2>5. Cardinality(Readers') = Cardinality(Readers) + 1
    BY <1>2, <2>3, FS_AddElement
  <2>6. UNCHANGED <<write_lock_wait_num_, lock_num>>
    BY <1>5 DEF ReadCas
  <2>7. CountersAgree'
    BY <1>1, <2>2, <2>3, <2>4, <2>5, <2>6 DEF CountersAgree
  <2>8. TypeOK'
    BY <1>1, <2>2, <2>3, <2>6 DEF TypeOK
  <2> QED BY <2>3, <2>6, <2>7, <2>8
<1>6. ASSUME NEW t \in Threads, ReadUnlock(t)
      PROVE  Inv'
  <2>1. Goto(t, "reading", "idle") /\ lock_num_' = lock_num_ - 1
        /\ UNCHANGED <<write_lock_wait_num_, lock_num>>
    BY <1>6 DEF ReadUnlock
  <2>2. /\ UNCHANGED <<Writers, Announced>> /\ Readers' = Readers \ {t}
        /\ t \in Readers /\ pc' \in [Threads -> Pcs]
        /\ pc'[t] = "idle" /\ \A u \in Threads \ {t} : pc'[u] = pc[u]
    BY <1>1, <2>1, SetsAfter, SMTT(40) DEF Pcs
  <2>3. Writers = {} /\ lock_num_ = Cardinality(Readers)
    BY <1>1, <2>2 DEF CountersAgree
  <2>4. Cardinality(Readers') = Cardinality(Readers) - 1
    BY <1>2, <2>2, FS_RemoveElement
  <2>5. CountersAgree'
    BY <1>1, <2>1, <2>2, <2>3, <2>4 DEF CountersAgree
  <2>6. TypeOK'
    BY <1>1, <2>1, <2>2 DEF TypeOK
  <2> QED BY <2>1, <2>2, <2>5, <2>6
<1>7. ASSUME NEW t \in Threads, WriteLock(t)
      PROVE  Inv'
  <2>1. Goto(t, "idle", "write_cas")
        /\ write_lock_wait_num_' = write_lock_wait_num_ + 1
        /\ UNCHANGED <<lock_num_, lock_num>>
    BY <1>7 DEF WriteLock
  <2>2. /\ UNCHANGED <<Readers, Writers>> /\ Announced' = Announced \union {t}
        /\ t \notin Announced /\ pc' \in [Threads -> Pcs]
        /\ pc'[t] = "write_cas" /\ \A u \in Threads \ {t} : pc'[u] = pc[u]
    BY <1>1, <2>1, SetsAfter DEF Pcs
  <2>3. Cardinality(Announced') = Cardinality(Announced) + 1
    BY <1>2, <2>2, FS_AddElement
  <2>4. CountersAgree'
    BY <1>1, <2>1, <2>2, <2>3 DEF CountersAgree
  <2>5. TypeOK'
    BY <1>1, <2>1, <2>2 DEF TypeOK
  <2> QED BY <2>1, <2>2, <2>4, <2>5
<1>8. ASSUME NEW t \in Threads, WriteCas(t)
      PROVE  Inv'
  <2>1. Goto(t, "write_cas", "write_entered") /\ lock_num_ = 0 /\ lock_num_' = -1
        /\ UNCHANGED <<write_lock_wait_num_, lock_num>>
    BY <1>8 DEF WriteCas
  <2>2. /\ UNCHANGED <<Readers, Announced>> /\ Writers' = Writers \union {t}
        /\ pc' \in [Threads -> Pcs]
        /\ pc'[t] = "write_entered" /\ \A u \in Threads \ {t} : pc'[u] = pc[u]
    BY <1>1, <2>1, SetsAfter DEF Pcs
  <2>3. Writers = {} /\ Readers = {}
    BY <1>1, <1>2, <2>1, FS_EmptySet DEF CountersAgree
  <2>4. CountersAgree'
    BY <1>1, <2>1, <2>2, <2>3 DEF CountersAgree
  <2>5. TypeOK'
    BY <1>1, <2>1, <2>2 DEF TypeOK
  <2> QED BY <2>1, <2>2, <2>4, <2>5
<1>9. ASSUME NEW t \in Threads, WriteEntered(t)
      PROVE  Inv'
  <2>1. Goto(t, "write_entered", "writing")
        /\ write_lock_wait_num_' = write_lock_wait_num_ - 1
        /\ UNCHANGED <<lock_num_, lock_num>>
    BY <1>9 DEF WriteEntered
  <2>2. /\ UNCHANGED <<Readers, Writers>> /\ Announced' = Announced \ {t}
        /\ t \in Announced /\ pc' \in [Threads -> Pcs]
        /\ pc'[t] = "writing" /\ \A u \in Threads \ {t} : pc'[u] = pc[u]
    BY <1>1, <2>1, SetsAfter DEF Pcs
  <2>3. Cardinality(Announced') = Cardinality(Announced) - 1
    BY <1>2, <2>2, FS_RemoveElement
  <2>4. CountersAgree'
    BY <1>1, <2>1, <2>2, <2>3 DEF CountersAgree
  <2>5. TypeOK'
    BY <1>1, <2>1, <2>2 DEF TypeOK
  <2> QED BY <2>1, <2>2, <2>4, <2>5
<1>10. ASSUME NEW t \in Threads, WriteUnlock(t)
       PROVE  Inv'
  <2>1. Goto(t, "writing", "idle") /\ lock_num_' = lock_num_ + 1
        /\ UNCHANGED <<write_lock_wait_num_, lock_num>>
    BY <1>10 DEF WriteUnlock
  <2>2. /\ UNCHANGED <<Readers, Announced>> /\ Writers' = Writers \ {t}
        /\ t \in Writers /\ pc' \in [Threads -> Pcs]
        /\ pc'[t] = "idle" /\ \A u \in Threads \ {t} : pc'[u] = pc[u]
    BY <1>1, <2>1, SetsAfter DEF Pcs
  <2>3. Writers' = {} /\ Readers' = {} /\ lock_num_' = 0
    BY <1>1, <2>1, <2>2 DEF CountersAgree
  <2>4. CountersAgree'
    BY <1>1, <2>1, <2>2, <2>3, FS_EmptySet DEF CountersAgree
  <2>5. TypeOK'
    BY <1>1, <2>1, <2>2 DEF TypeOK
  <2> QED BY <2>1, <2>2, <2>4, <2>5
<1>11. CASE UNCHANGED vars
  BY <1>11 DEF vars, TypeOK, CountersAgree, Readers, Writers, Announced
<1> QED BY <1>3, <1>4, <1>5, <1>6, <1>7, <1>8, <1>9, <1>10, <1>11 DEF Next, Step

(***************************************************************************)
(* lock_num_ and write_lock_wait_num_ always agree with who is inside and  *)
(* who waits: in particular one writer excludes everybody else.            *)
(***************************************************************************)
THEOREM CountersCorrect == Spec => []CountersAgree
<1>1. Inv => CountersAgree
  BY DEF Inv
<1> QED BY InvInit, InvStep, <1>1, PTL DEF Spec

\* A step of the lock is a step of the abstract lock, or invisible in it.
LEMMA StepSimulates ==
  Inv /\ [Next]_vars => [Abstract!Next]_<<Readers, Writers>>
<1> SUFFICES ASSUME Inv, [Next]_vars
             PROVE  Abstract!Next \/ UNCHANGED <<Readers, Writers>>
  BY DEF Abstract!vars
<1>1. TypeOK /\ CountersAgree
  BY DEF Inv
<1>2. ASSUME NEW t \in Threads, ReadCas(t)
      PROVE  Abstract!ReadLock(t)
  <2>1. Goto(t, "read_cas", "reading") /\ lock_num_ >= 0
    BY <1>2 DEF ReadCas, Goto, Inv, RW_LOCK_FREE
  <2>2. t \notin Readers /\ t \notin Writers /\ Writers = {}
    BY <1>1, <2>1 DEF Goto, Readers, Writers, CountersAgree, WRITE_EXCLUSIVE
  <2>3. Readers' = Readers \union {t} /\ Writers' = Writers \ {t}
    BY <1>1, <2>1, SetsAfter DEF Pcs
  <2> QED BY <2>2, <2>3 DEF Abstract!ReadLock
<1>3. ASSUME NEW t \in Threads, ReadUnlock(t)
      PROVE  Abstract!ReadUnlock(t)
  <2>1. Goto(t, "reading", "idle")
    BY <1>3 DEF ReadUnlock
  <2>2. t \in Readers /\ t \notin Writers
    BY <2>1 DEF Goto, Readers, Writers
  <2>3. Readers' = Readers \ {t} /\ Writers' = Writers \ {t}
    BY <1>1, <2>1, SetsAfter DEF Pcs
  <2> QED BY <2>2, <2>3 DEF Abstract!ReadUnlock
<1>4. ASSUME NEW t \in Threads, WriteCas(t)
      PROVE  Abstract!WriteLock(t)
  <2>1. Goto(t, "write_cas", "write_entered") /\ lock_num_ = 0
    BY <1>4 DEF WriteCas, RW_LOCK_FREE
  <2>2. Writers = {} /\ Readers = {}
    BY <1>1, <2>1, CountedSets, FS_EmptySet DEF CountersAgree, WRITE_EXCLUSIVE
  <2>3. Readers' = Readers \ {t} /\ Writers' = Writers \union {t}
    BY <1>1, <2>1, SetsAfter DEF Pcs
  <2> QED BY <2>2, <2>3 DEF Abstract!WriteLock
<1>5. ASSUME NEW t \in Threads, WriteUnlock(t)
      PROVE  Abstract!WriteUnlock(t)
  <2>1. Goto(t, "writing", "idle")
    BY <1>5 DEF WriteUnlock
  <2>2. t \notin Readers /\ t \in Writers
    BY <2>1 DEF Goto, Readers, Writers
  <2>3. Readers' = Readers \ {t} /\ Writers' = Writers \ {t}
    BY <1>1, <2>1, SetsAfter DEF Pcs
  <2> QED BY <2>2, <2>3 DEF Abstract!WriteUnlock
<1>6. ASSUME NEW t \in Threads,
             ReadLock(t) \/ ReadPass(t) \/ ReadCasFails(t) \/ WriteLock(t)
      PROVE  UNCHANGED <<Readers, Writers>>
  <2>1. PICK from, to \in Pcs :
          /\ Goto(t, from, to)
          /\ {from, to} \subseteq {"idle", "read_check", "read_cas", "write_cas"}
    BY <1>6 DEF ReadLock, ReadPass, ReadCasFails, WriteLock, Pcs
  <2>2. t \notin Readers /\ t \notin Writers
    BY <2>1 DEF Goto, Readers, Writers
  <2>3. Readers' = Readers \ {t} /\ Writers' = Writers \ {t}
    BY <1>1, <2>1, SetsAfter
  <2> QED BY <2>2, <2>3
<1>7. ASSUME NEW t \in Threads, WriteEntered(t)
      PROVE  UNCHANGED <<Readers, Writers>>
  <2>1. Goto(t, "write_entered", "writing")
    BY <1>7 DEF WriteEntered
  <2>2. t \notin Readers /\ t \in Writers
    BY <2>1 DEF Goto, Readers, Writers
  <2>3. Readers' = Readers \ {t} /\ Writers' = Writers \union {t}
    BY <1>1, <2>1, SetsAfter DEF Pcs
  <2> QED BY <2>2, <2>3
<1>8. CASE UNCHANGED pc
  BY <1>8 DEF Readers, Writers
<1> QED
  BY <1>2, <1>3, <1>4, <1>5, <1>6, <1>7, <1>8
  DEF Next, Step, vars, ReadSpin, Abstract!Next

(***************************************************************************)
(* AtomicRWLock implements the abstract read-write lock: ReadCas and       *)
(* WriteCas are where the lock is taken, everything else before them is    *)
(* invisible.                                                              *)
(***************************************************************************)
THEOREM Implementation == Spec => ImplementsRWLock
<1>1. Init => Abstract!Init
  BY DEF Init, Abstract!Init, Readers, Writers
<1> QED
  BY <1>1, InvInit, InvStep, StepSimulates, PTL
  DEF Spec, ImplementsRWLock, Abstract!Spec, Abstract!vars

-----------------------------------------------------------------------------
(* BoundedQueue.                                                           *)

QT == Queue!QueueThreads
Elements == {v0, v1, v2}
Slot(i) == Queue!GetIndex(i)

\* Where the thread has an element to enqueue, and where it has claimed its
\* position as well.
Enqueuing == {"enq", "enq_check", "enq_cas", "enq_write", "enq_writing", "enq_commit",
              "enq_block", "enq_blocked", "enq_retry"}
Claiming == {"enq_write", "enq_writing", "enq_commit"}

\* What a thread knows, by where it is.  Its copies of tail_ and head_ may be
\* old, but then its compare-and-swap fails.
ThreadKnows(t) ==
  /\ qpc[t] \in Enqueuing => element[t] \in Elements
  /\ qpc[t] \in {"enq_check", "enq_cas"} => old[t] <= tail_
  /\ qpc[t] = "enq_cas" /\ old[t] = tail_ => tail_ - head_ - 1 < Queue!Capacity
  /\ qpc[t] \in Claiming => commit_ <= old[t] /\ old[t] < tail_
  /\ qpc[t] = "enq_commit" => pool_[Slot(old[t])] = element[t]
  /\ qpc[t] \in {"deq_check", "deq_copy", "deq_cas"} => old[t] <= head_
  /\ qpc[t] \in {"deq_copy", "deq_cas"} /\ old[t] = head_ =>
       head_ + 1 < commit_ /\ element[t] = pool_[Slot(head_ + 1)]
  /\ qpc[t] \in {"deq_block", "deq_blocked"} => ~ok[t]

ClaimsAreDistinct ==
  \A t, u \in QT : t # u /\ qpc[t] \in Claiming /\ qpc[u] \in Claiming => old[t] # old[u]
CommittedAreWhole == \A i \in head_ + 1 .. commit_ - 1 : pool_[Slot(i)] \in Elements

QueueInv ==
  /\ Queue!TypeOK /\ Queue!IndexesOrdered
  /\ \A t \in QT : ThreadKnows(t)
  /\ ClaimsAreDistinct /\ CommittedAreWhole

\* The types, with the operators of the instance spelled out.
LEMMA QueueTypes ==
  Queue!TypeOK <=>
    /\ pool_size_ \in {size + 2 : size \in {SmallSize, LargeSize}}
    /\ wait_strategy_ \in Queue!Strategies
    /\ head_ \in Nat /\ tail_ \in Nat /\ commit_ \in Nat
    /\ pool_ \in [0 .. pool_size_ - 1 -> Elements \union {Torn}]
    /\ break_all_wait_ \in BOOLEAN
    /\ qpc \in [QT -> Queue!Pcs]
    /\ old \in [QT -> Nat]
    /\ element \in [QT -> Elements \union {Torn}]
    /\ waits \in [QT -> BOOLEAN]
    /\ out \in [QT -> Elements]
    /\ ok \in [QT -> BOOLEAN]
BY DEF Queue!TypeOK, Queue!Capacity, QT, Elements

LEMMA Sizes == SmallSize \in Nat /\ LargeSize \in Nat /\ Torn \notin {v0, v1, v2}
BY BaseAssumption

\* The pool has a space for the head, one for the tail and the capacity.
LEMMA PoolSizes ==
  ASSUME Queue!TypeOK
  PROVE  pool_size_ \in Nat \ {0, 1} /\ Queue!Capacity = pool_size_ - 2
BY QueueTypes, Sizes DEF Queue!Capacity

\* Positions less than a turn apart have slots of their own.
LEMMA SlotsDiffer ==
  ASSUME Queue!TypeOK, NEW i \in Nat, NEW j \in Nat
  PROVE  /\ Slot(i) \in 0 .. pool_size_ - 1
         /\ i < j /\ j - i < pool_size_ => Slot(i) # Slot(j)
<1>1. pool_size_ \in Nat \ {0}
  BY PoolSizes
<1>2. Slot(i) = i % pool_size_ /\ Slot(j) = j % pool_size_
  BY DEF Slot, Queue!GetIndex
<1>3. i % pool_size_ \in 0 .. pool_size_ - 1
  BY <1>1, DivMod
<1>4. i < j /\ j - i < pool_size_ => i % pool_size_ # j % pool_size_
  BY <1>1, ModDistinct
<1> QED
  BY <1>2, <1>3, <1>4

LEMMA QueueStart == Queue!Init => QueueInv
<1> SUFFICES ASSUME Queue!Init PROVE QueueInv
  OBVIOUS
<1>1. Queue!TypeOK
  <2>1. pool_ \in [0 .. pool_size_ - 1 -> Elements \union {Torn}]
    BY DEF Queue!Init, Elements
  <2> QED
    BY <2>1, QueueTypes DEF Queue!Init, Queue!Pcs, QT, Elements
<1>2. /\ head_ = 0 /\ commit_ = 1 /\ tail_ = 1
      /\ \A t \in QT : qpc[t] = "idle"
  BY DEF Queue!Init, QT
<1>3. Queue!IndexesOrdered
  BY <1>1, <1>2, PoolSizes DEF Queue!IndexesOrdered
<1>4. \A t \in QT : ThreadKnows(t)
  BY <1>2 DEF ThreadKnows, Enqueuing, Claiming
<1>5. ClaimsAreDistinct /\ CommittedAreWhole
  BY <1>2 DEF ClaimsAreDistinct, CommittedAreWhole, Claiming
<1> QED
  BY <1>1, <1>3, <1>4, <1>5 DEF QueueInv

-----------------------------------------------------------------------------
(* The steps of a thread keep the types.                                   *)

LEMMA FailTypes ==
  ASSUME Queue!TypeOK, UNCHANGED Queue!setupVars, NEW t \in QT, NEW from, NEW wait \in Queue!Pcs,
         Queue!Fail(t, from, wait),
         UNCHANGED <<head_, tail_, commit_, pool_, break_all_wait_, waits, out>>
  PROVE  Queue!TypeOK'
<1>1. qpc' \in [QT -> Queue!Pcs] /\ ok' \in [QT -> BOOLEAN]
  BY QueueTypes DEF Queue!Fail, Queue!Goto, Queue!Pcs
<1>2. old' \in [QT -> Nat] /\ element' \in [QT -> Elements \union {Torn}]
  <2>1. CASE waits[t]
    BY <2>1, QueueTypes DEF Queue!Fail
  <2>2. CASE ~waits[t]
    BY <2>2, QueueTypes, SMTT(40) DEF Queue!Fail, Queue!Forget, Elements
  <2> QED
    BY <2>1, <2>2
<1> QED
  BY <1>1, <1>2 DEF Queue!TypeOK, Queue!setupVars, QT, Elements

\* The copy of a Dequeue whose compare-and-swap succeeds is an element.
LEMMA WholeCopy ==
  ASSUME QueueInv, NEW t \in QT, qpc[t] = "deq_cas", old[t] = head_
  PROVE  /\ head_ + 1 < commit_ /\ element[t] = pool_[Slot(head_ + 1)]
         /\ element[t] \in Elements
<1>1. head_ \in Nat /\ commit_ \in Nat
  BY QueueTypes DEF QueueInv
<1>2. head_ + 1 < commit_ /\ element[t] = pool_[Slot(head_ + 1)]
  BY DEF QueueInv, ThreadKnows
<1> QED
  BY <1>1, <1>2 DEF QueueInv, CommittedAreWhole

LEMMA EnqueueTypes ==
  ASSUME Queue!TypeOK, UNCHANGED Queue!setupVars, NEW t \in QT,
         \/ Queue!EnqueueLoad(t)
         \/ Queue!EnqueueFull(t)
         \/ Queue!EnqueueRoom(t)
         \/ Queue!EnqueueCas(t)
         \/ Queue!EnqueueCasFails(t)
         \/ Queue!EnqueueAssign(t)
         \/ Queue!EnqueueAssigned(t)
         \/ Queue!EnqueueCommit(t)
  PROVE  Queue!TypeOK'
<1>1. CASE Queue!EnqueueLoad(t)
  BY <1>1 DEF Queue!TypeOK, Queue!setupVars, Queue!indexVars, QT, Queue!EnqueueLoad, Queue!Goto,
    Queue!Pcs
<1>2. CASE Queue!EnqueueFull(t)
  BY <1>2, FailTypes DEF Queue!EnqueueFull, Queue!indexVars, Queue!Pcs
<1>3. CASE Queue!EnqueueRoom(t)
  BY <1>3 DEF Queue!TypeOK, Queue!setupVars, Queue!indexVars, QT, Queue!EnqueueRoom, Queue!Goto,
    Queue!Pcs
<1>4. CASE Queue!EnqueueCas(t)
  BY <1>4 DEF Queue!TypeOK, Queue!setupVars, Queue!indexVars, QT, Queue!EnqueueCas, Queue!Goto,
    Queue!Pcs
<1>5. CASE Queue!EnqueueCasFails(t)
  BY <1>5 DEF Queue!TypeOK, Queue!setupVars, Queue!indexVars, QT, Queue!EnqueueCasFails, Queue!Goto,
    Queue!Pcs
<1>6. CASE Queue!EnqueueAssign(t)
  BY <1>6 DEF Queue!TypeOK, Queue!setupVars, Queue!indexVars, QT, Queue!EnqueueAssign, Queue!Goto,
    Queue!Pcs
<1>7. CASE Queue!EnqueueAssigned(t)
  BY <1>7 DEF Queue!TypeOK, Queue!setupVars, Queue!indexVars, QT, Queue!EnqueueAssigned, Queue!Goto,
    Queue!Pcs
<1>8. CASE Queue!EnqueueCommit(t)
  BY <1>8 DEF Queue!TypeOK, Queue!setupVars, Queue!indexVars, QT, Queue!EnqueueCommit, Queue!Goto,
    Queue!Pcs
<1> QED
  BY <1>1, <1>2, <1>3, <1>4, <1>5, <1>6, <1>7, <1>8

LEMMA DequeueTypes ==
  ASSUME QueueInv, UNCHANGED Queue!setupVars, NEW t \in QT,
         \/ Queue!DequeueLoad(t)
         \/ Queue!DequeueEmpty(t)
         \/ Queue!DequeueCopy(t)
         \/ Queue!DequeueCopied(t)
         \/ Queue!DequeueCas(t)
         \/ Queue!DequeueCasFails(t)
  PROVE  Queue!TypeOK'
<1>0. Queue!TypeOK
  BY DEF QueueInv
<1>1. CASE Queue!DequeueLoad(t)
  BY <1>0, <1>1 DEF Queue!TypeOK, Queue!setupVars, Queue!indexVars, QT, Queue!DequeueLoad, Queue!Goto,
    Queue!Pcs
<1>2. CASE Queue!DequeueEmpty(t)
  BY <1>0, <1>2, FailTypes DEF Queue!DequeueEmpty, Queue!indexVars, Queue!Pcs
<1>3. CASE Queue!DequeueCopy(t)
  <2>0. old[t] + 1 \in Nat
    BY <1>0, QueueTypes
  <2>1. Slot(old[t] + 1) \in 0 .. pool_size_ - 1
    BY <1>0, <2>0, SlotsDiffer
  <2> QED
    BY <1>0, <1>3, <2>1 DEF Queue!TypeOK, Queue!setupVars, Queue!indexVars, QT, Queue!DequeueCopy,
      Queue!Goto, Queue!Pcs, Slot
<1>4. CASE Queue!DequeueCopied(t)
  BY <1>0, <1>4 DEF Queue!TypeOK, Queue!setupVars, Queue!indexVars, QT, Queue!DequeueCopied, Queue!Goto,
    Queue!Pcs
<1>5. CASE Queue!DequeueCas(t)
  <2>1. element[t] \in Elements
    BY <1>5, WholeCopy DEF Queue!DequeueCas, Queue!Goto
  <2> QED
    BY <1>0, <1>5, <2>1 DEF Queue!TypeOK, Queue!setupVars, QT, Queue!DequeueCas,
      Queue!Goto, Queue!Pcs, Queue!Forget, Elements
<1>6. CASE Queue!DequeueCasFails(t)
  BY <1>0, <1>6 DEF Queue!TypeOK, Queue!setupVars, Queue!indexVars, QT, Queue!DequeueCasFails, Queue!Goto,
    Queue!Pcs
<1> QED
  BY <1>0, <1>1, <1>2, <1>3, <1>4, <1>5, <1>6

LEMMA AgainTypes ==
  ASSUME Queue!TypeOK, UNCHANGED Queue!setupVars, NEW t \in QT, NEW retry, NEW op \in Queue!Pcs,
         Queue!WaitAgain(t, retry, op)
  PROVE  Queue!TypeOK'
<1>1. qpc' \in [QT -> Queue!Pcs] /\ ok' \in [QT -> BOOLEAN]
  BY QueueTypes DEF Queue!WaitAgain, Queue!Goto, Queue!Pcs
<1>2. old' \in [QT -> Nat] /\ element' \in [QT -> Elements \union {Torn}]
  <2>1. CASE break_all_wait_
    <3>1. old' = [old EXCEPT ![t] = 0] /\ element' = [element EXCEPT ![t] = v0]
      BY <2>1 DEF Queue!WaitAgain, Queue!Forget
    <3>2. old \in [QT -> Nat] /\ element \in [QT -> Elements \union {Torn}]
      BY QueueTypes
    <3>3. v0 \in Elements
      BY DEF Elements
    <3> QED
      BY <3>1, <3>2, <3>3
  <2>2. CASE ~break_all_wait_
    BY <2>2, QueueTypes DEF Queue!WaitAgain
  <2> QED
    BY <2>1, <2>2
<1>3. UNCHANGED <<head_, tail_, commit_, pool_, break_all_wait_, waits, out>>
  BY DEF Queue!WaitAgain, Queue!indexVars
<1> QED
  BY <1>1, <1>2, <1>3 DEF Queue!TypeOK, Queue!setupVars, QT, Elements

LEMMA WaitTypes ==
  ASSUME Queue!TypeOK, UNCHANGED Queue!setupVars, NEW t \in QT,
         \/ Queue!EnqueueEmptyWait(t)
         \/ Queue!DequeueEmptyWait(t)
         \/ Queue!WaitTimeout(t)
         \/ Queue!WaitEnqueueAgain(t)
         \/ Queue!WaitDequeueAgain(t)
         \/ Queue!NotifyOne(t)
         \/ Queue!BreakAllWait(t)
         \/ Queue!SetBreak(t)
  PROVE  Queue!TypeOK'
<1>1. CASE Queue!EnqueueEmptyWait(t)
  BY <1>1 DEF Queue!TypeOK, Queue!setupVars, Queue!indexVars, QT, Queue!EnqueueEmptyWait, Queue!Goto,
    Queue!Pcs, Queue!EmptyWait
<1>2. CASE Queue!DequeueEmptyWait(t)
  BY <1>2 DEF Queue!TypeOK, Queue!setupVars, Queue!indexVars, QT, Queue!DequeueEmptyWait, Queue!Goto,
    Queue!Pcs, Queue!EmptyWait
<1>3. CASE Queue!WaitTimeout(t)
  BY <1>3 DEF Queue!TypeOK, Queue!setupVars, Queue!indexVars, QT, Queue!WaitTimeout, Queue!Goto,
    Queue!Pcs, Queue!Forget
<1>4. CASE Queue!WaitEnqueueAgain(t)
  BY <1>4, AgainTypes DEF Queue!WaitEnqueueAgain, Queue!Pcs
<1>5. CASE Queue!WaitDequeueAgain(t)
  BY <1>5, AgainTypes DEF Queue!WaitDequeueAgain, Queue!Pcs
<1>6. CASE Queue!NotifyOne(t)
  BY <1>6 DEF Queue!TypeOK, Queue!setupVars, Queue!indexVars, QT, Queue!NotifyOne, Queue!Goto,
    Queue!Pcs, Queue!Retry, Queue!Forget
<1>7. CASE Queue!BreakAllWait(t)
  BY <1>7 DEF Queue!TypeOK, Queue!setupVars, Queue!indexVars, QT, Queue!BreakAllWait, Queue!Goto,
    Queue!Pcs, Queue!Retry
<1>8. CASE Queue!SetBreak(t)
  BY <1>8 DEF Queue!TypeOK, Queue!setupVars, Queue!indexVars, QT, Queue!SetBreak, Queue!Goto,
    Queue!Pcs
<1> QED
  BY <1>1, <1>2, <1>3, <1>4, <1>5, <1>6, <1>7, <1>8

LEMMA CallTypes ==
  ASSUME Queue!TypeOK, UNCHANGED Queue!setupVars, NEW t \in QT, NEW w \in BOOLEAN,
         Queue!Dequeue(t, w) \/ \E v \in Elements : Queue!Enqueue(t, v, w)
  PROVE  Queue!TypeOK'
BY ZenonT(60) DEF Queue!TypeOK, Queue!setupVars, Queue!indexVars, QT, Queue!Enqueue, Queue!Dequeue,
  Queue!Call, Queue!Goto, Queue!Pcs, Elements

-----------------------------------------------------------------------------
(* What the threads know survives the steps of the others.                 *)

\* A thread takes no step; at most it is woken.
Quiet(u) ==
  /\ old'[u] = old[u] /\ element'[u] = element[u] /\ ok'[u] = ok[u] /\ out'[u] = out[u]
  /\ \/ qpc'[u] = qpc[u]
     \/ qpc[u] = "enq_blocked" /\ qpc'[u] = "enq_retry"
     \/ qpc[u] = "deq_blocked" /\ qpc'[u] = "deq_retry"

\* Thread t takes a step, the others none.
Alone(t) == \A u \in QT \ {t} : Quiet(u)

\* The ring is as it was.
SameRing == UNCHANGED <<Queue!setupVars, Queue!indexVars>>

LEMMA QuietKnows ==
  ASSUME NEW u \in QT, ThreadKnows(u), Quiet(u), SameRing
  PROVE  ThreadKnows(u)'
BY DEF ThreadKnows, Quiet, SameRing, Queue!setupVars, Queue!indexVars, Enqueuing, Claiming,
  Queue!Capacity, Slot, Queue!GetIndex

\* A step of t that leaves the ring alone and claims nothing.
LEMMA LocalStep ==
  ASSUME QueueInv, Queue!TypeOK', NEW t \in QT, Alone(t), SameRing, ThreadKnows(t)',
         qpc'[t] \in Claiming => qpc[t] \in Claiming /\ old'[t] = old[t]
  PROVE  QueueInv'
<1>1. Queue!IndexesOrdered'
  BY DEF QueueInv, Queue!IndexesOrdered, SameRing, Queue!indexVars, Queue!setupVars,
    Queue!Capacity
<1>2. \A u \in QT : ThreadKnows(u)'
  BY QuietKnows DEF QueueInv, Alone
<1>3. \A u \in QT : qpc'[u] \in Claiming => qpc[u] \in Claiming /\ old'[u] = old[u]
  BY DEF Alone, Quiet, Claiming
<1>4. ClaimsAreDistinct'
  BY <1>3 DEF QueueInv, ClaimsAreDistinct
<1>5. CommittedAreWhole'
  BY DEF QueueInv, CommittedAreWhole, SameRing, Queue!indexVars, Queue!setupVars, Slot,
    Queue!GetIndex
<1> QED
  BY <1>1, <1>2, <1>4, <1>5 DEF QueueInv

\* The indexes, as numbers.
LEMMA Indexes ==
  ASSUME QueueInv
  PROVE  /\ head_ \in Nat /\ commit_ \in Nat /\ tail_ \in Nat /\ pool_size_ \in Nat \ {0, 1}
         /\ head_ < commit_ /\ commit_ <= tail_ /\ tail_ - head_ - 1 <= pool_size_ - 2
         /\ \A t \in QT : old[t] \in Nat
         /\ \A t \in QT : qpc[t] \in Claiming => commit_ <= old[t] /\ old[t] < tail_
BY PoolSizes, QueueTypes DEF QueueInv, Queue!IndexesOrdered, ThreadKnows

LEMMA EnqueueLocalSteps ==
  ASSUME QueueInv, UNCHANGED Queue!setupVars, NEW t \in QT,
         \/ Queue!EnqueueLoad(t)
         \/ Queue!EnqueueFull(t)
         \/ Queue!EnqueueRoom(t)
         \/ Queue!EnqueueCasFails(t)
  PROVE  QueueInv' /\ SameRing /\ Alone(t)
<1>1. Queue!TypeOK /\ Queue!TypeOK' /\ ThreadKnows(t)
  BY EnqueueTypes DEF QueueInv
<1>2. SameRing
  BY DEF SameRing, Queue!EnqueueLoad, Queue!EnqueueFull, Queue!EnqueueRoom, Queue!EnqueueCasFails
<1>3. Alone(t)
  BY <1>1, QueueTypes DEF Alone, Quiet, Queue!EnqueueLoad, Queue!EnqueueFull, Queue!EnqueueRoom,
    Queue!EnqueueCasFails, Queue!Goto, Queue!Fail, Queue!Forget
<1>4. ThreadKnows(t)' /\ qpc'[t] \notin Claiming
  <2>1. CASE Queue!EnqueueLoad(t) \/ Queue!EnqueueCasFails(t)
    BY <1>1, <1>2, <2>1, QueueTypes DEF Queue!EnqueueLoad, Queue!EnqueueCasFails, Queue!Goto,
      ThreadKnows, Enqueuing, Claiming, SameRing, Queue!indexVars
  <2>2. CASE Queue!EnqueueFull(t)
    BY <1>1, <1>2, <2>2, QueueTypes DEF Queue!EnqueueFull, Queue!Goto, Queue!Fail,
      ThreadKnows, Enqueuing, Claiming
  <2>3. CASE Queue!EnqueueRoom(t)
    <3>1. old[t] <= tail_ /\ ~Queue!Full(t) /\ qpc'[t] = "enq_cas" /\ element'[t] = element[t]
          /\ old'[t] = old[t] /\ element[t] \in Elements
      BY <1>1, <2>3, QueueTypes DEF Queue!EnqueueRoom, Queue!Goto, ThreadKnows, Enqueuing
    <3>2. old[t] = tail_ => tail_ - head_ - 1 < Queue!Capacity
      <4> SUFFICES ASSUME old[t] = tail_, tail_ - head_ - 1 = pool_size_ - 2 PROVE FALSE
        BY Indexes, PoolSizes, <1>1
      <4>1. tail_ + 1 = head_ + pool_size_ 
        BY Indexes
      <4>2. (head_ + pool_size_) % pool_size_ = head_ % pool_size_
        BY Indexes, ModAdd
      <4> QED
        BY <3>1, <4>1, <4>2 DEF Queue!Full, Queue!GetIndex
    <3> QED
      BY <1>2, <3>1, <3>2 DEF ThreadKnows, Enqueuing, Claiming, SameRing, Queue!indexVars,
        Queue!setupVars, Queue!Capacity
  <2> QED
    BY <2>1, <2>2, <2>3
<1> QED
  BY <1>1, <1>2, <1>3, <1>4, LocalStep

LEMMA DequeueLocalSteps ==
  ASSUME QueueInv, UNCHANGED Queue!setupVars, NEW t \in QT,
         \/ Queue!DequeueLoad(t)
         \/ Queue!DequeueEmpty(t)
         \/ Queue!DequeueCopy(t)
         \/ Queue!DequeueCopied(t)
         \/ Queue!DequeueCasFails(t)
  PROVE  QueueInv' /\ SameRing /\ Alone(t)
<1>1. Queue!TypeOK /\ Queue!TypeOK' /\ ThreadKnows(t)
  BY DequeueTypes DEF QueueInv
<1>2. SameRing
  BY DEF SameRing, Queue!DequeueLoad, Queue!DequeueEmpty, Queue!DequeueCopy, Queue!DequeueCopied,
    Queue!DequeueCasFails
<1>3. Alone(t)
  BY <1>1, QueueTypes DEF Alone, Quiet, Queue!DequeueLoad, Queue!DequeueEmpty, Queue!DequeueCopy,
    Queue!DequeueCopied, Queue!DequeueCasFails, Queue!Goto, Queue!Fail, Queue!Forget
<1>4. ThreadKnows(t)' /\ qpc'[t] \notin Claiming
  <2>1. CASE Queue!DequeueLoad(t) \/ Queue!DequeueCasFails(t)
    BY <1>1, <1>2, <2>1, QueueTypes DEF Queue!DequeueLoad, Queue!DequeueCasFails, Queue!Goto,
      ThreadKnows, Enqueuing, Claiming, SameRing, Queue!indexVars
  <2>2. CASE Queue!DequeueEmpty(t)
    BY <1>1, <1>2, <2>2, QueueTypes DEF Queue!DequeueEmpty, Queue!Goto, Queue!Fail,
      ThreadKnows, Enqueuing, Claiming
  <2>3. CASE Queue!DequeueCopy(t)
    BY <1>1, <1>2, <2>3, Indexes, QueueTypes DEF Queue!DequeueCopy, Queue!Goto, ThreadKnows,
      Enqueuing, Claiming, SameRing, Queue!indexVars, Queue!setupVars, Slot, Queue!GetIndex
  <2>4. CASE Queue!DequeueCopied(t)
    BY <1>1, <1>2, <2>4, QueueTypes DEF Queue!DequeueCopied, Queue!Goto, ThreadKnows,
      Enqueuing, Claiming, SameRing, Queue!indexVars, Queue!setupVars, Slot, Queue!GetIndex
  <2> QED
    BY <2>1, <2>2, <2>3, <2>4
<1> QED
  BY <1>1, <1>2, <1>3, <1>4, LocalStep

LEMMA WaitSteps ==
  ASSUME QueueInv, UNCHANGED Queue!setupVars, NEW t \in QT,
         \/ Queue!EnqueueEmptyWait(t)
         \/ Queue!DequeueEmptyWait(t)
         \/ Queue!WaitTimeout(t)
         \/ Queue!WaitEnqueueAgain(t)
         \/ Queue!WaitDequeueAgain(t)
         \/ Queue!NotifyOne(t)
         \/ Queue!BreakAllWait(t)
         \/ Queue!SetBreak(t)
  PROVE  QueueInv' /\ SameRing /\ Alone(t)
<1>1. Queue!TypeOK /\ Queue!TypeOK' /\ ThreadKnows(t)
  BY WaitTypes DEF QueueInv
<1>2. SameRing
  BY DEF SameRing, Queue!EnqueueEmptyWait, Queue!DequeueEmptyWait, Queue!EmptyWait,
    Queue!WaitTimeout, Queue!WaitEnqueueAgain, Queue!WaitDequeueAgain, Queue!WaitAgain,
    Queue!NotifyOne, Queue!BreakAllWait, Queue!SetBreak
<1>3. Alone(t)
  <2>1. CASE Queue!EnqueueEmptyWait(t) \/ Queue!DequeueEmptyWait(t) \/ Queue!SetBreak(t)
    BY <1>1, <2>1, QueueTypes DEF Alone, Quiet, Queue!EnqueueEmptyWait, Queue!DequeueEmptyWait,
      Queue!EmptyWait, Queue!SetBreak, Queue!Goto
  <2>2. CASE Queue!WaitTimeout(t)
    BY <1>1, <2>2, QueueTypes DEF Alone, Quiet, Queue!WaitTimeout, Queue!Forget
  <2>3. CASE Queue!WaitEnqueueAgain(t) \/ Queue!WaitDequeueAgain(t)
    BY <1>1, <2>3, QueueTypes DEF Alone, Quiet, Queue!WaitEnqueueAgain, Queue!WaitDequeueAgain,
      Queue!WaitAgain, Queue!Goto, Queue!Forget
  <2>4. CASE Queue!NotifyOne(t)
    BY <1>1, <2>4, QueueTypes DEF Alone, Quiet, Queue!NotifyOne, Queue!Blocked, Queue!Retry,
      Queue!Forget
  <2>5. CASE Queue!BreakAllWait(t)
    BY <1>1, <2>5, QueueTypes DEF Alone, Quiet, Queue!BreakAllWait, Queue!Blocked, Queue!Retry, QT
  <2> QED
    BY <2>1, <2>2, <2>3, <2>4, <2>5
<1>4. ThreadKnows(t)' /\ qpc'[t] \notin Claiming
  <2>1. CASE Queue!EnqueueEmptyWait(t) \/ Queue!DequeueEmptyWait(t) \/ Queue!SetBreak(t)
    BY <1>1, <2>1, QueueTypes DEF Queue!EnqueueEmptyWait, Queue!DequeueEmptyWait,
      Queue!EmptyWait, Queue!SetBreak, Queue!Goto, ThreadKnows, Enqueuing, Claiming
  <2>2. CASE Queue!WaitTimeout(t)
    BY <1>1, <2>2, QueueTypes DEF Queue!WaitTimeout, ThreadKnows, Enqueuing, Claiming
  <2>3. CASE Queue!WaitEnqueueAgain(t) \/ Queue!WaitDequeueAgain(t)
    BY <1>1, <2>3, QueueTypes DEF Queue!WaitEnqueueAgain, Queue!WaitDequeueAgain,
      Queue!WaitAgain, Queue!Goto, Queue!Forget, ThreadKnows, Enqueuing, Claiming
  <2>4. CASE Queue!NotifyOne(t)
    BY <1>1, <2>4, QueueTypes DEF Queue!NotifyOne, Queue!Blocked, ThreadKnows, Enqueuing, Claiming
  <2>5. CASE Queue!BreakAllWait(t)
    BY <1>1, <2>5, QueueTypes DEF Queue!BreakAllWait, ThreadKnows, Enqueuing, Claiming, QT
  <2> QED
    BY <2>1, <2>2, <2>3, <2>4, <2>5
<1> QED
  BY <1>1, <1>2, <1>3, <1>4, LocalStep

LEMMA CallSteps ==
  ASSUME QueueInv, UNCHANGED Queue!setupVars, NEW t \in QT, NEW w \in BOOLEAN,
         Queue!Dequeue(t, w) \/ \E v \in Elements : Queue!Enqueue(t, v, w)
  PROVE  QueueInv' /\ SameRing /\ Alone(t)
<1>1. Queue!TypeOK /\ Queue!TypeOK'
  BY CallTypes DEF QueueInv
<1>2. SameRing /\ Alone(t)
  BY <1>1, QueueTypes DEF SameRing, Alone, Quiet, Queue!Dequeue, Queue!Enqueue, Queue!Call,
    Queue!Goto
<1>3. ThreadKnows(t)' /\ qpc'[t] \notin Claiming
  BY <1>1, QueueTypes DEF Queue!Dequeue, Queue!Enqueue, Queue!Call, Queue!Goto, ThreadKnows,
    Enqueuing, Claiming
<1> QED
  BY <1>1, <1>2, <1>3, LocalStep

-----------------------------------------------------------------------------
(* The steps that change the ring.                                         *)

\* The position is claimed: it is the last, and nobody else has it.
LEMMA ClaimStep ==
  ASSUME QueueInv, UNCHANGED Queue!setupVars, NEW t \in QT, Queue!EnqueueCas(t)
  PROVE  QueueInv' /\ Alone(t)
<1>1. Queue!TypeOK /\ Queue!TypeOK'
  BY EnqueueTypes DEF QueueInv
<1>2. /\ qpc[t] = "enq_cas" /\ old[t] = tail_ /\ tail_' = tail_ + 1
      /\ qpc'[t] = "enq_write" /\ \A u \in QT \ {t} : qpc'[u] = qpc[u]
      /\ UNCHANGED <<pool_size_, head_, commit_, pool_, old, element, ok, out>>
  BY <1>1, QueueTypes DEF Queue!EnqueueCas, Queue!Goto, Queue!setupVars
<1>3. tail_ - head_ - 1 < pool_size_ - 2 /\ element[t] \in Elements
  BY <1>1, <1>2, PoolSizes DEF QueueInv, ThreadKnows, Enqueuing
<1>4. Queue!IndexesOrdered'
  BY <1>2, <1>3, Indexes DEF Queue!IndexesOrdered, Queue!Capacity
<1>5. \A u \in QT : ThreadKnows(u)'
  <2> TAKE u \in QT
  <2>1. ThreadKnows(u)
    BY DEF QueueInv
  <2>2. CASE u = t
    BY <1>2, <1>3, <2>1, <2>2, Indexes DEF ThreadKnows, Enqueuing, Claiming
  <2>3. CASE u # t
    BY <1>2, <2>1, <2>3, Indexes DEF ThreadKnows, Enqueuing, Claiming, Slot, Queue!GetIndex
  <2> QED
    BY <2>2, <2>3
<1>6. ClaimsAreDistinct'
  <2>1. \A u \in QT \ {t} : qpc'[u] \in Claiming => qpc[u] \in Claiming /\ old[u] < tail_
    BY <1>2, Indexes
  <2> QED
    BY <1>2, <2>1, Indexes DEF QueueInv, ClaimsAreDistinct
<1>7. CommittedAreWhole'
  BY <1>2 DEF QueueInv, CommittedAreWhole, Slot, Queue!GetIndex
<1>8. Alone(t)
  BY <1>2 DEF Alone, Quiet
<1> QED
  BY <1>1, <1>4, <1>5, <1>6, <1>7, <1>8 DEF QueueInv

\* The claimed slot is assigned: it is no slot of another claim, nor of a
\* committed element.
LEMMA OwnSlot ==
  ASSUME QueueInv, NEW t \in QT, qpc[t] \in Claiming
  PROVE  /\ Slot(old[t]) \in 0 .. pool_size_ - 1
         /\ \A i \in head_ + 1 .. commit_ - 1 : Slot(i) # Slot(old[t])
         /\ \A u \in QT : u # t /\ qpc[u] \in Claiming => Slot(old[u]) # Slot(old[t])
<1>1. commit_ <= old[t] /\ old[t] < tail_ /\ old[t] \in Nat
  BY Indexes
<1>2. Queue!TypeOK
  BY DEF QueueInv
<1>3. ASSUME NEW i \in head_ + 1 .. commit_ - 1 PROVE Slot(i) # Slot(old[t])
  <2>1. i \in Nat /\ i < old[t] /\ old[t] - i < pool_size_
    BY <1>1, Indexes
  <2> QED
    BY <1>1, <1>2, <2>1, SlotsDiffer
<1>4. ASSUME NEW u \in QT, u # t, qpc[u] \in Claiming PROVE Slot(old[u]) # Slot(old[t])
  <2>1. old[u] # old[t] /\ commit_ <= old[u] /\ old[u] < tail_ /\ old[u] \in Nat
    BY <1>4, Indexes DEF QueueInv, ClaimsAreDistinct
  <2>2. CASE old[u] < old[t]
    <3>1. old[t] - old[u] < pool_size_
      BY <1>1, <2>1, Indexes
    <3> QED
      BY <1>1, <1>2, <2>1, <2>2, <3>1, SlotsDiffer
  <2>3. CASE old[t] < old[u]
    <3>1. old[u] - old[t] < pool_size_
      BY <1>1, <2>1, Indexes
    <3> QED
      BY <1>1, <1>2, <2>1, <2>3, <3>1, SlotsDiffer
  <2> QED
    BY <1>1, <2>1, <2>2, <2>3
<1>5. Slot(old[t]) \in 0 .. pool_size_ - 1
  BY <1>1, <1>2, SlotsDiffer
<1> QED
  BY <1>3, <1>4, <1>5

LEMMA AssignStep ==
  ASSUME QueueInv, UNCHANGED Queue!setupVars, NEW t \in QT,
         Queue!EnqueueAssign(t) \/ Queue!EnqueueAssigned(t)
  PROVE  QueueInv' /\ Alone(t) /\ \A i \in head_ + 1 .. commit_ - 1 : pool_'[Slot(i)] = pool_[Slot(i)]
<1>1. Queue!TypeOK /\ Queue!TypeOK'
  BY EnqueueTypes DEF QueueInv
<1>2. /\ qpc[t] \in Claiming /\ qpc'[t] \in Claiming /\ \A u \in QT \ {t} : qpc'[u] = qpc[u]
      /\ UNCHANGED <<pool_size_, head_, commit_, tail_, old, element, ok, out>>
      /\ \A s \in 0 .. pool_size_ - 1 : s # Slot(old[t]) => pool_'[s] = pool_[s]
  BY <1>1, QueueTypes DEF Queue!EnqueueAssign, Queue!EnqueueAssigned, Queue!Goto,
    Queue!setupVars, Claiming, Slot
<1>3. \A u \in QT : ThreadKnows(u)
  BY DEF QueueInv
<1>4. qpc'[t] = "enq_commit" => pool_'[Slot(old[t])] = element[t]
  BY <1>1, OwnSlot, QueueTypes DEF Queue!EnqueueAssign, Queue!EnqueueAssigned, Queue!Goto,
    Slot, Claiming
<1>5. \A i \in head_ + 1 .. commit_ - 1 : pool_'[Slot(i)] = pool_[Slot(i)]
  <2> TAKE i \in head_ + 1 .. commit_ - 1
  <2>1. Slot(i) \in 0 .. pool_size_ - 1
    BY <1>1, Indexes, SlotsDiffer
  <2> QED
    BY <1>2, <2>1, OwnSlot
<1>6. \A u \in QT : u # t /\ qpc[u] \in Claiming => pool_'[Slot(old[u])] = pool_[Slot(old[u])]
  BY <1>2, OwnSlot
<1>7. \A i : Slot(i)' = Slot(i)
  BY <1>2 DEF Slot, Queue!GetIndex
<1>8. \A u \in QT : ThreadKnows(u)'
  <2> TAKE u \in QT
  <2>1. CASE u = t
    BY <1>2, <1>3, <1>4, <1>7, <2>1 DEF ThreadKnows, Enqueuing, Claiming
  <2>2. CASE u # t
    <3>1. qpc[u] \in {"deq_copy", "deq_cas"} /\ old[u] = head_ =>
            pool_'[Slot(head_ + 1)] = pool_[Slot(head_ + 1)]
      BY <1>3, <1>5, Indexes DEF ThreadKnows
    <3> QED
      BY <1>2, <1>3, <1>6, <1>7, <2>2, <3>1 DEF ThreadKnows, Claiming, Queue!Capacity
  <2> QED
    BY <2>1, <2>2
<1>9. CommittedAreWhole'
  BY <1>2, <1>5, <1>7 DEF QueueInv, CommittedAreWhole
<1>10. Queue!IndexesOrdered' /\ ClaimsAreDistinct' /\ Alone(t)
  BY <1>2 DEF QueueInv, Queue!IndexesOrdered, ClaimsAreDistinct, Queue!Capacity, Alone, Quiet
<1> QED
  BY <1>1, <1>5, <1>8, <1>9, <1>10 DEF QueueInv

\* The first claim is committed.
LEMMA CommitStep ==
  ASSUME QueueInv, UNCHANGED Queue!setupVars, NEW t \in QT, Queue!EnqueueCommit(t)
  PROVE  QueueInv' /\ Alone(t) /\ pool_[Slot(commit_)] = element[t] /\ element[t] \in Elements
<1>1. Queue!TypeOK /\ Queue!TypeOK'
  BY EnqueueTypes DEF QueueInv
<1>2. /\ qpc[t] = "enq_commit" /\ old[t] = commit_ /\ commit_' = commit_ + 1
      /\ qpc'[t] = "enq_notify" /\ \A u \in QT \ {t} : qpc'[u] = qpc[u]
      /\ UNCHANGED <<pool_size_, head_, tail_, pool_, old, element, ok, out>>
  BY <1>1, QueueTypes DEF Queue!EnqueueCommit, Queue!Goto, Queue!setupVars
<1>3. commit_ < tail_ /\ pool_[Slot(commit_)] = element[t] /\ element[t] \in Elements
  BY <1>2 DEF QueueInv, ThreadKnows, Enqueuing, Claiming
<1>4. Queue!IndexesOrdered'
  BY <1>2, <1>3, Indexes DEF Queue!IndexesOrdered, Queue!Capacity
<1>5. \A u \in QT \ {t} : qpc[u] \in Claiming => commit_ < old[u]
  BY <1>2, Indexes DEF QueueInv, ClaimsAreDistinct, Claiming
<1>6. \A u \in QT : ThreadKnows(u)'
  <2> TAKE u \in QT
  <2>1. ThreadKnows(u)
    BY DEF QueueInv
  <2>2. CASE u = t
    BY <1>2, <2>2 DEF ThreadKnows, Enqueuing, Claiming
  <2>3. CASE u # t
    BY <1>2, <1>5, <2>1, <2>3, Indexes DEF ThreadKnows, Slot, Queue!GetIndex, Queue!Capacity
  <2> QED
    BY <2>2, <2>3
<1>7. ClaimsAreDistinct' /\ Alone(t)
  BY <1>2 DEF QueueInv, ClaimsAreDistinct, Claiming, Alone, Quiet
<1>8. CommittedAreWhole'
  BY <1>2, <1>3, Indexes DEF QueueInv, CommittedAreWhole, Slot, Queue!GetIndex
<1> QED
  BY <1>1, <1>3, <1>4, <1>6, <1>7, <1>8 DEF QueueInv

\* The oldest element is taken, and whoever copied it as well will fail.
LEMMA TakeStep ==
  ASSUME QueueInv, UNCHANGED Queue!setupVars, NEW t \in QT, Queue!DequeueCas(t)
  PROVE  QueueInv' /\ Alone(t) /\ head_ + 1 < commit_ /\ element[t] = pool_[Slot(head_ + 1)]
<1>1. Queue!TypeOK /\ Queue!TypeOK'
  BY DequeueTypes DEF QueueInv
<1>2. /\ qpc[t] = "deq_cas" /\ old[t] = head_ /\ head_' = head_ + 1 /\ qpc'[t] = "idle"
      /\ \A u \in QT \ {t} : /\ qpc'[u] = qpc[u] /\ old'[u] = old[u] /\ element'[u] = element[u]
                            /\ ok'[u] = ok[u] /\ out'[u] = out[u]
      /\ UNCHANGED <<pool_size_, tail_, commit_, pool_>>
  BY <1>1, QueueTypes DEF Queue!DequeueCas, Queue!Goto, Queue!Forget, Queue!setupVars
<1>3. head_ + 1 < commit_ /\ element[t] = pool_[Slot(head_ + 1)]
  BY <1>2, WholeCopy
<1>4. Queue!IndexesOrdered'
  BY <1>2, <1>3, Indexes DEF Queue!IndexesOrdered, Queue!Capacity
<1>5. \A u \in QT : ThreadKnows(u)'
  <2> TAKE u \in QT
  <2>1. ThreadKnows(u)
    BY DEF QueueInv
  <2>2. CASE u = t
    BY <1>2, <2>2 DEF ThreadKnows, Enqueuing, Claiming
  <2>3. CASE u # t
    BY <1>1, <1>2, <2>1, <2>3, Indexes, PoolSizes DEF ThreadKnows, Slot, Queue!GetIndex,
      Queue!Capacity
  <2> QED
    BY <2>2, <2>3
<1>6. ClaimsAreDistinct' /\ Alone(t)
  BY <1>2 DEF QueueInv, ClaimsAreDistinct, Claiming, Alone, Quiet
<1>7. CommittedAreWhole'
  BY <1>2, <1>3, Indexes DEF QueueInv, CommittedAreWhole, Slot, Queue!GetIndex
<1> QED
  BY <1>1, <1>3, <1>4, <1>5, <1>6, <1>7 DEF QueueInv

-----------------------------------------------------------------------------
(* The ring implements the FIFO.                                           *)

Elems == Queue!Contents

LEMMA ContentsAre ==
  ASSUME QueueInv
  PROVE  /\ Elems \in Seq(Elements) /\ Len(Elems) = commit_ - head_ - 1
         /\ \A i \in 1 .. commit_ - head_ - 1 : Elems[i] = pool_[Slot(head_ + i)]
<1>1. Elems = [i \in 1 .. commit_ - head_ - 1 |-> pool_[Slot(head_ + i)]]
  BY DEF Elems, Queue!Contents, Slot
<1>2. commit_ - head_ - 1 \in Nat
  BY Indexes
<1>3. \A i \in 1 .. commit_ - head_ - 1 : pool_[Slot(head_ + i)] \in Elements
  BY Indexes DEF QueueInv, CommittedAreWhole
<1> QED
  BY <1>1, <1>2, <1>3

\* Nothing committed, nothing taken: the FIFO stutters.
LEMMA FifoStutters ==
  ASSUME QueueInv, UNCHANGED <<pool_size_, head_, commit_, out>>,
         \A i \in head_ + 1 .. commit_ - 1 : pool_'[Slot(i)] = pool_[Slot(i)]
  PROVE  UNCHANGED Queue!Fifo!vars
<1>1. \A i \in 1 .. commit_ - head_ - 1 : pool_'[Slot(head_ + i)] = pool_[Slot(head_ + i)]
  BY Indexes
<1>2. \A i : Slot(i)' = Slot(i)
  BY DEF Slot, Queue!GetIndex
<1>3. Queue!Contents' = Queue!Contents
  BY <1>1, <1>2 DEF Queue!Contents, Slot
<1> QED
  BY <1>3 DEF Queue!Fifo!vars, Queue!Capacity

LEMMA CommitPuts ==
  ASSUME QueueInv, UNCHANGED Queue!setupVars, NEW t \in QT, Queue!EnqueueCommit(t)
  PROVE  Queue!Fifo!Next
<1>1. UNCHANGED <<pool_size_, head_, pool_, out>> /\ commit_' = commit_ + 1
  BY QueueTypes DEF Queue!EnqueueCommit, Queue!setupVars, QueueInv
<1>2. pool_[Slot(commit_)] = element[t] /\ element[t] \in Elements /\ QueueInv'
  BY CommitStep
<1>3. commit_ < tail_
  BY Indexes DEF Queue!EnqueueCommit, Queue!Goto, Claiming
<1>4. Len(Elems) < Queue!Capacity
  BY <1>3, ContentsAre, Indexes DEF Queue!Capacity
<1>5. Elems' = Append(Elems, element[t])
  <2>1. \A i : Slot(i)' = Slot(i)
    BY <1>1 DEF Slot, Queue!GetIndex
  <2>2. /\ Elems' \in Seq(Elements) /\ Len(Elems') = commit_ - head_
        /\ \A i \in 1 .. commit_ - head_ : Elems'[i] = pool_[Slot(head_ + i)]
    <3>1. /\ (Elems \in Seq(Elements))' /\ (Len(Elems) = commit_ - head_ - 1)'
          /\ (\A i \in 1 .. commit_ - head_ - 1 : Elems[i] = pool_[Slot(head_ + i)])'
      BY <1>2, ContentsAre, PTL
    <3> QED
      BY SMTT(40), <1>1, <2>1, <3>1, Indexes
  <2>3. Append(Elems, element[t]) \in Seq(Elements) /\ Len(Append(Elems, element[t])) = commit_ - head_
    BY <1>2, ContentsAre, Indexes
  <2>4. \A i \in 1 .. commit_ - head_ : Elems'[i] = Append(Elems, element[t])[i]
    <3> TAKE i \in 1 .. commit_ - head_
    <3>0. /\ head_ \in Nat /\ commit_ \in Nat /\ Elems \in Seq(Elements)
          /\ Len(Elems) = commit_ - head_ - 1 /\ head_ < commit_ /\ i \in Int
      BY ContentsAre, Indexes
    <3>1. CASE i = commit_ - head_
      <4>1. Append(Elems, element[t])[i] = element[t]
        BY <1>2, <3>0, <3>1
      <4>2. head_ + i = commit_
        BY <3>0, <3>1
      <4> QED
        BY <1>2, <2>2, <4>1, <4>2
    <3>2. CASE i # commit_ - head_
      <4>1. i \in 1 .. commit_ - head_ - 1
        BY <3>0, <3>2
      <4>2. Append(Elems, element[t])[i] = Elems[i]
        BY <1>2, <3>0, <4>1
      <4> QED
        BY <2>2, <4>1, <4>2, ContentsAre
    <3> QED
      BY <3>1, <3>2
  <2> QED
    BY <2>2, <2>3, <2>4
<1> QED
  BY <1>1, <1>2, <1>4, <1>5 DEF Queue!Fifo!Next, Queue!Fifo!Put, Elems, Elements,
    Queue!Capacity

LEMMA TakeGets ==
  ASSUME QueueInv, UNCHANGED Queue!setupVars, NEW t \in QT, Queue!DequeueCas(t)
  PROVE  Queue!Fifo!Next
<1>1. UNCHANGED <<pool_size_, commit_, pool_>> /\ head_' = head_ + 1
      /\ out' = [out EXCEPT ![t] = element[t]]
  BY QueueTypes DEF Queue!DequeueCas, Queue!setupVars, QueueInv
<1>2. head_ + 1 < commit_ /\ element[t] = pool_[Slot(head_ + 1)] /\ QueueInv'
  BY TakeStep
<1>3. Elems # <<>> /\ Head(Elems) = element[t]
  BY <1>2, ContentsAre, Indexes
<1>4. Elems' = Tail(Elems)
  <2>1. \A i : Slot(i)' = Slot(i)
    BY <1>1 DEF Slot, Queue!GetIndex
  <2>2. /\ Elems' \in Seq(Elements) /\ Len(Elems') = commit_ - head_ - 2
        /\ \A i \in 1 .. commit_ - head_ - 2 : Elems'[i] = pool_[Slot(head_ + 1 + i)]
    <3>1. /\ (Elems \in Seq(Elements))' /\ (Len(Elems) = commit_ - head_ - 1)'
          /\ (\A i \in 1 .. commit_ - head_ - 1 : Elems[i] = pool_[Slot(head_ + i)])'
      BY <1>2, ContentsAre, PTL
    <3> QED
      BY SMTT(40), <1>1, <2>1, <3>1, Indexes
  <2>3. Tail(Elems) \in Seq(Elements) /\ Len(Tail(Elems)) = commit_ - head_ - 2
    BY <1>2, <1>3, ContentsAre, Indexes
  <2>4. \A i \in 1 .. commit_ - head_ - 2 : Elems'[i] = Tail(Elems)[i]
    <3> TAKE i \in 1 .. commit_ - head_ - 2
    <3>1. Tail(Elems)[i] = Elems[i + 1]
      BY <1>2, <1>3, ContentsAre, Indexes
    <3>2. Elems[i + 1] = pool_[Slot(head_ + (i + 1))] /\ head_ + (i + 1) = head_ + 1 + i
      BY SMTT(40), ContentsAre, Indexes
    <3> QED
      BY <2>2, <3>1, <3>2
  <2> QED
    BY <2>2, <2>3, <2>4
<1>5. t \in DOMAIN out
  BY QueueTypes DEF QueueInv
<1> QED
  BY <1>1, <1>3, <1>4, <1>5 DEF Queue!Fifo!Next, Queue!Fifo!Get, Elems, Queue!Capacity

\* Any step of a thread.
LEMMA StepMoves ==
  ASSUME QueueInv, UNCHANGED Queue!setupVars, NEW t \in QT,
         Queue!Step(t) \/ Queue!CasFails(t) \/ Queue!SetBreak(t)
  PROVE  QueueInv' /\ Alone(t) /\ [Queue!Fifo!Next]_(Queue!Fifo!vars)
<1>1. CASE Queue!EnqueueCommit(t)
  BY <1>1, CommitStep, CommitPuts
<1>2. CASE Queue!DequeueCas(t)
  BY <1>2, TakeStep, TakeGets
<1>3. CASE Queue!EnqueueAssign(t) \/ Queue!EnqueueAssigned(t)
  <2>1. UNCHANGED <<pool_size_, head_, commit_, out>>
    BY <1>3 DEF Queue!EnqueueAssign, Queue!EnqueueAssigned, Queue!setupVars
  <2> QED
    BY <1>3, <2>1, AssignStep, FifoStutters
<1>4. CASE Queue!EnqueueCas(t)
  <2>1. UNCHANGED <<pool_size_, head_, commit_, pool_, out>>
    BY <1>4 DEF Queue!EnqueueCas, Queue!setupVars
  <2> QED
    BY <1>4, <2>1, ClaimStep, FifoStutters
<1>5. ASSUME QueueInv', SameRing, Alone(t), UNCHANGED out
      PROVE  QueueInv' /\ Alone(t) /\ [Queue!Fifo!Next]_(Queue!Fifo!vars)
  BY <1>5, FifoStutters DEF SameRing, Queue!setupVars, Queue!indexVars
<1>6. CASE \/ Queue!EnqueueLoad(t) \/ Queue!EnqueueFull(t) \/ Queue!EnqueueRoom(t)
           \/ Queue!EnqueueCasFails(t)
  <2>1. UNCHANGED out
    BY <1>6 DEF Queue!EnqueueLoad, Queue!EnqueueFull, Queue!EnqueueRoom, Queue!EnqueueCasFails
  <2> QED
    BY <1>5, <1>6, <2>1, EnqueueLocalSteps
<1>7. CASE \/ Queue!DequeueLoad(t) \/ Queue!DequeueEmpty(t) \/ Queue!DequeueCopy(t)
           \/ Queue!DequeueCopied(t) \/ Queue!DequeueCasFails(t)
  <2>1. UNCHANGED out
    BY <1>7 DEF Queue!DequeueLoad, Queue!DequeueEmpty, Queue!DequeueCopy, Queue!DequeueCopied,
      Queue!DequeueCasFails
  <2> QED
    BY <1>5, <1>7, <2>1, DequeueLocalSteps
<1>8. CASE \/ Queue!EnqueueEmptyWait(t) \/ Queue!DequeueEmptyWait(t) \/ Queue!WaitTimeout(t)
           \/ Queue!WaitEnqueueAgain(t) \/ Queue!WaitDequeueAgain(t) \/ Queue!NotifyOne(t)
           \/ Queue!BreakAllWait(t) \/ Queue!SetBreak(t)
  <2>1. UNCHANGED out
    BY <1>8 DEF Queue!EnqueueEmptyWait, Queue!DequeueEmptyWait, Queue!EmptyWait,
      Queue!WaitTimeout, Queue!WaitEnqueueAgain, Queue!WaitDequeueAgain, Queue!WaitAgain,
      Queue!NotifyOne, Queue!BreakAllWait, Queue!SetBreak
  <2> QED
    BY <1>5, <1>8, <2>1, WaitSteps
<1> QED
  BY <1>1, <1>2, <1>3, <1>4, <1>6, <1>7, <1>8 DEF Queue!Step, Queue!CasFails

LEMMA CallMoves ==
  ASSUME QueueInv, UNCHANGED Queue!setupVars, NEW t \in QT, NEW w \in BOOLEAN,
         Queue!Dequeue(t, w) \/ \E v \in Elements : Queue!Enqueue(t, v, w)
  PROVE  QueueInv' /\ Alone(t) /\ [Queue!Fifo!Next]_(Queue!Fifo!vars)
<1>1. UNCHANGED out
  BY DEF Queue!Dequeue, Queue!Enqueue, Queue!Call
<1> QED
  BY <1>1, CallSteps, FifoStutters DEF SameRing, Queue!setupVars, Queue!indexVars

\* Nothing happens to the queue.
LEMMA QueueRests ==
  ASSUME QueueInv, UNCHANGED queueVars
  PROVE  QueueInv' /\ [Queue!Fifo!Next]_(Queue!Fifo!vars)
<1>1. UNCHANGED Queue!vars
  BY DEF queueVars, Queue!vars, Queue!setupVars, Queue!indexVars
<1>2. SameRing /\ \A u \in QT : Quiet(u)
  BY <1>1 DEF SameRing, Quiet, Queue!vars
<1>3. Queue!TypeOK'
  BY <1>1 DEF QueueInv, Queue!TypeOK, Queue!vars, Queue!setupVars, Queue!indexVars
<1>4. Queue!IndexesOrdered' /\ CommittedAreWhole'
  BY <1>1 DEF QueueInv, Queue!IndexesOrdered, CommittedAreWhole, Queue!vars, Queue!setupVars,
    Queue!indexVars, Queue!Capacity, Slot, Queue!GetIndex
<1>5. \A u \in QT : ThreadKnows(u)'
  BY <1>2, QuietKnows DEF QueueInv
<1>6. ClaimsAreDistinct'
  BY <1>1 DEF QueueInv, ClaimsAreDistinct, Queue!vars
<1>7. UNCHANGED Queue!Fifo!vars
  BY <1>1, FifoStutters DEF Queue!vars, Queue!setupVars, Queue!indexVars
<1> QED
  BY <1>3, <1>4, <1>5, <1>6, <1>7 DEF QueueInv

\* What the subjects do to the queue are steps of it.
LEMMA QueueSteps ==
  ASSUME QueueInv, QueueNext
  PROVE  QueueInv' /\ [Queue!Fifo!Next]_(Queue!Fifo!vars)
<1>1. p \in QT /\ c \in QT /\ Ps \subseteq QT /\ Cs \subseteq QT
  BY BaseAssumption DEF QT, Queue!QueueThreads
<1>2. ASSUME NEW producers \in SUBSET QT, NEW consumers \in SUBSET QT,
             NEW values \in SUBSET Elements, NEW calls \in SUBSET BOOLEAN,
             Queue!NextOf(producers, consumers, values, calls)
      PROVE  QueueInv' /\ [Queue!Fifo!Next]_(Queue!Fifo!vars)
  BY <1>2, StepMoves, CallMoves DEF Queue!NextOf
<1>3. CASE subject = "producing" /\ Queue!NextOf(Ps, {c}, {v0, v1}, {FALSE})
  BY <1>1, <1>2, <1>3 DEF Elements
<1>4. CASE subject = "consuming" /\ Queue!NextOf({p}, Cs, {v1}, {FALSE})
  BY <1>1, <1>2, <1>4 DEF Elements
<1>5. CASE Queue!NextOf({p}, {c}, {v0, v1}, {TRUE})
  BY <1>1, <1>2, <1>5 DEF Elements
<1> QED
  BY <1>3, <1>4, <1>5 DEF QueueNext

-----------------------------------------------------------------------------
(* ThreadPool.  A submitted task is in one place until it is run: with its *)
(* client, with the thread that enqueues it, in the ring, or with the      *)
(* worker that dequeued it.                                                *)

PoolTypes ==
  /\ stop_ \in BOOLEAN
  /\ wpc \in [Cs -> {"check", "pull", "exit"}]
  /\ cpc \in [Clients -> {"idle", "enqueue", "return", "break", "join", "destroyed"}]
  /\ task \in [Clients -> Elements]
  /\ submitted \subseteq Elements
  /\ executed \in [Elements -> Nat]

Has(h, x, v) ==
  \/ h = "client" /\ x \in Clients /\ cpc[x] = "enqueue" /\ task[x] = v
  \/ h = "thread" /\ x \in QT /\ qpc[x] \in Enqueuing /\ element[x] = v
  \/ h = "ring" /\ x \in head_ + 1 .. commit_ - 1 /\ pool_[Slot(x)] = v
  \/ h = "worker" /\ x \in Cs /\ wpc[x] = "pull" /\ qpc[x] = "idle" /\ ok[x] /\ out[x] = v

TaskIsOnce(v) ==
  /\ \A h, x, g, y : Has(h, x, v) /\ Has(g, y, v) => h = g /\ x = y
  /\ \A h, x : Has(h, x, v) => v \in submitted /\ executed[v] = 0
  /\ v \notin submitted => executed[v] = 0
  /\ executed[v] <= 1

\* A worker only dequeues.
WorkersDequeue ==
  \A w \in Cs : qpc[w] \in {"idle", "deq", "deq_check", "deq_copy", "deq_cas", "deq_block",
                            "deq_blocked", "deq_retry"}

PoolInv ==
  /\ PoolTypes
  /\ subject = "pool" => WorkersDequeue /\ \A v \in Elements : TaskIsOnce(v)
  /\ subject # "pool" => submitted = {} /\ \A v \in Elements : executed[v] = 0

\* The tasks stay where they are.
LEMMA TasksStay ==
  ASSUME NEW v, TaskIsOnce(v), UNCHANGED <<submitted, executed>>,
         \A h, x : Has(h, x, v)' => Has(h, x, v)
  PROVE  TaskIsOnce(v)'
BY DEF TaskIsOnce

\* A task changes hands.
LEMMA TaskMoves ==
  ASSUME NEW v, TaskIsOnce(v), UNCHANGED <<submitted, executed>>,
         NEW h0, NEW x0, Has(h0, x0, v), NEW h1, NEW x1,
         \A h, x : Has(h, x, v)' =>
           \/ Has(h, x, v) /\ ~(h = h0 /\ x = x0)
           \/ h = h1 /\ x = x1
  PROVE  TaskIsOnce(v)'
BY DEF TaskIsOnce

\* The threads that take no step hold what they held.
LEMMA OthersHold ==
  ASSUME NEW t, Alone(t), UNCHANGED <<cpc, task, wpc>>, NEW h, NEW x, NEW v,
         Has(h, x, v)', h \in {"thread", "worker"} => x # t
  PROVE  h # "ring" => Has(h, x, v)
<1>1. Cs \subseteq QT
  BY DEF QT, Queue!QueueThreads
<1>2. x \in QT /\ x # t => Quiet(x)
  BY DEF Alone
<1>3. CASE h = "client"
  BY <1>3 DEF Has
<1>4. CASE h = "thread"
  BY <1>2, <1>4 DEF Has, Quiet, Enqueuing
<1>5. CASE h = "worker"
  BY <1>1, <1>2, <1>5 DEF Has, Quiet
<1> QED
  BY <1>3, <1>4, <1>5 DEF Has

\* The committed part of the ring, as a step leaves it.
LEMMA RingHolds ==
  ASSUME NEW v, NEW x, Has("ring", x, v)', UNCHANGED <<pool_size_, head_, commit_>>,
         \A i \in head_ + 1 .. commit_ - 1 : pool_'[Slot(i)] = pool_[Slot(i)]
  PROVE  Has("ring", x, v)
BY DEF Has, Slot, Queue!GetIndex

\* A step of t that neither commits nor takes leaves every task where it is.
LEMMA StepHolds ==
  ASSUME QueueInv, WorkersDequeue, UNCHANGED <<poolVars, pool_size_>>, NEW t \in QT, Alone(t),
         UNCHANGED <<head_, commit_>>,
         \A i \in head_ + 1 .. commit_ - 1 : pool_'[Slot(i)] = pool_[Slot(i)],
         qpc'[t] \in Enqueuing => qpc[t] \in Enqueuing /\ element'[t] = element[t],
         t \in Cs => ~(qpc'[t] = "idle" /\ ok'[t]),
         NEW v \in Elements, TaskIsOnce(v)
  PROVE  TaskIsOnce(v)'
<1>1. ASSUME NEW h, NEW x, Has(h, x, v)' PROVE Has(h, x, v)
  <2>1. CASE h = "ring"
    BY <1>1, <2>1, RingHolds
  <2>2. CASE h # "ring" /\ (h \in {"thread", "worker"} => x # t)
    BY <1>1, <2>2, OthersHold DEF poolVars
  <2>3. CASE h = "thread" /\ x = t
    BY <1>1, <2>3 DEF Has
  <2>4. CASE h = "worker" /\ x = t
    BY <1>1, <2>4 DEF Has
  <2> QED
    BY <2>1, <2>2, <2>3, <2>4
<1> QED
  BY <1>1, TasksStay DEF poolVars

LEMMA WorkersGoOn ==
  ASSUME QueueInv, WorkersDequeue, NEW t \in QT, Alone(t), Queue!Step(t) \/ Queue!CasFails(t)
  PROVE  WorkersDequeue'
<1>1. Cs \subseteq QT /\ Queue!TypeOK
  BY DEF QT, Queue!QueueThreads, QueueInv
<1>2. ASSUME NEW w \in Cs, w # t
      PROVE  qpc'[w] \in {"idle", "deq", "deq_check", "deq_copy", "deq_cas", "deq_block",
                          "deq_blocked", "deq_retry"}
  <2>1. Quiet(w)
    BY <1>1, <1>2 DEF Alone
  <2> QED
    BY <2>1 DEF Quiet, WorkersDequeue
<1>3. ASSUME t \in Cs
      PROVE  qpc'[t] \in {"idle", "deq", "deq_check", "deq_copy", "deq_cas", "deq_block",
                          "deq_blocked", "deq_retry"}
  <2>1. qpc[t] \in {"idle", "deq", "deq_check", "deq_copy", "deq_cas", "deq_block",
                    "deq_blocked", "deq_retry"}
    BY <1>3 DEF WorkersDequeue
  <2>2. \/ Queue!DequeueLoad(t) \/ Queue!DequeueEmpty(t) \/ Queue!DequeueCopy(t)
        \/ Queue!DequeueCopied(t) \/ Queue!DequeueCas(t) \/ Queue!DequeueCasFails(t)
        \/ Queue!DequeueEmptyWait(t) \/ Queue!WaitTimeout(t) \/ Queue!WaitDequeueAgain(t)
    BY <2>1 DEF Queue!Step, Queue!CasFails, Queue!Goto, Queue!Fail, Queue!EnqueueLoad,
      Queue!EnqueueFull, Queue!EnqueueRoom, Queue!EnqueueCas, Queue!EnqueueCasFails,
      Queue!EnqueueAssign, Queue!EnqueueAssigned, Queue!EnqueueCommit, Queue!NotifyOne,
      Queue!EnqueueEmptyWait, Queue!EmptyWait, Queue!WaitEnqueueAgain, Queue!WaitAgain,
      Queue!BreakAllWait
  <2> QED
    BY <1>1, <2>2, QueueTypes DEF Queue!DequeueLoad, Queue!DequeueEmpty, Queue!DequeueCopy,
      Queue!DequeueCopied, Queue!DequeueCas, Queue!DequeueCasFails, Queue!DequeueEmptyWait,
      Queue!EmptyWait, Queue!WaitTimeout, Queue!WaitDequeueAgain, Queue!WaitAgain, Queue!Goto,
      Queue!Fail
<1> QED
  BY <1>2, <1>3 DEF WorkersDequeue

\* A step of the queue, with the pool's loops where they are.
LEMMA TasksThroughQueue ==
  ASSUME QueueInv, WorkersDequeue, UNCHANGED <<poolVars, Queue!setupVars>>, NEW t \in QT,
         Queue!Step(t) \/ Queue!CasFails(t),
         NEW v \in Elements, TaskIsOnce(v)
  PROVE  TaskIsOnce(v)'
<1>1. Queue!TypeOK /\ Queue!TypeOK' /\ Alone(t) /\ ThreadKnows(t)
  BY StepMoves DEF QueueInv
<1>2. UNCHANGED <<pool_size_, submitted, executed, cpc, task, wpc>>
  BY DEF Queue!setupVars, poolVars
<1>3. t \in Cs => qpc[t] \notin Enqueuing \union {"enq_notify", "brk"}
  BY DEF WorkersDequeue, Enqueuing
<1>4. CASE Queue!EnqueueCommit(t)
  <2>1. /\ qpc[t] = "enq_commit" /\ qpc'[t] = "enq_notify" /\ commit_' = commit_ + 1
        /\ pool_[Slot(commit_)] = element[t] /\ UNCHANGED <<head_, pool_, element, out, ok>>
    BY <1>1, <1>4, CommitStep, QueueTypes DEF Queue!EnqueueCommit, Queue!Goto
  <2>2. \A i : Slot(i)' = Slot(i)
    BY <1>2 DEF Slot, Queue!GetIndex
  <2>3. ASSUME NEW h, NEW x, Has(h, x, v)'
        PROVE  \/ Has(h, x, v) /\ ~(h = "thread" /\ x = t)
               \/ h = "ring" /\ x = commit_ /\ element[t] = v
    <3>1. CASE h = "ring"
      BY <2>1, <2>2, <2>3, <3>1, Indexes DEF Has
    <3>2. CASE h # "ring" /\ (h \in {"thread", "worker"} => x # t)
      BY <1>1, <1>2, <2>3, <3>2, OthersHold
    <3>3. CASE h \in {"thread", "worker"} /\ x = t
      BY <2>1, <2>3, <3>3 DEF Has, Enqueuing
    <3> QED
      BY <3>1, <3>2, <3>3
  <2>4. CASE element[t] = v
    <3>1. Has("thread", t, v)
      BY <2>1, <2>4 DEF Has, Enqueuing
    <3> QED
      BY <1>2, <2>3, <3>1, TaskMoves
  <2>5. CASE element[t] # v
    BY <1>2, <2>3, <2>5, TasksStay
  <2> QED
    BY <2>4, <2>5
<1>5. CASE Queue!DequeueCas(t)
  <2>1. /\ qpc[t] = "deq_cas" /\ qpc'[t] = "idle" /\ head_' = head_ + 1
        /\ head_ + 1 < commit_ /\ pool_[Slot(head_ + 1)] = element[t]
        /\ out'[t] = element[t] /\ UNCHANGED <<commit_, pool_>>
    BY <1>1, <1>5, TakeStep, QueueTypes DEF Queue!DequeueCas, Queue!Goto
  <2>2. \A i : Slot(i)' = Slot(i)
    BY <1>2 DEF Slot, Queue!GetIndex
  <2>3. ASSUME NEW h, NEW x, Has(h, x, v)'
        PROVE  \/ Has(h, x, v) /\ ~(h = "ring" /\ x = head_ + 1)
               \/ h = "worker" /\ x = t /\ element[t] = v
    <3>1. CASE h = "ring"
      BY <2>1, <2>2, <2>3, <3>1, Indexes DEF Has
    <3>2. CASE h # "ring" /\ (h \in {"thread", "worker"} => x # t)
      BY <1>1, <1>2, <2>3, <3>2, OthersHold
    <3>3. CASE h \in {"thread", "worker"} /\ x = t
      BY <2>1, <2>3, <3>3 DEF Has, Enqueuing
    <3> QED
      BY <3>1, <3>2, <3>3
  <2>4. CASE element[t] = v
    <3>1. Has("ring", head_ + 1, v)
      BY <2>1, <2>4, Indexes DEF Has
    <3> QED
      BY <1>2, <2>3, <3>1, TaskMoves
  <2>5. CASE element[t] # v
    BY <1>2, <2>3, <2>5, TasksStay
  <2> QED
    BY <2>4, <2>5
<1>6. CASE Queue!EnqueueAssign(t) \/ Queue!EnqueueAssigned(t)
  <2>1. UNCHANGED <<head_, commit_, element, ok>> /\ qpc[t] \in Enqueuing /\ qpc'[t] \in Enqueuing
    BY <1>1, <1>6, QueueTypes DEF Queue!EnqueueAssign, Queue!EnqueueAssigned, Queue!Goto,
      Enqueuing
  <2> QED
    BY <1>1, <1>2, <1>6, <2>1, AssignStep, StepHolds DEF Enqueuing
<1>7. CASE Queue!EnqueueCas(t)
  <2>1. UNCHANGED <<head_, commit_, pool_, element, ok>>
        /\ qpc[t] \in Enqueuing /\ qpc'[t] \in Enqueuing
    BY <1>1, <1>7, QueueTypes DEF Queue!EnqueueCas, Queue!Goto, Enqueuing
  <2> QED
    BY <1>1, <1>2, <2>1, StepHolds DEF Enqueuing
<1>8. ASSUME UNCHANGED <<head_, commit_, pool_>>,
             qpc'[t] \in Enqueuing => qpc[t] \in Enqueuing /\ element'[t] = element[t],
             t \in Cs => ~(qpc'[t] = "idle" /\ ok'[t])
      PROVE  TaskIsOnce(v)'
  BY <1>1, <1>2, <1>8, StepHolds
<1>9. CASE \/ Queue!EnqueueLoad(t) \/ Queue!EnqueueFull(t) \/ Queue!EnqueueRoom(t)
           \/ Queue!EnqueueCasFails(t)
  <2>1. SameRing /\ qpc[t] \in Enqueuing
    BY <1>9, EnqueueLocalSteps DEF Queue!EnqueueLoad, Queue!EnqueueFull, Queue!EnqueueRoom,
      Queue!EnqueueCasFails, Queue!Goto, Queue!Fail, Enqueuing
  <2>2. qpc'[t] \in Enqueuing => element'[t] = element[t]
    BY <1>1, <1>9, QueueTypes DEF Queue!EnqueueLoad, Queue!EnqueueFull, Queue!EnqueueRoom,
      Queue!EnqueueCasFails, Queue!Goto, Queue!Fail, Enqueuing
  <2> QED
    BY <1>3, <1>8, <2>1, <2>2 DEF SameRing, Queue!indexVars
<1>10. CASE \/ Queue!DequeueLoad(t) \/ Queue!DequeueEmpty(t) \/ Queue!DequeueCopy(t)
            \/ Queue!DequeueCopied(t) \/ Queue!DequeueCasFails(t)
  <2>1. SameRing
    BY <1>10, DequeueLocalSteps
  <2>2. qpc'[t] \notin Enqueuing
    BY <1>1, <1>10, QueueTypes DEF Queue!DequeueLoad, Queue!DequeueEmpty, Queue!DequeueCopy,
      Queue!DequeueCopied, Queue!DequeueCasFails, Queue!Goto, Queue!Fail, Enqueuing
  <2>3. ~(qpc'[t] = "idle" /\ ok'[t])
    BY <1>1, <1>10, QueueTypes DEF Queue!DequeueLoad, Queue!DequeueEmpty, Queue!DequeueCopy,
      Queue!DequeueCopied, Queue!DequeueCasFails, Queue!Goto, Queue!Fail
  <2> QED
    BY <1>8, <2>1, <2>2, <2>3 DEF SameRing, Queue!indexVars
<1>11. CASE \/ Queue!EnqueueEmptyWait(t) \/ Queue!DequeueEmptyWait(t) \/ Queue!WaitTimeout(t)
            \/ Queue!WaitEnqueueAgain(t) \/ Queue!WaitDequeueAgain(t) \/ Queue!NotifyOne(t)
            \/ Queue!BreakAllWait(t)
  <2>1. SameRing
    BY <1>11, WaitSteps
  <2>2. qpc'[t] \in Enqueuing => qpc[t] \in Enqueuing /\ element'[t] = element[t]
    <3>1. CASE Queue!EnqueueEmptyWait(t) \/ Queue!DequeueEmptyWait(t)
      BY <1>1, <3>1, QueueTypes DEF Queue!EnqueueEmptyWait, Queue!DequeueEmptyWait,
        Queue!EmptyWait, Queue!Goto, Enqueuing
    <3>2. CASE Queue!WaitEnqueueAgain(t) \/ Queue!WaitDequeueAgain(t)
      BY <1>1, <3>2, QueueTypes DEF Queue!WaitEnqueueAgain, Queue!WaitDequeueAgain,
        Queue!WaitAgain, Queue!Goto, Queue!Forget, Enqueuing
    <3>3. CASE Queue!WaitTimeout(t) \/ Queue!NotifyOne(t) \/ Queue!BreakAllWait(t)
      BY <1>1, <3>3, QueueTypes DEF Queue!WaitTimeout, Queue!NotifyOne, Queue!BreakAllWait,
        Queue!Blocked, Enqueuing, QT
    <3> QED
      BY <1>11, <3>1, <3>2, <3>3
  <2>3. ASSUME t \in Cs PROVE ~(qpc'[t] = "idle" /\ ok'[t])
    <3>1. CASE Queue!EnqueueEmptyWait(t) \/ Queue!WaitEnqueueAgain(t) \/ Queue!NotifyOne(t)
               \/ Queue!BreakAllWait(t)
      BY <1>3, <2>3, <3>1 DEF Queue!EnqueueEmptyWait, Queue!EmptyWait, Queue!WaitEnqueueAgain,
        Queue!WaitAgain, Queue!NotifyOne, Queue!BreakAllWait, Queue!Goto, Enqueuing
    <3>2. CASE Queue!DequeueEmptyWait(t) \/ Queue!WaitDequeueAgain(t)
      BY <1>1, <3>2, QueueTypes DEF Queue!DequeueEmptyWait, Queue!EmptyWait,
        Queue!WaitDequeueAgain, Queue!WaitAgain, Queue!Goto
    <3>3. CASE Queue!WaitTimeout(t)
      BY <1>1, <1>3, <2>3, <3>3, QueueTypes DEF Queue!WaitTimeout, Queue!Blocked, ThreadKnows,
        Enqueuing
    <3> QED
      BY <1>11, <3>1, <3>2, <3>3
  <2> QED
    BY <1>8, <2>1, <2>2, <2>3 DEF SameRing, Queue!indexVars
<1> QED
  BY <1>4, <1>5, <1>6, <1>7, <1>9, <1>10, <1>11 DEF Queue!Step, Queue!CasFails

-----------------------------------------------------------------------------
(* The steps of the pool.                                                  *)

Calm == UNCHANGED queueVars

LEMMA PoolThreads ==
  Cs \subseteq QT /\ Clients \subseteq QT /\ p \in Clients /\ Clients \intersect Cs = {}
BY BaseAssumption DEF QT, Queue!QueueThreads

\* Whatever happens to the queue, the invariants of both hold after.
PoolMoves ==
  /\ QueueInv' /\ [Queue!Fifo!Next]_(Queue!Fifo!vars)
  /\ PoolTypes' /\ WorkersDequeue' /\ \A v \in Elements : TaskIsOnce(v)'

LEMMA QueueStepMoves ==
  ASSUME QueueInv, PoolTypes, WorkersDequeue, \A v \in Elements : TaskIsOnce(v),
         UNCHANGED Queue!setupVars, NEW t \in Cs \union Clients,
         Queue!QueueStep(t) \/ Queue!SpuriousCas(t)
  PROVE  PoolMoves
<1>1. t \in QT /\ (Queue!Step(t) \/ Queue!CasFails(t)) /\ UNCHANGED poolVars
  BY PoolThreads DEF Queue!QueueStep, Queue!SpuriousCas, Queue!poolVars, poolVars
<1>2. QueueInv' /\ Alone(t) /\ [Queue!Fifo!Next]_(Queue!Fifo!vars)
  BY <1>1, StepMoves
<1>3. WorkersDequeue' /\ \A v \in Elements : TaskIsOnce(v)'
  BY <1>1, <1>2, WorkersGoOn, TasksThroughQueue
<1>4. PoolTypes'
  BY <1>1 DEF PoolTypes, poolVars
<1> QED
  BY <1>2, <1>3, <1>4 DEF PoolMoves

\* A worker calls WaitDequeue() or leaves.
LEMMA WorkerCheckMoves ==
  ASSUME QueueInv, PoolTypes, WorkersDequeue, \A v \in Elements : TaskIsOnce(v),
         UNCHANGED Queue!setupVars, NEW w \in Cs, Queue!WorkerCheck(w)
  PROVE  PoolMoves
<1>1. w \in QT /\ UNCHANGED <<submitted, executed, cpc, task, pool_size_>>
      /\ wpc[w] = "check" /\ \A x \in Cs : x # w => wpc'[x] = wpc[x]
  BY PoolThreads DEF Queue!WorkerCheck, Queue!Worker, PoolTypes, Queue!setupVars
<1>2. PoolTypes'
  BY DEF PoolTypes, Queue!WorkerCheck, Queue!Worker
<1>3. CASE stop_
  <2>1. Calm /\ wpc'[w] = "exit"
    BY <1>1, <1>3 DEF Queue!WorkerCheck, Queue!Worker, Calm, queueVars, Queue!vars,
      Queue!indexVars, Queue!setupVars, PoolTypes
  <2>2. QueueInv' /\ [Queue!Fifo!Next]_(Queue!Fifo!vars)
    BY <2>1, QueueRests DEF Calm
  <2>3. WorkersDequeue'
    BY <2>1 DEF WorkersDequeue, Calm, queueVars
  <2>4. ASSUME NEW v \in Elements PROVE TaskIsOnce(v)'
    <3>1. \A h, x : Has(h, x, v)' => Has(h, x, v)
      BY <1>1, <2>1 DEF Has, Calm, queueVars, Slot, Queue!GetIndex
    <3> QED
      BY <1>1, <3>1, TasksStay
  <2> QED
    BY <1>2, <2>2, <2>3, <2>4 DEF PoolMoves
<1>4. CASE ~stop_
  <2>1. Queue!Dequeue(w, TRUE)
    BY <1>4 DEF Queue!WorkerCheck
  <2>2. QueueInv' /\ Alone(w) /\ [Queue!Fifo!Next]_(Queue!Fifo!vars)
    BY <1>1, <2>1, CallMoves
  <2>3. qpc'[w] = "deq_retry" /\ UNCHANGED <<head_, commit_, pool_>>
    BY <1>1, <2>1, QueueTypes DEF Queue!Dequeue, Queue!Call, Queue!Goto, QueueInv,
      Queue!indexVars
  <2>4. WorkersDequeue'
    BY <1>1, <2>2, <2>3, PoolThreads DEF WorkersDequeue, Alone, Quiet
  <2>5. ASSUME NEW v \in Elements PROVE TaskIsOnce(v)'
    <3>1. ASSUME NEW h, NEW x, Has(h, x, v)' PROVE Has(h, x, v)
      <4>1. h \in {"client", "ring"} => Has(h, x, v)
        BY <1>1, <2>3, <3>1 DEF Has, Slot, Queue!GetIndex
      <4>2. h = "thread" => Has(h, x, v)
        BY <2>2, <2>3, <3>1 DEF Has, Alone, Quiet, Enqueuing
      <4>3. h = "worker" => Has(h, x, v)
        BY <1>1, <2>2, <2>3, <3>1, PoolThreads DEF Has, Alone, Quiet
      <4> QED
        BY <3>1, <4>1, <4>2, <4>3 DEF Has
    <3> QED
      BY <1>1, <3>1, TasksStay
  <2> QED
    BY <1>2, <2>2, <2>4, <2>5 DEF PoolMoves
<1> QED
  BY <1>3, <1>4

\* A worker runs what it dequeued, and has it no more.
LEMMA WorkerRunMoves ==
  ASSUME QueueInv, PoolTypes, WorkersDequeue, \A v \in Elements : TaskIsOnce(v),
         UNCHANGED Queue!setupVars, NEW w \in Cs, Queue!WorkerRun(w)
  PROVE  PoolMoves
<1>1. /\ w \in QT /\ Calm /\ UNCHANGED <<submitted, cpc, task, stop_>>
      /\ wpc[w] = "pull" /\ wpc'[w] = "check" /\ \A x \in Cs : x # w => wpc'[x] = wpc[x]
      /\ qpc[w] = "idle"
      /\ executed' = IF ok[w] THEN [executed EXCEPT ![out[w]] = @ + 1] ELSE executed
  BY PoolThreads DEF Queue!WorkerRun, Queue!Worker, Calm, queueVars, Queue!vars,
    Queue!indexVars, Queue!setupVars, PoolTypes
<1>2. PoolTypes'
  <2>1. wpc' \in [Cs -> {"check", "pull", "exit"}]
    BY DEF PoolTypes, Queue!WorkerRun, Queue!Worker
  <2>2. executed' \in [Elements -> Nat]
    <3>1. CASE ok[w]
      BY <1>1, <3>1, QueueTypes DEF PoolTypes, QueueInv
    <3>2. CASE ~ok[w]
      BY <1>1, <3>2 DEF PoolTypes
    <3> QED
      BY <3>1, <3>2
  <2> QED
    BY <1>1, <2>1, <2>2 DEF PoolTypes
<1>3. QueueInv' /\ [Queue!Fifo!Next]_(Queue!Fifo!vars)
  BY <1>1, QueueRests DEF Calm
<1>4. WorkersDequeue'
  BY <1>1 DEF WorkersDequeue, Calm, queueVars
<1>5. ASSUME NEW v \in Elements PROVE TaskIsOnce(v)'
  <2>1. \A h, x : Has(h, x, v)' => Has(h, x, v) /\ ~(h = "worker" /\ x = w)
    BY <1>1 DEF Has, Calm, queueVars, Slot, Queue!GetIndex
  <2>2. CASE ok[w] /\ out[w] = v
    <3>1. Has("worker", w, v)
      BY <1>1, <2>2 DEF Has
    <3>2. executed[v] = 0 /\ executed'[v] = 1 /\ v \in submitted
      BY <1>1, <2>2, <3>1 DEF TaskIsOnce, PoolTypes
    <3>3. \A h, x : ~Has(h, x, v)'
      BY <2>1, <3>1 DEF TaskIsOnce
    <3> QED
      BY <1>1, <3>2, <3>3 DEF TaskIsOnce
  <2>3. CASE ~(ok[w] /\ out[w] = v)
    <3>1. executed'[v] = executed[v]
      BY <1>1, <2>3 DEF PoolTypes
    <3> QED
      BY <1>1, <2>1, <3>1 DEF TaskIsOnce
  <2> QED
    BY <2>2, <2>3
<1> QED
  BY <1>2, <1>3, <1>4, <1>5 DEF PoolMoves

\* A client takes a task to Enqueue(), unless the pool is stopped.
LEMMA SubmitMoves ==
  ASSUME QueueInv, PoolTypes, WorkersDequeue, \A v \in Elements : TaskIsOnce(v),
         UNCHANGED Queue!setupVars, NEW k \in Clients, NEW v \in Elements, Queue!Submit(k, v)
  PROVE  PoolMoves
<1>1. /\ Calm /\ UNCHANGED <<stop_, wpc, executed>> /\ cpc[k] = "idle"
      /\ v \notin submitted /\ submitted' = submitted \union {v} /\ task'[k] = v
      /\ \A x \in Clients : x # k => cpc'[x] = cpc[x] /\ task'[x] = task[x]
  BY DEF Queue!Submit, Queue!Client, Calm, queueVars, Queue!vars, Queue!indexVars,
    Queue!setupVars, PoolTypes
<1>2. PoolTypes'
  <2>1. cpc' \in [Clients -> {"idle", "enqueue", "return", "break", "join", "destroyed"}]
    BY DEF PoolTypes, Queue!Submit, Queue!Client
  <2>2. task' \in [Clients -> Elements]
    BY DEF PoolTypes, Queue!Submit
  <2> QED
    BY <1>1, <2>1, <2>2 DEF PoolTypes
<1>3. QueueInv' /\ [Queue!Fifo!Next]_(Queue!Fifo!vars)
  BY <1>1, QueueRests DEF Calm
<1>4. WorkersDequeue'
  BY <1>1 DEF WorkersDequeue, Calm, queueVars
<1>5. ASSUME NEW u \in Elements PROVE TaskIsOnce(u)'
  <2>1. \A h, x : Has(h, x, u)' => Has(h, x, u) \/ (h = "client" /\ x = k /\ u = v)
    BY <1>1 DEF Has, Calm, queueVars, Slot, Queue!GetIndex
  <2>2. CASE u = v
    <3>1. executed[v] = 0 /\ \A h, x : ~Has(h, x, v)
      BY <1>1 DEF TaskIsOnce
    <3> QED
      BY <1>1, <2>1, <2>2, <3>1 DEF TaskIsOnce
  <2>3. CASE u # v
    BY <1>1, <2>1, <2>3 DEF TaskIsOnce
  <2> QED
    BY <2>2, <2>3
<1> QED
  BY <1>2, <1>3, <1>4, <1>5 DEF PoolMoves

\* ... and hands it over to its thread in the queue.
LEMMA SubmitEnqueueMoves ==
  ASSUME QueueInv, PoolTypes, WorkersDequeue, \A v \in Elements : TaskIsOnce(v),
         UNCHANGED Queue!setupVars, NEW k \in Clients, Queue!SubmitEnqueue(k)
  PROVE  PoolMoves
<1>1. /\ k \in QT /\ UNCHANGED <<stop_, wpc, task, submitted, executed, pool_size_>>
      /\ cpc[k] = "enqueue" /\ cpc'[k] = "return"
      /\ \A x \in Clients : x # k => cpc'[x] = cpc[x]
      /\ Queue!Enqueue(k, task[k], FALSE) /\ task[k] \in Elements
  BY PoolThreads DEF Queue!SubmitEnqueue, Queue!Client, PoolTypes, Queue!setupVars
<1>2. PoolTypes'
  BY DEF PoolTypes, Queue!SubmitEnqueue, Queue!Client
<1>3. QueueInv' /\ Alone(k) /\ [Queue!Fifo!Next]_(Queue!Fifo!vars)
  BY <1>1, CallMoves
<1>4. /\ qpc[k] = "idle" /\ qpc'[k] = "enq" /\ element'[k] = task[k]
      /\ UNCHANGED <<head_, commit_, pool_>>
  BY <1>1, QueueTypes DEF Queue!Enqueue, Queue!Call, Queue!Goto, QueueInv, Queue!indexVars
<1>5. WorkersDequeue'
  BY <1>3, <1>4, PoolThreads DEF WorkersDequeue, Alone, Quiet
<1>6. ASSUME NEW v \in Elements PROVE TaskIsOnce(v)'
  <2>1. ASSUME NEW h, NEW x, Has(h, x, v)'
        PROVE  \/ Has(h, x, v) /\ ~(h = "client" /\ x = k)
               \/ h = "thread" /\ x = k /\ task[k] = v
    <3>1. h \in {"client", "ring"} => Has(h, x, v) /\ ~(h = "client" /\ x = k)
      BY <1>1, <1>4, <2>1 DEF Has, Slot, Queue!GetIndex
    <3>2. h = "thread" => Has(h, x, v) \/ (x = k /\ task[k] = v)
      BY <1>3, <1>4, <2>1 DEF Has, Alone, Quiet, Enqueuing
    <3>3. h = "worker" => Has(h, x, v)
      BY <1>1, <1>3, <1>4, <2>1, PoolThreads DEF Has, Alone, Quiet
    <3> QED
      BY <2>1, <3>1, <3>2, <3>3 DEF Has
  <2>2. CASE task[k] = v
    <3>1. Has("client", k, v)
      BY <1>1, <2>2 DEF Has
    <3> QED
      BY <1>1, <2>1, <3>1, TaskMoves
  <2>3. CASE task[k] # v
    BY <1>1, <2>1, <2>3, TasksStay
  <2> QED
    BY <2>2, <2>3
<1> QED
  BY <1>2, <1>3, <1>5, <1>6 DEF PoolMoves

\* A client whose Enqueue() returned, and the destructor where it waits.
LEMMA ClientMoves ==
  ASSUME QueueInv, PoolTypes, WorkersDequeue, \A v \in Elements : TaskIsOnce(v),
         UNCHANGED Queue!setupVars, NEW k \in Clients,
         \/ Queue!SubmitReturn(k)
         \/ Queue!Destroy
         \/ Queue!DestroyJoin
  PROVE  PoolMoves
<1>1. Calm /\ UNCHANGED <<wpc, task, submitted, executed>>
      /\ \A x \in Clients : cpc'[x] = "enqueue" => cpc[x] = "enqueue"
  BY DEF Queue!SubmitReturn, Queue!Destroy, Queue!DestroyJoin, Queue!Client, Calm, queueVars,
    Queue!vars, Queue!indexVars, Queue!setupVars, PoolTypes
<1>2. PoolTypes'
  BY DEF PoolTypes, Queue!SubmitReturn, Queue!Destroy, Queue!DestroyJoin, Queue!Client
<1>3. QueueInv' /\ [Queue!Fifo!Next]_(Queue!Fifo!vars)
  BY <1>1, QueueRests DEF Calm
<1>4. WorkersDequeue'
  BY <1>1 DEF WorkersDequeue, Calm, queueVars
<1>5. ASSUME NEW v \in Elements PROVE TaskIsOnce(v)'
  <2>1. \A h, x : Has(h, x, v)' => Has(h, x, v)
    BY <1>1 DEF Has, Calm, queueVars, Slot, Queue!GetIndex
  <2> QED
    BY <1>1, <2>1, TasksStay
<1> QED
  BY <1>2, <1>3, <1>4, <1>5 DEF PoolMoves

LEMMA DestroyBreakMoves ==
  ASSUME QueueInv, PoolTypes, WorkersDequeue, \A v \in Elements : TaskIsOnce(v),
         UNCHANGED Queue!setupVars, Queue!DestroyBreak
  PROVE  PoolMoves
<1>1. /\ p \in QT /\ p \notin Cs /\ UNCHANGED <<stop_, wpc, task, submitted, executed, pool_size_>>
      /\ Queue!SetBreak(p) /\ \A x \in Clients : cpc'[x] = "enqueue" => cpc[x] = "enqueue"
  BY PoolThreads DEF Queue!DestroyBreak, Queue!Client, PoolTypes, Queue!setupVars
<1>2. PoolTypes'
  BY DEF PoolTypes, Queue!DestroyBreak, Queue!Client
<1>3. QueueInv' /\ Alone(p) /\ [Queue!Fifo!Next]_(Queue!Fifo!vars)
  BY <1>1, StepMoves
<1>4. qpc'[p] = "brk" /\ UNCHANGED <<head_, commit_, pool_>>
  BY <1>1, QueueTypes DEF Queue!SetBreak, Queue!Goto, QueueInv, Queue!indexVars
<1>5. WorkersDequeue'
  BY <1>1, <1>3, PoolThreads DEF WorkersDequeue, Alone, Quiet
<1>6. ASSUME NEW v \in Elements PROVE TaskIsOnce(v)'
  <2>1. ASSUME NEW h, NEW x, Has(h, x, v)' PROVE Has(h, x, v)
    <3>1. h \in {"client", "ring"} => Has(h, x, v)
      BY <1>1, <1>4, <2>1 DEF Has, Slot, Queue!GetIndex
    <3>2. h = "thread" => Has(h, x, v)
      BY <1>3, <1>4, <2>1 DEF Has, Alone, Quiet, Enqueuing
    <3>3. h = "worker" => Has(h, x, v)
      BY <1>1, <1>3, <2>1, PoolThreads DEF Has, Alone, Quiet
    <3> QED
      BY <2>1, <3>1, <3>2, <3>3 DEF Has
  <2> QED
    BY <1>1, <2>1, TasksStay
<1> QED
  BY <1>2, <1>3, <1>5, <1>6 DEF PoolMoves

LEMMA PoolSteps ==
  ASSUME QueueInv, PoolInv, PoolNext, UNCHANGED subject
  PROVE  QueueInv' /\ PoolInv' /\ [Queue!Fifo!Next]_(Queue!Fifo!vars)
<1>1. /\ subject = "pool" /\ PoolTypes /\ WorkersDequeue /\ \A v \in Elements : TaskIsOnce(v)
      /\ Queue!PoolNext /\ UNCHANGED Queue!setupVars
  BY DEF PoolNext, PoolInv, Queue!PoolNext
<1>2. PoolMoves
  BY <1>1, PoolThreads, QueueStepMoves, WorkerCheckMoves, WorkerRunMoves, SubmitMoves,
    SubmitEnqueueMoves, ClientMoves, DestroyBreakMoves
    DEF Queue!PoolNext, Queue!ThreadStep, Elements
<1> QED
  BY <1>1, <1>2 DEF PoolMoves, PoolInv

LEMMA PoolRests ==
  ASSUME PoolInv, UNCHANGED <<poolVars, subject>>,
         subject = "pool" => UNCHANGED queueVars
  PROVE  PoolInv'
<1>1. PoolTypes'
  BY DEF PoolInv, PoolTypes, poolVars
<1>2. ASSUME subject = "pool" PROVE WorkersDequeue' /\ \A v \in Elements : TaskIsOnce(v)'
  <2>1. UNCHANGED <<qpc, ok, out, element, head_, commit_, pool_, pool_size_, cpc, task, wpc,
                    submitted, executed>>
    BY <1>2 DEF queueVars, poolVars
  <2>2. WorkersDequeue'
    BY <1>2, <2>1 DEF PoolInv, WorkersDequeue
  <2>3. ASSUME NEW v \in Elements PROVE TaskIsOnce(v)'
    <3>1. \A h, x : Has(h, x, v)' => Has(h, x, v)
      BY <2>1 DEF Has, Slot, Queue!GetIndex
    <3> QED
      BY <1>2, <2>1, <3>1, TasksStay DEF PoolInv
  <2> QED
    BY <2>2, <2>3
<1> QED
  BY <1>1, <1>2 DEF PoolInv, poolVars

LEMMA PoolStart ==
  ASSUME Queue!PoolInit
  PROVE  QueueInv /\ PoolInv
<1>1. QueueInv
  BY QueueStart DEF Queue!PoolInit
<1>2. PoolTypes
  BY DEF Queue!PoolInit, Queue!WorkersInit, PoolTypes, Elements
<1>3. /\ submitted = {} /\ \A v \in Elements : executed[v] = 0
      /\ \A k \in Clients : cpc[k] = "idle"
      /\ \A w \in Cs : wpc[w] = "check"
      /\ \A t \in QT : qpc[t] = "idle"
      /\ head_ = 0 /\ commit_ = 1
  BY DEF Queue!PoolInit, Queue!WorkersInit, Queue!Init, Elements, QT
<1>4. \A v, h, x : ~Has(h, x, v)
  BY <1>3 DEF Has, Enqueuing
<1>5. WorkersDequeue
  BY <1>3, PoolThreads DEF WorkersDequeue
<1> QED
  BY <1>1, <1>2, <1>3, <1>4, <1>5 DEF PoolInv, TaskIsOnce

LEMMA QueuesSound ==
  ASSUME QueueInv, PoolInv
  PROVE  QueuesAreSound
<1>1. Queue!PoolTypeOK
  BY DEF QueueInv, PoolInv, PoolTypes, Queue!PoolTypeOK, Elements
<1>2. Queue!TasksRunOnce
  BY DEF PoolInv, PoolTypes, TaskIsOnce, Queue!TasksRunOnce, Elements
<1> QED
  BY <1>1, <1>2 DEF QueueInv, QueuesAreSound

-----------------------------------------------------------------------------
(* ThreadSafeQueue.  Whoever has evaluated the predicate still holds       *)
(* mutex_, so that nothing has been queued since.                          *)

\* The instances have the Cardinality of FiniteSets.
LEMMA UnboundedCardinality == \A S : Unbounded!Cardinality(S) = Cardinality(S)
BY DEF Unbounded!Cardinality, Cardinality
LEMMA ReentrantCardinality == \A S : Reentrant!Cardinality(S) = Cardinality(S)
BY DEF Reentrant!Cardinality, Cardinality
LEMMA ContainersCardinality == \A S : Containers!Cardinality(S) = Cardinality(S)
BY DEF Containers!Cardinality, Cardinality

Awake == {w \in Threads : waiter[w] = "awake"}

SleepInv ==
  /\ queued \in Nat /\ broken \in {"no", "set", "notified"} /\ missed \subseteq Threads
  /\ waiter \in [Threads -> {"out", "checked", "asleep", "awake"}]
  /\ (\E w \in Threads : waiter[w] = "checked") => queued = 0
  /\ broken = "no" /\ Unbounded!Sleepers # {} => queued <= Cardinality(Awake)
  /\ broken = "notified" => Unbounded!Sleepers \subseteq missed

LEMMA AwakeFinite == IsFiniteSet(Awake) /\ Cardinality(Awake) \in Nat
BY LockAssumption, FS_Subset, FS_CardinalityType DEF Awake

LEMMA OneMoreAwake ==
  ASSUME NEW w \in Threads, w \notin Awake, Awake' = Awake \union {w}
  PROVE  Cardinality(Awake') = Cardinality(Awake) + 1
BY AwakeFinite, FS_AddElement

LEMMA OneLessAwake ==
  ASSUME NEW w \in Threads, w \in Awake, Awake' = Awake \ {w}
  PROVE  Cardinality(Awake') = Cardinality(Awake) - 1
BY AwakeFinite, FS_RemoveElement

LEMMA SleepStep ==
  ASSUME SleepInv, Unbounded!ThreadSafeQueueNext
  PROVE  SleepInv'
<1> USE DEF Unbounded!MutexFree, Unbounded!Sleepers
<1>0. Awake' \subseteq Threads /\ IsFiniteSet(Awake') /\ Cardinality(Awake') \in Nat
      /\ IsFiniteSet(Awake) /\ Cardinality(Awake) \in Nat
  BY AwakeFinite, LockAssumption, FS_Subset, FS_CardinalityType DEF Awake
<1>1. CASE Unbounded!Enqueue
  <2>1. CASE Unbounded!Sleepers = {}
    BY <1>1, <2>1 DEF SleepInv, Unbounded!Enqueue, Awake
  <2>2. CASE Unbounded!Sleepers # {}
    <3>1. PICK w \in Unbounded!Sleepers : waiter' = [waiter EXCEPT ![w] = "awake"]
      BY <1>1, <2>2 DEF Unbounded!Enqueue
    <3>2. w \in Threads /\ w \notin Awake /\ Awake' = Awake \union {w}
      BY <3>1 DEF SleepInv, Awake
    <3>3. Cardinality(Awake') = Cardinality(Awake) + 1
      BY <3>2, OneMoreAwake
    <3>4. Unbounded!Sleepers' \subseteq Unbounded!Sleepers
      BY <3>1 DEF SleepInv
    <3> QED
      BY <1>0, <1>1, <2>2, <3>1, <3>2, <3>3, <3>4 DEF SleepInv, Unbounded!Enqueue
  <2> QED
    BY <2>1, <2>2
<1>2. CASE Unbounded!Dequeue
  BY <1>0, <1>2 DEF SleepInv, Unbounded!Dequeue, Awake
<1>3. CASE Unbounded!BreakAllWait
  BY <1>0, <1>3 DEF SleepInv, Unbounded!BreakAllWait, Awake
<1>4. ASSUME NEW w \in Threads, Unbounded!WaitDequeue(w)
      PROVE  SleepInv'
  <2>1. /\ waiter' \in [Threads -> {"out", "checked", "asleep", "awake"}]
        /\ waiter'[w] \in {"out", "checked"}
        /\ waiter[w] \in {"out", "awake"}
        /\ \A u \in Threads : u # w => waiter'[u] = waiter[u]
    BY <1>4 DEF SleepInv, Unbounded!WaitDequeue
  <2>2. Unbounded!Sleepers' = Unbounded!Sleepers /\ w \notin Unbounded!Sleepers
    BY <2>1
  <2>3. queued' \in Nat /\ (waiter'[w] = "checked" => queued' = 0)
        /\ (broken = "no" => queued' = 0 \/ queued' = queued - 1)
        /\ UNCHANGED broken /\ missed' = missed \ {w} /\ Unbounded!MutexFree
    BY <1>4 DEF SleepInv, Unbounded!WaitDequeue
  <2>4. broken = "no" /\ Unbounded!Sleepers # {} => queued' <= Cardinality(Awake')
    <3>1. CASE w \in Awake
      <4>1. Awake' = Awake \ {w}
        BY <2>1 DEF Awake
      <4>2. Cardinality(Awake') = Cardinality(Awake) - 1
        BY <3>1, <4>1, OneLessAwake
      <4> QED
        BY <1>0, <2>3, <4>2 DEF SleepInv
    <3>2. CASE w \notin Awake
      <4>1. Awake' = Awake
        BY <2>1, <3>2 DEF Awake
      <4> QED
        BY <1>0, <2>3, <4>1 DEF SleepInv
    <3> QED
      BY <3>1, <3>2
  <2> QED
    BY <2>1, <2>2, <2>3, <2>4 DEF SleepInv
<1>5. ASSUME NEW w \in Threads, Unbounded!Sleep(w)
      PROVE  SleepInv'
  <2>1. queued = 0 /\ UNCHANGED <<queued, broken>>
        /\ waiter' = [waiter EXCEPT ![w] = "asleep"]
        /\ missed' = IF broken = "notified" THEN missed \union {w} ELSE missed
    BY <1>5 DEF SleepInv, Unbounded!Sleep
  <2>2. Unbounded!Sleepers' = Unbounded!Sleepers \union {w}
    BY <2>1 DEF SleepInv
  <2> QED
    BY <1>0, <2>1, <2>2 DEF SleepInv
<1>6. ASSUME NEW w \in Threads, Unbounded!WakeUp(w)
      PROVE  SleepInv'
  <2>1. /\ waiter[w] = "asleep" /\ waiter' = [waiter EXCEPT ![w] = "awake"]
        /\ missed' = missed \ {w} /\ UNCHANGED <<queued, broken>>
    BY <1>6 DEF Unbounded!WakeUp
  <2>2. w \notin Awake /\ Awake' = Awake \union {w}
        /\ Unbounded!Sleepers' = Unbounded!Sleepers \ {w}
    BY <2>1 DEF SleepInv, Awake
  <2>3. Cardinality(Awake') = Cardinality(Awake) + 1
    BY <2>2, OneMoreAwake
  <2> QED
    BY <1>0, <2>1, <2>2, <2>3 DEF SleepInv
<1> QED
  BY <1>1, <1>2, <1>3, <1>4, <1>5, <1>6 DEF Unbounded!ThreadSafeQueueNext

LEMMA SleepStart == Unbounded!ThreadSafeQueueInit => SleepInv
BY DEF Unbounded!ThreadSafeQueueInit, SleepInv, Unbounded!Sleepers

LEMMA SleepSafe == SleepInv => Unbounded!SleepersAreWoken
<1>1. Awake = {w \in Threads : waiter[w] = "awake"}
  BY DEF Awake
<1> QED
  BY <1>1, UnboundedCardinality DEF SleepInv, Unbounded!SleepersAreWoken

-----------------------------------------------------------------------------
(* UnboundedQueue.  The two references of a node are given up by the       *)
(* Enqueue() that got it from tail_ and by the Dequeue() that moved head_  *)
(* past it: refs counts those that have yet to do so, and whoever gives up *)
(* the last one is on its way to delete the node.                          *)

Nodes == Unbounded!Nodes
Linkers == Ps \union Cs

\* A thread is idle, or has the locals of the operation it is in.
Shape(t) ==
  \/ worker[t] = Unbounded!Idle
  \/ t \in Ps /\ worker[t] \in [pc : {"link", "release", "test", "count"}, old : Nodes]
  \/ t \in Cs /\ worker[t] \in [pc : {"next"}, old : Nodes]
  \/ t \in Cs /\ worker[t] \in [pc : {"swap", "uncount", "release", "test"}, old : Nodes,
                                next : Nodes]

LinkTypes ==
  /\ links \in [next : [Nodes -> Nat], refs : [Nodes -> Int], head_ : Nat, tail_ : Nat, size_ : Int]
  /\ worker = [t \in Linkers |-> worker[t]]
  /\ \A t \in Linkers : Shape(t)
  /\ links.head_ <= links.tail_ /\ links.tail_ <= MaxNodes

EnqueuerHolds(n) ==
  n >= links.tail_ \/ \E t \in Ps : worker[t].pc \in {"link", "release"} /\ worker[t].old = n
DequeuerHolds(n) ==
  n >= links.head_ \/ \E t \in Cs : worker[t].pc \in {"uncount", "release"} /\ worker[t].old = n
Linking(n) == \E t \in Ps : worker[t].pc = "link" /\ worker[t].old = n

EnqueuersKnow ==
  /\ \A t \in Ps : worker[t].pc # "idle" => worker[t].old < links.tail_
  /\ \A t, u \in Ps : t # u /\ worker[t].pc # "idle" /\ worker[u].pc # "idle" =>
       worker[t].old # worker[u].old

Past == {"uncount", "release", "test"}
DequeuersKnow ==
  /\ \A t \in Cs : worker[t].pc \in {"next", "swap"} => worker[t].old <= links.head_
  /\ \A t \in Cs : worker[t].pc = "swap" =>
       /\ worker[t].next = worker[t].old + 1
       /\ links.next[worker[t].old] = worker[t].old + 1
  /\ \A t \in Cs : worker[t].pc \in Past => worker[t].old < links.head_
  /\ \A t, u \in Cs : t # u /\ worker[t].pc \in Past /\ worker[u].pc \in Past =>
       worker[t].old # worker[u].old

Counting == {t \in Ps : worker[t].pc # "idle"}
Uncounting == {t \in Cs : worker[t].pc = "uncount"}

NextsKnown ==
  \A n \in Nodes : links.next[n] = IF n < links.tail_ /\ ~Linking(n) THEN n + 1 ELSE Unbounded!Null

RefsKnown ==
  \A n \in Nodes :
    links.refs[n] = (IF EnqueuerHolds(n) THEN 1 ELSE 0) + (IF DequeuerHolds(n) THEN 1 ELSE 0)

DeletesKnown ==
  /\ deleted \subseteq Nodes /\ \A n \in deleted : links.refs[n] = 0
  /\ \A n \in Nodes : links.refs[n] = 0 =>
       n \in deleted \/ \E t \in Linkers : worker[t].pc = "test" /\ worker[t].old = n

SizeKnown ==
  links.size_ = links.tail_ - links.head_ - Cardinality(Counting) + Cardinality(Uncounting)

FifoInv ==
  /\ LinkTypes /\ EnqueuersKnow /\ DequeuersKnow
  /\ NextsKnown /\ RefsKnown /\ DeletesKnown /\ SizeKnown
  /\ taken = [i \in 1 .. links.head_ |-> i]

LEMMA LinkNodes ==
  /\ MaxNodes \in Nat /\ Nodes = 0 .. MaxNodes /\ Unbounded!Null = MaxNodes + 1
  /\ Ps \intersect Cs = {} /\ IsFiniteSet(Ps) /\ IsFiniteSet(Cs)
BY BaseAssumption DEF Nodes, Unbounded!Nodes, Unbounded!Null

\* A thread changes its place; the rest of its locals and the others stay.
LEMMA LinkerStep ==
  ASSUME LinkTypes, NEW t \in Linkers, worker[t].pc # "idle", NEW q, Unbounded!Step(t, q)
  PROVE  /\ worker' = [u \in Linkers |-> worker'[u]]
         /\ worker'[t].pc = q /\ worker'[t].old = worker[t].old
         /\ \A u \in Linkers : u # t => worker'[u] = worker[u]
         /\ worker'[t] = [worker[t] EXCEPT !.pc = q]
<1>1. Shape(t) /\ worker[t] # Unbounded!Idle
  BY DEF LinkTypes, Unbounded!Idle
<1>2. worker' = [u \in Linkers |-> IF u = t THEN [worker[t] EXCEPT !.pc = q] ELSE worker[u]]
  BY DEF LinkTypes, Unbounded!Step
<1>3. "pc" \in DOMAIN worker[t] /\ "old" \in DOMAIN worker[t]
  BY <1>1 DEF Shape
<1> QED
  BY <1>2, <1>3

LEMMA CountsFinite ==
  /\ IsFiniteSet(Counting) /\ Cardinality(Counting) \in Nat
  /\ IsFiniteSet(Uncounting) /\ Cardinality(Uncounting) \in Nat
BY LinkNodes, FS_Subset, FS_CardinalityType DEF Counting, Uncounting

\* What tells whether the parts of the invariant are disturbed.
LEMMA FifoStart == Unbounded!UnboundedInit => FifoInv
<1> SUFFICES ASSUME Unbounded!UnboundedInit PROVE FifoInv
  OBVIOUS
<1>1. /\ links = [next |-> [n \in Nodes |-> Unbounded!Null], refs |-> [n \in Nodes |-> 2],
                  head_ |-> 0, tail_ |-> 0, size_ |-> 0]
      /\ deleted = {} /\ taken = << >>
      /\ worker = [t \in Linkers |-> Unbounded!Idle]
  BY DEF Unbounded!UnboundedInit, Nodes, Linkers, Unbounded!Workers
<1>2. \A t \in Linkers : worker[t] = Unbounded!Idle /\ worker[t].pc = "idle"
  BY <1>1 DEF Unbounded!Idle
<1>3. links.head_ = 0 /\ links.tail_ = 0 /\ links.size_ = 0
      /\ links.next = [n \in Nodes |-> Unbounded!Null] /\ links.refs = [n \in Nodes |-> 2]
  BY <1>1
<1>4. LinkTypes
  BY <1>1, <1>2, <1>3, LinkNodes DEF LinkTypes, Shape
<1>5. EnqueuersKnow /\ DequeuersKnow
  BY <1>2 DEF EnqueuersKnow, DequeuersKnow, Linkers, Past
<1>6. NextsKnown /\ RefsKnown
  BY <1>3, LinkNodes DEF NextsKnown, RefsKnown, EnqueuerHolds, DequeuerHolds
<1>7. DeletesKnown
  BY <1>1, <1>3 DEF DeletesKnown
<1>8. Counting = {} /\ Uncounting = {}
  BY <1>2 DEF Counting, Uncounting, Linkers
<1>9. SizeKnown
  BY <1>3, <1>8, FS_EmptySet DEF SizeKnown
<1>10. taken = [i \in 1 .. links.head_ |-> i]
  BY <1>1, <1>3
<1> QED
  BY <1>4, <1>5, <1>6, <1>7, <1>9, <1>10 DEF FifoInv

LEMMA FifoSafe == FifoInv => Unbounded!UnboundedIsFifo
<1> SUFFICES ASSUME FifoInv PROVE Unbounded!UnboundedIsFifo
  OBVIOUS
<1>0. links.head_ \in Nat /\ links.tail_ \in Nat /\ links.head_ <= links.tail_
      /\ links.tail_ <= MaxNodes
  BY DEF FifoInv, LinkTypes
<1>1. ASSUME NEW n \in deleted PROVE n < links.head_
  <2>1. n \in Nodes /\ links.refs[n] = 0
    BY <1>1 DEF FifoInv, DeletesKnown
  <2>2. ~DequeuerHolds(n)
    BY <2>1 DEF FifoInv, RefsKnown
  <2> QED
    BY <1>0, <2>1, <2>2, LinkNodes DEF DequeuerHolds
<1>2. ASSUME \A t \in Linkers : worker[t] = Unbounded!Idle
      PROVE  deleted = 0 .. (links.head_ - 1) /\ links.size_ = links.tail_ - links.head_
  <2>1. \A t \in Linkers : worker[t].pc = "idle"
    BY <1>2 DEF Unbounded!Idle
  <2>2. Counting = {} /\ Uncounting = {}
    BY <2>1 DEF Counting, Uncounting, Linkers
  <2>3. links.size_ = links.tail_ - links.head_
    BY <1>0, <2>2, FS_EmptySet DEF FifoInv, SizeKnown
  <2>4. ASSUME NEW n \in 0 .. (links.head_ - 1) PROVE n \in deleted
    <3>1. n \in Nodes /\ n < links.tail_ /\ n < links.head_ /\ n \in Nat
      BY <1>0, LinkNodes
    <3>2. ~EnqueuerHolds(n) /\ ~DequeuerHolds(n)
      BY <1>0, <2>1, <3>1 DEF EnqueuerHolds, DequeuerHolds, Linkers
    <3>3. links.refs[n] = 0
      BY <3>1, <3>2 DEF FifoInv, RefsKnown
    <3> QED
      BY <2>1, <3>1, <3>3 DEF FifoInv, DeletesKnown
  <2>5. \A n \in deleted : n \in 0 .. (links.head_ - 1)
    BY <1>0, <1>1, LinkNodes DEF FifoInv, DeletesKnown
  <2> QED
    BY <2>3, <2>4, <2>5
<1> QED
  BY <1>1, <1>2 DEF FifoInv, Unbounded!UnboundedIsFifo, Linkers, Unbounded!Workers

\* The invariant from its parts.
LEMMA FifoParts ==
  ASSUME LinkTypes', EnqueuersKnow', DequeuersKnow', NextsKnown', RefsKnown', DeletesKnown',
         SizeKnown', taken' = [i \in 1 .. links'.head_ |-> i]
  PROVE  FifoInv'
BY DEF FifoInv

LEMMA TypesParts ==
  ASSUME links' \in [next : [Nodes -> Nat], refs : [Nodes -> Int], head_ : Nat, tail_ : Nat,
                    size_ : Int],
         worker' = [u \in Linkers |-> worker'[u]],
         \A u \in Linkers : Shape(u)',
         links'.head_ <= links'.tail_, links'.tail_ <= MaxNodes
  PROVE  LinkTypes'
BY DEF LinkTypes

\* The node of an operation.
LEMMA NodeOf ==
  ASSUME LinkTypes, NEW t \in Linkers, worker[t].pc # "idle"
  PROVE  worker[t].old \in Nodes /\ (worker[t].pc = "swap" => worker[t].next \in Nodes)
BY DEF LinkTypes, Shape, Unbounded!Idle

LEMMA SwapTailStep ==
  ASSUME FifoInv, NEW t \in Ps, Unbounded!SwapTail(t)
  PROVE  FifoInv'
<1>0. LinkTypes
  BY DEF FifoInv
<1>1. /\ t \in Linkers /\ t \notin Cs /\ worker[t].pc = "idle" /\ links.tail_ < MaxNodes
      /\ worker' = [worker EXCEPT ![t] = [pc |-> "link", old |-> links.tail_]]
      /\ links' = [links EXCEPT !.tail_ = links.tail_ + 1]
      /\ UNCHANGED <<deleted, taken>>
  BY LinkNodes DEF Unbounded!SwapTail, Unbounded!At, Linkers
<1>a. /\ links'.tail_ = links.tail_ + 1
      /\ links'.head_ = links.head_ /\ links'.next = links.next /\ links'.refs = links.refs
      /\ links'.size_ = links.size_
  BY <1>0, <1>1 DEF LinkTypes
<1>b. links' \in [next : [Nodes -> Nat], refs : [Nodes -> Int], head_ : Nat, tail_ : Nat,
                 size_ : Int]
  BY <1>0, <1>1 DEF LinkTypes
<1>c. /\ links.tail_ \in Nodes /\ links.tail_ \in Nat /\ links.head_ \in Nat
      /\ links.head_ <= links.tail_ /\ links.size_ \in Int
  BY <1>0, <1>1, LinkNodes DEF LinkTypes
<1>d. links'.head_ <= links'.tail_ /\ links'.tail_ <= MaxNodes
  BY <1>1, <1>a, <1>c, LinkNodes
<1>2. /\ links'.tail_ = links.tail_ + 1
      /\ links'.head_ = links.head_ /\ links'.next = links.next /\ links'.refs = links.refs
      /\ links'.size_ = links.size_
      /\ links.tail_ \in Nodes /\ links.tail_ \in Nat /\ links.head_ \in Nat
      /\ links.head_ <= links.tail_ /\ links.size_ \in Int
  BY <1>a, <1>c
<1>3. /\ worker' = [u \in Linkers |-> worker'[u]]
      /\ worker'[t] = [pc |-> "link", old |-> links.tail_]
      /\ worker'[t].pc = "link" /\ worker'[t].old = links.tail_
      /\ \A u \in Linkers : u # t => worker'[u] = worker[u]
  BY <1>0, <1>1 DEF LinkTypes
<1>4. LinkTypes'
  <2>1. \A u \in Linkers : Shape(u)'
    <3> TAKE u \in Linkers
    <3>1. CASE u = t
      BY <1>2, <1>3, <3>1 DEF Shape
    <3>2. CASE u # t
      BY <1>0, <1>3, <3>2 DEF LinkTypes, Shape
    <3> QED
      BY <3>1, <3>2
  <2> QED
    BY <1>b, <1>c, <1>d, <1>2, <1>3, <2>1, TypesParts
<1>5. EnqueuersKnow'
  <2>1. \A u \in Ps : u # t /\ worker[u].pc # "idle" => worker[u].old \in Nat
    BY <1>0, NodeOf, LinkNodes DEF Linkers
  <2> QED
    BY <1>2, <1>3, <2>1 DEF FifoInv, EnqueuersKnow, Linkers
<1>6. DequeuersKnow'
  BY <1>1, <1>2, <1>3 DEF FifoInv, DequeuersKnow, Linkers, Past
<1>7. NextsKnown'
  <2> SUFFICES ASSUME NEW n \in Nodes
               PROVE  links.next[n] = IF n < links.tail_ + 1 /\ ~Linking(n)' THEN n + 1
                                      ELSE Unbounded!Null
    BY <1>2, LinkNodes DEF NextsKnown, Unbounded!Null
  <2>1. Linking(n)' <=> Linking(n) \/ n = links.tail_
    BY <1>1, <1>3 DEF Linking, Linkers
  <2> QED
    BY <1>2, <2>1, LinkNodes DEF FifoInv, NextsKnown
<1>8. \A n \in Nodes : (EnqueuerHolds(n)' <=> EnqueuerHolds(n)) /\ (DequeuerHolds(n)' <=> DequeuerHolds(n))
  <2> TAKE n \in Nodes
  <2>1. DequeuerHolds(n)' <=> DequeuerHolds(n)
    BY <1>1, <1>2, <1>3 DEF DequeuerHolds, Linkers
  <2>2. EnqueuerHolds(n)' <=> EnqueuerHolds(n)
    BY <1>1, <1>2, <1>3, LinkNodes DEF EnqueuerHolds, Linkers
  <2> QED
    BY <2>1, <2>2
<1>9. RefsKnown' /\ DeletesKnown'
  <2>1. RefsKnown'
    BY <1>2, <1>8 DEF FifoInv, RefsKnown
  <2>2. \A u \in Linkers : worker[u].pc = "test" => worker'[u] = worker[u]
    BY <1>1, <1>3
  <2>3. DeletesKnown'
    <3>1. DeletesKnown /\ UNCHANGED deleted
      BY <1>1 DEF FifoInv
    <3> QED
      BY <1>2, <2>2, <3>1 DEF DeletesKnown
  <2> QED
    BY <2>1, <2>3
<1>10. SizeKnown'
  <2>1. Counting' = Counting \union {t} /\ t \notin Counting
    BY <1>1, <1>3 DEF Counting, Linkers
  <2>2. Uncounting' = Uncounting
    BY <1>1, <1>3 DEF Uncounting, Linkers
  <2>3. Cardinality(Counting') = Cardinality(Counting) + 1
    BY <2>1, CountsFinite, FS_AddElement
  <2> QED
    BY <1>2, <2>2, <2>3, CountsFinite, SMTT(40) DEF FifoInv, SizeKnown
<1>11. taken' = [i \in 1 .. links'.head_ |-> i]
  BY <1>1, <1>2 DEF FifoInv
<1> QED
  BY <1>4, <1>5, <1>6, <1>7, <1>9, <1>10, <1>11, FifoParts

\* The shapes after a step of an operation under way.
LEMMA ShapesAfter ==
  ASSUME LinkTypes, NEW t \in Linkers, worker[t].pc # "idle", NEW q, Unbounded!Step(t, q),
         \/ t \in Ps /\ q \in {"link", "release", "test", "count"}
         \/ t \in Cs /\ q \in {"swap", "uncount", "release", "test"}
              /\ worker[t].pc \in {"swap", "uncount", "release", "test"}
  PROVE  \A u \in Linkers : Shape(u)'
<1> TAKE u \in Linkers
<1>1. Shape(u) /\ Shape(t)
  BY DEF LinkTypes
<1>2. CASE u = t
  <2>1. worker'[t] = [worker[t] EXCEPT !.pc = q] /\ worker[t] # Unbounded!Idle
    BY LinkerStep DEF Unbounded!Idle
  <2>2. CASE t \in Ps
    <3>1. worker[t] \in [pc : {"link", "release", "test", "count"}, old : Nodes]
      BY <1>1, <2>1, <2>2, LinkNodes DEF Shape
    <3>2. worker'[t] \in [pc : {"link", "release", "test", "count"}, old : Nodes]
      BY <2>1, <2>2, <3>1, LinkNodes
    <3> QED
      BY <1>2, <2>2, <3>2 DEF Shape
  <2>3. CASE t \in Cs
    <3>1. worker[t] \in [pc : {"swap", "uncount", "release", "test"}, old : Nodes, next : Nodes]
      BY <1>1, <2>1, <2>3, LinkNodes DEF Shape
    <3>2. worker'[t] \in [pc : {"swap", "uncount", "release", "test"}, old : Nodes, next : Nodes]
      BY <2>1, <2>3, <3>1, LinkNodes
    <3> QED
      BY <1>2, <2>3, <3>2 DEF Shape
  <2> QED
    BY <2>2, <2>3 DEF Linkers
<1>3. CASE u # t
  BY <1>1, <1>3, LinkerStep DEF Shape
<1> QED
  BY <1>2, <1>3

LEMMA LinkStep ==
  ASSUME FifoInv, NEW t \in Ps, Unbounded!Link(t)
  PROVE  FifoInv'
<1> DEFINE n0 == worker[t].old
<1>0. LinkTypes /\ t \in Linkers /\ t \notin Cs /\ worker[t].pc = "link" /\ n0 \in Nodes /\ n0 \in Nat
      /\ Unbounded!Step(t, "release")
  BY NodeOf, LinkNodes DEF FifoInv, Unbounded!Link, Unbounded!At, Linkers
<1>1. links' = [links EXCEPT !.next[n0] = n0 + 1] /\ UNCHANGED <<deleted, taken>>
  BY DEF Unbounded!Link
<1>2. /\ links'.next = [links.next EXCEPT ![n0] = n0 + 1] /\ links'.refs = links.refs
      /\ links'.tail_ = links.tail_ /\ links'.head_ = links.head_ /\ links'.size_ = links.size_
  BY <1>0, <1>1 DEF LinkTypes
<1>3. links' \in [next : [Nodes -> Nat], refs : [Nodes -> Int], head_ : Nat, tail_ : Nat,
                  size_ : Int]
  BY <1>0, <1>1 DEF LinkTypes
<1>4. /\ worker' = [u \in Linkers |-> worker'[u]]
      /\ worker'[t].pc = "release" /\ worker'[t].old = n0
      /\ \A u \in Linkers : u # t => worker'[u] = worker[u]
  BY <1>0, LinkerStep
<1>5. LinkTypes'
  <2>1. \A u \in Linkers : Shape(u)'
    BY <1>0, ShapesAfter
  <2> QED
    BY <1>0, <1>2, <1>3, <1>4, <2>1, TypesParts DEF LinkTypes
<1>6. EnqueuersKnow'
  BY <1>0, <1>2, <1>4 DEF FifoInv, EnqueuersKnow, Linkers
<1>7. DequeuersKnow'
  <2>1. \A u \in Cs : worker[u].pc = "swap" => worker[u].old \in Nodes
    BY <1>0, NodeOf DEF Linkers
  <2>2. \A u \in Cs : worker[u].pc = "swap" => links'.next[worker[u].old] = worker[u].old + 1
    BY <1>0, <1>2, <2>1 DEF FifoInv, DequeuersKnow, LinkTypes
  <2> QED
    BY <1>0, <1>2, <1>4, <2>2 DEF FifoInv, DequeuersKnow, Linkers, Past
<1>8. NextsKnown'
  <2> SUFFICES ASSUME NEW n \in Nodes
               PROVE  links'.next[n] = IF n < links.tail_ /\ ~Linking(n)' THEN n + 1
                                       ELSE Unbounded!Null
    BY <1>2, LinkNodes DEF NextsKnown, Unbounded!Null
  <2>1. Linking(n)' <=> Linking(n) /\ n # n0
    BY <1>0, <1>4 DEF Linking, Linkers, FifoInv, EnqueuersKnow
  <2>2. n0 < links.tail_
    BY <1>0 DEF FifoInv, EnqueuersKnow
  <2> QED
    BY <1>0, <1>2, <2>1, <2>2 DEF FifoInv, NextsKnown, LinkTypes
<1>9. RefsKnown'
  <2>1. \A n : (EnqueuerHolds(n)' <=> EnqueuerHolds(n)) /\ (DequeuerHolds(n)' <=> DequeuerHolds(n))
    BY <1>0, <1>2, <1>4 DEF EnqueuerHolds, DequeuerHolds, Linkers
  <2> QED
    BY <1>2, <2>1 DEF FifoInv, RefsKnown
<1>10. DeletesKnown'
  <2>1. DeletesKnown /\ UNCHANGED deleted
    BY <1>1 DEF FifoInv
  <2> QED
    BY <1>0, <1>2, <1>4, <2>1 DEF DeletesKnown
<1>11. SizeKnown'
  <2>1. Counting' = Counting /\ Uncounting' = Uncounting
    BY <1>0, <1>4 DEF Counting, Uncounting, Linkers
  <2> QED
    BY <1>2, <2>1 DEF FifoInv, SizeKnown
<1>12. taken' = [i \in 1 .. links'.head_ |-> i]
  BY <1>1, <1>2 DEF FifoInv
<1> QED
  BY <1>5, <1>6, <1>7, <1>8, <1>9, <1>10, <1>11, <1>12, FifoParts

LEMMA ReleaseStep ==
  ASSUME FifoInv, NEW t \in Linkers, Unbounded!Release(t)
  PROVE  FifoInv'
<1>a. worker[t].old \in Nodes
  BY NodeOf DEF FifoInv, Unbounded!Release, Unbounded!At
<1>b. PICK n0 \in Nodes : worker[t].old = n0
  BY <1>a
<1>0. LinkTypes /\ worker[t].pc = "release" /\ worker[t].old = n0 /\ n0 \in Nodes /\ n0 \in Nat
      /\ Unbounded!Step(t, "test")
  BY <1>b, LinkNodes DEF FifoInv, Unbounded!Release, Unbounded!At
<1>1. links' = [links EXCEPT !.refs[n0] = @ - 1] /\ UNCHANGED <<deleted, taken>>
  BY <1>b DEF Unbounded!Release
<1>2. /\ links'.refs = [links.refs EXCEPT ![n0] = @ - 1] /\ links'.next = links.next
      /\ links'.tail_ = links.tail_ /\ links'.head_ = links.head_ /\ links'.size_ = links.size_
  BY <1>0, <1>1 DEF LinkTypes
<1>3. links' \in [next : [Nodes -> Nat], refs : [Nodes -> Int], head_ : Nat, tail_ : Nat,
                  size_ : Int]
  BY <1>0, <1>1 DEF LinkTypes
<1>4. /\ worker' = [u \in Linkers |-> worker'[u]]
      /\ worker'[t].pc = "test" /\ worker'[t].old = n0
      /\ \A u \in Linkers : u # t => worker'[u] = worker[u]
  BY <1>0, LinkerStep
<1>5. LinkTypes'
  <2>1. \A u \in Linkers : Shape(u)'
    BY <1>0, ShapesAfter DEF Linkers
  <2> QED
    BY <1>0, <1>2, <1>3, <1>4, <2>1, TypesParts DEF LinkTypes
<1>6. EnqueuersKnow'
  BY <1>0, <1>2, <1>4 DEF FifoInv, EnqueuersKnow, Linkers
<1>7. DequeuersKnow'
  BY <1>0, <1>2, <1>4 DEF FifoInv, DequeuersKnow, Linkers, Past
<1>8. NextsKnown'
  <2>1. \A n : Linking(n)' <=> Linking(n)
    BY <1>0, <1>4 DEF Linking, Linkers
  <2> QED
    BY <1>2, <2>1 DEF FifoInv, NextsKnown
<1>9. RefsKnown' /\ links.refs[n0] \in {1, 2}
  <2>1. links.tail_ \in Nat /\ links.head_ \in Nat
    BY <1>0 DEF LinkTypes
  <2>2. CASE t \in Ps
    <3>1. t \notin Cs
      BY <2>2, LinkNodes
    <3>2. EnqueuerHolds(n0) /\ ~EnqueuerHolds(n0)'
      <4>1. n0 < links.tail_
        BY <1>0, <2>2 DEF FifoInv, EnqueuersKnow
      <4>2. \A u \in Ps : u # t /\ worker'[u].pc \in {"link", "release"} => worker'[u].old # n0
        BY <1>0, <1>4, <2>2 DEF FifoInv, EnqueuersKnow, Linkers
      <4> QED
        BY <1>0, <1>2, <1>4, <2>1, <2>2, <4>1, <4>2 DEF EnqueuerHolds
    <3>3. \A n \in Nodes : n # n0 => (EnqueuerHolds(n)' <=> EnqueuerHolds(n))
      BY <1>0, <1>2, <1>4, <2>2 DEF EnqueuerHolds, Linkers
    <3>4. \A n \in Nodes : DequeuerHolds(n)' <=> DequeuerHolds(n)
      BY <1>0, <1>2, <1>4, <3>1 DEF DequeuerHolds, Linkers
    <3>5. links.refs \in [Nodes -> Int] /\ RefsKnown
      BY <1>0 DEF FifoInv, LinkTypes
    <3>6. \A n \in Nodes : links'.refs[n] = IF n = n0 THEN links.refs[n] - 1 ELSE links.refs[n]
      BY <1>2, <3>5
    <3>7. links.refs[n0] \in {1, 2}
      BY <1>0, <3>2, <3>5 DEF RefsKnown
    <3>8. ASSUME NEW n \in Nodes
          PROVE  links'.refs[n] = (IF EnqueuerHolds(n)' THEN 1 ELSE 0)
                                    + (IF DequeuerHolds(n)' THEN 1 ELSE 0)
      <4>1. links.refs[n] = (IF EnqueuerHolds(n) THEN 1 ELSE 0)
                              + (IF DequeuerHolds(n) THEN 1 ELSE 0)
        BY <3>5 DEF RefsKnown
      <4>2. CASE n = n0
        BY <3>2, <3>4, <3>6, <4>1, <4>2
      <4>3. CASE n # n0
        BY <3>3, <3>4, <3>6, <4>1, <4>3
      <4> QED
        BY <4>2, <4>3
    <3> QED
      BY <3>7, <3>8 DEF RefsKnown
  <2>3. CASE t \in Cs
    <3>1. t \notin Ps
      BY <2>3, LinkNodes
    <3>2. DequeuerHolds(n0) /\ ~DequeuerHolds(n0)'
      <4>1. n0 < links.head_
        BY <1>0, <2>3 DEF FifoInv, DequeuersKnow, Past
      <4>2. \A u \in Cs : u # t /\ worker'[u].pc \in {"uncount", "release"} => worker'[u].old # n0
        BY <1>0, <1>4, <2>3 DEF FifoInv, DequeuersKnow, Linkers, Past
      <4> QED
        BY <1>0, <1>2, <1>4, <2>1, <2>3, <4>1, <4>2 DEF DequeuerHolds
    <3>3. \A n \in Nodes : n # n0 => (DequeuerHolds(n)' <=> DequeuerHolds(n))
      BY <1>0, <1>2, <1>4, <2>3 DEF DequeuerHolds, Linkers
    <3>4. \A n \in Nodes : EnqueuerHolds(n)' <=> EnqueuerHolds(n)
      BY <1>0, <1>2, <1>4, <3>1 DEF EnqueuerHolds, Linkers
    <3>5. links.refs \in [Nodes -> Int] /\ RefsKnown
      BY <1>0 DEF FifoInv, LinkTypes
    <3>6. \A n \in Nodes : links'.refs[n] = IF n = n0 THEN links.refs[n] - 1 ELSE links.refs[n]
      BY <1>2, <3>5
    <3>7. links.refs[n0] \in {1, 2}
      BY <1>0, <3>2, <3>5 DEF RefsKnown
    <3>8. ASSUME NEW n \in Nodes
          PROVE  links'.refs[n] = (IF EnqueuerHolds(n)' THEN 1 ELSE 0)
                                    + (IF DequeuerHolds(n)' THEN 1 ELSE 0)
      <4>1. links.refs[n] = (IF EnqueuerHolds(n) THEN 1 ELSE 0)
                              + (IF DequeuerHolds(n) THEN 1 ELSE 0)
        BY <3>5 DEF RefsKnown
      <4>2. CASE n = n0
        BY <3>2, <3>4, <3>6, <4>1, <4>2
      <4>3. CASE n # n0
        BY <3>3, <3>4, <3>6, <4>1, <4>3
      <4> QED
        BY <4>2, <4>3
    <3> QED
      BY <3>7, <3>8 DEF RefsKnown
  <2> QED
    BY <2>2, <2>3 DEF Linkers
<1>10. DeletesKnown'
  <2>1. DeletesKnown /\ UNCHANGED deleted
    BY <1>1 DEF FifoInv
  <2>2. n0 \notin deleted
    BY <1>9, <2>1 DEF DeletesKnown
  <2>3. \A n \in Nodes : n # n0 => links'.refs[n] = links.refs[n]
    BY <1>0, <1>2 DEF LinkTypes
  <2> QED
    BY <1>0, <1>4, <2>1, <2>2, <2>3 DEF DeletesKnown
<1>11. SizeKnown'
  <2>1. Counting' = Counting /\ Uncounting' = Uncounting
    BY <1>0, <1>4 DEF Counting, Uncounting, Linkers
  <2> QED
    BY <1>2, <2>1 DEF FifoInv, SizeKnown
<1>12. taken' = [i \in 1 .. links'.head_ |-> i]
  BY <1>1, <1>2 DEF FifoInv
<1> QED
  BY <1>5, <1>6, <1>7, <1>8, <1>9, <1>10, <1>11, <1>12, FifoParts

\* A step that changes neither indexes nor counts.
LEMMA QuietLinks ==
  ASSUME FifoInv, NEW t \in Linkers, UNCHANGED <<links, taken>>,
         worker' = [u \in Linkers |-> worker'[u]],
         \A u \in Linkers : u # t => worker'[u] = worker[u],
         Shape(t)', DeletesKnown',
         t \in Ps => /\ worker[t].pc = "test" /\ worker'[t].pc = "count"
                     /\ worker'[t].old = worker[t].old,
         t \in Cs => /\ worker[t].pc \in {"idle", "next", "swap", "test"}
                     /\ worker'[t].pc \in {"idle", "next", "swap"}
                     /\ worker'[t].pc # "idle" => worker'[t].old <= links.head_
                     /\ worker'[t].pc = "swap" =>
                          /\ worker'[t].next = worker'[t].old + 1
                          /\ links.next[worker'[t].old] = worker'[t].old + 1
  PROVE  FifoInv'
<1>1. LinkTypes /\ (t \in Ps \/ t \in Cs) /\ Ps \intersect Cs = {}
  BY LinkNodes DEF FifoInv, Linkers
<1>2. LinkTypes'
  <2>1. \A u \in Linkers : Shape(u)'
    <3> TAKE u \in Linkers
    <3>1. CASE u # t
      BY <3>1 DEF FifoInv, LinkTypes, Shape
    <3> QED
      BY <3>1
  <2> QED
    BY <2>1, TypesParts DEF FifoInv, LinkTypes
<1>3. EnqueuersKnow'
  BY <1>1 DEF FifoInv, EnqueuersKnow, Linkers
<1>4. DequeuersKnow'
  BY <1>1, LinkNodes DEF FifoInv, DequeuersKnow, Linkers, Past
<1>5. NextsKnown'
  <2>1. \A n : Linking(n)' <=> Linking(n)
    BY <1>1, LinkNodes DEF Linking, Linkers
  <2> QED
    BY <2>1 DEF FifoInv, NextsKnown
<1>6. RefsKnown'
  <2>1. \A n : (EnqueuerHolds(n)' <=> EnqueuerHolds(n)) /\ (DequeuerHolds(n)' <=> DequeuerHolds(n))
    BY <1>1, LinkNodes DEF EnqueuerHolds, DequeuerHolds, Linkers
  <2> QED
    BY <2>1 DEF FifoInv, RefsKnown
<1>7. SizeKnown'
  <2>1. Counting' = Counting /\ Uncounting' = Uncounting
    BY <1>1, LinkNodes DEF Counting, Uncounting, Linkers
  <2> QED
    BY <2>1 DEF FifoInv, SizeKnown
<1>8. taken' = [i \in 1 .. links'.head_ |-> i]
  BY DEF FifoInv
<1> QED
  BY <1>2, <1>3, <1>4, <1>5, <1>6, <1>7, <1>8, FifoParts

LEMMA TestStep ==
  ASSUME FifoInv, NEW t \in Linkers, Unbounded!Test(t)
  PROVE  FifoInv'
<1>a. worker[t].old \in Nodes /\ worker[t].pc = "test"
  BY NodeOf DEF FifoInv, Unbounded!Test, Unbounded!At
<1>b. PICK n0 \in Nodes : worker[t].old = n0
  BY <1>a
<1>0. LinkTypes /\ DeletesKnown /\ UNCHANGED <<links, taken>>
      /\ deleted' = IF links.refs[n0] = 0 THEN deleted \union {n0} ELSE deleted
  BY <1>b DEF FifoInv, Unbounded!Test
<1>1. /\ worker' = [u \in Linkers |-> worker'[u]]
      /\ \A u \in Linkers : u # t => worker'[u] = worker[u]
      /\ Shape(t)'
      /\ t \in Ps => worker'[t].pc = "count" /\ worker'[t].old = worker[t].old
      /\ t \in Cs => worker'[t].pc = "idle"
  <2>1. CASE t \in Ps
    <3>1. Unbounded!Step(t, "count")
      BY <2>1 DEF Unbounded!Test
    <3> QED
      BY <1>0, <1>a, <2>1, <3>1, LinkerStep, ShapesAfter, LinkNodes
  <2>2. CASE t \in Cs
    <3>1. worker' = [worker EXCEPT ![t] = Unbounded!Idle] /\ t \notin Ps
      BY <2>2, LinkNodes DEF Unbounded!Test
    <3>2. worker'[t] = Unbounded!Idle /\ worker' = [u \in Linkers |-> worker'[u]]
      BY <1>0, <3>1 DEF LinkTypes
    <3> QED
      BY <1>0, <3>1, <3>2 DEF LinkTypes, Shape, Unbounded!Idle
  <2> QED
    BY <2>1, <2>2 DEF Linkers
<1>2. DeletesKnown'
  <2>1. worker'[t].pc # "test"
    BY <1>1 DEF Linkers
  <2>2. CASE links.refs[n0] = 0
    BY <1>0, <1>1, <1>a, <1>b, <2>1, <2>2 DEF DeletesKnown
  <2>3. CASE links.refs[n0] # 0
    BY <1>0, <1>1, <1>a, <1>b, <2>1, <2>3 DEF DeletesKnown
  <2> QED
    BY <2>2, <2>3
<1> QED
  BY <1>0, <1>1, <1>2, <1>a, QuietLinks, LinkNodes

LEMMA LoadHeadStep ==
  ASSUME FifoInv, NEW t \in Cs, Unbounded!LoadHead(t)
  PROVE  FifoInv'
<1>0. /\ LinkTypes /\ t \in Linkers /\ t \notin Ps /\ worker[t].pc = "idle"
      /\ worker' = [worker EXCEPT ![t] = [pc |-> "next", old |-> links.head_]]
      /\ UNCHANGED <<links, deleted, taken>> /\ links.head_ \in Nodes
  BY LinkNodes DEF FifoInv, LinkTypes, Unbounded!LoadHead, Unbounded!At, Linkers
<1>1. /\ worker' = [u \in Linkers |-> worker'[u]]
      /\ \A u \in Linkers : u # t => worker'[u] = worker[u]
      /\ worker'[t] = [pc |-> "next", old |-> links.head_]
  BY <1>0 DEF LinkTypes
<1>2. worker'[t].pc = "next" /\ worker'[t].old = links.head_ /\ Shape(t)' /\ links.head_ \in Nat
  BY <1>0, <1>1 DEF Shape, LinkTypes
<1>3. DeletesKnown'
  <2>1. DeletesKnown
    BY DEF FifoInv
  <2> QED
    BY <1>0, <1>1, <2>1 DEF DeletesKnown
<1>4. worker[t].pc \in {"idle", "next", "swap", "test"} /\ worker'[t].pc \in {"idle", "next", "swap"}
      /\ worker'[t].pc # "swap" /\ worker'[t].old <= links.head_
  BY <1>0, <1>2
<1> QED
  BY <1>0, <1>1, <1>2, <1>3, <1>4, QuietLinks

LEMMA ReadNextStep ==
  ASSUME FifoInv, NEW t \in Cs, Unbounded!ReadNext(t)
  PROVE  FifoInv'
<1>a. t \in Linkers /\ worker[t].pc = "next" /\ worker[t].old \in Nodes
  BY NodeOf DEF FifoInv, Unbounded!ReadNext, Unbounded!At, Linkers
<1>b. PICK n0 \in Nodes : worker[t].old = n0
  BY <1>a
<1>0. /\ LinkTypes /\ t \notin Ps /\ DeletesKnown
      /\ worker' = [worker EXCEPT ![t] = IF links.next[n0] = Unbounded!Null THEN Unbounded!Idle
                                         ELSE [pc |-> "swap", old |-> n0, next |-> links.next[n0]]]
      /\ UNCHANGED <<links, deleted, taken>>
  BY <1>b, LinkNodes DEF FifoInv, Unbounded!ReadNext
<1>1. /\ worker' = [u \in Linkers |-> worker'[u]]
      /\ \A u \in Linkers : u # t => worker'[u] = worker[u]
  BY <1>0 DEF LinkTypes
<1>2. CASE links.next[n0] = Unbounded!Null
  <2>1. worker'[t] = Unbounded!Idle
    BY <1>0, <1>2, <1>a DEF LinkTypes
  <2>2. worker'[t].pc = "idle" /\ Shape(t)'
    BY <2>1 DEF Shape, Unbounded!Idle
  <2>3. DeletesKnown'
    BY <1>0, <1>1, <1>a, <2>2 DEF DeletesKnown
  <2> QED
    BY <1>0, <1>1, <1>a, <2>2, <2>3, QuietLinks
<1>3. CASE links.next[n0] # Unbounded!Null
  <2>1. n0 < links.tail_ /\ links.next[n0] = n0 + 1
    BY <1>3 DEF FifoInv, NextsKnown
  <2>2. n0 + 1 \in Nodes
    BY <1>0, <2>1, LinkNodes DEF LinkTypes
  <2>3. worker'[t] = [pc |-> "swap", old |-> n0, next |-> n0 + 1]
    BY <1>0, <1>3, <1>a, <2>1 DEF LinkTypes
  <2>4. worker'[t].pc = "swap" /\ worker'[t].old = n0 /\ worker'[t].next = n0 + 1 /\ Shape(t)'
    BY <2>2, <2>3 DEF Shape
  <2>5. DeletesKnown'
    BY <1>0, <1>1, <1>a, <2>4 DEF DeletesKnown
  <2>6. n0 <= links.head_
    BY <1>a, <1>b DEF FifoInv, DequeuersKnow
  <2> QED
    BY <1>0, <1>1, <1>a, <2>1, <2>4, <2>5, <2>6, QuietLinks
<1> QED
  BY <1>2, <1>3

LEMMA CountStep ==
  ASSUME FifoInv, NEW t \in Ps, Unbounded!Count(t)
  PROVE  FifoInv'
<1>0. /\ LinkTypes /\ t \in Linkers /\ t \notin Cs /\ worker[t].pc = "count"
      /\ worker' = [worker EXCEPT ![t] = Unbounded!Idle]
      /\ links' = [links EXCEPT !.size_ = @ + 1] /\ UNCHANGED <<deleted, taken>>
  BY LinkNodes DEF FifoInv, Unbounded!Count, Unbounded!At, Linkers
<1>1. /\ worker' = [u \in Linkers |-> worker'[u]]
      /\ \A u \in Linkers : u # t => worker'[u] = worker[u]
      /\ worker'[t] = Unbounded!Idle
  BY <1>0 DEF LinkTypes
<1>2. worker'[t].pc = "idle" /\ Shape(t)'
  BY <1>1 DEF Shape, Unbounded!Idle
<1>3. /\ links'.size_ = links.size_ + 1 /\ links.size_ \in Int
      /\ links'.head_ = links.head_ /\ links'.next = links.next /\ links'.refs = links.refs
      /\ links'.tail_ = links.tail_ /\ links.tail_ \in Nat /\ links.head_ \in Nat
  BY <1>0 DEF LinkTypes
<1>4. links' \in [next : [Nodes -> Nat], refs : [Nodes -> Int], head_ : Nat, tail_ : Nat,
                  size_ : Int]
  BY <1>0 DEF LinkTypes
<1>5. LinkTypes'
  <2>1. \A u \in Linkers : Shape(u)'
    <3> TAKE u \in Linkers
    <3>1. CASE u # t
      BY <1>1, <3>1 DEF FifoInv, LinkTypes, Shape
    <3> QED
      BY <1>2, <3>1
  <2> QED
    BY <1>0, <1>1, <1>3, <1>4, <2>1, TypesParts DEF LinkTypes
<1>6. EnqueuersKnow'
  BY <1>0, <1>1, <1>2, <1>3 DEF FifoInv, EnqueuersKnow, Linkers
<1>7. DequeuersKnow'
  BY <1>0, <1>1, <1>3 DEF FifoInv, DequeuersKnow, Linkers, Past
<1>8. NextsKnown'
  <2>1. \A n : Linking(n)' <=> Linking(n)
    BY <1>0, <1>1, <1>2 DEF Linking, Linkers
  <2> QED
    BY <1>3, <2>1 DEF FifoInv, NextsKnown
<1>9. RefsKnown'
  <2>1. \A n : (EnqueuerHolds(n)' <=> EnqueuerHolds(n)) /\ (DequeuerHolds(n)' <=> DequeuerHolds(n))
    BY <1>0, <1>1, <1>2, <1>3 DEF EnqueuerHolds, DequeuerHolds, Linkers
  <2> QED
    BY <1>3, <2>1 DEF FifoInv, RefsKnown
<1>10. DeletesKnown'
  <2>1. DeletesKnown
    BY DEF FifoInv
  <2> QED
    BY <1>0, <1>1, <1>3, <2>1 DEF DeletesKnown
<1>11. SizeKnown'
  <2>1. Counting' = Counting \ {t} /\ t \in Counting
    BY <1>0, <1>1, <1>2 DEF Counting, Linkers
  <2>2. Uncounting' = Uncounting
    BY <1>0, <1>1 DEF Uncounting, Linkers
  <2>3. Cardinality(Counting') = Cardinality(Counting) - 1
    BY <2>1, CountsFinite, FS_RemoveElement
  <2> QED
    <3>1. SizeKnown /\ Cardinality(Counting) \in Nat /\ Cardinality(Uncounting) \in Nat
      BY CountsFinite DEF FifoInv
    <3> HIDE DEF Counting, Uncounting
    <3>2. links'.size_ = links'.tail_ - links'.head_ - (Cardinality(Counting) - 1) + Cardinality(Uncounting)
      BY <1>3, <3>1 DEF SizeKnown
    <3> QED
      BY <2>2, <2>3, <3>2 DEF SizeKnown
<1>12. taken' = [i \in 1 .. links'.head_ |-> i]
  BY <1>0, <1>3 DEF FifoInv
<1> QED
  BY <1>5, <1>6, <1>7, <1>8, <1>9, <1>10, <1>11, <1>12, FifoParts

LEMMA UncountStep ==
  ASSUME FifoInv, NEW t \in Cs, Unbounded!Uncount(t)
  PROVE  FifoInv'
<1>0. /\ LinkTypes /\ t \in Linkers /\ t \notin Ps /\ worker[t].pc = "uncount"
      /\ Unbounded!Step(t, "release")
      /\ links' = [links EXCEPT !.size_ = @ - 1] /\ UNCHANGED <<deleted, taken>>
  BY LinkNodes DEF FifoInv, Unbounded!Uncount, Unbounded!At, Linkers
<1>1. /\ worker' = [u \in Linkers |-> worker'[u]]
      /\ \A u \in Linkers : u # t => worker'[u] = worker[u]
      /\ worker'[t].pc = "release" /\ worker'[t].old = worker[t].old
  BY <1>0, LinkerStep
<1>3. /\ links'.size_ = links.size_ - 1 /\ links.size_ \in Int
      /\ links'.head_ = links.head_ /\ links'.next = links.next /\ links'.refs = links.refs
      /\ links'.tail_ = links.tail_ /\ links.tail_ \in Nat /\ links.head_ \in Nat
  BY <1>0 DEF LinkTypes
<1>4. links' \in [next : [Nodes -> Nat], refs : [Nodes -> Int], head_ : Nat, tail_ : Nat,
                  size_ : Int]
  BY <1>0 DEF LinkTypes
<1>5. LinkTypes'
  <2>1. \A u \in Linkers : Shape(u)'
    BY <1>0, ShapesAfter
  <2> QED
    BY <1>0, <1>1, <1>3, <1>4, <2>1, TypesParts DEF LinkTypes
<1>6. EnqueuersKnow'
  <2>1. \A u \in Ps : worker'[u] = worker[u]
    BY <1>0, <1>1 DEF Linkers
  <2> QED
    BY <1>3, <2>1 DEF FifoInv, EnqueuersKnow
<1>7. DequeuersKnow'
  BY <1>0, <1>1, <1>3 DEF FifoInv, DequeuersKnow, Linkers, Past
<1>8. NextsKnown'
  <2>1. \A n : Linking(n)' <=> Linking(n)
    BY <1>0, <1>1 DEF Linking, Linkers
  <2> QED
    BY <1>3, <2>1 DEF FifoInv, NextsKnown
<1>9. RefsKnown'
  <2>1. \A n : (EnqueuerHolds(n)' <=> EnqueuerHolds(n)) /\ (DequeuerHolds(n)' <=> DequeuerHolds(n))
    BY <1>0, <1>1, <1>3 DEF EnqueuerHolds, DequeuerHolds, Linkers
  <2> QED
    BY <1>3, <2>1 DEF FifoInv, RefsKnown
<1>10. DeletesKnown'
  <2>1. DeletesKnown
    BY DEF FifoInv
  <2> QED
    BY <1>0, <1>1, <1>3, <2>1 DEF DeletesKnown
<1>11. SizeKnown'
  <2>1. Uncounting' = Uncounting \ {t} /\ t \in Uncounting
    BY <1>0, <1>1 DEF Uncounting, Linkers
  <2>2. Counting' = Counting
    BY <1>0, <1>1 DEF Counting, Linkers
  <2>3. Cardinality(Uncounting') = Cardinality(Uncounting) - 1
    BY <2>1, CountsFinite, FS_RemoveElement
  <2> QED
    BY <1>3, <2>2, <2>3, CountsFinite DEF FifoInv, SizeKnown
<1>12. taken' = [i \in 1 .. links'.head_ |-> i]
  BY <1>0, <1>3 DEF FifoInv
<1> QED
  BY <1>5, <1>6, <1>7, <1>8, <1>9, <1>10, <1>11, <1>12, FifoParts

LEMMA SwapHeadStep ==
  ASSUME FifoInv, NEW t \in Cs, Unbounded!SwapHead(t)
  PROVE  FifoInv'
<1>a. t \in Linkers /\ t \notin Ps /\ worker[t].pc = "swap" /\ worker[t].old \in Nodes /\ LinkTypes
      /\ DeletesKnown /\ links.head_ \in Nat /\ links.tail_ \in Nat /\ UNCHANGED deleted
  BY NodeOf, LinkNodes DEF FifoInv, Unbounded!SwapHead, Unbounded!At, Linkers, LinkTypes
<1>1. CASE links.head_ # worker[t].old
  <2>1. /\ worker' = [worker EXCEPT ![t] = [pc |-> "next", old |-> links.head_]]
        /\ UNCHANGED <<links, taken>> /\ links.head_ \in Nodes
    BY <1>a, <1>1, LinkNodes DEF Unbounded!SwapHead, LinkTypes
  <2>2. /\ worker' = [u \in Linkers |-> worker'[u]]
        /\ \A u \in Linkers : u # t => worker'[u] = worker[u]
        /\ worker'[t] = [pc |-> "next", old |-> links.head_]
    BY <1>a, <2>1 DEF LinkTypes
  <2>3. worker'[t].pc = "next" /\ worker'[t].old = links.head_ /\ Shape(t)'
    BY <1>a, <2>1, <2>2 DEF Shape
  <2>4. DeletesKnown'
    BY <1>a, <2>1, <2>2 DEF DeletesKnown
  <2>5. worker[t].pc \in {"idle", "next", "swap", "test"} /\ worker'[t].pc \in {"idle", "next", "swap"}
        /\ worker'[t].pc # "swap" /\ worker'[t].old <= links.head_
    BY <1>a, <2>3
  <2> QED
    BY <1>a, <2>1, <2>2, <2>3, <2>4, <2>5, QuietLinks
<1>2. CASE links.head_ = worker[t].old
  <2>1. worker[t].next = links.head_ + 1 /\ links.next[links.head_] = links.head_ + 1
        /\ links.head_ \in Nodes
    BY <1>a, <1>2 DEF FifoInv, DequeuersKnow
  <2>2. links.head_ < links.tail_
    <3>1. worker[t].next \in Nodes
      BY <1>a, NodeOf
    <3>2. links.head_ + 1 # Unbounded!Null
      BY <1>a, <2>1, <3>1, LinkNodes
    <3> QED
      BY <1>a, <2>1, <3>2 DEF FifoInv, NextsKnown
  <2>3. /\ links' = [links EXCEPT !.head_ = links.head_ + 1]
        /\ taken' = Append(taken, links.head_ + 1) /\ Unbounded!Step(t, "uncount")
    BY <1>2, <2>1 DEF Unbounded!SwapHead
  <2>4. /\ worker' = [u \in Linkers |-> worker'[u]]
        /\ \A u \in Linkers : u # t => worker'[u] = worker[u]
        /\ worker'[t].pc = "uncount" /\ worker'[t].old = links.head_
    BY <1>2, <1>a, <2>3, LinkerStep
  <2>5. /\ links'.head_ = links.head_ + 1
        /\ links'.size_ = links.size_ /\ links'.next = links.next /\ links'.refs = links.refs
        /\ links'.tail_ = links.tail_ /\ links.size_ \in Int
    BY <1>a, <2>3 DEF LinkTypes
  <2>6. links' \in [next : [Nodes -> Nat], refs : [Nodes -> Int], head_ : Nat, tail_ : Nat,
                    size_ : Int]
    <3>1. links.head_ + 1 \in Nat
      BY <1>a
    <3> QED
      BY <1>a, <2>3, <3>1 DEF LinkTypes
  <2>7. LinkTypes'
    <3>1. \A u \in Linkers : Shape(u)'
      BY <1>a, <2>3, ShapesAfter
    <3> QED
      BY <1>a, <2>2, <2>4, <2>5, <2>6, <3>1, TypesParts DEF LinkTypes
  <2>8. \A u \in Ps : worker'[u] = worker[u]
    BY <1>a, <2>4 DEF Linkers
  <2>9. EnqueuersKnow'
    BY <2>5, <2>8 DEF FifoInv, EnqueuersKnow
  <2>10. DequeuersKnow'
    <3>1. \A u \in Cs : u # t => worker'[u] = worker[u]
      BY <2>4 DEF Linkers
    <3>2. \A u \in Cs : worker[u].pc # "idle" => worker[u].old \in Nat
      BY <1>a, NodeOf, LinkNodes DEF Linkers
    <3>3. \A u \in Cs : worker'[u].pc \in {"next", "swap"} => worker'[u].old <= links'.head_
      BY <1>a, <2>4, <2>5, <3>1, <3>2 DEF FifoInv, DequeuersKnow
    <3>4. \A u \in Cs : worker'[u].pc = "swap" =>
            /\ worker'[u].next = worker'[u].old + 1
            /\ links'.next[worker'[u].old] = worker'[u].old + 1
      BY <2>4, <2>5, <3>1 DEF FifoInv, DequeuersKnow
    <3>5. \A u \in Cs : worker'[u].pc \in Past => worker'[u].old < links'.head_
      BY <1>a, <2>4, <2>5, <3>1, <3>2 DEF FifoInv, DequeuersKnow, Past
    <3>6. \A u, w \in Cs : u # w /\ worker'[u].pc \in Past /\ worker'[w].pc \in Past =>
            worker'[u].old # worker'[w].old
      BY <1>a, <2>4, <3>1, <3>2 DEF FifoInv, DequeuersKnow, Past
    <3> QED
      BY <3>3, <3>4, <3>5, <3>6 DEF DequeuersKnow
  <2>11. NextsKnown'
    <3>1. \A n : Linking(n)' <=> Linking(n)
      BY <2>8 DEF Linking
    <3> QED
      BY <2>5, <3>1 DEF FifoInv, NextsKnown
  <2>12. RefsKnown'
    <3>1. \A n \in Nodes : EnqueuerHolds(n)' <=> EnqueuerHolds(n)
      BY <2>5, <2>8 DEF EnqueuerHolds
    <3>2. \A n \in Nodes : DequeuerHolds(n)' <=> DequeuerHolds(n)
      <4> TAKE n \in Nodes
      <4>1. n \in Nat
        BY LinkNodes
      <4>2. \A u \in Cs : u # t => worker'[u] = worker[u]
        BY <2>4 DEF Linkers
      <4> QED
        BY <1>a, <2>4, <2>5, <4>1, <4>2 DEF DequeuerHolds
    <3> QED
      BY <2>5, <3>1, <3>2 DEF FifoInv, RefsKnown
  <2>13. DeletesKnown'
    BY <1>a, <2>4, <2>5 DEF DeletesKnown
  <2>14. SizeKnown'
    <3>1. Uncounting' = Uncounting \union {t} /\ t \notin Uncounting
      BY <1>a, <2>4 DEF Uncounting, Linkers
    <3>2. Counting' = Counting
      BY <2>8 DEF Counting
    <3>3. Cardinality(Uncounting') = Cardinality(Uncounting) + 1
      BY <3>1, CountsFinite, FS_AddElement
    <3>4. links.size_ = links.tail_ - links.head_ - Cardinality(Counting) + Cardinality(Uncounting)
      BY DEF FifoInv, SizeKnown
    <3>5. links'.size_ = links'.tail_ - links'.head_ - Cardinality(Counting')
                           + Cardinality(Uncounting')
      <4>1. /\ Cardinality(Counting) \in Nat /\ Cardinality(Uncounting) \in Nat
            /\ Cardinality(Counting') = Cardinality(Counting)
        BY <3>2, CountsFinite
      <4> QED
        BY <1>a, <2>5, <3>3, <3>4, <4>1
    <3> QED
      BY <3>5 DEF SizeKnown
  <2>15. taken' = [i \in 1 .. links'.head_ |-> i]
    <3>1. taken = [i \in 1 .. links.head_ |-> i]
      BY DEF FifoInv
    <3>2. taken \in Seq(Nat) /\ Len(taken) = links.head_
      BY <1>a, <3>1
    <3> QED
      BY <1>a, <2>3, <2>5, <3>1, <3>2
  <2> QED
    BY <2>7, <2>9, <2>10, <2>11, <2>12, <2>13, <2>14, <2>15, FifoParts
<1> QED
  BY <1>1, <1>2

LEMMA FifoStep ==
  ASSUME FifoInv, Unbounded!UnboundedNext
  PROVE  FifoInv'
BY SwapTailStep, LinkStep, ReleaseStep, TestStep, CountStep, LoadHeadStep, ReadNextStep,
  SwapHeadStep, UncountStep DEF Unbounded!UnboundedNext, Linkers, Unbounded!Workers

-----------------------------------------------------------------------------
(* ReentrantRWLock.  An id that was erased may leave lock_num_ below zero  *)
(* for good, which keeps everyone out: so a writer inside only bounds it,  *)
(* and a writer that its id still names determines it.                     *)

Kinds == {"read", "write"}
Depth(s) == Cardinality({i \in DOMAIN s : s[i] = "write"})

LEMMA DepthAppend ==
  ASSUME NEW s \in Seq(Kinds)
  PROVE  /\ Depth(s) \in Nat
         /\ Depth(Append(s, "read")) = Depth(s)
         /\ Depth(Append(s, "write")) = Depth(s) + 1
<1> DEFINE D == {i \in DOMAIN s : s[i] = "write"}
<1>1. D \subseteq 1 .. Len(s) /\ IsFiniteSet(1 .. Len(s)) /\ Len(s) \in Nat
  BY FS_Interval
<1>2. IsFiniteSet(D) /\ Depth(s) = Cardinality(D) /\ Cardinality(D) \in Nat
  BY <1>1, FS_Subset, FS_CardinalityType DEF Depth
<1>3. {i \in DOMAIN Append(s, "read") : Append(s, "read")[i] = "write"} = D
  <2>1. \A i : i \in DOMAIN Append(s, "read") /\ Append(s, "read")[i] = "write" <=> i \in D
    OBVIOUS
  <2> QED
    BY <2>1
<1>4. {i \in DOMAIN Append(s, "write") : Append(s, "write")[i] = "write"} = D \union {Len(s) + 1}
  <2>1. \A i : i \in DOMAIN Append(s, "write") /\ Append(s, "write")[i] = "write"
                 <=> i \in D \/ i = Len(s) + 1
    OBVIOUS
  <2> QED
    BY <2>1
<1>5. Len(s) + 1 \notin D
  BY <1>1
<1> HIDE DEF D
<1>6. Cardinality(D \union {Len(s) + 1}) = Cardinality(D) + 1
  BY <1>2, <1>5, FS_AddElement
<1> QED
  BY <1>2, <1>3, <1>4, <1>6 DEF Depth

LEMMA DepthPop ==
  ASSUME NEW s \in Seq(Kinds), s # << >>
  PROVE  /\ SubSeq(s, 1, Len(s) - 1) \in Seq(Kinds)
         /\ SubSeq(s, 1, Len(s) - 1) = << >> \/ SubSeq(s, 1, Len(s) - 1)[1] = s[1]
         /\ s[Len(s)] = "read" => Depth(SubSeq(s, 1, Len(s) - 1)) = Depth(s)
         /\ s[Len(s)] = "write" => Depth(SubSeq(s, 1, Len(s) - 1)) = Depth(s) - 1
<1> DEFINE r == SubSeq(s, 1, Len(s) - 1)
<1>1. r \in Seq(Kinds) /\ s[Len(s)] \in Kinds /\ s = Append(r, s[Len(s)])
      /\ (r = << >> \/ r[1] = s[1])
  OBVIOUS
<1> HIDE DEF r
<1>2. /\ Depth(r) \in Nat
      /\ s[Len(s)] = "read" => Depth(s) = Depth(r)
      /\ s[Len(s)] = "write" => Depth(s) = Depth(r) + 1
  BY <1>1, DepthAppend
<1>3. r \in Seq(Kinds) /\ (r = << >> \/ r[1] = s[1])
      /\ (s[Len(s)] = "read" => Depth(r) = Depth(s))
      /\ (s[Len(s)] = "write" => Depth(r) = Depth(s) - 1)
  BY <1>1, <1>2
<1> QED
  BY <1>3 DEF r

LEMMA DepthAtLeast ==
  ASSUME NEW s \in Seq(Kinds), s # << >>, s[1] = "write"
  PROVE  /\ Depth(s) >= 1
         /\ s[Len(s)] = "write" /\ Len(s) > 1 => Depth(s) >= 2
<1> DEFINE D == {i \in DOMAIN s : s[i] = "write"}
<1>1. D \subseteq 1 .. Len(s) /\ IsFiniteSet(1 .. Len(s)) /\ Len(s) \in Nat /\ 1 \in D
  BY FS_Interval
<1>2. IsFiniteSet(D) /\ Depth(s) = Cardinality(D)
  BY <1>1, FS_Subset DEF Depth
<1>3. s[Len(s)] = "write" => Len(s) \in D
  BY <1>1
<1> HIDE DEF D
<1>4. IsFiniteSet(D \ {1}) /\ Cardinality(D \ {1}) = Cardinality(D) - 1 /\ Cardinality(D) \in Nat
      /\ Cardinality(D \ {1}) \in Nat
  BY <1>1, <1>2, FS_RemoveElement, FS_CardinalityType
<1>5. Depth(s) >= 1
  BY <1>2, <1>4
<1>6. ASSUME s[Len(s)] = "write", Len(s) > 1 PROVE Depth(s) >= 2
  <2>1. Len(s) \in D \ {1}
    BY <1>1, <1>3, <1>6
  <2>2. Cardinality(D \ {1}) # 0
    BY <1>4, <2>1, FS_EmptySet
  <2> QED
    BY <1>2, <1>4, <2>2
<1> QED
  BY <1>5, <1>6

LEMMA DepthNone == Depth(<< >>) = 0 /\ Depth(<<"write">>) = 1
<1>1. {i \in DOMAIN << >> : << >>[i] = "write"} = {}
  OBVIOUS
<1>2. {i \in DOMAIN <<"write">> : <<"write">>[i] = "write"} = {1}
  OBVIOUS
<1> QED
  BY <1>1, <1>2, FS_EmptySet, FS_Singleton DEF Depth

LockPcs == {"run", "read", "cas", "write", "name", "withdraw", "clear"}

LockTypes ==
  /\ reentrant \in [num : Int, waiting : Int, writer : Threads \union {Reentrant!NULL_THREAD_ID}]
  /\ locker \in [Threads -> [pc : LockPcs, num : Int, held : Seq(Kinds)]]
  /\ erased \in BOOLEAN

In(t) == locker[t].held # << >> /\ locker[t].held[1] = "write"
Entering(t) == locker[t].pc \in {"name", "withdraw"}
Reading(t) == locker[t].held = <<"read">>
ReadersIn == {t \in Threads : Reading(t)}

\* What a thread holds where it is.
Seated(t) ==
  /\ locker[t].held = << >> \/ Reading(t) \/ In(t)
  /\ locker[t].pc \in {"read", "cas", "write"} => locker[t].held = << >> \/ In(t)
  /\ locker[t].pc \in {"name", "withdraw", "clear"} => locker[t].held = << >>
  /\ locker[t].pc = "cas" => locker[t].num >= 0

\* What lock_num_ and the id say of a thread.
Known(t) ==
  /\ Entering(t) => reentrant.num = -1
  /\ In(t) => reentrant.num <= -Depth(locker[t].held)
  /\ In(t) /\ reentrant.writer = t => reentrant.num = -Depth(locker[t].held)
  /\ reentrant.writer = t => In(t) \/ locker[t].pc \in {"withdraw", "clear"}
  /\ ~erased /\ In(t) => reentrant.num = -Depth(locker[t].held)
  /\ ~erased /\ (In(t) \/ locker[t].pc = "withdraw") => reentrant.writer = t

\* A writer is alone.
Apart(t, u) ==
  In(t) \/ Entering(t) => ~Reading(u) /\ (In(u) \/ Entering(u) => u = t)

\* What lock_num_ says without a writer.
Vacant ==
  (\A t \in Threads : ~In(t) /\ ~Entering(t)) =>
    /\ reentrant.num = Cardinality(ReadersIn) \/ (ReadersIn = {} /\ reentrant.num < 0)
    /\ ~erased => reentrant.num = Cardinality(ReadersIn)

LockInv ==
  /\ LockTypes /\ Vacant
  /\ \A t \in Threads : Seated(t) /\ Known(t)
  /\ \A t, u \in Threads : Apart(t, u)

LEMMA LockStart == Reentrant!ReentrantInit => LockInv
<1> SUFFICES ASSUME Reentrant!ReentrantInit PROVE LockInv
  OBVIOUS
<1>1. /\ reentrant = [num |-> 0, waiting |-> 0, writer |-> Reentrant!NULL_THREAD_ID]
      /\ locker = [t \in Threads |-> [pc |-> "run", num |-> 0, held |-> << >>]]
      /\ erased = FALSE
  BY DEF Reentrant!ReentrantInit, Reentrant!RW_LOCK_FREE
<1>2. LockTypes
  <2>1. [pc |-> "run", num |-> 0, held |-> << >>] \in [pc : LockPcs, num : Int, held : Seq(Kinds)]
    BY DEF LockPcs
  <2> QED
    BY <1>1, <2>1 DEF LockTypes
<1>3. \A t \in Threads : locker[t].pc = "run" /\ locker[t].held = << >> /\ reentrant.writer # t
  BY <1>1, BaseAssumption
<1>4. \A t \in Threads : ~In(t) /\ ~Entering(t) /\ ~Reading(t)
  BY <1>3 DEF In, Entering, Reading
<1>5. \A t \in Threads : Seated(t) /\ Known(t)
  BY <1>3, <1>4 DEF Seated, Known
<1>6. ReadersIn = {} /\ Cardinality(ReadersIn) = 0
  BY <1>4, FS_EmptySet DEF ReadersIn
<1>7. Vacant
  BY <1>1, <1>6 DEF Vacant
<1> QED
  BY <1>2, <1>4, <1>5, <1>7 DEF LockInv, Apart

LEMMA ReadersFinite == IsFiniteSet(ReadersIn) /\ Cardinality(ReadersIn) \in Nat
BY LockAssumption, FS_Subset, FS_CardinalityType DEF ReadersIn

\* Nobody is inside while lock_num_ is not negative.
LEMMA NotNegative ==
  ASSUME LockInv, reentrant.num >= 0
  PROVE  /\ \A t \in Threads : ~In(t) /\ ~Entering(t)
         /\ reentrant.num = Cardinality(ReadersIn)
<1>1. reentrant.num \in Int
  BY DEF LockInv, LockTypes
<1>2. ASSUME NEW t \in Threads, In(t) PROVE FALSE
  <2>1. locker[t].held \in Seq(Kinds) /\ locker[t].held # << >> /\ locker[t].held[1] = "write"
    BY <1>2 DEF In, LockInv, LockTypes
  <2>2. Depth(locker[t].held) >= 1 /\ Depth(locker[t].held) \in Nat
    BY <2>1, DepthAtLeast, DepthAppend
  <2> QED
    BY <1>1, <1>2, <2>2 DEF LockInv, Known
<1>3. \A t \in Threads : ~Entering(t)
  BY <1>1 DEF LockInv, Known
<1> QED
  BY <1>1, <1>2, <1>3 DEF LockInv, Vacant

LEMMA LockSafe == LockInv => Reentrant!ReentrantExcludes
<1> SUFFICES ASSUME LockInv PROVE Reentrant!ReentrantExcludes
  OBVIOUS
<1>1. ASSUME NEW t \in Threads
      PROVE  /\ Reentrant!Held(t, "write") <=> In(t)
             /\ Reentrant!Held(t, "read") /\ ~Reentrant!Held(t, "write") <=> Reading(t)
             /\ In(t) \/ Entering(t) => Reentrant!WriteDepth(t) = -reentrant.num \/ erased
  <2> DEFINE s == locker[t].held
  <2>1. s \in Seq(Kinds) /\ Seated(t) /\ Known(t) /\ reentrant.num \in Int
    BY DEF LockInv, LockTypes
  <2>2. Reentrant!Held(t, "write") <=> In(t)
    <3>1. ASSUME s = << >> PROVE ~Reentrant!Held(t, "write")
      BY <3>1 DEF Reentrant!Held
    <3>2. ASSUME s = <<"read">> PROVE ~Reentrant!Held(t, "write")
      BY <3>2 DEF Reentrant!Held
    <3>3. ASSUME In(t) PROVE Reentrant!Held(t, "write")
      <4>1. 1 \in DOMAIN s
        BY <2>1, <3>3 DEF In
      <4> QED
        BY <3>3, <4>1 DEF In, Reentrant!Held
    <3> QED
      BY <2>1, <3>1, <3>2, <3>3 DEF Seated, Reading
  <2>3. Reading(t) => Reentrant!Held(t, "read") /\ ~In(t)
    BY DEF Reading, In, Reentrant!Held
  <2>4. s = << >> => ~Reentrant!Held(t, "read")
    BY DEF Reentrant!Held
  <2>5. ASSUME In(t) \/ Entering(t), ~erased PROVE Reentrant!WriteDepth(t) = -reentrant.num
    <3>1. Reentrant!WriteDepth(t) = Depth(s) + (IF Entering(t) THEN 1 ELSE 0)
      BY ReentrantCardinality DEF Reentrant!WriteDepth, Depth, Entering
    <3>2. CASE Entering(t)
      <4>1. s = << >> /\ reentrant.num = -1
        BY <2>1, <3>2 DEF Seated, Known, Entering
      <4> QED
        BY <3>1, <3>2, <4>1, DepthNone
    <3>3. CASE ~Entering(t)
      <4>1. reentrant.num = -Depth(s) /\ Depth(s) \in Nat
        BY <2>1, <2>5, <3>3, DepthAppend DEF Known
      <4> QED
        BY <3>1, <3>3, <4>1
    <3> QED
      BY <3>2, <3>3
  <2> QED
    BY <2>1, <2>2, <2>3, <2>4, <2>5 DEF Seated
<1>2. Reentrant!Writers = {t \in Threads : In(t) \/ Entering(t)} /\ Reentrant!Readers = ReadersIn
  BY <1>1 DEF Reentrant!Writers, Reentrant!Readers, Entering, ReadersIn
<1>3. ASSUME NEW t \in Reentrant!Writers
      PROVE  Reentrant!Writers = {t} /\ Reentrant!Readers = {}
  BY <1>2 DEF LockInv, Apart, ReadersIn
<1>4. ASSUME ~erased PROVE \A t \in Reentrant!Writers : reentrant.num = -Reentrant!WriteDepth(t)
  <2> TAKE t \in Reentrant!Writers
  <2>1. Reentrant!WriteDepth(t) = -reentrant.num /\ reentrant.num \in Int
    BY <1>1, <1>2, <1>4 DEF LockInv, LockTypes
  <2> QED
    BY <2>1
<1>5. ASSUME ~erased, Reentrant!Writers = {}
      PROVE  reentrant.num = Reentrant!Cardinality(Reentrant!Readers)
  BY <1>2, <1>5, ReentrantCardinality DEF LockInv, Vacant
<1>6. ASSUME ~erased PROVE \A t \in Threads : Reentrant!Held(t, "write") => reentrant.writer = t
  BY <1>1, <1>6 DEF LockInv, Known
<1> QED
  BY <1>3, <1>4, <1>5, <1>6 DEF Reentrant!ReentrantExcludes

\* Only t has moved.
OnlyMoves(t) == \A u \in Threads \ {t} : locker'[u] = locker[u]

LEMMA Others ==
  ASSUME NEW t \in Threads, OnlyMoves(t), NEW u \in Threads \ {t}
  PROVE  /\ In(u)' <=> In(u)
         /\ Entering(u)' <=> Entering(u)
         /\ Reading(u)' <=> Reading(u)
         /\ Seated(u)' <=> Seated(u)
         /\ locker'[u] = locker[u]
BY DEF OnlyMoves, In, Entering, Reading, Seated

\* The invariant from what the step does to the thread that takes it.
LEMMA LockParts ==
  ASSUME LockInv, LockTypes', NEW t \in Threads, OnlyMoves(t), Seated(t)', Vacant',
         \A u \in Threads : Known(u)', \A u \in Threads : Apart(t, u)' /\ Apart(u, t)'
  PROVE  LockInv'
<1>1. \A u \in Threads \ {t} : Seated(u)'
  BY Others DEF LockInv
<1>2. ASSUME NEW u \in Threads \ {t}, NEW w \in Threads \ {t} PROVE Apart(u, w)'
  BY Others DEF LockInv, Apart
<1> QED
  BY <1>1, <1>2 DEF LockInv

\* A thread that neither takes nor gives up anything.
LEMMA LockQuiet ==
  ASSUME LockInv, LockTypes', NEW t \in Threads, OnlyMoves(t),
         locker'[t].held = locker[t].held, Seated(t)',
         {locker[t].pc, locker'[t].pc} \subseteq {"run", "read", "cas", "write"},
         reentrant'.num = reentrant.num, reentrant'.writer = reentrant.writer, UNCHANGED erased
  PROVE  LockInv'
<1>1. \A u \in Threads : /\ In(u)' <=> In(u)
                         /\ Entering(u)' <=> Entering(u)
                         /\ Reading(u)' <=> Reading(u)
                         /\ locker'[u].held = locker[u].held
                         /\ locker'[u].pc = "withdraw" <=> locker[u].pc = "withdraw"
                         /\ locker'[u].pc \in {"withdraw", "clear"} <=> locker[u].pc \in {"withdraw", "clear"}
  BY Others DEF OnlyMoves, In, Entering, Reading
<1>2. \A u \in Threads : Known(u)'
  BY <1>1 DEF LockInv, Known
<1>3. ReadersIn' = ReadersIn
  BY <1>1 DEF ReadersIn
<1>4. Vacant'
  BY <1>1, <1>3 DEF LockInv, Vacant
<1>5. \A u \in Threads : Apart(t, u)' /\ Apart(u, t)'
  BY <1>1 DEF LockInv, Apart
<1> QED
  BY <1>2, <1>4, <1>5, LockParts

\* How a step writes its thread.
LEMMA Writes ==
  ASSUME LockTypes, NEW t \in Threads, NEW q \in LockPcs, NEW n \in Int, NEW s \in Seq(Kinds),
         locker' = [locker EXCEPT ![t] = [pc |-> q, num |-> n, held |-> s]]
  PROVE  /\ OnlyMoves(t)
         /\ locker' \in [Threads -> [pc : LockPcs, num : Int, held : Seq(Kinds)]]
         /\ locker'[t].pc = q /\ locker'[t].num = n /\ locker'[t].held = s
BY DEF LockTypes, OnlyMoves

LEMMA WritesNum ==
  ASSUME LockTypes, NEW t \in Threads, NEW q \in LockPcs, NEW n \in Int,
         locker' = [locker EXCEPT ![t].pc = q, ![t].num = n]
  PROVE  /\ OnlyMoves(t)
         /\ locker' \in [Threads -> [pc : LockPcs, num : Int, held : Seq(Kinds)]]
         /\ locker'[t].pc = q /\ locker'[t].num = n /\ locker'[t].held = locker[t].held
BY DEF LockTypes, OnlyMoves

LEMMA WritesOnlyNum ==
  ASSUME LockTypes, NEW t \in Threads, NEW n \in Int,
         locker' = [locker EXCEPT ![t].num = n]
  PROVE  /\ OnlyMoves(t)
         /\ locker' \in [Threads -> [pc : LockPcs, num : Int, held : Seq(Kinds)]]
         /\ locker'[t].pc = locker[t].pc /\ locker'[t].num = n /\ locker'[t].held = locker[t].held
BY DEF LockTypes, OnlyMoves

LEMMA WritesPc ==
  ASSUME LockTypes, NEW t \in Threads, NEW q \in LockPcs,
         locker' = [locker EXCEPT ![t].pc = q]
  PROVE  /\ OnlyMoves(t)
         /\ locker' \in [Threads -> [pc : LockPcs, num : Int, held : Seq(Kinds)]]
         /\ locker'[t].pc = q /\ locker'[t].num = locker[t].num /\ locker'[t].held = locker[t].held
BY DEF LockTypes, OnlyMoves

LEMMA WritesHeld ==
  ASSUME LockTypes, NEW t \in Threads, NEW q \in LockPcs, NEW s \in Seq(Kinds),
         locker' = [locker EXCEPT ![t].pc = q, ![t].held = s]
  PROVE  /\ OnlyMoves(t)
         /\ locker' \in [Threads -> [pc : LockPcs, num : Int, held : Seq(Kinds)]]
         /\ locker'[t].pc = q /\ locker'[t].num = locker[t].num /\ locker'[t].held = s
BY DEF LockTypes, OnlyMoves

\* Beside a writer nobody is inside.
LEMMA Beside ==
  ASSUME LockInv, NEW t \in Threads, In(t) \/ Entering(t), NEW u \in Threads \ {t}
  PROVE  ~In(u) /\ ~Entering(u) /\ ~Reading(u)
BY DEF LockInv, Apart

\* A writer that locks or unlocks inside its lock.
LEMMA LockNested ==
  ASSUME LockInv, LockTypes', NEW t \in Threads, OnlyMoves(t), In(t), In(t)', Known(t)', Seated(t)',
         locker'[t].pc = "run", reentrant'.writer = reentrant.writer, UNCHANGED erased
  PROVE  LockInv'
<1>1. \A u \in Threads \ {t} : ~In(u) /\ ~Entering(u) /\ ~Reading(u)
  BY Beside
<1>2. \A u \in Threads \ {t} : ~In(u)' /\ ~Entering(u)' /\ ~Reading(u)' /\ locker'[u] = locker[u]
  BY <1>1, Others
<1>3. \A u \in Threads : Known(u)'
  <2>1. ASSUME NEW u \in Threads \ {t} PROVE Known(u)'
    BY <1>1, <1>2 DEF LockInv, Known, Entering
  <2> QED
    BY <2>1
<1>4. ~Entering(t)' /\ ~Reading(t)'
  BY DEF Entering, Reading, In
<1>5. Vacant'
  BY DEF Vacant
<1>6. \A u \in Threads : Apart(t, u)' /\ Apart(u, t)'
  BY <1>2, <1>4 DEF Apart
<1> QED
  BY <1>3, <1>5, <1>6, LockParts

\* The record of the lock after a step that changes one field.
LEMMA LockFields ==
  ASSUME LockTypes
  PROVE  /\ reentrant.num \in Int /\ reentrant.waiting \in Int
         /\ \A n \in Int : LET r == [reentrant EXCEPT !.num = n] IN
              /\ r \in [num : Int, waiting : Int, writer : Threads \union {Reentrant!NULL_THREAD_ID}]
              /\ r.num = n /\ r.waiting = reentrant.waiting /\ r.writer = reentrant.writer
         /\ \A n \in Int : LET r == [reentrant EXCEPT !.waiting = n] IN
              /\ r \in [num : Int, waiting : Int, writer : Threads \union {Reentrant!NULL_THREAD_ID}]
              /\ r.num = reentrant.num /\ r.waiting = n /\ r.writer = reentrant.writer
         /\ \A w \in Threads \union {Reentrant!NULL_THREAD_ID} : LET r == [reentrant EXCEPT !.writer = w] IN
              /\ r \in [num : Int, waiting : Int, writer : Threads \union {Reentrant!NULL_THREAD_ID}]
              /\ r.num = reentrant.num /\ r.waiting = reentrant.waiting /\ r.writer = w
BY DEF LockTypes

LEMMA Appended ==
  ASSUME NEW s \in Seq(Kinds), NEW k \in Kinds
  PROVE  /\ Append(s, k) \in Seq(Kinds) /\ Append(s, k) # << >>
         /\ s # << >> => Append(s, k)[1] = s[1]
         /\ s = << >> => Append(s, k) = <<k>>
<1>1. Append(s, k) \in Seq(Kinds) /\ Append(s, k) # << >>
  <2>1. Append(s, k) \in Seq(Kinds) /\ Len(Append(s, k)) = Len(s) + 1 /\ Len(s) \in Nat
    OBVIOUS
  <2>2. Len(<< >>) = 0
    OBVIOUS
  <2>3. Append(s, k) # << >>
    BY <2>1, <2>2
  <2> QED
    BY <2>1, <2>3
<1>2. s # << >> => Append(s, k)[1] = s[1]
  OBVIOUS
<1>3. Append(<< >>, k) = <<k>>
  OBVIOUS
<1> QED
  BY <1>1, <1>2, <1>3

LEMMA LockReads ==
  ASSUME LockInv, NEW t \in Threads,
         Reentrant!ReadLock(t) \/ Reentrant!ReadSpin(t) \/ Reentrant!ReadPass(t)
  PROVE  LockInv'
<1>0. /\ LockTypes /\ Seated(t) /\ Known(t) /\ UNCHANGED <<reentrant, erased>> /\ reentrant.num \in Int
      /\ locker[t].held \in Seq(Kinds)
      /\ {"run", "read", "cas"} \subseteq LockPcs
  BY DEF LockInv, LockTypes, LockPcs, Reentrant!ReadLock, Reentrant!ReadSpin, Reentrant!ReadPass
<1>1. CASE Reentrant!ReadLock(t) /\ reentrant.writer = t
  <2>1. locker[t].pc = "run" /\ locker' = [locker EXCEPT ![t].pc = "run", ![t].held = Append(@, "read")]
    BY <1>1 DEF Reentrant!ReadLock, Reentrant!MayLock, Reentrant!Acquired
  <2>2. In(t)
    BY <1>0, <1>1, <2>1 DEF Known
  <2> DEFINE s == Append(locker[t].held, "read")
  <2>3. s \in Seq(Kinds) /\ s # << >> /\ s[1] = "write" /\ Depth(s) = Depth(locker[t].held)
    <3>1. "read" \in Kinds
      BY DEF Kinds
    <3> QED
      BY <1>0, <2>2, <3>1, DepthAppend, Appended DEF In
  <2>4. locker' = [locker EXCEPT ![t].pc = "run", ![t].held = s]
    BY <1>0, <2>1
  <2> HIDE DEF s
  <2>5. /\ OnlyMoves(t) /\ locker'[t].pc = "run" /\ locker'[t].held = s
        /\ locker' \in [Threads -> [pc : LockPcs, num : Int, held : Seq(Kinds)]]
    BY <1>0, <2>3, <2>4, WritesHeld
  <2>6. LockTypes'
    BY <1>0, <2>5 DEF LockTypes
  <2>7. In(t)' /\ Seated(t)'
    BY <2>3, <2>5 DEF In, Seated
  <2>8. Known(t)'
    BY <1>0, <2>1, <2>2, <2>3, <2>5, <2>7 DEF Known, Entering
  <2> QED
    BY <1>0, <2>2, <2>5, <2>6, <2>7, <2>8, LockNested
<1>2. ASSUME /\ OnlyMoves(t) /\ locker' \in [Threads -> [pc : LockPcs, num : Int, held : Seq(Kinds)]]
             /\ locker'[t].held = locker[t].held
             /\ locker[t].pc \in {"run", "read"} /\ locker'[t].pc \in {"read", "cas"}
             /\ locker[t].held = << >> \/ In(t)
             /\ locker'[t].pc = "cas" => locker'[t].num >= 0
      PROVE  LockInv'
  <2>1. LockTypes'
    BY <1>0, <1>2 DEF LockTypes
  <2>2. In(t)' <=> In(t)
    BY <1>2 DEF In
  <2>3. Seated(t)'
    BY <1>2, <2>2 DEF Seated
  <2> QED
    BY <1>0, <1>2, <2>1, <2>3, LockQuiet
<1>3. CASE Reentrant!ReadLock(t) /\ reentrant.writer # t
  <2>1. locker[t].pc = "run" /\ locker' = [locker EXCEPT ![t].pc = "read", ![t].num = reentrant.num]
        /\ (locker[t].held = << >> \/ Reentrant!Held(t, "write"))
    BY <1>3 DEF Reentrant!ReadLock, Reentrant!MayLock
  <2>2. locker[t].held = << >> \/ In(t)
    BY <1>0, <2>1 DEF Seated, Reading, Reentrant!Held
  <2>3. /\ OnlyMoves(t) /\ locker' \in [Threads -> [pc : LockPcs, num : Int, held : Seq(Kinds)]]
        /\ locker'[t].pc = "read" /\ locker'[t].held = locker[t].held
    BY <1>0, <2>1, WritesNum
  <2> QED
    BY <1>2, <2>1, <2>2, <2>3
<1>4. CASE Reentrant!ReadSpin(t)
  BY <1>0, <1>2, <1>4, WritesOnlyNum DEF Reentrant!ReadSpin, Seated
<1>5. CASE Reentrant!ReadPass(t)
  <2>1. locker[t].num >= 0
    <3>1. ~(locker[t].num < 0) /\ locker[t].num \in Int
      BY <1>0, <1>5 DEF LockTypes, Reentrant!ReadPass, Reentrant!MustWait, Reentrant!RW_LOCK_FREE
    <3> QED
      BY <3>1
  <2> QED
    BY <1>0, <1>2, <1>5, <2>1, WritesPc DEF Reentrant!ReadPass, Seated
<1> QED
  BY <1>1, <1>3, <1>4, <1>5

LEMMA LockReadCas ==
  ASSUME LockInv, NEW t \in Threads, Reentrant!ReadCas(t)
  PROVE  LockInv'
<1>0. /\ LockTypes /\ Seated(t) /\ Known(t) /\ UNCHANGED erased /\ reentrant.num \in Int
      /\ locker[t].held \in Seq(Kinds) /\ locker[t].pc = "cas"
      /\ {"run", "read", "cas"} \subseteq LockPcs
  BY DEF LockInv, LockTypes, LockPcs, Reentrant!ReadCas
<1>1. CASE locker' = [locker EXCEPT ![t].pc = "read", ![t].num = reentrant.num] /\ UNCHANGED reentrant
  <2>1. /\ OnlyMoves(t) /\ locker' \in [Threads -> [pc : LockPcs, num : Int, held : Seq(Kinds)]]
        /\ locker'[t].pc = "read" /\ locker'[t].held = locker[t].held
    BY <1>0, <1>1, WritesNum
  <2>2. LockTypes' /\ Seated(t)'
    BY <1>0, <1>1, <2>1 DEF LockTypes, Seated, In
  <2> QED
    BY <1>0, <1>1, <2>1, <2>2, LockQuiet
<1>2. CASE /\ reentrant.num = locker[t].num /\ reentrant' = [reentrant EXCEPT !.num = @ + 1]
           /\ Reentrant!Acquired(t, "read")
  <2>1. reentrant.num >= 0
    BY <1>0, <1>2 DEF Seated
  <2>2. (\A u \in Threads : ~In(u) /\ ~Entering(u)) /\ reentrant.num = Cardinality(ReadersIn)
    BY <2>1, NotNegative
  <2>3. locker[t].held = << >>
    BY <1>0, <2>2 DEF Seated
  <2>4. locker' = [locker EXCEPT ![t].pc = "run", ![t].held = <<"read">>] /\ <<"read">> \in Seq(Kinds)
    BY <1>2, <2>3, Appended DEF Reentrant!Acquired, Kinds
  <2>5. /\ OnlyMoves(t) /\ locker' \in [Threads -> [pc : LockPcs, num : Int, held : Seq(Kinds)]]
        /\ locker'[t].pc = "run" /\ locker'[t].held = <<"read">>
    BY <1>0, <2>4, WritesHeld
  <2>6. /\ reentrant'.num = reentrant.num + 1 /\ reentrant'.writer = reentrant.writer
        /\ LockTypes'
    BY <1>0, <1>2, <2>5, LockFields, SMTT(40) DEF LockTypes
  <2>7. ~In(t)' /\ ~Entering(t)' /\ Reading(t)' /\ Seated(t)'
    BY <2>5 DEF In, Entering, Reading, Seated
  <2>8. \A u \in Threads : ~In(u)' /\ ~Entering(u)'
    BY <2>2, <2>5, <2>7, Others
  <2>9. ReadersIn' = ReadersIn \union {t} /\ t \notin ReadersIn
    <3>1. ~Reading(t)
      BY <2>3 DEF Reading
    <3> QED
      BY <2>5, <2>7, <3>1, Others DEF ReadersIn
  <2>10. Cardinality(ReadersIn') = Cardinality(ReadersIn) + 1
    BY <2>9, ReadersFinite, FS_AddElement
  <2>11. Vacant'
    BY <2>2, <2>6, <2>10 DEF Vacant
  <2>12. \A u \in Threads : Known(u)'
    <3>1. reentrant.writer # t
      BY <1>0, <2>2 DEF Known
    <3>2. \A u \in Threads \ {t} : Known(u)'
      BY <1>0, <2>2, <2>5, <2>6, <2>8 DEF LockInv, Known, OnlyMoves, Entering
    <3> QED
      BY <2>5, <2>6, <2>7, <3>1, <3>2 DEF Known
  <2>13. \A u \in Threads : Apart(t, u)' /\ Apart(u, t)'
    BY <2>8 DEF Apart
  <2> QED
    BY <2>5, <2>6, <2>7, <2>11, <2>12, <2>13, LockParts
<1> QED
  BY <1>1, <1>2 DEF Reentrant!ReadCas

LEMMA LockWriteLock ==
  ASSUME LockInv, NEW t \in Threads, Reentrant!WriteLock(t)
  PROVE  LockInv'
<1>0. /\ LockTypes /\ Seated(t) /\ Known(t) /\ UNCHANGED erased /\ reentrant.num \in Int
      /\ locker[t].held \in Seq(Kinds) /\ locker[t].pc = "run"
      /\ locker[t].held = << >> \/ Reentrant!Held(t, "write")
      /\ {"run", "write"} \subseteq LockPcs
  BY DEF LockInv, LockTypes, LockPcs, Reentrant!WriteLock, Reentrant!MayLock
<1>1. CASE reentrant.writer = t
  <2>1. In(t) /\ reentrant.num = -Depth(locker[t].held)
    BY <1>0, <1>1 DEF Known
  <2> DEFINE s == Append(locker[t].held, "write")
  <2>2. s \in Seq(Kinds) /\ s # << >> /\ s[1] = "write" /\ Depth(s) = Depth(locker[t].held) + 1
        /\ Depth(s) \in Nat /\ Depth(locker[t].held) \in Nat
    <3>1. "write" \in Kinds
      BY DEF Kinds
    <3> QED
      BY <1>0, <2>1, <3>1, DepthAppend, Appended DEF In
  <2>3. locker' = [locker EXCEPT ![t].pc = "run", ![t].held = s]
        /\ reentrant' = [reentrant EXCEPT !.num = reentrant.num - 1]
    BY <1>1 DEF Reentrant!WriteLock, Reentrant!Acquired
  <2> HIDE DEF s
  <2>4. /\ OnlyMoves(t) /\ locker'[t].pc = "run" /\ locker'[t].held = s
        /\ locker' \in [Threads -> [pc : LockPcs, num : Int, held : Seq(Kinds)]]
    <3>1. locker' = [locker EXCEPT ![t].pc = "run", ![t].held = s]
      BY <2>3
    <3>2. LockTypes /\ "run" \in LockPcs /\ s \in Seq(Kinds)
      BY <1>0, <2>2
    <3> QED
      BY <3>1, <3>2, WritesHeld
  <2>5. reentrant'.num = reentrant.num - 1 /\ reentrant'.writer = reentrant.writer /\ LockTypes'
    BY <1>0, <2>3, <2>4, LockFields DEF LockTypes
  <2>6. In(t)' /\ Seated(t)'
    BY <2>2, <2>4 DEF In, Seated
  <2>7. reentrant'.num = -Depth(s)
    BY <2>1, <2>2, <2>5
  <2>8. Known(t)'
    BY <1>1, <2>2, <2>4, <2>5, <2>6, <2>7 DEF Known, Entering
  <2> QED
    BY <1>0, <2>1, <2>4, <2>5, <2>6, <2>8, LockNested
<1>2. CASE reentrant.writer # t
  <2>1. locker' = [locker EXCEPT ![t].pc = "write"]
        /\ reentrant' = [reentrant EXCEPT !.waiting = reentrant.waiting + 1]
    BY <1>2 DEF Reentrant!WriteLock
  <2>2. locker[t].held = << >> \/ In(t)
    BY <1>0 DEF Seated, Reading, Reentrant!Held
  <2>3. /\ OnlyMoves(t) /\ locker'[t].pc = "write" /\ locker'[t].held = locker[t].held
        /\ locker' \in [Threads -> [pc : LockPcs, num : Int, held : Seq(Kinds)]]
    BY <1>0, <2>1, WritesPc
  <2>4. reentrant'.num = reentrant.num /\ reentrant'.writer = reentrant.writer /\ LockTypes'
    BY <1>0, <2>1, <2>3, LockFields DEF LockTypes
  <2>5. Seated(t)'
    BY <2>2, <2>3 DEF Seated, In
  <2> QED
    BY <1>0, <2>3, <2>4, <2>5, LockQuiet
<1> QED
  BY <1>1, <1>2

LEMMA LockWriteCas ==
  ASSUME LockInv, NEW t \in Threads, Reentrant!WriteCas(t)
  PROVE  LockInv'
<1>0. /\ LockTypes /\ Seated(t) /\ Known(t) /\ UNCHANGED erased /\ reentrant.num = 0
      /\ locker[t].pc = "write" /\ {"write", "name"} \subseteq LockPcs
      /\ locker' = [locker EXCEPT ![t].pc = "name"]
      /\ reentrant' = [reentrant EXCEPT !.num = -1]
  BY DEF LockInv, LockTypes, LockPcs, Reentrant!WriteCas, Reentrant!RW_LOCK_FREE,
    Reentrant!WRITE_EXCLUSIVE
<1>1. (\A u \in Threads : ~In(u) /\ ~Entering(u)) /\ Cardinality(ReadersIn) = 0
  BY <1>0, NotNegative
<1>2. ReadersIn = {}
  BY <1>1, ReadersFinite, FS_EmptySet
<1>3. locker[t].held = << >>
  BY <1>0, <1>1 DEF Seated
<1>4. /\ OnlyMoves(t) /\ locker'[t].pc = "name" /\ locker'[t].held = << >>
      /\ locker' \in [Threads -> [pc : LockPcs, num : Int, held : Seq(Kinds)]]
  BY <1>0, <1>3, WritesPc
<1>5. reentrant'.num = -1 /\ reentrant'.writer = reentrant.writer /\ LockTypes'
  BY <1>0, <1>4, LockFields DEF LockTypes
<1>6. ~In(t)' /\ Entering(t)' /\ ~Reading(t)' /\ Seated(t)'
  BY <1>4 DEF In, Entering, Reading, Seated
<1>7. \A u \in Threads \ {t} : ~In(u)' /\ ~Entering(u)' /\ ~Reading(u)' /\ locker'[u] = locker[u]
  BY <1>1, <1>2, <1>4, Others DEF ReadersIn
<1>8. reentrant.writer # t
  BY <1>0, <1>1 DEF Known
<1>9. \A u \in Threads : Known(u)'
  <2>1. ASSUME NEW u \in Threads \ {t} PROVE Known(u)'
    BY <1>0, <1>1, <1>5, <1>7 DEF LockInv, Known, Entering
  <2>2. Known(t)'
    BY <1>4, <1>5, <1>6, <1>8 DEF Known
  <2> QED
    BY <2>1, <2>2
<1>10. Vacant'
  BY <1>6 DEF Vacant
<1>11. \A u \in Threads : Apart(t, u)' /\ Apart(u, t)'
  BY <1>6, <1>7 DEF Apart
<1> QED
  BY <1>4, <1>5, <1>6, <1>9, <1>10, <1>11, LockParts

LEMMA LockStoreId ==
  ASSUME LockInv, NEW t \in Threads, Reentrant!StoreId(t)
  PROVE  LockInv'
<1>0. /\ LockTypes /\ Seated(t) /\ Known(t) /\ UNCHANGED erased
      /\ locker[t].pc = "name" /\ {"name", "withdraw"} \subseteq LockPcs
      /\ locker' = [locker EXCEPT ![t].pc = "withdraw"]
      /\ reentrant' = [reentrant EXCEPT !.writer = t]
  BY DEF LockInv, LockTypes, LockPcs, Reentrant!StoreId
<1>1. Entering(t) /\ locker[t].held = << >> /\ reentrant.num = -1
  BY <1>0 DEF Seated, Known, Entering
<1>4. /\ OnlyMoves(t) /\ locker'[t].pc = "withdraw" /\ locker'[t].held = << >>
      /\ locker' \in [Threads -> [pc : LockPcs, num : Int, held : Seq(Kinds)]]
  BY <1>0, <1>1, WritesPc
<1>5. reentrant'.num = -1 /\ reentrant'.writer = t /\ LockTypes'
  BY <1>0, <1>1, <1>4, LockFields DEF LockTypes
<1>6. ~In(t)' /\ Entering(t)' /\ ~Reading(t)' /\ Seated(t)'
  BY <1>4 DEF In, Entering, Reading, Seated
<1>7. \A u \in Threads \ {t} : ~In(u)' /\ ~Entering(u)' /\ ~Reading(u)' /\ locker'[u] = locker[u]
  BY <1>1, <1>4, Others, Beside
<1>9. \A u \in Threads : Known(u)'
  <2>1. ASSUME NEW u \in Threads \ {t} PROVE Known(u)'
    BY <1>5, <1>7 DEF Known, Entering
  <2>2. Known(t)'
    BY <1>4, <1>5, <1>6 DEF Known
  <2> QED
    BY <2>1, <2>2
<1>10. Vacant'
  BY <1>6 DEF Vacant
<1>11. \A u \in Threads : Apart(t, u)' /\ Apart(u, t)'
  BY <1>6, <1>7 DEF Apart
<1> QED
  BY <1>4, <1>5, <1>6, <1>9, <1>10, <1>11, LockParts

LEMMA LockWithdraw ==
  ASSUME LockInv, NEW t \in Threads, Reentrant!Withdraw(t)
  PROVE  LockInv'
<1>0. /\ LockTypes /\ Seated(t) /\ Known(t) /\ UNCHANGED erased
      /\ locker[t].pc = "withdraw" /\ "run" \in LockPcs
      /\ reentrant' = [reentrant EXCEPT !.waiting = reentrant.waiting - 1]
  BY DEF LockInv, LockTypes, LockPcs, Reentrant!Withdraw
<1>1. Entering(t) /\ locker[t].held = << >> /\ reentrant.num = -1
  BY <1>0 DEF Seated, Known, Entering
<1>2. locker' = [locker EXCEPT ![t].pc = "run", ![t].held = <<"write">>] /\ <<"write">> \in Seq(Kinds)
  BY <1>1, Appended DEF Reentrant!Withdraw, Reentrant!Acquired, Kinds
<1>4. /\ OnlyMoves(t) /\ locker'[t].pc = "run" /\ locker'[t].held = <<"write">>
      /\ locker' \in [Threads -> [pc : LockPcs, num : Int, held : Seq(Kinds)]]
  BY <1>0, <1>2, WritesHeld
<1>5. reentrant'.num = -1 /\ reentrant'.writer = reentrant.writer /\ LockTypes'
  BY <1>0, <1>1, <1>4, LockFields DEF LockTypes
<1>6. In(t)' /\ ~Entering(t)' /\ ~Reading(t)' /\ Seated(t)'
  BY <1>4 DEF In, Entering, Reading, Seated
<1>7. \A u \in Threads \ {t} :
        /\ ~In(u)' /\ ~Entering(u)' /\ ~Reading(u)' /\ locker'[u] = locker[u]
        /\ ~In(u) /\ ~Entering(u)
  BY <1>1, <1>4, Others, Beside
<1>9. \A u \in Threads : Known(u)'
  <2>1. ASSUME NEW u \in Threads \ {t} PROVE Known(u)'
    BY <1>5, <1>7 DEF LockInv, Known, Entering
  <2>2. Known(t)'
    BY <1>0, <1>4, <1>5, <1>6, DepthNone DEF Known
  <2> QED
    BY <2>1, <2>2
<1>10. Vacant'
  BY <1>6 DEF Vacant
<1>11. \A u \in Threads : Apart(t, u)' /\ Apart(u, t)'
  BY <1>6, <1>7 DEF Apart
<1> QED
  BY <1>4, <1>5, <1>6, <1>9, <1>10, <1>11, LockParts

LEMMA LockClearId ==
  ASSUME LockInv, NEW t \in Threads, Reentrant!ClearId(t)
  PROVE  LockInv'
<1>0. /\ LockTypes /\ Seated(t) /\ Known(t)
      /\ locker[t].pc = "clear" /\ "run" \in LockPcs
      /\ locker' = [locker EXCEPT ![t].pc = "run"]
      /\ reentrant' = [reentrant EXCEPT !.writer = Reentrant!NULL_THREAD_ID]
      /\ erased' = (erased \/ reentrant.writer \notin {t, Reentrant!NULL_THREAD_ID})
      /\ erased \in BOOLEAN
  BY DEF LockInv, LockTypes, LockPcs, Reentrant!ClearId
<1>1. ~Entering(t) /\ ~In(t) /\ ~Reading(t) /\ locker[t].held = << >>
  BY <1>0 DEF Seated, Entering, In, Reading
<1>4. /\ OnlyMoves(t) /\ locker'[t].pc = "run" /\ locker'[t].held = << >>
      /\ locker' \in [Threads -> [pc : LockPcs, num : Int, held : Seq(Kinds)]]
  BY <1>0, <1>1, WritesPc
<1>5. reentrant'.num = reentrant.num /\ reentrant'.writer = Reentrant!NULL_THREAD_ID /\ LockTypes'
  BY <1>0, <1>4, LockFields DEF LockTypes
<1>6. ~In(t)' /\ ~Entering(t)' /\ ~Reading(t)' /\ Seated(t)'
  BY <1>4 DEF In, Entering, Reading, Seated
<1>7. \A u \in Threads : /\ In(u)' <=> In(u)
                         /\ Entering(u)' <=> Entering(u)
                         /\ Reading(u)' <=> Reading(u)
                         /\ locker'[u].held = locker[u].held
                         /\ locker'[u].pc = "withdraw" <=> locker[u].pc = "withdraw"
                         /\ Reentrant!NULL_THREAD_ID # u
  BY <1>0, <1>1, <1>4, <1>6, Others, BaseAssumption DEF OnlyMoves
<1>8. ASSUME ~erased' PROVE ~erased /\ reentrant.writer \in {t, Reentrant!NULL_THREAD_ID}
  BY <1>0, <1>8
<1>9. \A u \in Threads : Known(u)'
  <2>1. ASSUME NEW u \in Threads, ~erased', In(u) \/ locker[u].pc = "withdraw" PROVE FALSE
    <3>1. reentrant.writer = u
      BY <1>8, <2>1 DEF LockInv, Known
    <3>2. u = t
      BY <1>7, <1>8, <2>1, <3>1
    <3> QED
      BY <1>0, <1>1, <2>1, <3>2
  <2> QED
    BY <1>5, <1>7, <2>1 DEF LockInv, Known
<1>10. Vacant'
  <2>1. ReadersIn' = ReadersIn
    BY <1>7 DEF ReadersIn
  <2> QED
    BY <1>5, <1>7, <1>8, <2>1 DEF LockInv, Vacant
<1>11. \A u \in Threads : Apart(t, u)' /\ Apart(u, t)'
  BY <1>7 DEF LockInv, Apart
<1> QED
  BY <1>4, <1>5, <1>6, <1>9, <1>10, <1>11, LockParts

\* What is left of the locks of a thread that releases one.
LEMMA PopOne ==
  ASSUME NEW s \in Seq(Kinds), s # << >>
  PROVE  /\ Len(s) = 1 => SubSeq(s, 1, Len(s) - 1) = << >> /\ s = <<s[1]>>
         /\ Len(s) # 1 => Len(s) > 1 /\ SubSeq(s, 1, Len(s) - 1) # << >>
<1>1. Len(s) \in Nat /\ Len(s) # 0
  OBVIOUS
<1>2. Len(s) = 1 => SubSeq(s, 1, Len(s) - 1) = << >>
  OBVIOUS
<1>3. Len(s) = 1 => s = <<s[1]>>
  OBVIOUS
<1>4. ASSUME Len(s) # 1 PROVE Len(s) > 1 /\ SubSeq(s, 1, Len(s) - 1) # << >>
  <2> DEFINE r == SubSeq(s, 1, Len(s) - 1)
  <2>0. PICK k \in Nat : k = Len(s)
    BY <1>1
  <2>1. k > 1
    <3>1. k # 0 /\ k # 1
      BY <1>1, <1>4, <2>0
    <3> HIDE <2>0
    <3> QED
      BY <3>1
  <2>2. Len(r) = k - 1
    BY <2>0, <2>1
  <2> HIDE DEF r
  <2>3. Len(r) # 0
    BY <2>1, <2>2
  <2>4. Len(<< >>) = 0
    OBVIOUS
  <2>5. r # << >>
    BY <2>3, <2>4
  <2> QED
    BY <2>0, <2>1, <2>5 DEF r
<1> QED
  BY <1>2, <1>3, <1>4

\* The last lock inside is released.
LEMMA LockLeaves ==
  ASSUME LockInv, LockTypes', NEW t \in Threads, OnlyMoves(t), In(t), locker[t].held = <<"write">>,
         locker'[t].held = << >>, reentrant'.num = reentrant.num + 1,
         locker'[t].pc = IF reentrant.num = -1 THEN "clear" ELSE "run",
         reentrant'.writer = reentrant.writer, UNCHANGED erased
  PROVE  LockInv'
<1>1. reentrant.num \in Int /\ reentrant.num <= -1 /\ Known(t) /\ Depth(locker[t].held) = 1
  <2>1. reentrant.num <= -Depth(locker[t].held) /\ reentrant.num \in Int /\ Known(t)
    BY DEF LockInv, LockTypes, Known
  <2>2. Depth(locker[t].held) = 1
    BY DepthNone
  <2> QED
    BY <2>1, <2>2
<1>2. ~In(t)' /\ ~Entering(t)' /\ ~Reading(t)' /\ Seated(t)'
  BY DEF In, Entering, Reading, Seated
<1>3. \A u \in Threads \ {t} :
        /\ ~In(u)' /\ ~Entering(u)' /\ ~Reading(u)' /\ locker'[u] = locker[u]
        /\ ~In(u) /\ ~Entering(u)
  BY Others, Beside
<1>4. ReadersIn' = {} /\ Cardinality(ReadersIn') = 0
  BY <1>2, <1>3, FS_EmptySet DEF ReadersIn
<1>5. ~erased => reentrant.num = -1
  BY <1>1 DEF Known
<1>6. Vacant'
  BY <1>1, <1>4, <1>5 DEF Vacant
<1>7. \A u \in Threads : Known(u)'
  <2>1. ASSUME NEW u \in Threads \ {t} PROVE Known(u)'
    BY <1>3 DEF LockInv, Known, Entering
  <2>2. Known(t)'
    <3>1. reentrant.writer = t => reentrant.num = -1
      BY <1>1 DEF Known
    <3>2. locker'[t].pc # "withdraw" /\ (reentrant.num = -1 => locker'[t].pc = "clear")
      OBVIOUS
    <3> QED
      BY <1>2, <3>1, <3>2 DEF Known
  <2> QED
    BY <2>1, <2>2
<1>8. \A u \in Threads : Apart(t, u)' /\ Apart(u, t)'
  BY <1>2, <1>3 DEF Apart
<1> QED
  BY <1>2, <1>6, <1>7, <1>8, LockParts

LEMMA LockWriteUnlock ==
  ASSUME LockInv, NEW t \in Threads, Reentrant!WriteUnlock(t)
  PROVE  LockInv'
<1> DEFINE s == locker[t].held
           r == SubSeq(s, 1, Len(s) - 1)
           q == IF reentrant.num = -1 THEN "clear" ELSE "run"
<1>0. /\ LockTypes /\ Seated(t) /\ Known(t) /\ UNCHANGED erased /\ reentrant.num \in Int
      /\ s \in Seq(Kinds) /\ s # << >> /\ s[Len(s)] = "write" /\ locker[t].pc = "run"
      /\ "clear" \in LockPcs /\ "run" \in LockPcs
  BY DEF LockInv, LockTypes, LockPcs, Reentrant!WriteUnlock, Reentrant!Releases
<1>1. locker' = [locker EXCEPT ![t].pc = q, ![t].held = r]
      /\ reentrant' = [reentrant EXCEPT !.num = reentrant.num + 1]
  BY DEF Reentrant!WriteUnlock, Reentrant!Released, Reentrant!WRITE_EXCLUSIVE
<1>2. In(t)
  <2>1. s # <<"read">>
    BY <1>0
  <2> QED
    BY <1>0, <2>1 DEF Seated, Reading
<1>3. r \in Seq(Kinds) /\ (r = << >> \/ r[1] = s[1]) /\ Depth(r) = Depth(s) - 1
      /\ Depth(s) \in Nat /\ (Len(s) > 1 => Depth(s) >= 2)
  BY <1>0, <1>2, DepthPop, DepthAppend, DepthAtLeast DEF In
<1>4. (Len(s) = 1 => r = << >> /\ s = <<s[1]>>) /\ (Len(s) # 1 => Len(s) > 1 /\ r # << >>)
  BY <1>0, PopOne
<1>5. s[1] = "write"
  BY <1>2 DEF In
<1>6. /\ OnlyMoves(t) /\ locker'[t].pc = q /\ locker'[t].held = r
      /\ locker' \in [Threads -> [pc : LockPcs, num : Int, held : Seq(Kinds)]]
  <2> HIDE DEF r, q
  <2>1. q \in LockPcs
    BY <1>0 DEF q
  <2>2. LockTypes /\ r \in Seq(Kinds)
    BY <1>0, <1>3
  <2>3. locker' = [locker EXCEPT ![t].pc = q, ![t].held = r]
    BY <1>1
  <2> QED
    BY <2>1, <2>2, <2>3, WritesHeld
<1>7. reentrant'.num = reentrant.num + 1 /\ reentrant'.writer = reentrant.writer /\ LockTypes'
  <2> HIDE DEF r, q
  <2>1. LockTypes /\ reentrant.num + 1 \in Int
        /\ reentrant' = [reentrant EXCEPT !.num = reentrant.num + 1]
    BY <1>0, <1>1
  <2>2. /\ reentrant'.num = reentrant.num + 1 /\ reentrant'.writer = reentrant.writer
        /\ reentrant' \in [num : Int, waiting : Int, writer : Threads \union {Reentrant!NULL_THREAD_ID}]
    BY <2>1, LockFields
  <2> QED
    BY <1>0, <1>6, <2>2 DEF LockTypes
<1>8. CASE Len(s) = 1
  BY <1>0, <1>2, <1>4, <1>5, <1>6, <1>7, <1>8, LockLeaves
<1>9. CASE Len(s) # 1
  <2>1. reentrant.num <= -Depth(s) /\ Depth(s) >= 2
    BY <1>0, <1>2, <1>3, <1>4, <1>9 DEF Known
  <2>2. locker'[t].pc = "run"
    BY <1>0, <1>3, <1>6, <2>1
  <2>3. In(t)' /\ Seated(t)'
    BY <1>3, <1>4, <1>5, <1>6, <1>9, <2>2 DEF In, Seated
  <2>4. Known(t)'
    <3>1. reentrant'.num <= -Depth(r)
      BY <1>0, <1>3, <1>7, <2>1
    <3>2. reentrant.num = -Depth(s) => reentrant'.num = -Depth(r)
      BY <1>0, <1>3, <1>7
    <3> HIDE DEF r, q, s
    <3>3. locker'[t].held = r /\ locker[t].held = s
      BY <1>6 DEF s
    <3> QED
      BY <1>0, <1>2, <1>7, <2>2, <2>3, <3>1, <3>2, <3>3 DEF Known, Entering
  <2> QED
    BY <1>0, <1>2, <1>6, <1>7, <2>2, <2>3, <2>4, LockNested
<1> QED
  BY <1>8, <1>9

LEMMA LockReadUnlock ==
  ASSUME LockInv, NEW t \in Threads, Reentrant!ReadUnlock(t)
  PROVE  LockInv'
<1> DEFINE s == locker[t].held
           r == SubSeq(s, 1, Len(s) - 1)
           n == IF reentrant.writer = t THEN reentrant.num ELSE reentrant.num - 1
<1>0. /\ LockTypes /\ Seated(t) /\ Known(t) /\ UNCHANGED erased /\ reentrant.num \in Int
      /\ s \in Seq(Kinds) /\ s # << >> /\ s[Len(s)] = "read" /\ locker[t].pc = "run"
      /\ "run" \in LockPcs /\ n \in Int
  BY DEF LockInv, LockTypes, LockPcs, Reentrant!ReadUnlock, Reentrant!Releases
<1>1. locker' = [locker EXCEPT ![t].pc = "run", ![t].held = r]
      /\ reentrant' = [reentrant EXCEPT !.num = n]
  BY DEF Reentrant!ReadUnlock, Reentrant!Released
<1>3. r \in Seq(Kinds) /\ (r = << >> \/ r[1] = s[1]) /\ Depth(r) = Depth(s) /\ Depth(s) \in Nat
  BY <1>0, DepthPop, DepthAppend
<1>4. (Len(s) = 1 => r = << >> /\ s = <<s[1]>>) /\ (Len(s) # 1 => Len(s) > 1 /\ r # << >>)
  BY <1>0, PopOne
<1>6. /\ OnlyMoves(t) /\ locker'[t].pc = "run" /\ locker'[t].held = r
      /\ locker' \in [Threads -> [pc : LockPcs, num : Int, held : Seq(Kinds)]]
  <2> HIDE DEF r
  <2>2. LockTypes /\ r \in Seq(Kinds) /\ "run" \in LockPcs
    BY <1>0, <1>3
  <2>3. locker' = [locker EXCEPT ![t].pc = "run", ![t].held = r]
    BY <1>1
  <2> QED
    BY <2>2, <2>3, WritesHeld
<1>7. reentrant'.num = n /\ reentrant'.writer = reentrant.writer /\ LockTypes'
  <2> HIDE DEF r, n
  <2> QED
    BY <1>0, <1>1, <1>6, LockFields DEF LockTypes
<1>8. CASE In(t)
  <2>1. Len(s) # 1 /\ s[1] = "write"
    BY <1>0, <1>8 DEF In
  <2>3. In(t)' /\ Seated(t)'
    BY <1>3, <1>4, <1>6, <2>1 DEF In, Seated
  <2>4. Known(t)'
    <3>1. n <= -Depth(r)
      BY <1>0, <1>3, <1>8 DEF Known
    <3>2. reentrant.writer = t => n = -Depth(r)
      BY <1>0, <1>3, <1>8 DEF Known
    <3>3. ~erased => reentrant.writer = t
      BY <1>0, <1>8 DEF Known
    <3> HIDE DEF r, n
    <3> QED
      BY <1>0, <1>6, <1>7, <2>3, <3>1, <3>2, <3>3 DEF Known, Entering
  <2> QED
    BY <1>0, <1>6, <1>7, <1>8, <2>3, <2>4, LockNested
<1>9. CASE ~In(t)
  <2>1. Reading(t) /\ s = <<"read">> /\ Len(s) = 1 /\ r = << >>
    <3>1. Reading(t) /\ s = <<"read">>
      BY <1>0, <1>9 DEF Seated, Reading
    <3>2. Len(s) = 1
      BY <3>1
    <3> QED
      BY <1>4, <3>1, <3>2
  <2>2. \A u \in Threads : ~In(u) /\ ~Entering(u)
    BY <2>1 DEF LockInv, Apart
  <2>3. t \in ReadersIn /\ reentrant.num = Cardinality(ReadersIn) /\ reentrant.writer # t
    BY <1>0, <1>9, <2>1, <2>2 DEF LockInv, Vacant, ReadersIn, Known
  <2>4. ~In(t)' /\ ~Entering(t)' /\ ~Reading(t)' /\ Seated(t)'
    BY <1>6, <2>1 DEF In, Entering, Reading, Seated
  <2>5. \A u \in Threads : ~In(u)' /\ ~Entering(u)'
    BY <1>6, <2>2, <2>4, Others
  <2>6. ReadersIn' = ReadersIn \ {t}
    BY <1>6, <2>4, Others DEF ReadersIn
  <2>7. Cardinality(ReadersIn') = Cardinality(ReadersIn) - 1
    BY <2>3, <2>6, ReadersFinite, FS_RemoveElement
  <2>8. Vacant'
    BY <1>7, <2>3, <2>7 DEF Vacant
  <2>9. \A u \in Threads : Known(u)'
    <3>1. ASSUME NEW u \in Threads \ {t} PROVE Known(u)'
      <4>1. locker'[u] = locker[u]
        BY <1>6 DEF OnlyMoves
      <4> QED
        BY <1>0, <1>7, <2>2, <2>5, <4>1 DEF LockInv, Known
    <3>2. Known(t)'
      BY <1>6, <1>7, <2>3, <2>4 DEF Known
    <3> QED
      BY <3>1, <3>2
  <2>10. \A u \in Threads : Apart(t, u)' /\ Apart(u, t)'
    BY <2>5 DEF Apart
  <2> QED
    BY <1>6, <1>7, <2>4, <2>8, <2>9, <2>10, LockParts
<1> QED
  BY <1>8, <1>9

LEMMA LockStep ==
  ASSUME LockInv, Reentrant!ReentrantNext
  PROVE  LockInv'
BY LockReads, LockReadCas, LockReadUnlock, LockWriteLock, LockWriteCas, LockStoreId, LockWithdraw,
  LockWriteUnlock, LockClearId DEF Reentrant!ReentrantNext

LEMMA LeastNat ==
  ASSUME NEW T, T \subseteq Nat, T # {}
  PROVE  \E x \in T : \A y \in T : x <= y
<1> DEFINE R == OpToRel(<, Nat)
<1>1. IsWellFoundedOn(R, Nat)
  BY NatLessThanWellFounded
<1>2. \A y, x \in Nat : <<y, x>> \in R <=> y < x
  BY DEF OpToRel
<1> HIDE DEF R
<1>3. PICK x \in T : \A y \in T : ~ (<<y, x>> \in R)
  BY <1>1, WFMin
<1>4. \A y \in T : x <= y
  <2> TAKE y \in T
  <2>1. x \in Nat /\ y \in Nat
    OBVIOUS
  <2>2. ~(y < x)
    BY <1>2, <1>3, <2>1
  <2> QED
    BY <2>1, <2>2
<1> QED
  BY <1>4

-----------------------------------------------------------------------------
(* CCObjectPool.  The list is well founded (order gives each node a rank   *)
(* above that of the next one), a remembered head is the current one if    *)
(* its count is, and a node on its way back points to the head that was    *)
(* read before it.                                                         *)

Arena == Containers!Arena
Places == 0 .. PoolSize

LEMMA ArenaIs ==
  /\ Arena = 1 .. PoolSize /\ PoolSize \in Nat /\ PoolSize > 0 /\ Places = Arena \union {0}
  /\ 0 \notin Arena /\ IsFiniteSet(Arena) /\ IsFiniteSet(Cs)
<1>1. Arena = 1 .. PoolSize /\ PoolSize \in Nat /\ PoolSize > 0 /\ IsFiniteSet(Cs)
  BY BaseAssumption DEF Arena, Containers!Arena
<1>2. IsFiniteSet(Arena)
  BY <1>1, FS_Interval
<1> QED
  BY <1>1, <1>2 DEF Places

\* A set of nodes that has the node h and, with a node, the next one by f;
\* and the nodes that h leads to.
Closed(h, f, S) ==
  /\ S \subseteq Arena /\ h \in S \union {0}
  /\ \A x \in S : f[x] \in S \union {0}
Chain(h, f) == {n \in Arena : \A S \in SUBSET Arena : Closed(h, f, S) => n \in S}
Falls(h, f, order) == \A n \in Chain(h, f) : f[n] # 0 => order[f[n]] < order[n]

LEMMA ChainClosed ==
  ASSUME NEW h \in Places, NEW f \in [Arena -> Places]
  PROVE  /\ Closed(h, f, Chain(h, f))
         /\ \A S : Closed(h, f, S) => Chain(h, f) \subseteq S
<1> DEFINE C == Chain(h, f)
<1>1. C \subseteq Arena /\ \A S : Closed(h, f, S) => C \subseteq S
  BY DEF Chain, Closed
<1>2. h \in C \union {0}
  BY ArenaIs DEF Chain, Closed
<1>3. \A x \in C : f[x] \in C \union {0}
  <2> TAKE x \in C
  <2>1. x \in Arena /\ f[x] \in Places
    BY <1>1
  <2>2. \A S \in SUBSET Arena : Closed(h, f, S) => f[x] \in S \union {0}
    BY <1>1 DEF Closed
  <2> QED
    BY <2>1, <2>2, ArenaIs DEF Chain
<1> QED
  BY <1>1, <1>2, <1>3 DEF Closed

\* Putting a node before the others.
LEMMA ChainPut ==
  ASSUME NEW h \in Places, NEW f \in [Arena -> Places], NEW n \in Arena, f[n] = h
  PROVE  Chain(n, f) = Chain(h, f) \union {n}
<1>0. n \in Places
  BY ArenaIs
<1>1. Closed(n, f, Chain(h, f) \union {n})
  BY ChainClosed DEF Closed
<1>2. Closed(h, f, Chain(n, f)) /\ n \in Chain(n, f)
  BY <1>0, ChainClosed, ArenaIs DEF Closed
<1>3. Chain(n, f) \subseteq Chain(h, f) \union {n}
  BY <1>0, <1>1, ChainClosed
<1>4. Chain(h, f) \subseteq Chain(n, f)
  BY <1>2, ChainClosed
<1> QED
  BY <1>2, <1>3, <1>4

\* Taking the first node: the others lie below it.
LEMMA ChainTake ==
  ASSUME NEW h \in Arena, NEW f \in [Arena -> Places], NEW order \in [Arena -> Nat], Falls(h, f, order)
  PROVE  Chain(f[h], f) = Chain(h, f) \ {h} /\ h \in Chain(h, f)
<1> DEFINE C == Chain(h, f)
           S == {x \in C : order[x] < order[h]}
<1>0. h \in Places /\ f[h] \in Places /\ Closed(h, f, C) /\ h \in C /\ C \subseteq Arena
  BY ChainClosed, ArenaIs DEF Closed
<1>1. Closed(f[h], f, S)
  <2>1. f[h] \in S \union {0}
    BY <1>0 DEF Closed, Falls
  <2>2. \A x \in S : f[x] \in S \union {0}
    <3> TAKE x \in S
    <3>1. x \in C /\ order[x] < order[h] /\ f[x] \in C \union {0}
      BY <1>0 DEF Closed
    <3>2. ASSUME f[x] # 0 PROVE f[x] \in C /\ order[f[x]] < order[x]
      BY <3>1, <3>2 DEF Falls
    <3>3. ASSUME f[x] # 0 PROVE order[f[x]] < order[h]
      <4>1. order[f[x]] \in Nat /\ order[x] \in Nat /\ order[h] \in Nat
        BY <1>0, <3>1, <3>2, <3>3
      <4> QED
        BY <3>1, <3>2, <3>3, <4>1
    <3> QED
      BY <3>2, <3>3
  <2> QED
    BY <1>0, <2>1, <2>2 DEF Closed
<1>2. Chain(f[h], f) \subseteq S
  BY <1>0, <1>1, ChainClosed
<1>3. h \notin S
  BY <1>0
<1>4. Closed(f[h], f, Chain(f[h], f))
  BY <1>0, ChainClosed
<1>5. Closed(h, f, Chain(f[h], f) \union {h})
  BY <1>4 DEF Closed
<1>6. C \subseteq Chain(f[h], f) \union {h}
  BY <1>0, <1>5, ChainClosed
<1> QED
  BY <1>0, <1>2, <1>3, <1>6

\* Writing the next of a node that is not in the list.
LEMMA ChainWrite ==
  ASSUME NEW h \in Places, NEW f \in [Arena -> Places], NEW n \in Arena \ Chain(h, f), NEW x \in Places
  PROVE  Chain(h, [f EXCEPT ![n] = x]) = Chain(h, f)
<1> DEFINE g == [f EXCEPT ![n] = x]
           C == Chain(h, f)
           D == Chain(h, g)
<1>1. g \in [Arena -> Places] /\ \A y \in C : g[y] = f[y]
  BY DEF Chain
<1> HIDE DEF g
<1>2. Closed(h, f, C) /\ Closed(h, g, D)
  BY <1>1, ChainClosed
<1>3. Closed(h, g, C)
  BY <1>1, <1>2 DEF Closed
<1>4. D \subseteq C
  BY <1>1, <1>3, ChainClosed
<1>5. Closed(h, f, D)
  BY <1>1, <1>2, <1>4 DEF Closed
<1>6. C \subseteq D
  BY <1>5, ChainClosed
<1> QED
  BY <1>4, <1>6 DEF g

\* The list has an end, and f leads to it.
Ordered(h, f) ==
  /\ \E order \in [Arena -> Nat] : Falls(h, f, order)
  /\ Chain(h, f) = {} \/ \E n \in Chain(h, f) : f[n] = 0

LEMMA OrderedPut ==
  ASSUME NEW h \in Places, NEW f \in [Arena -> Places], NEW n \in Arena \ Chain(h, f), f[n] = h,
         Ordered(h, f)
  PROVE  Ordered(n, f)
<1>0. Chain(n, f) = Chain(h, f) \union {n} /\ Chain(h, f) \subseteq Arena
      /\ h \in Chain(h, f) \union {0} /\ \A x \in Chain(h, f) : f[x] \in Chain(h, f) \union {0}
  BY ChainPut, ChainClosed DEF Closed
<1>1. PICK order \in [Arena -> Nat] : Falls(h, f, order)
  BY DEF Ordered
<1> DEFINE above == [order EXCEPT ![n] = IF h = 0 THEN 0 ELSE order[h] + 1]
<1>2. ASSUME h # 0 PROVE h \in Arena /\ h # n /\ order[h] \in Nat
  BY <1>0, <1>2
<1>3. above \in [Arena -> Nat]
  BY <1>2
<1>4. Falls(n, f, above)
  <2> SUFFICES ASSUME NEW x \in Chain(n, f), f[x] # 0 PROVE above[f[x]] < above[x]
    BY DEF Falls
  <2>1. CASE x = n
    BY <1>2, <2>1
  <2>2. CASE x # n
    <3>1. x \in Chain(h, f) /\ f[x] \in Chain(h, f) /\ f[x] # n
      BY <1>0, <2>2
    <3> QED
      BY <1>0, <1>1, <2>2, <3>1 DEF Falls
  <2> QED
    BY <2>1, <2>2
<1>5. \E x \in Chain(n, f) : f[x] = 0
  <2>1. CASE Chain(h, f) = {}
    BY <1>0, <2>1
  <2>2. CASE Chain(h, f) # {}
    BY <1>0, <2>2 DEF Ordered
  <2> QED
    BY <2>1, <2>2
<1> HIDE DEF above
<1> QED
  BY <1>3, <1>4, <1>5 DEF Ordered

LEMMA OrderedTake ==
  ASSUME NEW h \in Arena, NEW f \in [Arena -> Places], Ordered(h, f)
  PROVE  /\ Ordered(f[h], f)
         /\ Chain(f[h], f) = Chain(h, f) \ {h} /\ h \in Chain(h, f)
<1>1. PICK order \in [Arena -> Nat] : Falls(h, f, order)
  BY DEF Ordered
<1>2. Chain(f[h], f) = Chain(h, f) \ {h} /\ h \in Chain(h, f)
  BY <1>1, ChainTake
<1>3. Falls(f[h], f, order)
  BY <1>1, <1>2 DEF Falls
<1>4. Chain(f[h], f) = {} \/ \E n \in Chain(f[h], f) : f[n] = 0
  <2>1. PICK n \in Chain(h, f) : f[n] = 0
    BY <1>2 DEF Ordered
  <2>2. CASE n = h
    <3>1. Closed(f[h], f, {})
      BY <2>1, <2>2 DEF Closed
    <3> QED
      BY <2>1, <2>2, <3>1, ChainClosed, ArenaIs
  <2> QED
    BY <1>2, <2>1, <2>2
<1> QED
  BY <1>2, <1>3, <1>4 DEF Ordered

LEMMA OrderedWrite ==
  ASSUME NEW h \in Places, NEW f \in [Arena -> Places], NEW n \in Arena \ Chain(h, f), NEW x \in Places,
         Ordered(h, f)
  PROVE  Ordered(h, [f EXCEPT ![n] = x]) /\ Chain(h, [f EXCEPT ![n] = x]) = Chain(h, f)
<1> DEFINE g == [f EXCEPT ![n] = x]
<1>1. \A y \in Chain(h, f) : g[y] = f[y]
  BY DEF Chain
<1>2. Chain(h, g) = Chain(h, f)
  BY ChainWrite
<1> HIDE DEF g
<1>3. Ordered(h, g)
  BY <1>1, <1>2 DEF Ordered, Falls
<1> QED
  BY <1>2, <1>3 DEF g

Free == Chain(free_head_.node, nexts)
Owned == Containers!Owned
Returning == Containers!Returning
Heads == [count : Nat, net : Int, node : Places]
PoolPcs == {"run", "next", "take", "link", "put"}
PoolUsers == [pc : PoolPcs, old : Heads, next : Places, node : Places, owns : SUBSET Arena]

ObjectTypes ==
  /\ free_head_ \in Heads /\ nexts \in [Arena -> Places]
  /\ user \in [Cs -> PoolUsers]

Remembers(u) ==
  /\ user[u].old.count <= free_head_.count
  /\ user[u].old.count = free_head_.count => user[u].old = free_head_
  /\ user[u].pc \in {"next", "take"} => user[u].old.node # 0
  /\ user[u].pc = "take" /\ user[u].old = free_head_ => user[u].next = nexts[user[u].old.node]
  /\ user[u].pc = "put" => nexts[user[u].node] = user[u].old.node
  /\ user[u].node # 0 <=> user[u].pc \in {"link", "put"}

Apiece ==
  \A u, w \in Cs : u # w =>
    /\ user[u].owns \intersect user[w].owns = {}
    /\ user[u].node = 0 \/ user[u].node # user[w].node

Partition ==
  /\ Free \union Owned \union Returning = Arena
  /\ Free \intersect (Owned \union Returning) = {} /\ Owned \intersect Returning = {}
  /\ free_head_.net = Cardinality(Owned \union Returning)

ObjectInv ==
  /\ ObjectTypes /\ Ordered(free_head_.node, nexts) /\ Partition /\ Apiece
  /\ \A u \in Cs : Remembers(u)

LEMMA FreeIs == Containers!Free = Free
BY DEF Free, Containers!Free, Chain, Closed, Arena, Containers!NoNode

LEMMA OutsAre ==
  /\ \A n : n \in Owned <=> \E u \in Cs : n \in user[u].owns
  /\ \A n : n \in Returning <=> n # 0 /\ \E u \in Cs : user[u].node = n
BY DEF Owned, Containers!Owned, Returning, Containers!Returning, Containers!NoNode

LEMMA OutsFinite ==
  ASSUME ObjectInv
  PROVE  IsFiniteSet(Owned \union Returning) /\ Cardinality(Owned \union Returning) \in Nat
<1>1. Owned \union Returning \subseteq Arena
  BY DEF ObjectInv, Partition
<1> QED
  BY <1>1, ArenaIs, FS_Subset, FS_CardinalityType

LEMMA ObjectSafe == ObjectInv => Containers!PoolIsPartitioned
<1> SUFFICES ASSUME ObjectInv PROVE Containers!PoolIsPartitioned
  OBVIOUS
<1>1. /\ Containers!Free \union Containers!Owned \union Containers!Returning = Containers!Arena
      /\ Containers!Free \intersect (Containers!Owned \union Containers!Returning) = {}
      /\ Containers!Owned \intersect Containers!Returning = {}
      /\ free_head_.net = Containers!Cardinality(Containers!Owned \union Containers!Returning)
  BY FreeIs, ContainersCardinality DEF ObjectInv, Partition, Owned, Returning, Arena
<1>2. Containers!Free # {} => \E n \in Containers!Free : nexts[n] = Containers!NoNode
  BY FreeIs DEF ObjectInv, Ordered, Free, Containers!NoNode
<1>3. \A u, w \in Cs : u # w =>
        /\ user[u].owns \intersect user[w].owns = {}
        /\ user[u].node = Containers!NoNode \/ user[u].node # user[w].node
  BY DEF ObjectInv, Apiece, Containers!NoNode
<1> QED
  BY <1>1, <1>2, <1>3 DEF Containers!PoolIsPartitioned

\* All nodes are on the list that the constructor writes.
LEMMA ObjectStart == Containers!ObjectPoolInit => ObjectInv
<1> SUFFICES ASSUME Containers!ObjectPoolInit PROVE ObjectInv
  OBVIOUS
<1>1. /\ nexts = [n \in Arena |-> IF n = PoolSize THEN 0 ELSE n + 1]
      /\ free_head_ = [count |-> 0, net |-> 0, node |-> 1]
      /\ user = [u \in Cs |-> [pc |-> "run", old |-> free_head_, next |-> 0, node |-> 0, owns |-> {}]]
  BY DEF Containers!ObjectPoolInit, Containers!NoNode, Arena
<1>2. nexts \in [Arena -> Places] /\ free_head_ \in Heads /\ 1 \in Arena /\ 1 \in Places
  <2>1. \A n \in Arena : (IF n = PoolSize THEN 0 ELSE n + 1) \in Places
    BY ArenaIs DEF Places
  <2>2. 1 \in Arena /\ 1 \in Places
    BY ArenaIs DEF Places
  <2> QED
    BY <1>1, <2>1, <2>2 DEF Heads
<1>3. ObjectTypes
  <2>1. [pc |-> "run", old |-> free_head_, next |-> 0, node |-> 0, owns |-> {}] \in PoolUsers
    BY <1>2, ArenaIs DEF PoolUsers, PoolPcs
  <2> QED
    BY <1>1, <1>2, <2>1 DEF ObjectTypes
<1>4. \A u \in Cs : user[u].owns = {} /\ user[u].node = 0 /\ user[u].pc = "run" /\ user[u].old = free_head_
  BY <1>1
<1>5. Closed(1, nexts, Free) /\ Free \subseteq Arena
  BY <1>1, <1>2, ChainClosed DEF Free, Closed
<1>6. Free = Arena
  <2> SUFFICES ASSUME Arena \ Free # {} PROVE FALSE
    BY <1>5
  <2>1. Arena \ Free \subseteq Nat
    BY ArenaIs
  <2>2. PICK x \in Arena \ Free : \A y \in Arena \ Free : x <= y
    BY <2>1, LeastNat
  <2>3. x # 1
    BY <1>2, <1>5, ArenaIs DEF Closed
  <2>4. x - 1 \in Arena /\ x - 1 # PoolSize /\ x \in Nat /\ ~(x <= x - 1)
    BY <2>3, ArenaIs
  <2>5. x - 1 \in Free /\ nexts[x - 1] = x
    BY <1>1, <2>2, <2>4
  <2> QED
    BY <1>5, <2>4, <2>5, ArenaIs DEF Closed
<1>7. Ordered(free_head_.node, nexts)
  <2> DEFINE order == [n \in Arena |-> PoolSize - n]
  <2>1. order \in [Arena -> Nat]
    BY ArenaIs
  <2>2. Falls(free_head_.node, nexts, order)
    <3> SUFFICES ASSUME NEW n \in Arena, nexts[n] # 0 PROVE order[nexts[n]] < order[n]
      BY <1>6 DEF Falls, Free
    <3>1. nexts[n] = n + 1 /\ n # PoolSize
      BY <1>1
    <3>2. n + 1 \in Arena /\ n \in Nat
      BY <3>1, ArenaIs
    <3>3. order[n + 1] = PoolSize - (n + 1) /\ order[n] = PoolSize - n
      BY <3>2
    <3> QED
      BY <3>1, <3>2, <3>3, ArenaIs
  <2>3. PoolSize \in Arena /\ nexts[PoolSize] = 0
    BY <1>1, ArenaIs
  <2> HIDE DEF order
  <2> QED
    BY <1>6, <2>1, <2>2, <2>3 DEF Ordered, Free
<1>8. Owned = {} /\ Returning = {}
  BY <1>4, OutsAre
<1>9. Partition
  BY <1>1, <1>6, <1>8, FS_EmptySet DEF Partition
<1>10. Apiece
  BY <1>4 DEF Apiece
<1>11. \A u \in Cs : Remembers(u)
  BY <1>1, <1>4 DEF Remembers
<1> QED
  BY <1>3, <1>7, <1>9, <1>10, <1>11 DEF ObjectInv

\* Only u has moved.
OnlyUser(u) == user' \in [Cs -> PoolUsers] /\ \A w \in Cs \ {u} : user'[w] = user[w]

\* A step that leaves every node where it is.
LEMMA ObjectQuiet ==
  ASSUME ObjectInv, NEW u \in Cs, OnlyUser(u), UNCHANGED <<free_head_, nexts>>,
         user'[u].owns = user[u].owns, user'[u].node = user[u].node, Remembers(u)'
  PROVE  ObjectInv'
<1>1. ObjectTypes'
  BY DEF ObjectInv, ObjectTypes, OnlyUser
<1>2. \A w \in Cs : user'[w].owns = user[w].owns /\ user'[w].node = user[w].node
  BY DEF OnlyUser
<1>3. Owned' = Owned /\ Returning' = Returning
  BY <1>2 DEF Owned, Containers!Owned, Returning, Containers!Returning, Containers!NoNode
<1>4. Free' = Free
  BY DEF Free
<1>5. Partition'
  BY <1>3, <1>4 DEF ObjectInv, Partition
<1>6. Apiece'
  BY <1>2 DEF ObjectInv, Apiece
<1>7. \A w \in Cs : Remembers(w)'
  BY DEF ObjectInv, Remembers, OnlyUser
<1>8. Ordered(free_head_.node, nexts)'
  BY DEF ObjectInv
<1> QED
  BY <1>1, <1>5, <1>6, <1>7, <1>8 DEF ObjectInv

LEMMA ObjectLoads ==
  ASSUME ObjectInv, NEW u \in Cs,
         \/ Containers!Load(u) \/ Containers!ReadNext(u) \/ Containers!TakeFails(u)
         \/ Containers!PutFails(u)
  PROVE  ObjectInv'
<1>0. /\ ObjectTypes /\ UNCHANGED <<free_head_, nexts>> /\ Remembers(u) /\ user[u] \in PoolUsers
      /\ PoolPcs = {"run", "next", "take", "link", "put"}
      /\ free_head_ \in Heads /\ free_head_.node \in Places
  BY DEF ObjectInv, ObjectTypes, PoolPcs, Heads, Containers!Load, Containers!ReadNext,
    Containers!TakeFails, Containers!PutFails
<1>1. CASE Containers!Load(u)
  <2>1. user' = [user EXCEPT ![u].pc = "next", ![u].old = free_head_] /\ user[u].pc = "run"
        /\ free_head_.node # 0
    BY <1>1 DEF Containers!Load, Containers!NoNode
  <2>2. /\ OnlyUser(u) /\ user'[u].owns = user[u].owns /\ user'[u].node = user[u].node
        /\ user'[u].pc = "next" /\ user'[u].old = free_head_
    BY <1>0, <2>1 DEF ObjectTypes, OnlyUser, PoolUsers
  <2>3. Remembers(u)'
    BY <1>0, <2>1, <2>2 DEF Remembers, Heads
  <2> QED
    BY <1>0, <2>2, <2>3, ObjectQuiet
<1>2. CASE Containers!ReadNext(u)
  <2>1. user' = [user EXCEPT ![u].pc = "take", ![u].next = nexts[user[u].old.node]]
        /\ user[u].pc = "next"
    BY <1>2 DEF Containers!ReadNext
  <2>2. nexts[user[u].old.node] \in Places
    <3>1. user[u].old.node \in Places /\ user[u].old.node # 0
      BY <1>0, <2>1 DEF Remembers, PoolUsers, Heads
    <3> QED
      BY <1>0, <3>1, ArenaIs DEF ObjectTypes
  <2>3. /\ OnlyUser(u) /\ user'[u].owns = user[u].owns /\ user'[u].node = user[u].node
        /\ user'[u].pc = "take" /\ user'[u].old = user[u].old
        /\ user'[u].next = nexts[user[u].old.node]
    BY <1>0, <2>1, <2>2 DEF ObjectTypes, OnlyUser, PoolUsers
  <2>4. Remembers(u)'
    BY <1>0, <2>1, <2>3 DEF Remembers
  <2> QED
    BY <1>0, <2>3, <2>4, ObjectQuiet
<1>3. CASE Containers!TakeFails(u)
  <2> DEFINE q == IF free_head_.node = 0 THEN "run" ELSE "next"
  <2>1. user' = [user EXCEPT ![u].pc = q, ![u].old = free_head_] /\ user[u].pc = "take"
    BY <1>3 DEF Containers!TakeFails, Containers!NoNode
  <2>2. q \in PoolPcs /\ q \notin {"take", "link", "put"} /\ (q = "next" => free_head_.node # 0)
    BY <1>0
  <2> HIDE DEF q
  <2>3. /\ OnlyUser(u) /\ user'[u].owns = user[u].owns /\ user'[u].node = user[u].node
        /\ user'[u].pc = q /\ user'[u].old = free_head_
    BY <1>0, <2>1, <2>2 DEF ObjectTypes, OnlyUser, PoolUsers
  <2>4. Remembers(u)'
    BY <1>0, <2>1, <2>2, <2>3 DEF Remembers, Heads
  <2> QED
    BY <1>0, <2>3, <2>4, ObjectQuiet
<1>4. CASE Containers!PutFails(u)
  <2>1. user' = [user EXCEPT ![u].pc = "link", ![u].old = free_head_] /\ user[u].pc = "put"
    BY <1>4 DEF Containers!PutFails
  <2>2. /\ OnlyUser(u) /\ user'[u].owns = user[u].owns /\ user'[u].node = user[u].node
        /\ user'[u].pc = "link" /\ user'[u].old = free_head_
    BY <1>0, <2>1 DEF ObjectTypes, OnlyUser, PoolUsers
  <2>3. Remembers(u)'
    BY <1>0, <2>1, <2>2 DEF Remembers, Heads
  <2> QED
    BY <1>0, <2>2, <2>3, ObjectQuiet
<1> QED
  BY <1>1, <1>2, <1>3, <1>4

LEMMA HeadIsFree ==
  ASSUME ObjectInv
  PROVE  /\ free_head_.node \in Places /\ Free \subseteq Arena
         /\ free_head_.node # 0 => free_head_.node \in Free
<1>1. free_head_.node \in Places /\ nexts \in [Arena -> Places]
  BY DEF ObjectInv, ObjectTypes, Heads
<1>2. Closed(free_head_.node, nexts, Free)
  BY <1>1, ChainClosed DEF Free
<1> QED
  BY <1>1, <1>2 DEF Closed

LEMMA ObjectLink ==
  ASSUME ObjectInv, NEW u \in Cs, Containers!Link(u)
  PROVE  ObjectInv'
<1> DEFINE n == user[u].node
           o == user[u].old.node
<1>0. /\ ObjectTypes /\ UNCHANGED free_head_ /\ Remembers(u) /\ user[u] \in PoolUsers
      /\ user[u].pc = "link" /\ "put" \in PoolPcs
      /\ nexts' = [nexts EXCEPT ![n] = o] /\ user' = [user EXCEPT ![u].pc = "put"]
      /\ o \in Places /\ n \in Places /\ nexts \in [Arena -> Places]
  BY DEF ObjectInv, ObjectTypes, PoolPcs, Heads, PoolUsers, Containers!Link
<1>1. n # 0 /\ n \in Arena /\ n \in Returning /\ n \notin Free
  <2>1. n # 0
    BY <1>0 DEF Remembers
  <2>2. n \in Returning
    BY <2>1, OutsAre
  <2> QED
    BY <1>0, <2>1, <2>2, ArenaIs DEF ObjectInv, Partition
<1>2. /\ OnlyUser(u) /\ user'[u].pc = "put" /\ user'[u].old = user[u].old
      /\ user'[u].owns = user[u].owns /\ user'[u].node = n
  BY <1>0 DEF ObjectTypes, OnlyUser, PoolUsers
<1>3. \A w \in Cs : user'[w].owns = user[w].owns /\ user'[w].node = user[w].node
  BY <1>2 DEF OnlyUser
<1>4. Owned' = Owned /\ Returning' = Returning
  BY <1>3 DEF Owned, Containers!Owned, Returning, Containers!Returning, Containers!NoNode
<1> HIDE DEF n, o
<1>5. nexts' \in [Arena -> Places] /\ nexts'[n] = o /\ \A x \in Arena : x # n => nexts'[x] = nexts[x]
  BY <1>0, <1>1
<1>6. Free' = Free /\ Ordered(free_head_.node, nexts)'
  <2>1. /\ Ordered(free_head_.node, nexts')
        /\ Chain(free_head_.node, nexts') = Chain(free_head_.node, nexts)
    <3>1. n \in Arena \ Chain(free_head_.node, nexts) /\ free_head_.node \in Places
      BY <1>1, HeadIsFree DEF Free
    <3>2. Ordered(free_head_.node, nexts) /\ nexts \in [Arena -> Places] /\ o \in Places
      BY <1>0 DEF ObjectInv
    <3> QED
      BY <1>0, <3>1, <3>2, OrderedWrite
  <2> QED
    BY <1>0, <2>1 DEF Free
<1>7. ObjectTypes'
  BY <1>0, <1>2, <1>5 DEF ObjectTypes, OnlyUser
<1>8. Partition'
  BY <1>0, <1>4, <1>6 DEF ObjectInv, Partition
<1>9. Apiece'
  BY <1>3 DEF ObjectInv, Apiece
<1>10. ASSUME NEW w \in Cs \ {u} PROVE Remembers(w)'
  <2>1. user'[w] = user[w] /\ Remembers(w) /\ user[w] \in PoolUsers
    BY <1>2 DEF OnlyUser, ObjectInv, ObjectTypes
  <2>2. ASSUME user[w].pc = "take", user[w].old = free_head_
        PROVE  nexts'[user[w].old.node] = nexts[user[w].old.node]
    <3>1. user[w].old.node # 0
      BY <2>1, <2>2 DEF Remembers
    <3>2. user[w].old.node \in Free
      BY <2>2, <3>1, HeadIsFree
    <3> QED
      BY <1>1, <1>5, <3>2, HeadIsFree
  <2>3. ASSUME user[w].pc = "put" PROVE nexts'[user[w].node] = nexts[user[w].node]
    <3>1. user[w].node # 0 /\ user[w].node \in Places
      BY <2>1, <2>3 DEF Remembers, PoolUsers
    <3>2. user[w].node # n
      BY <3>1 DEF ObjectInv, Apiece, n
    <3> QED
      BY <1>5, <3>1, <3>2, ArenaIs
  <2> QED
    BY <1>0, <2>1, <2>2, <2>3 DEF Remembers
<1>11. Remembers(u)'
  BY <1>0, <1>1, <1>2, <1>5 DEF Remembers, o
<1> QED
  BY <1>6, <1>7, <1>8, <1>9, <1>10, <1>11 DEF ObjectInv

\* Remembered heads after the head has changed.
LEMMA RemembersOld ==
  ASSUME ObjectInv, NEW u \in Cs, NEW w \in Cs, user'[w] = user[w], UNCHANGED nexts,
         free_head_'.count = free_head_.count + 1
  PROVE  Remembers(w)'
<1>1. Remembers(w) /\ user[w].old.count \in Nat /\ free_head_.count \in Nat
  BY DEF ObjectInv, ObjectTypes, PoolUsers, Heads
<1>2. user'[w].old # free_head_' /\ user'[w].old.count <= free_head_'.count
      /\ user'[w].old.count # free_head_'.count
  BY <1>1 DEF Remembers
<1> QED
  BY <1>1, <1>2 DEF Remembers

LEMMA ObjectTake ==
  ASSUME ObjectInv, NEW u \in Cs, Containers!Take(u)
  PROVE  ObjectInv'
<1> DEFINE h == free_head_.node
<1>0. /\ ObjectTypes /\ UNCHANGED nexts /\ Remembers(u) /\ user[u] \in PoolUsers
      /\ user[u].pc = "take" /\ "run" \in PoolPcs /\ user[u].old = free_head_
      /\ free_head_' = [count |-> free_head_.count + 1, net |-> free_head_.net + 1,
                        node |-> user[u].next]
      /\ user' = [user EXCEPT ![u].pc = "run", ![u].owns = user[u].owns \union {h}]
      /\ nexts \in [Arena -> Places] /\ free_head_ \in Heads
  BY DEF ObjectInv, ObjectTypes, PoolPcs, Containers!Take
<1>1. h # 0 /\ h \in Free /\ h \in Arena /\ user[u].next = nexts[h] /\ user[u].node = 0
  <2>1. h # 0 /\ user[u].next = nexts[h] /\ user[u].node = 0
    BY <1>0 DEF Remembers
  <2> QED
    BY <2>1, HeadIsFree
<1>2. /\ OnlyUser(u) /\ user'[u].pc = "run" /\ user'[u].old = user[u].old
      /\ user'[u].owns = user[u].owns \union {h} /\ user'[u].node = 0
  <2>1. user[u].owns \union {h} \in SUBSET Arena
    BY <1>0, <1>1 DEF PoolUsers
  <2> HIDE DEF h
  <2> QED
    BY <1>0, <1>1, <2>1 DEF ObjectTypes, OnlyUser, PoolUsers
<1>3. /\ free_head_'.count = free_head_.count + 1 /\ free_head_'.net = free_head_.net + 1
      /\ free_head_'.node = nexts[h] /\ free_head_' \in Heads
      /\ free_head_.count \in Nat /\ free_head_.net \in Int
  <2>1. nexts[h] \in Places
    BY <1>0, <1>1
  <2> QED
    BY <1>0, <1>1, <2>1 DEF Heads
<1>4. Ordered(free_head_.node, nexts)' /\ Free' = Free \ {h}
  <2>1. Ordered(nexts[h], nexts) /\ Chain(nexts[h], nexts) = Free \ {h}
    BY <1>0, <1>1, OrderedTake DEF ObjectInv, Free
  <2> QED
    BY <1>0, <1>3, <2>1 DEF Free
<1>5. ObjectTypes'
  BY <1>0, <1>2, <1>3 DEF ObjectTypes, OnlyUser
<1> HIDE DEF h
<1>6. h \notin Owned /\ h \notin Returning
  BY <1>1 DEF ObjectInv, Partition
<1>7. Returning' = Returning
  <2>1. \A w \in Cs : user'[w].node = user[w].node
    BY <1>1, <1>2 DEF OnlyUser
  <2> QED
    BY <2>1 DEF Returning, Containers!Returning
<1>8. Owned' = Owned \union {h}
  <2>1. \A n : n \in Owned' <=> \E w \in Cs : n \in user'[w].owns
    BY DEF Owned, Containers!Owned
  <2> QED
    BY <1>2, <2>1, OutsAre DEF OnlyUser
<1>9. Partition'
  <2>1. Owned' \union Returning' = (Owned \union Returning) \union {h}
    BY <1>7, <1>8
  <2>2. Cardinality((Owned \union Returning) \union {h}) = Cardinality(Owned \union Returning) + 1
    BY <1>6, OutsFinite, FS_AddElement
  <2>3. free_head_'.net = Cardinality(Owned' \union Returning')
    BY <1>3, <2>1, <2>2 DEF ObjectInv, Partition
  <2> QED
    BY <1>1, <1>4, <1>6, <1>7, <1>8, <2>3 DEF ObjectInv, Partition, Arena
<1>10. Apiece'
  <2>1. \A w \in Cs : h \notin user[w].owns
    BY <1>6, OutsAre
  <2> QED
    BY <1>1, <1>2, <2>1 DEF ObjectInv, Apiece, OnlyUser
<1>11. \A w \in Cs \ {u} : Remembers(w)'
  BY <1>0, <1>2, <1>3, RemembersOld DEF OnlyUser
<1>12. Remembers(u)'
  <2>1. user'[u].old.count < free_head_'.count /\ user'[u].old # free_head_'
        /\ user'[u].old.count # free_head_'.count
    BY <1>0, <1>2, <1>3
  <2> QED
    BY <1>2, <1>3, <2>1, <1>0 DEF Remembers
<1> QED
  BY <1>4, <1>5, <1>9, <1>10, <1>11, <1>12 DEF ObjectInv

LEMMA ObjectRelease ==
  ASSUME ObjectInv, NEW u \in Cs, NEW n \in Arena, Containers!Release(u, n)
  PROVE  ObjectInv'
<1>0. /\ ObjectTypes /\ UNCHANGED <<free_head_, nexts>> /\ Remembers(u) /\ user[u] \in PoolUsers
      /\ user[u].pc = "run" /\ "link" \in PoolPcs /\ n \in user[u].owns
      /\ user' = [user EXCEPT ![u].pc = "link", ![u].old = free_head_, ![u].node = n,
                              ![u].owns = user[u].owns \ {n}]
      /\ free_head_ \in Heads
  BY DEF ObjectInv, ObjectTypes, PoolPcs, Containers!Release
<1>1. n # 0 /\ n \in Places /\ n \in Owned /\ n \notin Returning /\ n \notin Free /\ user[u].node = 0
  BY <1>0, ArenaIs, OutsAre DEF ObjectInv, Partition, Remembers
<1>2. /\ OnlyUser(u) /\ user'[u].pc = "link" /\ user'[u].old = free_head_
      /\ user'[u].owns = user[u].owns \ {n} /\ user'[u].node = n
  <2>1. user[u].owns \ {n} \in SUBSET Arena
    BY <1>0 DEF PoolUsers
  <2> QED
    BY <1>0, <1>1, <2>1 DEF ObjectTypes, OnlyUser, PoolUsers
<1>3. ObjectTypes'
  BY <1>0, <1>2 DEF ObjectTypes, OnlyUser
<1>4. Free' = Free /\ Ordered(free_head_.node, nexts)'
  BY <1>0 DEF ObjectInv, Free
<1>5. \A w \in Cs \ {u} : n \notin user[w].owns
  BY <1>0 DEF ObjectInv, Apiece
<1>6. Owned' = Owned \ {n}
  <2>1. \A x : x \in Owned' <=> \E w \in Cs : x \in user'[w].owns
    BY DEF Owned, Containers!Owned
  <2> QED
    BY <1>2, <1>5, <2>1, OutsAre DEF OnlyUser
<1>7. Returning' = Returning \union {n}
  <2>1. \A x : x \in Returning' <=> x # 0 /\ \E w \in Cs : user'[w].node = x
    BY DEF Returning, Containers!Returning, Containers!NoNode
  <2> QED
    BY <1>1, <1>2, <2>1, OutsAre DEF OnlyUser
<1>8. Partition'
  <2>1. Owned' \union Returning' = Owned \union Returning
    BY <1>1, <1>6, <1>7
  <2> QED
    BY <1>0, <1>1, <1>4, <1>6, <1>7, <2>1 DEF ObjectInv, Partition
<1>9. Apiece'
  <2>1. \A w \in Cs : user[w].node # n
    BY <1>1, OutsAre
  <2> QED
    BY <1>2, <2>1 DEF ObjectInv, Apiece, OnlyUser
<1>10. \A w \in Cs \ {u} : Remembers(w)'
  BY <1>0, <1>2 DEF ObjectInv, Remembers, OnlyUser
<1>11. Remembers(u)'
  <2>1. UNCHANGED free_head_ /\ free_head_.count \in Nat
    BY <1>0 DEF Heads
  <2> QED
    BY <1>1, <1>2, <2>1 DEF Remembers
<1> QED
  BY <1>3, <1>4, <1>8, <1>9, <1>10, <1>11 DEF ObjectInv

LEMMA ObjectPut ==
  ASSUME ObjectInv, NEW u \in Cs, Containers!Put(u)
  PROVE  ObjectInv'
<1> DEFINE n == user[u].node
           h == free_head_.node
<1>0. /\ ObjectTypes /\ UNCHANGED nexts /\ Remembers(u) /\ user[u] \in PoolUsers
      /\ user[u].pc = "put" /\ "run" \in PoolPcs /\ user[u].old = free_head_
      /\ free_head_' = [count |-> free_head_.count + 1, net |-> free_head_.net - 1, node |-> n]
      /\ user' = [user EXCEPT ![u].pc = "run", ![u].node = 0]
      /\ nexts \in [Arena -> Places] /\ free_head_ \in Heads
  BY DEF ObjectInv, ObjectTypes, PoolPcs, Containers!Put, Containers!NoNode
<1>1. n # 0 /\ n \in Arena /\ n \in Returning /\ n \notin Free /\ n \notin Owned /\ nexts[n] = h
      /\ h \in Places /\ n \in Places
  <2>1. n # 0 /\ nexts[n] = h
    BY <1>0 DEF Remembers
  <2>2. n \in Returning
    BY <2>1, OutsAre
  <2> QED
    BY <1>0, <2>1, <2>2, ArenaIs, HeadIsFree DEF ObjectInv, Partition, PoolUsers
<1>2. /\ OnlyUser(u) /\ user'[u].pc = "run" /\ user'[u].old = user[u].old
      /\ user'[u].owns = user[u].owns /\ user'[u].node = 0
  BY <1>0, ArenaIs DEF ObjectTypes, OnlyUser, PoolUsers
<1> HIDE DEF n, h
<1>3. /\ free_head_'.count = free_head_.count + 1 /\ free_head_'.net = free_head_.net - 1
      /\ free_head_'.node = n /\ free_head_' \in Heads
      /\ free_head_.count \in Nat /\ free_head_.net \in Int
  BY <1>0, <1>1 DEF Heads
<1>4. Ordered(free_head_.node, nexts)' /\ Free' = Free \union {n}
  <2>1. n \in Arena \ Chain(h, nexts) /\ Ordered(h, nexts) /\ Free = Chain(h, nexts)
    BY <1>1 DEF ObjectInv, Free, h
  <2>2. Ordered(n, nexts) /\ Chain(n, nexts) = Chain(h, nexts) \union {n}
    BY <1>0, <1>1, <2>1, OrderedPut, ChainPut
  <2> QED
    BY <1>0, <1>3, <2>1, <2>2 DEF Free
<1>5. ObjectTypes'
  BY <1>0, <1>2, <1>3 DEF ObjectTypes, OnlyUser
<1>6. \A w \in Cs \ {u} : user[w].node # n
  BY <1>1 DEF ObjectInv, Apiece, n
<1>7. Returning' = Returning \ {n}
  <2>1. \A x : x \in Returning' <=> x # 0 /\ \E w \in Cs : user'[w].node = x
    BY DEF Returning, Containers!Returning, Containers!NoNode
  <2>2. user[u].node = n
    BY DEF n
  <2> QED
    BY <1>2, <1>6, <2>1, <2>2, OutsAre DEF OnlyUser
<1>8. Owned' = Owned
  <2>1. \A w \in Cs : user'[w].owns = user[w].owns
    BY <1>2 DEF OnlyUser
  <2> QED
    BY <2>1 DEF Owned, Containers!Owned
<1>9. Partition'
  <2>1. Owned' \union Returning' = (Owned \union Returning) \ {n} /\ n \in Owned \union Returning
    BY <1>1, <1>7, <1>8
  <2>2. Cardinality((Owned \union Returning) \ {n}) = Cardinality(Owned \union Returning) - 1
    BY <2>1, OutsFinite, FS_RemoveElement
  <2>3. free_head_'.net = Cardinality(Owned' \union Returning')
    BY <1>3, <2>1, <2>2 DEF ObjectInv, Partition
  <2> QED
    BY <1>1, <1>4, <1>7, <1>8, <2>3 DEF ObjectInv, Partition, Arena
<1>10. Apiece'
  BY <1>2 DEF ObjectInv, Apiece, OnlyUser
<1>11. \A w \in Cs \ {u} : Remembers(w)'
  BY <1>0, <1>2, <1>3, RemembersOld DEF OnlyUser
<1>12. Remembers(u)'
  <2>1. user'[u].old.count < free_head_'.count /\ user'[u].old # free_head_'
        /\ user'[u].old.count # free_head_'.count
    BY <1>0, <1>2, <1>3
  <2> QED
    BY <1>2, <1>3, <2>1, <1>0 DEF Remembers
<1> QED
  BY <1>4, <1>5, <1>9, <1>10, <1>11, <1>12 DEF ObjectInv

LEMMA ObjectStep ==
  ASSUME ObjectInv, Containers!ObjectPoolNext
  PROVE  ObjectInv'
BY ObjectLoads, ObjectLink, ObjectTake, ObjectRelease, ObjectPut
  DEF Containers!ObjectPoolNext, Arena

-----------------------------------------------------------------------------
(* AtomicHashMap.  key and next are those of the entries; Reach(next) are  *)
(* the entries that head_ leads to.                                        *)

Entries == Containers!Entries
Null == Containers!Null
Nexts == Entries \union {Null}

Leads(next, S) ==
  /\ S \subseteq Entries /\ 0 \in S
  /\ \A x \in S : next[x] = Null \/ next[x] \in S
Reach(next) == {e \in Entries : \A S \in SUBSET Entries : Leads(next, S) => e \in S}

\* The list is sorted, has one entry per key, and skips none.
Sorted(key, next) ==
  /\ key[0] = 0 /\ \A e \in Reach(next) : e # 0 => key[e] > 0
  /\ \A x \in Reach(next) : next[x] # Null => key[x] < key[next[x]]
  /\ \A x, y \in Reach(next) : key[y] <= key[x] \/ (next[x] # Null /\ key[next[x]] <= key[y])
  /\ \A x, y \in Reach(next) : key[x] = key[y] => x = y

LEMMA EntriesAre ==
  /\ Entries = 0 .. MaxSets /\ MaxSets \in Nat /\ Null = MaxSets + 1 /\ Null \notin Entries
  /\ 0 \in Entries /\ Keys \subseteq Nat \ {0}
BY BaseAssumption DEF Entries, Null, Containers!Entries, Containers!Null

LEMMA ReachLeads ==
  ASSUME NEW next \in [Entries -> Nexts]
  PROVE  /\ Leads(next, Reach(next))
         /\ \A S : Leads(next, S) => Reach(next) \subseteq S
<1> DEFINE C == Reach(next)
<1>1. C \subseteq Entries /\ \A S : Leads(next, S) => C \subseteq S
  BY DEF Reach, Leads
<1>2. 0 \in C
  BY EntriesAre DEF Reach, Leads
<1>3. \A x \in C : next[x] = Null \/ next[x] \in C
  <2> TAKE x \in C
  <2>1. x \in Entries /\ next[x] \in Nexts
    BY <1>1
  <2>2. \A S \in SUBSET Entries : Leads(next, S) => next[x] = Null \/ next[x] \in S
    BY <1>1 DEF Leads
  <2> QED
    BY <2>1, <2>2 DEF Reach, Nexts
<1> QED
  BY <1>1, <1>2, <1>3 DEF Leads

\* Preparing the next of an entry that is not in the list.
LEMMA ReachWrite ==
  ASSUME NEW f \in [Entries -> Nexts], NEW n \in Entries \ Reach(f), NEW x \in Nexts
  PROVE  Reach([f EXCEPT ![n] = x]) = Reach(f)
<1> DEFINE g == [f EXCEPT ![n] = x]
           C == Reach(f)
           D == Reach(g)
<1>1. g \in [Entries -> Nexts] /\ \A y \in C : g[y] = f[y]
  BY DEF Reach
<1> HIDE DEF g
<1>2. Leads(f, C) /\ Leads(g, D)
  BY <1>1, ReachLeads
<1>3. Leads(g, C)
  BY <1>1, <1>2 DEF Leads
<1>4. D \subseteq C
  BY <1>1, <1>3, ReachLeads
<1>5. Leads(f, D)
  BY <1>1, <1>2, <1>4 DEF Leads
<1>6. C \subseteq D
  BY <1>5, ReachLeads
<1> QED
  BY <1>4, <1>6 DEF g

\* Linking an entry between another and what that led to.
LEMMA ReachLink ==
  ASSUME NEW f \in [Entries -> Nexts], NEW e \in Reach(f), NEW n \in Entries \ Reach(f), f[n] = f[e]
  PROVE  Reach([f EXCEPT ![e] = n]) = Reach(f) \union {n}
<1> DEFINE g == [f EXCEPT ![e] = n]
           C == Reach(f)
           D == Reach(g)
<1>1. /\ g \in [Entries -> Nexts] /\ e \in Entries /\ n # e /\ g[e] = n /\ g[n] = f[e]
      /\ \A y \in Entries : y # e => g[y] = f[y]
  BY DEF Reach, Nexts
<1> HIDE DEF g
<1>2. Leads(f, C) /\ Leads(g, D)
  BY <1>1, ReachLeads
<1>3. Leads(g, C \union {n})
  BY <1>1, <1>2 DEF Leads
<1>4. D \subseteq C \union {n}
  BY <1>1, <1>3, ReachLeads
<1>5. Leads(f, D)
  BY <1>1, <1>2, EntriesAre DEF Leads
<1>6. C \subseteq D /\ n \in D
  BY <1>1, <1>2, <1>5, ReachLeads, EntriesAre DEF Leads
<1> QED
  BY <1>4, <1>6 DEF g

LEMMA SortedLink ==
  ASSUME NEW f \in [Entries -> Nexts], NEW e \in Reach(f), NEW n \in Entries \ Reach(f), f[n] = f[e],
         NEW key \in [Entries -> Nat], Sorted(key, f), key[e] < key[n],
         f[n] # Null => key[n] < key[f[n]]
  PROVE  Sorted(key, [f EXCEPT ![e] = n])
<1> DEFINE g == [f EXCEPT ![e] = n]
           C == Reach(f)
<1>1. /\ e \in Entries /\ n # e /\ g[e] = n /\ g[n] = f[e] /\ n # Null
      /\ \A y \in Entries : y # e => g[y] = f[y]
  BY EntriesAre DEF Reach, Nexts
<1>2. Reach(g) = C \union {n}
  BY ReachLink
<1> HIDE DEF g
<1>3. C \subseteq Entries /\ 0 \in C /\ \A x \in C : f[x] = Null \/ f[x] \in C
  BY ReachLeads DEF Leads
<1>4. \A x \in Entries : key[x] \in Nat
  OBVIOUS
<1>5. key[0] = 0 /\ \A x \in Reach(g) : x # 0 => key[x] > 0
  BY <1>2, <1>3, <1>4 DEF Sorted
<1>6. \A y \in C : key[y] <= key[e] \/ (f[e] # Null /\ key[n] < key[f[e]] /\ key[f[e]] <= key[y])
  BY DEF Sorted
<1>7. \A x \in Reach(g) : g[x] # Null => key[x] < key[g[x]]
  <2> TAKE x \in Reach(g)
  <2>1. CASE x = e
    BY <1>1, <2>1
  <2>2. CASE x = n
    BY <1>1, <2>2
  <2>3. CASE x # e /\ x # n
    BY <1>1, <1>2, <1>3, <2>3 DEF Sorted
  <2> QED
    BY <2>1, <2>2, <2>3
<1>8. \A y \in C : key[y] # key[n] /\ (key[y] < key[n] => key[y] <= key[e])
  <2> TAKE y \in C
  <2>1. key[y] \in Nat /\ key[e] \in Nat /\ key[n] \in Nat /\ (f[e] # Null => key[f[e]] \in Nat)
    BY <1>1, <1>3, <1>4
  <2> QED
    BY <1>6, <2>1
<1>9. \A x, y \in Reach(g) : key[x] = key[y] => x = y
  BY <1>2, <1>8 DEF Sorted
<1>10. \A x, y \in Reach(g) : key[y] <= key[x] \/ (g[x] # Null /\ key[g[x]] <= key[y])
  <2> TAKE x \in Reach(g), y \in Reach(g)
  <2>0. /\ key[x] \in Nat /\ key[y] \in Nat /\ key[e] \in Nat /\ key[n] \in Nat
        /\ (f[e] # Null => key[f[e]] \in Nat)
    BY <1>1, <1>2, <1>3, <1>4
  <2>1. CASE x = e
    <3>1. key[y] <= key[e] \/ key[n] <= key[y]
      BY <1>2, <1>6, <2>0
    <3> QED
      BY <1>1, <2>1, <3>1
  <2>2. CASE x = n
    <3>1. key[y] <= key[n] \/ (f[e] # Null /\ key[f[e]] <= key[y])
      BY <1>2, <1>6, <2>0
    <3> QED
      BY <1>1, <2>2, <3>1
  <2>3. CASE x # e /\ x # n /\ y # n
    BY <1>1, <1>2, <1>3, <2>3 DEF Sorted
  <2>4. CASE x # e /\ x # n /\ y = n
    <3>1. x \in C /\ g[x] = f[x] /\ x \in Entries
      BY <1>1, <1>2, <1>3, <2>4
    <3>2. key[e] <= key[x] \/ (f[x] # Null /\ key[f[x]] <= key[e])
      BY <3>1 DEF Sorted
    <3>3. CASE key[e] <= key[x]
      <4>1. key[x] # key[e]
        BY <2>4, <3>1 DEF Sorted
      <4> QED
        BY <1>6, <2>0, <2>4, <3>1, <3>3, <4>1
    <3>4. CASE f[x] # Null /\ key[f[x]] <= key[e]
      <4>1. key[f[x]] \in Nat
        BY <1>3, <1>4, <3>1, <3>4
      <4> QED
        BY <2>0, <2>4, <3>1, <3>4, <4>1
    <3> QED
      BY <3>2, <3>3, <3>4
  <2> QED
    BY <2>1, <2>2, <2>3, <2>4
<1> QED
  BY <1>5, <1>7, <1>9, <1>10 DEF Sorted, g

ListOk ==
  /\ bucket.key \in [Entries -> Nat] /\ bucket.next \in [Entries -> Nexts]
  /\ Sorted(bucket.key, bucket.next)
Linked == Reach(bucket.next)

LEMMA LinkedIs == Containers!Linked = Linked
BY DEF Linked, Containers!Linked, Reach, Leads, Entries, Null

LEMMA LinkedHas ==
  ASSUME ListOk
  PROVE  /\ Linked \subseteq Entries /\ 0 \in Linked
         /\ \A x \in Linked : bucket.next[x] = Null \/ bucket.next[x] \in Linked
         /\ \A x \in Linked : bucket.key[x] \in Nat
BY ReachLeads DEF ListOk, Linked, Leads

\* The last entry below a key.
LEMMA Below ==
  ASSUME ListOk, NEW k \in Nat \ {0}
  PROVE  \E e \in Linked : /\ bucket.key[e] < k
                           /\ bucket.next[e] = Null \/ ~(bucket.key[bucket.next[e]] < k)
<1> DEFINE T == {k - bucket.key[e] : e \in {x \in Linked : bucket.key[x] < k}}
<1>1. T \subseteq Nat
  BY LinkedHas
<1>2. bucket.key[0] < k /\ 0 \in Linked
  BY LinkedHas DEF ListOk, Sorted
<1>3. T # {}
  BY <1>2
<1>4. PICK d \in T : \A y \in T : d <= y
  BY <1>1, <1>3, LeastNat
<1>5. PICK e \in Linked : bucket.key[e] < k /\ d = k - bucket.key[e]
  BY <1>4
<1>6. ASSUME bucket.next[e] # Null, bucket.key[bucket.next[e]] < k PROVE FALSE
  <2>1. bucket.next[e] \in Linked /\ bucket.key[e] < bucket.key[bucket.next[e]]
    BY <1>5, <1>6, LinkedHas DEF ListOk, Sorted, Linked
  <2>2. k - bucket.key[bucket.next[e]] \in T
    BY <1>6, <2>1
  <2>3. d <= k - bucket.key[bucket.next[e]]
    BY <1>4, <2>2
  <2>4. bucket.key[e] \in Nat /\ bucket.key[bucket.next[e]] \in Nat
    BY <1>5, <2>1, LinkedHas
  <2> HIDE DEF T
  <2> QED
    BY <1>5, <2>1, <2>3, <2>4
<1> QED
  BY <1>5, <1>6

\* Where Find() stops.
LEMMA PrevIs ==
  ASSUME ListOk, NEW k \in Nat \ {0}
  PROVE  /\ Containers!Prev(k) \in Linked /\ bucket.key[Containers!Prev(k)] < k
         /\ Containers!Target(k) = bucket.next[Containers!Prev(k)]
         /\ \/ Containers!Target(k) = Null
            \/ Containers!Target(k) \in Linked /\ bucket.key[Containers!Target(k)] >= k
<1> DEFINE P(e) == /\ e = 0 \/ bucket.key[e] < k
                   /\ bucket.next[e] = Null \/ ~(bucket.key[bucket.next[e]] < k)
<1>1. \E e \in Linked : P(e)
  BY Below
<1>2. Containers!Prev(k) = CHOOSE e \in Linked : P(e)
  BY LinkedIs DEF Containers!Prev, Null
<1>3. Containers!Prev(k) \in Linked /\ P(Containers!Prev(k))
  BY <1>1, <1>2
<1>4. bucket.key[0] = 0
  BY DEF ListOk, Sorted
<1>5. Containers!Target(k) = bucket.next[Containers!Prev(k)]
  BY DEF Containers!Target
<1>6. ASSUME Containers!Target(k) # Null
      PROVE  Containers!Target(k) \in Linked /\ bucket.key[Containers!Target(k)] >= k
  <2>1. Containers!Target(k) \in Linked /\ ~(bucket.key[Containers!Target(k)] < k)
    BY <1>3, <1>5, <1>6, LinkedHas
  <2>2. bucket.key[Containers!Target(k)] \in Nat
    BY <2>1, LinkedHas
  <2> QED
    BY <2>1, <2>2
<1> QED
  BY <1>3, <1>4, <1>5, <1>6

\* It finds a key that is linked, at the entry that has it.
LEMMA FindIs ==
  ASSUME ListOk, NEW k \in Nat \ {0}
  PROVE  /\ Containers!Find(k) => Containers!Target(k) \in Linked /\ bucket.key[Containers!Target(k)] = k
         /\ \A e \in Linked : bucket.key[e] = k => Containers!Find(k) /\ Containers!Target(k) = e
         /\ ~Containers!Find(k) /\ Containers!Target(k) # Null =>
              Containers!Target(k) \in Linked /\ k < bucket.key[Containers!Target(k)]
<1> DEFINE q == Containers!Prev(k)
           x == Containers!Target(k)
<1>1. /\ q \in Linked /\ bucket.key[q] < k /\ x = bucket.next[q]
      /\ x = Null \/ (x \in Linked /\ bucket.key[x] >= k)
  BY PrevIs
<1>2. Containers!Find(k) <=> x # Null /\ bucket.key[x] = k
  BY DEF Containers!Find, Null
<1> HIDE DEF q, x
<1>3. ASSUME NEW e \in Linked, bucket.key[e] = k PROVE x # Null /\ bucket.key[x] = k /\ x = e
  <2>1. bucket.key[e] <= bucket.key[q] \/ (x # Null /\ bucket.key[x] <= bucket.key[e])
    BY <1>1 DEF ListOk, Sorted, Linked
  <2>2. bucket.key[q] \in Nat
    BY <1>1, LinkedHas
  <2>3. x # Null /\ bucket.key[x] <= k /\ x \in Linked
    BY <1>1, <1>3, <2>1, <2>2
  <2>4. bucket.key[x] \in Nat
    BY <2>3, LinkedHas
  <2>5. bucket.key[x] = k
    BY <1>1, <2>3, <2>4
  <2> QED
    BY <1>3, <2>3, <2>5 DEF ListOk, Sorted, Linked
<1>4. ASSUME ~Containers!Find(k), x # Null PROVE x \in Linked /\ k < bucket.key[x]
  <2>1. x \in Linked /\ bucket.key[x] >= k /\ bucket.key[x] # k
    BY <1>1, <1>2, <1>4
  <2>2. bucket.key[x] \in Nat
    BY <2>1, LinkedHas
  <2> QED
    BY <2>1, <2>2
<1> QED
  BY <1>1, <1>2, <1>3, <1>4 DEF x

Setters == 1 .. MaxSets
Values == {Containers!InEntry(e) : e \in Entries} \union {Containers!Spare(e) : e \in Entries}
Finished == {n \in Setters : sets[n].state = "done"}

CallShapes ==
  [pc : {"idle"}] \union [pc : {"find"}, n : Setters]
    \union [pc : {"update"}, n : Setters, at : Entries, old : Values]
    \union [pc : {"link"}, n : Setters, at : Entries]
    \union [pc : {"got"}, key : Nat, ptr : Values]

MapTypes ==
  /\ bucket \in [key : [Entries -> Nat], val : [Entries -> Values], next : [Entries -> Nexts]]
  /\ call \in [Threads -> CallShapes]
  /\ sets \in [Setters -> [state : {"none", "running", "done"}, before : SUBSET Setters]]

Setting(t) == call[t].pc \in {"find", "update", "link"}

\* A call under way has an entry of its own, knows where it goes, and a
\* pointer was given for a key that is linked.
Calling(t) ==
  /\ Setting(t) => sets[call[t].n].state = "running" /\ bucket.key[call[t].n] > 0
  /\ call[t].pc = "update" =>
       call[t].at \in Linked \ {0} /\ bucket.key[call[t].at] = bucket.key[call[t].n]
  /\ call[t].pc = "link" =>
       /\ call[t].at \in Linked /\ bucket.key[call[t].at] < bucket.key[call[t].n]
       /\ bucket.next[call[t].n] # Null =>
            /\ bucket.next[call[t].n] \in Linked
            /\ bucket.key[call[t].n] < bucket.key[bucket.next[call[t].n]]
  /\ call[t].pc = "got" => \E e \in Linked \ {0} : bucket.key[e] = call[t].key

Distinct == \A t, u \in Threads : t # u /\ Setting(t) /\ Setting(u) => call[t].n # call[u].n

ValuesKnown ==
  /\ \A e \in Entries : e \notin Finished => bucket.val[e] = Containers!InEntry(e)
  /\ \A e \in Finished : bucket.val[e] # Containers!InEntry(e) =>
       \E m \in Finished : bucket.val[e] = Containers!Spare(m) /\ bucket.key[m] = bucket.key[e]

DropsKnown ==
  /\ \A v \in dropped : \E m \in Finished : v = Containers!InEntry(m) \/ v = Containers!Spare(m)
  /\ \A m \in Finished : \A v \in {Containers!InEntry(m), Containers!Spare(m)} :
       v \in dropped <=> \A e \in Linked \ {0} : bucket.val[e] # v

\* A finished call's key is linked, with a value that is not older.
Fresh ==
  \A n \in Finished :
    /\ bucket.key[n] > 0
    /\ \E e \in Linked \ {0} : bucket.key[e] = bucket.key[n]
    /\ \A e \in Linked \ {0} : bucket.key[e] = bucket.key[n] =>
         \A m \in sets[n].before :
           bucket.val[e] # Containers!InEntry(m) /\ bucket.val[e] # Containers!Spare(m)

MapInv ==
  /\ MapTypes /\ ListOk /\ Linked \ {0} \subseteq Finished
  /\ \A t \in Threads : Calling(t)
  /\ Distinct /\ ValuesKnown /\ DropsKnown /\ Fresh
  /\ \A n \in Setters : sets[n].before \subseteq Finished

\* Values are told apart by their kind and by their call.
LEMMA ValuesDiffer ==
  \A m, n : /\ Containers!InEntry(m) # Containers!Spare(n)
            /\ Containers!InEntry(m) = Containers!InEntry(n) => m = n
            /\ Containers!Spare(m) = Containers!Spare(n) => m = n
BY DEF Containers!InEntry, Containers!Spare

LEMMA SettersAre ==
  /\ Setters \subseteq Entries /\ 0 \notin Setters /\ Entries = Setters \union {0}
  /\ \A n \in Setters : n \in Nat /\ n > 0
BY EntriesAre DEF Setters

LEMMA DoneIs == Containers!Done = Finished
BY DEF Containers!Done, Finished, Setters

LEMMA MapStart == Containers!MapInit => MapInv
<1> SUFFICES ASSUME Containers!MapInit PROVE MapInv
  OBVIOUS
<1>1. /\ bucket = [key |-> [e \in Entries |-> 0], val |-> [e \in Entries |-> Containers!InEntry(e)],
                   next |-> [e \in Entries |-> Null]]
      /\ dropped = {} /\ call = [t \in Threads |-> [pc |-> "idle"]]
      /\ sets = [n \in Setters |-> [state |-> "none", before |-> {}]]
  BY DEF Containers!MapInit, Entries, Null, Setters
<1>2. /\ bucket.key = [e \in Entries |-> 0] /\ bucket.next = [e \in Entries |-> Null]
      /\ bucket.val = [e \in Entries |-> Containers!InEntry(e)]
  BY <1>1
<1>3. bucket.key \in [Entries -> Nat] /\ bucket.next \in [Entries -> Nexts]
      /\ bucket.val \in [Entries -> Values]
  BY <1>2 DEF Nexts, Values
<1>4. MapTypes
  <2>1. \A n \in Setters : sets[n] \in [state : {"none", "running", "done"}, before : SUBSET Setters]
    BY <1>1
  <2>2. \A t \in Threads : call[t] \in CallShapes
    BY <1>1 DEF CallShapes
  <2>3. bucket \in [key : [Entries -> Nat], val : [Entries -> Values], next : [Entries -> Nexts]]
    BY <1>1, <1>2, <1>3
  <2> QED
    BY <1>1, <2>1, <2>2, <2>3 DEF MapTypes
<1>5. Linked = {0}
  <2>1. Leads(bucket.next, {0})
    BY <1>2, EntriesAre DEF Leads
  <2>2. Linked \subseteq {0} /\ Leads(bucket.next, Linked)
    BY <1>3, <2>1, ReachLeads DEF Linked
  <2> QED
    BY <2>2 DEF Leads
<1>6. ListOk
  <2>1. bucket.key[0] = 0 /\ bucket.next[0] = Null
    BY <1>2, EntriesAre
  <2>2. Sorted(bucket.key, bucket.next)
    BY <1>5, <2>1 DEF Sorted, Linked
  <2> QED
    BY <1>3, <2>2 DEF ListOk
<1>7. Finished = {}
  BY <1>1 DEF Finished
<1>8. \A t \in Threads : call[t].pc = "idle"
  BY <1>1
<1>9. (\A t \in Threads : Calling(t)) /\ Distinct
  BY <1>8 DEF Calling, Distinct, Setting
<1>10. ValuesKnown /\ DropsKnown /\ Fresh
  BY <1>1, <1>2, <1>7 DEF ValuesKnown, DropsKnown, Fresh
<1>11. \A n \in Setters : sets[n].before = {}
  BY <1>1
<1> QED
  BY <1>4, <1>5, <1>6, <1>9, <1>10, <1>11 DEF MapInv

\* A value that is linked is alive, and linked once.
LEMMA LinkedAlive ==
  ASSUME MapInv, NEW e \in Linked
  PROVE  /\ bucket.val[e] \notin dropped
         /\ \A x \in Linked : bucket.val[x] = bucket.val[e] => x = e
<1>0. /\ ValuesKnown /\ DropsKnown /\ Linked \ {0} \subseteq Finished /\ ListOk
      /\ Linked \subseteq Entries /\ 0 \notin Finished /\ Finished \subseteq Setters
  BY LinkedHas, SettersAre DEF MapInv, Finished
<1>1. \A x \in Linked : \/ bucket.val[x] = Containers!InEntry(x)
                        \/ x # 0 /\ \E m \in Finished : bucket.val[x] = Containers!Spare(m)
                                           /\ bucket.key[m] = bucket.key[x]
  BY <1>0 DEF ValuesKnown
<1>2. \A x \in Linked : bucket.val[x] = bucket.val[e] => x = e
  <2> SUFFICES ASSUME NEW x \in Linked, bucket.val[x] = bucket.val[e] PROVE x = e
    OBVIOUS
  <2>1. x = e \/ bucket.key[x] = bucket.key[e]
    BY <1>1, ValuesDiffer
  <2> QED
    BY <1>0, <2>1 DEF ListOk, Sorted, Linked
<1>3. bucket.val[e] \notin dropped
  <2>1. CASE e = 0
    <3>1. bucket.val[0] = Containers!InEntry(0)
      BY <1>0, SettersAre DEF ValuesKnown
    <3> QED
      BY <1>0, <2>1, <3>1, ValuesDiffer DEF DropsKnown
  <2>2. CASE e # 0
    <3>1. PICK m \in Finished : bucket.val[e] \in {Containers!InEntry(m), Containers!Spare(m)}
      BY <1>0, <1>1, <2>2
    <3> QED
      BY <1>0, <2>2, <3>1 DEF DropsKnown
  <2> QED
    BY <2>1, <2>2
<1> QED
  BY <1>2, <1>3

LEMMA MapSafe == MapInv => Containers!MapIsExact
<1> SUFFICES ASSUME MapInv PROVE Containers!MapIsExact
  OBVIOUS
<1>0. /\ ListOk /\ MapTypes /\ Containers!Linked = Linked /\ Containers!Done = Finished
      /\ Finished \subseteq Setters /\ Linked \subseteq Entries
  BY LinkedIs, LinkedHas, DoneIs DEF MapInv, Finished
<1>1. \A e \in Containers!Linked \ {0} :
        bucket.next[e] # Containers!Null => bucket.key[e] < bucket.key[bucket.next[e]]
  BY <1>0 DEF ListOk, Sorted, Linked, Null
<1>2. ASSUME NEW n \in Finished
      PROVE  /\ Containers!Find(bucket.key[n])
             /\ bucket.val[Containers!Target(bucket.key[n])] \notin
                  {Containers!InEntry(m) : m \in sets[n].before}
                    \union {Containers!Spare(m) : m \in sets[n].before}
             /\ {Containers!InEntry(n), Containers!Spare(n)} \ dropped =
                  {Containers!InEntry(n), Containers!Spare(n)}
                    \intersect {bucket.val[e] : e \in Linked \ {0}}
  <2>1. PICK e \in Linked \ {0} : bucket.key[e] = bucket.key[n]
    BY DEF MapInv, Fresh
  <2>2. bucket.key[n] \in Nat \ {0}
    BY <1>0, SettersAre DEF MapInv, Fresh, ListOk
  <2>3. Containers!Find(bucket.key[n]) /\ Containers!Target(bucket.key[n]) = e
    BY <1>0, <2>1, <2>2, FindIs
  <2>4. \A m \in sets[n].before :
          bucket.val[e] # Containers!InEntry(m) /\ bucket.val[e] # Containers!Spare(m)
    BY <2>1 DEF MapInv, Fresh
  <2>5. \A v \in {Containers!InEntry(n), Containers!Spare(n)} :
          v \in dropped <=> \A x \in Linked \ {0} : bucket.val[x] # v
    BY DEF MapInv, DropsKnown
  <2> QED
    BY <2>3, <2>4, <2>5
<1>3. \A e \in Containers!Linked : bucket.val[e] \notin dropped
  BY <1>0, LinkedAlive
<1>4. ASSUME NEW t \in Threads, call[t].pc = "got", call[t].ptr \in dropped
      PROVE  bucket.val[Containers!Target(call[t].key)] # call[t].ptr
  <2>1. PICK e \in Linked \ {0} : bucket.key[e] = call[t].key
    BY <1>4 DEF MapInv, Calling
  <2>2. call[t].key \in Nat \ {0}
    BY <1>0, <2>1, LinkedHas DEF ListOk, Sorted, Linked
  <2>3. Containers!Target(call[t].key) = e
    BY <1>0, <2>1, <2>2, FindIs
  <2> QED
    BY <1>4, <2>3, LinkedAlive
<1> QED
  BY <1>0, <1>1, <1>2, <1>3, <1>4 DEF Containers!MapIsExact

\* A step that only moves a call on.
LEMMA MapCallMoves ==
  ASSUME MapInv, NEW t \in Threads, NEW r \in CallShapes,
         call' = [call EXCEPT ![t] = r], UNCHANGED <<bucket, dropped, sets>>,
         Calling(t)', Setting(t)' => Setting(t) /\ call'[t].n = call[t].n
  PROVE  MapInv'
<1>1. \A u \in Threads : u # t => call'[u] = call[u]
  BY DEF MapInv, MapTypes
<1>2. MapTypes'
  BY DEF MapInv, MapTypes
<1>3. (\A u \in Threads : Calling(u))'
  <2> SUFFICES ASSUME NEW u \in Threads PROVE Calling(u)'
    OBVIOUS
  <2>1. CASE u = t
    BY <2>1
  <2>2. CASE u # t
    BY <1>1, <2>2 DEF MapInv, Calling, Setting, Linked
  <2> QED
    BY <2>1, <2>2
<1>4. Distinct'
  <2> SUFFICES ASSUME NEW u \in Threads, NEW w \in Threads, u # w, Setting(u)', Setting(w)'
               PROVE  call'[u].n # call'[w].n
    BY DEF Distinct
  <2>1. Setting(u) /\ Setting(w) /\ call'[u].n = call[u].n /\ call'[w].n = call[w].n
    BY <1>1 DEF Setting
  <2> QED
    BY <2>1 DEF MapInv, Distinct
<1>5. /\ ListOk' /\ (Linked \ {0} \subseteq Finished)' /\ (\A n \in Setters : sets[n].before \subseteq Finished)'
  BY DEF MapInv, ListOk, Linked, Finished
<1>6. ValuesKnown' /\ DropsKnown' /\ Fresh'
  BY DEF MapInv, ValuesKnown, DropsKnown, Fresh, Linked, Finished
<1> QED
  BY <1>2, <1>3, <1>4, <1>5, <1>6 DEF MapInv

\* What a thread in Set() knows of its entry.
LEMMA CallIs ==
  ASSUME MapInv, NEW t \in Threads, Setting(t)
  PROVE  /\ call[t].n \in Setters /\ call[t].n \in Entries \ Linked /\ call[t].n \notin Finished
         /\ bucket.key[call[t].n] \in Nat \ {0} /\ sets[call[t].n].state = "running"
         /\ call[t].pc \in {"update", "link"} => call[t].at \in Entries
         /\ call[t].pc = "update" => call[t].old \in Values
<1>1. call[t] \in CallShapes /\ Calling(t)
  BY DEF MapInv, MapTypes
<1>2. call[t].n \in Setters /\ (call[t].pc \in {"update", "link"} => call[t].at \in Entries)
      /\ (call[t].pc = "update" => call[t].old \in Values)
  BY <1>1 DEF CallShapes, Setting
<1>3. sets[call[t].n].state = "running" /\ bucket.key[call[t].n] > 0
  BY <1>1 DEF Calling
<1>4. call[t].n \notin Finished
  BY <1>3 DEF Finished
<1>5. call[t].n \in Entries /\ call[t].n \notin Linked
  BY <1>2, <1>4, SettersAre DEF MapInv
<1>6. bucket.key[call[t].n] \in Nat
  BY <1>5 DEF MapInv, MapTypes
<1> QED
  BY <1>2, <1>3, <1>4, <1>5, <1>6

LEMMA UseStep ==
  ASSUME MapInv, NEW t \in Threads, Containers!Use(t)
  PROVE  MapInv'
<1> DEFINE r == [pc |-> "idle"]
<1>1. r \in CallShapes /\ call' = [call EXCEPT ![t] = r] /\ UNCHANGED <<bucket, dropped, sets>>
  BY DEF Containers!Use, CallShapes
<1>2. call'[t].pc = "idle"
  BY <1>1 DEF MapInv, MapTypes
<1>3. Calling(t)' /\ ~Setting(t)'
  BY <1>2 DEF Calling, Setting
<1> HIDE DEF r
<1> QED
  BY <1>1, <1>3, MapCallMoves

LEMMA GetStep ==
  ASSUME MapInv, NEW t \in Threads, NEW k \in Keys, Containers!Get(t, k)
  PROVE  MapInv'
<1> DEFINE e == Containers!Target(k)
           r == [pc |-> "got", key |-> k, ptr |-> bucket.val[e]]
<1>1. k \in Nat \ {0} /\ Containers!Find(k)
  BY EntriesAre DEF Containers!Get
<1>2. e \in Linked /\ bucket.key[e] = k /\ e \in Entries
  BY <1>1, FindIs, LinkedHas DEF MapInv
<1>3. e # 0
  BY <1>1, <1>2 DEF MapInv, ListOk, Sorted
<1>4. bucket.val[e] \in Values
  BY <1>2 DEF MapInv, MapTypes
<1>5. call' = [call EXCEPT ![t] = r] /\ UNCHANGED <<bucket, dropped, sets>>
  BY DEF Containers!Get
<1> HIDE DEF e
<1>6. r \in CallShapes
  BY <1>1, <1>4 DEF CallShapes
<1>7. call'[t].pc = "got" /\ call'[t].key = k
  BY <1>5 DEF MapInv, MapTypes
<1>8. Calling(t)' /\ ~Setting(t)'
  BY <1>2, <1>3, <1>5, <1>7 DEF Calling, Setting, Linked
<1> HIDE DEF r
<1> QED
  BY <1>5, <1>6, <1>8, MapCallMoves

LEMMA RetryStep ==
  ASSUME MapInv, NEW t \in Threads, Setting(t), Containers!Retry(t)
  PROVE  MapInv'
<1> DEFINE r == [pc |-> "find", n |-> call[t].n]
<1>1. call' = [call EXCEPT ![t] = r] /\ UNCHANGED <<bucket, dropped, sets>>
  BY DEF Containers!Retry
<1>2. r \in CallShapes
  BY CallIs DEF CallShapes
<1>3. call'[t].pc = "find" /\ call'[t].n = call[t].n
  BY <1>1 DEF MapInv, MapTypes
<1>4. Calling(t)'
  BY <1>1, <1>3, CallIs DEF Calling, Setting
<1> HIDE DEF r
<1> QED
  BY <1>1, <1>2, <1>3, <1>4, MapCallMoves

LEMMA SearchHit ==
  ASSUME MapInv, NEW t \in Threads, Containers!Search(t), Containers!Find(bucket.key[call[t].n])
  PROVE  MapInv'
<1> DEFINE n == call[t].n
           k == bucket.key[n]
           e == Containers!Target(k)
           r == [pc |-> "update", n |-> n, at |-> e, old |-> bucket.val[e]]
<1>1. Setting(t)
  BY DEF Setting, Containers!Search
<1>2. n \in Setters /\ k \in Nat \ {0} /\ sets[n].state = "running"
  BY <1>1, CallIs
<1>3. e \in Linked /\ bucket.key[e] = k /\ e \in Entries
  BY <1>2, FindIs, LinkedHas DEF MapInv
<1>4. e # 0
  BY <1>2, <1>3 DEF MapInv, ListOk, Sorted
<1>5. bucket.val[e] \in Values
  BY <1>3 DEF MapInv, MapTypes
<1>6. call' = [call EXCEPT ![t] = r] /\ UNCHANGED <<bucket, dropped, sets>>
  BY DEF Containers!Search
<1> HIDE DEF e
<1>7. r \in CallShapes
  BY <1>2, <1>3, <1>5 DEF CallShapes
<1>8. call'[t].pc = "update" /\ call'[t].n = n /\ call'[t].at = e
  BY <1>6 DEF MapInv, MapTypes
<1>9. Calling(t)'
  BY <1>2, <1>3, <1>4, <1>6, <1>8 DEF Calling, Setting, Linked
<1> HIDE DEF r
<1> QED
  BY <1>1, <1>6, <1>7, <1>8, <1>9, MapCallMoves

LEMMA SearchMiss ==
  ASSUME MapInv, NEW t \in Threads, Containers!Search(t), ~Containers!Find(bucket.key[call[t].n])
  PROVE  MapInv'
<1> DEFINE n == call[t].n
           k == bucket.key[n]
           q == Containers!Prev(k)
           x == Containers!Target(k)
           r == [pc |-> "link", n |-> n, at |-> q]
<1>1. Setting(t)
  BY DEF Setting, Containers!Search
<1>2. n \in Setters /\ n \in Entries \ Linked /\ k \in Nat \ {0} /\ sets[n].state = "running"
  BY <1>1, CallIs
<1>3. /\ q \in Linked /\ q \in Entries /\ bucket.key[q] < k
      /\ x \in Nexts /\ (x # Null => x \in Linked /\ k < bucket.key[x])
  BY <1>2, PrevIs, FindIs, LinkedHas DEF MapInv, Nexts
<1>4. /\ call' = [call EXCEPT ![t] = r] /\ bucket' = [bucket EXCEPT !.next[n] = x]
      /\ dropped' = dropped /\ sets' = sets
  BY DEF Containers!Search
<1> HIDE DEF q, x
<1>5. /\ bucket'.key = bucket.key /\ bucket'.val = bucket.val
      /\ bucket'.next = [bucket.next EXCEPT ![n] = x]
  BY <1>4 DEF MapInv, MapTypes
<1>6. /\ Linked' = Linked
  BY <1>2, <1>3, <1>5, ReachWrite DEF MapInv, MapTypes, Linked
<1>7. /\ bucket'.next[n] = x /\ \A y \in Entries : y # n => bucket'.next[y] = bucket.next[y]
      /\ bucket'.next \in [Entries -> Nexts]
  BY <1>2, <1>3, <1>5 DEF MapInv, MapTypes
<1>8. r \in CallShapes
  BY <1>2, <1>3 DEF CallShapes
<1>9. /\ call'[t] = r /\ \A u \in Threads : u # t => call'[u] = call[u]
  BY <1>4 DEF MapInv, MapTypes
<1>10. MapTypes'
  <2>1. bucket' \in [key : [Entries -> Nat], val : [Entries -> Values], next : [Entries -> Nexts]]
    BY <1>2, <1>3, <1>4 DEF MapInv, MapTypes
  <2> QED
    BY <1>4, <1>8, <2>1 DEF MapInv, MapTypes
<1>11. ListOk'
  <2>1. \A y \in Linked : bucket'.next[y] = bucket.next[y]
    BY <1>2, <1>7, LinkedHas DEF MapInv
  <2>2. Sorted(bucket'.key, bucket'.next)
    BY <1>5, <1>6, <2>1 DEF MapInv, ListOk, Sorted, Linked
  <2> QED
    BY <1>5, <1>7, <2>2 DEF MapInv, ListOk
<1>12. ASSUME NEW u \in Threads PROVE Calling(u)'
  <2>1. CASE u = t
    <3>1. call'[u].pc = "link" /\ call'[u].n = n /\ call'[u].at = q
      BY <1>9, <2>1
    <3> QED
      BY <1>2, <1>3, <1>4, <1>5, <1>6, <1>7, <3>1 DEF Calling, Setting
  <2>2. CASE u # t
    <3>1. Calling(u) /\ call'[u] = call[u]
      BY <1>9, <2>2 DEF MapInv
    <3>2. Setting(u) => call[u].n # n /\ bucket'.next[call[u].n] = bucket.next[call[u].n]
      BY <1>1, <1>7, <2>2, CallIs DEF MapInv, Distinct
    <3> QED
      BY <1>4, <1>5, <1>6, <3>1, <3>2 DEF Calling, Setting
  <2> QED
    BY <2>1, <2>2
<1>13. Distinct'
  <2> SUFFICES ASSUME NEW u \in Threads, NEW w \in Threads, u # w, Setting(u)', Setting(w)'
               PROVE  call'[u].n # call'[w].n
    BY DEF Distinct
  <2>1. call'[t].n = n
    BY <1>9
  <2>2. Setting(u) /\ Setting(w) /\ call'[u].n = call[u].n /\ call'[w].n = call[w].n
    BY <1>1, <1>9, <2>1 DEF Setting
  <2> QED
    BY <2>2 DEF MapInv, Distinct
<1>14. Finished' = Finished
  BY <1>4 DEF Finished
<1>15. ValuesKnown' /\ DropsKnown'
  BY <1>4, <1>5, <1>6, <1>14 DEF MapInv, ValuesKnown, DropsKnown
<1>16. Fresh'
  BY <1>4, <1>5, <1>6, <1>14 DEF MapInv, Fresh
<1>17. (Linked \ {0} \subseteq Finished)' /\ (\A m \in Setters : sets[m].before \subseteq Finished)'
  BY <1>4, <1>6, <1>14 DEF MapInv
<1> QED
  BY <1>10, <1>11, <1>12, <1>13, <1>15, <1>16, <1>17 DEF MapInv

LEMMA SortedKey ==
  ASSUME NEW key \in [Entries -> Nat], NEW f \in [Entries -> Nexts], NEW n \in Entries \ Reach(f),
         NEW k \in Nat, Sorted(key, f)
  PROVE  Sorted([key EXCEPT ![n] = k], f)
<1> DEFINE g == [key EXCEPT ![n] = k]
<1>1. /\ Reach(f) \subseteq Entries /\ 0 \in Reach(f) /\ \A x \in Reach(f) : f[x] = Null \/ f[x] \in Reach(f)
  BY ReachLeads DEF Leads
<1>2. \A x \in Reach(f) : g[x] = key[x]
  BY <1>1
<1> HIDE DEF g
<1>3. Sorted(g, f)
  BY <1>1, <1>2 DEF Sorted
<1> QED
  BY <1>3 DEF g

LEMMA SetStep ==
  ASSUME MapInv, NEW t \in Threads, NEW k \in Keys, Containers!Set(t, k)
  PROVE  MapInv'
<1>1. PICK n \in Setters :
        /\ sets[n].state = "none" /\ call' = [call EXCEPT ![t] = [pc |-> "find", n |-> n]]
        /\ bucket' = [bucket EXCEPT !.key[n] = k]
        /\ sets' = [sets EXCEPT ![n] = [state |-> "running", before |-> Finished]]
        /\ dropped' = dropped
  BY DoneIs DEF Containers!Set, Setters
<1>2. k \in Nat \ {0}
  BY EntriesAre
<1>3. n \notin Finished /\ n \in Entries /\ n \notin Linked /\ n # 0
  BY <1>1, SettersAre DEF Finished, MapInv
<1>4. /\ bucket'.next = bucket.next /\ bucket'.val = bucket.val
      /\ bucket'.key = [bucket.key EXCEPT ![n] = k]
  BY <1>1 DEF MapInv, MapTypes
<1>5. Linked' = Linked
  BY <1>4 DEF Linked
<1>6. /\ bucket'.key[n] = k /\ \A y \in Entries : y # n => bucket'.key[y] = bucket.key[y]
      /\ bucket'.key \in [Entries -> Nat]
  BY <1>2, <1>3, <1>4 DEF MapInv, MapTypes
<1>7. \A y \in Linked : bucket'.key[y] = bucket.key[y]
  BY <1>3, <1>6, LinkedHas DEF MapInv
<1>8. /\ call'[t] = [pc |-> "find", n |-> n] /\ \A u \in Threads : u # t => call'[u] = call[u]
  BY <1>1 DEF MapInv, MapTypes
<1>9. /\ sets'[n] = [state |-> "running", before |-> Finished]
      /\ \A m \in Setters : m # n => sets'[m] = sets[m]
  BY <1>1 DEF MapInv, MapTypes
<1>10. Finished' = Finished
  BY <1>3, <1>9 DEF Finished
<1>11. MapTypes'
  <2>1. bucket' \in [key : [Entries -> Nat], val : [Entries -> Values], next : [Entries -> Nexts]]
    BY <1>1, <1>2, <1>3 DEF MapInv, MapTypes
  <2>2. [pc |-> "find", n |-> n] \in CallShapes
    BY DEF CallShapes
  <2>3. [state |-> "running", before |-> Finished] \in
          [state : {"none", "running", "done"}, before : SUBSET Setters]
    BY DEF Finished
  <2> QED
    BY <1>1, <2>1, <2>2, <2>3 DEF MapInv, MapTypes
<1>12. ListOk'
  <2>1. Sorted(bucket'.key, bucket'.next)
    BY <1>2, <1>3, <1>4, SortedKey DEF MapInv, ListOk, Linked
  <2> QED
    BY <1>4, <1>6, <2>1 DEF MapInv, ListOk
<1>13. ASSUME NEW u \in Threads PROVE Calling(u)'
  <2>1. CASE u = t
    <3>1. call'[u].pc = "find" /\ call'[u].n = n
      BY <1>8, <2>1
    <3> QED
      BY <1>2, <1>6, <1>9, <3>1 DEF Calling, Setting
  <2>2. CASE u # t
    <3>1. Calling(u) /\ call'[u] = call[u]
      BY <1>8, <2>2 DEF MapInv
    <3>2. Setting(u) => /\ call[u].n # n /\ bucket'.key[call[u].n] = bucket.key[call[u].n]
                        /\ sets'[call[u].n] = sets[call[u].n]
      BY <1>1, <1>6, <1>9, CallIs
    <3> QED
      BY <1>4, <1>5, <1>7, <3>1, <3>2 DEF Calling, Setting
  <2> QED
    BY <2>1, <2>2
<1>14. Distinct'
  <2>1. call'[t].n = n
    BY <1>8
  <2>2. \A u \in Threads : u # t /\ Setting(u)' => Setting(u) /\ call'[u].n = call[u].n /\ call[u].n # n
    <3> SUFFICES ASSUME NEW u \in Threads, u # t, Setting(u)'
                 PROVE  Setting(u) /\ call'[u].n = call[u].n /\ call[u].n # n
      OBVIOUS
    <3>1. Setting(u) /\ call'[u] = call[u]
      BY <1>8 DEF Setting
    <3> QED
      BY <1>1, <3>1, CallIs
  <2> QED
    BY <2>1, <2>2 DEF MapInv, Distinct
<1>15. \A y \in Finished : bucket'.key[y] = bucket.key[y] /\ sets'[y] = sets[y]
  BY <1>3, <1>6, <1>9, SettersAre DEF Finished
<1>16. ValuesKnown' /\ DropsKnown'
  BY <1>1, <1>4, <1>5, <1>10, <1>15 DEF MapInv, ValuesKnown, DropsKnown
<1>17. Fresh'
  <2> SUFFICES ASSUME NEW y \in Finished
               PROVE  /\ bucket'.key[y] > 0
                      /\ \E e \in Linked \ {0} : bucket'.key[e] = bucket'.key[y]
                      /\ \A e \in Linked \ {0} : bucket'.key[e] = bucket'.key[y] =>
                           \A m \in sets'[y].before :
                             bucket.val[e] # Containers!InEntry(m) /\ bucket.val[e] # Containers!Spare(m)
    BY <1>4, <1>5, <1>10 DEF Fresh
  <2>1. bucket'.key[y] = bucket.key[y] /\ sets'[y] = sets[y]
    BY <1>15
  <2> QED
    BY <1>7, <2>1 DEF MapInv, Fresh
<1>18. (Linked \ {0} \subseteq Finished)' /\ (\A m \in Setters : sets[m].before \subseteq Finished)'
  BY <1>5, <1>9, <1>10 DEF MapInv
<1> QED
  BY <1>11, <1>12, <1>13, <1>14, <1>16, <1>17, <1>18 DEF MapInv

\* A value that is linked is that of a new entry or the spare one of a call.
LEMMA LinkedValue ==
  ASSUME MapInv, NEW x \in Linked
  PROVE  \/ bucket.val[x] = Containers!InEntry(x)
         \/ \E m \in Finished : bucket.val[x] = Containers!Spare(m)
<1>1. x \in Entries
  BY LinkedHas DEF MapInv
<1> QED
  BY <1>1 DEF MapInv, ValuesKnown

\* What Return() changes.
LEMMA ReturnIs ==
  ASSUME MapInv, NEW t \in Threads, Setting(t), Containers!Return(t)
  PROVE  /\ call' \in [Threads -> CallShapes] /\ ~Setting(t)' /\ Calling(t)' /\ Distinct'
         /\ \A u \in Threads : u # t /\ Setting(u) => call[u].n # call[t].n
         /\ \A u \in Threads : u # t => call'[u] = call[u]
         /\ sets' \in [Setters -> [state : {"none", "running", "done"}, before : SUBSET Setters]]
         /\ \A m \in Setters : m # call[t].n => sets'[m] = sets[m]
         /\ \A m \in Setters : sets'[m].before = sets[m].before
         /\ Finished' = Finished \union {call[t].n}
         /\ (\A m \in Setters : sets[m].before \subseteq Finished)'
<1> DEFINE n == call[t].n
<1>1. /\ call' = [call EXCEPT ![t] = [pc |-> "idle"]]
      /\ sets' = [sets EXCEPT ![n].state = "done"]
  BY DEF Containers!Return
<1>2. n \in Setters
  BY CallIs
<1>3. [pc |-> "idle"] \in CallShapes
  BY DEF CallShapes
<1>4. call' \in [Threads -> CallShapes] /\ call'[t].pc = "idle"
      /\ \A u \in Threads : u # t => call'[u] = call[u]
  BY <1>1, <1>3 DEF MapInv, MapTypes
<1> HIDE DEF n
<1>5. /\ sets' \in [Setters -> [state : {"none", "running", "done"}, before : SUBSET Setters]]
      /\ sets'[n].state = "done" /\ sets'[n].before = sets[n].before
      /\ \A m \in Setters : m # n => sets'[m] = sets[m]
  BY <1>1, <1>2 DEF MapInv, MapTypes
<1>6. ~Setting(t)' /\ Calling(t)'
  BY <1>4 DEF Setting, Calling
<1>7. Distinct'
  BY <1>4, <1>6 DEF MapInv, Distinct, Setting
<1>8. \A m \in Setters : sets'[m].before = sets[m].before
  BY <1>5
<1>9. Finished' = Finished \union {n}
  BY <1>2, <1>5 DEF Finished
<1>10. (\A m \in Setters : sets[m].before \subseteq Finished)'
  BY <1>8, <1>9 DEF MapInv
<1>11. \A u \in Threads : u # t /\ Setting(u) => call[u].n # n
  BY DEF MapInv, Distinct, n
<1> QED
  BY <1>4, <1>5, <1>6, <1>7, <1>8, <1>9, <1>10, <1>11 DEF n

LEMMA UpdateStep ==
  ASSUME MapInv, NEW t \in Threads, Containers!UpdateCas(t), bucket.val[call[t].at] = call[t].old
  PROVE  MapInv'
<1> DEFINE n == call[t].n
           e == call[t].at
           was == call[t].old
<1>1. Setting(t) /\ call[t].pc = "update"
  BY DEF Setting, Containers!UpdateCas
<1>2. /\ n \in Setters /\ n \in Entries \ Linked /\ n \notin Finished
      /\ bucket.key[n] \in Nat \ {0} /\ e \in Entries
  BY <1>1, CallIs
<1>3. e \in Linked \ {0} /\ bucket.key[e] = bucket.key[n]
  BY <1>1 DEF MapInv, Calling
<1>4. /\ bucket' = [bucket EXCEPT !.val[e] = Containers!Spare(n)]
      /\ dropped' = dropped \union {was, Containers!InEntry(n)} /\ Containers!Return(t)
      /\ bucket.val[e] = was
  BY DEF Containers!UpdateCas
<1> HIDE DEF e, was
<1>5. /\ bucket'.key = bucket.key /\ bucket'.next = bucket.next
      /\ bucket'.val = [bucket.val EXCEPT ![e] = Containers!Spare(n)]
  BY <1>4 DEF MapInv, MapTypes
<1>6. /\ call' \in [Threads -> CallShapes] /\ ~Setting(t)' /\ Calling(t)' /\ Distinct'
      /\ \A u \in Threads : u # t /\ Setting(u) => call[u].n # n
      /\ \A u \in Threads : u # t => call'[u] = call[u]
      /\ sets' \in [Setters -> [state : {"none", "running", "done"}, before : SUBSET Setters]]
      /\ \A m \in Setters : m # n => sets'[m] = sets[m]
      /\ \A m \in Setters : sets'[m].before = sets[m].before
      /\ Finished' = Finished \union {n}
      /\ (\A m \in Setters : sets[m].before \subseteq Finished)'
  BY <1>1, <1>4, ReturnIs
<1>7. Linked' = Linked /\ Linked \subseteq Entries
  BY <1>5, LinkedHas DEF Linked, MapInv
<1>8. Containers!Spare(n) \in Values
  BY <1>2 DEF Values
<1>9. /\ bucket'.val[e] = Containers!Spare(n) /\ bucket'.val \in [Entries -> Values]
      /\ \A y \in Entries : y # e => bucket'.val[y] = bucket.val[y]
  BY <1>2, <1>5, <1>8 DEF MapInv, MapTypes
<1>10. MapTypes'
  <2>1. bucket' \in [key : [Entries -> Nat], val : [Entries -> Values], next : [Entries -> Nexts]]
    BY <1>2, <1>4, <1>8 DEF MapInv, MapTypes
  <2> QED
    BY <1>6, <2>1 DEF MapTypes
<1>11. ListOk'
  BY <1>5 DEF MapInv, ListOk
<1>12. ASSUME NEW u \in Threads PROVE Calling(u)'
  <2>1. CASE u = t
    BY <1>6, <2>1
  <2>2. CASE u # t
    <3>1. Calling(u) /\ call'[u] = call[u]
      BY <1>6, <2>2 DEF MapInv
    <3>2. Setting(u) => sets'[call[u].n] = sets[call[u].n]
      BY <1>6, <2>2, CallIs
    <3> QED
      BY <1>5, <1>7, <3>1, <3>2 DEF Calling, Setting
  <2> QED
    BY <2>1, <2>2
<1>13. e \in Finished /\ Finished \subseteq Setters /\ Finished \subseteq Entries
  BY <1>3, SettersAre DEF MapInv, Finished
<1>14. ValuesKnown'
  <2>1. \A y \in Entries : y \notin Finished' => bucket'.val[y] = Containers!InEntry(y)
    BY <1>6, <1>9, <1>13 DEF MapInv, ValuesKnown
  <2>2. ASSUME NEW y \in Finished \union {n}, bucket'.val[y] # Containers!InEntry(y)
        PROVE  \E m \in Finished \union {n} :
                 bucket'.val[y] = Containers!Spare(m) /\ bucket.key[m] = bucket.key[y]
    <3>1. CASE y = e
      BY <1>3, <1>9, <3>1
    <3>2. CASE y = n
      <4>1. bucket'.val[n] = bucket.val[n]
        BY <1>2, <1>3, <1>9
      <4> QED
        BY <1>2, <2>2, <3>2, <4>1 DEF MapInv, ValuesKnown
    <3>3. CASE y # e /\ y # n
      <4>1. y \in Finished /\ bucket'.val[y] = bucket.val[y]
        BY <1>9, <1>13, <3>3
      <4> QED
        BY <2>2, <4>1 DEF MapInv, ValuesKnown
    <3> QED
      BY <3>1, <3>2, <3>3
  <2> QED
    BY <1>5, <1>6, <2>1, <2>2 DEF ValuesKnown
<1>15. \/ was = Containers!InEntry(e)
       \/ \E m \in Finished : was = Containers!Spare(m)
  BY <1>3, <1>4, LinkedValue
<1>16. \A v \in dropped : \E m \in Finished : v = Containers!InEntry(m) \/ v = Containers!Spare(m)
  BY DEF MapInv, DropsKnown
<1>17. \A y \in Linked : y # e => bucket.val[y] # was
  BY <1>3, <1>4, LinkedAlive
<1>18. DropsKnown'
  <2>1. \A v \in dropped' : \E m \in Finished \union {n} :
          v = Containers!InEntry(m) \/ v = Containers!Spare(m)
    BY <1>4, <1>13, <1>15, <1>16
  <2>2. ASSUME NEW m \in Finished \union {n},
               NEW v \in {Containers!InEntry(m), Containers!Spare(m)}
        PROVE  v \in dropped' <=> \A y \in Linked \ {0} : bucket'.val[y] # v
    <3>1. CASE m = n /\ v = Containers!InEntry(n)
      <4>1. \A y \in Linked : bucket'.val[y] # v
        <5> TAKE y \in Linked
        <5>1. CASE y = e
          BY <1>9, <3>1, <5>1, ValuesDiffer
        <5>2. CASE y # e
          <6>1. bucket'.val[y] = bucket.val[y] /\ y # n
            BY <1>2, <1>7, <1>9, <5>2
          <6> QED
            BY <3>1, <6>1, LinkedValue, ValuesDiffer
        <5> QED
          BY <5>1, <5>2
      <4> QED
        BY <1>4, <3>1, <4>1
    <3>2. CASE m = n /\ v = Containers!Spare(n)
      <4>1. v \notin dropped'
        <5>1. v \notin dropped
          BY <1>2, <1>16, <3>2, ValuesDiffer
        <5>2. v # was
          BY <1>2, <1>15, <3>2, ValuesDiffer
        <5>3. v # Containers!InEntry(n)
          BY <3>2, ValuesDiffer
        <5> QED
          BY <1>4, <5>1, <5>2, <5>3
      <4> QED
        BY <1>3, <1>9, <3>2, <4>1
    <3>3. CASE m # n
      <4>1. v # Containers!InEntry(n) /\ v # Containers!Spare(n)
        BY <3>3, ValuesDiffer
      <4>2. v \in dropped <=> \A y \in Linked \ {0} : bucket.val[y] # v
        BY <2>2, <3>3 DEF MapInv, DropsKnown
      <4>3. CASE v = was
        <5>1. \A y \in Linked : bucket'.val[y] # v
          BY <1>7, <1>9, <1>17, <4>1, <4>3
        <5> QED
          BY <1>4, <4>3, <5>1
      <4>4. CASE v # was
        <5>1. v \in dropped' <=> v \in dropped
          BY <1>4, <4>1, <4>4
        <5>2. \A y \in Linked : bucket'.val[y] # v <=> bucket.val[y] # v
          BY <1>4, <1>7, <1>9, <4>1, <4>4
        <5> QED
          BY <4>2, <5>1, <5>2
      <4> QED
        BY <4>3, <4>4
    <3> QED
      BY <2>2, <3>1, <3>2, <3>3
  <2> QED
    BY <1>6, <1>7, <2>1, <2>2 DEF DropsKnown
<1>19. Fresh'
  <2> SUFFICES ASSUME NEW y \in Finished \union {n}
               PROVE  /\ bucket.key[y] > 0
                      /\ \E x \in Linked \ {0} : bucket.key[x] = bucket.key[y]
                      /\ \A x \in Linked \ {0} : bucket.key[x] = bucket.key[y] =>
                           \A m \in sets[y].before :
                             bucket'.val[x] # Containers!InEntry(m) /\ bucket'.val[x] # Containers!Spare(m)
    BY <1>2, <1>5, <1>6, <1>7, <1>13 DEF Fresh
  <2>1. \A m \in sets[y].before : m \in Finished /\ m # n
    BY <1>2, <1>13 DEF MapInv
  <2>2. \A m \in sets[y].before :
          bucket'.val[e] # Containers!InEntry(m) /\ bucket'.val[e] # Containers!Spare(m)
    BY <1>9, <2>1, ValuesDiffer
  <2>3. CASE y = n
    <3>1. \A x \in Linked : bucket.key[x] = bucket.key[n] => x = e
      BY <1>3 DEF MapInv, ListOk, Sorted, Linked
    <3> QED
      BY <1>2, <1>3, <2>2, <2>3, <3>1
  <2>4. CASE y # n
    <3>1. /\ bucket.key[y] > 0
          /\ \E x \in Linked \ {0} : bucket.key[x] = bucket.key[y]
          /\ \A x \in Linked \ {0} : bucket.key[x] = bucket.key[y] =>
               \A m \in sets[y].before :
                 bucket.val[x] # Containers!InEntry(m) /\ bucket.val[x] # Containers!Spare(m)
      BY <2>4 DEF MapInv, Fresh
    <3> QED
      BY <1>7, <1>9, <2>2, <3>1
  <2> QED
    BY <2>3, <2>4
<1>20. (Linked \ {0} \subseteq Finished)'
  BY <1>6, <1>7 DEF MapInv
<1> QED
  BY <1>6, <1>10, <1>11, <1>12, <1>14, <1>18, <1>19, <1>20 DEF MapInv

LEMMA MapLinkStep ==
  ASSUME MapInv, NEW t \in Threads, Containers!LinkCas(t),
         bucket.next[call[t].at] = bucket.next[call[t].n]
  PROVE  MapInv'
<1> DEFINE n == call[t].n
           e == call[t].at
<1>1. Setting(t) /\ call[t].pc = "link"
  BY DEF Setting, Containers!LinkCas
<1>2. /\ n \in Setters /\ n \in Entries \ Linked /\ n \notin Finished /\ n # 0
      /\ bucket.key[n] \in Nat \ {0}
  BY <1>1, CallIs, SettersAre
<1>3. /\ e \in Linked /\ e \in Entries /\ bucket.key[e] < bucket.key[n]
      /\ bucket.next[n] # Null => bucket.key[n] < bucket.key[bucket.next[n]]
  BY <1>1, CallIs DEF MapInv, Calling
<1>4. /\ bucket' = [bucket EXCEPT !.next[e] = n]
      /\ dropped' = dropped \union {Containers!Spare(n)} /\ Containers!Return(t)
      /\ bucket.next[e] = bucket.next[n]
  BY DEF Containers!LinkCas
<1> HIDE DEF e
<1>5. /\ bucket'.key = bucket.key /\ bucket'.val = bucket.val
      /\ bucket'.next = [bucket.next EXCEPT ![e] = n]
  BY <1>4 DEF MapInv, MapTypes
<1>6. /\ call' \in [Threads -> CallShapes] /\ ~Setting(t)' /\ Calling(t)' /\ Distinct'
      /\ \A u \in Threads : u # t => call'[u] = call[u]
      /\ sets' \in [Setters -> [state : {"none", "running", "done"}, before : SUBSET Setters]]
      /\ \A u \in Threads : u # t /\ Setting(u) => call[u].n # n
      /\ \A m \in Setters : m # n => sets'[m] = sets[m]
      /\ \A m \in Setters : sets'[m].before = sets[m].before
      /\ Finished' = Finished \union {n}
      /\ (\A m \in Setters : sets[m].before \subseteq Finished)'
  BY <1>1, <1>4, ReturnIs
<1>7. Linked' = Linked \union {n} /\ Linked \subseteq Entries
  BY <1>2, <1>3, <1>4, <1>5, ReachLink, LinkedHas DEF Linked, MapInv, MapTypes
<1>8. /\ bucket'.next \in [Entries -> Nexts]
      /\ \A y \in Entries : y # e => bucket'.next[y] = bucket.next[y]
  BY <1>2, <1>3, <1>5 DEF MapInv, MapTypes, Nexts
<1>9. MapTypes'
  <2>1. bucket' \in [key : [Entries -> Nat], val : [Entries -> Values], next : [Entries -> Nexts]]
    BY <1>2, <1>3, <1>4 DEF MapInv, MapTypes, Nexts
  <2> QED
    BY <1>6, <2>1 DEF MapTypes
<1>10. Sorted(bucket.key, bucket'.next)
  BY <1>2, <1>3, <1>4, <1>5, SortedLink DEF Linked, MapInv, MapTypes, ListOk
<1>11. ListOk'
  BY <1>5, <1>8, <1>10 DEF MapInv, ListOk
<1>12. ASSUME NEW u \in Threads PROVE Calling(u)'
  <2>1. CASE u = t
    BY <1>6, <2>1
  <2>2. CASE u # t
    <3>1. Calling(u) /\ call'[u] = call[u]
      BY <1>6, <2>2 DEF MapInv
    <3>2. Setting(u) => /\ sets'[call[u].n] = sets[call[u].n]
                        /\ bucket'.next[call[u].n] = bucket.next[call[u].n]
      BY <1>3, <1>6, <1>8, <2>2, CallIs
    <3> QED
      BY <1>5, <1>7, <3>1, <3>2 DEF Calling, Setting
  <2> QED
    BY <2>1, <2>2
<1>13. Finished \subseteq Setters /\ Finished \subseteq Entries
  BY SettersAre DEF Finished
<1>14. bucket.val[n] = Containers!InEntry(n)
  BY <1>2 DEF MapInv, ValuesKnown
<1>15. ValuesKnown'
  <2>1. \A y \in Entries : y \notin Finished' => bucket.val[y] = Containers!InEntry(y)
    BY <1>6 DEF MapInv, ValuesKnown
  <2>2. ASSUME NEW y \in Finished \union {n}, bucket.val[y] # Containers!InEntry(y)
        PROVE  \E m \in Finished \union {n} :
                 bucket.val[y] = Containers!Spare(m) /\ bucket.key[m] = bucket.key[y]
    BY <1>14, <2>2 DEF MapInv, ValuesKnown
  <2> QED
    BY <1>5, <1>6, <2>1, <2>2 DEF ValuesKnown
<1>16. \A v \in dropped : \E m \in Finished : v = Containers!InEntry(m) \/ v = Containers!Spare(m)
  BY DEF MapInv, DropsKnown
<1>17. DropsKnown'
  <2>1. \A v \in dropped' : \E m \in Finished \union {n} :
          v = Containers!InEntry(m) \/ v = Containers!Spare(m)
    BY <1>4, <1>16
  <2>2. ASSUME NEW m \in Finished \union {n},
               NEW v \in {Containers!InEntry(m), Containers!Spare(m)}
        PROVE  v \in dropped' <=> \A y \in (Linked \union {n}) \ {0} : bucket.val[y] # v
    <3>1. CASE m = n /\ v = Containers!InEntry(n)
      <4>1. v \notin dropped /\ v # Containers!Spare(n)
        BY <1>2, <1>16, <3>1, ValuesDiffer
      <4> QED
        BY <1>2, <1>4, <1>14, <3>1, <4>1
    <3>2. CASE m = n /\ v = Containers!Spare(n)
      <4>1. \A y \in Linked : bucket.val[y] # v
        BY <1>2, <3>2, LinkedValue, ValuesDiffer
      <4>2. bucket.val[n] # v
        BY <1>14, <3>2, ValuesDiffer
      <4> QED
        BY <1>4, <3>2, <4>1, <4>2
    <3>3. CASE m # n
      <4>1. v # Containers!InEntry(n) /\ v # Containers!Spare(n)
        BY <3>3, ValuesDiffer
      <4>2. v \in dropped <=> \A y \in Linked \ {0} : bucket.val[y] # v
        BY <2>2, <3>3 DEF MapInv, DropsKnown
      <4> QED
        BY <1>2, <1>4, <1>14, <4>1, <4>2
    <3> QED
      BY <2>2, <3>1, <3>2, <3>3
  <2> QED
    BY <1>5, <1>6, <1>7, <2>1, <2>2 DEF DropsKnown
<1>18. Fresh'
  <2> SUFFICES ASSUME NEW y \in Finished \union {n}
               PROVE  /\ bucket.key[y] > 0
                      /\ \E x \in (Linked \union {n}) \ {0} : bucket.key[x] = bucket.key[y]
                      /\ \A x \in (Linked \union {n}) \ {0} : bucket.key[x] = bucket.key[y] =>
                           \A m \in sets[y].before :
                             bucket.val[x] # Containers!InEntry(m) /\ bucket.val[x] # Containers!Spare(m)
    BY <1>2, <1>5, <1>6, <1>7, <1>13 DEF Fresh
  <2>1. \A m \in sets[y].before : m \in Finished /\ m # n
    BY <1>2, <1>13 DEF MapInv
  <2>2. \A m \in sets[y].before :
          bucket.val[n] # Containers!InEntry(m) /\ bucket.val[n] # Containers!Spare(m)
    BY <1>14, <2>1, ValuesDiffer
  <2>3. CASE y = n
    <3>1. \A x \in Linked \union {n} : bucket.key[x] = bucket.key[n] => x = n
      BY <1>5, <1>7, <1>10 DEF Sorted, Linked
    <3> QED
      BY <1>2, <2>2, <2>3, <3>1
  <2>4. CASE y # n
    <3>1. /\ bucket.key[y] > 0
          /\ \E x \in Linked \ {0} : bucket.key[x] = bucket.key[y]
          /\ \A x \in Linked \ {0} : bucket.key[x] = bucket.key[y] =>
               \A m \in sets[y].before :
                 bucket.val[x] # Containers!InEntry(m) /\ bucket.val[x] # Containers!Spare(m)
      BY <2>4 DEF MapInv, Fresh
    <3> QED
      BY <2>2, <3>1
  <2> QED
    BY <2>3, <2>4
<1>19. (Linked \ {0} \subseteq Finished)'
  BY <1>6, <1>7 DEF MapInv
<1> QED
  BY <1>6, <1>9, <1>11, <1>12, <1>15, <1>17, <1>18, <1>19 DEF MapInv

LEMMA MapStep ==
  ASSUME MapInv, Containers!MapNext
  PROVE  MapInv'
<1> PICK t \in Threads :
      \/ Containers!Search(t) \/ Containers!UpdateCas(t) \/ Containers!LinkCas(t) \/ Containers!Use(t)
      \/ \E k \in Keys : Containers!Set(t, k) \/ Containers!Get(t, k)
  BY DEF Containers!MapNext
<1>1. CASE Containers!Search(t)
  BY <1>1, SearchHit, SearchMiss
<1>2. CASE Containers!UpdateCas(t)
  <2>1. CASE bucket.val[call[t].at] = call[t].old
    BY <1>2, <2>1, UpdateStep
  <2>2. CASE bucket.val[call[t].at] # call[t].old
    <3>1. Setting(t) /\ Containers!Retry(t)
      BY <1>2, <2>2 DEF Setting, Containers!UpdateCas
    <3> QED
      BY <3>1, RetryStep
  <2> QED
    BY <2>1, <2>2
<1>3. CASE Containers!LinkCas(t)
  <2>1. CASE bucket.next[call[t].at] = bucket.next[call[t].n]
    BY <1>3, <2>1, MapLinkStep
  <2>2. CASE bucket.next[call[t].at] # bucket.next[call[t].n]
    <3>1. Setting(t) /\ Containers!Retry(t)
      BY <1>3, <2>2 DEF Setting, Containers!LinkCas
    <3> QED
      BY <3>1, RetryStep
  <2> QED
    BY <2>1, <2>2
<1>4. CASE Containers!Use(t)
  BY <1>4, UseStep
<1>5. CASE \E k \in Keys : Containers!Set(t, k) \/ Containers!Get(t, k)
  BY <1>5, SetStep, GetStep
<1> QED
  BY <1>1, <1>2, <1>3, <1>4, <1>5

-----------------------------------------------------------------------------
(* The run as a whole: a step is one of its subject's and leaves the state *)
(* of the others as it is.                                                 *)

ContainersInv == MapInv /\ FifoInv /\ ObjectInv /\ SleepInv /\ LockInv
BaseInv == Inv /\ QueueInv /\ PoolInv /\ ContainersInv

LEMMA LockRests == Inv /\ UNCHANGED lockVars => Inv'
BY InvStep DEF lockVars

LEMMA MapRests == MapInv /\ UNCHANGED mapVars => MapInv'
BY DEF mapVars, MapInv, MapTypes, ListOk, Linked, Finished, Calling, Setting, Distinct, ValuesKnown,
       DropsKnown, Fresh

LEMMA FifoRests == FifoInv /\ UNCHANGED unboundedVars => FifoInv'
<1> SUFFICES ASSUME FifoInv, UNCHANGED <<links, deleted, worker, taken>> PROVE FifoInv'
  BY DEF unboundedVars
<1>1. LinkTypes'
  BY DEF FifoInv, LinkTypes, Shape
<1>2. EnqueuersKnow' /\ DequeuersKnow'
  BY DEF FifoInv, EnqueuersKnow, DequeuersKnow
<1>3. NextsKnown'
  BY DEF FifoInv, NextsKnown, Linking
<1>4. RefsKnown'
  BY DEF FifoInv, RefsKnown, EnqueuerHolds, DequeuerHolds
<1>5. DeletesKnown'
  BY DEF FifoInv, DeletesKnown
<1>6. SizeKnown'
  BY DEF FifoInv, SizeKnown, Counting, Uncounting
<1> QED
  BY <1>1, <1>2, <1>3, <1>4, <1>5, <1>6 DEF FifoInv

LEMMA ObjectRests == ObjectInv /\ UNCHANGED objectsVars => ObjectInv'
BY DEF objectsVars, ObjectInv, ObjectTypes, Partition, Apiece, Remembers, Free, Owned, Returning,
       Containers!Owned, Containers!Returning

LEMMA SleepRests == SleepInv /\ UNCHANGED safeQueueVars => SleepInv'
BY DEF safeQueueVars, SleepInv, Awake, Unbounded!Sleepers

LEMMA ReentrantRests == LockInv /\ UNCHANGED reentrantVars => LockInv'
BY DEF reentrantVars, LockInv, LockTypes, Vacant, Seated, Known, Apart, In, Entering, Reading, ReadersIn

LEMMA BaseStart == MCInit => BaseInv
BY InvInit, PoolStart, MapStart, FifoStart, ObjectStart, SleepStart, LockStart
   DEF MCInit, BaseInv, ContainersInv

LEMMA ContainersRest == ContainersInv /\ UNCHANGED containerVars => ContainersInv'
BY MapRests, FifoRests, ObjectRests, SleepRests, ReentrantRests DEF containerVars, ContainersInv

LEMMA ContainersStep ==
  ASSUME ContainersInv, ContainerNext
  PROVE  ContainersInv'
<1> USE DEF ContainersInv
<1>1. CASE subject = "map" /\ Containers!MapNext /\ UNCHANGED <<unboundedVars, reentrantVars, objectsVars, safeQueueVars>>
  BY <1>1, MapStep, FifoRests, ObjectRests, SleepRests, ReentrantRests
<1>2. CASE subject = "unbounded" /\ Unbounded!UnboundedNext /\ UNCHANGED <<mapVars, reentrantVars, objectsVars, safeQueueVars>>
  BY <1>2, FifoStep, MapRests, ObjectRests, SleepRests, ReentrantRests
<1>3. CASE subject = "reentrant" /\ Reentrant!ReentrantNext /\ UNCHANGED <<mapVars, unboundedVars, objectsVars, safeQueueVars>>
  BY <1>3, LockStep, MapRests, FifoRests, ObjectRests, SleepRests
<1>4. CASE subject = "objects" /\ Containers!ObjectPoolNext /\ UNCHANGED <<mapVars, unboundedVars, reentrantVars, safeQueueVars>>
  BY <1>4, ObjectStep, MapRests, FifoRests, SleepRests, ReentrantRests
<1>5. CASE subject = "safe_queue" /\ Unbounded!ThreadSafeQueueNext /\ UNCHANGED <<mapVars, unboundedVars, reentrantVars, objectsVars>>
  BY <1>5, SleepStep, MapRests, FifoRests, ObjectRests, ReentrantRests
<1>6. CASE UNCHANGED <<mapVars, unboundedVars, reentrantVars, objectsVars, safeQueueVars>>
  BY <1>6, MapRests, FifoRests, ObjectRests, SleepRests, ReentrantRests
<1> QED
  BY <1>1, <1>2, <1>3, <1>4, <1>5, <1>6 DEF ContainerNext

\* The queue takes a step of FifoQueue or none.
LEMMA BaseStep ==
  ASSUME BaseInv, [MCNext]_<<olderVars, containerVars, subject>>
  PROVE  BaseInv' /\ [Queue!Fifo!Next]_(Queue!Fifo!vars)
<1> USE DEF BaseInv
<1>1. CASE LockNext /\ UNCHANGED <<queueVars, poolVars, containerVars, subject>>
  <2>1. Inv'
    BY <1>1, InvStep DEF LockNext
  <2>2. QueueInv' /\ [Queue!Fifo!Next]_(Queue!Fifo!vars)
    BY <1>1, QueueRests
  <2>3. PoolInv' /\ ContainersInv'
    BY <1>1, PoolRests, ContainersRest
  <2> QED
    BY <2>1, <2>2, <2>3
<1>2. CASE QueueNext /\ UNCHANGED <<lockVars, poolVars, containerVars, subject>>
  <2>1. QueueInv' /\ [Queue!Fifo!Next]_(Queue!Fifo!vars)
    BY <1>2, QueueSteps
  <2>2. subject # "pool"
    BY <1>2 DEF QueueNext
  <2>3. PoolInv' /\ ContainersInv' /\ Inv'
    BY <1>2, <2>2, PoolRests, ContainersRest, LockRests
  <2> QED
    BY <2>1, <2>3
<1>3. CASE PoolNext /\ UNCHANGED <<lockVars, containerVars, subject>>
  <2>1. QueueInv' /\ PoolInv' /\ [Queue!Fifo!Next]_(Queue!Fifo!vars)
    BY <1>3, PoolSteps
  <2>2. ContainersInv' /\ Inv'
    BY <1>3, ContainersRest, LockRests
  <2> QED
    BY <2>1, <2>2
<1>4. CASE ContainerNext /\ UNCHANGED <<olderVars, subject>>
  <2>1. QueueInv' /\ [Queue!Fifo!Next]_(Queue!Fifo!vars)
    BY <1>4, QueueRests DEF olderVars
  <2>2. PoolInv' /\ Inv'
    BY <1>4, PoolRests, LockRests DEF olderVars
  <2>3. ContainersInv'
    BY <1>4, ContainersStep
  <2> QED
    BY <2>1, <2>2, <2>3
<1>5. CASE UNCHANGED <<olderVars, containerVars, subject>>
  <2>1. QueueInv' /\ [Queue!Fifo!Next]_(Queue!Fifo!vars)
    BY <1>5, QueueRests DEF olderVars
  <2>2. PoolInv' /\ Inv' /\ ContainersInv'
    BY <1>5, PoolRests, LockRests, ContainersRest DEF olderVars
  <2> QED
    BY <2>1, <2>2
<1> QED
  BY <1>1, <1>2, <1>3, <1>4, <1>5 DEF MCNext

\* Nothing is committed at first.
LEMMA FifoBegins == Queue!PoolInit => Queue!Fifo!Init
<1> SUFFICES ASSUME Queue!PoolInit PROVE Queue!Contents = << >>
  BY DEF Queue!Fifo!Init
<1>1. head_ = 0 /\ commit_ = 1
  BY DEF Queue!PoolInit, Queue!Init
<1>2. 1 .. commit_ - head_ - 1 = {}
  BY <1>1
<1> QED
  BY <1>2 DEF Queue!Contents

LEMMA BaseInvariant == MCSpec => []BaseInv
<1>1. MCInit => BaseInv
  BY BaseStart
<1>2. BaseInv /\ [MCNext]_<<olderVars, containerVars, subject>> => BaseInv'
  BY BaseStep
<1> QED
  BY <1>1, <1>2, PTL DEF MCSpec

\* The indexes of BoundedQueue stay in order and within its capacity, and a
\* worker of ThreadPool runs only tasks that were submitted, each once.
THEOREM QueuesSafety == MCSpec => []QueuesAreSound
<1>1. BaseInv => QueuesAreSound
  BY QueuesSound DEF BaseInv
<1> QED
  BY <1>1, BaseInvariant, PTL

\* Dequeue() of BoundedQueue returns the oldest committed element, whole and
\* once, whoever else enqueues and dequeues: it implements FifoQueue.
THEOREM QueueIsFifo == MCSpec => ImplementsFifo
<1>1. MCInit => Queue!Fifo!Init
  BY FifoBegins DEF MCInit
<1>2. BaseInv /\ [MCNext]_<<olderVars, containerVars, subject>> => [Queue!Fifo!Next]_(Queue!Fifo!vars)
  BY BaseStep
<1> QED
  BY <1>1, <1>2, BaseInvariant, PTL DEF MCSpec, ImplementsFifo, Queue!ImplementsFifo, Queue!Fifo!Spec

\* The map, the linked queue, the object pool, the condition-variable queue
\* and the reentrant lock keep what they promise under every interleaving.
THEOREM ContainersSafety == MCSpec => []ContainersAreExact
<1>1. BaseInv => ContainersAreExact
  BY MapSafe, FifoSafe, ObjectSafe, SleepSafe, LockSafe DEF BaseInv, ContainersInv, ContainersAreExact
<1> QED
  BY <1>1, BaseInvariant, PTL
=============================================================================
