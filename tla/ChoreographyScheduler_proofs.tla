-------------------- MODULE ChoreographyScheduler_proofs --------------------
(***************************************************************************)
(* Proofs about ChoreographyScheduler, for any number of processors,       *)
(* routines and clients and any set of configurations.  What a processor   *)
(* has taken stays in its queue (the remover waits for the flag), and the  *)
(* queue stays as it is while it is scanned (the lock of the queue).       *)
(***************************************************************************)
EXTENDS ChoreographyScheduler, SequenceTheorems, FiniteSetTheorems, TLAPS

-----------------------------------------------------------------------------
(* The invariant.                                                          *)

\* A client that is past the mutex of its routine's id has it.
OwnersMatch ==
  /\ \A k \in Clients :
       cpc[k] \in Owning => arg[k] \in Routines /\ id_map_mutex_[arg[k]] = k
  /\ \A k \in Clients :
       cpc[k] \in {"cr_lock", "rm_lock", "nt_stop", "nt_flag", "nt_wake"}
         => arg[k] \in Routines

Queued(c) == Within(cr_queue_[DispatchQueue(c)], c)

Enqueuing(c) == \E k \in Clients : cpc[k] = "cr_enqueue" /\ arg[k] = c
Removing(c) == \E k \in Clients : cpc[k] \in {"rm_wlock", "rm_acquire"} /\ arg[k] = c

\* What is in a queue is registered and was enqueued, or is being removed.
RegistryMatches ==
  \A c \in Routines :
    /\ Enqueuing(c) => c \in id_cr_
    /\ Removing(c) => c \notin id_cr_
    /\ Queued(c) => (c \in id_cr_ /\ ~Enqueuing(c)) \/ Removing(c)

\* A routine is in one queue, once, and each queue is in descending order.
Ordered(s) == \A i, j \in DOMAIN s : i < j => Prio(s[i]) >= Prio(s[j])
Distinct(s) == \A i, j \in DOMAIN s : s[i] = s[j] => i = j
QueuesAreOrdered ==
  \A q \in Queues :
    /\ \A i \in DOMAIN cr_queue_[q] : DispatchQueue(cr_queue_[q][i]) = q
    /\ Ordered(cr_queue_[q]) /\ Distinct(cr_queue_[q])

\* A processor that has a routine has it alone, with its flag set, and the
\* routine stays in the processor's queue.
HeldIsQueued ==
  /\ \A p \in Processors : cur[p] # None =>
       lock_[cur[p]] /\ DispatchQueue(cur[p]) = QueueOf(p) /\ Queued(cur[p])
  /\ \A p, r \in Processors : cur[p] # None /\ cur[p] = cur[r] => p = r
  /\ \A c \in Routines : lock_[c] => \E p \in Processors : cur[p] = c

\* A client that has the lock of a queue shares it with no scanning processor.
RemoversAreAlone ==
  \A k \in Clients : cpc[k] = "rm_acquire" =>
    /\ RouteQueue(arg[k]) \in Queues
    /\ \A p \in Processors :
         ppc[p] \in {"scan", "update"} => QueueOf(p) # RouteQueue(arg[k])

\* The queue stays as it is while a processor scans it: the routine it looks
\* at is the one at idx, ...
ScansAreExact ==
  \A p \in Processors : ppc[p] = "update" =>
    idx[p] \in DOMAIN cr_queue_[QueueOf(p)] /\ cur[p] = cr_queue_[QueueOf(p)][idx[p]]

\* ... and in a pinned queue none of those before it is READY.
PassedAreIdle ==
  \A p \in Pinned : ppc[p] \in {"scan", "update"} =>
    \A i \in DOMAIN cr_queue_[p] : i < idx[p] => state_[cr_queue_[p][i]] # "READY"

ChoreographyInv ==
  /\ TypeOK /\ OwnersMatch /\ RegistryMatches /\ QueuesAreOrdered
  /\ HeldIsQueued /\ RemoversAreAlone /\ ScansAreExact /\ PassedAreIdle

-----------------------------------------------------------------------------
(* Configurations.                                                         *)

\* What the constructor has read is a configuration.
LEMMA ConfTypes ==
  ASSUME TypeOK
  PROVE  /\ conf.proc_num_ \in Nat \ {0} /\ conf.task_pool_size_ \in Nat
         /\ ConfProc \in [Routines -> Nat \union {-1}] /\ ConfPrio \in [Routines -> Nat]
BY ChoreographyAssumption DEF TypeOK, ConfProc, ConfPrio

\* Every routine has a queue and a priority, every processor a queue.
LEMMA QueueTypes ==
  ASSUME TypeOK
  PROVE  /\ \A c \in Routines : DispatchQueue(c) \in Queues /\ Prio(c) \in Nat
         /\ \A p \in Processors : QueueOf(p) \in Queues
         /\ Pinned \subseteq Processors /\ Pool \notin Pinned
<1>1. conf.proc_num_ \in Nat \ {0} /\ conf.task_pool_size_ \in Nat
      /\ ConfProc \in [Routines -> Nat \union {-1}] /\ ConfPrio \in [Routines -> Nat]
  BY ConfTypes
<1>2. \A c \in Routines : DispatchQueue(c) \in Queues
  BY DEF DispatchQueue, Queues
<1>3. \A c \in Routines : Prio(c) \in Nat
  BY <1>1, ChoreographyAssumption DEF Prio
<1>4. \A p \in Processors : QueueOf(p) \in Queues
  BY DEF QueueOf, Queues
<1>5. Pinned \subseteq Processors /\ Pool \notin Pinned
  BY <1>1 DEF Pinned, Processors, Pool
<1> QED
  BY <1>2, <1>3, <1>4, <1>5

\* Where RemoveCRoutine finds a queue at all, it is the one DispatchTask used.
LEMMA RouteIsDispatch ==
  ASSUME NEW c, RouteQueue(c) \in Queues
  PROVE  RouteQueue(c) = DispatchQueue(c)
BY DEF RouteQueue, DispatchQueue, Queues

\* The configuration stays.
LEMMA Frozen ==
  ASSUME UNCHANGED conf
  PROVE  /\ Processors' = Processors /\ Pinned' = Pinned /\ Queues' = Queues
         /\ \A c : DispatchQueue(c)' = DispatchQueue(c) /\ RouteQueue(c)' = RouteQueue(c)
                   /\ Prio(c)' = Prio(c)
         /\ \A p : QueueOf(p)' = QueueOf(p)
BY DEF Processors, Pinned, Queues, DispatchQueue, RouteQueue, Prio, QueueOf, ConfProc, ConfPrio

-----------------------------------------------------------------------------
(* Queues.                                                                 *)

\* A counted interval.
LEMMA InitialSegment ==
  ASSUME NEW n \in Nat
  PROVE  IsFiniteSet(1 .. n) /\ Cardinality(1 .. n) = n
<1>1. 1 \in Int /\ n \in Int
  OBVIOUS
<1>2. IsFiniteSet(1 .. n) /\ Cardinality(1 .. n) = IF 1 > n THEN 0 ELSE n - 1 + 1
  BY <1>1, FS_Interval, Zenon
<1>3. (IF 1 > n THEN 0 ELSE n - 1 + 1) = n
  OBVIOUS
<1> QED
  BY <1>2, <1>3

\* emplace() puts a routine behind those that do not come after it.
LEMMA EmplaceEffect ==
  ASSUME NEW s \in Seq(Routines), NEW c \in Routines, Ordered(s),
         \A d \in Routines : Prio(d) \in Nat
  PROVE  \E n \in 0 .. Len(s) :
           /\ Emplace(s, c) \in Seq(Routines) /\ Len(Emplace(s, c)) = Len(s) + 1
           /\ \A i \in 1 .. Len(s) + 1 :
                Emplace(s, c)[i] = IF i <= n THEN s[i] ELSE IF i = n + 1 THEN c ELSE s[i - 1]
           /\ \A i \in 1 .. Len(s) : Prio(s[i]) >= Prio(c) <=> i <= n
<1> DEFINE before == {i \in DOMAIN s : Prio(s[i]) >= Prio(c)}
           k == CHOOSE n \in 0 .. Len(s) : before = 1 .. n
<1>1. PICK L \in Nat : L = Len(s) /\ DOMAIN s = 1 .. L /\ \A i \in 1 .. L : s[i] \in Routines
  BY LenProperties
<1>2. IsFiniteSet(before) /\ Cardinality(before) \in Nat /\ Cardinality(before) <= L
  <2>1. before \in SUBSET (1 .. L)
    BY <1>1
  <2>2. IsFiniteSet(1 .. L) /\ Cardinality(1 .. L) = L
    BY InitialSegment
  <2> HIDE DEF before
  <2>3. IsFiniteSet(before) /\ Cardinality(before) <= L
    BY <2>1, <2>2, FS_Subset
  <2> QED
    BY <2>3, FS_CardinalityType
<1>3. \A i \in before : 1 .. i \subseteq before
  <2> SUFFICES ASSUME NEW i \in before, NEW j \in 1 .. i PROVE j \in before
    OBVIOUS
  <2>1. i \in 1 .. L /\ j \in 1 .. L /\ (j = i \/ j < i)
    BY <1>1
  <2>2. Prio(s[j]) >= Prio(s[i]) /\ Prio(s[i]) >= Prio(c)
        /\ Prio(s[j]) \in Nat /\ Prio(s[i]) \in Nat /\ Prio(c) \in Nat
    BY <1>1, <2>1 DEF Ordered
  <2> QED
    BY <1>1, <2>1, <2>2
<1>4. PICK n \in 0 .. L : n = Cardinality(before)
  <2>1. Cardinality(before) \in 0 .. L
    <3> HIDE DEF before
    <3> QED
      BY <1>2
  <2> HIDE DEF before
  <2> QED
    BY <2>1, Zenon
<1>5. before = 1 .. n
  <2>1. ASSUME NEW i \in before PROVE i \in 1 .. n
    <3>1. 1 .. i \in SUBSET before /\ 1 \in Int /\ i \in Int /\ 1 <= i
      BY <1>1, <1>3
    <3>2. Cardinality(1 .. i) = i
      BY <1>1, InitialSegment
    <3> HIDE DEF before
    <3>3. Cardinality(1 .. i) <= Cardinality(before)
      BY <1>2, <3>1, FS_Subset
    <3> QED
      BY <1>4, <3>1, <3>2, <3>3
  <2> HIDE DEF before
  <2>2. IsFiniteSet(1 .. n) /\ Cardinality(1 .. n) = n
    BY InitialSegment
  <2>3. before \in SUBSET (1 .. n)
    BY <2>1
  <2> QED
    BY <1>4, <2>2, <2>3, FS_Subset
<1>6. k \in 0 .. L /\ before = 1 .. k
  <2> HIDE DEF before
  <2> QED
    BY <1>1, <1>5
<1>7. Emplace(s, c) = SubSeq(s, 1, k) \o <<c>> \o SubSeq(s, k + 1, L)
  BY <1>1 DEF Emplace
<1>8. \A i \in 1 .. L : Prio(s[i]) >= Prio(c) <=> i <= k
  <2>1. \A i \in 1 .. L : i \in before <=> Prio(s[i]) >= Prio(c)
    BY <1>1
  <2> HIDE DEF before, k
  <2> QED
    BY <1>6, <2>1
<1> HIDE DEF before, k
<1> DEFINE a == SubSeq(s, 1, k)
           b == SubSeq(s, k + 1, L)
           ac == a \o <<c>>
<1>9. a \in Seq(Routines) /\ Len(a) = k /\ \A i \in 1 .. k : a[i] = s[i]
  <2>1. 1 \in Int /\ k \in Int /\ \A i \in 1 .. k : s[i] \in Routines
    BY <1>1, <1>6
  <2>2. /\ a \in Seq(Routines) /\ Len(a) = IF 1 <= k THEN k - 1 + 1 ELSE 0
        /\ \A i \in 1 .. k - 1 + 1 : a[i] = s[1 + i - 1]
    BY <2>1, SubSeqProperties
  <2> HIDE DEF a
  <2> QED
    BY <1>6, <2>2
<1>10. b \in Seq(Routines) /\ Len(b) = L - k /\ \A i \in 1 .. L - k : b[i] = s[k + i]
  <2>1. k + 1 \in Int /\ L \in Int /\ \A i \in k + 1 .. L : s[i] \in Routines
    BY <1>1, <1>6
  <2>2. /\ b \in Seq(Routines) /\ Len(b) = IF k + 1 <= L THEN L - (k + 1) + 1 ELSE 0
        /\ \A i \in 1 .. L - (k + 1) + 1 : b[i] = s[(k + 1) + i - 1]
    BY <2>1, SubSeqProperties
  <2> HIDE DEF b
  <2>3. L - (k + 1) + 1 = L - k /\ \A i \in 1 .. L - k : (k + 1) + i - 1 = k + i
    BY <1>6
  <2> QED
    BY <1>6, <2>2, <2>3
<1> HIDE DEF a, b
<1>11. /\ ac \in Seq(Routines) /\ Len(ac) = k + 1
       /\ \A i \in 1 .. k + 1 : ac[i] = IF i <= k THEN s[i] ELSE c
  <2>1. <<c>> \in Seq(Routines) /\ Len(<<c>>) = 1 /\ <<c>>[1] = c
    OBVIOUS
  <2>2. /\ ac \in Seq(Routines) /\ Len(ac) = Len(a) + Len(<<c>>)
        /\ \A i \in 1 .. Len(a) + Len(<<c>>) :
             ac[i] = IF i <= Len(a) THEN a[i] ELSE <<c>>[i - Len(a)]
    BY <1>9, <2>1, ConcatProperties
  <2> HIDE DEF ac
  <2> QED
    BY <1>6, <1>9, <2>1, <2>2
<1>12. Emplace(s, c) = ac \o b
  BY <1>7 DEF a, b
<1> HIDE DEF ac
<1>13. /\ ac \o b \in Seq(Routines) /\ Len(ac \o b) = L + 1
       /\ \A i \in 1 .. L + 1 : (ac \o b)[i] = IF i <= k + 1 THEN ac[i] ELSE b[i - (k + 1)]
  <2>1. /\ ac \o b \in Seq(Routines) /\ Len(ac \o b) = Len(ac) + Len(b)
        /\ \A i \in 1 .. Len(ac) + Len(b) :
             (ac \o b)[i] = IF i <= Len(ac) THEN ac[i] ELSE b[i - Len(ac)]
    BY <1>10, <1>11, ConcatProperties
  <2>2. Len(ac) + Len(b) = L + 1 /\ Len(ac) = k + 1
    BY <1>6, <1>10, <1>11
  <2> QED
    BY <2>1, <2>2
<1>14. ASSUME NEW i \in 1 .. L + 1
       PROVE  (ac \o b)[i] = IF i <= k THEN s[i] ELSE IF i = k + 1 THEN c ELSE s[i - 1]
  <2>1. CASE i <= k + 1
    BY <1>6, <1>11, <1>13, <2>1
  <2>2. CASE i > k + 1
    <3>1. i - (k + 1) \in 1 .. L - k /\ k + (i - (k + 1)) = i - 1
      BY <1>6, <2>2
    <3>2. (ac \o b)[i] = b[i - (k + 1)]
      <4>1. (ac \o b)[i] = IF i <= k + 1 THEN ac[i] ELSE b[i - (k + 1)]
        BY <1>13
      <4>2. ~(i <= k + 1)
        BY <1>6, <2>2
      <4> QED
        BY <4>1, <4>2
    <3>3. b[i - (k + 1)] = s[k + (i - (k + 1))]
      BY <1>10, <3>1
    <3>4. ~(i <= k) /\ i # k + 1
      BY <1>6, <2>2
    <3>5. (ac \o b)[i] = s[i - 1]
      BY <3>1, <3>2, <3>3
    <3> QED
      BY <3>4, <3>5
  <2>3. i <= k + 1 \/ i > k + 1
    BY <1>6
  <2> QED
    BY <2>1, <2>2, <2>3
<1> QED
  BY <1>1, <1>6, <1>8, <1>12, <1>13, <1>14

\* Enqueued, a routine is in the queue, and all that a queue promises stays.
LEMMA EmplaceKeeps ==
  ASSUME NEW s \in Seq(Routines), NEW c \in Routines, Ordered(s), Distinct(s), ~Within(s, c),
         \A d \in Routines : Prio(d) \in Nat
  PROVE  LET e == Emplace(s, c) IN
         /\ e \in Seq(Routines) /\ Ordered(e) /\ Distinct(e)
         /\ \A d : Within(e, d) <=> Within(s, d) \/ d = c
<1> DEFINE e == Emplace(s, c)
<1>1. PICK n \in 0 .. Len(s) :
        /\ e \in Seq(Routines) /\ Len(e) = Len(s) + 1
        /\ \A i \in 1 .. Len(s) + 1 :
             e[i] = IF i <= n THEN s[i] ELSE IF i = n + 1 THEN c ELSE s[i - 1]
        /\ \A i \in 1 .. Len(s) : Prio(s[i]) >= Prio(c) <=> i <= n
  BY EmplaceEffect
<1>2. PICK L \in Nat : L = Len(s) /\ DOMAIN s = 1 .. L /\ \A i \in 1 .. L : s[i] \in Routines
  BY LenProperties
<1> HIDE DEF e
<1>3. DOMAIN e = 1 .. L + 1
  BY <1>1, <1>2, LenProperties
\* Where each element comes from, and where it goes.
<1>4. ASSUME NEW i \in 1 .. L + 1
      PROVE  \/ i <= n /\ i \in 1 .. L /\ e[i] = s[i]
             \/ i = n + 1 /\ e[i] = c
             \/ i > n + 1 /\ i - 1 \in 1 .. L /\ e[i] = s[i - 1]
  <2>1. e[i] = IF i <= n THEN s[i] ELSE IF i = n + 1 THEN c ELSE s[i - 1]
    BY <1>1, <1>2
  <2>2. n \in Nat /\ n <= L
    BY <1>1, <1>2
  <2>3. CASE i <= n
    BY <2>1, <2>2, <2>3
  <2>4. CASE i = n + 1
    BY <2>1, <2>2, <2>4
  <2>5. CASE i > n + 1
    BY <2>1, <2>2, <2>5
  <2> QED
    BY <2>2, <2>3, <2>4, <2>5
<1>5. n \in Nat /\ n <= L /\ Prio(c) \in Nat /\ \A i \in 1 .. L : Prio(s[i]) \in Nat
  BY <1>1, <1>2
<1>6. \A i \in 1 .. L : (Prio(s[i]) >= Prio(c) <=> i <= n) /\ s[i] # c
  BY <1>1, <1>2 DEF Within
<1>7. \A i, j \in 1 .. L : (i < j => Prio(s[i]) >= Prio(s[j])) /\ (s[i] = s[j] => i = j)
  BY <1>2 DEF Ordered, Distinct
<1>8. Ordered(e)
  <2> SUFFICES ASSUME NEW i \in 1 .. L + 1, NEW j \in 1 .. L + 1, i < j
               PROVE  Prio(e[i]) >= Prio(e[j])
    BY <1>3 DEF Ordered
  <2>1. CASE i <= n /\ i \in 1 .. L /\ e[i] = s[i]
    <3>1. CASE j <= n /\ j \in 1 .. L /\ e[j] = s[j]
      BY <1>7, <2>1, <3>1
    <3>2. CASE j = n + 1 /\ e[j] = c
      BY <1>6, <2>1, <3>2
    <3>3. CASE j > n + 1 /\ j - 1 \in 1 .. L /\ e[j] = s[j - 1]
      <4>1. i < j - 1
        BY <1>5, <2>1, <3>3
      <4> QED
        BY <1>7, <2>1, <3>3, <4>1
    <3> QED
      BY <1>4, <3>1, <3>2, <3>3
  <2>2. CASE i = n + 1 /\ e[i] = c
    <3>1. j > n + 1 /\ j - 1 \in 1 .. L /\ e[j] = s[j - 1]
      BY <1>4, <1>5, <2>2
    <3>2. ~(j - 1 <= n)
      BY <1>5, <3>1
    <3> QED
      BY <1>5, <1>6, <2>2, <3>1, <3>2
  <2>3. CASE i > n + 1 /\ i - 1 \in 1 .. L /\ e[i] = s[i - 1]
    <3>1. j > n + 1 /\ j - 1 \in 1 .. L /\ e[j] = s[j - 1]
      BY <1>4, <1>5, <2>3
    <3>2. i - 1 < j - 1
      OBVIOUS
    <3> QED
      BY <1>7, <2>3, <3>1, <3>2
  <2> QED
    BY <1>4, <2>1, <2>2, <2>3
<1>9. Distinct(e)
  <2> SUFFICES ASSUME NEW i \in 1 .. L + 1, NEW j \in 1 .. L + 1, e[i] = e[j]
               PROVE  i = j
    BY <1>3 DEF Distinct
  <2>1. CASE i <= n /\ i \in 1 .. L /\ e[i] = s[i]
    <3>1. CASE j <= n /\ j \in 1 .. L /\ e[j] = s[j]
      BY <1>7, <2>1, <3>1
    <3>2. CASE j = n + 1 /\ e[j] = c
      BY <1>6, <2>1, <3>2
    <3>3. CASE j > n + 1 /\ j - 1 \in 1 .. L /\ e[j] = s[j - 1]
      <4>1. i = j - 1
        BY <1>7, <2>1, <3>3
      <4> QED
        BY <1>5, <2>1, <3>3, <4>1
    <3> QED
      BY <1>4, <3>1, <3>2, <3>3
  <2>2. CASE i = n + 1 /\ e[i] = c
    BY <1>4, <1>6, <2>2
  <2>3. CASE i > n + 1 /\ i - 1 \in 1 .. L /\ e[i] = s[i - 1]
    <3>1. CASE j <= n /\ j \in 1 .. L /\ e[j] = s[j]
      <4>1. i - 1 = j
        BY <1>7, <2>3, <3>1
      <4> QED
        BY <1>5, <2>3, <3>1, <4>1
    <3>2. CASE j = n + 1 /\ e[j] = c
      BY <1>6, <2>3, <3>2
    <3>3. CASE j > n + 1 /\ j - 1 \in 1 .. L /\ e[j] = s[j - 1]
      <4>1. i - 1 = j - 1
        BY <1>7, <2>3, <3>3
      <4> QED
        BY <4>1
    <3> QED
      BY <1>4, <3>1, <3>2, <3>3
  <2> QED
    BY <1>4, <2>1, <2>2, <2>3
<1>10. ASSUME NEW d PROVE Within(e, d) <=> Within(s, d) \/ d = c
  <2>1. ASSUME Within(e, d) PROVE Within(s, d) \/ d = c
    <3>1. PICK i \in 1 .. L + 1 : e[i] = d
      BY <1>3, <2>1 DEF Within
    <3> QED
      BY <1>2, <1>4, <3>1 DEF Within
  <2>2. ASSUME d = c PROVE Within(e, d)
    <3>1. n + 1 \in 1 .. L + 1
      BY <1>5
    <3>2. e[n + 1] = c
      BY <1>4, <1>5, <3>1
    <3> QED
      BY <1>3, <2>2, <3>1, <3>2 DEF Within
  <2>3. ASSUME Within(s, d) PROVE Within(e, d)
    <3>1. PICK i \in 1 .. L : s[i] = d
      BY <1>2, <2>3 DEF Within
    <3>2. CASE i <= n
      <4>1. i \in 1 .. L + 1 /\ ~(i > n + 1) /\ i # n + 1
        BY <1>5, <3>2
      <4> QED
        BY <1>3, <1>4, <3>1, <4>1 DEF Within
    <3>3. CASE i > n
      <4>1. i + 1 \in 1 .. L + 1 /\ ~(i + 1 <= n) /\ i + 1 # n + 1 /\ i + 1 - 1 = i
        BY <1>5, <3>3
      <4>2. e[i + 1] = s[i + 1 - 1]
        BY <1>4, <4>1
      <4> QED
        BY <1>3, <3>1, <4>1, <4>2 DEF Within
    <3> QED
      BY <1>5, <3>2, <3>3
  <2> QED
    BY <2>1, <2>2, <2>3
<1> QED
  BY <1>1, <1>8, <1>9, <1>10 DEF e

\* The erased routine is gone and the others keep their order.
LEMMA EraseKeeps ==
  ASSUME NEW s \in Seq(Routines), NEW c \in Routines, Ordered(s), Distinct(s)
  PROVE  LET e == Erase(s, c) IN
         /\ e \in Seq(Routines) /\ Ordered(e) /\ Distinct(e)
         /\ \A d : Within(e, d) <=> Within(s, d) /\ d # c
<1> DEFINE e == Erase(s, c)
<1>1. CASE ~Within(s, c)
  <2>1. e = s
    BY <1>1 DEF Erase
  <2> QED
    BY <1>1, <2>1
<1>2. CASE Within(s, c)
  <2> DEFINE First(i) == s[i] = c /\ \A j \in DOMAIN s : j < i => s[j] # c
             k == CHOOSE i \in DOMAIN s : First(i)
  <2>1. PICK L \in Nat : L = Len(s) /\ DOMAIN s = 1 .. L /\ \A i \in 1 .. L : s[i] \in Routines
    BY LenProperties
  <2>2. \A i, j \in 1 .. L : (i < j => Prio(s[i]) >= Prio(s[j])) /\ (s[i] = s[j] => i = j)
    BY <2>1 DEF Ordered, Distinct
  <2>3. PICK i0 \in 1 .. L : s[i0] = c
    BY <1>2, <2>1 DEF Within
  <2>4. First(i0)
    BY <2>1, <2>2, <2>3
  <2>5. k \in 1 .. L /\ s[k] = c
    BY <2>1, <2>4
  <2>6. e = SubSeq(s, 1, k - 1) \o SubSeq(s, k + 1, L)
    BY <1>2, <2>1 DEF Erase
  <2> HIDE DEF k, First
  <2> DEFINE a == SubSeq(s, 1, k - 1)
             b == SubSeq(s, k + 1, L)
  <2>7. a \in Seq(Routines) /\ Len(a) = k - 1 /\ \A i \in 1 .. k - 1 : a[i] = s[i]
    <3>1. 1 \in Int /\ k - 1 \in Int /\ \A i \in 1 .. k - 1 : s[i] \in Routines
      BY <2>1, <2>5
    <3>2. /\ a \in Seq(Routines) /\ Len(a) = IF 1 <= k - 1 THEN k - 1 - 1 + 1 ELSE 0
          /\ \A i \in 1 .. k - 1 - 1 + 1 : a[i] = s[1 + i - 1]
      BY <3>1, SubSeqProperties
    <3> HIDE DEF a
    <3> QED
      BY <2>5, <3>2
  <2>8. b \in Seq(Routines) /\ Len(b) = L - k /\ \A i \in 1 .. L - k : b[i] = s[k + i]
    <3>1. k + 1 \in Int /\ L \in Int /\ \A i \in k + 1 .. L : s[i] \in Routines
      BY <2>1, <2>5
    <3>2. /\ b \in Seq(Routines) /\ Len(b) = IF k + 1 <= L THEN L - (k + 1) + 1 ELSE 0
          /\ \A i \in 1 .. L - (k + 1) + 1 : b[i] = s[(k + 1) + i - 1]
      BY <3>1, SubSeqProperties
    <3> HIDE DEF b
    <3>3. L - (k + 1) + 1 = L - k /\ \A i \in 1 .. L - k : (k + 1) + i - 1 = k + i
      BY <2>5
    <3> QED
      BY <2>5, <3>2, <3>3
  <2>9. e = a \o b
    BY <2>6
  <2> HIDE DEF a, b, e
  <2>10. /\ e \in Seq(Routines) /\ Len(e) = L - 1
         /\ \A i \in 1 .. L - 1 : e[i] = IF i <= k - 1 THEN a[i] ELSE b[i - (k - 1)]
    <3>1. /\ a \o b \in Seq(Routines) /\ Len(a \o b) = Len(a) + Len(b)
          /\ \A i \in 1 .. Len(a) + Len(b) :
               (a \o b)[i] = IF i <= Len(a) THEN a[i] ELSE b[i - Len(a)]
      BY <2>7, <2>8, ConcatProperties
    <3>2. Len(a) + Len(b) = L - 1 /\ Len(a) = k - 1
      BY <2>5, <2>7, <2>8
    <3> QED
      BY <2>9, <3>1, <3>2
  <2>11. DOMAIN e = 1 .. L - 1
    BY <2>10, LenProperties
  <2>12. ASSUME NEW i \in 1 .. L - 1
         PROVE  \/ i < k /\ i \in 1 .. L /\ e[i] = s[i]
                \/ i >= k /\ i + 1 \in 1 .. L /\ e[i] = s[i + 1]
    <3>1. e[i] = IF i <= k - 1 THEN a[i] ELSE b[i - (k - 1)]
      BY <2>10
    <3>2. CASE i < k
      <4>1. i \in 1 .. k - 1 /\ i \in 1 .. L
        BY <2>5, <3>2
      <4> QED
        BY <2>7, <3>1, <3>2, <4>1
    <3>3. CASE i >= k
      <4>1. i - (k - 1) \in 1 .. L - k /\ k + (i - (k - 1)) = i + 1 /\ ~(i <= k - 1)
            /\ i + 1 \in 1 .. L
        BY <2>5, <3>3
      <4>2. b[i - (k - 1)] = s[k + (i - (k - 1))]
        BY <2>8, <4>1
      <4> QED
        BY <3>1, <3>3, <4>1, <4>2
    <3> QED
      BY <2>5, <3>2, <3>3
  <2>13. Ordered(e)
    <3> SUFFICES ASSUME NEW i \in 1 .. L - 1, NEW j \in 1 .. L - 1, i < j
                 PROVE  Prio(e[i]) >= Prio(e[j])
      BY <2>11 DEF Ordered
    <3>1. PICK u \in 1 .. L : e[i] = s[u] /\ u = IF i < k THEN i ELSE i + 1
      BY <2>5, <2>12
    <3>2. PICK v \in 1 .. L : e[j] = s[v] /\ v = IF j < k THEN j ELSE j + 1
      BY <2>5, <2>12
    <3>3. u < v
      BY <2>5, <3>1, <3>2
    <3> QED
      BY <2>2, <3>1, <3>2, <3>3
  <2>14. Distinct(e)
    <3> SUFFICES ASSUME NEW i \in 1 .. L - 1, NEW j \in 1 .. L - 1, e[i] = e[j]
                 PROVE  i = j
      BY <2>11 DEF Distinct
    <3>1. PICK u \in 1 .. L : e[i] = s[u] /\ u = IF i < k THEN i ELSE i + 1
      BY <2>5, <2>12
    <3>2. PICK v \in 1 .. L : e[j] = s[v] /\ v = IF j < k THEN j ELSE j + 1
      BY <2>5, <2>12
    <3>3. u = v
      BY <2>2, <3>1, <3>2
    <3> QED
      BY <2>5, <3>1, <3>2, <3>3
  <2>15. ASSUME NEW d PROVE Within(e, d) <=> Within(s, d) /\ d # c
    <3>1. ASSUME Within(e, d) PROVE Within(s, d) /\ d # c
      <4>1. PICK i \in 1 .. L - 1 : e[i] = d
        BY <2>11, <3>1 DEF Within
      <4>2. PICK u \in 1 .. L : e[i] = s[u] /\ u = IF i < k THEN i ELSE i + 1
        BY <2>5, <2>12
      <4>3. u # k
        BY <2>5, <4>2
      <4> QED
        BY <2>1, <2>2, <2>5, <4>1, <4>2, <4>3 DEF Within
    <3>2. ASSUME Within(s, d), d # c PROVE Within(e, d)
      <4>1. PICK u \in 1 .. L : s[u] = d
        BY <2>1, <3>2 DEF Within
      <4>2. CASE u < k
        <5>1. u \in 1 .. L - 1 /\ ~(u >= k)
          BY <2>5, <4>2
        <5> QED
          BY <2>11, <2>12, <4>1, <5>1 DEF Within
      <4>3. CASE u > k
        <5>1. u - 1 \in 1 .. L - 1 /\ ~(u - 1 < k) /\ u - 1 + 1 = u
          BY <2>5, <4>3
        <5>2. e[u - 1] = s[u - 1 + 1]
          BY <2>12, <5>1
        <5> QED
          BY <2>11, <4>1, <5>1, <5>2 DEF Within
      <4> QED
        BY <2>5, <3>2, <4>1, <4>2, <4>3
    <3> QED
      BY <3>1, <3>2
  <2> QED
    BY <2>10, <2>13, <2>14, <2>15 DEF e
<1> QED
  BY <1>1, <1>2

-----------------------------------------------------------------------------
(* The start.                                                              *)

\* Nobody has a routine and the queues are empty.
LEMMA ChoreographyInitial == Init => ChoreographyInv
<1> SUFFICES ASSUME Init PROVE ChoreographyInv
  OBVIOUS
<1> USE DEF Init
<1>1. TypeOK
  <2>1. CRoutineTypeOK
    BY DEF CRoutineInit, CRoutineTypeOK, RoutineState
  <2>2. cr_queue_ \in [Queues -> Seq(Routines)]
    OBVIOUS
  <2>3. conf \in Confs /\ stop_ \in BOOLEAN /\ id_cr_ \subseteq Routines
        /\ id_map_mutex_ \in [Routines -> Clients \union {None}]
    OBVIOUS
  <2>4. notified_ \in [Pinned -> BOOLEAN] /\ unread \subseteq Routines
        /\ cur \in [Processors -> Routines \union {None}] /\ idx \in [Processors -> Nat \ {0}]
        /\ ctxStop \in [Processors -> BOOLEAN] /\ running_ \in [Processors -> BOOLEAN]
    OBVIOUS
  <2>5. \A p \in Processors : ppc[p] = "loop" /\ cur[p] = None /\ "loop" \notin Holding
    BY DEF Holding
  <2>6. ppc \in [Processors -> {"loop"}] /\ cpc \in [Clients -> {"idle"}]
        /\ arg \in [Clients -> Routines \union {None}]
    OBVIOUS
  <2>7. todo \subseteq Processors /\ cr_list \subseteq Routines /\ shutter \in Clients \union {None}
    OBVIOUS
  <2> QED
    BY <2>1, <2>2, <2>3, <2>4, <2>5, <2>6, <2>7 DEF TypeOK
<1>2. OwnersMatch
  BY DEF OwnersMatch, Owning
<1>3. \A q \in Queues : cr_queue_[q] = <<>> /\ DOMAIN cr_queue_[q] = {}
  OBVIOUS
<1>4. \A c \in Routines : ~Queued(c)
  BY <1>1, <1>3, QueueTypes DEF Queued, Within
<1>5. RegistryMatches
  BY <1>4 DEF RegistryMatches, Enqueuing, Removing
<1>6. QueuesAreOrdered
  BY <1>3 DEF QueuesAreOrdered, Ordered, Distinct
<1>7. HeldIsQueued
  BY DEF HeldIsQueued, CRoutineInit
<1>8. RemoversAreAlone /\ ScansAreExact
  BY DEF RemoversAreAlone, ScansAreExact
<1>9. PassedAreIdle
  BY <1>1, <1>3, QueueTypes DEF PassedAreIdle
<1> QED
  BY <1>1, <1>2, <1>5, <1>6, <1>7, <1>8, <1>9 DEF ChoreographyInv

-----------------------------------------------------------------------------
(* The steps of a processor.                                               *)

\* They keep the types.
LEMMA ProcessorTypes ==
  ASSUME TypeOK, NEW p \in Processors, ProcessorStep(p), UNCHANGED conf
  PROVE  TypeOK'
<1>1. Processors' = Processors /\ Pinned' = Pinned /\ Queues' = Queues
  BY Frozen
<1>2. \A r \in Processors : ppc[r] \in Holding => cur[r] \in Routines
  BY DEF TypeOK
<1> USE DEF TypeOK, CRoutineTypeOK, RoutineState, Holding, Goto, croutineVars, queueVars,
            procVars, stopVars, clientVars
<1>3. CASE Loop(p)
  BY <1>1, <1>3 DEF Loop
<1>4. CASE NextRoutine(p)
  <2>1. CASE ctxStop[p] /\ ppc' = [ppc EXCEPT ![p] = "wait"] /\ UNCHANGED idx
    BY <1>1, <1>4, <2>1 DEF NextRoutine
  <2>2. CASE ppc' = [ppc EXCEPT ![p] = "scan"] /\ idx' = [idx EXCEPT ![p] = 1]
    BY <1>1, <1>4, <2>2 DEF NextRoutine
  <2> QED
    BY <1>4, <2>1, <2>2 DEF NextRoutine
<1>5. CASE Scan(p)
  <2>1. PICK c \in Routines : c = cr_queue_[QueueOf(p)][idx[p]]
    <3>1. QueueOf(p) \in Queues
      BY QueueTypes
    <3>2. PICK s \in Seq(Routines) : s = cr_queue_[QueueOf(p)]
      BY <3>1
    <3>3. idx[p] \in Nat \ {0} /\ idx[p] <= Len(s)
      BY <1>5, <3>2 DEF Scan
    <3>4. s[idx[p]] \in Routines
      BY <3>2, <3>3, ElementOfSeq
    <3> QED
      BY <3>2, <3>4
  <2>2. CASE /\ lock_' = [lock_ EXCEPT ![c] = TRUE] /\ cur' = [cur EXCEPT ![p] = c]
             /\ ppc' = [ppc EXCEPT ![p] = "update"] /\ UNCHANGED idx
    BY <1>1, <1>5, <2>1, <2>2, ChoreographyAssumption DEF Scan
  <2>3. CASE idx' = [idx EXCEPT ![p] = @ + 1] /\ UNCHANGED <<lock_, cur, ppc>>
    BY <1>1, <1>5, <2>3 DEF Scan
  <2> QED
    BY <1>5, <2>1, <2>2, <2>3 DEF Scan, Acquire
<1>6. CASE Update(p)
  <2>1. PICK c \in Routines : c = cur[p]
    BY <1>2, <1>6 DEF Update
  <2>2. NextState(c, FALSE) \in RoutineState
    BY DEF NextState
  <2>3. state_' \in [Routines -> RoutineState] /\ updated_' \in [Routines -> BOOLEAN]
    BY <1>6, <2>1, <2>2 DEF Update, UpdateState, SetState
  <2>4. CASE ppc' = [ppc EXCEPT ![p] = "resume"] /\ UNCHANGED <<lock_, cur, idx>>
    BY <1>1, <1>6, <2>1, <2>3, <2>4 DEF Update
  <2>5. CASE /\ lock_' = [lock_ EXCEPT ![c] = FALSE] /\ cur' = [cur EXCEPT ![p] = None]
             /\ idx' = [idx EXCEPT ![p] = @ + 1] /\ ppc' = [ppc EXCEPT ![p] = "scan"]
    BY <1>1, <1>6, <2>1, <2>3, <2>5 DEF Update
  <2> QED
    BY <1>6, <2>1, <2>4, <2>5 DEF Update, Release
<1>7. CASE EndOfQueue(p)
  BY <1>1, <1>7 DEF EndOfQueue
<1>8. CASE Resume(p)
  BY <1>1, <1>2, <1>8 DEF Resume
<1>9. CASE SetDataWait(p)
  BY <1>1, <1>2, <1>9 DEF SetDataWait, SetState
<1>10. CASE TryFetch(p)
  BY <1>1, <1>2, <1>10 DEF TryFetch
<1>11. CASE Done(p)
  BY <1>1, <1>2, <1>11 DEF Done, Release
<1>12. CASE Wait(p)
  <2>1. PICK x \in {"blocked", "loop", "block"} :
          ppc[p] \in {"wait", "block"} /\ ppc' = [ppc EXCEPT ![p] = x]
    BY <1>12 DEF Wait
  <2> QED
    BY <1>1, <1>12, <2>1 DEF Wait
<1>13. CASE Timeout(p)
  BY <1>1, <1>13 DEF Timeout
<1> QED
  BY <1>3, <1>4, <1>5, <1>6, <1>7, <1>8, <1>9, <1>10, <1>11, <1>12, <1>13 DEF ProcessorStep

\* They leave the queues, the clients and what Shutdown() sets alone.
LEMMA ProcessorFrame ==
  ASSUME NEW p \in Processors, ProcessorStep(p)
  PROVE  UNCHANGED <<force_stop_, queueVars, clientVars, stopVars>>
BY DEF ProcessorStep, Loop, NextRoutine, Scan, Update, EndOfQueue, Resume, SetDataWait, TryFetch,
       Done, Wait, Timeout, croutineVars, queueVars, clientVars, stopVars

\* What is said of the queues and the clients alone stays with them.
LEMMA QueueFrame ==
  ASSUME OwnersMatch, RegistryMatches, QueuesAreOrdered, UNCHANGED <<conf, queueVars, clientVars>>
  PROVE  /\ OwnersMatch' /\ RegistryMatches' /\ QueuesAreOrdered'
         /\ \A c : Queued(c)' = Queued(c)
<1>1. /\ Queues' = Queues
      /\ \A c : DispatchQueue(c)' = DispatchQueue(c) /\ Prio(c)' = Prio(c)
  BY Frozen
<1> USE DEF queueVars, clientVars
<1>2. OwnersMatch'
  BY DEF OwnersMatch
<1>3. \A c : Queued(c)' = Queued(c)
  BY <1>1 DEF Queued, Within
<1>4. \A c : Enqueuing(c)' = Enqueuing(c) /\ Removing(c)' = Removing(c)
  BY DEF Enqueuing, Removing
<1>5. RegistryMatches'
  BY <1>3, <1>4 DEF RegistryMatches
<1>6. QueuesAreOrdered'
  BY <1>1 DEF QueuesAreOrdered, Ordered, Distinct
<1> QED
  BY <1>2, <1>3, <1>5, <1>6

\* The routine at a place of a processor's queue is in that queue alone.
LEMMA PlaceInQueue ==
  ASSUME TypeOK, QueuesAreOrdered, NEW p \in Processors, NEW i \in DOMAIN cr_queue_[QueueOf(p)]
  PROVE  LET c == cr_queue_[QueueOf(p)][i]
         IN  c \in Routines /\ DispatchQueue(c) = QueueOf(p) /\ Queued(c)
<1> DEFINE c == cr_queue_[QueueOf(p)][i]
<1>1. QueueOf(p) \in Queues
  BY QueueTypes
<1>2. c \in Routines
  <2>1. cr_queue_[QueueOf(p)] \in Seq(Routines)
    BY <1>1 DEF TypeOK
  <2>2. i \in 1 .. Len(cr_queue_[QueueOf(p)])
    BY <2>1, LenProperties
  <2> QED
    BY <2>1, <2>2, ElementOfSeq
<1>3. DispatchQueue(c) = QueueOf(p)
  BY <1>1 DEF QueuesAreOrdered
<1> QED
  BY <1>2, <1>3 DEF Queued, Within

\* A scanning processor looks at a place of its queue.
LEMMA ScanPlace ==
  ASSUME TypeOK, NEW p \in Processors, Scan(p)
  PROVE  idx[p] \in DOMAIN cr_queue_[QueueOf(p)] /\ cur[p] = None
<1>1. QueueOf(p) \in Queues
  BY QueueTypes
<1>2. PICK s \in Seq(Routines) : s = cr_queue_[QueueOf(p)]
  BY <1>1 DEF TypeOK
<1>3. idx[p] \in Nat \ {0} /\ idx[p] <= Len(s)
  BY <1>2 DEF TypeOK, Scan
<1>4. idx[p] \in DOMAIN s
  BY <1>2, <1>3, LenProperties
<1> QED
  BY <1>2, <1>4 DEF TypeOK, Scan, Holding

\* A routine is taken while it is free and in the processor's queue, and
\* given back by the processor that has it.
LEMMA ProcessorHolds ==
  ASSUME ChoreographyInv, NEW p \in Processors, ProcessorStep(p), UNCHANGED conf
  PROVE  HeldIsQueued'
<1> USE DEF ChoreographyInv
<1>1. /\ Processors' = Processors
      /\ \A c : DispatchQueue(c)' = DispatchQueue(c)
      /\ \A r : QueueOf(r)' = QueueOf(r)
  BY Frozen
<1>2. \A c : Queued(c)' = Queued(c)
  BY ProcessorFrame, QueueFrame
<1>3. cur \in [Processors -> Routines \union {None}] /\ lock_ \in [Routines -> BOOLEAN]
      /\ None \notin Routines
  BY ChoreographyAssumption DEF TypeOK, CRoutineTypeOK
<1>4. \A c : \A r \in Processors : cur[r] = c /\ c # None => DispatchQueue(c) = QueueOf(r) /\ Queued(c)
  BY DEF HeldIsQueued
<1>5. CASE UNCHANGED <<cur, lock_>>
  BY <1>1, <1>2, <1>5 DEF HeldIsQueued
<1>6. CASE Scan(p)
  <2>1. PICK c \in Routines : c = cr_queue_[QueueOf(p)][idx[p]] /\ DispatchQueue(c) = QueueOf(p) /\ Queued(c)
    BY <1>6, ScanPlace, PlaceInQueue
  <2>2. CASE ~lock_[c] /\ lock_' = [lock_ EXCEPT ![c] = TRUE] /\ cur' = [cur EXCEPT ![p] = c]
    <3>1. \A r \in Processors : cur[r] # c
      BY <1>3, <2>2 DEF HeldIsQueued
    <3>2. \A r \in Processors : cur'[r] = IF r = p THEN c ELSE cur[r]
      BY <1>3, <2>2
    <3>3. \A d \in Routines : lock_'[d] = IF d = c THEN TRUE ELSE lock_[d]
      BY <1>3, <2>2
    <3>4. ASSUME NEW r \in Processors, cur'[r] # None
          PROVE  lock_'[cur'[r]] /\ DispatchQueue(cur'[r]) = QueueOf(r) /\ Queued(cur'[r])
      <4>1. CASE r = p
        BY <2>1, <3>2, <3>3, <4>1
      <4>2. CASE r # p
        <5>1. cur'[r] = cur[r] /\ cur[r] \in Routines
          BY <1>3, <3>2, <3>4, <4>2
        <5>2. lock_[cur[r]] /\ DispatchQueue(cur[r]) = QueueOf(r) /\ Queued(cur[r])
          BY <3>4, <5>1 DEF HeldIsQueued
        <5> QED
          BY <3>1, <3>3, <5>1, <5>2
      <4> QED
        BY <4>1, <4>2
    <3>5. ASSUME NEW r \in Processors, NEW t \in Processors, cur'[r] # None, cur'[r] = cur'[t]
          PROVE  r = t
      BY <1>3, <3>1, <3>2, <3>5 DEF HeldIsQueued
    <3>6. ASSUME NEW d \in Routines, lock_'[d] PROVE \E r \in Processors : cur'[r] = d
      <4>1. CASE d = c
        BY <3>2, <4>1
      <4>2. CASE d # c
        <5>1. PICK r \in Processors : cur[r] = d
          BY <3>3, <3>6, <4>2 DEF HeldIsQueued
        <5>2. r # p
          BY <1>3, <1>6, <5>1, ScanPlace
        <5> QED
          BY <3>2, <5>1, <5>2
      <4> QED
        BY <4>1, <4>2
    <3> QED
      BY <1>1, <1>2, <3>4, <3>5, <3>6 DEF HeldIsQueued
  <2>3. CASE UNCHANGED <<lock_, cur>>
    BY <1>5, <2>3
  <2> QED
    BY <1>6, <2>1, <2>2, <2>3 DEF Scan, Acquire
<1>7. CASE /\ ppc[p] \in Holding /\ lock_' = [lock_ EXCEPT ![cur[p]] = FALSE]
           /\ cur' = [cur EXCEPT ![p] = None]
  <2>1. PICK c \in Routines : c = cur[p]
    BY <1>3, <1>7 DEF TypeOK
  <2>2. \A r \in Processors : cur'[r] = IF r = p THEN None ELSE cur[r]
    BY <1>3, <1>7
  <2>3. \A d \in Routines : lock_'[d] = IF d = c THEN FALSE ELSE lock_[d]
    BY <1>3, <1>7, <2>1
  <2>4. \A r \in Processors : cur[r] = c => r = p
    BY <1>3, <2>1 DEF HeldIsQueued
  <2>5. ASSUME NEW r \in Processors, cur'[r] # None
        PROVE  lock_'[cur'[r]] /\ DispatchQueue(cur'[r]) = QueueOf(r) /\ Queued(cur'[r])
    <3>1. r # p /\ cur'[r] = cur[r] /\ cur[r] \in Routines
      BY <1>3, <2>2, <2>5
    <3>2. lock_[cur[r]] /\ DispatchQueue(cur[r]) = QueueOf(r) /\ Queued(cur[r])
      BY <2>5, <3>1 DEF HeldIsQueued
    <3> QED
      BY <2>3, <2>4, <3>1, <3>2
  <2>6. ASSUME NEW r \in Processors, NEW t \in Processors, cur'[r] # None, cur'[r] = cur'[t]
        PROVE  r = t
    BY <2>2, <2>6 DEF HeldIsQueued
  <2>7. ASSUME NEW d \in Routines, lock_'[d] PROVE \E r \in Processors : cur'[r] = d
    <3>1. d # c /\ lock_[d]
      BY <2>3, <2>7
    <3>2. PICK r \in Processors : cur[r] = d
      BY <3>1 DEF HeldIsQueued
    <3> QED
      BY <2>1, <2>2, <3>1, <3>2
  <2> QED
    BY <1>1, <1>2, <2>5, <2>6, <2>7 DEF HeldIsQueued
<1>8. CASE Update(p)
  BY <1>5, <1>7, <1>8 DEF Update, Release, Holding
<1>9. CASE Done(p)
  BY <1>7, <1>9 DEF Done, Goto, Release, Holding
<1> QED
  BY <1>5, <1>6, <1>8, <1>9 DEF ProcessorStep, Loop, NextRoutine, EndOfQueue, Resume, SetDataWait,
     TryFetch, Wait, Timeout, croutineVars

\* A pinned queue is the queue of one processor.
LEMMA PinnedQueue ==
  ASSUME TypeOK, NEW q \in Pinned
  PROVE  QueueOf(q) = q /\ \A r \in Processors : QueueOf(r) = q => r = q
BY QueueTypes DEF QueueOf

\* A search starts with nobody writing the queue, and takes what it looks at.
LEMMA ProcessorScans ==
  ASSUME ChoreographyInv, NEW p \in Processors, ProcessorStep(p), UNCHANGED conf
  PROVE  RemoversAreAlone' /\ ScansAreExact'
<1> USE DEF ChoreographyInv
<1>1. /\ Processors' = Processors /\ Queues' = Queues
      /\ \A c : RouteQueue(c)' = RouteQueue(c)
      /\ \A r : QueueOf(r)' = QueueOf(r)
  BY Frozen
<1>2. UNCHANGED <<cr_queue_, cpc, arg>>
  BY ProcessorFrame DEF queueVars, clientVars
<1>3. ppc \in [Processors -> {"loop", "next", "scan", "wait", "block", "blocked", "exit"} \union Holding]
      /\ cur \in [Processors -> Routines \union {None}] /\ idx \in [Processors -> Nat \ {0}]
  BY DEF TypeOK
<1>4. RemoversAreAlone'
  <2>1. ASSUME NEW r \in Processors, ppc'[r] \in {"scan", "update"}
        PROVE  ppc[r] \in {"scan", "update"} \/ Readable(QueueOf(r))
    <3> USE DEF Goto, croutineVars
    <3>1. CASE NextRoutine(p)
      BY <1>3, <2>1, <3>1 DEF NextRoutine
    <3>2. CASE Scan(p)
      BY <1>3, <2>1, <3>2 DEF Scan
    <3>3. CASE Update(p)
      BY <1>3, <2>1, <3>3 DEF Update
    <3>4. CASE Loop(p) \/ EndOfQueue(p) \/ Resume(p) \/ SetDataWait(p) \/ TryFetch(p) \/ Done(p)
               \/ Wait(p) \/ Timeout(p)
      BY <1>3, <2>1, <3>4 DEF Loop, EndOfQueue, Resume, SetDataWait, TryFetch, Done, Wait, Timeout
    <3> QED
      BY <3>1, <3>2, <3>3, <3>4 DEF ProcessorStep
  <2>2. ASSUME NEW k \in Clients, cpc[k] = "rm_acquire",
               NEW r \in Processors, ppc'[r] \in {"scan", "update"}
        PROVE  QueueOf(r) # RouteQueue(arg[k])
    BY <2>1, <2>2 DEF RemoversAreAlone, Readable
  <2> QED
    BY <1>1, <1>2, <2>2 DEF RemoversAreAlone
<1>5. ASSUME NEW r \in Processors, ppc'[r] = "update"
      PROVE  /\ idx'[r] \in DOMAIN cr_queue_[QueueOf(r)]
             /\ cur'[r] = cr_queue_[QueueOf(r)][idx'[r]]
  <2>1. CASE ppc[r] = "update" /\ cur'[r] = cur[r] /\ idx'[r] = idx[r]
    BY <2>1 DEF ScansAreExact
  <2>2. CASE /\ Scan(p) /\ r = p /\ UNCHANGED idx
             /\ cur' = [cur EXCEPT ![p] = cr_queue_[QueueOf(p)][idx[p]]]
    BY <1>3, <2>2, ScanPlace
  <2> USE DEF Goto, croutineVars
  <2>3. CASE Scan(p)
    BY <1>3, <1>5, <2>1, <2>2, <2>3 DEF Scan
  <2>4. CASE Update(p)
    BY <1>3, <1>5, <2>1, <2>4 DEF Update
  <2>5. CASE Loop(p) \/ NextRoutine(p) \/ EndOfQueue(p) \/ Resume(p) \/ SetDataWait(p) \/ TryFetch(p)
             \/ Wait(p) \/ Timeout(p)
    BY <1>3, <1>5, <2>1, <2>5 DEF Loop, NextRoutine, EndOfQueue, Resume, SetDataWait, TryFetch, Wait,
       Timeout
  <2>6. CASE Done(p)
    BY <1>3, <1>5, <2>1, <2>6 DEF Done
  <2> QED
    BY <2>3, <2>4, <2>5, <2>6 DEF ProcessorStep
<1>6. ScansAreExact'
  BY <1>1, <1>2, <1>5 DEF ScansAreExact
<1> QED
  BY <1>4, <1>6

\* Only its own processor makes a routine of a pinned queue READY, and that
\* one hands it out at once.
LEMMA ProcessorPasses ==
  ASSUME ChoreographyInv, NEW p \in Processors, ProcessorStep(p), UNCHANGED conf
  PROVE  PassedAreIdle'
<1> USE DEF ChoreographyInv
<1>1. Pinned' = Pinned /\ cr_queue_' = cr_queue_
  BY Frozen, ProcessorFrame DEF queueVars
<1>2. ppc \in [Processors -> {"loop", "next", "scan", "wait", "block", "blocked", "exit"} \union Holding]
      /\ idx \in [Processors -> Nat \ {0}] /\ state_ \in [Routines -> RoutineState]
      /\ cur \in [Processors -> Routines \union {None}] /\ None \notin Routines
      /\ \A r \in Processors : ppc[r] \in Holding => cur[r] \in Routines
  BY ChoreographyAssumption DEF TypeOK, CRoutineTypeOK
<1> SUFFICES ASSUME NEW r \in Pinned, ppc'[r] \in {"scan", "update"},
                    NEW i \in DOMAIN cr_queue_[r], i < idx'[r]
             PROVE  state_'[cr_queue_[r][i]] # "READY"
  BY <1>1 DEF PassedAreIdle
<1>3. r \in Processors /\ QueueOf(r) = r
  BY QueueTypes, PinnedQueue
<1>4. PICK d \in Routines : d = cr_queue_[r][i] /\ DispatchQueue(d) = r
  BY <1>3, PlaceInQueue
\* What another processor has is not in this queue.
<1>5. ASSUME NEW t \in Processors, cur[t] = d PROVE t = r
  BY <1>2, <1>3, <1>4, <1>5, PinnedQueue DEF HeldIsQueued
<1>6. ASSUME ppc[r] \in {"scan", "update"}, i < idx[r] PROVE state_[d] # "READY"
  BY <1>4, <1>6 DEF PassedAreIdle
<1> USE DEF Goto, croutineVars, Holding
<1>7. CASE NextRoutine(p)
  <2>1. CASE r = p
    <3>1. ppc[p] = "next" /\ idx'[p] = 1
      BY <1>2, <1>7, <2>1 DEF NextRoutine
    <3>2. r \in Queues /\ cr_queue_[r] \in Seq(Routines)
      BY <1>3, QueueTypes DEF TypeOK
    <3>3. i \in 1 .. Len(cr_queue_[r])
      BY <3>2, LenProperties
    <3> QED
      BY <2>1, <3>1, <3>3
  <2>2. CASE r # p
    BY <1>2, <1>3, <1>4, <1>6, <1>7, <2>2 DEF NextRoutine
  <2> QED
    BY <2>1, <2>2
<1>8. CASE Scan(p)
  <2>1. state_' = state_ /\ ppc[r] \in {"scan", "update"}
    BY <1>2, <1>3, <1>8 DEF Scan
  <2>2. CASE i < idx[r]
    BY <1>4, <1>6, <2>1, <2>2
  <2>3. CASE ~(i < idx[r])
    <3>1. r = p /\ idx' = [idx EXCEPT ![p] = @ + 1] /\ lock_[cr_queue_[QueueOf(p)][idx[p]]]
      BY <1>2, <1>3, <1>8, <2>3 DEF Scan
    <3>2. idx[p] \in DOMAIN cr_queue_[r] /\ cur[p] = None
      BY <1>3, <1>8, <3>1, ScanPlace
    <3>3. PICK e \in Routines : e = cr_queue_[r][idx[p]] /\ DispatchQueue(e) = r
      BY <1>3, <3>1, <3>2, PlaceInQueue
    <3>4. PICK t \in Processors : cur[t] = e
      BY <1>3, <3>1, <3>3 DEF HeldIsQueued
    <3>5. t = r
      BY <1>2, <3>3, <3>4, PinnedQueue DEF HeldIsQueued
    <3> QED
      BY <1>2, <3>1, <3>2, <3>4, <3>5
  <2> QED
    BY <2>2, <2>3
<1>9. CASE Update(p)
  <2>1. CASE r # p
    <3>1. ppc[r] \in {"scan", "update"} /\ idx'[r] = idx[r] /\ cur[p] # d
      BY <1>2, <1>3, <1>5, <1>9, <2>1 DEF Update
    <3>2. state_'[d] = state_[d]
      BY <1>2, <1>9, <3>1 DEF Update, UpdateState, SetState
    <3> QED
      BY <1>4, <1>6, <3>1, <3>2
  <2>2. CASE r = p
    <3>1. PICK c \in Routines : c = cur[p]
      BY <1>2, <1>9 DEF Update
    <3>2. ppc[p] = "update" /\ NextState(c, FALSE) # "READY" /\ idx'[p] = idx[p] + 1
          /\ state_' = [state_ EXCEPT ![c] = NextState(c, FALSE)]
      BY <1>2, <1>9, <2>2, <3>1 DEF Update, UpdateState, SetState
    <3>3. c = cr_queue_[r][idx[r]] /\ idx[r] \in DOMAIN cr_queue_[r]
      BY <1>3, <2>2, <3>1, <3>2 DEF ScansAreExact
    <3>4. CASE d = c
      BY <1>2, <1>4, <3>2, <3>4
    <3>5. CASE d # c
      <4>1. i # idx[r] /\ i < idx[r] + 1 /\ i \in Nat /\ idx[r] \in Nat
        <5>1. r \in Queues /\ cr_queue_[r] \in Seq(Routines)
          BY <1>3, QueueTypes DEF TypeOK
        <5>2. i \in 1 .. Len(cr_queue_[r]) /\ Len(cr_queue_[r]) \in Nat
          BY <5>1, LenProperties
        <5> QED
          BY <1>2, <1>3, <1>4, <2>2, <3>2, <3>3, <3>5, <5>2
      <4>2. i < idx[r]
        BY <4>1
      <4> QED
        BY <1>2, <1>4, <1>6, <2>2, <3>2, <3>5, <4>2
    <3> QED
      BY <3>4, <3>5
  <2> QED
    BY <2>1, <2>2
<1>10. ASSUME ppc[p] \notin {"next", "scan", "update"}, ppc'[p] \notin {"scan", "update"},
              \A t \in Processors \ {p} : ppc'[t] = ppc[t], UNCHANGED idx,
              \A e \in Routines : e # cur[p] => state_'[e] = state_[e]
       PROVE  state_'[cr_queue_[r][i]] # "READY"
  <2>1. r # p /\ ppc[r] \in {"scan", "update"} /\ d # cur[p]
    BY <1>3, <1>5, <1>10
  <2> QED
    BY <1>4, <1>6, <1>10, <2>1
<1>11. CASE Resume(p) \/ SetDataWait(p) \/ TryFetch(p)
  BY <1>2, <1>10, <1>11 DEF Resume, SetDataWait, SetState, TryFetch
<1>12. CASE Loop(p) \/ Done(p) \/ Wait(p) \/ Timeout(p)
  BY <1>2, <1>10, <1>12 DEF Loop, Done, Wait, Timeout
<1>13. CASE EndOfQueue(p)
  <2>1. r # p
    BY <1>2, <1>3, <1>13 DEF EndOfQueue
  <2> QED
    BY <1>2, <1>3, <1>4, <1>6, <1>13, <2>1 DEF EndOfQueue
<1> QED
  BY <1>7, <1>8, <1>9, <1>11, <1>12, <1>13 DEF ProcessorStep

\* All of the invariant.
LEMMA ProcessorKeeps ==
  ASSUME ChoreographyInv, NEW p \in Processors, ProcessorStep(p), UNCHANGED conf
  PROVE  ChoreographyInv'
<1>1. TypeOK'
  BY ProcessorTypes DEF ChoreographyInv
<1>2. OwnersMatch' /\ RegistryMatches' /\ QueuesAreOrdered'
  BY ProcessorFrame, QueueFrame DEF ChoreographyInv
<1> QED
  BY <1>1, <1>2, ProcessorHolds, ProcessorScans, ProcessorPasses DEF ChoreographyInv

-----------------------------------------------------------------------------
(* The steps of a client.                                                  *)

ClientMove(k) ==
  \/ ClientStep(k) \/ Shutdown(k)
  \/ \E c \in Routines : CreateTask(k, c) \/ RemoveTask(k, c) \/ Dispatch(k, c)

\* They take no routine from a processor; at most one that is blocked goes on.
LEMMA ClientFrame ==
  ASSUME TypeOK, NEW k \in Clients, ClientMove(k)
  PROVE  /\ UNCHANGED <<cur, idx>>
         /\ \/ UNCHANGED ppc
            \/ \E ps : ppc' = [p \in Processors |-> IF p \in ps /\ ppc[p] = "blocked"
                                                      THEN "loop" ELSE ppc[p]]
         /\ \A p \in Processors : ppc'[p] = ppc[p] \/ (ppc[p] = "blocked" /\ ppc'[p] = "loop")
<1>1. UNCHANGED procVars \/ \E ps : Wake(ps)
  <2>1. CASE NotifyWake(k)
    BY <2>1 DEF NotifyWake
  <2>2. CASE StopContext(k)
    BY <2>2 DEF StopContext
  <2>3. CASE StopProcessor(k)
    BY <2>3 DEF StopProcessor
  <2>4. CASE ~(NotifyWake(k) \/ StopContext(k) \/ StopProcessor(k))
    BY <2>4 DEF ClientMove, ClientStep, TakeId, DispatchRegister, DispatchEnqueue, RemoveUnregister,
       RemoveWriteLock, RemoveErase, NotifyStopCheck, NotifyFlag, RemoveNext, Join, Shutdown,
       CreateTask, RemoveTask, Dispatch
  <2> QED
    BY <2>1, <2>2, <2>3, <2>4
<1> QED
  BY <1>1 DEF Wake, procVars

\* The other clients stay where they are.
LEMMA ClientControl ==
  ASSUME TypeOK, NEW k \in Clients, ClientMove(k)
  PROVE  \A j \in Clients \ {k} : cpc'[j] = cpc[j] /\ arg'[j] = arg[j]
<1>1. cpc \in [Clients -> {"idle", "nt_stop", "nt_flag", "nt_wake", "cr_lock", "rm_lock",
                           "sd_stop", "sd_remove", "sd_join", "sd_done"} \union Owning]
      /\ arg \in [Clients -> Routines \union {None}]
  BY DEF TypeOK
<1> USE DEF clientVars, Step, Call
<1>2. CASE \E c \in Routines : CreateTask(k, c)
  BY <1>1, <1>2 DEF CreateTask
<1>3. CASE \E c \in Routines : RemoveTask(k, c)
  BY <1>1, <1>3 DEF RemoveTask
<1>4. CASE \E c \in Routines : Dispatch(k, c)
  BY <1>1, <1>4 DEF Dispatch
<1>5. CASE Shutdown(k)
  BY <1>1, <1>5 DEF Shutdown
<1>6. CASE TakeId(k)
  BY <1>1, <1>6 DEF TakeId
<1>7. CASE DispatchRegister(k)
  BY <1>1, <1>7 DEF DispatchRegister
<1>8. CASE DispatchEnqueue(k)
  BY <1>1, <1>8 DEF DispatchEnqueue
<1>9. CASE RemoveUnregister(k)
  BY <1>1, <1>9 DEF RemoveUnregister
<1>10. CASE RemoveWriteLock(k)
  BY <1>1, <1>10 DEF RemoveWriteLock
<1>11. CASE RemoveErase(k)
  BY <1>1, <1>11 DEF RemoveErase
<1>12. CASE NotifyStopCheck(k)
  BY <1>1, <1>12 DEF NotifyStopCheck
<1>13. CASE NotifyFlag(k)
  BY <1>1, <1>13 DEF NotifyFlag
<1>14. CASE NotifyWake(k)
  BY <1>1, <1>14 DEF NotifyWake
<1>15. CASE StopContext(k)
  BY <1>1, <1>15 DEF StopContext
<1>16. CASE RemoveNext(k)
  BY <1>1, <1>16 DEF RemoveNext
<1>17. CASE StopProcessor(k)
  BY <1>1, <1>17 DEF StopProcessor
<1>18. CASE Join(k)
  BY <1>1, <1>18 DEF Join
<1> QED
  BY <1>2, <1>3, <1>4, <1>5, <1>6, <1>7, <1>8, <1>9, <1>10, <1>11, <1>12, <1>13, <1>14, <1>15, <1>16, <1>17, <1>18
     DEF ClientMove, ClientStep

\* They keep the types.
LEMMA ClientTypes ==
  ASSUME TypeOK, OwnersMatch, NEW k \in Clients, ClientMove(k), UNCHANGED conf,
         cr_queue_' \in [Queues -> Seq(Routines)]
  PROVE  TypeOK'
<1>1. Processors' = Processors /\ Pinned' = Pinned /\ Queues' = Queues
  BY Frozen
<1>2. UNCHANGED <<cur, idx>>
      /\ \A p \in Processors : ppc'[p] = ppc[p] \/ (ppc[p] = "blocked" /\ ppc'[p] = "loop")
  BY ClientFrame
<1>3. ppc' \in [Processors -> {"loop", "next", "scan", "wait", "block", "blocked", "exit"} \union Holding]
  BY <1>2, ClientFrame DEF TypeOK
<1>4. \A p \in Processors : (cur'[p] # None) <=> (ppc'[p] \in Holding)
  BY <1>2 DEF TypeOK, Holding
<1>5. (cpc[k] \in Owning => arg[k] \in Routines) /\ Returned(k) \in {"idle", "sd_remove"}
      /\ UNCHANGED <<cur, idx>>
  BY <1>2 DEF OwnersMatch, Returned
<1> USE DEF TypeOK, CRoutineTypeOK, RoutineState, Owning, croutineVars, queueVars, procVars,
            stopVars, clientVars
<1>6. CASE \E c \in Routines : CreateTask(k, c)
  BY <1>1, <1>3, <1>4, <1>5, <1>6 DEF CreateTask, Call
<1>7. CASE \E c \in Routines : RemoveTask(k, c)
  BY <1>1, <1>3, <1>4, <1>5, <1>7 DEF RemoveTask, Call
<1>8. CASE \E c \in Routines : Dispatch(k, c)
  BY <1>1, <1>3, <1>4, <1>5, <1>8 DEF Dispatch, Call
<1>9. CASE Shutdown(k)
  BY <1>1, <1>3, <1>4, <1>5, <1>9 DEF Shutdown, Step
<1>10. CASE TakeId(k)
  BY <1>1, <1>3, <1>4, <1>5, <1>10 DEF TakeId, LockId, Step
<1>11. CASE DispatchRegister(k)
  <2>1. PICK c \in Routines : c = arg[k]
    BY <1>5, <1>11 DEF DispatchRegister, Step
  <2>2. CASE c \in id_cr_
    BY <1>1, <1>3, <1>4, <1>5, <1>11, <2>1, <2>2 DEF DispatchRegister, UnlockId, Step
  <2>3. CASE c \notin id_cr_
    <3>1. CRoutineTypeOK'
      <4>1. /\ state_' = [state_ EXCEPT ![c] = "READY"] /\ lock_' = [lock_ EXCEPT ![c] = FALSE]
            /\ updated_' = [updated_ EXCEPT ![c] = TRUE]
            /\ force_stop_' = [force_stop_ EXCEPT ![c] = FALSE]
        BY <1>11, <2>1, <2>3 DEF DispatchRegister, Construct
      <4>2. state_' \in [Routines -> RoutineState]
        BY <4>1
      <4>3. lock_' \in [Routines -> BOOLEAN] /\ updated_' \in [Routines -> BOOLEAN]
            /\ force_stop_' \in [Routines -> BOOLEAN]
        BY <4>1
      <4> QED
        BY <4>2, <4>3
    <3>2. cpc' = [cpc EXCEPT ![k] = "cr_enqueue"] /\ arg' \in [Clients -> Routines \union {None}]
      BY <1>11, <2>1, <2>3 DEF DispatchRegister, Step
    <3> HIDE DEF CRoutineTypeOK
    <3> QED
      BY <1>1, <1>3, <1>4, <1>5, <1>11, <2>1, <2>3, <3>1, <3>2 DEF DispatchRegister
  <2> QED
    BY <2>2, <2>3
<1>12. CASE DispatchEnqueue(k)
  BY <1>1, <1>3, <1>4, <1>5, <1>12 DEF DispatchEnqueue, UnlockId, Step
<1>13. CASE RemoveUnregister(k)
  <2>1. PICK c \in Routines : c = arg[k]
    BY <1>5, <1>13 DEF RemoveUnregister, Step
  <2>2. CASE c \notin id_cr_
    <3>1. /\ cpc' = [cpc EXCEPT ![k] = Returned(k)] /\ id_map_mutex_' = [id_map_mutex_ EXCEPT ![c] = None]
          /\ arg' = [arg EXCEPT ![k] = IF Returned(k) = "idle" THEN None ELSE @]
      BY <1>13, <2>1, <2>2 DEF RemoveUnregister, UnlockId, Step
    <3>2. arg' \in [Clients -> Routines \union {None}]
      BY <3>1
    <3> QED
      BY <1>1, <1>3, <1>4, <1>5, <1>13, <2>1, <2>2, <3>1, <3>2 DEF RemoveUnregister
  <2>3. CASE c \in id_cr_
    BY <1>1, <1>3, <1>4, <1>5, <1>13, <2>1, <2>3 DEF RemoveUnregister, Stop, Step
  <2> QED
    BY <2>2, <2>3
<1>14. CASE RemoveWriteLock(k)
  BY <1>1, <1>3, <1>4, <1>5, <1>14 DEF RemoveWriteLock, Step
<1>15. CASE RemoveErase(k)
  BY <1>1, <1>3, <1>4, <1>5, <1>15 DEF RemoveErase, UnlockId, Step
<1>16. CASE NotifyStopCheck(k)
  BY <1>1, <1>3, <1>4, <1>5, <1>16 DEF NotifyStopCheck, Step
<1>17. CASE NotifyFlag(k)
  BY <1>1, <1>3, <1>4, <1>5, <1>17 DEF NotifyFlag, Step
<1>18. CASE NotifyWake(k)
  BY <1>1, <1>3, <1>4, <1>5, <1>18 DEF NotifyWake, Step
<1>19. CASE StopContext(k)
  BY <1>1, <1>3, <1>4, <1>5, <1>19 DEF StopContext, Step
<1>20. CASE RemoveNext(k)
  BY <1>1, <1>3, <1>4, <1>5, <1>20, ZenonT(60) DEF RemoveNext, Step
<1>21. CASE StopProcessor(k)
  BY <1>1, <1>3, <1>4, <1>5, <1>21 DEF StopProcessor, Step
<1>22. CASE Join(k)
  BY <1>1, <1>3, <1>4, <1>5, <1>22 DEF Join, Step
<1> QED
  BY <1>6, <1>7, <1>8, <1>9, <1>10, <1>11, <1>12, <1>13, <1>14, <1>15, <1>16, <1>17, <1>18, <1>19, <1>20, <1>21, <1>22
     DEF ClientMove, ClientStep

\* A mutex is taken when it is free and given back by the client that has it.
LEMMA ClientOwners ==
  ASSUME TypeOK, OwnersMatch, NEW k \in Clients, ClientMove(k)
  PROVE  OwnersMatch'
<1>1. cpc \in [Clients -> {"idle", "nt_stop", "nt_flag", "nt_wake", "cr_lock", "rm_lock",
                           "sd_stop", "sd_remove", "sd_join", "sd_done"} \union Owning]
      /\ arg \in [Clients -> Routines \union {None}] /\ cr_list \subseteq Routines
      /\ id_map_mutex_ \in [Routines -> Clients \union {None}] /\ None \notin Clients
  BY ChoreographyAssumption DEF TypeOK
<1>2. \A j \in Clients \ {k} : cpc'[j] = cpc[j] /\ arg'[j] = arg[j]
  BY ClientControl
<1>3. Returned(k) \in {"idle", "sd_remove"}
  BY DEF Returned
<1> DEFINE Calling == {"cr_lock", "rm_lock", "nt_stop", "nt_flag", "nt_wake"}
<1> USE DEF queueVars, clientVars, Owning, Step, Call
\* What is done to the mutexes.
<1>4. \/ /\ UNCHANGED id_map_mutex_
         /\ cpc'[k] \in Owning => cpc[k] \in Owning /\ arg'[k] = arg[k]
         /\ cpc'[k] \in Calling => arg'[k] \in Routines
      \/ /\ cpc[k] \in {"cr_lock", "rm_lock"} /\ LockId(k) /\ arg'[k] = arg[k]
         /\ cpc'[k] \in Owning
      \/ /\ cpc[k] \in Owning /\ UnlockId(k) /\ cpc'[k] \in {"idle", "sd_remove"}
  <2>1. CASE TakeId(k)
    BY <1>1, <2>1 DEF TakeId
  <2>2. CASE DispatchRegister(k)
    BY <1>1, <2>2 DEF DispatchRegister
  <2>3. CASE DispatchEnqueue(k)
    BY <1>1, <2>3 DEF DispatchEnqueue
  <2>4. CASE RemoveUnregister(k)
    BY <1>1, <1>3, <2>4 DEF RemoveUnregister
  <2>5. CASE RemoveWriteLock(k)
    BY <1>1, <2>5 DEF RemoveWriteLock
  <2>6. CASE RemoveErase(k)
    BY <1>1, <1>3, <2>6 DEF RemoveErase
  <2>7. CASE \E c \in Routines : CreateTask(k, c) \/ RemoveTask(k, c) \/ Dispatch(k, c)
    BY <1>1, <2>7 DEF CreateTask, RemoveTask, Dispatch
  <2>8. CASE NotifyStopCheck(k) \/ NotifyFlag(k) \/ NotifyWake(k)
    BY <1>1, <2>8 DEF NotifyStopCheck, NotifyFlag, NotifyWake, OwnersMatch
  <2>9. CASE RemoveNext(k)
    BY <1>1, <2>9 DEF RemoveNext
  <2>10. CASE StopContext(k) \/ StopProcessor(k) \/ Join(k) \/ Shutdown(k)
    BY <1>1, <2>10 DEF StopContext, StopProcessor, Join, Shutdown
  <2> QED
    BY <2>1, <2>2, <2>3, <2>4, <2>5, <2>6, <2>7, <2>8, <2>9, <2>10 DEF ClientMove, ClientStep
<1>5. ASSUME NEW j \in Clients, cpc'[j] \in Owning
      PROVE  arg'[j] \in Routines /\ id_map_mutex_'[arg'[j]] = j
  <2>1. CASE j # k
    <3>1. cpc[j] \in Owning /\ arg'[j] = arg[j] /\ arg[j] \in Routines /\ id_map_mutex_[arg[j]] = j
      BY <1>2, <1>5, <2>1 DEF OwnersMatch
    <3>2. CASE UNCHANGED id_map_mutex_
      BY <3>1, <3>2
    <3>3. CASE LockId(k)
      <4>1. arg[j] # arg[k]
        BY <1>1, <3>1, <3>3 DEF LockId
      <4> QED
        BY <1>1, <3>1, <3>3, <4>1 DEF LockId
    <3>4. CASE cpc[k] \in Owning /\ UnlockId(k)
      <4>1. arg[j] # arg[k]
        BY <2>1, <3>1, <3>4 DEF OwnersMatch
      <4> QED
        BY <1>1, <3>1, <3>4, <4>1 DEF UnlockId
    <3> QED
      BY <1>4, <3>2, <3>3, <3>4
  <2>2. CASE j = k
    <3>1. CASE UNCHANGED id_map_mutex_ /\ cpc[k] \in Owning /\ arg'[k] = arg[k]
      BY <2>2, <3>1 DEF OwnersMatch
    <3>2. CASE cpc[k] \in {"cr_lock", "rm_lock"} /\ LockId(k) /\ arg'[k] = arg[k]
      <4>1. arg[k] \in Routines
        BY <3>2 DEF OwnersMatch
      <4> QED
        BY <1>1, <2>2, <3>2, <4>1 DEF LockId
    <3> QED
      BY <1>4, <1>5, <2>2, <3>1, <3>2
  <2> QED
    BY <2>1, <2>2
<1>6. ASSUME NEW j \in Clients, cpc'[j] \in Calling
      PROVE  arg'[j] \in Routines
  <2>1. CASE j # k
    BY <1>2, <1>6, <2>1 DEF OwnersMatch
  <2>2. CASE j = k
    BY <1>4, <1>6, <2>2
  <2> QED
    BY <2>1, <2>2
<1> HIDE DEF Owning
<1> QED
  BY <1>5, <1>6 DEF OwnersMatch

\* Who holds a routine stays, if its flag and its queue do.
LEMMA ClientHolds ==
  ASSUME ChoreographyInv, NEW k \in Clients, ClientMove(k), UNCHANGED conf,
         \A c \in Routines : lock_'[c] = lock_[c] /\ (lock_[c] /\ Queued(c) => Queued(c)')
  PROVE  HeldIsQueued'
<1>1. /\ Processors' = Processors
      /\ \A c : DispatchQueue(c)' = DispatchQueue(c)
      /\ \A r : QueueOf(r)' = QueueOf(r)
  BY Frozen
<1>2. cur' = cur
  BY ClientFrame DEF ChoreographyInv
<1>3. \A p \in Processors : cur[p] # None => cur[p] \in Routines
  BY DEF ChoreographyInv, TypeOK
<1> QED
  BY <1>1, <1>2, <1>3 DEF ChoreographyInv, HeldIsQueued

\* Searches go on as before, if the queues that are searched and the states
\* of what is in the pinned ones stay.
LEMMA ClientScans ==
  ASSUME ChoreographyInv, NEW k \in Clients, ClientMove(k), UNCHANGED conf,
         \A p \in Processors : ppc[p] \in {"scan", "update"} =>
           cr_queue_'[QueueOf(p)] = cr_queue_[QueueOf(p)],
         \A c \in Routines : Queued(c) => state_'[c] = state_[c]
  PROVE  RemoversAreAlone' /\ ScansAreExact' /\ PassedAreIdle'
<1> USE DEF ChoreographyInv
<1>1. /\ Processors' = Processors /\ Pinned' = Pinned /\ Queues' = Queues
      /\ \A c : RouteQueue(c)' = RouteQueue(c)
      /\ \A r : QueueOf(r)' = QueueOf(r)
  BY Frozen
<1>2. UNCHANGED <<cur, idx>>
  BY ClientFrame
<1>3. \A p \in Processors : ppc'[p] \in {"scan", "update"} => ppc'[p] = ppc[p]
  BY ClientFrame
<1>4. RemoversAreAlone'
  <2>1. \A j \in Clients \ {k} : cpc'[j] = cpc[j] /\ arg'[j] = arg[j]
    BY ClientControl
  <2>2. cpc'[k] = "rm_acquire" =>
          (cpc'[k] = cpc[k] /\ arg'[k] = arg[k]) \/ RemoveWriteLock(k)
    <3>1. Returned(k) \in {"idle", "sd_remove"} /\ k \in DOMAIN cpc
      BY DEF Returned, TypeOK
    <3> QED
      BY <3>1 DEF ClientMove, ClientStep, TakeId, DispatchRegister, DispatchEnqueue,
         RemoveUnregister, RemoveErase, NotifyStopCheck, NotifyFlag, NotifyWake, StopContext,
         RemoveNext, StopProcessor, Join, Shutdown, CreateTask, RemoveTask, Dispatch, Step, Call,
         clientVars
  <2>3. RemoveWriteLock(k) => Writable(RouteQueue(arg[k])) /\ RouteQueue(arg[k]) \in Queues
                              /\ arg'[k] = arg[k]
    BY DEF RemoveWriteLock, Step, TypeOK
  <2>4. ASSUME NEW j \in Clients, cpc'[j] = "rm_acquire"
        PROVE  /\ RouteQueue(arg'[j]) \in Queues
               /\ \A p \in Processors :
                    ppc[p] \in {"scan", "update"} => QueueOf(p) # RouteQueue(arg'[j])
    <3>1. CASE cpc[j] = "rm_acquire" /\ arg'[j] = arg[j]
      BY <3>1 DEF RemoversAreAlone
    <3>2. CASE j = k /\ RemoveWriteLock(k)
      BY <2>3, <3>2 DEF Writable
    <3> QED
      BY <2>1, <2>2, <2>4, <3>1, <3>2
  <2>5. ASSUME NEW j \in Clients, cpc'[j] = "rm_acquire"
        PROVE  RouteQueue(arg[j])' = RouteQueue(arg'[j])
    BY <1>1 DEF RouteQueue, ConfProc
  <2> QED
    BY <1>1, <1>3, <2>4, <2>5 DEF RemoversAreAlone
<1>5. ScansAreExact'
  BY <1>1, <1>2, <1>3 DEF ScansAreExact
<1>6. PassedAreIdle'
  <2> SUFFICES ASSUME NEW p \in Pinned, ppc'[p] \in {"scan", "update"},
                      NEW i \in DOMAIN cr_queue_'[p], i < idx'[p]
               PROVE  state_'[cr_queue_'[p][i]] # "READY"
    BY <1>1 DEF PassedAreIdle
  <2>1. p \in Processors /\ QueueOf(p) = p /\ ppc[p] \in {"scan", "update"}
    BY <1>3, QueueTypes, PinnedQueue
  <2>2. cr_queue_'[p] = cr_queue_[p]
    BY <2>1
  <2>3. PICK c \in Routines : c = cr_queue_[p][i] /\ Queued(c)
    BY <2>1, <2>2, PlaceInQueue
  <2>4. state_[c] # "READY"
    BY <1>2, <2>1, <2>2, <2>3 DEF PassedAreIdle
  <2> QED
    BY <2>2, <2>3, <2>4
<1> QED
  BY <1>4, <1>5, <1>6

\* The steps that touch neither a queue nor the registry.
LEMMA QuietClientKeeps ==
  ASSUME ChoreographyInv, NEW k \in Clients, ClientMove(k),
         UNCHANGED <<conf, state_, lock_, id_cr_, cr_queue_>>,
         cpc[k] \notin {"cr_enqueue", "rm_wlock", "rm_acquire"},
         cpc'[k] \notin {"cr_enqueue", "rm_wlock", "rm_acquire"}
  PROVE  ChoreographyInv'
<1>1. /\ Queues' = Queues
      /\ \A c : DispatchQueue(c)' = DispatchQueue(c) /\ Prio(c)' = Prio(c)
  BY Frozen
<1>2. TypeOK'
  BY <1>1, ClientTypes DEF ChoreographyInv, TypeOK
<1>3. OwnersMatch'
  BY ClientOwners DEF ChoreographyInv
<1>4. \A c : Queued(c)' = Queued(c)
  BY <1>1 DEF Queued, Within
<1>5. RegistryMatches'
  <2>1. \A j \in Clients \ {k} : cpc'[j] = cpc[j] /\ arg'[j] = arg[j]
    BY ClientControl DEF ChoreographyInv
  <2>2. \A c : Enqueuing(c)' <=> Enqueuing(c)
    BY <2>1 DEF Enqueuing
  <2>3. \A c : Removing(c)' <=> Removing(c)
    BY <2>1 DEF Removing
  <2> QED
    BY <1>4, <2>2, <2>3 DEF ChoreographyInv, RegistryMatches
<1>6. QueuesAreOrdered'
  BY <1>1 DEF ChoreographyInv, QueuesAreOrdered, Ordered, Distinct
<1>7. HeldIsQueued'
  BY <1>4, ClientHolds
<1>8. RemoversAreAlone' /\ ScansAreExact' /\ PassedAreIdle'
  BY ClientScans
<1> QED
  BY <1>2, <1>3, <1>5, <1>6, <1>7, <1>8 DEF ChoreographyInv

\* The client that has the mutex of a routine is the only one to enqueue or
\* remove it.
LEMMA ClientRoles ==
  ASSUME TypeOK, OwnersMatch, NEW k \in Clients, ClientMove(k), cpc[k] \in Owning,
         cpc'[k] \in Owning => arg'[k] = arg[k]
  PROVE  /\ arg[k] \in Routines
         /\ Enqueuing(arg[k]) <=> cpc[k] = "cr_enqueue"
         /\ Removing(arg[k]) <=> cpc[k] \in {"rm_wlock", "rm_acquire"}
         /\ \A c \in Routines :
              /\ Enqueuing(c)' <=> IF c = arg[k] THEN cpc'[k] = "cr_enqueue" ELSE Enqueuing(c)
              /\ Removing(c)' <=> IF c = arg[k] THEN cpc'[k] \in {"rm_wlock", "rm_acquire"}
                                  ELSE Removing(c)
<1>1. \A j \in Clients \ {k} : cpc'[j] = cpc[j] /\ arg'[j] = arg[j]
  BY ClientControl
<1>2. arg[k] \in Routines /\ \A j \in Clients : cpc[j] \in Owning /\ arg[j] = arg[k] => j = k
  BY DEF OwnersMatch
<1>3. "cr_enqueue" \in Owning /\ "rm_wlock" \in Owning /\ "rm_acquire" \in Owning
  BY DEF Owning
<1>4. Enqueuing(arg[k]) <=> cpc[k] = "cr_enqueue"
  BY <1>2, <1>3 DEF Enqueuing
<1>5. Removing(arg[k]) <=> cpc[k] \in {"rm_wlock", "rm_acquire"}
  BY <1>2, <1>3 DEF Removing
<1>6. ASSUME NEW c \in Routines
      PROVE  Enqueuing(c)' <=> IF c = arg[k] THEN cpc'[k] = "cr_enqueue" ELSE Enqueuing(c)
  <2>1. CASE c = arg[k]
    BY <1>1, <1>2, <1>3, <2>1 DEF Enqueuing
  <2>2. CASE c # arg[k]
    BY <1>1, <1>3, <2>2 DEF Enqueuing
  <2> QED
    BY <2>1, <2>2
<1>7. ASSUME NEW c \in Routines
      PROVE  Removing(c)' <=> IF c = arg[k] THEN cpc'[k] \in {"rm_wlock", "rm_acquire"}
                              ELSE Removing(c)
  <2>1. CASE c = arg[k]
    BY <1>1, <1>2, <1>3, <2>1 DEF Removing
  <2>2. CASE c # arg[k]
    BY <1>1, <1>3, <2>2 DEF Removing
  <2> QED
    BY <2>1, <2>2
<1> QED
  BY <1>2, <1>4, <1>5, <1>6, <1>7

\* A routine that is constructed is in no queue, so nobody holds or passes it.
LEMMA RegisterKeeps ==
  ASSUME ChoreographyInv, NEW k \in Clients, DispatchRegister(k), UNCHANGED conf, arg[k] \notin id_cr_
  PROVE  ChoreographyInv'
<1> USE DEF ChoreographyInv
<1>1. ClientMove(k)
  BY DEF ClientMove, ClientStep
<1>2. /\ Queues' = Queues
      /\ \A c : DispatchQueue(c)' = DispatchQueue(c) /\ Prio(c)' = Prio(c)
  BY Frozen
<1>3. /\ cpc[k] = "cr_register" /\ cpc'[k] = "cr_enqueue" /\ arg'[k] = arg[k]
      /\ Construct(arg[k]) /\ id_cr_' = id_cr_ \union {arg[k]} /\ cr_queue_' = cr_queue_
  BY DEF DispatchRegister, Step, TypeOK
<1>4. /\ arg[k] \in Routines /\ ~Removing(arg[k]) /\ ~Enqueuing(arg[k])
      /\ \A c \in Routines :
           /\ Enqueuing(c)' <=> c = arg[k] \/ Enqueuing(c)
           /\ Removing(c)' <=> c # arg[k] /\ Removing(c)
  BY <1>1, <1>3, ClientRoles DEF Owning
<1>5. ~Queued(arg[k]) /\ ~lock_[arg[k]]
  BY <1>4, ChoreographyAssumption DEF RegistryMatches, HeldIsQueued
<1>6. \A c \in Routines : lock_'[c] = lock_[c] /\ (Queued(c) => state_'[c] = state_[c])
  BY <1>3, <1>4, <1>5 DEF Construct, TypeOK, CRoutineTypeOK
<1>7. \A c : Queued(c)' = Queued(c)
  BY <1>2, <1>3 DEF Queued, Within
<1>8. TypeOK'
  BY <1>1, <1>2, <1>3, ClientTypes DEF TypeOK
<1>9. OwnersMatch'
  BY <1>1, ClientOwners
<1>10. RegistryMatches'
  BY <1>3, <1>4, <1>5, <1>7 DEF RegistryMatches
<1>11. QueuesAreOrdered'
  BY <1>2, <1>3 DEF QueuesAreOrdered, Ordered, Distinct
<1>12. HeldIsQueued'
  BY <1>1, <1>6, <1>7, ClientHolds
<1>13. RemoversAreAlone' /\ ScansAreExact' /\ PassedAreIdle'
  BY <1>1, <1>3, <1>6, ClientScans
<1> QED
  BY <1>8, <1>9, <1>10, <1>11, <1>12, <1>13

\* A change of one queue that nobody searches, and that keeps what is held.
LEMMA QueueChangeKeeps ==
  ASSUME ChoreographyInv, NEW k \in Clients, ClientMove(k), UNCHANGED <<conf, state_, lock_>>,
         NEW q \in Queues, NEW e \in Seq(Routines), cr_queue_' = [cr_queue_ EXCEPT ![q] = e],
         \A p \in Processors : ppc[p] \in {"scan", "update"} => QueueOf(p) # q,
         Ordered(e), Distinct(e), \A c : Within(e, c) => DispatchQueue(c) = q,
         \A c \in Routines : lock_[c] /\ DispatchQueue(c) = q /\ Queued(c) => Within(e, c)
  PROVE  /\ TypeOK' /\ OwnersMatch' /\ QueuesAreOrdered' /\ HeldIsQueued'
         /\ RemoversAreAlone' /\ ScansAreExact' /\ PassedAreIdle'
         /\ \A c \in Routines :
              Queued(c)' <=> IF DispatchQueue(c) = q THEN Within(e, c) ELSE Queued(c)
<1> USE DEF ChoreographyInv
<1>1. /\ Queues' = Queues
      /\ \A c : DispatchQueue(c)' = DispatchQueue(c) /\ Prio(c)' = Prio(c)
  BY Frozen
<1>2. cr_queue_ \in [Queues -> Seq(Routines)]
  BY DEF TypeOK
<1>3. cr_queue_' \in [Queues -> Seq(Routines)]
      /\ \A r \in Queues : cr_queue_'[r] = IF r = q THEN e ELSE cr_queue_[r]
  BY <1>2
<1>4. \A c \in Routines : Queued(c)' <=> IF DispatchQueue(c) = q THEN Within(e, c) ELSE Queued(c)
  BY <1>1, <1>3, QueueTypes DEF Queued, Within
<1>5. TypeOK' /\ OwnersMatch'
  BY <1>3, ClientTypes, ClientOwners
<1>6. QueuesAreOrdered'
  <2> SUFFICES ASSUME NEW r \in Queues
               PROVE  /\ \A i \in DOMAIN cr_queue_'[r] : DispatchQueue(cr_queue_'[r][i]) = r
                      /\ Ordered(cr_queue_'[r]) /\ Distinct(cr_queue_'[r])
    BY <1>1 DEF QueuesAreOrdered, Ordered, Distinct
  <2>1. CASE r = q
    BY <1>3, <2>1 DEF Within
  <2>2. CASE r # q
    BY <1>3, <2>2 DEF QueuesAreOrdered
  <2> QED
    BY <2>1, <2>2
<1>7. HeldIsQueued'
  BY <1>4, ClientHolds
<1>8. \A p \in Processors : ppc[p] \in {"scan", "update"} => cr_queue_'[QueueOf(p)] = cr_queue_[QueueOf(p)]
  BY <1>3, QueueTypes
<1>9. RemoversAreAlone' /\ ScansAreExact' /\ PassedAreIdle'
  BY <1>8, ClientScans
<1> QED
  BY <1>4, <1>5, <1>6, <1>7, <1>9

\* A registered routine joins the queue it was not in.
LEMMA EnqueueKeeps ==
  ASSUME ChoreographyInv, NEW k \in Clients, DispatchEnqueue(k), UNCHANGED conf
  PROVE  ChoreographyInv'
<1> USE DEF ChoreographyInv
<1>1. ClientMove(k)
  BY DEF ClientMove, ClientStep
<1>2. /\ cpc[k] = "cr_enqueue" /\ cpc'[k] = "idle" /\ UNCHANGED <<state_, lock_, id_cr_>>
      /\ Writable(DispatchQueue(arg[k]))
      /\ cr_queue_' = [cr_queue_ EXCEPT ![DispatchQueue(arg[k])] = Emplace(@, arg[k])]
  BY DEF DispatchEnqueue, Step, TypeOK, croutineVars
<1>3. PICK c \in Routines : c = arg[k]
  BY <1>2 DEF OwnersMatch, Owning
<1>4. /\ Enqueuing(c) /\ ~Removing(c)
      /\ \A d \in Routines : /\ Enqueuing(d)' <=> d # c /\ Enqueuing(d)
                             /\ Removing(d)' <=> d # c /\ Removing(d)
  BY <1>1, <1>2, <1>3, ClientRoles DEF Owning
<1>5. c \in id_cr_ /\ ~Queued(c)
  BY <1>4 DEF RegistryMatches
<1>6. PICK q \in Queues : q = DispatchQueue(c)
  BY QueueTypes
<1>7. PICK s \in Seq(Routines) : s = cr_queue_[q]
  BY DEF TypeOK
<1>8. Ordered(s) /\ Distinct(s) /\ ~Within(s, c)
  BY <1>5, <1>6, <1>7 DEF QueuesAreOrdered, Queued
<1>9. PICK e \in Seq(Routines) :
        e = Emplace(s, c) /\ Ordered(e) /\ Distinct(e) /\ \A d : Within(e, d) <=> Within(s, d) \/ d = c
  BY <1>8, QueueTypes, EmplaceKeeps
<1>10. cr_queue_' = [cr_queue_ EXCEPT ![q] = e]
  BY <1>2, <1>3, <1>6, <1>7, <1>9
<1>11. \A p \in Processors : ppc[p] \in {"scan", "update"} => QueueOf(p) # q
  BY <1>2, <1>3, <1>6 DEF Writable
<1>12. \A d : Within(s, d) => DispatchQueue(d) = q
  BY <1>7 DEF QueuesAreOrdered, Within
<1>13. \A d \in Routines : DispatchQueue(d) = q /\ Queued(d) => Within(e, d)
  BY <1>7, <1>9 DEF Queued
<1>14. /\ TypeOK' /\ OwnersMatch' /\ QueuesAreOrdered' /\ HeldIsQueued'
       /\ RemoversAreAlone' /\ ScansAreExact' /\ PassedAreIdle'
       /\ \A d \in Routines :
            Queued(d)' <=> IF DispatchQueue(d) = q THEN Within(e, d) ELSE Queued(d)
  BY <1>1, <1>2, <1>6, <1>9, <1>10, <1>11, <1>12, <1>13, QueueChangeKeeps
<1>15. \A d \in Routines : Queued(d)' <=> Queued(d) \/ d = c
  BY <1>6, <1>7, <1>9, <1>14 DEF Queued
<1>16. RegistryMatches'
  BY <1>2, <1>4, <1>5, <1>15 DEF RegistryMatches
<1> QED
  BY <1>14, <1>16

\* An unregistered routine leaves its queue when nobody holds it.
LEMMA EraseStepKeeps ==
  ASSUME ChoreographyInv, NEW k \in Clients, RemoveErase(k), UNCHANGED conf
  PROVE  ChoreographyInv'
<1> USE DEF ChoreographyInv
<1>1. ClientMove(k)
  BY DEF ClientMove, ClientStep
<1>2. /\ cpc[k] = "rm_acquire" /\ cpc'[k] \notin Owning /\ UNCHANGED <<state_, lock_, id_cr_>>
      /\ Within(cr_queue_[RouteQueue(arg[k])], arg[k]) => ~lock_[arg[k]]
      /\ cr_queue_' = [cr_queue_ EXCEPT ![RouteQueue(arg[k])] = Erase(@, arg[k])]
  BY DEF RemoveErase, Step, Returned, TypeOK, Owning, croutineVars
<1>3. PICK c \in Routines : c = arg[k]
  BY <1>2 DEF OwnersMatch, Owning
<1>4. /\ Removing(c) /\ ~Enqueuing(c)
      /\ \A d \in Routines : /\ Enqueuing(d)' <=> d # c /\ Enqueuing(d)
                             /\ Removing(d)' <=> d # c /\ Removing(d)
  BY <1>1, <1>2, <1>3, ClientRoles DEF Owning
<1>5. PICK q \in Queues : q = RouteQueue(c) /\ q = DispatchQueue(c)
  BY <1>2, <1>3, RouteIsDispatch DEF RemoversAreAlone
<1>6. PICK s \in Seq(Routines) : s = cr_queue_[q]
  BY DEF TypeOK
<1>7. Ordered(s) /\ Distinct(s)
  BY <1>6 DEF QueuesAreOrdered
<1>8. PICK e \in Seq(Routines) :
        e = Erase(s, c) /\ Ordered(e) /\ Distinct(e) /\ \A d : Within(e, d) <=> Within(s, d) /\ d # c
  BY <1>7, EraseKeeps
<1>9. cr_queue_' = [cr_queue_ EXCEPT ![q] = e]
  BY <1>2, <1>3, <1>5, <1>6, <1>8
<1>10. \A p \in Processors : ppc[p] \in {"scan", "update"} => QueueOf(p) # q
  BY <1>2, <1>3, <1>5 DEF RemoversAreAlone
<1>11. \A d : Within(e, d) => DispatchQueue(d) = q
  BY <1>6, <1>8 DEF QueuesAreOrdered, Within
<1>12. ASSUME NEW d \in Routines, lock_[d], DispatchQueue(d) = q, Queued(d) PROVE Within(e, d)
  <2>1. Within(s, d)
    BY <1>6, <1>12 DEF Queued
  <2>2. d # c
    BY <1>2, <1>3, <1>5, <1>6, <1>12, <2>1
  <2> QED
    BY <1>8, <2>1, <2>2
<1>13. /\ TypeOK' /\ OwnersMatch' /\ QueuesAreOrdered' /\ HeldIsQueued'
       /\ RemoversAreAlone' /\ ScansAreExact' /\ PassedAreIdle'
       /\ \A d \in Routines :
            Queued(d)' <=> IF DispatchQueue(d) = q THEN Within(e, d) ELSE Queued(d)
  BY <1>1, <1>2, <1>8, <1>9, <1>10, <1>11, <1>12, QueueChangeKeeps
<1>14. \A d \in Routines : Queued(d)' <=> Queued(d) /\ d # c
  BY <1>5, <1>6, <1>8, <1>13 DEF Queued
<1>15. RegistryMatches'
  BY <1>2, <1>4, <1>14 DEF RegistryMatches
<1> QED
  BY <1>13, <1>15

\* The steps of a removal before the queue is touched.
LEMMA RemovalKeeps ==
  ASSUME ChoreographyInv, NEW k \in Clients, UNCHANGED conf,
         (RemoveUnregister(k) /\ arg[k] \in id_cr_) \/ RemoveWriteLock(k)
  PROVE  ChoreographyInv'
<1> USE DEF ChoreographyInv
<1>1. ClientMove(k)
  BY DEF ClientMove, ClientStep
<1>2. /\ Queues' = Queues
      /\ \A c : DispatchQueue(c)' = DispatchQueue(c) /\ Prio(c)' = Prio(c)
  BY Frozen
<1>3. UNCHANGED <<state_, lock_, cr_queue_>> /\ arg'[k] = arg[k]
  BY DEF RemoveUnregister, RemoveWriteLock, Step, TypeOK, croutineVars, queueVars
<1>4. \A c : Queued(c)' = Queued(c)
  BY <1>2, <1>3 DEF Queued, Within
<1>5. TypeOK'
  BY <1>1, <1>2, <1>3, ClientTypes DEF TypeOK
<1>6. OwnersMatch'
  BY <1>1, ClientOwners
<1>7. RegistryMatches'
  <2>1. CASE RemoveUnregister(k) /\ arg[k] \in id_cr_
    <3>1. cpc[k] = "rm_unregister" /\ cpc'[k] = "rm_wlock" /\ id_cr_' = id_cr_ \ {arg[k]}
      BY <2>1 DEF RemoveUnregister, Step, TypeOK
    <3>2. /\ ~Removing(arg[k]) /\ ~Enqueuing(arg[k])
          /\ \A c \in Routines : /\ Enqueuing(c)' <=> c # arg[k] /\ Enqueuing(c)
                                 /\ Removing(c)' <=> c = arg[k] \/ Removing(c)
      BY <1>1, <1>3, <3>1, ClientRoles DEF Owning
    <3> QED
      BY <1>4, <3>1, <3>2 DEF RegistryMatches
  <2>2. CASE RemoveWriteLock(k)
    <3>1. cpc[k] = "rm_wlock" /\ cpc'[k] = "rm_acquire" /\ id_cr_' = id_cr_
      BY <2>2 DEF RemoveWriteLock, Step, TypeOK, queueVars
    <3>2. \A c \in Routines : (Enqueuing(c)' <=> Enqueuing(c)) /\ (Removing(c)' <=> Removing(c))
      BY <1>1, <1>3, <3>1, ClientRoles DEF Owning
    <3> QED
      BY <1>4, <3>1, <3>2 DEF RegistryMatches
  <2> QED
    BY <2>1, <2>2
<1>8. QueuesAreOrdered'
  BY <1>2, <1>3 DEF QueuesAreOrdered, Ordered, Distinct
<1>9. HeldIsQueued'
  BY <1>1, <1>3, <1>4, ClientHolds
<1>10. RemoversAreAlone' /\ ScansAreExact' /\ PassedAreIdle'
  BY <1>1, <1>3, ClientScans
<1> QED
  BY <1>5, <1>6, <1>7, <1>8, <1>9, <1>10

\* All of the invariant.
LEMMA ClientKeeps ==
  ASSUME ChoreographyInv, NEW k \in Clients, ClientMove(k), UNCHANGED conf
  PROVE  ChoreographyInv'
<1>1. cpc \in [Clients -> {"idle", "nt_stop", "nt_flag", "nt_wake", "cr_lock", "rm_lock",
                           "sd_stop", "sd_remove", "sd_join", "sd_done"} \union Owning]
      /\ Returned(k) \in {"idle", "sd_remove"}
  BY DEF ChoreographyInv, TypeOK, Returned
<1> DEFINE Quiet == /\ UNCHANGED <<state_, lock_, id_cr_, cr_queue_>>
                    /\ cpc[k] \notin {"cr_enqueue", "rm_wlock", "rm_acquire"}
                    /\ cpc'[k] \notin {"cr_enqueue", "rm_wlock", "rm_acquire"}
<1>2. CASE Quiet
  BY <1>2, QuietClientKeeps
<1> USE DEF Step, Call, croutineVars, queueVars, clientVars
<1>3. CASE DispatchRegister(k)
  <2>1. CASE arg[k] \in id_cr_
    BY <1>1, <1>2, <1>3, <2>1 DEF DispatchRegister
  <2> QED
    BY <1>3, <2>1, RegisterKeeps
<1>4. CASE DispatchEnqueue(k)
  BY <1>4, EnqueueKeeps
<1>5. CASE RemoveUnregister(k)
  <2>1. CASE arg[k] \notin id_cr_
    BY <1>1, <1>2, <1>5, <2>1 DEF RemoveUnregister
  <2> QED
    BY <1>5, <2>1, RemovalKeeps
<1>6. CASE RemoveWriteLock(k)
  BY <1>6, RemovalKeeps
<1>7. CASE RemoveErase(k)
  BY <1>7, EraseStepKeeps
<1>8. CASE \E c \in Routines : CreateTask(k, c) \/ RemoveTask(k, c) \/ Dispatch(k, c)
  BY <1>1, <1>2, <1>8 DEF CreateTask, RemoveTask, Dispatch
<1>9. CASE TakeId(k) \/ NotifyStopCheck(k) \/ NotifyFlag(k) \/ NotifyWake(k)
  BY <1>1, <1>2, <1>9 DEF TakeId, NotifyStopCheck, NotifyFlag, NotifyWake
<1>10. CASE Shutdown(k) \/ StopContext(k)
  BY <1>1, <1>2, <1>10 DEF Shutdown, StopContext
<1>11. CASE RemoveNext(k) \/ StopProcessor(k) \/ Join(k)
  BY <1>1, <1>2, <1>11 DEF RemoveNext, StopProcessor, Join
<1> QED
  BY <1>3, <1>4, <1>5, <1>6, <1>7, <1>8, <1>9, <1>10, <1>11 DEF ClientMove, ClientStep

\* A step of nobody.
LEMMA StutterKeeps == ChoreographyInv /\ UNCHANGED vars => ChoreographyInv'
<1> SUFFICES ASSUME ChoreographyInv, UNCHANGED vars PROVE ChoreographyInv'
  OBVIOUS
<1> USE DEF vars, croutineVars, queueVars, procVars, stopVars, clientVars
<1>1. /\ Processors' = Processors /\ Pinned' = Pinned /\ Queues' = Queues
      /\ \A c : DispatchQueue(c)' = DispatchQueue(c) /\ RouteQueue(c)' = RouteQueue(c)
      /\ \A p : QueueOf(p)' = QueueOf(p)
  BY Frozen
<1>2. OwnersMatch' /\ RegistryMatches' /\ QueuesAreOrdered' /\ \A c : Queued(c)' = Queued(c)
  BY QueueFrame DEF ChoreographyInv
<1>3. TypeOK'
  BY <1>1 DEF ChoreographyInv, TypeOK, CRoutineTypeOK
<1>4. HeldIsQueued'
  BY <1>1, <1>2 DEF ChoreographyInv, HeldIsQueued
<1>5. RemoversAreAlone'
  BY <1>1 DEF ChoreographyInv, RemoversAreAlone
<1>6. ScansAreExact' /\ PassedAreIdle'
  BY <1>1 DEF ChoreographyInv, ScansAreExact, PassedAreIdle
<1> QED
  BY <1>2, <1>3, <1>4, <1>5, <1>6 DEF ChoreographyInv

-----------------------------------------------------------------------------
(* The theorems.                                                           *)

\* The locks keep the queues and the routines in them: for any number of
\* processors, clients and routines and any configuration, what a processor
\* has is its alone, registered or being removed, and in its queue.
THEOREM ChoreographyInvariant == Spec => []ChoreographyInv
<1>1. ChoreographyInv /\ [Next]_vars => ChoreographyInv'
  <2> SUFFICES ASSUME ChoreographyInv, [Next]_vars PROVE ChoreographyInv'
    OBVIOUS
  <2>1. CASE UNCHANGED vars
    BY <2>1, StutterKeeps
  <2>2. ASSUME NEW p \in Processors, ProcessorStep(p), UNCHANGED conf PROVE ChoreographyInv'
    BY <2>2, ProcessorKeeps
  <2>3. ASSUME NEW k \in Clients, ClientMove(k), UNCHANGED conf PROVE ChoreographyInv'
    BY <2>3, ClientKeeps
  <2> QED
    BY <2>1, <2>2, <2>3 DEF Next, ClientMove
<1> QED
  BY ChoreographyInitial, <1>1, PTL DEF Spec

\* RemoveCRoutine returns when the routine is at rest: without an owner of its
\* id, an unregistered routine is with no processor and in no queue, and a
\* registered one once in the queue of its configuration.
THEOREM QuiescenceSafety == Spec => []QuiescentAfterRemove
<1>1. ChoreographyInv => QuiescentAfterRemove
  <2> SUFFICES ASSUME ChoreographyInv PROVE RemovedIsQuiescent
    BY DEF QuiescentAfterRemove, ChoreographyInv
  <2> USE DEF ChoreographyInv
  <2> SUFFICES ASSUME NEW c \in Routines, id_map_mutex_[c] = None
               PROVE  /\ c \notin id_cr_ => \A p \in Processors : cur[p] # c
                      /\ \A q \in Queues : \A i, j \in DOMAIN cr_queue_[q] :
                           cr_queue_[q][i] = c =>
                             /\ c \in id_cr_ /\ q = DispatchQueue(c)
                             /\ cr_queue_[q][j] = c => i = j
    BY DEF RemovedIsQuiescent
  <2>1. ~Enqueuing(c) /\ ~Removing(c)
    BY ChoreographyAssumption DEF Enqueuing, Removing, OwnersMatch, Owning
  <2>2. Queued(c) => c \in id_cr_
    BY <2>1 DEF RegistryMatches
  <2>3. c \notin id_cr_ => \A p \in Processors : cur[p] # c
    BY <2>2, ChoreographyAssumption DEF HeldIsQueued
  <2>4. ASSUME NEW q \in Queues, NEW i \in DOMAIN cr_queue_[q], cr_queue_[q][i] = c
        PROVE  c \in id_cr_ /\ q = DispatchQueue(c)
    BY <2>2, <2>4 DEF QueuesAreOrdered, Queued, Within
  <2>5. ASSUME NEW q \in Queues, NEW i \in DOMAIN cr_queue_[q], NEW j \in DOMAIN cr_queue_[q],
               cr_queue_[q][i] = c, cr_queue_[q][j] = c
        PROVE  i = j
    BY <2>5 DEF QueuesAreOrdered, Distinct
  <2> QED
    BY <2>3, <2>4, <2>5
<1> QED
  BY <1>1, ChoreographyInvariant, PTL

\* The routine a pinned context hands out comes before every other in its
\* queue that is READY: those of a higher priority were passed.
THEOREM PrioritySafety == Spec => HighestFirst
<1> DEFINE Passed == \A p \in Pinned : ppc[p] = "update" /\ ppc'[p] = "resume" =>
                       \A i \in DOMAIN cr_queue_[p] :
                         LET c == cr_queue_[p][i]
                         IN  Prio(c) > Prio(cur[p]) => state_[c] # "READY"
<1>1. ChoreographyInv => Passed
  <2> SUFFICES ASSUME ChoreographyInv, NEW p \in Pinned, ppc[p] = "update",
                      NEW i \in DOMAIN cr_queue_[p], Prio(cr_queue_[p][i]) > Prio(cur[p])
               PROVE  state_[cr_queue_[p][i]] # "READY"
    OBVIOUS
  <2> USE DEF ChoreographyInv
  <2>1. p \in Processors /\ p \in Queues /\ QueueOf(p) = p
    BY QueueTypes, PinnedQueue
  <2>2. idx[p] \in DOMAIN cr_queue_[p] /\ cur[p] = cr_queue_[p][idx[p]]
    BY <2>1 DEF ScansAreExact
  <2>3. DOMAIN cr_queue_[p] \subseteq Nat
    <3>1. cr_queue_[p] \in Seq(Routines)
      BY <2>1 DEF TypeOK
    <3> QED
      BY <3>1, LenProperties
  <2>4. /\ Prio(cr_queue_[p][i]) \in Nat /\ Prio(cur[p]) \in Nat
        /\ idx[p] < i => Prio(cur[p]) >= Prio(cr_queue_[p][i])
    <3>1. cr_queue_[p][i] \in Routines /\ cur[p] \in Routines
      BY <2>1, <2>2, PlaceInQueue
    <3>2. idx[p] < i => Prio(cur[p]) >= Prio(cr_queue_[p][i])
      BY <2>1, <2>2 DEF QueuesAreOrdered, Ordered
    <3> QED
      BY <3>1, <3>2, QueueTypes
  <2>5. i # idx[p] /\ ~(idx[p] < i)
    BY <2>2, <2>4
  <2>6. i < idx[p]
    BY <2>2, <2>3, <2>5
  <2> QED
    BY <2>6 DEF PassedAreIdle
<1>2. ChoreographyInv /\ [Next]_vars => [Passed]_vars
  BY <1>1
<1> QED
  BY <1>2, ChoreographyInvariant, PTL DEF Spec, HighestFirst

\* What the constructor must have read for the two rules to agree: every
\* processor is a pinned one, or none.
Routable == \A f \in Confs, c \in Routines : f.processor[c] \in -1 .. f.proc_num_ - 1

\* Then NotifyProcessor and RemoveCRoutine find the queue DispatchTask used.
THEOREM RoutingSafety ==
  ASSUME Routable
  PROVE  Spec => []RoutingAgrees
<1>1. ChoreographyInv => RoutingAgrees
  <2> SUFFICES ASSUME ChoreographyInv, NEW k \in Clients, cpc[k] \in {"rm_wlock", "nt_wake"},
                      NEW q \in Queues, Within(cr_queue_[q], arg[k])
               PROVE  q = RouteQueue(arg[k])
    BY DEF RoutingAgrees
  <2> USE DEF ChoreographyInv
  <2>1. PICK c \in Routines : c = arg[k]
    BY DEF OwnersMatch, Owning
  <2>2. q = DispatchQueue(c)
    BY <2>1 DEF QueuesAreOrdered, Within
  <2>3. ConfProc[c] \in -1 .. conf.proc_num_ - 1 /\ conf.proc_num_ \in Nat
    BY ConfTypes DEF Routable, TypeOK, ConfProc
  <2>4. ConfProc[c] \in Pinned \/ ConfProc[c] = Pool
    BY <2>3 DEF Pinned, Pool
  <2> QED
    BY <2>1, <2>2, <2>4 DEF RouteQueue, DispatchQueue
<1> QED
  BY <1>1, ChoreographyInvariant, PTL
=============================================================================
