--------------------------- MODULE RingArithmetic ---------------------------
(***************************************************************************)
(* Which positions of a ring of n slots share a slot: what the proofs      *)
(* about CacheBuffer (cyber/data/cache_buffer.h, GetIndex) and about the   *)
(* indicator of ConditionNotifier (transport/shm/condition_notifier.cc,    *)
(* seq % kBufLength) need of `%'.                                          *)
(***************************************************************************)
EXTENDS Integers, TLAPS

\* The definition of `%' and `\div' that the next two lemmas reason with.
LEMMA DivMod ==
  \A a \in Nat, n \in Nat \ {0} :
    a \div n \in Int /\ a % n \in 0 .. n - 1 /\ a = (n * (a \div n)) + (a % n)
OBVIOUS

\* Positions less than a turn apart lie in different slots.
LEMMA ModDistinct ==
  ASSUME NEW a \in Nat, NEW b \in Nat, NEW n \in Nat \ {0}, a < b, b - a < n
  PROVE  a % n # b % n
<1> SUFFICES ASSUME a % n = b % n PROVE FALSE
  OBVIOUS
<1> DEFINE q1 == a \div n
           q2 == b \div n
<1>1. /\ q1 \in Int /\ q2 \in Int /\ a % n \in Int
      /\ a = (n * q1) + (a % n) /\ b = (n * q2) + (b % n)
  BY DivMod
<1> HIDE DEF q1, q2
<1>2. b - a = n * (q2 - q1)
  <2> n * (q2 - q1) = n * q2 - n * q1
    BY <1>1
  <2> QED
    BY <1>1
<1>3. PICK k \in Int : k = q2 - q1
  BY <1>1
<1>4. b - a = n * k
  BY <1>2, <1>3
<1>5. CASE k <= 0
  <2> n * k <= 0
    BY <1>5, <1>3
  <2> QED
    BY <1>4
<1>6. CASE k >= 1
  <2> n * k >= n
    BY <1>6, <1>3
  <2> QED
    BY <1>4
<1> QED
  BY <1>5, <1>6

\* A position and the one a turn later lie in the same slot.
LEMMA ModAdd ==
  ASSUME NEW a \in Nat, NEW n \in Nat \ {0}
  PROVE  (a + n) % n = a % n
<1> DEFINE b == a + n
           q1 == a \div n
           q2 == b \div n
           m1 == a % n
           m2 == b % n
<1>0. b \in Nat
  OBVIOUS
<1>1. q1 \in Int /\ a = (n * q1) + m1 /\ m1 \in 0 .. n - 1
  BY DivMod
<1>2. q2 \in Int /\ b = (n * q2) + m2 /\ m2 \in 0 .. n - 1
  BY DivMod, <1>0
<1>3. b = a + n
  OBVIOUS
<1> SUFFICES m2 = m1
  OBVIOUS
<1> HIDE DEF b, q1, q2, m1, m2
<1>4. PICK k \in Int : k = q2 - q1 - 1
  BY <1>1, <1>2
<1>5. n * k = (n * q2) - (n * q1) - n
  BY <1>1, <1>2, <1>4
<1>6. n * k = m1 - m2
  BY <1>1, <1>2, <1>3, <1>5
<1>7. CASE k = 0
  BY <1>6, <1>7, <1>1, <1>2
<1>8. CASE k >= 1
  <2> n * k >= n
    BY <1>8, <1>4
  <2> QED
    BY <1>6, <1>1, <1>2
<1>9. CASE k <= -1
  <2> n * k <= -n
    BY <1>9, <1>4
  <2> QED
    BY <1>6, <1>1, <1>2
<1> QED
  BY <1>7, <1>8, <1>9
=============================================================================
