---------------------------- MODULE Data_proofs ----------------------------
(***************************************************************************)
(* Proofs about DataFusion and TaskManager, for any number of publishers,  *)
(* visitors, channels and messages, and any queue size.                    *)
(***************************************************************************)
EXTENDS MC_Data, RingArithmetic, FiniteSetTheorems, TLAPS

-----------------------------------------------------------------------------
(* CacheBuffer.                                                            *)

CacheBuffers(S) == [head : Nat, tail : Nat, slot : [0 .. QueueSize -> S]]

\* What the indexes of a buffer satisfy: it holds something once it was
\* filled, and never more than QueueSize.
Bounded(b) ==
  /\ b.head <= b.tail /\ b.tail - b.head <= QueueSize
  /\ b.tail > 0 => b.head < b.tail

\* A new buffer has its type and is empty.
LEMMA EmptyIsBounded ==
  ASSUME NEW S, None \in S
  PROVE  EmptyBuffer \in CacheBuffers(S) /\ Bounded(EmptyBuffer)
BY FusionAssumption DEF EmptyBuffer, CacheBuffers, Bounded

\* Fill() adds one message at the new Tail() and disturbs none that the
\* buffer still holds: the slot it writes, Head() when the buffer is full, is
\* that of no other position.
LEMMA FillAppends ==
  ASSUME NEW S, NEW b \in CacheBuffers(S), Bounded(b), NEW m \in S
  PROVE  /\ Fill(b, m) \in CacheBuffers(S)
         /\ Bounded(Fill(b, m))
         /\ Fill(b, m).tail = b.tail + 1
         /\ Fill(b, m).head \in {b.head, b.head + 1}
         /\ At(Fill(b, m), b.tail + 1) = m
         /\ \A pos \in Fill(b, m).head + 1 .. b.tail : At(Fill(b, m), pos) = At(b, pos)
<1> DEFINE n == QueueSize + 1
           f == Fill(b, m)
           w == (b.tail + 1) % n
<1>1. n \in Nat \ {0} /\ QueueSize \in Nat \ {0}
  BY FusionAssumption
<1>2. b.head \in Nat /\ b.tail \in Nat /\ b.slot \in [0 .. QueueSize -> S]
  BY DEF CacheBuffers
<1>3. \A pos \in Nat : pos % n \in 0 .. QueueSize
  BY <1>1, DivMod
<1>4. ASSUME Full(b) PROVE b.head % n = w
  <2>1. b.tail + 1 = b.head + n
    BY <1>1, <1>2, <1>4 DEF Full, capacity_
  <2> QED
    BY <2>1, <1>1, <1>2, ModAdd
<1>5. /\ f.head = (IF Full(b) THEN b.head + 1 ELSE b.head)
      /\ f.tail = b.tail + 1
      /\ f.slot = [b.slot EXCEPT ![w] = m]
      /\ f = [head |-> f.head, tail |-> f.tail, slot |-> f.slot]
  BY <1>4, <1>2 DEF Fill, capacity_, CacheBuffers
<1>6. w \in 0 .. QueueSize /\ n = QueueSize + 1
  <2> b.tail + 1 \in Nat
    BY <1>2
  <2> QED
    BY <1>3
<1>7. f.head \in Nat /\ f.tail \in Nat /\ f.slot \in [0 .. QueueSize -> S]
  <2> HIDE DEF f, w
  <2> QED
    BY <1>5, <1>2, <1>6
<1>8. f \in CacheBuffers(S)
  BY <1>5, <1>7 DEF CacheBuffers
<1>9. Bounded(f)
  BY <1>5, <1>2, <1>1, SMTT(40) DEF Bounded, Full, capacity_
<1>10. At(f, b.tail + 1) = m
  BY <1>5, <1>2, <1>6 DEF At, capacity_
<1>11. ASSUME NEW pos \in f.head + 1 .. b.tail
       PROVE  At(f, pos) = At(b, pos)
  <2>1. pos \in Nat /\ pos < b.tail + 1 /\ (b.tail + 1) - pos < n
    <3>1. (b.tail + 1) - f.head <= QueueSize
      BY <1>9, <1>5 DEF Bounded
    <3> HIDE DEF f
    <3> QED
      BY <3>1, <1>11, <1>7, <1>2, <1>1
  <2>2. pos % n # w
    <3> b.tail + 1 \in Nat
      BY <1>2
    <3> HIDE DEF n
    <3> QED
      BY <2>1, <1>1, ModDistinct
  <2>3. At(f, pos) = f.slot[pos % n] /\ At(b, pos) = b.slot[pos % n]
    BY DEF At, capacity_
  <2>4. pos % n \in 0 .. QueueSize
    BY <2>1, <1>3
  <2> QED
    BY <2>2, <2>3, <2>4, <1>5, <1>2
<1> QED
  BY <1>5, <1>8, <1>9, <1>10, <1>11, <1>2

-----------------------------------------------------------------------------
(* DataFusion: types and the inductive invariant.                          *)

\* Every variable of DataFusion has its type.
FusionTypeOK ==
  /\ buffers_map_ \in [Channels -> SUBSET Visitors]
  /\ notifies_map_ \subseteq Visitors
  /\ callback \in [Visitors -> BOOLEAN] /\ fusing \in [Visitors -> BOOLEAN]
  /\ buffer \in [Visitors -> [Channels -> CacheBuffers(Nat \union {None})]]
  /\ fused \in [Visitors -> CacheBuffers(Seq(Nat) \union {None})]
  /\ mutex \in [Visitors -> Publishers \union {None}]
  /\ sent \in [Channels -> Nat]
  /\ ppc \in [Publishers -> {"idle", "fill", "fuse"}]
  /\ ch \in [Publishers -> Channels]
  /\ todo \in [Publishers -> SUBSET Visitors]
  /\ got \in [Publishers -> Seq(Nat)]
  /\ next_msg_index_ \in [Visitors -> Nat] /\ awake \in [Visitors -> BOOLEAN]
  /\ filled \in [Visitors -> Seq(Seq(Nat))]
  /\ missed \in [Visitors -> Nat]

\* A buffer of one channel holds the messages of the positions it stands at.
Numbered ==
  \A v \in Visitors, c \in Channels :
    LET b == buffer[v][c] IN
    Bounded(b) /\ \A pos \in b.head + 1 .. b.tail : At(b, pos) = pos

FusedBounded == \A v \in Visitors : Bounded(fused[v])

\* What was fused is not newer than the buffers it was fused from.
FusedFromBuffers ==
  \A v \in Visitors : \A i \in DOMAIN filled[v] :
    /\ Len(filled[v][i]) = Subs
    /\ \A s \in 1 .. Subs : filled[v][i][s] <= buffer[v][s].tail

\* A thread in the fusion callback holds the mutex of the main buffer, and
\* what it has got lies between what was fused and the buffers.
FusingHoldsMutex ==
  \A p \in Publishers : ppc[p] = "fuse" =>
    LET v == Visitor(p) IN
    /\ todo[p] # {} /\ mutex[v] = p /\ Len(got[p]) <= Subs
    /\ \A s \in 1 .. Len(got[p]) :
         /\ got[p][s] <= buffer[v][s].tail
         /\ \A i \in DOMAIN filled[v] : filled[v][i][s] <= got[p][s]

FusionInv ==
  /\ FusionTypeOK /\ Numbered /\ FusedBounded /\ RingIsWindow
  /\ FusedFromBuffers /\ FusingHoldsMutex /\ FusionIsMonotone

\* CHOOSE yields one of the visitors left.
LEMMA VisitorIsLeft ==
  ASSUME FusionTypeOK, NEW p \in Publishers, todo[p] # {}
  PROVE  Visitor(p) \in todo[p] /\ Visitor(p) \in Visitors
BY DEF Visitor, FusionTypeOK

\* The invariant holds initially.
LEMMA InitFusion == Init => FusionInv
<1> SUFFICES ASSUME Init PROVE FusionInv
  OBVIOUS
<1>1. /\ EmptyBuffer \in CacheBuffers(Nat \union {None})
      /\ EmptyBuffer \in CacheBuffers(Seq(Nat) \union {None})
      /\ Bounded(EmptyBuffer)
  BY EmptyIsBounded
<1>2. Main \in Channels /\ Subs \in Nat
  BY FusionAssumption DEF Main, Channels
<1>3. FusionTypeOK
  <2> USE <1>1, <1>2 DEF Init
  <2>1. << >> \in Seq(Nat) /\ << >> \in Seq(Seq(Nat))
    OBVIOUS
  <2>2. /\ buffers_map_ \in [Channels -> SUBSET Visitors] /\ notifies_map_ \subseteq Visitors
        /\ callback \in [Visitors -> BOOLEAN] /\ fusing \in [Visitors -> BOOLEAN]
        /\ mutex \in [Visitors -> Publishers \union {None}]
        /\ sent \in [Channels -> Nat]
    OBVIOUS
  <2>3. /\ buffer \in [Visitors -> [Channels -> CacheBuffers(Nat \union {None})]]
        /\ fused \in [Visitors -> CacheBuffers(Seq(Nat) \union {None})]
    OBVIOUS
  <2>4. /\ ppc \in [Publishers -> {"idle", "fill", "fuse"}] /\ ch \in [Publishers -> Channels]
        /\ todo \in [Publishers -> SUBSET Visitors] /\ got \in [Publishers -> Seq(Nat)]
        /\ next_msg_index_ \in [Visitors -> Nat] /\ awake \in [Visitors -> BOOLEAN]
        /\ filled \in [Visitors -> Seq(Seq(Nat))] /\ missed \in [Visitors -> Nat]
    BY <2>1
  <2> QED
    BY <2>2, <2>3, <2>4 DEF FusionTypeOK
<1>4. Numbered /\ FusedBounded
  <2>1. \A v \in Visitors : fused[v] = EmptyBuffer /\ \A c \in Channels : buffer[v][c] = EmptyBuffer
    BY DEF Init
  <2>2. \A pos \in EmptyBuffer.head + 1 .. EmptyBuffer.tail : FALSE
    BY DEF EmptyBuffer
  <2> QED
    BY <1>1, <2>1, <2>2 DEF Numbered, FusedBounded
<1>5. RingIsWindow
  BY FusionAssumption DEF Init, RingIsWindow, EmptyBuffer
<1>6. FusedFromBuffers /\ FusingHoldsMutex /\ FusionIsMonotone
  BY DEF Init, FusedFromBuffers, FusingHoldsMutex, FusionIsMonotone
<1> QED
  BY <1>3, <1>4, <1>5, <1>6 DEF FusionInv

\* Building a visitor, Notify() and stuttering touch neither the buffers nor
\* what a thread in Dispatch() holds.
LEMMA FrameFusion ==
  ASSUME FusionInv, FusionTypeOK', UNCHANGED <<bufferVars, ch, todo, got, next_msg_index_>>,
         \A p \in Publishers : ppc'[p] = "fuse" => ppc[p] = "fuse"
  PROVE  FusionInv'
<1>1. Numbered' /\ FusedBounded' /\ RingIsWindow' /\ FusionIsMonotone' /\ FusedFromBuffers'
  BY DEF FusionInv, bufferVars, Numbered, FusedBounded, RingIsWindow, FusionIsMonotone,
         FusedFromBuffers, At, Bounded
<1>2. FusingHoldsMutex'
  <2>1. \A p \in Publishers : Visitor(p)' = Visitor(p)
    BY DEF Visitor
  <2> QED
    BY <2>1 DEF FusionInv, bufferVars, FusingHoldsMutex
<1> QED
  BY <1>1, <1>2 DEF FusionInv

LEMMA BuildFusion ==
  ASSUME FusionInv, NEW v \in Visitors, Build(v)
  PROVE  FusionInv'
<1>1. FusionTypeOK'
  <2> USE DEF FusionInv, FusionTypeOK, bufferVars, callVars, visitorVars, routineVars
  <2>1. CASE \E c \in Channels : AddBuffer(v, c)
    <3> PICK c \in Channels : AddBuffer(v, c)
      BY <2>1
    <3> buffers_map_[c] \union {v} \in SUBSET Visitors
      OBVIOUS
    <3> QED
      BY DEF AddBuffer
  <2>2. CASE AddNotifier(v)
    BY <2>2 DEF AddNotifier
  <2>3. CASE SetFusionCallback(v)
    BY <2>3 DEF SetFusionCallback
  <2>4. CASE RegisterNotifyCallback(v)
    BY <2>4 DEF RegisterNotifyCallback
  <2> QED
    BY <2>1, <2>2, <2>3, <2>4 DEF Build
<1>2. UNCHANGED <<bufferVars, callVars, next_msg_index_>>
  BY DEF Build, AddBuffer, AddNotifier, SetFusionCallback, RegisterNotifyCallback,
         routineVars
<1> QED
  BY <1>1, <1>2, FrameFusion DEF callVars

LEMMA NotifyFusion ==
  ASSUME FusionInv, NEW p \in Publishers, Notify(p)
  PROVE  FusionInv'
<1>1. UNCHANGED <<bufferVars, ch, todo, got, visitorVars, next_msg_index_, sent>>
  BY DEF Notify
<1>2. \A v \in Visitors : fused[v].tail \in Nat
  BY DEF FusionInv, FusionTypeOK, CacheBuffers
<1>3. FusionTypeOK'
  BY <1>1, <1>2 DEF Notify, Go, FusionInv, FusionTypeOK, bufferVars, visitorVars
<1>4. \A q \in Publishers : ppc'[q] = "fuse" => ppc[q] = "fuse"
  BY DEF Notify, Go, FusionInv, FusionTypeOK
<1> QED
  BY <1>1, <1>3, <1>4, FrameFusion

LEMMA DispatchFusion ==
  ASSUME FusionInv, NEW p \in Publishers, NEW c \in Channels, Dispatch(p, c)
  PROVE  FusionInv'
<1>1. /\ UNCHANGED <<bufferVars, got, visitorVars, routineVars, missed>>
      /\ ppc[p] = "idle" /\ ppc' = [ppc EXCEPT ![p] = "fill"]
      /\ todo' = [todo EXCEPT ![p] = buffers_map_[c]]
      /\ sent' = [sent EXCEPT ![c] = @ + 1] /\ ch' = [ch EXCEPT ![p] = c]
  BY DEF Dispatch, Go
<1>2. FusionTypeOK'
  <2>1. buffers_map_[c] \in SUBSET Visitors /\ sent[c] + 1 \in Nat
    BY DEF FusionInv, FusionTypeOK
  <2>2. todo' \in [Publishers -> SUBSET Visitors]
    BY <1>1, <2>1 DEF FusionInv, FusionTypeOK
  <2> QED
    BY <1>1, <2>1, <2>2 DEF FusionInv, FusionTypeOK, bufferVars, visitorVars, routineVars
<1>3. Numbered' /\ FusedBounded' /\ RingIsWindow' /\ FusionIsMonotone' /\ FusedFromBuffers'
  BY <1>1 DEF FusionInv, bufferVars, routineVars, Numbered, FusedBounded, RingIsWindow,
              FusionIsMonotone, FusedFromBuffers, At, Bounded
<1>4. FusingHoldsMutex'
  <2> SUFFICES ASSUME NEW q \in Publishers, ppc'[q] = "fuse"
               PROVE  /\ ppc[q] = "fuse" /\ todo'[q] = todo[q] /\ Visitor(q)' = Visitor(q)
    BY <1>1 DEF FusionInv, FusingHoldsMutex, bufferVars
  <2>1. q # p
    BY <1>1 DEF FusionInv, FusionTypeOK
  <2> QED
    BY <1>1, <2>1 DEF FusionInv, FusionTypeOK, Visitor
<1> QED
  BY <1>2, <1>3, <1>4 DEF FusionInv

\* The buffer of one channel gets its next message: the others' indexes stay,
\* and its own Tail() only goes up.
LEMMA FillBufferFusion ==
  ASSUME FusionInv, NEW p \in Publishers, FillBuffer(p)
  PROVE  FusionInv'
<1> DEFINE v == Visitor(p)
           c == ch[p]
           b == buffer[v][c]
           f == Fill(b, b.tail + 1)
<1>1. /\ UNCHANGED <<fused, mutex, filled, ch, got, visitorVars, routineVars, sent, missed>>
      /\ ppc' = [ppc EXCEPT ![p] = "fill"] /\ todo[p] # {}
      /\ buffer' = [buffer EXCEPT ![v][c] = f]
      /\ todo' = [todo EXCEPT ![p] = @ \ {v}]
  BY DEF FillBuffer, Go
<1>2. FusionTypeOK /\ v \in Visitors /\ c \in Channels
  BY <1>1, VisitorIsLeft DEF FusionInv, FusionTypeOK
<1>3. b \in CacheBuffers(Nat \union {None}) /\ Bounded(b) /\ b.tail \in Nat
  BY <1>2 DEF FusionTypeOK, FusionInv, Numbered, CacheBuffers
<1>4. /\ f \in CacheBuffers(Nat \union {None}) /\ Bounded(f) /\ f.tail = b.tail + 1
      /\ f.head \in {b.head, b.head + 1} /\ At(f, b.tail + 1) = b.tail + 1
      /\ \A pos \in f.head + 1 .. b.tail : At(f, pos) = At(b, pos)
  BY <1>3, FillAppends
<1> HIDE DEF v, c, b, f
<1>5. /\ buffer'[v][c] = f
      /\ \A w \in Visitors, d \in Channels :
           w # v \/ d # c => buffer'[w][d] = buffer[w][d]
  BY <1>1, <1>2 DEF FusionTypeOK
<1>6. b = buffer[v][c]
  BY DEF b, v, c
<1>7. FusionTypeOK'
  <2>1. buffer' \in [Visitors -> [Channels -> CacheBuffers(Nat \union {None})]]
    BY <1>1, <1>2, <1>4 DEF FusionTypeOK
  <2> QED
    BY <1>1, <1>2, <2>1 DEF FusionTypeOK, visitorVars, routineVars
<1>8. Numbered'
  <2> SUFFICES ASSUME NEW w \in Visitors, NEW d \in Channels
               PROVE  /\ Bounded(buffer'[w][d])
                      /\ \A pos \in buffer'[w][d].head + 1 .. buffer'[w][d].tail :
                           At(buffer'[w][d], pos) = pos
    BY DEF Numbered, At, Bounded
  <2>1. CASE w = v /\ d = c
    <3>1. buffer'[w][d] = f
      BY <2>1, <1>5
    <3>2. \A pos \in b.head + 1 .. b.tail : At(b, pos) = pos
      BY <1>2, <1>6 DEF FusionInv, Numbered
    <3>3. b.head \in Nat
      BY <1>3 DEF CacheBuffers
    <3>4. ASSUME NEW pos \in f.head + 1 .. f.tail PROVE At(f, pos) = pos
      <4>1. CASE pos = b.tail + 1
        BY <4>1, <1>4
      <4>2. CASE pos # b.tail + 1
        <5> pos \in f.head + 1 .. b.tail /\ pos \in b.head + 1 .. b.tail
          BY <4>2, <1>3, <1>4, <3>3
        <5> QED
          BY <1>4, <3>2
      <4> QED
        BY <4>1, <4>2
    <3> QED
      BY <3>1, <3>4, <1>4
  <2>2. CASE ~(w = v /\ d = c)
    BY <2>2, <1>5 DEF FusionInv, Numbered
  <2> QED
    BY <2>1, <2>2
<1>9. \A w \in Visitors, d \in Channels :
        /\ buffer[w][d].tail \in Nat /\ buffer'[w][d].tail \in Nat
        /\ buffer[w][d].tail <= buffer'[w][d].tail
  <2> SUFFICES ASSUME NEW w \in Visitors, NEW d \in Channels
               PROVE  /\ buffer[w][d].tail \in Nat /\ buffer'[w][d].tail \in Nat
                      /\ buffer[w][d].tail <= buffer'[w][d].tail
    OBVIOUS
  <2>1. buffer[w][d].tail \in Nat
    BY <1>2 DEF FusionTypeOK, CacheBuffers
  <2>2. CASE w = v /\ d = c
    BY <2>1, <2>2, <1>3, <1>4, <1>5, <1>6
  <2>3. CASE ~(w = v /\ d = c)
    BY <2>1, <2>3, <1>5
  <2> QED
    BY <2>1, <2>2, <2>3
<1>10. FusedBounded' /\ RingIsWindow' /\ FusionIsMonotone'
  BY <1>1 DEF FusionInv, routineVars, FusedBounded, RingIsWindow, FusionIsMonotone, At, Bounded
<1>11. FusedFromBuffers'
  <2> SUFFICES ASSUME NEW w \in Visitors, NEW i \in DOMAIN filled[w]
               PROVE  /\ Len(filled[w][i]) = Subs
                      /\ \A s \in 1 .. Subs : filled[w][i][s] <= buffer'[w][s].tail
    BY <1>1 DEF FusedFromBuffers
  <2>1. filled[w][i] \in Seq(Nat) /\ Len(filled[w][i]) = Subs
    BY <1>2 DEF FusionInv, FusionTypeOK, FusedFromBuffers
  <2>2. ASSUME NEW s \in 1 .. Subs PROVE filled[w][i][s] <= buffer'[w][s].tail
    <3>1. s \in Channels
      BY FusionAssumption DEF Channels
    <3>2. filled[w][i][s] \in Nat /\ filled[w][i][s] <= buffer[w][s].tail
      BY <2>1 DEF FusionInv, FusedFromBuffers
    <3> QED
      BY <3>1, <3>2, <1>9
  <2> QED
    BY <2>1, <2>2
<1>12. FusingHoldsMutex'
  <2> SUFFICES ASSUME NEW q \in Publishers, ppc'[q] = "fuse"
               PROVE  LET u == Visitor(q)' IN
                      /\ todo'[q] # {} /\ mutex[u] = q /\ Len(got[q]) <= Subs
                      /\ \A s \in 1 .. Len(got[q]) :
                           /\ got[q][s] <= buffer'[u][s].tail
                           /\ \A i \in DOMAIN filled[u] : filled[u][i][s] <= got[q][s]
    BY <1>1 DEF FusingHoldsMutex
  <2>1. q # p /\ ppc[q] = "fuse" /\ todo'[q] = todo[q]
    BY <1>1, <1>2 DEF FusionTypeOK
  <2> DEFINE u == Visitor(q)
  <2>2. u = Visitor(q)'
    BY <2>1 DEF Visitor
  <2>3. /\ todo[q] # {} /\ mutex[u] = q /\ Len(got[q]) <= Subs
        /\ \A s \in 1 .. Len(got[q]) :
             /\ got[q][s] <= buffer[u][s].tail
             /\ \A i \in DOMAIN filled[u] : filled[u][i][s] <= got[q][s]
    BY <2>1 DEF FusionInv, FusingHoldsMutex
  <2>4. u \in Visitors /\ got[q] \in Seq(Nat)
    BY <2>3, <1>2, VisitorIsLeft DEF FusionTypeOK
  <2> HIDE DEF u
  <2>5. ASSUME NEW s \in 1 .. Len(got[q]) PROVE got[q][s] <= buffer'[u][s].tail
    <3>1. s \in Channels /\ got[q][s] \in Nat
      BY <2>3, <2>4, FusionAssumption DEF Channels
    <3> QED
      BY <3>1, <2>3, <2>4, <1>9
  <2> QED
    BY <2>1, <2>2, <2>3, <2>5
<1> QED
  BY <1>7, <1>8, <1>10, <1>11, <1>12 DEF FusionInv

\* The mutex of the main buffer is taken by a thread that has got nothing yet.
LEMMA StartFusionFusion ==
  ASSUME FusionInv, NEW p \in Publishers, StartFusion(p)
  PROVE  FusionInv'
<1>1. /\ UNCHANGED <<buffer, fused, filled, ch, todo, visitorVars, routineVars, sent, missed>>
      /\ ppc[p] = "fill" /\ ppc' = [ppc EXCEPT ![p] = "fuse"] /\ todo[p] # {}
      /\ mutex[Visitor(p)] = None /\ mutex' = [mutex EXCEPT ![Visitor(p)] = p]
      /\ got' = [got EXCEPT ![p] = << >>]
  BY DEF StartFusion, Go
<1>2. FusionTypeOK /\ Visitor(p) \in Visitors /\ << >> \in Seq(Nat) /\ Subs \in Nat
  BY <1>1, VisitorIsLeft, FusionAssumption DEF FusionInv
<1>3. FusionTypeOK'
  BY <1>1, <1>2 DEF FusionTypeOK, visitorVars, routineVars
<1>4. Numbered' /\ FusedBounded' /\ RingIsWindow' /\ FusionIsMonotone' /\ FusedFromBuffers'
  BY <1>1 DEF FusionInv, routineVars, Numbered, FusedBounded, RingIsWindow,
              FusionIsMonotone, FusedFromBuffers, At, Bounded
<1>5. FusingHoldsMutex'
  <2>1. \A q \in Publishers : Visitor(q)' = Visitor(q)
    BY <1>1 DEF Visitor
  <2> SUFFICES ASSUME NEW q \in Publishers, ppc'[q] = "fuse"
               PROVE  LET u == Visitor(q) IN
                      /\ todo[q] # {} /\ mutex'[u] = q /\ Len(got'[q]) <= Subs
                      /\ \A s \in 1 .. Len(got'[q]) :
                           /\ got'[q][s] <= buffer[u][s].tail
                           /\ \A i \in DOMAIN filled[u] : filled[u][i][s] <= got'[q][s]
    BY <1>1, <2>1 DEF FusingHoldsMutex
  <2>2. CASE q = p
    BY <1>1, <1>2, <2>2 DEF FusionTypeOK
  <2>3. CASE q # p
    <3>1. ppc[q] = "fuse" /\ got'[q] = got[q]
      BY <1>1, <1>2, <2>3 DEF FusionTypeOK
    <3>2. mutex[Visitor(q)] = q
      BY <3>1 DEF FusionInv, FusingHoldsMutex
    <3>3. mutex'[Visitor(q)] = q
      BY <1>1, <1>2, <3>2, FusionAssumption DEF FusionTypeOK
    <3> QED
      BY <3>1, <3>3 DEF FusionInv, FusingHoldsMutex
  <2> QED
    BY <2>2, <2>3
<1> QED
  BY <1>3, <1>4, <1>5 DEF FusionInv

\* The latest message of the next channel: what was fused is not newer than
\* it.  Without one the mutex is released.
LEMMA LatestFusion ==
  ASSUME FusionInv, NEW p \in Publishers, Latest(p)
  PROVE  FusionInv'
<1> DEFINE v == Visitor(p)
           n == Len(got[p]) + 1
           b == buffer[v][n]
<1>1. /\ ppc[p] = "fuse" /\ n - 1 < Subs
      /\ UNCHANGED <<buffer, fused, filled, ch, visitorVars, routineVars, sent, missed>>
      /\ \/ /\ b.tail # 0 /\ got' = [got EXCEPT ![p] = Append(@, At(b, b.tail))]
            /\ UNCHANGED <<mutex, todo, ppc>>
         \/ /\ mutex' = [mutex EXCEPT ![v] = None]
            /\ todo' = [todo EXCEPT ![p] = @ \ {v}]
            /\ ppc' = [ppc EXCEPT ![p] = "fill"] /\ UNCHANGED got
  BY DEF Latest
<1>2. FusionTypeOK /\ v \in Visitors /\ todo[p] # {} /\ mutex[v] = p /\ got[p] \in Seq(Nat)
  BY <1>1, VisitorIsLeft DEF FusionInv, FusingHoldsMutex, FusionTypeOK
<1>3. n \in 1 .. Subs /\ n \in Channels
  BY <1>1, <1>2, FusionAssumption DEF Channels
<1>4. b \in CacheBuffers(Nat \union {None}) /\ Bounded(b) /\ b.tail \in Nat
      /\ \A pos \in b.head + 1 .. b.tail : At(b, pos) = pos
  <2> HIDE DEF v, n
  <2>1. b \in CacheBuffers(Nat \union {None})
    <3> buffer[v] \in [Channels -> CacheBuffers(Nat \union {None})]
      BY <1>2 DEF FusionTypeOK
    <3> QED
      BY <1>3
  <2>2. Bounded(b) /\ \A pos \in b.head + 1 .. b.tail : At(b, pos) = pos
    BY <1>2, <1>3 DEF FusionInv, Numbered
  <2> QED
    BY <2>1, <2>2 DEF CacheBuffers
<1>5. b = buffer[v][n] /\ n = Len(got[p]) + 1
  OBVIOUS
<1> HIDE DEF v, n, b
<1>6. Numbered' /\ FusedBounded' /\ RingIsWindow' /\ FusionIsMonotone' /\ FusedFromBuffers'
  BY <1>1 DEF FusionInv, routineVars, Numbered, FusedBounded, RingIsWindow,
              FusionIsMonotone, FusedFromBuffers, At, Bounded
<1>7. CASE /\ b.tail # 0 /\ got' = [got EXCEPT ![p] = Append(@, At(b, b.tail))]
           /\ UNCHANGED <<mutex, todo, ppc>>
  <2>1. At(b, b.tail) = b.tail
    BY <1>4, <1>7 DEF Bounded, CacheBuffers
  <2>2. got'[p] = Append(got[p], b.tail) /\ got'[p] \in Seq(Nat)
    BY <1>2, <1>4, <1>7, <2>1 DEF FusionTypeOK
  <2>3. FusionTypeOK'
    <3> got' \in [Publishers -> Seq(Nat)]
      BY <1>2, <1>7, <2>2 DEF FusionTypeOK
    <3> QED
      BY <1>1, <1>2, <1>7 DEF FusionTypeOK, visitorVars, routineVars
  <2>4. \A q \in Publishers : Visitor(q)' = Visitor(q)
    BY <1>7 DEF Visitor
  <2>5. ASSUME NEW q \in Publishers, ppc[q] = "fuse"
        PROVE  LET u == Visitor(q) IN
               /\ todo[q] # {} /\ mutex[u] = q /\ Len(got'[q]) <= Subs
               /\ \A s \in 1 .. Len(got'[q]) :
                    /\ got'[q][s] <= buffer[u][s].tail
                    /\ \A i \in DOMAIN filled[u] : filled[u][i][s] <= got'[q][s]
    <3>1. CASE q # p
      <4> got'[q] = got[q]
        BY <3>1, <1>2, <1>7 DEF FusionTypeOK
      <4> QED
        BY <2>5 DEF FusionInv, FusingHoldsMutex
    <3>2. CASE q = p
      <4>1. Len(got'[p]) = n /\ n <= Subs /\ n \in Nat /\ got'[p][n] = b.tail
        BY <2>2, <1>2, <1>3, <1>5, <1>4
      <4>2. ASSUME NEW s \in 1 .. n
            PROVE  /\ got'[p][s] <= buffer[v][s].tail
                   /\ \A i \in DOMAIN filled[v] : filled[v][i][s] <= got'[p][s]
        <5>1. CASE s = n
          <6>1. \A i \in DOMAIN filled[v] : filled[v][i][n] <= buffer[v][n].tail
            BY <1>2, <1>3 DEF FusionInv, FusedFromBuffers
          <6> QED
            BY <5>1, <6>1, <4>1, <1>4, <1>5
        <5>2. CASE s # n
          <6>1. s \in 1 .. Len(got[p]) /\ got'[p][s] = got[p][s]
            BY <5>2, <2>2, <1>2, <1>4, <1>5
          <6> QED
            BY <6>1, <1>1 DEF FusionInv, FusingHoldsMutex, v
        <5> QED
          BY <5>1, <5>2
      <4> QED
        BY <3>2, <4>1, <4>2, <1>2 DEF v
    <3> QED
      BY <3>1, <3>2
  <2>6. FusingHoldsMutex'
    BY <1>1, <1>7, <2>4, <2>5 DEF FusingHoldsMutex
  <2> QED
    BY <1>6, <2>3, <2>6 DEF FusionInv
<1>8. CASE /\ mutex' = [mutex EXCEPT ![v] = None]
           /\ todo' = [todo EXCEPT ![p] = @ \ {v}]
           /\ ppc' = [ppc EXCEPT ![p] = "fill"] /\ UNCHANGED got
  <2>1. FusionTypeOK'
    BY <1>1, <1>2, <1>8 DEF FusionTypeOK, visitorVars, routineVars
  <2>2. FusingHoldsMutex'
    <3> SUFFICES ASSUME NEW q \in Publishers, ppc'[q] = "fuse"
                 PROVE  /\ ppc[q] = "fuse" /\ todo'[q] = todo[q] /\ Visitor(q)' = Visitor(q)
                        /\ mutex'[Visitor(q)] = q
      BY <1>1, <1>8 DEF FusionInv, FusingHoldsMutex
    <3>1. q # p /\ ppc[q] = "fuse" /\ todo'[q] = todo[q]
      BY <1>2, <1>8 DEF FusionTypeOK
    <3>2. Visitor(q)' = Visitor(q)
      BY <3>1 DEF Visitor
    <3>3. mutex[Visitor(q)] = q /\ Visitor(q) \in Visitors
      BY <3>1, <1>2, VisitorIsLeft DEF FusionInv, FusingHoldsMutex
    <3>4. mutex'[Visitor(q)] = q
      BY <3>1, <3>3, <1>2, <1>8 DEF FusionTypeOK
    <3> QED
      BY <3>1, <3>2, <3>4
  <2> QED
    BY <1>6, <2>1, <2>2 DEF FusionInv
<1> QED
  BY <1>1, <1>7, <1>8 DEF v, n, b

\* What was got goes into the ring under the mutex, and is not older than
\* what any other thread put there.
LEMMA FillFusionFusion ==
  ASSUME FusionInv, NEW p \in Publishers, FillFusion(p)
  PROVE  FusionInv'
<1> DEFINE v == Visitor(p)
           b == fused[v]
           m == got[p]
           f == Fill(b, m)
<1>1. /\ ppc[p] = "fuse" /\ ppc' = [ppc EXCEPT ![p] = "fill"] /\ Len(m) = Subs
      /\ fused' = [fused EXCEPT ![v] = f]
      /\ filled' = [filled EXCEPT ![v] = Append(@, m)]
      /\ mutex' = [mutex EXCEPT ![v] = None]
      /\ todo' = [todo EXCEPT ![p] = @ \ {v}]
      /\ UNCHANGED <<buffer, ch, got, visitorVars, routineVars, sent, missed>>
  BY DEF FillFusion, Go
<1>2. FusionTypeOK /\ v \in Visitors /\ mutex[v] = p /\ m \in Seq(Nat)
  BY <1>1, VisitorIsLeft DEF FusionInv, FusingHoldsMutex, FusionTypeOK
<1>3. /\ b \in CacheBuffers(Seq(Nat) \union {None}) /\ Bounded(b)
      /\ b.tail \in Nat /\ b.head \in Nat
      /\ filled[v] \in Seq(Seq(Nat)) /\ b.tail = Len(filled[v])
      /\ \A pos \in b.head + 1 .. b.tail : At(b, pos) = filled[v][pos]
      /\ next_msg_index_[v] \in Nat /\ next_msg_index_[v] <= b.tail + 1
  <2>1. b \in CacheBuffers(Seq(Nat) \union {None})
    BY <1>2 DEF FusionTypeOK
  <2>2. filled[v] \in Seq(Seq(Nat)) /\ next_msg_index_[v] \in Nat
    BY <1>2 DEF FusionTypeOK
  <2>3. /\ Bounded(b) /\ b.tail = Len(filled[v])
        /\ \A pos \in b.head + 1 .. b.tail : At(b, pos) = filled[v][pos]
        /\ next_msg_index_[v] <= b.tail + 1
    BY <1>2 DEF FusionInv, FusedBounded, RingIsWindow
  <2> QED
    BY <2>1, <2>2, <2>3 DEF CacheBuffers
<1>4. /\ f \in CacheBuffers(Seq(Nat) \union {None}) /\ Bounded(f) /\ f.tail = b.tail + 1
      /\ f.head \in {b.head, b.head + 1} /\ At(f, b.tail + 1) = m
      /\ \A pos \in f.head + 1 .. b.tail : At(f, pos) = At(b, pos)
  BY <1>2, <1>3, FillAppends
<1>5. \A s \in 1 .. Subs :
        /\ m[s] \in Nat /\ m[s] <= buffer[v][s].tail
        /\ \A i \in DOMAIN filled[v] : filled[v][i][s] <= m[s]
  BY <1>1, <1>2 DEF FusionInv, FusingHoldsMutex
<1> HIDE DEF v, b, m, f
<1>6. /\ fused'[v] = f /\ filled'[v] = Append(filled[v], m)
      /\ \A w \in Visitors \ {v} : fused'[w] = fused[w] /\ filled'[w] = filled[w]
  BY <1>1, <1>2 DEF FusionTypeOK
<1>7. /\ Append(filled[v], m) \in Seq(Seq(Nat))
      /\ DOMAIN Append(filled[v], m) = 1 .. Len(filled[v]) + 1
      /\ Len(Append(filled[v], m)) = Len(filled[v]) + 1
      /\ Append(filled[v], m)[Len(filled[v]) + 1] = m
      /\ DOMAIN filled[v] = 1 .. Len(filled[v])
      /\ \A i \in DOMAIN filled[v] : Append(filled[v], m)[i] = filled[v][i]
  BY <1>2, <1>3
<1>8. FusionTypeOK'
  <2>1. /\ fused' \in [Visitors -> CacheBuffers(Seq(Nat) \union {None})]
    BY <1>1, <1>2, <1>4 DEF FusionTypeOK
  <2>2. filled' \in [Visitors -> Seq(Seq(Nat))]
    BY <1>1, <1>2, <1>7 DEF FusionTypeOK
  <2>3. /\ mutex' \in [Visitors -> Publishers \union {None}]
        /\ ppc' \in [Publishers -> {"idle", "fill", "fuse"}]
        /\ todo' \in [Publishers -> SUBSET Visitors]
    BY <1>1, <1>2 DEF FusionTypeOK
  <2> QED
    BY <1>1, <1>2, <2>1, <2>2, <2>3 DEF FusionTypeOK, visitorVars, routineVars
<1>9. Numbered'
  BY <1>1 DEF FusionInv, Numbered, At, Bounded
<1>10. FusedBounded'
  <2>1. \A w \in Visitors : Bounded(fused'[w])
    BY <1>4, <1>6 DEF FusionInv, FusedBounded
  <2> QED
    BY <2>1 DEF FusedBounded, Bounded
<1>11. RingIsWindow'
  <2> SUFFICES ASSUME NEW w \in Visitors
               PROVE  /\ fused'[w].tail = Len(filled'[w])
                      /\ fused'[w].tail - fused'[w].head <= QueueSize
                      /\ \A pos \in fused'[w].head + 1 .. fused'[w].tail :
                           At(fused'[w], pos) = filled'[w][pos]
                      /\ next_msg_index_[w] <= fused'[w].tail + 1
    BY <1>1 DEF RingIsWindow, routineVars, At
  <2>1. CASE w # v
    BY <2>1, <1>6 DEF FusionInv, RingIsWindow
  <2>2. CASE w = v
    <3>1. ASSUME NEW pos \in f.head + 1 .. f.tail
          PROVE  At(f, pos) = Append(filled[v], m)[pos]
      <4>1. CASE pos = b.tail + 1
        BY <4>1, <1>3, <1>4, <1>7
      <4>2. CASE pos # b.tail + 1
        <5>1. pos \in f.head + 1 .. b.tail /\ pos \in b.head + 1 .. b.tail
              /\ pos \in DOMAIN filled[v]
          <6>1. f.head \in Nat /\ f.tail = b.tail + 1 /\ b.head <= f.head
            BY <1>3, <1>4
          <6>2. pos \in f.head + 1 .. b.tail
            BY <4>2, <6>1, <1>3
          <6>3. pos \in b.head + 1 .. b.tail /\ pos \in 1 .. b.tail
            BY <6>1, <6>2, <1>3
          <6> QED
            BY <6>2, <6>3, <1>3, <1>7
        <5>2. At(b, pos) = filled[v][pos]
          BY <1>3, <5>1
        <5> QED
          BY <1>4, <1>7, <5>1, <5>2
      <4> QED
        BY <4>1, <4>2
    <3>2. f.tail - f.head <= QueueSize
      BY <1>4 DEF Bounded
    <3>3. f.tail = Len(Append(filled[v], m)) /\ next_msg_index_[v] <= f.tail + 1
      BY <1>3, <1>4, <1>7
    <3> QED
      BY <2>2, <1>6, <3>1, <3>2, <3>3
  <2> QED
    BY <2>1, <2>2
<1>12. ASSUME NEW w \in Visitors, NEW i \in DOMAIN filled'[w],
              ~(w = v /\ i = Len(filled[v]) + 1)
       PROVE  i \in DOMAIN filled[w] /\ filled'[w][i] = filled[w][i]
  <2>1. CASE w # v
    BY <2>1, <1>6
  <2>2. CASE w = v
    <3> i \in 1 .. Len(filled[v]) + 1 /\ i # Len(filled[v]) + 1
      BY <2>2, <1>12, <1>6, <1>7
    <3> i \in DOMAIN filled[v]
      BY <1>3, <1>7
    <3> QED
      BY <2>2, <1>6, <1>7
  <2> QED
    BY <2>1, <2>2
<1>13. FusedFromBuffers'
  <2> SUFFICES ASSUME NEW w \in Visitors, NEW i \in DOMAIN filled'[w]
               PROVE  /\ Len(filled'[w][i]) = Subs
                      /\ \A s \in 1 .. Subs : filled'[w][i][s] <= buffer[w][s].tail
    BY <1>1 DEF FusedFromBuffers
  <2>1. CASE w = v /\ i = Len(filled[v]) + 1
    BY <2>1, <1>1, <1>5, <1>6, <1>7 DEF m
  <2>2. CASE ~(w = v /\ i = Len(filled[v]) + 1)
    <3> i \in DOMAIN filled[w] /\ filled'[w][i] = filled[w][i]
      BY <2>2, <1>12
    <3> QED
      BY DEF FusionInv, FusedFromBuffers
  <2> QED
    BY <2>1, <2>2
<1>14. FusingHoldsMutex'
  <2> SUFFICES ASSUME NEW q \in Publishers, ppc'[q] = "fuse"
               PROVE  LET u == Visitor(q)' IN
                      /\ todo'[q] # {} /\ mutex'[u] = q /\ Len(got[q]) <= Subs
                      /\ \A s \in 1 .. Len(got[q]) :
                           /\ got[q][s] <= buffer[u][s].tail
                           /\ \A i \in DOMAIN filled'[u] : filled'[u][i][s] <= got[q][s]
    BY <1>1 DEF FusingHoldsMutex
  <2>1. q # p /\ ppc[q] = "fuse" /\ todo'[q] = todo[q]
    BY <1>1, <1>2 DEF FusionTypeOK
  <2>2. Visitor(q)' = Visitor(q)
    BY <2>1 DEF Visitor
  <2>3. todo[q] # {} /\ mutex[Visitor(q)] = q
    BY <2>1 DEF FusionInv, FusingHoldsMutex
  <2>4. Visitor(q) \in Visitors /\ Visitor(q) # v
    BY <2>1, <2>3, <1>2, VisitorIsLeft
  <2>5. mutex'[Visitor(q)] = mutex[Visitor(q)]
    BY <2>4, <1>1, <1>2 DEF FusionTypeOK
  <2> QED
    BY <2>1, <2>2, <2>3, <2>4, <2>5, <1>6 DEF FusionInv, FusingHoldsMutex
<1>15. FusionIsMonotone'
  <2> SUFFICES ASSUME NEW w \in Visitors, NEW i \in DOMAIN filled'[w],
                      NEW j \in DOMAIN filled'[w], i < j, NEW s \in 1 .. Subs
               PROVE  filled'[w][i][s] <= filled'[w][j][s]
    BY DEF FusionIsMonotone
  <2>1. CASE w = v /\ j = Len(filled[v]) + 1
    <3> i \in DOMAIN filled[v] /\ filled'[v][i] = filled[v][i] /\ filled'[v][j] = m
      BY <2>1, <1>3, <1>6, <1>7
    <3> QED
      BY <2>1, <1>5
  <2>2. CASE ~(w = v /\ j = Len(filled[v]) + 1)
    <3> /\ i \in DOMAIN filled[w] /\ filled'[w][i] = filled[w][i]
        /\ j \in DOMAIN filled[w] /\ filled'[w][j] = filled[w][j]
      <4>1. ~(w = v /\ i = Len(filled[v]) + 1)
        BY <2>2, <1>3, <1>6, <1>7
      <4> QED
        BY <2>2, <4>1, <1>12
    <3> QED
      BY DEF FusionInv, FusionIsMonotone
  <2> QED
    BY <2>1, <2>2
<1> QED
  BY <1>8, <1>9, <1>10, <1>11, <1>13, <1>14, <1>15 DEF FusionInv

\* What FetchIndex() yields is 0 or a position that the buffer still holds,
\* not before the one asked for.
LEMMA FetchIndexIsHeld ==
  ASSUME NEW S, NEW b \in CacheBuffers(S), Bounded(b), NEW index \in Nat, index <= b.tail + 1
  PROVE  LET i == FetchIndex(b, index) IN
         /\ i \in Nat
         /\ i # 0 => i \in b.head + 1 .. b.tail /\ i >= index
BY DEF FetchIndex, CacheBuffers, Bounded

LEMMA TryFetchFusion ==
  ASSUME FusionInv, NEW v \in Visitors, TryFetch(v)
  PROVE  FusionInv'
<1> DEFINE i == FetchIndex(fused[v], next_msg_index_[v])
<1>1. /\ next_msg_index_' = [next_msg_index_ EXCEPT ![v] = IF i = 0 THEN @ ELSE i + 1]
      /\ awake' = [awake EXCEPT ![v] = i # 0]
      /\ UNCHANGED <<bufferVars, callVars, visitorVars, sent, missed>>
  BY DEF TryFetch
<1>2. fused[v] \in CacheBuffers(Seq(Nat) \union {None}) /\ Bounded(fused[v])
      /\ next_msg_index_[v] \in Nat /\ next_msg_index_[v] <= fused[v].tail + 1
  <2>1. fused[v] \in CacheBuffers(Seq(Nat) \union {None}) /\ next_msg_index_[v] \in Nat
    BY DEF FusionInv, FusionTypeOK
  <2> QED
    BY <2>1 DEF FusionInv, FusedBounded, RingIsWindow
<1>3. i \in Nat /\ (i # 0 => i <= fused[v].tail) /\ fused[v].tail \in Nat
  <2>1. i \in Nat /\ (i # 0 => i \in fused[v].head + 1 .. fused[v].tail)
    BY <1>2, FetchIndexIsHeld
  <2> HIDE DEF i
  <2> QED
    BY <2>1, <1>2 DEF CacheBuffers
<1> HIDE DEF i
<1>4. FusionTypeOK'
  <2>1. next_msg_index_' \in [Visitors -> Nat] /\ awake' \in [Visitors -> BOOLEAN]
    BY <1>1, <1>3 DEF FusionInv, FusionTypeOK
  <2> QED
    BY <1>1, <2>1 DEF FusionInv, FusionTypeOK, bufferVars, callVars, visitorVars
<1>5. Numbered' /\ FusedBounded' /\ FusionIsMonotone' /\ FusedFromBuffers'
  BY <1>1 DEF FusionInv, bufferVars, Numbered, FusedBounded, FusionIsMonotone,
              FusedFromBuffers, At, Bounded
<1>6. FusingHoldsMutex'
  <2>1. \A p \in Publishers : Visitor(p)' = Visitor(p)
    BY <1>1 DEF Visitor, callVars
  <2> QED
    BY <1>1, <2>1 DEF FusionInv, bufferVars, callVars, FusingHoldsMutex
<1>7. RingIsWindow'
  <2>1. \A w \in Visitors : next_msg_index_'[w] <= fused[w].tail + 1
    BY <1>1, <1>2, <1>3 DEF FusionInv, FusionTypeOK, RingIsWindow
  <2> QED
    BY <1>1, <2>1 DEF FusionInv, RingIsWindow, bufferVars, At
<1> QED
  BY <1>4, <1>5, <1>6, <1>7 DEF FusionInv

\* Every step keeps the invariant.
LEMMA NextFusion == FusionInv /\ [Next]_vars => FusionInv'
<1> SUFFICES ASSUME FusionInv, [Next]_vars PROVE FusionInv'
  OBVIOUS
<1>1. ASSUME NEW p \in Publishers, PublisherStep(p) PROVE FusionInv'
  BY <1>1, FillBufferFusion, StartFusionFusion, LatestFusion, FillFusionFusion,
     NotifyFusion DEF PublisherStep
<1>2. ASSUME NEW p \in Publishers, NEW c \in Channels, Dispatch(p, c) PROVE FusionInv'
  BY <1>2, DispatchFusion
<1>3. ASSUME NEW v \in Visitors, Build(v) PROVE FusionInv'
  BY <1>3, BuildFusion
<1>4. ASSUME NEW v \in Visitors, TryFetch(v) PROVE FusionInv'
  BY <1>4, TryFetchFusion
<1>5. CASE UNCHANGED vars
  <2>1. FusionTypeOK'
    BY <1>5 DEF FusionInv, FusionTypeOK, vars, bufferVars, callVars, visitorVars, routineVars
  <2> QED
    BY <1>5, <2>1, FrameFusion DEF vars, callVars, routineVars
<1> QED
  BY <1>1, <1>2, <1>3, <1>4, <1>5 DEF Next

(***************************************************************************)
(* The invariant of DataFusion: buffer_fusion_ is the window of what was   *)
(* fused, and a thread that fuses is alone.                                *)
(***************************************************************************)
THEOREM FusionInvariant == Spec => []FusionInv
BY InitFusion, NextFusion, PTL DEF Spec

\* CacheBuffer: its positions hold the last messages, however far the
\* indexes have gone, and the routine's index is never beyond the next one.
THEOREM RingSafety == Spec => []RingIsWindow
<1> FusionInv => RingIsWindow
  BY DEF FusionInv
<1> QED
  BY FusionInvariant, PTL

\* AllLatest: fusion never goes back, however many threads dispatch.
THEOREM FusionSafety == Spec => []FusionIsMonotone
<1> FusionInv => FusionIsMonotone
  BY DEF FusionInv
<1> QED
  BY FusionInvariant, PTL

\* TryFetch(): what a routine is handed is the message of its position, and
\* positions only go up.
THEOREM FetchSafety == Spec => FetchIsExact
<1> DEFINE Exact ==
      \A v \in Visitors : next_msg_index_'[v] # next_msg_index_[v] =>
        LET i == next_msg_index_'[v] - 1 IN
        /\ next_msg_index_'[v] > next_msg_index_[v]
        /\ At(fused[v], i) = filled[v][i]
<1>1. ASSUME FusionInv, [Next]_vars PROVE [Exact]_vars
  <2> SUFFICES ASSUME Next, NEW v \in Visitors, next_msg_index_'[v] # next_msg_index_[v]
               PROVE  LET i == next_msg_index_'[v] - 1 IN
                      /\ next_msg_index_'[v] > next_msg_index_[v]
                      /\ At(fused[v], i) = filled[v][i]
    BY <1>1
  <2>1. PICK w \in Visitors : TryFetch(w)
    BY DEF Next, PublisherStep, Build, Dispatch, FillBuffer, StartFusion, Latest, FillFusion,
           Notify, AddBuffer, AddNotifier, SetFusionCallback, RegisterNotifyCallback,
           routineVars
  <2> DEFINE i == FetchIndex(fused[w], next_msg_index_[w])
  <2>2. w = v /\ i # 0 /\ next_msg_index_'[v] = i + 1
    BY <2>1, <1>1 DEF TryFetch, FusionInv, FusionTypeOK
  <2>3. fused[v] \in CacheBuffers(Seq(Nat) \union {None}) /\ next_msg_index_[v] \in Nat
    BY <1>1 DEF FusionInv, FusionTypeOK
  <2>4. Bounded(fused[v]) /\ next_msg_index_[v] <= fused[v].tail + 1
        /\ \A pos \in fused[v].head + 1 .. fused[v].tail : At(fused[v], pos) = filled[v][pos]
    BY <1>1 DEF FusionInv, FusedBounded, RingIsWindow
  <2>5. i \in Nat /\ i \in fused[v].head + 1 .. fused[v].tail /\ i >= next_msg_index_[v]
    BY <2>2, <2>3, <2>4, FetchIndexIsHeld
  <2> HIDE DEF i
  <2> QED
    BY <2>2, <2>3, <2>4, <2>5
<1> QED
  BY <1>1, FusionInvariant, PTL DEF Spec, FetchIsExact

-----------------------------------------------------------------------------
(* TaskManager.                                                            *)

Queued(f) == \E i \in DOMAIN task_queue_ : task_queue_[i] = f
Running(f) == \E c \in Routines : f \in running[c]

\* Places(), without counting: a function is in at most one place, there at
\* most once, and is somewhere exactly when the queue took it.
OncePlaced ==
  /\ \A i, j \in DOMAIN task_queue_ : task_queue_[i] = task_queue_[j] => i = j
  /\ \A c, d \in Routines : running[c] \intersect running[d] # {} => c = d
  /\ \A c \in Routines : rpc[c] # "task" => running[c] = {}
  /\ \A f \in Tasks :
       /\ done[f] \in {0, 1}
       /\ Queued(f) => ~Running(f) /\ done[f] = 0
       /\ Running(f) => done[f] = 0
       /\ f \in accepted <=> Queued(f) \/ Running(f) \/ done[f] = 1

TaskInv == Manager!TypeOK /\ OncePlaced

\* The instance of TaskManager has the Cardinality of FiniteSets.
LEMMA ManagerCardinality == \A S : Manager!Cardinality(S) = Cardinality(S)
BY DEF Manager!Cardinality, Cardinality

\* What OncePlaced says of one function is what Places() counts.
LEMMA OncePlacedCounts == TaskInv => Manager!AcceptedOnce
<1> SUFFICES ASSUME TaskInv, NEW f \in Tasks
             PROVE  Manager!Places(f) = IF f \in accepted THEN 1 ELSE 0
  BY DEF Manager!AcceptedOnce
<1> DEFINE Q == {i \in DOMAIN task_queue_ : task_queue_[i] = f}
           R == {c \in Routines : f \in running[c]}
<1>1. Cardinality(Q) = IF Queued(f) THEN 1 ELSE 0
  <2>1. CASE Queued(f)
    <3>1. PICK i \in DOMAIN task_queue_ : task_queue_[i] = f
      BY <2>1 DEF Queued
    <3>2. Q = {i}
      BY <3>1 DEF TaskInv, OncePlaced
    <3> QED
      BY <3>2, <2>1, FS_Singleton
  <2>2. CASE ~Queued(f)
    <3>1. Q = {}
      BY <2>2 DEF Queued
    <3> QED
      BY <3>1, <2>2, FS_EmptySet
  <2> QED
    BY <2>1, <2>2
<1>2. Cardinality(R) = IF Running(f) THEN 1 ELSE 0
  <2>1. CASE Running(f)
    <3>1. PICK c \in Routines : f \in running[c]
      BY <2>1 DEF Running
    <3>2. R = {c}
      BY <3>1 DEF TaskInv, OncePlaced
    <3> QED
      BY <3>2, <2>1, FS_Singleton
  <2>2. CASE ~Running(f)
    <3>1. R = {}
      BY <2>2 DEF Running
    <3> QED
      BY <3>1, <2>2, FS_EmptySet
  <2> QED
    BY <2>1, <2>2
<1>3. Manager!Places(f) = Cardinality(Q) + Cardinality(R) + done[f]
  BY ManagerCardinality DEF Manager!Places
<1> HIDE DEF Q, R
<1> QED
  BY <1>1, <1>2, <1>3 DEF TaskInv, OncePlaced

LEMMA InitTasks == Manager!Init => TaskInv
<1> SUFFICES ASSUME Manager!Init PROVE TaskInv
  OBVIOUS
<1>1. Manager!TypeOK
  <2>1. Manager!CRoutineTypeOK
    BY DEF Manager!Init, Manager!CRoutineInit, Manager!CRoutineTypeOK, Manager!RoutineState
  <2>2. task_queue_ \in Seq(Tasks) /\ Len(task_queue_) <= task_queue_size_
    BY TaskQueueAssumption DEF Manager!Init
  <2>3. /\ rpc \in [Routines -> {"parked", "loop", "dequeue", "hangup", "task", "finished"}]
        /\ running \in [Routines -> SUBSET Tasks]
        /\ cpc \in [Clients -> {"idle", "notify"}] /\ ktodo \in [Clients -> SUBSET Routines]
        /\ handed \subseteq Tasks /\ accepted \subseteq handed
        /\ done \in [Tasks -> Nat] /\ stop_ \in BOOLEAN
    BY DEF Manager!Init
  <2> QED
    BY <2>1, <2>2, <2>3 DEF Manager!TypeOK
<1>2. OncePlaced
  BY DEF Manager!Init, OncePlaced, Queued, Running
<1> QED
  BY <1>1, <1>2 DEF TaskInv

\* Steps that leave the queue, what is run and the clients' history alone.
LEMMA FrameTasks ==
  ASSUME TaskInv, Manager!TypeOK', UNCHANGED <<task_queue_, running, accepted, done>>,
         \A c \in Routines : rpc'[c] # "task" => rpc[c] # "task" \/ running[c] = {}
  PROVE  TaskInv'
BY DEF TaskInv, OncePlaced, Queued, Running

\* Resuming, the loop's condition and HangUp().
LEMMA RoutineTasks ==
  ASSUME TaskInv, NEW c \in Routines,
         Manager!Resume(c) \/ Manager!Loop(c) \/ Manager!HangUp(c)
  PROVE  TaskInv'
<1> USE DEF TaskInv, Manager!TypeOK
<1>1. /\ Manager!CRoutineTypeOK
      /\ rpc \in [Routines -> {"parked", "loop", "dequeue", "hangup", "task", "finished"}]
  OBVIOUS
<1>2. UNCHANGED <<running, stop_, task_queue_, cpc, ktodo, handed, accepted, done>>
  BY DEF Manager!Resume, Manager!Loop, Manager!HangUp, Manager!clientVars
<1>3. /\ Manager!CRoutineTypeOK'
      /\ rpc' \in [Routines -> {"parked", "loop", "dequeue", "hangup", "task", "finished"}]
      /\ rpc[c] # "task" /\ \A d \in Routines \ {c} : rpc'[d] = rpc[d]
  <2> USE DEF Manager!Go, Manager!CRoutineTypeOK, Manager!RoutineState
  <2>1. CASE Manager!Resume(c)
    <3>1. Manager!NextState(c, FALSE) \in Manager!RoutineState
      BY <2>1 DEF Manager!Resume
    <3> QED
      BY <1>1, <2>1, <3>1
      DEF Manager!Resume, Manager!Acquire, Manager!UpdateState, Manager!SetState
  <2>2. CASE Manager!Loop(c)
    BY <1>1, <2>2 DEF Manager!Loop
  <2>3. CASE Manager!HangUp(c)
    BY <1>1, <2>3 DEF Manager!HangUp, Manager!SetState, Manager!Release
  <2> QED
    BY <2>1, <2>2, <2>3
<1>4. Manager!TypeOK'
  BY <1>2, <1>3
<1>5. running[c] = {}
  BY <1>3 DEF OncePlaced
<1> QED
  BY <1>2, <1>3, <1>4, <1>5, FrameTasks

\* Notifying, and Shutdown().
LEMMA ClientTasks ==
  ASSUME TaskInv, NEW k \in Clients, Manager!NotifyTask(k) \/ Manager!Shutdown(k)
  PROVE  TaskInv'
<1>1. UNCHANGED <<rpc, running, task_queue_, handed, accepted, done>>
  BY DEF Manager!NotifyTask, Manager!Shutdown, Manager!routineVars, Manager!clientVars
<1>2. Manager!TypeOK'
  <2> USE DEF TaskInv, Manager!TypeOK, Manager!CRoutineTypeOK
  <2>1. CASE Manager!NotifyTask(k)
    <3> PICK c \in ktodo[k] :
          /\ IF state_[c] \in Manager!Waiting THEN Manager!SetUpdateFlag(c)
                                              ELSE UNCHANGED updated_
          /\ ktodo' = [ktodo EXCEPT ![k] = @ \ {c}]
          /\ cpc' = [cpc EXCEPT ![k] = IF ktodo[k] = {c} THEN "idle" ELSE @]
      BY <2>1 DEF Manager!NotifyTask
    <3> updated_' \in [Routines -> BOOLEAN]
      BY DEF Manager!SetUpdateFlag
    <3> UNCHANGED <<state_, lock_, force_stop_, stop_>>
      BY <2>1 DEF Manager!NotifyTask
    <3> QED
      BY <1>1
  <2>2. CASE Manager!Shutdown(k)
    BY <2>2, <1>1 DEF Manager!Shutdown, Manager!croutineVars, Manager!clientVars
  <2> QED
    BY <2>1, <2>2
<1> QED
  BY <1>1, <1>2, FrameTasks

\* The head of the queue moves to the routine that takes it.
LEMMA DequeueTasks ==
  ASSUME TaskInv, NEW c \in Routines, Manager!Dequeue(c)
  PROVE  TaskInv'
<1>1. UNCHANGED <<state_, lock_, updated_, force_stop_, stop_, cpc, ktodo, handed, accepted, done>>
  BY DEF Manager!Dequeue, Manager!croutineVars, Manager!clientVars
<1>2. /\ Manager!TypeOK /\ rpc[c] = "dequeue" /\ running[c] = {}
      /\ task_queue_ \in Seq(Tasks) /\ Len(task_queue_) <= task_queue_size_
      /\ task_queue_size_ \in Nat
  BY TaskQueueAssumption DEF TaskInv, OncePlaced, Manager!TypeOK, Manager!Dequeue, Manager!Go
<1>3. CASE task_queue_ = << >> /\ rpc' = [rpc EXCEPT ![c] = "hangup"]
           /\ UNCHANGED <<task_queue_, running>>
  <2>1. Manager!TypeOK'
    BY <1>1, <1>2, <1>3 DEF Manager!TypeOK, Manager!CRoutineTypeOK
  <2>2. \A d \in Routines : rpc'[d] # "task" => rpc[d] # "task"
    BY <1>2, <1>3 DEF Manager!TypeOK
  <2> QED
    BY <1>1, <1>3, <2>1, <2>2, FrameTasks
<1>4. CASE task_queue_ # << >> /\ rpc' = [rpc EXCEPT ![c] = "task"]
           /\ running' = [running EXCEPT ![c] = {Head(task_queue_)}]
           /\ task_queue_' = Tail(task_queue_)
  <2> DEFINE q == task_queue_
             f == Head(q)
  <2>1. /\ f \in Tasks /\ f = q[1] /\ Tail(q) \in Seq(Tasks) /\ 1 \in DOMAIN q
        /\ Len(Tail(q)) = Len(q) - 1 /\ Len(q) \in Nat \ {0}
        /\ DOMAIN q = 1 .. Len(q) /\ DOMAIN Tail(q) = 1 .. Len(q) - 1
        /\ \A i \in DOMAIN Tail(q) : i + 1 \in DOMAIN q /\ Tail(q)[i] = q[i + 1]
    BY <1>2, <1>4
  <2>2. /\ running'[c] = {f} /\ \A d \in Routines \ {c} : running'[d] = running[d]
        /\ rpc'[c] = "task" /\ \A d \in Routines \ {c} : rpc'[d] = rpc[d]
        /\ task_queue_' = Tail(q)
    BY <1>2, <1>4 DEF Manager!TypeOK
  <2>3. Manager!TypeOK'
    <3>1. running' \in [Routines -> SUBSET Tasks]
      BY <1>2, <1>4, <2>1 DEF Manager!TypeOK
    <3>2. task_queue_' \in Seq(Tasks) /\ Len(task_queue_') <= task_queue_size_
      BY <1>2, <1>4, <2>1
    <3> QED
      BY <1>1, <1>2, <1>4, <3>1, <3>2 DEF Manager!TypeOK, Manager!CRoutineTypeOK
  <2>4. Queued(f) /\ ~Running(f) /\ done[f] = 0 /\ f \in accepted
    BY <2>1 DEF Queued, TaskInv, OncePlaced
  <2>5. \A g \in Tasks : Queued(g)' <=> Queued(g) /\ g # f
    <3> SUFFICES ASSUME NEW g \in Tasks PROVE Queued(g)' <=> Queued(g) /\ g # f
      OBVIOUS
    <3>1. ASSUME Queued(g)' PROVE Queued(g) /\ g # f
      <4>1. PICK i \in DOMAIN Tail(q) : Tail(q)[i] = g
        BY <3>1, <1>4 DEF Queued
      <4>2. i + 1 \in DOMAIN q /\ q[i + 1] = g /\ i + 1 # 1
        BY <4>1, <2>1
      <4> QED
        BY <4>2, <2>1 DEF Queued, TaskInv, OncePlaced
    <3>2. ASSUME Queued(g), g # f PROVE Queued(g)'
      <4>1. PICK i \in DOMAIN q : q[i] = g
        BY <3>2 DEF Queued
      <4>2. i - 1 \in DOMAIN Tail(q) /\ Tail(q)[i - 1] = g
        BY <4>1, <3>2, <2>1
      <4> QED
        BY <4>2, <1>4 DEF Queued
    <3> QED
      BY <3>1, <3>2
  <2>6. \A g \in Tasks : Running(g)' <=> Running(g) \/ g = f
    BY <2>2, <1>2 DEF Running
  <2>7. \A i, j \in DOMAIN task_queue_' : task_queue_'[i] = task_queue_'[j] => i = j
    <3> SUFFICES ASSUME NEW i \in DOMAIN Tail(q), NEW j \in DOMAIN Tail(q),
                        Tail(q)[i] = Tail(q)[j]
                 PROVE  i = j
      BY <2>2
    <3> i + 1 \in DOMAIN q /\ j + 1 \in DOMAIN q /\ q[i + 1] = q[j + 1]
      BY <2>1
    <3> i + 1 = j + 1
      BY DEF TaskInv, OncePlaced
    <3> QED
      BY <2>1
  <2>8. \A d, e \in Routines : running'[d] \intersect running'[e] # {} => d = e
    BY <2>2, <2>4 DEF TaskInv, OncePlaced, Running
  <2>9. \A d \in Routines : rpc'[d] # "task" => running'[d] = {}
    BY <2>2 DEF TaskInv, OncePlaced
  <2>10. \A g \in Tasks :
           /\ done[g] \in {0, 1}
           /\ Queued(g)' => ~Running(g)' /\ done[g] = 0
           /\ Running(g)' => done[g] = 0
           /\ g \in accepted <=> Queued(g)' \/ Running(g)' \/ done[g] = 1
    BY <2>4, <2>5, <2>6 DEF TaskInv, OncePlaced
  <2>11. OncePlaced'
    BY <2>7, <2>8, <2>9, <2>10, <1>1 DEF OncePlaced
  <2> QED
    BY <2>3, <2>11 DEF TaskInv
<1> QED
  BY <1>3, <1>4 DEF Manager!Dequeue, Manager!Go

\* What a routine runs is counted as run.
LEMMA RunTaskTasks ==
  ASSUME TaskInv, NEW c \in Routines, Manager!RunTask(c)
  PROVE  TaskInv'
<1>1. /\ UNCHANGED <<state_, lock_, updated_, force_stop_, stop_, task_queue_, cpc, ktodo,
                     handed, accepted>>
      /\ rpc' = [rpc EXCEPT ![c] = "loop"] /\ running' = [running EXCEPT ![c] = {}]
      /\ done' = [f \in Tasks |-> IF f \in running[c] THEN done[f] + 1 ELSE done[f]]
  BY DEF Manager!RunTask, Manager!Go, Manager!croutineVars, Manager!clientVars
<1>2. Manager!TypeOK /\ running \in [Routines -> SUBSET Tasks] /\ done \in [Tasks -> Nat]
  BY DEF TaskInv, Manager!TypeOK
<1>3. Manager!TypeOK'
  <2>1. running' \in [Routines -> SUBSET Tasks] /\ done' \in [Tasks -> Nat]
    BY <1>1, <1>2
  <2> QED
    BY <1>1, <1>2, <2>1 DEF Manager!TypeOK, Manager!CRoutineTypeOK
<1>4. /\ running'[c] = {} /\ \A d \in Routines \ {c} : running'[d] = running[d]
      /\ rpc'[c] = "loop" /\ \A d \in Routines \ {c} : rpc'[d] = rpc[d]
  BY <1>1, <1>2 DEF Manager!TypeOK
<1>5. \A f \in Tasks :
        /\ Queued(f)' <=> Queued(f)
        /\ Running(f)' <=> Running(f) /\ f \notin running[c]
  BY <1>1, <1>4 DEF Queued, Running, TaskInv, OncePlaced
<1>6. \A f \in Tasks :
        /\ done'[f] = IF f \in running[c] THEN done[f] + 1 ELSE done[f]
        /\ f \in running[c] => Running(f)
  BY <1>1 DEF Running
<1>7. \A f \in Tasks :
        /\ done'[f] \in {0, 1}
        /\ Queued(f)' => ~Running(f)' /\ done'[f] = 0
        /\ Running(f)' => done'[f] = 0
        /\ f \in accepted <=> Queued(f)' \/ Running(f)' \/ done'[f] = 1
  BY <1>5, <1>6 DEF TaskInv, OncePlaced
<1>8. /\ \A i, j \in DOMAIN task_queue_' : task_queue_'[i] = task_queue_'[j] => i = j
      /\ \A d, e \in Routines : running'[d] \intersect running'[e] # {} => d = e
      /\ \A d \in Routines : rpc'[d] # "task" => running'[d] = {}
  BY <1>1, <1>4 DEF TaskInv, OncePlaced
<1>9. OncePlaced'
  BY <1>1, <1>7, <1>8 DEF OncePlaced
<1> QED
  BY <1>3, <1>9 DEF TaskInv

\* A function is handed in once; if the queue takes it, it was nowhere yet.
LEMMA EnqueueTasks ==
  ASSUME TaskInv, NEW k \in Clients, NEW f \in Tasks, Manager!Enqueue(k, f)
  PROVE  TaskInv'
<1> DEFINE fits == ~stop_ /\ Len(task_queue_) < task_queue_size_
           q == task_queue_
<1>1. /\ f \notin handed /\ handed' = handed \union {f}
      /\ task_queue_' = IF fits THEN Append(q, f) ELSE q
      /\ accepted' = IF fits THEN accepted \union {f} ELSE accepted
      /\ cpc' = [cpc EXCEPT ![k] = IF stop_ THEN "idle" ELSE "notify"]
      /\ ktodo' = [ktodo EXCEPT ![k] = IF stop_ THEN {} ELSE Routines]
      /\ UNCHANGED <<state_, lock_, updated_, force_stop_, stop_, rpc, running, done>>
  BY DEF Manager!Enqueue, Manager!croutineVars, Manager!routineVars
<1>2. /\ Manager!TypeOK /\ q \in Seq(Tasks) /\ Len(q) <= task_queue_size_
      /\ handed \subseteq Tasks /\ accepted \subseteq handed /\ task_queue_size_ \in Nat
  BY TaskQueueAssumption DEF TaskInv, Manager!TypeOK
<1> HIDE DEF fits
<1>3. Manager!TypeOK'
  <2>1. task_queue_' \in Seq(Tasks) /\ Len(task_queue_') <= task_queue_size_
    <3>1. CASE fits
      BY <1>1, <1>2, <3>1 DEF fits
    <3>2. CASE ~fits
      BY <1>1, <1>2, <3>2
    <3> QED
      BY <3>1, <3>2
  <2>2. handed' \subseteq Tasks /\ accepted' \subseteq handed'
    BY <1>1, <1>2
  <2>3. cpc' \in [Clients -> {"idle", "notify"}] /\ ktodo' \in [Clients -> SUBSET Routines]
    <3> cpc \in [Clients -> {"idle", "notify"}] /\ ktodo \in [Clients -> SUBSET Routines]
      BY <1>2 DEF Manager!TypeOK
    <3> (IF stop_ THEN {} ELSE Routines) \in SUBSET Routines
      OBVIOUS
    <3> QED
      BY <1>1
  <2> QED
    BY <1>1, <1>2, <2>1, <2>2, <2>3 DEF Manager!TypeOK, Manager!CRoutineTypeOK
<1>4. CASE ~fits
  <2> UNCHANGED <<task_queue_, running, accepted, done, rpc>>
    BY <1>1, <1>4
  <2> QED
    BY <1>3, FrameTasks
<1>5. CASE fits
  <2>1. task_queue_' = Append(q, f) /\ accepted' = accepted \union {f}
    BY <1>1, <1>5
  <2>2. /\ Len(q) \in Nat /\ DOMAIN q = 1 .. Len(q)
        /\ DOMAIN Append(q, f) = 1 .. Len(q) + 1
        /\ Append(q, f)[Len(q) + 1] = f
        /\ \A i \in DOMAIN q : Append(q, f)[i] = q[i]
    BY <1>2
  <2>3. f \notin accepted /\ ~Queued(f) /\ ~Running(f) /\ done[f] = 0
    BY <1>1, <1>2 DEF TaskInv, OncePlaced
  <2>4. \A g \in Tasks : Queued(g)' <=> Queued(g) \/ g = f
    <3> SUFFICES ASSUME NEW g \in Tasks PROVE Queued(g)' <=> Queued(g) \/ g = f
      OBVIOUS
    <3>1. ASSUME Queued(g)', g # f PROVE Queued(g)
      <4>1. PICK i \in DOMAIN Append(q, f) : Append(q, f)[i] = g
        BY <3>1, <2>1 DEF Queued
      <4>2. i \in DOMAIN q
        BY <4>1, <3>1, <2>2
      <4> QED
        BY <4>1, <4>2, <2>2 DEF Queued
    <3>2. ASSUME Queued(g) PROVE Queued(g)'
      <4>1. PICK i \in DOMAIN q : q[i] = g
        BY <3>2 DEF Queued
      <4>2. i \in DOMAIN Append(q, f) /\ Append(q, f)[i] = g
        BY <4>1, <2>2
      <4> QED
        BY <4>2, <2>1 DEF Queued
    <3>3. Queued(f)'
      <4> Len(q) + 1 \in DOMAIN Append(q, f)
        BY <2>2
      <4> QED
        BY <2>1, <2>2 DEF Queued
    <3> QED
      BY <3>1, <3>2, <3>3
  <2>5. \A i, j \in DOMAIN task_queue_' : task_queue_'[i] = task_queue_'[j] => i = j
    <3> SUFFICES ASSUME NEW i \in DOMAIN Append(q, f), NEW j \in DOMAIN Append(q, f),
                        Append(q, f)[i] = Append(q, f)[j]
                 PROVE  i = j
      BY <2>1
    <3>1. \A n \in DOMAIN q : q[n] # f
      BY <2>3 DEF Queued
    <3>2. \A n, m \in DOMAIN q : q[n] = q[m] => n = m
      BY DEF TaskInv, OncePlaced
    <3> QED
      BY <2>2, <3>1, <3>2
  <2>6. \A g \in Tasks : Running(g)' <=> Running(g)
    BY <1>1 DEF Running
  <2>7. \A g \in Tasks :
          /\ done[g] \in {0, 1}
          /\ Queued(g)' => ~Running(g)' /\ done[g] = 0
          /\ Running(g)' => done[g] = 0
          /\ g \in accepted' <=> Queued(g)' \/ Running(g)' \/ done[g] = 1
    BY <2>1, <2>3, <2>4, <2>6 DEF TaskInv, OncePlaced
  <2>8. /\ \A d, e \in Routines : running[d] \intersect running[e] # {} => d = e
        /\ \A d \in Routines : rpc[d] # "task" => running[d] = {}
    BY DEF TaskInv, OncePlaced
  <2>9. OncePlaced'
    BY <1>1, <2>5, <2>7, <2>8 DEF OncePlaced
  <2> QED
    BY <1>3, <2>9 DEF TaskInv
<1> QED
  BY <1>4, <1>5

LEMMA NextTasks == TaskInv /\ [MCNext]_mcVars => TaskInv'
<1> SUFFICES ASSUME TaskInv, [MCNext]_mcVars PROVE TaskInv'
  OBVIOUS
<1>1. CASE UNCHANGED taskAll
  <2> Manager!TypeOK'
    BY <1>1 DEF TaskInv, taskAll, Manager!TypeOK, Manager!CRoutineTypeOK
  <2> QED
    BY <1>1, FrameTasks DEF taskAll
<1>2. CASE Manager!Next
  <2>1. ASSUME NEW c \in Routines, Manager!RoutineStep(c) PROVE TaskInv'
    BY <2>1, RoutineTasks, DequeueTasks, RunTaskTasks DEF Manager!RoutineStep
  <2> QED
    BY <1>2, <2>1, ClientTasks, EnqueueTasks DEF Manager!Next
<1> QED
  BY <1>1, <1>2 DEF MCNext, Fusion, Locking, mcVars

(***************************************************************************)
(* TaskManager: a function the queue took is in the queue, being run or    *)
(* run, once, whichever routines race for it.                              *)
(***************************************************************************)
THEOREM TaskSafety == MCSpec => []AcceptedOnce
<1>1. MCInit => TaskInv
  BY InitTasks DEF MCInit
<1>2. TaskInv => AcceptedOnce
  BY OncePlacedCounts DEF AcceptedOnce, TaskInv
<1> QED
  BY <1>1, <1>2, NextTasks, PTL DEF MCSpec
=============================================================================
