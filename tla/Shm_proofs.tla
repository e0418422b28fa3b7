----------------------------- MODULE Shm_proofs -----------------------------
(***************************************************************************)
(* Proofs about the shared memory transport: the blocks of ShmChannel, for *)
(* any number of transmitters, dispatchers, blocks and messages, and the   *)
(* ring of ConditionNotifier, for any number of threads and any length.    *)
(***************************************************************************)
EXTENDS MC_Shm, RingArithmetic, FiniteSetTheorems, TLAPS

-----------------------------------------------------------------------------
(* ShmChannel.                                                             *)

\* The instance of ShmChannel has the Cardinality of FiniteSets.
LEMMA ChannelCardinality == \A S : Channel!Cardinality(S) = Cardinality(S)
BY DEF Channel!Cardinality, Cardinality

ReadersFinite == \A b \in Channel!Blocks : IsFiniteSet(Channel!ReadersOf(b))

\* A block holds its last message, or is torn while a transmitter writes it.
BlocksHoldVersion ==
  \A b \in Channel!Blocks :
    buf[b] = IF \E x \in Ts : tpc[x] = "serializing" /\ index[x] = b
               THEN Torn ELSE version[b]

\* Nobody is told of a message before it is in its block.
NoticesAreWritten ==
  /\ \A i \in DOMAIN log : log[i][2] <= version[log[i][1]]
  /\ \A x \in Ts : tpc[x] \in {"release", "notify"} => wrote[x] <= version[index[x]]
  /\ \A y \in Ds : cinfo[y][2] <= version[cinfo[y][1]]

\* A reader compares the counter with one that no writer had set, and between
\* ParseFromArray()'s beginning and end its block keeps its message.
ReadersAreUndisturbed ==
  \A y \in Ds :
    /\ dpc[y] = "cas" => lock_num[y] >= 0
    /\ dpc[y] = "reading" => msg[y] = version[cinfo[y][1]]

ChannelInv ==
  /\ Channel!TypeOK /\ Channel!LocksAgree /\ ReadersFinite /\ BlocksHoldVersion
  /\ NoticesAreWritten /\ ReadersAreUndisturbed /\ DeliveredIsCurrent

LEMMA InitChannel == Channel!Init => ChannelInv
<1> SUFFICES ASSUME Channel!Init PROVE ChannelInv
  OBVIOUS
<1> USE DEF Channel!Init
<1>1. 0 \in Channel!Blocks /\ <<0, 0>> \in Channel!Blocks \X Nat
      /\ 0 \in 0 .. kMaxTryLockTimes - 1
  BY ChannelAssumption DEF Channel!Blocks
<1>2. Channel!TypeOK
  <2>1. /\ lock_num_ \in [Channel!Blocks -> Int] /\ buf \in [Channel!Blocks -> Nat \union {Torn}]
        /\ version \in [Channel!Blocks -> Nat] /\ wrote_num_ \in Nat
    BY DEF Channel!kRWLockFree
  <2>2. log \in Seq(Channel!Blocks \X Nat) /\ pos \in [Ds -> Nat]
    OBVIOUS
  <2>3. /\ tpc \in [Ts -> {"idle", "find", "notify"} \union Channel!Holding]
        /\ index \in [Ts -> Channel!Blocks] /\ wrote \in [Ts -> Nat]
    BY <1>1
  <2>4. /\ dpc \in [Ds -> {"listen", "load", "cas", "read", "reading", "release"}]
        /\ cinfo \in [Ds -> Channel!Blocks \X Nat] /\ lock_num \in [Ds -> Int]
        /\ try_times \in [Ds -> 0 .. kMaxTryLockTimes - 1]
        /\ msg \in [Ds -> Nat \union {Torn}]
    BY <1>1 DEF Channel!NoNotice
  <2>5. delivered \in [Ds -> (Nat \union {Torn}) \X Nat] /\ dead \subseteq Channel!Processes
    BY DEF Channel!NoNotice
  <2> QED
    BY <2>1, <2>2, <2>3, <2>4, <2>5 DEF Channel!TypeOK
<1>3. \A b \in Channel!Blocks :
        Channel!WritersOf(b) = {} /\ Channel!ReadersOf(b) = {} /\ lock_num_[b] = 0
  BY DEF Channel!WritersOf, Channel!ReadersOf, Channel!Holding, Channel!kRWLockFree
<1>4. Channel!LocksAgree /\ ReadersFinite
  BY <1>3, FS_EmptySet, ChannelCardinality DEF Channel!LocksAgree, ReadersFinite
<1>5. BlocksHoldVersion
  BY DEF BlocksHoldVersion
<1>6. NoticesAreWritten
  BY <1>1 DEF NoticesAreWritten, Channel!NoNotice
<1>7. ReadersAreUndisturbed
  BY DEF ReadersAreUndisturbed
<1>8. DeliveredIsCurrent
  BY ChannelAssumption DEF DeliveredIsCurrent, Channel!DeliveredIsCurrent, Channel!NoNotice
<1> QED
  BY <1>2, <1>4, <1>5, <1>6, <1>7, <1>8 DEF ChannelInv

\* All of ShmChannel but who is dead.
channelVars == <<lock_num_, buf, version, wrote_num_, log, pos, tpc, index, wrote,
                 dpc, cinfo, lock_num, try_times, msg, delivered>>

-----------------------------------------------------------------------------
(* Types.                                                                  *)

\* Indexes of blocks stay below the number of blocks.
LEMMA ModInBlocks == \A n \in Nat : n % BlockNum \in Channel!Blocks
BY ChannelAssumption DEF Channel!Blocks

\* The steps of Transmit() keep the types.
LEMMA SendTypes ==
  ASSUME Channel!TypeOK, NEW x \in Ts, Channel!Transmit(x) \/ Channel!SendStep(x)
  PROVE  Channel!TypeOK'
<1>0. index[x] \in Channel!Blocks
  BY DEF Channel!TypeOK
<1>10. index[x] + 1 \in Nat
  BY <1>0, ChannelAssumption DEF Channel!Blocks
<1> USE DEF Channel!TypeOK, Channel!Send, Channel!Holding, Channel!blockVars,
            Channel!sendVars, Channel!recvVars
<1>1. CASE Channel!Transmit(x)
  BY <1>1, ModInBlocks DEF Channel!Transmit
<1>2. CASE Channel!LockForWrite(x)
  BY <1>2 DEF Channel!LockForWrite, Channel!kWriteExclusive
<1>3. CASE Channel!TryNextBlock(x)
  <2>1. index' \in [Ts -> Channel!Blocks]
    BY <1>3, <1>10, ModInBlocks DEF Channel!TryNextBlock
  <2> QED
    BY <1>3, <2>1 DEF Channel!TryNextBlock
<1>4. CASE Channel!IncreaseWroteNum(x)
  BY <1>4 DEF Channel!IncreaseWroteNum
<1>5. CASE Channel!SerializeFails(x)
  BY <1>5 DEF Channel!SerializeFails
<1>6. CASE Channel!Serialize(x)
  BY <1>6 DEF Channel!Serialize
<1>7. CASE Channel!Serialized(x)
  BY <1>7, SMTT(40) DEF Channel!Serialized
<1>8. CASE Channel!ReleaseWrittenBlock(x)
  BY <1>8 DEF Channel!ReleaseWrittenBlock
<1>9. CASE Channel!Notify(x)
  <2>1. <<index[x], wrote[x]>> \in Channel!Blocks \X Nat
    OBVIOUS
  <2>2. log' \in Seq(Channel!Blocks \X Nat)
    BY <1>9, <2>1 DEF Channel!Notify
  <2> QED
    BY <1>9, <2>2 DEF Channel!Notify
<1> QED
  BY <1>1, <1>2, <1>3, <1>4, <1>5, <1>6, <1>7, <1>8, <1>9 DEF Channel!SendStep

\* And so do those of the dispatcher's thread.
LEMMA ReceiveTypes ==
  ASSUME Channel!TypeOK, NEW y \in Ds, Channel!ReceiveStep(y)
  PROVE  Channel!TypeOK'
<1>0. Channel!block(y) \in Channel!Blocks /\ cinfo[y][2] \in Nat
  BY DEF Channel!block, Channel!TypeOK
<1>10. /\ try_times[y] \in 0 .. kMaxTryLockTimes - 1 /\ lock_num[y] \in Int
      /\ lock_num_[Channel!block(y)] \in Int
  BY <1>0 DEF Channel!TypeOK
<1>11. /\ 0 \in 0 .. kMaxTryLockTimes - 1
      /\ (IF try_times[y] + 1 = kMaxTryLockTimes THEN 0 ELSE try_times[y] + 1)
           \in 0 .. kMaxTryLockTimes - 1
  BY <1>10, ChannelAssumption
<1>12. ASSUME Channel!Listen(y) PROVE pos' \in [Ds -> Nat]
  <2>1. pos' = [pos EXCEPT ![y] = @ + 1]
    BY <1>12 DEF Channel!Listen
  <2>2. pos \in [Ds -> Nat]
    BY DEF Channel!TypeOK
  <2> QED
    BY <2>1, <2>2
<1> USE DEF Channel!TypeOK, Channel!Receive, Channel!blockVars, Channel!sendVars,
            Channel!recvVars
<1>1. CASE Channel!Listen(y)
  <2>1. log[pos[y] + 1] \in Channel!Blocks \X Nat
    BY <1>1, SMTT(40) DEF Channel!Listen
  <2>2. cinfo' = [cinfo EXCEPT ![y] = log[pos[y] + 1]]
    BY <1>1 DEF Channel!Listen
  <2>3. cinfo' \in [Ds -> Channel!Blocks \X Nat]
    BY <2>1, <2>2
  <2>4. pos' \in [Ds -> Nat]
    BY <1>1, <1>12
  <2> QED
    BY <1>1, <2>3, <2>4 DEF Channel!Listen
<1>2. CASE Channel!LoadLockNum(y)
  BY <1>10, <1>11, <1>2 DEF Channel!LoadLockNum
<1>3. CASE Channel!LockForRead(y)
  <2>1. /\ lock_num_' \in [Channel!Blocks -> Int]
        /\ try_times' \in [Ds -> 0 .. kMaxTryLockTimes - 1]
    BY <1>0, <1>10, <1>11, <1>3 DEF Channel!LockForRead
  <2> QED
    BY <1>3, <2>1 DEF Channel!LockForRead
<1>4. CASE Channel!LockForReadFails(y)
  BY <1>11, <1>4 DEF Channel!LockForReadFails
<1>5. CASE Channel!Parse(y)
  BY <1>0, <1>5 DEF Channel!Parse
<1>6. CASE Channel!Deliver(y)
  <2>1. <<IF buf[Channel!block(y)] = msg[y] THEN msg[y] ELSE Torn, cinfo[y][2]>>
          \in (Nat \union {Torn}) \X Nat
    BY <1>0
  <2> QED
    BY <1>6, <2>1 DEF Channel!Deliver
<1>7. CASE Channel!ReleaseReadBlock(y)
  <2>1. lock_num_' \in [Channel!Blocks -> Int]
    BY <1>0, <1>10, <1>7 DEF Channel!ReleaseReadBlock
  <2> QED
    BY <1>7, <2>1 DEF Channel!ReleaseReadBlock
<1> QED
  BY <1>1, <1>2, <1>3, <1>4, <1>5, <1>6, <1>7 DEF Channel!ReceiveStep

-----------------------------------------------------------------------------
(* lock_num_ and who is inside.                                            *)

\* Nothing changes of the counters, nor of who is inside.
LEMMA FrameLocks ==
  ASSUME ChannelInv, UNCHANGED lock_num_,
         \A b \in Channel!Blocks : /\ Channel!WritersOf(b)' = Channel!WritersOf(b)
                                   /\ Channel!ReadersOf(b)' = Channel!ReadersOf(b)
  PROVE  Channel!LocksAgree' /\ ReadersFinite'
<1>1. /\ \A b \in Channel!Blocks : IsFiniteSet(Channel!ReadersOf(b))
      /\ Channel!LocksAgree
  BY DEF ChannelInv, ReadersFinite
<1>2. ReadersFinite'
  BY <1>1 DEF ReadersFinite, Channel!Blocks
<1>3. Channel!LocksAgree'
  <2> SUFFICES ASSUME NEW b \in Channel!Blocks
               PROVE \/ /\ Channel!WritersOf(b) = {}
                        /\ lock_num_[b] = Channel!Cardinality(Channel!ReadersOf(b))
                     \/ /\ \E x \in Ts : Channel!WritersOf(b) = {x}
                        /\ Channel!ReadersOf(b) = {}
                        /\ lock_num_[b] = Channel!kWriteExclusive
    BY DEF Channel!LocksAgree, Channel!Blocks
  <2> QED
    BY <1>1 DEF Channel!LocksAgree
<1> QED
  BY <1>2, <1>3

\* LocksAgree for one block: its writers W, its readers R and its lock_num_ n.
Agree(W, R, n) ==
  /\ IsFiniteSet(R)
  /\ \/ W = {} /\ n = Cardinality(R)
     \/ (\E x \in Ts : W = {x}) /\ R = {} /\ n = -1

LEMMA AgreeIsLocksAgree ==
  /\ Channel!LocksAgree /\ ReadersFinite
       <=> \A b \in Channel!Blocks :
             Agree(Channel!WritersOf(b), Channel!ReadersOf(b), lock_num_[b])
  /\ (Channel!LocksAgree /\ ReadersFinite)'
       <=> \A b \in Channel!Blocks :
             Agree(Channel!WritersOf(b)', Channel!ReadersOf(b)', lock_num_'[b])
BY ChannelCardinality
DEF Agree, Channel!LocksAgree, ReadersFinite, Channel!kWriteExclusive, Channel!Blocks

\* A transmitter enters a block that nobody reads or writes, and counts up to
\* kRWLockFree when it leaves.
LEMMA SendLocks ==
  ASSUME ChannelInv, NEW x \in Ts, Channel!Transmit(x) \/ Channel!SendStep(x)
  PROVE  Channel!LocksAgree' /\ ReadersFinite'
<1>1. /\ Channel!TypeOK /\ x \in Ts /\ index[x] \in Channel!Blocks
      /\ tpc \in [Ts -> {"idle", "find", "notify"} \union Channel!Holding]
      /\ index \in [Ts -> Channel!Blocks] /\ lock_num_ \in [Channel!Blocks -> Int]
  BY DEF ChannelInv, Channel!TypeOK
<1>0. PICK c \in Channel!Blocks : c = index[x]
  BY <1>1
<1>2. UNCHANGED <<dpc, cinfo>>
  BY DEF Channel!Transmit, Channel!SendStep, Channel!LockForWrite, Channel!TryNextBlock,
         Channel!IncreaseWroteNum, Channel!SerializeFails, Channel!Serialize,
         Channel!Serialized, Channel!ReleaseWrittenBlock, Channel!Notify, Channel!recvVars
<1>3. \A b \in Channel!Blocks : Channel!ReadersOf(b)' = Channel!ReadersOf(b)
  BY <1>2 DEF Channel!ReadersOf, Channel!block
<1>4. \A b \in Channel!Blocks :
        Agree(Channel!WritersOf(b), Channel!ReadersOf(b), lock_num_[b])
  BY AgreeIsLocksAgree DEF ChannelInv
<1>5. CASE Channel!LockForWrite(x)
  <2>1. /\ tpc[x] = "find" /\ tpc' = [tpc EXCEPT ![x] = "count"] /\ index' = index
        /\ lock_num_[c] = 0 /\ lock_num_' = [lock_num_ EXCEPT ![c] = -1]
    BY <1>0, <1>5 DEF Channel!LockForWrite, Channel!Send, Channel!kRWLockFree,
                Channel!kWriteExclusive
  <2>2. Channel!WritersOf(c) = {} /\ Channel!ReadersOf(c) = {}
    BY <1>0, <1>1, <1>4, <2>1, FS_EmptySet DEF Agree
  <2>3. /\ Channel!WritersOf(c)' = {x}
        /\ \A b \in Channel!Blocks \ {c} : Channel!WritersOf(b)' = Channel!WritersOf(b)
    BY <1>0, <1>1, <2>1, <2>2 DEF Channel!WritersOf, Channel!Holding
  <2>4. ASSUME NEW b \in Channel!Blocks
        PROVE  Agree(Channel!WritersOf(b)', Channel!ReadersOf(b)', lock_num_'[b])
    BY <1>0, <1>1, <1>3, <1>4, <2>1, <2>2, <2>3 DEF Agree
  <2> QED
    BY <2>4, AgreeIsLocksAgree
<1>6. CASE Channel!SerializeFails(x) \/ Channel!ReleaseWrittenBlock(x)
  <2>1. /\ tpc[x] \in Channel!Holding /\ tpc' = [tpc EXCEPT ![x] = tpc'[x]]
        /\ tpc'[x] \in {"idle", "notify"} /\ index' = index
        /\ lock_num_' = [lock_num_ EXCEPT ![c] = @ + 1]
    BY <1>0, <1>1, <1>6
    DEF Channel!SerializeFails, Channel!ReleaseWrittenBlock, Channel!Send, Channel!Holding
  <2>2. x \in Channel!WritersOf(c)
    BY <1>0, <2>1 DEF Channel!WritersOf
  <2>3. /\ Channel!WritersOf(c) = {x} /\ Channel!ReadersOf(c) = {}
        /\ lock_num_[c] = -1
    BY <1>0, <1>1, <1>4, <2>2 DEF Agree
  <2>4. /\ Channel!WritersOf(c)' = {}
        /\ \A b \in Channel!Blocks \ {c} : Channel!WritersOf(b)' = Channel!WritersOf(b)
    BY <1>0, <1>1, <2>1, <2>3 DEF Channel!WritersOf, Channel!Holding
  <2>5. /\ lock_num_'[c] = 0
        /\ \A b \in Channel!Blocks \ {c} : lock_num_'[b] = lock_num_[b]
    BY <1>0, <1>1, <2>1, <2>3
  <2>6. ASSUME NEW b \in Channel!Blocks
        PROVE  Agree(Channel!WritersOf(b)', Channel!ReadersOf(b)', lock_num_'[b])
    <3>1. CASE b = c
      <4>1. /\ Channel!WritersOf(b)' = {} /\ Channel!ReadersOf(b)' = {}
            /\ lock_num_'[b] = 0
        BY <3>1, <1>0, <1>1, <1>3, <2>3, <2>4, <2>5
      <4> QED
        BY <4>1, FS_EmptySet DEF Agree
    <3>2. CASE b # c
      BY <3>2, <1>3, <1>4, <2>4, <2>5
    <3> QED
      BY <3>1, <3>2
  <2> QED
    BY <2>6, AgreeIsLocksAgree
<1>7. CASE \/ Channel!Transmit(x) \/ Channel!TryNextBlock(x) \/ Channel!IncreaseWroteNum(x)
           \/ Channel!Serialize(x) \/ Channel!Serialized(x) \/ Channel!Notify(x)
  <2>1. /\ tpc' = [tpc EXCEPT ![x] = tpc'[x]]
        /\ \/ tpc[x] \in Channel!Holding /\ tpc'[x] \in Channel!Holding /\ index' = index
           \/ /\ tpc[x] \notin Channel!Holding /\ tpc'[x] \notin Channel!Holding
              /\ \A w \in Ts \ {x} : index'[w] = index[w]
        /\ lock_num_' = lock_num_
    BY <1>0, <1>1, <1>7
    DEF Channel!Transmit, Channel!TryNextBlock, Channel!IncreaseWroteNum, Channel!Serialize,
        Channel!Serialized, Channel!Notify, Channel!Send, Channel!Holding, Channel!blockVars
  <2>2. \A b \in Channel!Blocks : Channel!WritersOf(b)' = Channel!WritersOf(b)
    BY <1>0, <1>1, <2>1 DEF Channel!WritersOf
  <2> QED
    BY <1>3, <2>1, <2>2, FrameLocks
<1> QED
  BY <1>5, <1>6, <1>7 DEF Channel!SendStep

\* A dispatcher enters a block that nobody writes, and is counted.
LEMMA ReceiveLocks ==
  ASSUME ChannelInv, NEW y \in Ds, Channel!ReceiveStep(y)
  PROVE  Channel!LocksAgree' /\ ReadersFinite'
<1> DEFINE inside == {"read", "reading", "release"}
<1>1. /\ Channel!block(y) \in Channel!Blocks /\ cinfo \in [Ds -> Channel!Blocks \X Nat]
      /\ dpc \in [Ds -> {"listen", "load", "cas"} \union inside]
      /\ lock_num_ \in [Channel!Blocks -> Int] /\ lock_num[y] \in Int
  BY DEF ChannelInv, Channel!TypeOK, Channel!block
<1>0. PICK c \in Channel!Blocks : c = Channel!block(y)
  BY <1>1
<1>2. UNCHANGED <<tpc, index>>
  BY DEF Channel!ReceiveStep, Channel!Listen, Channel!LoadLockNum, Channel!LockForRead,
         Channel!LockForReadFails, Channel!Parse, Channel!Deliver,
         Channel!ReleaseReadBlock, Channel!sendVars
<1>3. \A b \in Channel!Blocks : Channel!WritersOf(b)' = Channel!WritersOf(b)
  BY <1>2 DEF Channel!WritersOf
<1>4. \A b \in Channel!Blocks :
        Agree(Channel!WritersOf(b), Channel!ReadersOf(b), lock_num_[b])
  BY AgreeIsLocksAgree DEF ChannelInv
<1>5. \A b \in Channel!Blocks :
        Channel!ReadersOf(b) = {w \in Ds : dpc[w] \in inside /\ Channel!block(w) = b}
  BY DEF Channel!ReadersOf
<1>6. CASE Channel!LockForRead(y)
  <2>1. /\ dpc[y] = "cas" /\ dpc' = [dpc EXCEPT ![y] = "read"] /\ cinfo' = cinfo
        /\ lock_num_[c] = lock_num[y] /\ lock_num_' = [lock_num_ EXCEPT ![c] = @ + 1]
    BY <1>0, <1>6 DEF Channel!LockForRead, Channel!Receive
  <2>2. lock_num_[c] # -1 /\ y \notin Channel!ReadersOf(c)
    BY <1>0, <1>1, <1>5, <2>1 DEF ChannelInv, ReadersAreUndisturbed
  <2>3. /\ Channel!WritersOf(c) = {} /\ IsFiniteSet(Channel!ReadersOf(c))
        /\ lock_num_[c] = Cardinality(Channel!ReadersOf(c))
    BY <1>0, <1>1, <1>4, <2>2 DEF Agree
  <2>4. /\ Channel!ReadersOf(c)' = Channel!ReadersOf(c) \union {y}
        /\ \A b \in Channel!Blocks \ {c} : Channel!ReadersOf(b)' = Channel!ReadersOf(b)
    BY <1>0, <1>1, <2>1 DEF Channel!ReadersOf, Channel!block
  <2>5. /\ IsFiniteSet(Channel!ReadersOf(c)')
        /\ Cardinality(Channel!ReadersOf(c)') = Cardinality(Channel!ReadersOf(c)) + 1
    BY <2>2, <2>3, <2>4, FS_AddElement
  <2>6. /\ lock_num_'[c] = lock_num_[c] + 1
        /\ \A b \in Channel!Blocks \ {c} : lock_num_'[b] = lock_num_[b]
    BY <1>0, <1>1, <2>1
  <2> HIDE DEF inside
  <2>7. ASSUME NEW b \in Channel!Blocks
        PROVE  Agree(Channel!WritersOf(b)', Channel!ReadersOf(b)', lock_num_'[b])
    <3>1. CASE b = c
      <4>1. /\ Channel!WritersOf(b)' = {} /\ IsFiniteSet(Channel!ReadersOf(b)')
            /\ lock_num_'[b] = Cardinality(Channel!ReadersOf(b)')
        BY <3>1, <1>3, <2>3, <2>5, <2>6
      <4> QED
        BY <4>1 DEF Agree
    <3>2. CASE b # c
      BY <3>2, <1>3, <1>4, <2>4, <2>6
    <3> QED
      BY <3>1, <3>2
  <2> QED
    BY <2>7, AgreeIsLocksAgree
<1>7. CASE Channel!ReleaseReadBlock(y)
  <2>1. /\ dpc[y] = "release" /\ dpc' = [dpc EXCEPT ![y] = "listen"] /\ cinfo' = cinfo
        /\ lock_num_' = [lock_num_ EXCEPT ![c] = @ - 1]
    BY <1>0, <1>7 DEF Channel!ReleaseReadBlock, Channel!Receive
  <2>2. y \in Channel!ReadersOf(c)
    BY <1>0, <1>1, <1>5, <2>1
  <2>3. /\ Channel!WritersOf(c) = {} /\ IsFiniteSet(Channel!ReadersOf(c))
        /\ lock_num_[c] = Cardinality(Channel!ReadersOf(c))
    BY <1>0, <1>1, <1>4, <2>2 DEF Agree
  <2>4. /\ Channel!ReadersOf(c)' = Channel!ReadersOf(c) \ {y}
        /\ \A b \in Channel!Blocks \ {c} : Channel!ReadersOf(b)' = Channel!ReadersOf(b)
    BY <1>0, <1>1, <2>1 DEF Channel!ReadersOf, Channel!block
  <2>5. /\ IsFiniteSet(Channel!ReadersOf(c)')
        /\ Cardinality(Channel!ReadersOf(c)') = Cardinality(Channel!ReadersOf(c)) - 1
    BY <2>2, <2>3, <2>4, FS_RemoveElement
  <2>6. /\ lock_num_'[c] = lock_num_[c] - 1
        /\ \A b \in Channel!Blocks \ {c} : lock_num_'[b] = lock_num_[b]
    BY <1>0, <1>1, <2>1
  <2> HIDE DEF inside
  <2>7. ASSUME NEW b \in Channel!Blocks
        PROVE  Agree(Channel!WritersOf(b)', Channel!ReadersOf(b)', lock_num_'[b])
    <3>1. CASE b = c
      <4>1. /\ Channel!WritersOf(b)' = {} /\ IsFiniteSet(Channel!ReadersOf(b)')
            /\ lock_num_'[b] = Cardinality(Channel!ReadersOf(b)')
        BY <3>1, <1>3, <2>3, <2>5, <2>6
      <4> QED
        BY <4>1 DEF Agree
    <3>2. CASE b # c
      BY <3>2, <1>3, <1>4, <2>4, <2>6
    <3> QED
      BY <3>1, <3>2
  <2> QED
    BY <2>7, AgreeIsLocksAgree
<1>8. CASE \/ Channel!Listen(y) \/ Channel!LoadLockNum(y) \/ Channel!LockForReadFails(y)
           \/ Channel!Parse(y) \/ Channel!Deliver(y)
  <2>1. /\ dpc' = [dpc EXCEPT ![y] = dpc'[y]]
        /\ \/ dpc[y] \in inside /\ dpc'[y] \in inside /\ cinfo' = cinfo
           \/ /\ dpc[y] \notin inside /\ dpc'[y] \notin inside
              /\ \A w \in Ds \ {y} : cinfo'[w] = cinfo[w]
        /\ lock_num_' = lock_num_
    BY <1>0, <1>1, <1>8
    DEF Channel!Listen, Channel!LoadLockNum, Channel!LockForReadFails, Channel!Parse,
        Channel!Deliver, Channel!Receive, Channel!blockVars
  <2>2. \A b \in Channel!Blocks : Channel!ReadersOf(b)' = Channel!ReadersOf(b)
    BY <1>0, <1>1, <2>1 DEF Channel!ReadersOf, Channel!block
  <2> QED
    BY <1>3, <2>1, <2>2, FrameLocks
<1> QED
  BY <1>6, <1>7, <1>8 DEF Channel!ReceiveStep

-----------------------------------------------------------------------------
(* The messages.                                                           *)

\* A transmitter is alone in its block.
LEMMA Exclusion ==
  ASSUME ChannelInv, NEW x \in Ts, tpc[x] \in Channel!Holding
  PROVE  /\ \A w \in Ts : tpc[w] \in Channel!Holding /\ index[w] = index[x] => w = x
         /\ \A y \in Ds : dpc[y] \in {"read", "reading", "release"}
                            => Channel!block(y) # index[x]
<1>1. /\ x \in Channel!WritersOf(index[x]) /\ index[x] \in Channel!Blocks
  BY DEF ChannelInv, Channel!TypeOK, Channel!WritersOf
<1>2. PICK w \in Ts : Channel!WritersOf(index[x]) = {w} /\ Channel!ReadersOf(index[x]) = {}
  BY <1>1 DEF ChannelInv, Channel!LocksAgree
<1>3. Channel!WritersOf(index[x]) = {x}
  BY <1>1, <1>2
<1> QED
  BY <1>2, <1>3 DEF Channel!WritersOf, Channel!ReadersOf

\* Only the transmitter inside changes a block, and only to its next message.
LEMMA SendMessages ==
  ASSUME ChannelInv, NEW x \in Ts, Channel!Transmit(x) \/ Channel!SendStep(x)
  PROVE  BlocksHoldVersion' /\ NoticesAreWritten' /\ ReadersAreUndisturbed' /\ DeliveredIsCurrent'
<1>1. /\ index[x] \in Channel!Blocks /\ version[index[x]] \in Nat
      /\ tpc \in [Ts -> {"idle", "find", "notify"} \union Channel!Holding]
      /\ index \in [Ts -> Channel!Blocks] /\ wrote \in [Ts -> Nat]
      /\ version \in [Channel!Blocks -> Nat] /\ buf \in [Channel!Blocks -> Nat \union {Torn}]
      /\ log \in Seq(Channel!Blocks \X Nat)
      /\ \A y \in Ds : cinfo[y][1] \in Channel!Blocks /\ cinfo[y][2] \in Nat
  BY DEF ChannelInv, Channel!TypeOK
<1>2. BlocksHoldVersion /\ NoticesAreWritten /\ ReadersAreUndisturbed /\ DeliveredIsCurrent
  BY DEF ChannelInv
<1>3. UNCHANGED <<dpc, cinfo, lock_num, msg, delivered>>
  BY DEF Channel!Transmit, Channel!SendStep, Channel!LockForWrite, Channel!TryNextBlock,
         Channel!IncreaseWroteNum, Channel!SerializeFails, Channel!Serialize,
         Channel!Serialized, Channel!ReleaseWrittenBlock, Channel!Notify, Channel!recvVars
<1>4. DeliveredIsCurrent'
  BY <1>2, <1>3 DEF DeliveredIsCurrent, Channel!DeliveredIsCurrent
<1>5. ASSUME UNCHANGED <<buf, version, wrote, log>>,
             tpc' = [tpc EXCEPT ![x] = tpc'[x]],
             tpc[x] # "serializing", tpc'[x] # "serializing",
             \A w \in Ts \ {x} : index'[w] = index[w],
             tpc'[x] \in {"release", "notify"}
               => tpc[x] \in {"release", "notify"} /\ index'[x] = index[x]
      PROVE  BlocksHoldVersion' /\ NoticesAreWritten' /\ ReadersAreUndisturbed'
  <2>1. \A w \in Ts : /\ w # x => tpc'[w] = tpc[w] /\ index'[w] = index[w]
                      /\ tpc'[w] = "serializing" <=> tpc[w] = "serializing"
                      /\ tpc[w] = "serializing" => index'[w] = index[w]
    BY <1>1, <1>5
  <2>2. BlocksHoldVersion'
    BY <1>2, <1>5, <2>1 DEF BlocksHoldVersion, Channel!Blocks
  <2>3. \A w \in Ts : tpc'[w] \in {"release", "notify"} => wrote'[w] <= version'[index'[w]]
    BY <1>2, <1>5, <2>1 DEF NoticesAreWritten
  <2>4. NoticesAreWritten'
    BY <1>2, <1>3, <1>5, <2>3 DEF NoticesAreWritten
  <2>5. ReadersAreUndisturbed'
    BY <1>2, <1>3, <1>5 DEF ReadersAreUndisturbed
  <2> QED
    BY <2>2, <2>4, <2>5
<1>6. CASE \/ Channel!Transmit(x) \/ Channel!LockForWrite(x) \/ Channel!TryNextBlock(x)
           \/ Channel!IncreaseWroteNum(x) \/ Channel!SerializeFails(x)
           \/ Channel!ReleaseWrittenBlock(x)
  <2>1. /\ UNCHANGED <<buf, version, wrote, log>>
        /\ tpc' = [tpc EXCEPT ![x] = tpc'[x]]
        /\ tpc[x] # "serializing" /\ tpc'[x] # "serializing"
        /\ \A w \in Ts \ {x} : index'[w] = index[w]
        /\ tpc'[x] \in {"release", "notify"}
             => tpc[x] \in {"release", "notify"} /\ index'[x] = index[x]
    BY <1>1, <1>6
    DEF Channel!Transmit, Channel!LockForWrite, Channel!TryNextBlock,
        Channel!IncreaseWroteNum, Channel!SerializeFails, Channel!ReleaseWrittenBlock,
        Channel!Send, Channel!blockVars
  <2> QED
    BY <1>4, <1>5, <2>1
<1>7. CASE Channel!Serialize(x)
  <2>1. /\ tpc' = [tpc EXCEPT ![x] = "serializing"] /\ tpc[x] = "serialize"
        /\ buf' = [buf EXCEPT ![index[x]] = Torn]
        /\ UNCHANGED <<version, index, wrote, log>>
    BY <1>7 DEF Channel!Serialize, Channel!Send
  <2>2. \A w \in Ts : /\ w # x => tpc'[w] = tpc[w] /\ index'[w] = index[w]
                      /\ tpc'[x] = "serializing" /\ index'[x] = index[x]
    BY <1>1, <2>1
  <2>3. BlocksHoldVersion'
    <3> SUFFICES ASSUME NEW b \in Channel!Blocks
                 PROVE  buf'[b] = IF \E w \in Ts : tpc'[w] = "serializing" /\ index'[w] = b
                                    THEN Torn ELSE version'[b]
      BY DEF BlocksHoldVersion, Channel!Blocks
    <3>1. CASE b = index[x]
      BY <1>1, <2>1, <2>2, <3>1
    <3>2. CASE b # index[x]
      <4>1. buf[b] = IF \E w \in Ts : tpc[w] = "serializing" /\ index[w] = b
                       THEN Torn ELSE version[b]
        BY <1>2 DEF BlocksHoldVersion
      <4>2. (\E w \in Ts : tpc[w] = "serializing" /\ index[w] = b)
              <=> (\E w \in Ts : tpc'[w] = "serializing" /\ index'[w] = b)
        BY <2>1, <2>2, <3>2
      <4> QED
        BY <1>1, <2>1, <3>2, <4>1, <4>2
    <3> QED
      BY <3>1, <3>2
  <2>4. NoticesAreWritten'
    BY <1>2, <1>3, <2>1, <2>2 DEF NoticesAreWritten
  <2>5. ReadersAreUndisturbed'
    BY <1>2, <1>3, <2>1 DEF ReadersAreUndisturbed
  <2> QED
    BY <1>4, <2>3, <2>4, <2>5
<1>8. CASE Channel!Serialized(x)
  <2>1. /\ tpc' = [tpc EXCEPT ![x] = "release"] /\ tpc[x] = "serializing"
        /\ version' = [version EXCEPT ![index[x]] = version[index[x]] + 1]
        /\ buf' = [buf EXCEPT ![index[x]] = version[index[x]] + 1]
        /\ wrote' = [wrote EXCEPT ![x] = version[index[x]] + 1]
        /\ UNCHANGED <<index, log>>
    BY <1>8 DEF Channel!Serialized, Channel!Send
  <2>2. \A w \in Ts : /\ w # x => tpc'[w] = tpc[w] /\ index'[w] = index[w]
                      /\ tpc'[x] = "release" /\ index'[x] = index[x]
    BY <1>1, <2>1
  <2>3. /\ \A w \in Ts : tpc[w] = "serializing" /\ index[w] = index[x] => w = x
        /\ \A y \in Ds : dpc[y] = "reading" => cinfo[y][1] # index[x]
    BY <2>1, Exclusion DEF Channel!Holding, Channel!block
  <2>4. \A b \in Channel!Blocks : /\ b # index[x] => version'[b] = version[b]
                                  /\ version[b] \in Nat /\ version'[b] \in Nat
                                  /\ version[b] <= version'[b]
    BY <1>1, <2>1
  <2>5. BlocksHoldVersion'
    <3> SUFFICES ASSUME NEW b \in Channel!Blocks
                 PROVE  buf'[b] = IF \E w \in Ts : tpc'[w] = "serializing" /\ index'[w] = b
                                    THEN Torn ELSE version'[b]
      BY DEF BlocksHoldVersion, Channel!Blocks
    <3>1. CASE b = index[x]
      <4>1. ~ \E w \in Ts : tpc'[w] = "serializing" /\ index'[w] = b
        BY <2>2, <2>3, <3>1
      <4> QED
        BY <1>1, <2>1, <3>1, <4>1
    <3>2. CASE b # index[x]
      <4>1. buf[b] = IF \E w \in Ts : tpc[w] = "serializing" /\ index[w] = b
                       THEN Torn ELSE version[b]
        BY <1>2 DEF BlocksHoldVersion
      <4>2. (\E w \in Ts : tpc[w] = "serializing" /\ index[w] = b)
              <=> (\E w \in Ts : tpc'[w] = "serializing" /\ index'[w] = b)
        BY <2>1, <2>2, <3>2
      <4> QED
        BY <1>1, <2>1, <3>2, <4>1, <4>2
    <3> QED
      BY <3>1, <3>2
  <2>6. \A i \in DOMAIN log : log[i] \in Channel!Blocks \X Nat
    BY <1>1
  <2>7. \A i \in DOMAIN log' : log'[i][2] <= version'[log'[i][1]]
    <3> SUFFICES ASSUME NEW i \in DOMAIN log PROVE log[i][2] <= version'[log[i][1]]
      BY <2>1
    <3>1. /\ log[i][1] \in Channel!Blocks /\ log[i][2] \in Nat
          /\ log[i][2] <= version[log[i][1]]
      BY <1>2, <2>6 DEF NoticesAreWritten
    <3> QED
      BY <2>4, <3>1
  <2>8. \A w \in Ts : tpc'[w] \in {"release", "notify"} => wrote'[w] <= version'[index'[w]]
    <3> SUFFICES ASSUME NEW w \in Ts, tpc'[w] \in {"release", "notify"}
                 PROVE  wrote'[w] <= version'[index'[w]]
      OBVIOUS
    <3>1. CASE w = x
      BY <1>1, <2>1, <3>1
    <3>2. CASE w # x
      <4>1. wrote'[w] = wrote[w] /\ index'[w] = index[w] /\ wrote[w] <= version[index[w]]
        BY <1>1, <1>2, <2>1, <2>2, <3>2 DEF NoticesAreWritten
      <4>2. index[w] \in Channel!Blocks /\ wrote[w] \in Nat
        BY <1>1
      <4> QED
        BY <2>4, <4>1, <4>2
    <3> QED
      BY <3>1, <3>2
  <2>9. \A y \in Ds : cinfo'[y][2] <= version'[cinfo'[y][1]]
    <3> SUFFICES ASSUME NEW y \in Ds PROVE cinfo[y][2] <= version'[cinfo[y][1]]
      BY <1>3
    <3>1. cinfo[y][2] <= version[cinfo[y][1]]
      BY <1>2 DEF NoticesAreWritten
    <3> QED
      BY <1>1, <2>4, <3>1
  <2>10. ReadersAreUndisturbed'
    BY <1>1, <1>2, <1>3, <2>3, <2>4 DEF ReadersAreUndisturbed
  <2> QED
    BY <1>4, <2>5, <2>7, <2>8, <2>9, <2>10 DEF NoticesAreWritten
<1>9. CASE Channel!Notify(x)
  <2>1. /\ tpc' = [tpc EXCEPT ![x] = "idle"] /\ tpc[x] = "notify"
        /\ log' = Append(log, <<index[x], wrote[x]>>)
        /\ UNCHANGED <<buf, version, index, wrote>>
    BY <1>9 DEF Channel!Notify, Channel!Send, Channel!blockVars
  <2>2. \A w \in Ts : /\ w # x => tpc'[w] = tpc[w]
                      /\ tpc'[x] = "idle"
    BY <1>1, <2>1
  <2>3. BlocksHoldVersion'
    BY <1>2, <2>1, <2>2 DEF BlocksHoldVersion, Channel!Blocks
  <2>4. wrote[x] <= version[index[x]]
    BY <1>2, <2>1 DEF NoticesAreWritten
  <2>5. \A i \in DOMAIN log' : log'[i] = IF i \in DOMAIN log THEN log[i]
                                          ELSE <<index[x], wrote[x]>>
    BY <1>1, <2>1
  <2>6. \A i \in DOMAIN log' : log'[i][2] <= version'[log'[i][1]]
    BY <1>2, <2>1, <2>4, <2>5 DEF NoticesAreWritten
  <2>7. NoticesAreWritten'
    BY <1>2, <1>3, <2>1, <2>2, <2>6 DEF NoticesAreWritten
  <2>8. ReadersAreUndisturbed'
    BY <1>2, <1>3, <2>1 DEF ReadersAreUndisturbed
  <2> QED
    BY <1>4, <2>3, <2>7, <2>8
<1> QED
  BY <1>6, <1>7, <1>8, <1>9 DEF Channel!SendStep

\* A dispatcher changes nothing that others see of the blocks, and what it
\* takes from one is that block's message.
LEMMA ReceiveMessages ==
  ASSUME ChannelInv, NEW y \in Ds, Channel!ReceiveStep(y)
  PROVE  BlocksHoldVersion' /\ NoticesAreWritten' /\ ReadersAreUndisturbed' /\ DeliveredIsCurrent'
<1>1. /\ cinfo[y][1] \in Channel!Blocks /\ cinfo[y][2] \in Nat
      /\ version \in [Channel!Blocks -> Nat]
      /\ dpc \in [Ds -> {"listen", "load", "cas", "read", "reading", "release"}]
      /\ cinfo \in [Ds -> Channel!Blocks \X Nat] /\ lock_num \in [Ds -> Int]
      /\ msg \in [Ds -> Nat \union {Torn}] /\ pos \in [Ds -> Nat]
      /\ delivered \in [Ds -> (Nat \union {Torn}) \X Nat]
      /\ lock_num_[cinfo[y][1]] \in Int
  BY DEF ChannelInv, Channel!TypeOK
<1>2. BlocksHoldVersion /\ NoticesAreWritten /\ ReadersAreUndisturbed
      /\ Channel!DeliveredIsCurrent
  BY DEF ChannelInv, DeliveredIsCurrent
<1>3. UNCHANGED <<buf, version, tpc, index, wrote, log>>
  BY DEF Channel!ReceiveStep, Channel!Listen, Channel!LoadLockNum, Channel!LockForRead,
         Channel!LockForReadFails, Channel!Parse, Channel!Deliver,
         Channel!ReleaseReadBlock, Channel!sendVars, Channel!blockVars
<1>4. BlocksHoldVersion'
  BY <1>2, <1>3 DEF BlocksHoldVersion, Channel!Blocks
\* While y is in its block, the block has its message.
<1>5. ASSUME dpc[y] \in {"read", "reading"}
      PROVE  buf[cinfo[y][1]] = version[cinfo[y][1]] /\ version[cinfo[y][1]] # Torn
             /\ cinfo[y][2] <= version[cinfo[y][1]]
  <2>1. \A w \in Ts : tpc[w] = "serializing" => index[w] # cinfo[y][1]
    BY <1>5, Exclusion DEF Channel!Holding, Channel!block
  <2>2. version[cinfo[y][1]] \in Nat
    BY <1>1
  <2> QED
    BY <1>1, <1>2, <2>1, <2>2, ChannelAssumption DEF BlocksHoldVersion, NoticesAreWritten
<1>6. ASSUME UNCHANGED <<cinfo, delivered>>
      PROVE  NoticesAreWritten' /\ DeliveredIsCurrent'
  BY <1>2, <1>3, <1>6 DEF NoticesAreWritten, DeliveredIsCurrent, Channel!DeliveredIsCurrent
<1>7. CASE Channel!Listen(y)
  <2>1. /\ dpc' = [dpc EXCEPT ![y] = "load"] /\ pos[y] < Len(log)
        /\ cinfo' = [cinfo EXCEPT ![y] = log[pos[y] + 1]]
        /\ UNCHANGED <<lock_num, msg, delivered>>
    BY <1>7 DEF Channel!Listen, Channel!Receive
  <2>2. log \in Seq(Channel!Blocks \X Nat)
    BY DEF ChannelInv, Channel!TypeOK
  <2>3. pos[y] + 1 \in DOMAIN log
    BY <1>1, <2>1, <2>2
  <2>4. log[pos[y] + 1][2] <= version[log[pos[y] + 1][1]]
    BY <1>2, <2>3 DEF NoticesAreWritten
  <2>5. \A z \in Ds : cinfo'[z][2] <= version'[cinfo'[z][1]]
    BY <1>1, <1>2, <1>3, <2>1, <2>4 DEF NoticesAreWritten
  <2>6. NoticesAreWritten'
    BY <1>2, <1>3, <2>5 DEF NoticesAreWritten
  <2>7. ReadersAreUndisturbed'
    BY <1>1, <1>2, <1>3, <2>1 DEF ReadersAreUndisturbed
  <2>8. DeliveredIsCurrent'
    BY <1>2, <2>1 DEF DeliveredIsCurrent, Channel!DeliveredIsCurrent
  <2> QED
    BY <1>4, <2>6, <2>7, <2>8
<1>8. CASE Channel!LoadLockNum(y)
  <2>1. /\ dpc' = [dpc EXCEPT ![y] = IF lock_num_[cinfo[y][1]] < 0 THEN "listen" ELSE "cas"]
        /\ lock_num' = [lock_num EXCEPT ![y] = lock_num_[cinfo[y][1]]]
        /\ UNCHANGED <<cinfo, msg, delivered>>
    BY <1>8 DEF Channel!LoadLockNum, Channel!Receive, Channel!block, Channel!kRWLockFree
  <2>2. ReadersAreUndisturbed'
    BY <1>1, <1>2, <1>3, <2>1 DEF ReadersAreUndisturbed
  <2> QED
    BY <1>4, <1>6, <2>1, <2>2
<1>9. CASE Channel!LockForRead(y) \/ Channel!LockForReadFails(y) \/ Channel!ReleaseReadBlock(y)
  <2>1. /\ dpc' = [dpc EXCEPT ![y] = dpc'[y]] /\ dpc'[y] \notin {"cas", "reading"}
        /\ UNCHANGED <<cinfo, lock_num, msg, delivered>>
    BY <1>1, <1>9
    DEF Channel!LockForRead, Channel!LockForReadFails, Channel!ReleaseReadBlock, Channel!Receive
  <2>2. ReadersAreUndisturbed'
    BY <1>1, <1>2, <1>3, <2>1 DEF ReadersAreUndisturbed
  <2> QED
    BY <1>4, <1>6, <2>1, <2>2
<1>10. CASE Channel!Parse(y)
  <2>1. /\ dpc[y] = "read" /\ dpc' = [dpc EXCEPT ![y] = "reading"]
        /\ msg' = [msg EXCEPT ![y] = buf[cinfo[y][1]]]
        /\ UNCHANGED <<cinfo, lock_num, delivered>>
    BY <1>10 DEF Channel!Parse, Channel!Receive, Channel!block
  <2>2. buf[cinfo[y][1]] = version[cinfo[y][1]]
    BY <1>5, <2>1
  <2>3. ReadersAreUndisturbed'
    BY <1>1, <1>2, <1>3, <2>1, <2>2 DEF ReadersAreUndisturbed
  <2> QED
    BY <1>4, <1>6, <2>1, <2>3
<1>11. CASE Channel!Deliver(y)
  <2>1. /\ dpc[y] = "reading" /\ dpc' = [dpc EXCEPT ![y] = "release"]
        /\ delivered' = [delivered EXCEPT
             ![y] = <<IF buf[cinfo[y][1]] = msg[y] THEN msg[y] ELSE Torn, cinfo[y][2]>>]
        /\ UNCHANGED <<cinfo, lock_num, msg>>
    BY <1>11 DEF Channel!Deliver, Channel!Receive, Channel!block
  <2>2. msg[y] = version[cinfo[y][1]] /\ buf[cinfo[y][1]] = msg[y] /\ msg[y] # Torn
        /\ msg[y] \in Nat /\ msg[y] >= cinfo[y][2]
    BY <1>1, <1>2, <1>5, <2>1 DEF ReadersAreUndisturbed
  <2>3. delivered' = [delivered EXCEPT ![y] = <<msg[y], cinfo[y][2]>>]
    BY <2>1, <2>2
  <2>4. DeliveredIsCurrent'
    BY <1>1, <1>2, <2>2, <2>3 DEF DeliveredIsCurrent, Channel!DeliveredIsCurrent
  <2>5. NoticesAreWritten'
    BY <1>2, <1>3, <2>1 DEF NoticesAreWritten
  <2>6. ReadersAreUndisturbed'
    BY <1>1, <1>2, <1>3, <2>1 DEF ReadersAreUndisturbed
  <2> QED
    BY <1>4, <2>4, <2>5, <2>6
<1> QED
  BY <1>7, <1>8, <1>9, <1>10, <1>11 DEF Channel!ReceiveStep

-----------------------------------------------------------------------------
(* The invariant.                                                          *)

\* A process that dies leaves everything as it is.
LEMMA DieChannel ==
  ASSUME ChannelInv, UNCHANGED channelVars, dead' \subseteq Ts \union Ds
  PROVE  ChannelInv'
<1>1. UNCHANGED channelVars
  OBVIOUS
<1>2. Channel!TypeOK'
  BY <1>1 DEF ChannelInv, Channel!TypeOK, channelVars, Channel!Processes
<1>3. \A b \in Channel!Blocks : /\ Channel!WritersOf(b)' = Channel!WritersOf(b)
                                /\ Channel!ReadersOf(b)' = Channel!ReadersOf(b)
  BY <1>1 DEF Channel!WritersOf, Channel!ReadersOf, Channel!block, channelVars
<1>4. Channel!LocksAgree' /\ ReadersFinite'
  BY <1>1, <1>3, FrameLocks DEF channelVars
<1>5. BlocksHoldVersion' /\ NoticesAreWritten' /\ ReadersAreUndisturbed' /\ DeliveredIsCurrent'
  BY <1>1 DEF ChannelInv, BlocksHoldVersion, NoticesAreWritten, ReadersAreUndisturbed,
              DeliveredIsCurrent, Channel!DeliveredIsCurrent, Channel!Blocks, channelVars
<1> QED
  BY <1>2, <1>4, <1>5 DEF ChannelInv

LEMMA NextChannel == ChannelInv /\ [MCNext]_mcVars => ChannelInv'
<1> SUFFICES ASSUME ChannelInv, [MCNext]_mcVars PROVE ChannelInv'
  OBVIOUS
<1>0. dead \subseteq Ts \union Ds
  BY DEF ChannelInv, Channel!TypeOK, Channel!Processes
<1>1. CASE UNCHANGED <<channelVars, dead>>
  BY <1>0, <1>1, DieChannel
<1>2. ASSUME NEW x \in Ts, Channel!Transmit(x) \/ Channel!SendStep(x) PROVE ChannelInv'
  BY <1>2, SendTypes, SendLocks, SendMessages DEF ChannelInv
<1>3. ASSUME NEW y \in Ds, Channel!ReceiveStep(y) PROVE ChannelInv'
  BY <1>3, ReceiveTypes, ReceiveLocks, ReceiveMessages DEF ChannelInv
<1>4. CASE ChannelNext
  <2>1. Senders \subseteq Ts /\ Receivers \subseteq Ds
    BY ChannelAssumption DEF Senders, Receivers
  <2>2. ASSUME NEW p \in Ts \union Ds, Channel!Die(p) PROVE ChannelInv'
    <3>1. UNCHANGED channelVars /\ dead' = dead \union {p}
      BY <2>2
      DEF Channel!Die, channelVars, Channel!blockVars, Channel!sendVars, Channel!recvVars
    <3> QED
      BY <1>0, <3>1, DieChannel
  <2> QED
    BY <1>2, <1>3, <1>4, <2>1, <2>2 DEF ChannelNext
<1>5. ChannelNext \/ UNCHANGED <<channelVars, dead>>
  BY DEF MCNext, mcVars, channelAll, channelVars
<1> QED
  BY <1>1, <1>4, <1>5

\* However many transmitters, dispatchers and blocks there are, whoever
\* dies: lock_num_ says who is inside (Block::TryLockForWrite and
\* TryLockForRead), nobody reads a block that is being written, and nobody is
\* notified before the message is written.
THEOREM ChannelInvariant == MCSpec => []ChannelInv
<1>1. MCInit => ChannelInv
  BY InitChannel DEF MCInit
<1> QED
  BY <1>1, NextChannel, PTL DEF MCSpec

\* Hence a listener gets whole messages, never older than the notification
\* it was sent (ShmDispatcher::ReadMessage).
THEOREM DeliverySafety == MCSpec => []DeliveredIsCurrent
<1>1. ChannelInv => DeliveredIsCurrent
  BY DEF ChannelInv
<1> QED
  BY <1>1, ChannelInvariant, PTL

-----------------------------------------------------------------------------
(* ConditionNotifier.                                                      *)

\* What the ring needs: it has been used before (an entry of a new ring
\* passes for the written number 0), and nobody is so far behind that an
\* entry in use is claimed again.
RingIsKept == FirstSeq > 0 /\ MaxLag <= kBufLength

\* Notification number s.
SentAt(s) == sent[(s - FirstSeq) + 1]

\* The history: what was claimed, by whom.
ClaimsAreSent ==
  /\ next_seq = FirstSeq + Len(sent)
  /\ \A n \in Notifiers : npc[n] # "idle" => ninfo[n] \in Infos
  /\ \A n \in Notifiers : npc[n] \in Storing =>
       /\ nseq[n] >= FirstSeq /\ nseq[n] < next_seq /\ next_seq - nseq[n] <= kBufLength
       /\ SentAt(nseq[n]) = ninfo[n]
  /\ \A m, n \in Notifiers :
       npc[m] \in Storing /\ npc[n] \in Storing /\ nseq[m] = nseq[n] => m = n
  /\ \A n \in Notifiers : npc[n] = "publish" => infos[Index(nseq[n])] = ninfo[n]

\* The last kBufLength entries: a number is stored after its notification.
EntriesAreSent ==
  /\ \A i \in 0 .. kBufLength - 1 : seqs[i] < next_seq
  /\ \A s \in FirstSeq .. next_seq - 1 : next_seq - s <= kBufLength =>
       \/ Writing(s) /\ seqs[Index(s)] # s
       \/ ~Writing(s) /\ seqs[Index(s)] = s /\ infos[Index(s)] = SentAt(s)

\* What a listener reads is among them, and written when it copies it.
ListenersKeepUp ==
  \A l \in Listeners :
    /\ next_seq_[l] >= FirstSeq /\ next_seq_[l] <= next_seq
    /\ lpc[l] # "new" => next_seq - next_seq_[l] <= kBufLength
    /\ lpc[l] \in {"check", "copy", "copying"} => next_seq_[l] < next_seq
    /\ lpc[l] \in {"copy", "copying"} => ~Writing(next_seq_[l])
    /\ lpc[l] = "copying" => info[l] = SentAt(next_seq_[l])

RingInv == TypeOK /\ ClaimsAreSent /\ EntriesAreSent /\ ListenersKeepUp

LEMMA IndexInRange ==
  \A s \in Nat : Index(s) \in 0 .. kBufLength - 1
BY DivMod, NotifierAssumption DEF Index

\* Two numbers less than kBufLength apart have entries of their own.
LEMMA IndexDistinct ==
  ASSUME NEW r \in Nat, NEW s \in Nat, r # s, r - s < kBufLength, s - r < kBufLength
  PROVE  Index(r) # Index(s)
<1>1. CASE r < s
  BY <1>1, ModDistinct, NotifierAssumption DEF Index
<1>2. CASE s < r
  BY <1>2, ModDistinct, NotifierAssumption DEF Index
<1> QED
  BY <1>1, <1>2

LEMMA InitRing == RingIsKept /\ Init => RingInv
<1> SUFFICES ASSUME RingIsKept, Init PROVE RingInv
  OBVIOUS
<1> USE NotifierAssumption DEF Init, RingIsKept
<1>1. \A i \in 0 .. kBufLength - 1 : SeqAt(i) \in Nat /\ SeqAt(i) < FirstSeq
  <2> SUFFICES ASSUME NEW i \in 0 .. kBufLength - 1, i < FirstSeq
               PROVE  SeqAt(i) \in Nat /\ SeqAt(i) < FirstSeq
    BY DEF SeqAt
  <2> DEFINE a == FirstSeq - 1 - i
             q == a \div kBufLength
             p == kBufLength * q
  <2>1. a \in Nat
    OBVIOUS
  <2>2. q \in Int /\ a % kBufLength \in 0 .. kBufLength - 1 /\ a = p + (a % kBufLength)
    BY <2>1, DivMod
  <2>3. q >= 0
    <3>1. CASE q <= -1
      <4>1. p <= -kBufLength
        <5> HIDE DEF q
        <5> QED
          BY <2>2, <3>1
      <4> QED
        BY <2>1, <2>2, <4>1
    <3> QED
      BY <2>2, <3>1
  <2>4. p \in Nat
    <3> HIDE DEF q
    <3> QED
      BY <2>2, <2>3
  <2>5. SeqAt(i) = i + p
    BY DEF SeqAt
  <2> HIDE DEF p
  <2> QED
    BY <2>1, <2>2, <2>4, <2>5
<1>2. TypeOK
  <2>1. seqs \in [0 .. kBufLength - 1 -> Nat] /\ infos \in [0 .. kBufLength - 1 -> {NoInfo}]
    BY <1>1
  <2> QED
    BY <2>1 DEF TypeOK
<1>3. ClaimsAreSent
  BY DEF ClaimsAreSent, Storing
<1>4. EntriesAreSent
  BY <1>1 DEF EntriesAreSent
<1>5. ListenersKeepUp
  BY DEF ListenersKeepUp
<1> QED
  BY <1>2, <1>3, <1>4, <1>5 DEF RingInv

\* The steps of Notify() keep the invariant.
LEMMA NotifySteps ==
  ASSUME RingIsKept, RingInv, NEW n \in Notifiers,
         NotifyStep(n) \/ \E i \in Infos : Notify(n, i)
  PROVE  RingInv'
<1>0. kBufLength \in Nat \ {0} /\ FirstSeq \in Nat /\ FirstSeq > 0 /\ MaxLag \in Nat
      /\ MaxLag <= kBufLength
  BY NotifierAssumption DEF RingIsKept
<1>1. /\ next_seq \in Nat
      /\ infos \in [0 .. kBufLength - 1 -> Infos \union {NoInfo, Torn}]
      /\ seqs \in [0 .. kBufLength - 1 -> Nat]
      /\ npc \in [Notifiers -> {"idle", "claim", "store", "storing", "publish"}]
      /\ nseq \in [Notifiers -> Nat]
      /\ ninfo \in [Notifiers -> Infos \union {NoInfo}]
      /\ next_seq_ \in [Listeners -> Nat]
      /\ sent \in Seq(Infos)
  BY DEF RingInv, TypeOK
<1>2. ClaimsAreSent /\ EntriesAreSent /\ ListenersKeepUp
  BY DEF RingInv
<1>3. UNCHANGED <<listenVars, is_shutdown_, heard>>
  BY DEF NotifyStep, Claim, StoreInfo, InfoStored, StoreSeq, Notify
<1>5. CASE \E i \in Infos : Notify(n, i)
  <2>1. PICK i \in Infos : Notify(n, i)
    BY <1>5
  <2>2. /\ npc[n] = "idle" /\ npc' = [npc EXCEPT ![n] = "claim"]
        /\ ninfo' = [ninfo EXCEPT ![n] = i]
        /\ UNCHANGED <<next_seq, infos, seqs, nseq, sent>>
    BY <2>1 DEF Notify, NotifyGo, ringVars
  <2>3. TypeOK'
    BY <1>1, <1>3, <2>2 DEF RingInv, TypeOK, listenVars
  <2>4. \A m \in Notifiers : /\ npc'[m] \in Storing <=> npc[m] \in Storing
                             /\ npc[m] \in Storing => ninfo'[m] = ninfo[m] /\ npc'[m] = npc[m]
                             /\ npc'[m] = "publish" => npc[m] \in Storing
                             /\ m # n => npc'[m] = npc[m] /\ ninfo'[m] = ninfo[m]
    BY <1>1, <2>2 DEF Storing
  <2>5. \A s : Writing(s)' <=> Writing(s)
    BY <2>2, <2>4 DEF Writing
  <2>6. ListenersKeepUp'
    BY <1>2, <1>3, <2>2, <2>5 DEF ListenersKeepUp, SentAt, listenVars
  <2>7. EntriesAreSent'
    BY <1>2, <2>2, <2>5 DEF EntriesAreSent, SentAt, Index
  <2>8. \A m \in Notifiers : npc'[m] # "idle" => ninfo'[m] \in Infos
    BY <1>1, <1>2, <2>2, <2>4 DEF ClaimsAreSent
  <2>9. ClaimsAreSent'
    BY <1>2, <2>2, <2>4, <2>8 DEF ClaimsAreSent, SentAt, Index
  <2> QED
    BY <2>3, <2>6, <2>7, <2>9 DEF RingInv
<1>6. CASE Claim(n)
  <2>1. /\ npc[n] = "claim" /\ npc' = [npc EXCEPT ![n] = "store"]
        /\ nseq' = [nseq EXCEPT ![n] = next_seq] /\ next_seq' = next_seq + 1
        /\ sent' = Append(sent, ninfo[n])
        /\ UNCHANGED <<infos, seqs, ninfo>>
        /\ WithinBounds
    BY <1>6 DEF Claim, NotifyGo
  <2>2. ninfo[n] \in Infos /\ next_seq = FirstSeq + Len(sent)
    BY <1>2, <2>1 DEF ClaimsAreSent
  <2>3. TypeOK'
    <3>1. sent' \in Seq(Infos) /\ next_seq' \in Nat /\ nseq' \in [Notifiers -> Nat]
      BY <1>1, <2>1, <2>2
    <3> QED
      BY <1>1, <1>3, <2>1, <3>1 DEF RingInv, TypeOK, listenVars
  <2>4. PICK N \in Nat : N = next_seq
    BY <1>1
  <2>5. /\ N >= FirstSeq /\ Len(sent) \in Nat /\ N = FirstSeq + Len(sent)
        /\ Len(sent') = Len(sent) + 1
        /\ \A k \in 1 .. Len(sent) : sent'[k] = sent[k]
        /\ sent'[Len(sent) + 1] = ninfo[n]
    BY <1>0, <1>1, <2>1, <2>2, <2>4
  <2>6. \A s \in Nat : s >= FirstSeq /\ s < N => SentAt(s)' = SentAt(s)
    <3> SUFFICES ASSUME NEW s \in Nat, s >= FirstSeq, s < N
                 PROVE  sent'[(s - FirstSeq) + 1] = sent[(s - FirstSeq) + 1]
      BY DEF SentAt
    <3>1. (s - FirstSeq) + 1 \in 1 .. Len(sent)
      BY <1>0, <2>5
    <3> QED
      BY <2>5, <3>1
  <2>7. SentAt(N)' = ninfo[n]
    <3>1. (N - FirstSeq) + 1 = Len(sent) + 1
      BY <1>0, <2>5
    <3> QED
      BY <2>5, <3>1 DEF SentAt
  <2>8. /\ \A m \in Notifiers \ {n} : npc'[m] = npc[m] /\ nseq'[m] = nseq[m]
        /\ npc[n] \notin Storing /\ npc'[n] = "store" /\ nseq'[n] = N
    BY <1>1, <2>1, <2>4 DEF Storing
  <2>9. \A m \in Notifiers : npc[m] \in Storing =>
          nseq[m] \in Nat /\ nseq[m] >= FirstSeq /\ nseq[m] < N /\ N - nseq[m] < kBufLength
    <3> SUFFICES ASSUME NEW m \in Notifiers, npc[m] \in Storing
                 PROVE  /\ nseq[m] \in Nat /\ nseq[m] >= FirstSeq /\ nseq[m] < N
                        /\ N - nseq[m] < kBufLength
      OBVIOUS
    <3>1. nseq[m] \in Nat /\ nseq[m] >= FirstSeq /\ nseq[m] < N
      BY <1>1, <1>2, <2>4 DEF ClaimsAreSent
    <3>2. N - nseq[m] < MaxLag
      BY <2>1, <2>4 DEF WithinBounds
    <3> QED
      BY <1>0, <3>1, <3>2
  <2>10. /\ \A s \in Nat : s # N => (Writing(s)' <=> Writing(s))
         /\ Writing(N)'
    BY <2>8 DEF Writing, Storing
  <2>11. ClaimsAreSent'
    <3>1. next_seq' = FirstSeq + Len(sent')
      BY <1>0, <2>1, <2>4, <2>5
    <3>2. \A m \in Notifiers : npc'[m] # "idle" => ninfo'[m] \in Infos
      BY <1>2, <2>1, <2>2, <2>8 DEF ClaimsAreSent
    <3>3. ASSUME NEW m \in Notifiers, npc'[m] \in Storing
          PROVE  /\ nseq'[m] >= FirstSeq /\ nseq'[m] < next_seq'
                 /\ next_seq' - nseq'[m] <= kBufLength
                 /\ sent'[(nseq'[m] - FirstSeq) + 1] = ninfo'[m]
      <4>1. CASE m = n
        BY <1>0, <2>1, <2>4, <2>5, <2>7, <2>8, <4>1 DEF SentAt
      <4>2. CASE m # n
        <5>1. npc[m] \in Storing /\ nseq'[m] = nseq[m] /\ ninfo'[m] = ninfo[m]
          BY <2>1, <2>8, <3>3, <4>2
        <5>2. SentAt(nseq[m]) = ninfo[m]
          BY <1>2, <5>1 DEF ClaimsAreSent
        <5>3. sent'[(nseq[m] - FirstSeq) + 1] = sent[(nseq[m] - FirstSeq) + 1]
          BY <1>1, <2>6, <2>9, <5>1 DEF SentAt
        <5>4. sent'[(nseq'[m] - FirstSeq) + 1] = ninfo'[m]
          BY <5>1, <5>2, <5>3 DEF SentAt
        <5>5. nseq[m] \in Nat /\ nseq[m] >= FirstSeq /\ nseq[m] < N /\ N - nseq[m] < kBufLength
          BY <2>9, <5>1
        <5>6. next_seq' = N + 1
          BY <2>1, <2>4
        <5>7. /\ nseq'[m] >= FirstSeq /\ nseq'[m] < next_seq'
              /\ next_seq' - nseq'[m] <= kBufLength
          <6>1. PICK q \in Nat : q = nseq[m]
            BY <5>5
          <6> QED
            BY <1>0, <5>1, <5>5, <5>6, <6>1
        <5> QED
          BY <5>4, <5>7
      <4> QED
        BY <4>1, <4>2
    <3>4. ASSUME NEW m \in Notifiers, NEW k \in Notifiers, npc'[m] \in Storing,
                 npc'[k] \in Storing, nseq'[m] = nseq'[k]
          PROVE  m = k
      <4>1. m # n => npc[m] \in Storing /\ nseq'[m] # N
        BY <2>8, <2>9, <3>4
      <4>2. k # n => npc[k] \in Storing /\ nseq'[k] # N
        BY <2>8, <2>9, <3>4
      <4> QED
        BY <1>2, <2>8, <3>4, <4>1, <4>2 DEF ClaimsAreSent
    <3>5. \A m \in Notifiers : npc'[m] = "publish" => infos'[Index(nseq'[m])] = ninfo'[m]
      BY <1>2, <2>1, <2>8 DEF ClaimsAreSent
    <3> QED
      BY <3>1, <3>2, <3>3, <3>4, <3>5 DEF ClaimsAreSent, SentAt, Index
  <2>12. EntriesAreSent'
    <3>1. \A i \in 0 .. kBufLength - 1 : seqs'[i] < next_seq'
      <4> SUFFICES ASSUME NEW i \in 0 .. kBufLength - 1 PROVE seqs[i] < next_seq + 1
        BY <2>1
      <4>1. seqs[i] \in Nat
        BY <1>1
      <4>2. seqs[i] < next_seq
        BY <1>2 DEF EntriesAreSent
      <4> QED
        BY <1>1, <4>1, <4>2
    <3>2. ASSUME NEW s \in FirstSeq .. next_seq' - 1, next_seq' - s <= kBufLength
          PROVE  \/ Writing(s)' /\ seqs'[Index(s)] # s
                 \/ ~Writing(s)' /\ seqs'[Index(s)] = s /\ infos'[Index(s)] = SentAt(s)'
      <4>0. s \in Nat
        BY <1>0
      <4>1. CASE s = N
        <5>1. seqs[Index(N)] < N
          BY <1>2, <2>4, IndexInRange DEF EntriesAreSent
        <5> QED
          BY <2>1, <2>10, <4>1, <5>1
      <4>2. CASE s # N
        <5>1. s \in FirstSeq .. next_seq - 1 /\ next_seq - s <= kBufLength /\ s < N
              /\ s >= FirstSeq
          BY <1>0, <1>1, <2>1, <2>4, <3>2, <4>2
        <5>2. \/ Writing(s) /\ seqs[Index(s)] # s
              \/ ~Writing(s) /\ seqs[Index(s)] = s /\ infos[Index(s)] = SentAt(s)
          BY <1>2, <5>1 DEF EntriesAreSent
        <5> QED
          BY <2>1, <2>6, <2>10, <4>0, <4>2, <5>1, <5>2
      <4> QED
        BY <4>1, <4>2
    <3> QED
      BY <3>1, <3>2 DEF EntriesAreSent, Index
  <2>13. ListenersKeepUp'
    <3> SUFFICES ASSUME NEW l \in Listeners
                 PROVE  /\ next_seq_[l] >= FirstSeq /\ next_seq_[l] <= next_seq'
                        /\ lpc[l] # "new" => next_seq' - next_seq_[l] <= kBufLength
                        /\ lpc[l] \in {"check", "copy", "copying"} => next_seq_[l] < next_seq'
                        /\ lpc[l] \in {"copy", "copying"} => ~Writing(next_seq_[l])'
                        /\ lpc[l] = "copying" => info[l] = SentAt(next_seq_[l])'
      BY <1>3 DEF ListenersKeepUp, listenVars, SentAt, Writing
    <3>1. next_seq_[l] \in Nat /\ next_seq_[l] >= FirstSeq /\ next_seq_[l] <= N
      BY <1>1, <1>2, <2>4 DEF ListenersKeepUp
    <3>2. lpc[l] # "new" => N - next_seq_[l] < MaxLag
      BY <2>1, <2>4 DEF WithinBounds
    <3>3. PICK s \in Nat : s = next_seq_[l]
      BY <3>1
    <3>4. /\ lpc[l] \in {"check", "copy", "copying"} => s < N
          /\ lpc[l] \in {"copy", "copying"} => ~Writing(s)
          /\ lpc[l] = "copying" => info[l] = SentAt(s)
      BY <1>2, <2>4, <3>3 DEF ListenersKeepUp
    <3>5. UNCHANGED next_seq_
      BY <1>3 DEF listenVars
    <3>6. /\ lpc[l] \in {"copy", "copying"} => ~Writing(s)'
          /\ lpc[l] = "copying" => info[l] = SentAt(s)'
      BY <2>6, <2>10, <3>1, <3>3, <3>4
    <3> QED
      BY <1>0, <2>1, <2>4, <3>1, <3>2, <3>3, <3>4, <3>5, <3>6
  <2> QED
    BY <2>3, <2>11, <2>12, <2>13 DEF RingInv
\* The steps between fetch_add and the store of the number touch only the
\* entry that n claimed.
<1>7. ASSUME npc[n] \in Storing
      PROVE  /\ nseq[n] \in Nat /\ Index(nseq[n]) \in 0 .. kBufLength - 1
             /\ nseq[n] >= FirstSeq /\ nseq[n] < next_seq /\ next_seq - nseq[n] <= kBufLength
             /\ ninfo[n] = SentAt(nseq[n]) /\ ninfo[n] \in Infos /\ Writing(nseq[n])
             /\ \A s \in Nat : /\ s >= FirstSeq /\ s < next_seq /\ next_seq - s <= kBufLength
                               /\ s # nseq[n]
                               => Index(s) # Index(nseq[n])
             /\ \A m \in Notifiers \ {n} : npc[m] \in Storing =>
                  nseq[m] \in Nat /\ nseq[m] # nseq[n] /\ Index(nseq[m]) # Index(nseq[n])
  <2>1. nseq[n] \in Nat /\ Index(nseq[n]) \in 0 .. kBufLength - 1
    BY <1>1, IndexInRange
  <2>2. /\ nseq[n] >= FirstSeq /\ nseq[n] < next_seq /\ next_seq - nseq[n] <= kBufLength
        /\ ninfo[n] = SentAt(nseq[n]) /\ ninfo[n] \in Infos
    BY <1>2, <1>7 DEF ClaimsAreSent, Storing
  <2>3. Writing(nseq[n])
    BY <1>7 DEF Writing
  <2>4. ASSUME NEW s \in Nat, s >= FirstSeq, s < next_seq, next_seq - s <= kBufLength,
               s # nseq[n]
        PROVE  Index(s) # Index(nseq[n])
    <3>1. PICK q \in Nat : q = nseq[n]
      BY <2>1
    <3>2. s - q < kBufLength /\ q - s < kBufLength /\ s # q
      BY <1>0, <1>1, <2>2, <2>4, <3>1
    <3> QED
      BY <3>1, <3>2, IndexDistinct
  <2>5. ASSUME NEW m \in Notifiers \ {n}, npc[m] \in Storing
        PROVE  nseq[m] \in Nat /\ nseq[m] # nseq[n] /\ Index(nseq[m]) # Index(nseq[n])
    <3>1. /\ nseq[m] \in Nat /\ nseq[m] # nseq[n] /\ nseq[m] >= FirstSeq /\ nseq[m] < next_seq
          /\ next_seq - nseq[m] <= kBufLength
      BY <1>1, <1>2, <1>7, <2>5 DEF ClaimsAreSent
    <3> QED
      BY <2>4, <3>1
  <2> QED
    BY <2>1, <2>2, <2>3, <2>4, <2>5
<1>8. ASSUME npc[n] \in {"store", "storing"}, npc' = [npc EXCEPT ![n] = npc'[n]],
             npc'[n] \in Storing, UNCHANGED <<next_seq, seqs, nseq, ninfo, sent>>,
             NEW v \in Infos \union {NoInfo, Torn},
             infos' = [infos EXCEPT ![Index(nseq[n])] = v],
             npc'[n] = "publish" => v = ninfo[n]
      PROVE  RingInv'
  <2>1. npc[n] \in Storing
    BY <1>8 DEF Storing
  <2>2. \A s : Writing(s)' <=> Writing(s)
    BY <1>1, <1>8, <2>1 DEF Writing
  <2>3. TypeOK'
    BY <1>1, <1>3, <1>7, <1>8, <2>1 DEF RingInv, TypeOK, listenVars, Storing
  <2>4. ListenersKeepUp'
    BY <1>2, <1>3, <1>8, <2>2 DEF ListenersKeepUp, SentAt, listenVars
  <2>5. ClaimsAreSent'
    <3>1. \A m \in Notifiers : /\ npc'[m] \in Storing <=> npc[m] \in Storing
                               /\ m # n => npc'[m] = npc[m]
      BY <1>1, <1>8, <2>1
    <3>2. ASSUME NEW m \in Notifiers, npc'[m] = "publish"
          PROVE  infos'[Index(nseq[m])] = ninfo[m]
      <4>1. CASE m = n
        BY <1>1, <1>7, <1>8, <2>1, <3>2, <4>1
      <4>2. CASE m # n
        <5>1. npc[m] = "publish" /\ npc[m] \in Storing
          BY <3>1, <3>2, <4>2 DEF Storing
        <5>2. infos[Index(nseq[m])] = ninfo[m] /\ Index(nseq[m]) # Index(nseq[n])
              /\ Index(nseq[m]) \in 0 .. kBufLength - 1
          BY <1>2, <1>7, <2>1, <4>2, <5>1, IndexInRange DEF ClaimsAreSent
        <5> QED
          BY <1>1, <1>8, <5>2
      <4> QED
        BY <4>1, <4>2
    <3>3. \A m \in Notifiers : npc'[m] # "idle" => ninfo[m] \in Infos
      BY <1>2, <1>7, <1>8, <2>1, <3>1 DEF ClaimsAreSent
    <3> QED
      BY <1>2, <1>8, <3>1, <3>2, <3>3 DEF ClaimsAreSent, SentAt, Index
  <2>6. EntriesAreSent'
    <3> SUFFICES ASSUME NEW s \in FirstSeq .. next_seq - 1, next_seq - s <= kBufLength
                 PROVE  \/ Writing(s)' /\ seqs[Index(s)] # s
                        \/ ~Writing(s)' /\ seqs[Index(s)] = s /\ infos'[Index(s)] = SentAt(s)'
      BY <1>2, <1>8 DEF EntriesAreSent, Index
    <3>1. \/ Writing(s) /\ seqs[Index(s)] # s
          \/ ~Writing(s) /\ seqs[Index(s)] = s /\ infos[Index(s)] = SentAt(s)
      BY <1>2 DEF EntriesAreSent
    <3>2. SentAt(s)' = SentAt(s)
      BY <1>8 DEF SentAt
    <3>3. CASE Writing(s)
      BY <2>2, <3>1, <3>3
    <3>4. CASE ~Writing(s)
      <4>1. s \in Nat /\ s >= FirstSeq /\ s < next_seq /\ s # nseq[n]
        BY <1>0, <1>1, <1>7, <2>1, <3>4
      <4>2. Index(s) # Index(nseq[n]) /\ Index(s) \in 0 .. kBufLength - 1
        BY <1>7, <2>1, <4>1, IndexInRange
      <4> QED
        BY <1>1, <1>8, <2>2, <3>1, <3>2, <3>4, <4>2
    <3> QED
      BY <3>3, <3>4
  <2> QED
    BY <2>3, <2>4, <2>5, <2>6 DEF RingInv
<1>9. CASE StoreInfo(n)
  <2>1. /\ npc[n] = "store" /\ npc' = [npc EXCEPT ![n] = "storing"]
        /\ infos' = [infos EXCEPT ![Index(nseq[n])] = Torn]
        /\ UNCHANGED <<next_seq, seqs, nseq, ninfo, sent>>
    BY <1>9 DEF StoreInfo, NotifyGo
  <2>2. npc'[n] = "storing"
    BY <1>1, <2>1
  <2> QED
    BY <1>8, <2>1, <2>2 DEF Storing
<1>10. CASE InfoStored(n)
  <2>1. /\ npc[n] = "storing" /\ npc' = [npc EXCEPT ![n] = "publish"]
        /\ infos' = [infos EXCEPT ![Index(nseq[n])] = ninfo[n]]
        /\ UNCHANGED <<next_seq, seqs, nseq, ninfo, sent>>
    BY <1>10 DEF InfoStored, NotifyGo
  <2>2. npc'[n] = "publish" /\ ninfo[n] \in Infos \union {NoInfo, Torn}
    BY <1>1, <2>1
  <2> QED
    BY <1>8, <2>1, <2>2 DEF Storing
<1>11. CASE StoreSeq(n)
  <2>1. /\ npc[n] = "publish" /\ npc' = [npc EXCEPT ![n] = "idle"]
        /\ seqs' = [seqs EXCEPT ![Index(nseq[n])] = nseq[n]]
        /\ UNCHANGED <<next_seq, infos, nseq, ninfo, sent>>
    BY <1>11 DEF StoreSeq, NotifyGo
  <2>2. npc[n] \in Storing
    BY <2>1 DEF Storing
  <2>3. PICK r \in Nat : r = nseq[n]
    BY <1>1
  <2>4. /\ \A s : s # r => (Writing(s)' <=> Writing(s))
        /\ ~Writing(r)'
    <3>1. \A m \in Notifiers \ {n} : npc'[m] = npc[m]
      BY <1>1, <2>1
    <3>2. npc'[n] = "idle"
      BY <1>1, <2>1
    <3>3. \A m \in Notifiers \ {n} : npc[m] \in Storing => nseq[m] # r
      BY <1>7, <2>2, <2>3
    <3> QED
      BY <2>1, <2>2, <2>3, <3>1, <3>2, <3>3 DEF Writing, Storing
  <2>5. TypeOK'
    BY <1>1, <1>3, <1>7, <2>1, <2>2 DEF RingInv, TypeOK, listenVars
  <2>6. ListenersKeepUp'
    <3>1. \A s : Writing(s)' => Writing(s)
      BY <2>4
    <3> QED
      BY <1>2, <1>3, <2>1, <3>1 DEF ListenersKeepUp, SentAt, listenVars
  <2>7. ClaimsAreSent'
    <3>1. \A m \in Notifiers : /\ npc'[m] \in Storing => npc[m] \in Storing
                               /\ npc'[m] # "idle" => npc[m] # "idle"
                               /\ npc'[m] = "publish" => npc[m] = "publish"
      BY <1>1, <2>1 DEF Storing
    <3> QED
      BY <1>2, <2>1, <3>1 DEF ClaimsAreSent, SentAt, Index
  <2>8. EntriesAreSent'
    <3>1. \A i \in 0 .. kBufLength - 1 : seqs'[i] < next_seq'
      BY <1>1, <1>2, <1>7, <2>1, <2>2 DEF EntriesAreSent
    <3>2. ASSUME NEW s \in FirstSeq .. next_seq - 1, next_seq - s <= kBufLength
          PROVE  \/ Writing(s)' /\ seqs'[Index(s)] # s
                 \/ ~Writing(s)' /\ seqs'[Index(s)] = s /\ infos[Index(s)] = SentAt(s)
      <4>1. CASE s = r
        <5>1. infos[Index(r)] = ninfo[n] /\ ninfo[n] = SentAt(r)
          BY <1>2, <1>7, <2>1, <2>2, <2>3 DEF ClaimsAreSent
        <5>2. seqs'[Index(r)] = r
          BY <1>1, <1>7, <2>1, <2>2, <2>3
        <5> QED
          BY <2>4, <4>1, <5>1, <5>2
      <4>2. CASE s # r
        <5>1. s \in Nat /\ s >= FirstSeq /\ s < next_seq /\ s # nseq[n]
          BY <1>0, <1>1, <2>3, <4>2
        <5>2. Index(s) # Index(nseq[n]) /\ Index(s) \in 0 .. kBufLength - 1
          BY <1>7, <2>2, <3>2, <5>1, IndexInRange
        <5>3. seqs'[Index(s)] = seqs[Index(s)]
          BY <1>1, <2>1, <5>2
        <5>4. \/ Writing(s) /\ seqs[Index(s)] # s
              \/ ~Writing(s) /\ seqs[Index(s)] = s /\ infos[Index(s)] = SentAt(s)
          BY <1>2, <3>2 DEF EntriesAreSent
        <5> QED
          BY <2>4, <4>2, <5>3, <5>4
      <4> QED
        BY <4>1, <4>2
    <3> QED
      BY <2>1, <3>1, <3>2 DEF EntriesAreSent, SentAt, Index
  <2> QED
    BY <2>5, <2>6, <2>7, <2>8 DEF RingInv
<1> QED
  BY <1>5, <1>6, <1>9, <1>10, <1>11 DEF NotifyStep

\* The steps of a listener, which write nothing to the ring.
LEMMA ListenSteps ==
  ASSUME RingIsKept, RingInv, NEW l \in Listeners,
         ListenStep(l) \/ Construct(l) \/ Listen(l)
  PROVE  RingInv'
<1>0. kBufLength \in Nat \ {0} /\ FirstSeq \in Nat
  BY NotifierAssumption
<1>1. /\ next_seq \in Nat /\ next_seq >= FirstSeq
      /\ infos \in [0 .. kBufLength - 1 -> Infos \union {NoInfo, Torn}]
      /\ lpc \in [Listeners -> {"new", "idle", "loop", "check", "wait", "copy", "copying"}]
      /\ next_seq_ \in [Listeners -> Nat]
      /\ info \in [Listeners -> Infos \union {NoInfo, Torn}]
      /\ sent \in Seq(Infos)
      /\ heard \in [Listeners -> Infos \union {NoInfo}]
      /\ Len(sent) = next_seq - FirstSeq
  BY NotifierAssumption DEF RingInv, TypeOK, ClaimsAreSent
<1>2. ClaimsAreSent /\ EntriesAreSent /\ ListenersKeepUp
  BY DEF RingInv
<1>3. UNCHANGED <<next_seq, infos, seqs, npc, nseq, ninfo, is_shutdown_, sent>>
  BY DEF ListenStep, LoadNextSeq, CheckSeq, Copy, Copied, Wait, Construct, Listen,
         ringVars, notifyVars
<1>4. ClaimsAreSent'
  BY <1>2, <1>3 DEF ClaimsAreSent, SentAt, Index
<1>5. \A s : Writing(s)' = Writing(s)
  BY <1>3 DEF Writing
<1>6. EntriesAreSent'
  BY <1>2, <1>3, <1>5 DEF EntriesAreSent, SentAt, Index
<1>7. SUFFICES TypeOK' /\ ListenersKeepUp'
  BY <1>4, <1>6 DEF RingInv
\* What it reads, and what is there.
<1>8. PICK s \in Nat : s = next_seq_[l] /\ s >= FirstSeq /\ s <= next_seq
  BY <1>1, <1>2 DEF ListenersKeepUp
<1>9. ASSUME s < next_seq, lpc[l] # "new"
      PROVE  /\ SentAt(s) \in Infos /\ infos[Index(s)] \in Infos \union {NoInfo, Torn}
             /\ \/ Writing(s) /\ seqs[Index(s)] # s
                \/ ~Writing(s) /\ seqs[Index(s)] = s /\ infos[Index(s)] = SentAt(s)
  <2>1. (s - FirstSeq) + 1 \in 1 .. Len(sent)
    BY <1>0, <1>1, <1>8, <1>9
  <2>2. next_seq - s <= kBufLength /\ s \in FirstSeq .. next_seq - 1
    BY <1>0, <1>1, <1>2, <1>8, <1>9 DEF ListenersKeepUp
  <2> QED
    <3>1. SentAt(s) \in Infos
      BY <1>1, <2>1 DEF SentAt
    <3>2. infos[Index(s)] \in Infos \union {NoInfo, Torn}
      BY <1>1, IndexInRange
    <3>3. \/ Writing(s) /\ seqs[Index(s)] # s
          \/ ~Writing(s) /\ seqs[Index(s)] = s /\ infos[Index(s)] = SentAt(s)
      BY <1>2, <2>2 DEF EntriesAreSent
    <3> QED
      BY <3>1, <3>2, <3>3
\* All but l itself is as it was.
<1>10. ASSUME NEW p \in {"new", "idle", "loop", "check", "wait", "copy", "copying"},
              lpc' = [lpc EXCEPT ![l] = p],
              NEW v \in Nat, next_seq_' = [next_seq_ EXCEPT ![l] = v],
              NEW i \in Infos \union {NoInfo, Torn}, info' = [info EXCEPT ![l] = i],
              NEW h \in Infos \union {NoInfo}, heard' = [heard EXCEPT ![l] = h],
              v >= FirstSeq, v <= next_seq, p # "new" => next_seq - v <= kBufLength,
              p \in {"check", "copy", "copying"} => v < next_seq,
              p \in {"copy", "copying"} => ~Writing(v),
              p = "copying" => i = SentAt(v)
       PROVE  TypeOK' /\ ListenersKeepUp'
  <2>1. TypeOK'
    BY <1>1, <1>3, <1>10 DEF RingInv, TypeOK
  <2>2. ListenersKeepUp'
    <3> SUFFICES ASSUME NEW k \in Listeners
                 PROVE  /\ next_seq_'[k] >= FirstSeq /\ next_seq_'[k] <= next_seq
                        /\ lpc'[k] # "new" => next_seq - next_seq_'[k] <= kBufLength
                        /\ lpc'[k] \in {"check", "copy", "copying"} => next_seq_'[k] < next_seq
                        /\ lpc'[k] \in {"copy", "copying"} => ~Writing(next_seq_'[k])
                        /\ lpc'[k] = "copying" => info'[k] = SentAt(next_seq_'[k])
      BY <1>3, <1>5 DEF ListenersKeepUp, SentAt, Writing
    <3>1. CASE k = l
      BY <1>1, <1>10, <3>1
    <3>2. CASE k # l
      <4>1. lpc'[k] = lpc[k] /\ next_seq_'[k] = next_seq_[k] /\ info'[k] = info[k]
        BY <1>1, <1>10, <3>2
      <4> QED
        BY <1>2, <4>1 DEF ListenersKeepUp
    <3> QED
      BY <3>1, <3>2
  <2> QED
    BY <2>1, <2>2
<1>11. /\ next_seq_ = [next_seq_ EXCEPT ![l] = s] /\ info = [info EXCEPT ![l] = info[l]]
       /\ heard = [heard EXCEPT ![l] = heard[l]]
       /\ info[l] \in Infos \union {NoInfo, Torn} /\ heard[l] \in Infos \union {NoInfo}
  BY <1>1, <1>8
<1>12. /\ lpc[l] # "new" => next_seq - s <= kBufLength
       /\ lpc[l] \in {"check", "copy", "copying"} => s < next_seq
       /\ lpc[l] \in {"copy", "copying"} => ~Writing(s)
       /\ lpc[l] = "copying" => info[l] = SentAt(s)
  BY <1>2, <1>8 DEF ListenersKeepUp
<1>13. CASE Construct(l)
  <2>1. /\ lpc' = [lpc EXCEPT ![l] = "idle"]
        /\ next_seq_' = [next_seq_ EXCEPT ![l] = next_seq]
        /\ UNCHANGED <<info, heard>>
    BY <1>13 DEF Construct, ListenGo
  <2> QED
    <3>1. PICK N \in Nat : N = next_seq
      BY <1>1
    <3>2. N >= FirstSeq /\ N <= next_seq /\ next_seq - N <= kBufLength
      BY <1>0, <1>1, <3>1
    <3>3. /\ info' = [info EXCEPT ![l] = info[l]] /\ heard' = [heard EXCEPT ![l] = heard[l]]
          /\ next_seq_' = [next_seq_ EXCEPT ![l] = N]
      BY <1>11, <2>1, <3>1
    <3> QED
      BY <1>10, <1>11, <2>1, <3>1, <3>2, <3>3
<1>14. ASSUME NEW p \in {"idle", "loop", "check", "wait", "copy"}, lpc[l] # "new",
              lpc' = [lpc EXCEPT ![l] = p], UNCHANGED <<next_seq_, info, heard>>,
              p \in {"check", "copy"} => s < next_seq,
              p = "copy" => ~Writing(s)
       PROVE  TypeOK' /\ ListenersKeepUp'
  BY <1>8, <1>10, <1>11, <1>12, <1>14
<1>15. CASE Listen(l)
  BY <1>14, <1>15 DEF Listen, ListenGo
<1>16. CASE LoadNextSeq(l)
  <2>1. PICK p \in {"idle", "check", "wait"} :
          /\ lpc' = [lpc EXCEPT ![l] = p] /\ lpc[l] = "loop"
          /\ p = "check" => next_seq # s
          /\ UNCHANGED <<next_seq_, info, heard>>
    BY <1>8, <1>16 DEF LoadNextSeq, ListenGo
  <2> QED
    <3>1. p = "check" => s < next_seq
      BY <1>1, <1>8, <2>1
    <3>2. p \in {"idle", "loop", "check", "wait", "copy"} /\ p # "copy" /\ lpc[l] # "new"
      BY <2>1
    <3> QED
      BY <1>14, <2>1, <3>1, <3>2
<1>17. CASE CheckSeq(l)
  <2>1. PICK p \in {"copy", "wait"} :
          /\ lpc' = [lpc EXCEPT ![l] = p] /\ lpc[l] = "check"
          /\ p = "copy" => seqs[Index(s)] = s
          /\ UNCHANGED <<next_seq_, info, heard>>
    BY <1>8, <1>17 DEF CheckSeq, ListenGo
  <2>2. s < next_seq
    BY <1>12, <2>1
  <2>3. p = "copy" => ~Writing(s)
    BY <1>9, <2>1, <2>2
  <2> QED
    BY <1>14, <2>1, <2>2, <2>3
<1>18. CASE Copy(l)
  <2>1. /\ lpc' = [lpc EXCEPT ![l] = "copying"] /\ lpc[l] = "copy"
        /\ info' = [info EXCEPT ![l] = infos[Index(s)]]
        /\ UNCHANGED <<next_seq_, heard>>
    BY <1>8, <1>18 DEF Copy, ListenGo
  <2>2. s < next_seq /\ ~Writing(s) /\ next_seq - s <= kBufLength
    BY <1>12, <2>1
  <2>3. infos[Index(s)] = SentAt(s) /\ infos[Index(s)] \in Infos \union {NoInfo, Torn}
    BY <1>9, <2>1, <2>2
  <2> QED
    BY <1>8, <1>10, <1>11, <2>1, <2>2, <2>3
<1>19. CASE Copied(l)
  <2>1. /\ lpc' = [lpc EXCEPT ![l] = "idle"] /\ lpc[l] = "copying"
        /\ heard' = [heard EXCEPT
             ![l] = IF infos[Index(s)] = info[l] THEN info[l] ELSE Torn]
        /\ next_seq_' = [next_seq_ EXCEPT ![l] = s + 1]
        /\ UNCHANGED info
    BY <1>1, <1>8, <1>19 DEF Copied, ListenGo
  <2>2. s < next_seq /\ ~Writing(s) /\ info[l] = SentAt(s) /\ next_seq - s <= kBufLength
    BY <1>12, <2>1
  <2>3. infos[Index(s)] = info[l] /\ info[l] \in Infos
    BY <1>9, <2>1, <2>2
  <2>4. heard' = [heard EXCEPT ![l] = info[l]]
    BY <2>1, <2>3
  <2>5. s + 1 \in Nat /\ s + 1 >= FirstSeq /\ s + 1 <= next_seq
        /\ next_seq - (s + 1) <= kBufLength
    BY <1>0, <1>1, <1>8, <2>2
  <2> QED
    BY <1>10, <1>11, <2>1, <2>3, <2>4, <2>5
<1>20. CASE Wait(l)
  <2>1. PICK p \in {"loop", "idle"} :
          /\ lpc' = [lpc EXCEPT ![l] = p] /\ lpc[l] = "wait"
          /\ UNCHANGED <<next_seq_, info, heard>>
    BY <1>20 DEF Wait, ListenGo
  <2> QED
    BY <1>14, <2>1
<1> QED
  BY <1>13, <1>15, <1>16, <1>17, <1>18, <1>19, <1>20 DEF ListenStep

\* Shutdown() and the steps of the blocks leave the ring alone.
LEMMA QuietRing ==
  ASSUME RingInv, UNCHANGED <<ringVars, notifyVars, listenVars, sent, heard>>,
         is_shutdown_' \in [Threads -> BOOLEAN]
  PROVE  RingInv'
<1>1. \A s : Writing(s)' = Writing(s)
  BY DEF Writing, notifyVars
<1>2. TypeOK'
  BY DEF RingInv, TypeOK, ringVars, notifyVars, listenVars
<1>3. ClaimsAreSent'
  BY DEF RingInv, ClaimsAreSent, SentAt, Index, ringVars, notifyVars
<1>4. EntriesAreSent'
  BY <1>1 DEF RingInv, EntriesAreSent, SentAt, Index, ringVars
<1>5. ListenersKeepUp'
  BY <1>1 DEF RingInv, ListenersKeepUp, SentAt, ringVars, listenVars
<1> QED
  BY <1>2, <1>3, <1>4, <1>5 DEF RingInv

LEMMA NextRing == RingIsKept /\ RingInv /\ [MCNext]_mcVars => RingInv'
<1> SUFFICES ASSUME RingIsKept, RingInv, [MCNext]_mcVars PROVE RingInv'
  OBVIOUS
<1>1. is_shutdown_ \in [Threads -> BOOLEAN]
  BY DEF RingInv, TypeOK
<1>2. CASE UNCHANGED vars
  BY <1>1, <1>2, QuietRing DEF vars
<1>3. CASE Next
  <2>1. ASSUME NEW x \in Threads, Shutdown(x) PROVE RingInv'
    BY <1>1, <2>1, QuietRing DEF Shutdown
  <2> QED
    BY <1>3, <2>1, NotifySteps, ListenSteps DEF Next
<1> QED
  BY <1>2, <1>3 DEF MCNext, mcVars, ringAll

\* However many notifiers and listeners there are and however long the ring
\* is: on a ring that was used before and that nobody laps, the number in an
\* entry says whether its notification is there (ConditionNotifier::Notify
\* and Listen).
THEOREM RingInvariant ==
  ASSUME RingIsKept
  PROVE  MCSpec => []RingInv
<1>1. MCInit => RingInv
  BY InitRing DEF MCInit
<1>2. RingInv /\ [MCNext]_mcVars => RingInv'
  BY NextRing
<1> QED
  BY <1>1, <1>2, PTL DEF MCSpec

\* Hence a number that does not match is one still to be stored, one that
\* does is of a complete entry, and lock_num_ of the blocks is right.
THEOREM ShmSafety ==
  ASSUME RingIsKept
  PROVE  MCSpec => []ShmIsSound
<1>1. RingInv => MismatchIsWriting /\ ReadableIsWritten
  <2> SUFFICES ASSUME RingInv, NEW l \in Listeners, Behind(l)
               PROVE  \/ Writing(next_seq_[l]) /\ seqs[Index(next_seq_[l])] # next_seq_[l]
                      \/ ~Writing(next_seq_[l]) /\ seqs[Index(next_seq_[l])] = next_seq_[l]
    BY DEF MismatchIsWriting, ReadableIsWritten
  <2>1. /\ next_seq \in Nat /\ next_seq_[l] \in Nat /\ next_seq_[l] >= FirstSeq
        /\ next_seq_[l] <= next_seq /\ next_seq - next_seq_[l] <= kBufLength
        /\ next_seq_[l] # next_seq
    BY DEF RingInv, TypeOK, ListenersKeepUp, Behind
  <2>2. next_seq_[l] \in FirstSeq .. next_seq - 1
    BY <2>1, NotifierAssumption
  <2> QED
    BY <2>1, <2>2 DEF RingInv, EntriesAreSent
<1>2. RingInv /\ ChannelInv => ShmIsSound
  BY <1>1 DEF RingInv, ChannelInv, ShmIsSound
<1> QED
  BY <1>2, RingInvariant, ChannelInvariant, PTL

-----------------------------------------------------------------------------
(* The ring implements BroadcastLog.                                       *)

\* fetch_add appends to the log, the constructor joins, the end of the copy
\* reads; every other step is internal.
LEMMA InitLog == MCInit => Log!Init
BY NotifierAssumption DEF MCInit, Init, Log!Init

LEMMA StepLog ==
  ASSUME RingIsKept, RingInv, RingInv', [MCNext]_mcVars
  PROVE  [Log!Next]_(Log!vars)
<1> USE DEF Log!vars
<1>1. /\ next_seq_ \in [Listeners -> Nat] /\ FirstSeq \in Nat /\ next_seq \in Nat
      /\ heard \in [Listeners -> Infos \union {NoInfo}]
  BY NotifierAssumption DEF RingInv, TypeOK
<1>2. CASE UNCHANGED <<sent, next_seq_, heard>>
  BY <1>2
<1>3. ASSUME NEW n \in Notifiers, Claim(n) PROVE Log!Next
  <2>1. /\ npc[n] = "claim" /\ sent' = Append(sent, ninfo[n])
        /\ UNCHANGED <<next_seq_, heard>>
    BY <1>3 DEF Claim, NotifyGo, listenVars
  <2>2. ninfo[n] \in Infos
    BY <2>1 DEF RingInv, ClaimsAreSent
  <2> QED
    BY <2>1, <2>2 DEF Log!Next, Log!Notify
<1>4. ASSUME NEW l \in Listeners, Construct(l) PROVE Log!Next
  <2>1. /\ next_seq_' = [next_seq_ EXCEPT ![l] = next_seq] /\ UNCHANGED <<sent, heard>>
    BY <1>4 DEF Construct
  <2>2. next_seq - FirstSeq = Len(sent)
    BY <1>1 DEF RingInv, TypeOK, ClaimsAreSent
  <2>3. [k \in Listeners |-> next_seq_'[k] - FirstSeq]
          = [[k \in Listeners |-> next_seq_[k] - FirstSeq] EXCEPT ![l] = Len(sent)]
    BY <1>1, <2>1, <2>2
  <2> QED
    BY <2>1, <2>3 DEF Log!Next, Log!Join
<1>5. ASSUME NEW l \in Listeners, Copied(l) PROVE Log!Next
  <2> DEFINE p == next_seq_[l] - FirstSeq
  <2>1. /\ lpc[l] = "copying" /\ next_seq_' = [next_seq_ EXCEPT ![l] = @ + 1]
        /\ heard' = [heard EXCEPT
             ![l] = IF infos[Index(next_seq_[l])] = info[l] THEN info[l] ELSE Torn]
        /\ UNCHANGED sent
    BY <1>5 DEF Copied, ListenGo
  <2>2. /\ next_seq_[l] \in Nat /\ next_seq_[l] >= FirstSeq /\ next_seq_[l] < next_seq
        /\ info[l] = SentAt(next_seq_[l])
    BY <1>1, <2>1 DEF RingInv, ListenersKeepUp
  <2>3. next_seq - FirstSeq = Len(sent)
    BY <1>1 DEF RingInv, TypeOK, ClaimsAreSent
  <2>4. p \in Nat /\ p < Len(sent) /\ info[l] = sent[p + 1]
    BY <1>1, <2>2, <2>3 DEF SentAt
  <2>5. heard'[l] # Torn
    BY NotifierAssumption DEF RingInv, TypeOK
  <2>6. heard' = [heard EXCEPT ![l] = info[l]]
    BY <1>1, <2>1, <2>5
  <2>7. [k \in Listeners |-> next_seq_'[k] - FirstSeq]
          = [[k \in Listeners |-> next_seq_[k] - FirstSeq] EXCEPT ![l] = @ + 1]
    <3>1. \A k \in Listeners :
            next_seq_'[k] - FirstSeq = IF k = l THEN (next_seq_[k] - FirstSeq) + 1
                                       ELSE next_seq_[k] - FirstSeq
      BY <1>1, <2>1
    <3> QED
      BY <3>1
  <2>8. [k \in Listeners |-> next_seq_[k] - FirstSeq][l] = p
    OBVIOUS
  <2> HIDE DEF p
  <2> QED
    BY <2>1, <2>4, <2>6, <2>7, <2>8 DEF Log!Next, Log!Listen
<1>6. \/ \E n \in Notifiers : Claim(n)
      \/ \E l \in Listeners : Construct(l) \/ Copied(l)
      \/ UNCHANGED <<sent, next_seq_, heard>>
  BY DEF MCNext, mcVars, ringAll, vars, Next, NotifyStep, ListenStep, StoreInfo, InfoStored,
         StoreSeq, Notify, LoadNextSeq, CheckSeq, Copy, Wait, Listen, Shutdown, listenVars
<1> QED
  BY <1>2, <1>3, <1>4, <1>5, <1>6

\* Nothing is missed, repeated, reordered or half-read: the ring is a log that
\* each listener reads from where it joined (NotifierBase as ShmDispatcher
\* uses it).
THEOREM RingImplementsLog ==
  ASSUME RingIsKept
  PROVE  MCSpec => ImplementsLog
<1>1. RingInv /\ RingInv' /\ [MCNext]_mcVars => [Log!Next]_(Log!vars)
  BY StepLog
<1> QED
  BY <1>1, InitLog, RingInvariant, PTL DEF MCSpec, ImplementsLog, Log!Spec
=============================================================================
