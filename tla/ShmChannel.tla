----------------------------- MODULE ShmChannel -----------------------------
(***************************************************************************)
(* One channel over shared memory: ShmTransmitter::Transmit on one side,   *)
(* ShmDispatcher's thread on the other, and between them the blocks of a   *)
(* Segment, each guarded by the counter lock_num_ (transport/shm/block.cc, *)
(* segment.cc).  The processes have the segment open and messages fit its  *)
(* blocks (SegmentLifecycle is about the rest); the notifier is its        *)
(* abstract specification, BroadcastLog.                                   *)
(*                                                                         *)
(* The n-th message written to a block is the number n; buffer, sizes and  *)
(* MessageInfo of a block are one value, Torn while they are assigned.     *)
(* Processes may die at any step; what they hold stays held.               *)
(***************************************************************************)
EXTENDS Integers, Sequences, FiniteSets

CONSTANTS
  Transmitters, Dispatchers,
  BlockNum,            \* conf_.block_num()
  kMaxTryLockTimes,
  Torn,                \* a half-written block, not a number
  MaxMsgs,             \* bound on wrote_num when a Transmit() starts
  MaxDead              \* bound on the processes that die

kRWLockFree == 0
kWriteExclusive == -1
Blocks == 0 .. BlockNum - 1
Processes == Transmitters \union Dispatchers

VARIABLES
  lock_num_, buf,      \* of each block
  version,             \* history: messages written to each block
  wrote_num_,          \* State::wrote_num_
  log, pos,            \* the notifier: (block, version) pairs
  tpc, index, wrote,   \* Transmit(): place, block tried or held, message
  dpc, info, lock_num, try_times, msg,  \* ThreadFunc and what it calls
  delivered,           \* history: message and notification of each delivery
  dead

blockVars == <<lock_num_, buf, version, wrote_num_>>
sendVars == <<tpc, index, wrote>>
recvVars == <<dpc, info, lock_num, try_times, msg>>
vars == <<blockVars, log, pos, sendVars, recvVars, delivered, dead>>

NoNotice == <<0, 0>>

Init ==
  /\ lock_num_ = [b \in Blocks |-> kRWLockFree]
  /\ buf = [b \in Blocks |-> 0]
  /\ version = [b \in Blocks |-> 0]
  /\ wrote_num_ = 0
  /\ log = <<>>
  /\ pos = [d \in Dispatchers |-> 0]
  /\ tpc = [t \in Transmitters |-> "idle"]
  /\ index = [t \in Transmitters |-> 0]
  /\ wrote = [t \in Transmitters |-> 0]
  /\ dpc = [d \in Dispatchers |-> "listen"]
  /\ info = [d \in Dispatchers |-> NoNotice]
  /\ lock_num = [d \in Dispatchers |-> 0]
  /\ try_times = [d \in Dispatchers |-> 0]
  /\ msg = [d \in Dispatchers |-> 0]
  /\ delivered = [d \in Dispatchers |-> NoNotice]
  /\ dead = {}

-----------------------------------------------------------------------------
(* ShmTransmitter::Transmit.                                               *)
Send(t, from, to) ==
  /\ t \notin dead
  /\ tpc[t] = from
  /\ tpc' = [tpc EXCEPT ![t] = to]

\* GetNextWritableBlockIndex() starts from wrote_num ...
Transmit(t) ==
  /\ wrote_num_ < MaxMsgs
  /\ Send(t, "idle", "find")
  /\ index' = [index EXCEPT ![t] = wrote_num_ % BlockNum]
  /\ UNCHANGED <<blockVars, log, pos, wrote, recvVars, delivered, dead>>

\* Fault: a block that is only being read is taken.
FaultyLockForWrite(t) ==
  /\ Send(t, "find", "count")
  /\ lock_num_[index[t]] # kWriteExclusive
  /\ lock_num_' = [lock_num_ EXCEPT ![index[t]] = kWriteExclusive]
  /\ UNCHANGED <<buf, version, wrote_num_, log, pos, index, wrote, recvVars,
                 delivered, dead>>

\* ... takes the first block nobody reads or writes ...
LockForWrite(t) ==
  /\ Send(t, "find", "count")
  /\ lock_num_[index[t]] = kRWLockFree
  /\ lock_num_' = [lock_num_ EXCEPT ![index[t]] = kWriteExclusive]
  /\ UNCHANGED <<buf, version, wrote_num_, log, pos, index, wrote, recvVars,
                 delivered, dead>>

\* (a weak compare-and-swap may pass over a free block, too)
TryNextBlock(t) ==
  /\ Send(t, "find", "find")
  /\ index' = [index EXCEPT ![t] = (@ + 1) % BlockNum]
  /\ UNCHANGED <<blockVars, log, pos, wrote, recvVars, delivered, dead>>

\* ... and counts it.
IncreaseWroteNum(t) ==
  /\ Send(t, "count", "serialize")
  /\ wrote_num_' = wrote_num_ + 1
  /\ UNCHANGED <<lock_num_, buf, version, log, pos, index, wrote, recvVars,
                 delivered, dead>>

\* SerializeToArray() refuses a message before it touches the buffer: the
\* block is released and nobody is notified.
SerializeFails(t) ==
  /\ Send(t, "serialize", "idle")
  /\ lock_num_' = [lock_num_ EXCEPT ![index[t]] = @ + 1]
  /\ UNCHANGED <<buf, version, wrote_num_, log, pos, index, wrote, recvVars,
                 delivered, dead>>

Serialize(t) ==
  /\ Send(t, "serialize", "serializing")
  /\ buf' = [buf EXCEPT ![index[t]] = Torn]
  /\ UNCHANGED <<lock_num_, version, wrote_num_, log, pos, index, wrote, recvVars,
                 delivered, dead>>

Serialized(t) ==
  /\ Send(t, "serializing", "release")
  /\ version' = [version EXCEPT ![index[t]] = @ + 1]
  /\ buf' = [buf EXCEPT ![index[t]] = version[index[t]] + 1]
  /\ wrote' = [wrote EXCEPT ![t] = version[index[t]] + 1]
  /\ UNCHANGED <<lock_num_, wrote_num_, log, pos, index, recvVars, delivered,
                 dead>>

\* Fault: the block is not released.
FaultyReleaseWrittenBlock(t) ==
  /\ Send(t, "release", "notify")
  /\ UNCHANGED <<blockVars, log, pos, index, wrote, recvVars, delivered, dead>>

ReleaseWrittenBlock(t) ==
  /\ Send(t, "release", "notify")
  /\ lock_num_' = [lock_num_ EXCEPT ![index[t]] = @ + 1]
  /\ UNCHANGED <<buf, version, wrote_num_, log, pos, index, wrote, recvVars,
                 delivered, dead>>

\* The notification names the block; the message it is sent for is kept
\* beside it as history.
Notify(t) ==
  /\ Send(t, "notify", "idle")
  /\ log' = Append(log, <<index[t], wrote[t]>>)
  /\ UNCHANGED <<blockVars, pos, index, wrote, recvVars, delivered, dead>>

-----------------------------------------------------------------------------
(* ShmDispatcher::ThreadFunc, ReadMessage and OnMessage.                   *)
Receive(d, from, to) ==
  /\ d \notin dead
  /\ dpc[d] = from
  /\ dpc' = [dpc EXCEPT ![d] = to]

Listen(d) ==
  /\ Receive(d, "listen", "load")
  /\ pos[d] < Len(log)
  /\ pos' = [pos EXCEPT ![d] = @ + 1]
  /\ info' = [info EXCEPT ![d] = log[pos[d] + 1]]
  /\ UNCHANGED <<blockVars, log, sendVars, lock_num, try_times, msg,
                 delivered, dead>>

block(d) == info[d][1]

\* TryLockForRead(): a block that is being written is given up ...
LoadLockNum(d) ==
  /\ Receive(d, "load", IF lock_num_[block(d)] < kRWLockFree THEN "listen"
                        ELSE "cas")
  /\ lock_num' = [lock_num EXCEPT ![d] = lock_num_[block(d)]]
  /\ try_times' = [try_times EXCEPT
                     ![d] = IF lock_num_[block(d)] < kRWLockFree THEN 0 ELSE @]
  /\ UNCHANGED <<blockVars, log, pos, sendVars, info, msg, delivered, dead>>

\* Fault: the counter is added to without comparing it.
FaultyLockForRead(d) ==
  /\ Receive(d, "cas", "read")
  /\ lock_num_' = [lock_num_ EXCEPT ![block(d)] = @ + 1]
  /\ try_times' = [try_times EXCEPT ![d] = 0]
  /\ UNCHANGED <<buf, version, wrote_num_, log, pos, sendVars, info, lock_num,
                 msg, delivered, dead>>

LockForRead(d) ==
  /\ Receive(d, "cas", "read")
  /\ lock_num_[block(d)] = lock_num[d]
  /\ lock_num_' = [lock_num_ EXCEPT ![block(d)] = lock_num[d] + 1]
  /\ try_times' = [try_times EXCEPT ![d] = 0]
  /\ UNCHANGED <<buf, version, wrote_num_, log, pos, sendVars, info, lock_num,
                 msg, delivered, dead>>

\* ... and so is one whose counter keeps changing.
LockForReadFails(d) ==
  /\ Receive(d, "cas", IF try_times[d] + 1 = kMaxTryLockTimes THEN "listen"
                       ELSE "load")
  /\ try_times' = [try_times EXCEPT
                     ![d] = IF @ + 1 = kMaxTryLockTimes THEN 0 ELSE @ + 1]
  /\ UNCHANGED <<blockVars, log, pos, sendVars, info, lock_num, msg,
                 delivered, dead>>

\* The listener's ParseFromArray() reads the block from here ...
Parse(d) ==
  /\ Receive(d, "read", "reading")
  /\ msg' = [msg EXCEPT ![d] = buf[block(d)]]
  /\ UNCHANGED <<blockVars, log, pos, sendVars, info, lock_num, try_times,
                 delivered, dead>>

\* ... to here.
Deliver(d) ==
  /\ Receive(d, "reading", "release")
  /\ delivered' = [delivered EXCEPT
       ![d] = <<IF buf[block(d)] = msg[d] THEN msg[d] ELSE Torn, info[d][2]>>]
  /\ UNCHANGED <<blockVars, log, pos, sendVars, info, lock_num, try_times,
                 msg, dead>>

ReleaseReadBlock(d) ==
  /\ Receive(d, "release", "listen")
  /\ lock_num_' = [lock_num_ EXCEPT ![block(d)] = @ - 1]
  /\ UNCHANGED <<buf, version, wrote_num_, log, pos, sendVars, info, lock_num,
                 try_times, msg, delivered, dead>>

Die(p) ==
  /\ p \notin dead /\ Cardinality(dead) < MaxDead
  /\ dead' = dead \union {p}
  /\ UNCHANGED <<blockVars, log, pos, sendVars, recvVars, delivered>>

SendStep(t) ==
  \/ LockForWrite(t) \/ TryNextBlock(t) \/ IncreaseWroteNum(t)
  \/ SerializeFails(t) \/ Serialize(t) \/ Serialized(t)
  \/ ReleaseWrittenBlock(t) \/ Notify(t)

ReceiveStep(d) ==
  \/ Listen(d) \/ LoadLockNum(d) \/ LockForRead(d) \/ LockForReadFails(d)
  \/ Parse(d) \/ Deliver(d) \/ ReleaseReadBlock(d)

Next ==
  \/ \E t \in Transmitters : Transmit(t) \/ SendStep(t)
  \/ \E d \in Dispatchers : ReceiveStep(d)
  \/ \E p \in Processes : Die(p)

Spec == Init /\ [][Next]_vars

-----------------------------------------------------------------------------
Holding == {"count", "serialize", "serializing", "release"}
WritersOf(b) == {t \in Transmitters : tpc[t] \in Holding /\ index[t] = b}
ReadersOf(b) ==
  {d \in Dispatchers : dpc[d] \in {"read", "reading", "release"} /\ block(d) = b}

TypeOK ==
  /\ lock_num_ \in [Blocks -> Int]
  /\ buf \in [Blocks -> Nat \union {Torn}]
  /\ version \in [Blocks -> Nat]
  /\ wrote_num_ \in Nat
  /\ log \in Seq(Blocks \X Nat)
  /\ pos \in [Dispatchers -> Nat]
  /\ tpc \in [Transmitters -> {"idle", "find", "notify"} \union Holding]
  /\ index \in [Transmitters -> Blocks]
  /\ wrote \in [Transmitters -> Nat]
  /\ dpc \in [Dispatchers -> {"listen", "load", "cas", "read", "reading",
                              "release"}]
  /\ info \in [Dispatchers -> Blocks \X Nat]
  /\ lock_num \in [Dispatchers -> Int]
  /\ try_times \in [Dispatchers -> 0 .. kMaxTryLockTimes - 1]
  /\ msg \in [Dispatchers -> Nat \union {Torn}]
  /\ delivered \in [Dispatchers -> (Nat \union {Torn}) \X Nat]
  /\ dead \subseteq Processes

(***************************************************************************)
(* lock_num_ of every block says who is inside: kWriteExclusive for one    *)
(* writer and no reader, otherwise the number of readers.  A process that  *)
(* died in a block counts: nobody takes the block from it.                 *)
(***************************************************************************)
LocksAgree ==
  \A b \in Blocks :
    \/ WritersOf(b) = {} /\ lock_num_[b] = Cardinality(ReadersOf(b))
    \/ /\ \E t \in Transmitters : WritersOf(b) = {t}
       /\ ReadersOf(b) = {}
       /\ lock_num_[b] = kWriteExclusive

(***************************************************************************)
(* What a listener is given is a whole message, and the one the            *)
(* notification was sent for or a later one in the same block, never an    *)
(* older one: blocks are reused without telling the readers.               *)
(***************************************************************************)
DeliveredIsCurrent ==
  \A d \in Dispatchers :
    delivered[d][1] # Torn /\ delivered[d][1] >= delivered[d][2]

(***************************************************************************)
(* What liveness is about: Transmit() of t is looking for a block, or is   *)
(* over.                                                                   *)
(***************************************************************************)
Searching(t) == tpc[t] = "find"
Returned(t) == t \in dead \/ tpc[t] = "idle"
=============================================================================
