------------------------------- MODULE MC_Shm -------------------------------
(***************************************************************************)
(* The shared memory transport in one run: the ring of ConditionNotifier,  *)
(* whose constants the cfg gives, and ShmChannel, which sees that ring as  *)
(* the log it implements, once with two transmitters ("writing") and once  *)
(* with two dispatchers ("reading"): the others are there but never step.  *)
(* Each behaviour exercises one of the three.                              *)
(***************************************************************************)
EXTENDS ConditionNotifier, FiniteSets

CONSTANTS
  Ts, Ds,   \* transmitters, dispatchers
  t, d,     \* one of each
  BlockNum, kMaxTryLockTimes, MaxMsgs, MaxDead   \* of ShmChannel

ASSUME ChannelAssumption ==
  /\ t \in Ts /\ d \in Ds /\ BlockNum \in Nat \ {0} /\ kMaxTryLockTimes \in Nat \ {0}
  /\ Torn \notin Nat

VARIABLES
  subject,
  lock_num_, buf, version, wrote_num_, log, pos, tpc, index, wrote,
  dpc, cinfo, lock_num, try_times, msg, delivered, dead   \* of ShmChannel

ringAll == vars
channelAll == <<lock_num_, buf, version, wrote_num_, log, pos, tpc, index,
                wrote, dpc, cinfo, lock_num, try_times, msg, delivered, dead>>

Channel == INSTANCE ShmChannel WITH
  info <- cinfo, Transmitters <- Ts, Dispatchers <- Ds

\* Who steps.
Senders == IF subject = "writing" THEN Ts ELSE {t}
Receivers == IF subject = "reading" THEN Ds ELSE {d}

-----------------------------------------------------------------------------
MCInit == Init /\ Channel!Init /\ subject \in {"ring", "writing", "reading"}

ChannelNext ==
  \/ \E x \in Senders : Channel!Transmit(x) \/ Channel!SendStep(x)
  \/ \E x \in Receivers : Channel!ReceiveStep(x)
  \/ \E x \in Senders \union Receivers : Channel!Die(x)

MCNext ==
  \/ subject = "ring" /\ Next /\ UNCHANGED <<channelAll, subject>>
  \/ subject # "ring" /\ ChannelNext /\ UNCHANGED <<ringAll, subject>>

mcVars == <<ringAll, channelAll, subject>>

(***************************************************************************)
(* Fairness.  Notify() and Listen() go on once called and the dispatcher's *)
(* thread calls Listen() again and again; the threads of live processes    *)
(* keep running; and a transmitter that meets free blocks again and again  *)
(* takes one of them in the end: its loop has no bound, and a weak         *)
(* compare-and-swap does not fail for ever.                                *)
(***************************************************************************)
Ring(A) == subject = "ring" /\ A /\ UNCHANGED <<channelAll, subject>>
Sending(A) == subject = "writing" /\ A /\ UNCHANGED <<ringAll, subject>>

RingFairness ==
  /\ \A n \in Notifiers : WF_mcVars(Ring(NotifyStep(n)))
  /\ \A l \in Listeners : WF_mcVars(Ring(ListenStep(l) \/ Listen(l)))

ChannelFairness ==
  /\ \A x \in Ts : /\ WF_mcVars(Sending(Channel!SendStep(x)))
                   /\ SF_mcVars(Sending(Channel!LockForWrite(x)))
  /\ WF_mcVars(Sending(Channel!ReceiveStep(d)))

MCSpec == MCInit /\ [][MCNext]_mcVars /\ RingFairness /\ ChannelFairness

-----------------------------------------------------------------------------
(***************************************************************************)
(* What the lock-free parts rely on.  The ring: Listen() returns nothing   *)
(* torn (TypeOK), a sequence number that does not match means the entry is *)
(* being written, one that does that it has been.  The blocks: lock_num_   *)
(* says who is inside, dead processes included.                            *)
(***************************************************************************)
ShmIsSound ==
  /\ TypeOK /\ MismatchIsWriting /\ ReadableIsWritten
  /\ Channel!TypeOK /\ Channel!LocksAgree

\* A listener of ShmChannel gets a whole message, not older than its
\* notification, ...
DeliveredIsCurrent == Channel!DeliveredIsCurrent

\* ... and Transmit(), which spins until it has a block, returns although a
\* process died holding one of the two.
TransmitReturns ==
  \A x \in Ts : (subject = "writing" /\ Channel!Searching(x))
                  ~> (subject = "writing" /\ Channel!Returned(x))
=============================================================================
