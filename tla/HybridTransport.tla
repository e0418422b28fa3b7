--------------------------- MODULE HybridTransport ---------------------------
(***************************************************************************)
(* cyber/transport: one HybridTransmitter and the HybridReceivers of its   *)
(* channel.  Each relation (same process, same host, other host) is mapped *)
(* to a mode, and the pair uses the transmitter and the receiver of that   *)
(* mode.  A TRANSIENT_LOCAL transmitter keeps the last Depth messages and  *)
(* sends them to a receiver that joins over an RTPS channel of their own.  *)
(*                                                                         *)
(* A message is its sequence number.  mutex_ is held by every operation of *)
(* the hybrid pair, so each is one action; numbering a message is not      *)
(* under it.  The medium of a mode is external here: in order to each      *)
(* receiver; ShmChannel and ListenerDispatch look inside.                  *)
(***************************************************************************)
EXTENDS Integers, Sequences, SequencesExt

CONSTANTS
  Receivers,
  WriterThreads,     \* threads that call Transmit()
  HistoryPolicy,     \* the profile's "KEEP_ALL" or "KEEP_LAST",
  QosDepth,          \* its depth,
  max_depth_,        \* and resource_limit's max_history_depth
  ConfiguredModes,   \* modes transport_conf may set for all the relations
  MaxMessages,       \* bound: messages
  MaxJoins           \* bound: calls of Enable(opposite_attr), of both sides

VARIABLES
  pairing,   \* relation of each receiver, the mapping table, durability
  tx,        \* seq_num_, msg_info_'s number, the modes enabled_, receivers_,
             \* history, is_shutdown; the history jobs; history variables: the
             \* first message owed to each receiver live (0 is none), and by
             \* history or live
  writing,   \* the threads past NextSeqNum()
  rx,        \* each receiver: listeners of its mode, messages on the way to
             \* it, got; its history window, and what is on, and heard from,
             \* the channel of the pair
  lost       \* history: messages a Transmit() for a receiver failed to send

hybridVars == <<pairing, tx, writing, rx, lost>>

Relations == {"SAME_PROC", "DIFF_PROC", "DIFF_HOST"}
Modes == {"INTRA", "SHM", "RTPS"}
\* proto::CommunicationMode's defaults; ObtainConfig() replaces them.
InitMode == [SAME_PROC |-> "INTRA", DIFF_PROC |-> "SHM", DIFF_HOST |-> "RTPS"]
MappingTables == {InitMode} \union {[x \in Relations |-> m] : m \in ConfiguredModes}

Mode(r) == pairing.table[pairing.relation[r]]
\* InitTransmitters(), InitReceivers(): the modes that exist.
UsedModes == {pairing.table[x] : x \in Relations}
Related(r) == pairing.relation[r] # "NO_RELATION"
\* Where a mode's messages can get.
Reaches(m, r) ==
  \/ m = "RTPS"
  \/ m = "SHM" /\ pairing.relation[r] # "DIFF_HOST"
  \/ m = "INTRA" /\ pairing.relation[r] = "SAME_PROC"

\* History's depth_.
Depth ==
  IF HistoryPolicy = "KEEP_ALL" \/ QosDepth > max_depth_ THEN max_depth_ ELSE QosDepth

\* InitHistory(): only a TRANSIENT_LOCAL transmitter enables its history.
InitHistory == pairing.transient_local

Sent == tx.seq_num_ - (IF writing = {} THEN 0 ELSE 1)
\* The oldest message a transmitter owes a receiver that joins now.
Earliest ==
  IF ~InitHistory THEN Sent + 1 ELSE IF Sent > Depth THEN Sent - Depth + 1 ELSE 1

Nobody == [r \in Receivers |-> 0]

HybridInit ==
  /\ pairing \in [relation : [Receivers -> Relations \union {"NO_RELATION"}],
                  table : MappingTables, transient_local : BOOLEAN]
  /\ tx = [seq_num_ |-> 0, info |-> 0, enabled |-> {},
           receivers_ |-> [m \in Modes |-> {}], history_ |-> <<>>, is_shutdown |-> FALSE,
           jobs |-> [r \in Receivers |-> <<>>], joins |-> 0, owed |-> Nobody, since |-> Nobody]
  /\ writing = {}
  /\ rx = [r \in Receivers |-> [listeners |-> 0, wire |-> <<>>, got |-> <<>>, subscribed |-> FALSE,
             window |-> "closed", is_msg_arrived |-> FALSE, channel |-> <<>>, heard |-> {}]]
  /\ lost = [r \in Receivers |-> {}]

-----------------------------------------------------------------------------
(* HybridTransmitter.                                                      *)
\* Enable() of the transmitter of mode m: RTPS needs a participant.
Enabled(modes) ==
  tx.enabled \union {m \in modes : m = "RTPS" => ~tx.is_shutdown}

\* TransmitHistoryMsg(): a snapshot of the history for ThreadFunc, if there is
\* one (a transmitter that is not TRANSIENT_LOCAL keeps none).
TransmitHistoryMsg(r) ==
  IF tx.history_ = <<>> THEN tx.jobs[r] ELSE Append(tx.jobs[r], tx.history_)

\* Enable(opposite_attr)
EnableTo(r) ==
  /\ tx.joins < MaxJoins /\ Related(r)
  /\ LET first == tx.owed[r] = 0 /\ rx[r].listeners > 0 IN
     tx' = [tx EXCEPT
       !.joins = @ + 1,
       !.receivers_[Mode(r)] = @ \union {r},
       !.enabled = Enabled({Mode(r)}),
       !.jobs[r] = TransmitHistoryMsg(r),
       !.owed[r] = IF first THEN Sent + 1 ELSE @,
       !.since[r] = IF first THEN Earliest ELSE @]
  /\ UNCHANGED <<pairing, writing, rx, lost>>

\* Disable(opposite_attr).
DisableTo(r) ==
  LET left == tx.receivers_[Mode(r)] \ {r} IN
  /\ Related(r) /\ r \in tx.receivers_[Mode(r)]
  /\ tx' = [tx EXCEPT !.receivers_[Mode(r)] = left,
                      !.enabled = IF left = {} THEN @ \ {Mode(r)} ELSE @,
                      !.owed[r] = 0]
  /\ UNCHANGED <<pairing, writing, rx, lost>>

\* Enable() and Disable(), of every mode, whoever is in receivers_.
EnableAll ==
  /\ tx.enabled # UsedModes
  /\ tx' = [tx EXCEPT !.enabled = Enabled(UsedModes)]
  /\ UNCHANGED <<pairing, writing, rx, lost>>

DisableAll ==
  /\ tx.enabled # {}
  /\ tx' = [tx EXCEPT !.enabled = {}, !.owed = Nobody]
  /\ UNCHANGED <<pairing, writing, rx, lost>>

\* Transmitter::Transmit(msg): msg_info_ takes the next number, without a lock.
NextSeqNum(t) ==
  /\ t \notin writing /\ tx.seq_num_ < MaxMessages
  /\ tx' = [tx EXCEPT !.seq_num_ = @ + 1, !.info = tx.seq_num_ + 1]
  /\ writing' = writing \union {t}
  /\ UNCHANGED <<pairing, rx, lost>>

\* Fault: one message too many is dropped.
FaultyHistoryAdd(history, n) ==
  LET h == Append(history, n) IN
  IF Len(h) >= Depth THEN Tail(h) ELSE h

\* History::Add(), of a transmitter that is TRANSIENT_LOCAL.
HistoryAdd(history, n) ==
  LET h == Append(history, n) IN
  IF Len(h) > Depth THEN Tail(h) ELSE h

\* IntraTransmitter calls the listeners, each once, before it returns; the
\* others put the message on its way, or fail: no block, or a failed write.
Copies(n, count) == [i \in 1 .. count |-> n]
Called(x, n) == [x EXCEPT !.got = @ \o Copies(n, x.listeners)]
OnItsWay(x, n) == [x EXCEPT !.wire = Append(@, n)]
MayFail(m) == m # "INTRA"

\* Transmit(msg, msg_info_): the history, then every mode.  A mode that is
\* not enabled, or fails (no block, all shut down), is not reported.
Transmit(t) ==
  \E failing \in SUBSET {m \in tx.enabled : MayFail(m)} :
    LET n == tx.info
        modes == IF tx.is_shutdown THEN {} ELSE tx.enabled \ failing
        Reached(r) ==
          Related(r) /\ rx[r].subscribed /\ Mode(r) \in modes /\ Reaches(Mode(r), r)
    IN
    /\ t \in writing
    /\ writing' = writing \ {t}
    /\ tx' = [tx EXCEPT !.history_ =
         IF InitHistory THEN HistoryAdd(@, n) ELSE @]
    /\ rx' = [r \in Receivers |->
         IF ~Reached(r) THEN rx[r]
         ELSE IF Mode(r) = "INTRA" THEN Called(rx[r], n) ELSE OnItsWay(rx[r], n)]
    /\ lost' = [r \in Receivers |->
         IF Related(r) /\ (~Reaches(Mode(r), r) \/ Mode(r) \in failing \/ tx.is_shutdown)
           THEN lost[r] \union {n} ELSE lost[r]]
    /\ UNCHANGED pairing

\* ThreadFunc: the snapshot goes out on the channel of the pair.
SendHistory(r) ==
  /\ tx.jobs[r] # <<>>
  /\ LET job == Head(tx.jobs[r]) IN
     /\ tx' = [tx EXCEPT !.jobs[r] =
          IF Len(job) = 1 THEN Tail(@) ELSE <<Tail(job)>> \o Tail(@)]
     /\ rx' = [rx EXCEPT ![r].channel = IF tx.is_shutdown THEN @ ELSE Append(@, Head(job))]
     /\ lost' = [lost EXCEPT ![r] = IF tx.is_shutdown THEN @ \union {Head(job)} ELSE @]
  /\ UNCHANGED <<pairing, writing>>

\* Transport::Shutdown() of the transmitter's process.
Shutdown ==
  /\ ~tx.is_shutdown
  /\ tx' = [tx EXCEPT !.is_shutdown = TRUE]
  /\ UNCHANGED <<pairing, writing, rx, lost>>

-----------------------------------------------------------------------------
(* HybridReceiver.                                                         *)
\* ReceiveHistoryMsg(): a window on the pair's channel, if the transmitter
\* is TRANSIENT_LOCAL.  (Bound: no second window of a pair while one is open.)
Window(r) == IF pairing.transient_local THEN "starting" ELSE rx[r].window

\* Fault: a transmitter already enabled is connected again.
FaultyEnableFrom(r) ==
  /\ tx.joins < MaxJoins /\ Related(r) /\ rx[r].window = "closed"
  /\ rx' = [rx EXCEPT ![r].listeners = @ + 1, ![r].subscribed = TRUE, ![r].window = Window(r)]
  /\ tx' = [tx EXCEPT !.joins = @ + 1]
  /\ UNCHANGED <<pairing, writing, lost>>

\* Enable(opposite_attr), of a transmitter not yet in transmitters_.
EnableFrom(r) ==
  /\ tx.joins < MaxJoins /\ Related(r) /\ rx[r].window = "closed"
  /\ rx' = [rx EXCEPT ![r].subscribed = TRUE,
       ![r].listeners = IF @ = 0 THEN @ + 1 ELSE @,
       ![r].window = IF rx[r].listeners = 0 THEN Window(r) ELSE @,
       ![r].heard = IF rx[r].listeners = 0 THEN {} ELSE @]
  /\ LET first == rx[r].listeners = 0 /\ Mode(r) \in tx.enabled /\ r \in tx.receivers_[Mode(r)] IN
     tx' = [tx EXCEPT !.joins = @ + 1, !.owed[r] = IF first THEN Sent + 1 ELSE @,
                      !.since[r] = IF first THEN Sent + 1 ELSE @]
  /\ UNCHANGED <<pairing, writing, lost>>

\* Disable(opposite_attr); also what ClearTransmitters() does.
DisableFrom(r) ==
  /\ rx[r].listeners > 0
  /\ rx' = [rx EXCEPT ![r].listeners = 0]
  /\ tx' = [tx EXCEPT !.owed[r] = 0]
  /\ UNCHANGED <<pairing, writing, lost>>

\* A message of the mode arrives: OnNewMessage(), once for every listener.
OnNewMessage(r) ==
  /\ rx[r].wire # <<>>
  /\ tx.is_shutdown => pairing.relation[r] # "SAME_PROC"
  /\ rx' = [rx EXCEPT ![r] = Called([rx[r] EXCEPT !.wire = Tail(@)], Head(rx[r].wire))]
  /\ UNCHANGED <<pairing, tx, writing, lost>>

\* ThreadFunc: the receiver on the pair's channel is enabled ...
OpenWindow(r) ==
  /\ rx[r].window = "starting"
  /\ rx' = [rx EXCEPT ![r].window = "open", ![r].is_msg_arrived = FALSE]
  /\ UNCHANGED <<pairing, tx, writing, lost>>

\* ... hears what the transmitter's job publishes ...
HearHistory(r) ==
  /\ rx[r].window = "open" /\ rx[r].channel # <<>>
  /\ rx' = [rx EXCEPT ![r].channel = Tail(@), ![r].is_msg_arrived = TRUE,
                      ![r].heard = @ \union {Head(rx[r].channel)}]
  /\ UNCHANGED <<pairing, tx, writing, lost>>

\* ... and is disabled when a second has passed without a message.
SleepWindow(r) ==
  /\ rx[r].window = "open"
  /\ rx' = [rx EXCEPT ![r].is_msg_arrived = FALSE,
                      ![r].window = IF rx[r].is_msg_arrived THEN "open" ELSE "closed"]
  /\ UNCHANGED <<pairing, tx, writing, lost>>

HybridNext ==
  \/ EnableAll \/ DisableAll \/ Shutdown
  \/ \E t \in WriterThreads : NextSeqNum(t) \/ Transmit(t)
  \/ \E r \in Receivers :
       \/ EnableTo(r) \/ DisableTo(r) \/ SendHistory(r)
       \/ EnableFrom(r) \/ DisableFrom(r) \/ OnNewMessage(r)
       \/ OpenWindow(r) \/ HearHistory(r) \/ SleepWindow(r)

-----------------------------------------------------------------------------
(***************************************************************************)
(* With one writing thread a receiver gets each live message at most once  *)
(* and in order, whatever is enabled and disabled, on either side, in      *)
(* between.                                                                *)
(***************************************************************************)
LiveOnceInOrder ==
  \A r \in Receivers :
    LET s == rx[r].got \o rx[r].wire IN \A i \in 1 .. Len(s) - 1 : s[i] < s[i + 1]

(***************************************************************************)
(* From the moment both ends have enabled each other, and until one of     *)
(* them is disabled, every message is delivered or under way: receivers of *)
(* the same mode that come and go, or a second Enable(), take nothing away.*)
(* A receiver that listens when a TRANSIENT_LOCAL transmitter enables it   *)
(* is also owed the last Depth messages before, as long as its window on   *)
(* the pair's channel is open: the snapshot and the live messages join up. *)
(* What the medium itself refused is excepted.                             *)
(***************************************************************************)
Coming(r) ==
  (UNION {ToSet(tx.jobs[r][i]) : i \in DOMAIN tx.jobs[r]}) \union ToSet(rx[r].channel)
    \union rx[r].heard \union ToSet(rx[r].got) \union ToSet(rx[r].wire) \union lost[r]

JoinedMissesNothing ==
  \A r \in Receivers :
    tx.owed[r] > 0 =>
      /\ tx.owed[r] .. Sent \subseteq ToSet(rx[r].got) \union ToSet(rx[r].wire) \union lost[r]
      /\ rx[r].window # "closed" => tx.since[r] .. Sent \subseteq Coming(r)
==============================================================================
