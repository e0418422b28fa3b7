---------------------------- MODULE MC_Transport ----------------------------
(***************************************************************************)
(* The parts of the transport that have no fairness to state, in one run:  *)
(* the segments of SegmentLifecycle for the groups of MC_SegmentLifecycle; *)
(* the multicast notifier; how condition notifiers find their segment; the *)
(* listeners of a dispatcher; and the hybrid transmitter with its          *)
(* receivers.  Each behaviour exercises one of them and leaves the rest as *)
(* it was initialised.                                                     *)
(***************************************************************************)
EXTENDS MC_SegmentLifecycle

CONSTANTS
  w, d,                          \* a writer, a dispatching thread
  Senders, Dispatchers,          \* the sets of these a listener meets
  BufferSize, MaxNotifies,       \* of MulticastNotifier
  MaxSegments, MaxSeq, MaxDeaths,\* of NotifierSegment
  MaxAdds, MaxDispatches,        \* of ListenerDispatch
  QosDepth, max_depth_, MaxMessages, MaxJoins  \* of HybridTransport

ASSUME TransportAssumption ==
  /\ d \notin MCWriters \union {w} /\ w \in Senders /\ "any" \notin Senders /\ MaxSegments > 0
  /\ {MaxSegments, MaxSeq, MaxDeaths, MaxAdds, MaxDispatches, QosDepth, max_depth_,
      MaxMessages, MaxJoins} \subseteq Nat

VARIABLES
  subject,
  notifier, socket, calls, taken, told,           \* of MulticastNotifier
  dispatcher, slots, connected, receiver, run,    \* of ListenerDispatch
  pairing, tx, writing, rx, lost,                 \* of HybridTransport
  kernel, segs, proc                              \* of NotifierSegment

segmentAll == <<vars, active>>
multicastAll == <<notifier, socket, calls, taken, told>>
listenersAll == <<dispatcher, slots, connected, receiver, run>>
hybridAll == <<pairing, tx, writing, rx, lost>>
openingAll == <<kernel, segs, proc>>

Multicast == INSTANCE MulticastNotifier WITH
  heard <- taken, sent <- told, Processes <- MCWriters,
  HostOf <- [x \in MCWriters |-> x], Blocks <- {0}
Opening == INSTANCE NotifierSegment WITH
  Processes <- MCWriters \union {w}, Nobody <- d
Listening == INSTANCE ListenerDispatch WITH
  Receivers <- MCReaders, Writers <- Senders, Dispatching <- Dispatchers
Hybrid == INSTANCE HybridTransport WITH
  Receivers <- MCReaders, WriterThreads <- {w}, HistoryPolicy <- "KEEP_LAST",
  ConfiguredModes <- {"RTPS"}

-----------------------------------------------------------------------------
(***************************************************************************)
(* The pairs of hybrid ends: two receivers that share a mode or have two,  *)
(* by the defaults and with RTPS configured for all, of a transmitter that *)
(* keeps no history, and one receiver, in the process or on another host,  *)
(* of a transmitter that does.                                             *)
(***************************************************************************)
Pairings ==
  {x \in [relation : [MCReaders -> Hybrid!Relations \union {"NO_RELATION"}],
          table : Hybrid!MappingTables, transient_local : BOOLEAN] :
     LET all == {x.relation[r] : r \in MCReaders}  default == x.table = Hybrid!InitMode IN
     IF x.transient_local
     THEN default /\ all \in {{"SAME_PROC", "NO_RELATION"}, {"DIFF_HOST", "NO_RELATION"}}
     ELSE \/ default /\ all = {"SAME_PROC"}
          \/ ~default /\ all = {"DIFF_PROC", "DIFF_HOST"}}

TransportInit ==
  /\ subject \in {"segment", "multicast", "listeners", "hybrid", "opening"}
  /\ MCInit /\ Multicast!MulticastInit /\ Listening!ListenerInit /\ Hybrid!HybridInit
  /\ Opening!OpeningInit
  /\ subject # "opening" => kernel.key = 0 /\ kernel.fits
  /\ subject # "segment" => active = CHOOSE g \in Groups : TRUE
  /\ subject = "hybrid" => pairing \in Pairings
  /\ subject # "hybrid" =>
       /\ \A r \in MCReaders : pairing.relation[r] = "NO_RELATION"
       /\ pairing.table = Hybrid!InitMode /\ ~pairing.transient_local
  /\ subject # "listeners" =>
       ~dispatcher.backed /\ \A r \in MCReaders : receiver[r].from = w

TransportNext ==
  \/ /\ subject = "segment" /\ MCNext
     /\ UNCHANGED <<multicastAll, listenersAll, hybridAll, openingAll, subject>>
  \/ /\ subject = "multicast" /\ Multicast!MulticastNext
     /\ UNCHANGED <<segmentAll, listenersAll, hybridAll, openingAll, subject>>
  \/ /\ subject = "listeners" /\ Listening!ListenerNext
     /\ UNCHANGED <<segmentAll, multicastAll, hybridAll, openingAll, subject>>
  \/ /\ subject = "hybrid" /\ Hybrid!HybridNext
     /\ UNCHANGED <<segmentAll, multicastAll, listenersAll, openingAll, subject>>
  \/ /\ subject = "opening" /\ Opening!OpeningNext
     /\ UNCHANGED <<segmentAll, multicastAll, listenersAll, hybridAll, subject>>

TransportSpec ==
  /\ TransportInit
  /\ [][TransportNext]_<<segmentAll, multicastAll, listenersAll, hybridAll, openingAll, subject>>

-----------------------------------------------------------------------------
(***************************************************************************)
(* The dispatcher's listeners, added and removed while messages come: a    *)
(* listener that was there before the message and stays hears it, and one  *)
(* that was removed is not called again (ListenersHear, RemovedIsSilent).  *)
(***************************************************************************)
ListenersAreExact == Listening!ListenersHear /\ Listening!RemovedIsSilent

(***************************************************************************)
(* The hybrid pair: each live message at most once and in order, and from  *)
(* the moment both ends have enabled each other none is missed             *)
(* (LiveOnceInOrder, JoinedMissesNothing).                                 *)
(***************************************************************************)
HybridDelivers == Hybrid!LiveOnceInOrder /\ Hybrid!JoinedMissesNothing

(***************************************************************************)
(* The notifiers: with multicast the dispatcher only reads blocks that its *)
(* own host announced, whatever the socket brings (HeardIsLocal); with the *)
(* condition notifier all processes share one Indicator, and a listener    *)
(* waits for no number that nobody will write (NotifiersMeet).             *)
(***************************************************************************)
NotifiersAreSound == Multicast!HeardIsLocal /\ Opening!NotifiersMeet
=============================================================================
