----------------------------- MODULE DataFusion -----------------------------
(***************************************************************************)
(* cyber/data: CacheBuffer, ChannelBuffer, DataDispatcher, DataNotifier,   *)
(* DataVisitor and the AllLatest fusion.  A visitor has one buffer per     *)
(* channel; a message of the main channel (M0) is not stored there but     *)
(* fused with the latest one of every other channel (M1 .. Mn, in that     *)
(* order) into buffer_fusion_, which the visitor's routine reads.          *)
(* Publishers are the threads that call Dispatch().  A message is its      *)
(* number in the buffer it went to.                                        *)
(***************************************************************************)
EXTENDS Integers, Sequences, FiniteSets

CONSTANTS
  Publishers, Visitors,
  Subs,          \* number of channels besides the main one
  QueueSize,     \* queue_size of every VisitorConfig
  None,
  MaxMain, MaxSub  \* bounds: messages on the main and on every other channel

ASSUME FusionAssumption ==
  /\ Subs \in Nat \ {0} /\ QueueSize \in Nat \ {0} /\ {MaxMain, MaxSub} \subseteq Nat
  /\ None \notin Publishers \union Visitors

Main == 0
Channels == 0 .. Subs

VARIABLES
  buffers_map_,  \* visitors whose buffer is registered, by channel
  notifies_map_, \* visitors whose notifier_ is registered for the main channel
  callback,      \* notifier_->callback is set
  fusing,        \* the main buffer has its fusion_callback_
  buffer,        \* the CacheBuffer of each visitor and channel
  fused,         \* buffer_fusion_ of each visitor
  mutex,         \* who holds the mutex of the visitor's main buffer
  sent,          \* messages published, by channel
  ppc, ch, todo, got,  \* Dispatch(): channel, visitors left, Latest() results
  next_msg_index_, awake,  \* the routine: not in DATA_WAIT, or flagged
  filled,        \* history: what went into buffer_fusion_, in order
  missed         \* history: fused messages when a callback was last missing

bufferVars == <<buffer, fused, mutex, filled>>
callVars == <<ppc, ch, todo, got>>
visitorVars == <<buffers_map_, notifies_map_, callback, fusing>>
routineVars == <<next_msg_index_, awake>>
vars == <<bufferVars, callVars, visitorVars, routineVars, sent, missed>>

-----------------------------------------------------------------------------
(* CacheBuffer and ChannelBuffer.                                          *)
capacity_ == QueueSize + 1
EmptyBuffer == [head |-> 0, tail |-> 0, slot |-> [i \in 0 .. QueueSize |-> None]]
At(b, pos) == b.slot[pos % capacity_]

\* Fault: the buffer counts as full one message too late.
FaultyFull(b) == capacity_ = b.tail - b.head

Full(b) == capacity_ - 1 = b.tail - b.head

Fill(b, m) ==
  IF Full(b)
    THEN [head |-> b.head + 1, tail |-> b.tail + 1,
          slot |-> [b.slot EXCEPT ![b.head % capacity_] = m]]
    ELSE [b EXCEPT !.tail = @ + 1, !.slot[(b.tail + 1) % capacity_] = m]

\* Fault: an index that was overwritten is read all the same.
FaultyFetchIndex(b, index) ==
  IF b.tail = 0 \/ index = b.tail + 1 THEN 0
  ELSE IF index = 0 THEN b.tail ELSE index

\* Fetch(): the index it reads, 0 if there is nothing to read.  The first
\* time, and after an overflow, it goes to the newest message.
FetchIndex(b, index) ==
  IF b.tail = 0 \/ index = b.tail + 1 THEN 0
  ELSE IF index = 0 \/ index < b.head + 1 THEN b.tail ELSE index

-----------------------------------------------------------------------------
(* The DataVisitor constructor, and CreateTask() which adds the callback.  *)
AddBuffer(v, c) ==
  /\ v \notin buffers_map_[c] /\ \A d \in 0 .. c - 1 : v \in buffers_map_[d]
  /\ buffers_map_' = [buffers_map_ EXCEPT ![c] = @ \union {v}]
  /\ UNCHANGED <<bufferVars, callVars, notifies_map_, callback, fusing,
                 routineVars, sent, missed>>

AddNotifier(v) ==
  /\ v \in buffers_map_[Subs] \ notifies_map_
  /\ notifies_map_' = notifies_map_ \union {v}
  /\ UNCHANGED <<bufferVars, callVars, buffers_map_, callback, fusing,
                 routineVars, sent, missed>>

SetFusionCallback(v) ==
  /\ v \in notifies_map_ /\ ~fusing[v]
  /\ fusing' = [fusing EXCEPT ![v] = TRUE]
  /\ UNCHANGED <<bufferVars, callVars, buffers_map_, notifies_map_, callback,
                 routineVars, sent, missed>>

RegisterNotifyCallback(v) ==
  /\ fusing[v] /\ ~callback[v]
  /\ callback' = [callback EXCEPT ![v] = TRUE]
  /\ UNCHANGED <<bufferVars, callVars, buffers_map_, notifies_map_, fusing,
                 routineVars, sent, missed>>

-----------------------------------------------------------------------------
(* DataDispatcher::Dispatch: the buffers are copied, then filled in turn.  *)
Go(p, from, to) == ppc[p] = from /\ ppc' = [ppc EXCEPT ![p] = to]

Dispatch(p, c) ==
  /\ sent[c] < (IF c = Main THEN MaxMain ELSE MaxSub) /\ buffers_map_[c] # {}
  /\ Go(p, "idle", "fill")
  /\ sent' = [sent EXCEPT ![c] = @ + 1]
  /\ ch' = [ch EXCEPT ![p] = c]
  /\ todo' = [todo EXCEPT ![p] = buffers_map_[c]]
  /\ UNCHANGED <<bufferVars, got, visitorVars, routineVars, missed>>

\* Every visitor in turn: CHOOSE stands for the order of the vector.
Visitor(p) == CHOOSE v \in todo[p] : TRUE

\* A buffer without fusion callback: under its mutex, one step.
FillBuffer(p) ==
  LET v == Visitor(p) IN
  /\ Go(p, "fill", "fill") /\ todo[p] # {}
  /\ \/ ch[p] # Main
     \/ ~fusing[v] /\ mutex[v] = None
  /\ buffer' = [buffer EXCEPT ![v][ch[p]] = Fill(@, @.tail + 1)]
  /\ todo' = [todo EXCEPT ![p] = @ \ {v}]
  /\ UNCHANGED <<fused, mutex, filled, ch, got, visitorVars, routineVars,
                 sent, missed>>

\* Fault: the fusion callback runs without the mutex of the buffer.
FaultyStartFusion(p) ==
  LET v == Visitor(p) IN
  /\ Go(p, "fill", "fuse") /\ todo[p] # {}
  /\ ch[p] = Main /\ fusing[v]
  /\ got' = [got EXCEPT ![p] = <<>>]
  /\ UNCHANGED <<bufferVars, ch, todo, visitorVars, routineVars, sent, missed>>

\* The main buffer: its mutex is held while the callback runs ...
StartFusion(p) ==
  LET v == Visitor(p) IN
  /\ Go(p, "fill", "fuse") /\ todo[p] # {}
  /\ ch[p] = Main /\ fusing[v] /\ mutex[v] = None
  /\ mutex' = [mutex EXCEPT ![v] = p]
  /\ got' = [got EXCEPT ![p] = <<>>]
  /\ UNCHANGED <<buffer, fused, filled, ch, todo, visitorVars, routineVars,
                 sent, missed>>

\* ... asks every other buffer for its latest message, and gives up at the
\* first that has none ...
Latest(p) ==
  LET v == Visitor(p)
      b == buffer[v][Len(got[p]) + 1]
  IN
  /\ ppc[p] = "fuse" /\ Len(got[p]) < Subs
  /\ \/ /\ b.tail # 0
        /\ got' = [got EXCEPT ![p] = Append(@, At(b, b.tail))]
        /\ UNCHANGED <<mutex, todo, ppc>>
     \/ /\ b.tail = 0
        /\ mutex' = [mutex EXCEPT ![v] = None]
        /\ todo' = [todo EXCEPT ![p] = @ \ {v}]
        /\ ppc' = [ppc EXCEPT ![p] = "fill"]
        /\ UNCHANGED got
  /\ UNCHANGED <<buffer, fused, filled, ch, visitorVars, routineVars, sent,
                 missed>>

\* ... and stores what it has.
FillFusion(p) ==
  LET v == Visitor(p) IN
  /\ Go(p, "fuse", "fill") /\ Len(got[p]) = Subs
  /\ fused' = [fused EXCEPT ![v] = Fill(@, got[p])]
  /\ filled' = [filled EXCEPT ![v] = Append(@, got[p])]
  /\ mutex' = [mutex EXCEPT ![v] = None]
  /\ todo' = [todo EXCEPT ![p] = @ \ {v}]
  /\ UNCHANGED <<buffer, ch, got, visitorVars, routineVars, sent, missed>>

\* Fault: the first notifier without a callback ends the loop.
FaultyNotify(p) ==
  LET on == IF ch[p] = Main THEN notifies_map_ ELSE {}
      ok == \A v \in on : callback[v]
  IN
  /\ todo[p] = {} /\ Go(p, "fill", "idle")
  /\ awake' = [v \in Visitors |-> awake[v] \/ (ok /\ v \in on)]
  /\ missed' = [v \in Visitors |-> IF v \in on /\ ~callback[v]
                                     THEN fused[v].tail ELSE missed[v]]
  /\ UNCHANGED <<bufferVars, ch, todo, got, visitorVars, next_msg_index_, sent>>

\* DataNotifier::Notify: only the main channel has notifiers, and those
\* without a callback are skipped.
Notify(p) ==
  LET on == IF ch[p] = Main THEN notifies_map_ ELSE {} IN
  /\ todo[p] = {} /\ Go(p, "fill", "idle")
  /\ awake' = [v \in Visitors |-> awake[v] \/ (v \in on /\ callback[v])]
  /\ missed' = [v \in Visitors |-> IF v \in on /\ ~callback[v]
                                     THEN fused[v].tail ELSE missed[v]]
  /\ UNCHANGED <<bufferVars, ch, todo, got, visitorVars, next_msg_index_, sent>>

\* TryFetch() by the routine; it goes to sleep when there is nothing.
TryFetch(v) ==
  LET i == FetchIndex(fused[v], next_msg_index_[v]) IN
  /\ awake[v] /\ fusing[v]
  /\ next_msg_index_' = [next_msg_index_ EXCEPT ![v] = IF i = 0 THEN @ ELSE i + 1]
  /\ awake' = [awake EXCEPT ![v] = i # 0]
  /\ UNCHANGED <<bufferVars, callVars, visitorVars, sent, missed>>

Init ==
  /\ buffers_map_ = [c \in Channels |-> {}]
  /\ notifies_map_ = {}
  /\ callback = [v \in Visitors |-> FALSE]
  /\ fusing = [v \in Visitors |-> FALSE]
  /\ buffer = [v \in Visitors |-> [c \in Channels |-> EmptyBuffer]]
  /\ fused = [v \in Visitors |-> EmptyBuffer]
  /\ mutex = [v \in Visitors |-> None]
  /\ sent = [c \in Channels |-> 0]
  /\ ppc = [p \in Publishers |-> "idle"]
  /\ ch = [p \in Publishers |-> Main]
  /\ todo = [p \in Publishers |-> {}]
  /\ got = [p \in Publishers |-> <<>>]
  /\ next_msg_index_ = [v \in Visitors |-> 0]
  /\ awake = [v \in Visitors |-> TRUE]
  /\ filled = [v \in Visitors |-> <<>>]
  /\ missed = [v \in Visitors |-> 0]

PublisherStep(p) ==
  FillBuffer(p) \/ StartFusion(p) \/ Latest(p) \/ FillFusion(p) \/ Notify(p)
Build(v) ==
  \/ \E c \in Channels : AddBuffer(v, c)
  \/ AddNotifier(v) \/ SetFusionCallback(v) \/ RegisterNotifyCallback(v)

Next ==
  \/ \E p \in Publishers : PublisherStep(p) \/ \E c \in Channels : Dispatch(p, c)
  \/ \E v \in Visitors : Build(v) \/ TryFetch(v)

Spec == Init /\ [][Next]_vars

-----------------------------------------------------------------------------
(***************************************************************************)
(* The ring agrees with the whole history: the positions from Head() to    *)
(* Tail() hold the last fused messages, at most QueueSize of them, however *)
(* far the indexes have gone; and the routine's index is never beyond the  *)
(* next message.                                                           *)
(***************************************************************************)
RingIsWindow ==
  \A v \in Visitors :
    LET b == fused[v] IN
    /\ b.tail = Len(filled[v]) /\ b.tail - b.head <= QueueSize
    /\ \A pos \in b.head + 1 .. b.tail : At(b, pos) = filled[v][pos]
    /\ next_msg_index_[v] <= b.tail + 1

(***************************************************************************)
(* What TryFetch() hands to the routine is the message of that position,   *)
(* not one that has taken its slot since, and positions only go up.        *)
(***************************************************************************)
FetchIsExact ==
  [][\A v \in Visitors : next_msg_index_'[v] # next_msg_index_[v] =>
       LET i == next_msg_index_'[v] - 1 IN
       /\ next_msg_index_'[v] > next_msg_index_[v]
       /\ At(fused[v], i) = filled[v][i]]_vars

(***************************************************************************)
(* Fusion never goes back: a later fused message holds the same or a later *)
(* message of every other channel, although several threads dispatch.      *)
(***************************************************************************)
FusionIsMonotone ==
  \A v \in Visitors : \A i, j \in DOMAIN filled[v] : i < j =>
    \A s \in 1 .. Subs : filled[v][i][s] <= filled[v][j][s]

(***************************************************************************)
(* What liveness is about: the routine has something to read that it was   *)
(* told of, that is, which came after RegisterNotifyCallback().            *)
(***************************************************************************)
Unread(v) == FetchIndex(fused[v], next_msg_index_[v]) # 0
Pending(v) == Unread(v) /\ fused[v].tail > missed[v]
=============================================================================
