-------------------------- MODULE ListenerDispatch --------------------------
(***************************************************************************)
(* cyber/transport, one channel of a Dispatcher in one process: receivers  *)
(* add and remove listeners while threads bring messages.  The listeners   *)
(* hang as slots of the signals of a ListenerHandler, which AddListener    *)
(* makes if msg_listeners_ has none.  A receiver listens to one writer or  *)
(* to all ("any").  rw_lock_ of a handler is held across steps only by     *)
(* Run(), for reading; the AtomicRWLock itself has a module of its own.    *)
(***************************************************************************)
EXTENDS Integers, Sequences, SequencesExt

CONSTANTS
  Receivers, Writers,
  Dispatching,    \* threads that call OnMessage
  MaxAdds,        \* bound: AddListener calls of a receiver
  MaxDispatches   \* bound: messages

VARIABLES
  dispatcher,   \* is_shutdown_, the handler in msg_listeners_, the subscriber
                \* or segment behind it (needed, there), the messages so far
  slots,        \* handler -> its signal_ ("any") and its signals_, each with
                \* its slots in the order of Connect()
  connected,    \* the slots with connected_
  receiver,     \* what each receiver listens to, its calls, pc and handler
  run           \* each dispatching thread: pc, handler, writer, slots to call,
                \* the slot it is in; history: the receivers owed the message

listenerVars == <<dispatcher, slots, connected, receiver, run>>

\* A slot and a handler are named by the AddListener call that made them.
Calls == Receivers \X (1 .. MaxAdds)
NoHandler == <<>>
NoSlot == <<>>
Signals == Writers \union {"any"}
Idle == [pc |-> "idle", h |-> NoHandler, from |-> "none", todo |-> <<>>, in |-> NoSlot,
         owed |-> {}]

ListenerInit ==
  /\ \E backed \in BOOLEAN :
       dispatcher = [is_shutdown_ |-> FALSE, handler |-> NoHandler, backed |-> backed,
                     subscribed |-> FALSE, messages |-> 0]
  /\ slots = [h \in Calls |-> [from \in Signals |-> <<>>]]
  /\ connected = {}
  /\ receiver \in [Receivers -> [from : Signals, adds : {0}, pc : {"idle"}, h : {NoHandler}]]
  /\ run = [d \in Dispatching |-> Idle]

\* WriteLockGuard(rw_lock_) of handler h: no thread is in the pair phase of Run().
WriteLockable(h) == \A d \in Dispatching : ~(run[d].pc = "pair" /\ run[d].h = h)

-----------------------------------------------------------------------------
(* Dispatcher::AddListener() and RemoveListener().                         *)
\* msg_listeners_.Get(), or a new handler.
AddListener(r) ==
  LET new == dispatcher.handler = NoHandler  call == <<r, receiver[r].adds + 1>> IN
  /\ receiver[r].pc = "idle" /\ receiver[r].adds < MaxAdds /\ ~dispatcher.is_shutdown_
  /\ receiver' = [receiver EXCEPT ![r].adds = @ + 1,
       ![r].pc = IF new THEN "set" ELSE "connect",
       ![r].h = IF new THEN call ELSE dispatcher.handler]
  /\ UNCHANGED <<dispatcher, slots, connected, run>>

\* msg_listeners_.Set(), whatever is there by now.
SetHandler(r) ==
  /\ receiver[r].pc = "set"
  /\ dispatcher' = [dispatcher EXCEPT !.handler = receiver[r].h]
  /\ receiver' = [receiver EXCEPT ![r].pc = "connect"]
  /\ UNCHANGED <<slots, connected, run>>

Connected == IF dispatcher.backed THEN "subscribe" ELSE "listening"

\* ListenerHandler::Connect(): a listener to one writer with the write lock,
\* one to all takes it only to note the connection.
Connect(r) ==
  LET slot == <<r, receiver[r].adds>>
      h == receiver[r].h
      from == receiver[r].from
  IN
  /\ receiver[r].pc = "connect"
  /\ from = "any" \/ WriteLockable(h)
  /\ slots' = [slots EXCEPT ![h][from] = Append(@, slot)]
  /\ connected' = connected \union {slot}
  /\ receiver' = [receiver EXCEPT ![r].pc = IF from = "any" THEN "note" ELSE Connected]
  /\ UNCHANGED <<dispatcher, run>>

NoteConnection(r) ==
  /\ receiver[r].pc = "note" /\ WriteLockable(receiver[r].h)
  /\ receiver' = [receiver EXCEPT ![r].pc = Connected]
  /\ UNCHANGED <<dispatcher, slots, connected, run>>

\* AddSubscriber() or AddSegment(), once for the channel.
Subscribe(r) ==
  /\ receiver[r].pc = "subscribe"
  /\ dispatcher' = [dispatcher EXCEPT !.subscribed = TRUE]
  /\ receiver' = [receiver EXCEPT ![r].pc = "listening"]
  /\ UNCHANGED <<slots, connected, run>>

\* Fault: Disconnect() takes every slot of the signal.
FaultyDisconnect(h, slot) ==
  LET from == receiver[slot[1]].from IN
  IF h # NoHandler /\ Contains(slots[h][from], slot)
    THEN /\ connected' = connected \ ToSet(slots[h][from])
         /\ slots' = [slots EXCEPT ![h][from] = <<>>]
    ELSE UNCHANGED <<slots, connected>>

\* ListenerHandler::Disconnect() finds the connection in the handler it was
\* made in, or none; Signal::Disconnect() marks its slot and clears it away.
Disconnect(h, slot) ==
  LET from == receiver[slot[1]].from IN
  IF h # NoHandler /\ Contains(slots[h][from], slot)
    THEN /\ connected' = connected \ {slot}
         /\ \E i \in DOMAIN slots[h][from] :
              /\ slots[h][from][i] = slot
              /\ slots' = [slots EXCEPT ![h][from] = RemoveAt(@, i)]
    ELSE UNCHANGED <<slots, connected>>

\* msg_listeners_.Get(), then Disconnect().
RemoveListener(r) ==
  /\ receiver[r].pc = "listening" /\ ~dispatcher.is_shutdown_
  /\ WriteLockable(dispatcher.handler)
  /\ Disconnect(dispatcher.handler, <<r, receiver[r].adds>>)
  /\ receiver' = [receiver EXCEPT ![r].pc = "idle", ![r].h = NoHandler]
  /\ run' = [d \in Dispatching |-> [run[d] EXCEPT !.owed = @ \ {r}]]
  /\ UNCHANGED dispatcher

-----------------------------------------------------------------------------
(* OnMessage() and ListenerHandler::Run().                                 *)
Hearing(from) ==
  {r \in Receivers : /\ receiver[r].pc = "listening" /\ receiver[r].from \in {from, "any"}
                     /\ receiver[r].h = dispatcher.handler}

\* Look up the handler and copy the slots of signal_.
OnMessage(d, w) ==
  LET h == dispatcher.handler IN
  /\ run[d].pc = "idle" /\ ~dispatcher.is_shutdown_ /\ dispatcher.messages < MaxDispatches
  /\ dispatcher.backed => dispatcher.subscribed
  /\ dispatcher' = [dispatcher EXCEPT !.messages = @ + 1]
  /\ run' = IF h = NoHandler THEN run
            ELSE [run EXCEPT ![d] = [Idle EXCEPT !.pc = "any", !.h = h, !.from = w,
                    !.todo = slots[h]["any"], !.owed = Hearing(w)]]
  /\ UNCHANGED <<slots, connected, receiver>>

\* Slot::operator(): the callback is entered if the slot is connected.
CallSlot(d) ==
  LET slot == Head(run[d].todo) IN
  /\ run[d].todo # <<>> /\ run[d].in = NoSlot
  /\ run' = [run EXCEPT ![d].todo = Tail(@),
                        ![d].in = IF slot \in connected THEN slot ELSE NoSlot,
                        ![d].owed = IF slot \in connected THEN @ \ {slot[1]} ELSE @]
  /\ UNCHANGED <<dispatcher, slots, connected, receiver>>

CallbackReturns(d) ==
  /\ run[d].in # NoSlot
  /\ run' = [run EXCEPT ![d].in = NoSlot]
  /\ UNCHANGED <<dispatcher, slots, connected, receiver>>

\* Fault: the slots of the writer's signal are called without the lock.
FaultyRunPair(d) ==
  /\ run[d].pc = "any" /\ run[d].todo = <<>> /\ run[d].in = NoSlot
  /\ run' = [run EXCEPT ![d].pc = "unlocked", ![d].todo = slots[run[d].h][run[d].from]]
  /\ UNCHANGED <<dispatcher, slots, connected, receiver>>

\* ReadLockGuard(rw_lock_) and the slots of the writer's signal.
RunPair(d) ==
  /\ run[d].pc = "any" /\ run[d].todo = <<>> /\ run[d].in = NoSlot
  /\ run' = [run EXCEPT ![d].pc = "pair", ![d].todo = slots[run[d].h][run[d].from]]
  /\ UNCHANGED <<dispatcher, slots, connected, receiver>>

RunEnds(d) ==
  /\ run[d].pc = "pair" /\ run[d].todo = <<>> /\ run[d].in = NoSlot
  /\ run' = [run EXCEPT ![d] = Idle]
  /\ UNCHANGED <<dispatcher, slots, connected, receiver>>

\* Shutdown() of RtpsDispatcher and ShmDispatcher drops what is behind.
Shutdown ==
  /\ ~dispatcher.is_shutdown_
  /\ dispatcher' = [dispatcher EXCEPT !.is_shutdown_ = TRUE, !.subscribed = FALSE]
  /\ UNCHANGED <<slots, connected, receiver, run>>

ListenerNext ==
  \/ Shutdown
  \/ \E r \in Receivers : \/ AddListener(r) \/ SetHandler(r) \/ Connect(r)
                          \/ NoteConnection(r) \/ Subscribe(r) \/ RemoveListener(r)
  \/ \E d \in Dispatching : \/ CallSlot(d) \/ CallbackReturns(d) \/ RunPair(d)
                            \/ RunEnds(d) \/ \E w \in Writers : OnMessage(d, w)

-----------------------------------------------------------------------------
(***************************************************************************)
(* Once RemoveListener() for one writer has returned, its callback is not  *)
(* running and will not run, whoever is dispatching: the Receiver behind   *)
(* it may be destroyed.  The exceptions are real: a listener to all        *)
(* writers is called without the lock, and a listener whose handler was    *)
(* replaced by a concurrent first AddListener() is not found again.        *)
(***************************************************************************)
Replaced(slot) ==
  \E h \in Calls, from \in Signals : h # dispatcher.handler /\ Contains(slots[h][from], slot)
RemovedIsSilent ==
  \A d \in Dispatching :
    run[d].in # NoSlot =>
      LET r == run[d].in[1] IN
      \/ receiver[r].pc \in {"note", "subscribe", "listening"} /\ receiver[r].adds = run[d].in[2]
      \/ receiver[r].from = "any"
      \/ Replaced(run[d].in)

(***************************************************************************)
(* A listener that was there when OnMessage() looked up the handler, and   *)
(* is not removed meanwhile, has been called when Run() is over, however   *)
(* many others come and go.                                                *)
(***************************************************************************)
ListenersHear ==
  \A d \in Dispatching :
    run[d].pc = "pair" /\ run[d].todo = <<>> => run[d].owed = {}
=============================================================================
