------------------------------- MODULE Poller -------------------------------
(***************************************************************************)
(* cyber/io: routines do I/O on a Session, block in its PollHandler, and   *)
(* the Poller's thread wakes them through epoll.  A session is known by    *)
(* its file descriptor, which a new session may get again after Close().   *)
(* One direction of transfer stands for both.  epoll reports a descriptor  *)
(* once (EPOLLONESHOT) until it is armed again.                            *)
(***************************************************************************)
EXTENDS Integers

CONSTANTS
  Fds,             \* descriptors, one session and one routine each
  Timeouts,        \* positive timeout_ms of the calls; -1 is for ever
  kPollTimeoutMs,
  MaxBlocks,       \* bound: calls of Block()
  MaxReopen,       \* bound: sessions opened again on a descriptor
  Shutdowns        \* whether Poller::Shutdown() is called

VARIABLES
  poll,      \* is_shutdown_, pc of the thread, the timeout of this turn,
             \* HandleChanges()'s local_params, the responses to give,
             \* and whether the pipe holds a byte
  request,   \* requests_: timeout_ms, or absent; history: elapsed, asked,
             \* compensated
  ctrl,      \* ctrl_params_: the operation that waits for the thread
  epoll,     \* the kernel's set: none, armed or reported
  session    \* per descriptor: open, ready (the transfer would succeed),
             \* the routine's pc, is_blocking_, response_, and history: a
             \* response before IO_WAIT (lost), an overtaken ADD (stale)

pollerVars == <<poll, request, ctrl, epoll, session>>

Absent == [here |-> FALSE, timeout |-> -1, asked |-> -1, elapsed |-> 0]
NoChange == [f \in Fds |-> "none"]
NoResponse == [f \in Fds |-> "none"]

PollerInit ==
  /\ poll = [is_shutdown_ |-> FALSE, pc |-> "changes", timeout |-> 0,
             changes |-> NoChange, responses |-> NoResponse, pipe |-> FALSE]
  /\ request = [f \in Fds |-> Absent]
  /\ ctrl = NoChange
  /\ epoll = [f \in Fds |-> "none"]
  /\ session = [f \in Fds |->
       [open |-> TRUE, ready |-> FALSE, pc |-> "idle", blocking |-> FALSE, lost |-> FALSE,
        stale |-> FALSE, timeout |-> -1, response |-> "none", blocks |-> 0, reopened |-> 0]]

-----------------------------------------------------------------------------
(* The Poller's thread.                                                    *)
\* HandleChanges() takes the map under the lock ...
TakeChanges ==
  /\ poll.pc = "changes" /\ ~poll.is_shutdown_
  /\ poll' = [poll EXCEPT !.changes = ctrl, !.pc = "apply"]
  /\ ctrl' = NoChange
  /\ UNCHANGED <<request, epoll, session>>

\* ... and makes the epoll_ctl calls outside it; errors are only logged.
ApplyChange(f) ==
  LET op == poll.changes[f] IN
  /\ poll.pc = "apply" /\ op # "none"
  /\ epoll' = [epoll EXCEPT ![f] =
       CASE ~session[f].open -> @
         [] op = "ADD" -> IF @ = "none" THEN "armed" ELSE @
         [] op = "MOD" -> IF @ = "none" THEN @ ELSE "armed"
         [] op = "DEL" -> "none"]
  /\ poll' = [poll EXCEPT !.changes[f] = "none"]
  /\ session' = [session EXCEPT ![f].stale = @ \/ (op = "ADD" /\ ctrl[f] # "none")]
  /\ UNCHANGED <<request, ctrl>>

\* GetTimeoutMs(): the smallest timeout of the requests.
TimeoutMs ==
  LET waits == {kPollTimeoutMs} \union ({request[f].timeout : f \in Fds} \ {-1}) IN
  CHOOSE t \in waits : \A u \in waits : t <= u

GetTimeoutMs ==
  /\ poll.pc = "apply" /\ poll.changes = NoChange
  /\ poll' = [poll EXCEPT !.timeout = TimeoutMs, !.pc = "wait"]
  /\ UNCHANGED <<request, ctrl, epoll, session>>

Reportable == {f \in Fds : epoll[f] = "armed" /\ session[f].ready /\ session[f].open}

\* Fault: requests the thread has not handled yet are aged as well.
FaultyAged(f, dt) ==
  LET left == request[f].timeout - (IF dt = 0 THEN 1 ELSE dt) IN
  IF ~request[f].here THEN request[f]
  ELSE [request[f] EXCEPT !.elapsed = IF ctrl[f] = "none" /\ request[f].timeout > 0
                                        THEN @ + (IF dt = 0 THEN 1 ELSE dt) ELSE @,
                          !.timeout = IF @ <= 0 THEN -1 ELSE IF left > 0 THEN left ELSE 0]

\* What the wait of dt milliseconds takes from a timeout: 0 counts as 1.
Aged(f, dt) ==
  LET passed == IF dt = 0 THEN 1 ELSE dt IN
  IF ~request[f].here \/ ctrl[f] # "none" \/ request[f].timeout <= 0 THEN request[f]
  ELSE [request[f] EXCEPT !.elapsed = @ + passed,
                          !.timeout = IF @ > passed THEN @ - passed ELSE 0]

\* Poll(): epoll_wait returns after dt with the reportable descriptors, or
\* with none once its timeout is over; then the requests are aged, and those
\* at zero get an empty response.
Wait(dt) ==
  LET aged == [f \in Fds |-> Aged(f, dt)]
      Due(f) == aged[f].here /\ ctrl[f] = "none" /\ aged[f].timeout = 0
  IN
  /\ poll.pc = "wait" /\ dt <= poll.timeout
  /\ dt = poll.timeout \/ Reportable # {} \/ poll.pipe
  /\ poll' = [poll EXCEPT !.pc = "respond", !.timeout = 0, !.pipe = FALSE,
       !.responses = [f \in Fds |-> CASE f \in Reportable -> "event"
                                      [] Due(f) -> "timeout"
                                      [] OTHER -> "none"]]
  /\ epoll' = [f \in Fds |-> IF f \in Reportable THEN "reported" ELSE epoll[f]]
  /\ request' = [f \in Fds |-> IF Due(f) THEN [aged[f] EXCEPT !.timeout = -1] ELSE aged[f]]
  /\ UNCHANGED <<ctrl, session>>

\* PollHandler::ResponseCallback(): the routine is woken if it waits already.
Respond(f) ==
  /\ poll.pc = "respond" /\ poll.responses[f] # "none"
  /\ poll' = [poll EXCEPT !.responses[f] = "none"]
  /\ request' = [request EXCEPT ![f].timeout = -1]
  /\ session' = IF request[f].here /\ session[f].blocking
       THEN [session EXCEPT ![f].response = poll.responses[f],
                            ![f].lost = @ \/ session[f].pc # "IO_WAIT",
                            ![f].pc = IF @ = "IO_WAIT" THEN "resumed" ELSE @]
       ELSE session
  /\ UNCHANGED <<ctrl, epoll>>

PollReturns ==
  /\ poll.pc = "respond" /\ poll.responses = NoResponse
  /\ poll' = [poll EXCEPT !.pc = "changes"]
  /\ UNCHANGED <<request, ctrl, epoll, session>>

\* Shutdown() and Clear(), which joins the thread: the routines that wait
\* stay where they are.
Shutdown ==
  /\ Shutdowns /\ ~poll.is_shutdown_
  /\ poll' = [poll EXCEPT !.is_shutdown_ = TRUE]
  /\ UNCHANGED <<request, ctrl, epoll, session>>

Clear ==
  /\ poll.is_shutdown_ /\ poll.pc = "changes"
  /\ poll' = [poll EXCEPT !.pc = "closed"]
  /\ request' = [f \in Fds |-> Absent] /\ ctrl' = NoChange
  /\ epoll' = [f \in Fds |-> "none"]
  /\ UNCHANGED session

-----------------------------------------------------------------------------
(* The routine of a session.                                               *)
\* Recv(), Send() and their like: the call, which succeeds or would block.
\* A response for an expired timeout ends it, for ever means again.
Transfer(f, t) ==
  /\ session[f].open /\ session[f].pc = "idle" /\ session[f].blocks < MaxBlocks
  /\ IF session[f].ready THEN session' = [session EXCEPT ![f].ready = FALSE]
     ELSE session' = [session EXCEPT ![f].pc = "block", ![f].timeout = t,
                                     ![f].blocks = @ + 1]
  /\ UNCHANGED <<poll, request, ctrl, epoll>>

\* Block(): is_blocking_, Fill() and Register() up to the end of its lock.
Register(f) ==
  LET t == session[f].timeout
      op == IF request[f].here THEN "MOD" ELSE "ADD"
  IN
  /\ session[f].pc = "block"
  /\ IF poll.is_shutdown_
       THEN /\ session' = [session EXCEPT ![f].pc = "idle", ![f].timeout = -1]
            /\ UNCHANGED <<request, ctrl>>
       ELSE /\ session' = [session EXCEPT ![f].pc = "notify", ![f].blocking = TRUE,
                                          ![f].stale = @ \/ ctrl[f] = "ADD"]
            /\ request' = [request EXCEPT ![f] =
                 [here |-> TRUE, timeout |-> t, asked |-> t, elapsed |-> 0]]
            /\ ctrl' = [ctrl EXCEPT ![f] = op]
  /\ UNCHANGED <<poll, epoll>>

\* Notify(): not written if another thread has pipe_mutex_.
Notify(f) ==
  /\ session[f].pc \in {"notify", "unnotify"}
  /\ \/ poll' = [poll EXCEPT !.pipe = TRUE]
     \/ /\ \E g \in Fds \ {f} : session[g].pc \in {"notify", "unnotify"}
        /\ UNCHANGED poll
  /\ session' = [session EXCEPT ![f].pc = IF @ = "notify" THEN "yield" ELSE "close"]
  /\ UNCHANGED <<request, ctrl, epoll>>

Yield(f) ==
  /\ session[f].pc = "yield"
  /\ session' = [session EXCEPT ![f].pc = "IO_WAIT"]
  /\ UNCHANGED <<poll, request, ctrl, epoll>>

\* Another NotifyTask() on the routine, such as one for its channel.
NotifiedOtherwise(f) ==
  /\ session[f].pc = "IO_WAIT"
  /\ session' = [session EXCEPT ![f].pc = "resumed", ![f].lost = FALSE]
  /\ UNCHANGED <<poll, request, ctrl, epoll>>

\* The rest of Block() and of the transfer: response_ is the last one given.
Resumed(f) ==
  LET s == session[f]
      done == s.response = "event" /\ s.ready
  IN
  /\ s.pc = "resumed"
  /\ session' = [session EXCEPT ![f].blocking = FALSE, ![f].lost = FALSE,
       ![f].ready = IF done THEN FALSE ELSE @,
       ![f].pc = IF done \/ s.timeout > 0 \/ s.blocks = MaxBlocks THEN "idle" ELSE "block",
       ![f].timeout = IF done \/ s.timeout > 0 \/ s.blocks = MaxBlocks THEN -1 ELSE @,
       ![f].blocks = IF done \/ s.timeout > 0 \/ s.blocks = MaxBlocks THEN @ ELSE @ + 1]
  /\ UNCHANGED <<poll, request, ctrl, epoll>>

\* Close(): Unblock() and Unregister(), and then close().
Unregister(f) ==
  /\ session[f].open /\ session[f].pc = "idle"
  /\ session' = [session EXCEPT ![f].blocking = FALSE,
       ![f].pc = IF request[f].here /\ ~poll.is_shutdown_ THEN "unnotify" ELSE "close"]
  /\ IF request[f].here /\ ~poll.is_shutdown_
       THEN /\ request' = [request EXCEPT ![f] = Absent]
            /\ ctrl' = [ctrl EXCEPT ![f] = "DEL"]
       ELSE UNCHANGED <<request, ctrl>>
  /\ UNCHANGED <<poll, epoll>>

CloseFd(f) ==
  /\ session[f].pc = "close"
  /\ session' = [session EXCEPT ![f].open = FALSE, ![f].pc = "idle", ![f].ready = FALSE,
                                ![f].response = "none", ![f].stale = FALSE]
  /\ epoll' = [epoll EXCEPT ![f] = "none"]
  /\ UNCHANGED <<poll, request, ctrl>>

\* Socket() or Accept() gets the descriptor again.
Reopen(f) ==
  /\ ~session[f].open /\ session[f].reopened < MaxReopen
  /\ session' = [session EXCEPT ![f].open = TRUE, ![f].reopened = @ + 1]
  /\ UNCHANGED <<poll, request, ctrl, epoll>>

\* The peer: data or buffer space arrives.
BecomesReady(f) ==
  /\ session[f].open /\ ~session[f].ready
  /\ session' = [session EXCEPT ![f].ready = TRUE]
  /\ UNCHANGED <<poll, request, ctrl, epoll>>

PollThread ==
  \/ TakeChanges \/ GetTimeoutMs \/ PollReturns \/ Clear
  \/ \E dt \in 0 .. kPollTimeoutMs : Wait(dt)
  \/ \E f \in Fds : ApplyChange(f) \/ Respond(f)
RoutineStep(f) == Register(f) \/ Notify(f) \/ Yield(f) \/ Resumed(f) \/ CloseFd(f)

PollerNext ==
  \/ PollThread \/ Shutdown
  \/ \E f \in Fds : \/ RoutineStep(f) \/ NotifiedOtherwise(f) \/ Unregister(f)
                    \/ Reopen(f) \/ BecomesReady(f)
                    \/ \E t \in Timeouts \union {-1} : Transfer(f, t)

PollerSpec == PollerInit /\ [][PollerNext]_pollerVars
PollerFairness ==
  WF_pollerVars(PollThread) /\ \A f \in Fds : WF_pollerVars(RoutineStep(f))

-----------------------------------------------------------------------------
(***************************************************************************)
(* A request times out no earlier than it asked for, counted in the whole  *)
(* milliseconds of the turns since it was handled (a turn of less than one *)
(* counts as one): not by what a turn that was under way at Register()     *)
(* had waited before.                                                      *)
(***************************************************************************)
NoEarlyTimeout ==
  \A f \in Fds :
    poll.responses[f] = "timeout" /\ request[f].here /\ request[f].timeout = -1 =>
      ctrl[f] # "none" \/ request[f].elapsed >= request[f].asked

(***************************************************************************)
(* A routine that waits in Block() is resumed when its transfer becomes    *)
(* possible and stays so, or when its timeout is over, unless the poller   *)
(* is shut down.  Two races can leave it there: its only response came     *)
(* between Register() and Yield(), when ResponseCallback() does not notify *)
(* it (lost); or an ADD met a newer change, replaced by a MOD that finds   *)
(* nothing or applied to the next session on the descriptor (stale).       *)
(***************************************************************************)
Waits(f) == session[f].pc = "IO_WAIT" /\ (session[f].ready \/ session[f].timeout > 0)
Freed(f) == \/ session[f].pc # "IO_WAIT" \/ session[f].lost
            \/ session[f].stale \/ poll.is_shutdown_
BlockedIsWoken == \A f \in Fds : Waits(f) ~> Freed(f)
=============================================================================
