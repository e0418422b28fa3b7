-------------------------- MODULE MulticastNotifier --------------------------
(***************************************************************************)
(* cyber/transport/shm/multicast_notifier.cc: processes tell each other    *)
(* with UDP multicast datagrams which block to read, and ShmDispatcher     *)
(* drops those of other hosts.  Datagrams may be lost, duplicated and      *)
(* reordered, socket buffers are limited, and anybody may send to the      *)
(* port, so a datagram can also have the wrong length.                     *)
(*                                                                         *)
(* notify_fd_ and listen_fd_ are plain ints that Shutdown() closes and     *)
(* then sets to -1, while Notify() and Listen() read them after their test *)
(* of is_shutdown_: between the two the number may be closed, or open      *)
(* again for something else.                                               *)
(***************************************************************************)
EXTENDS Naturals, FiniteSets

CONSTANTS
  Processes,
  HostOf,        \* the host_id of each process
  Blocks,        \* block_index values
  BufferSize,    \* datagrams a socket holds
  MaxNotifies    \* bound: notifications

VARIABLES
  notifier,      \* per process: is_shutdown_ and the two descriptors, each
                 \* "none", "open", "closed" or "-1"
  socket,        \* per process: datagrams received on listen_fd_
  calls,         \* per process: the Notify() and the Listen() under way
  heard,         \* history: what ShmDispatcher took, per process
  sent           \* the datagrams sent, each of which may still arrive

multicastVars == <<notifier, socket, calls, heard, sent>>

\* A datagram of another program, not ReadableInfo::kSize bytes long.
Foreign == [host |-> "none", block |-> 0]
Fds == {"notify_fd_", "listen_fd_"}
State(shut, place) == [is_shutdown_ |-> shut, fd |-> [f \in Fds |-> place]]

MulticastInit ==
  /\ notifier = [p \in Processes |-> State(FALSE, "none")]
  /\ socket = [p \in Processes |-> {}]
  /\ calls = [p \in Processes |-> [notify |-> << >>, listen |-> FALSE]]
  /\ heard = [p \in Processes |-> {}]
  /\ sent = {Foreign}

\* The constructor: when a call of Init() fails, Shutdown() closes what is
\* open before anybody sees the instance.
Init(p) ==
  /\ notifier[p] = State(FALSE, "none")
  /\ \E ok \in BOOLEAN :
       notifier' = [notifier EXCEPT ![p] = IF ok THEN State(FALSE, "open") ELSE State(TRUE, "-1")]
  /\ UNCHANGED <<socket, calls, heard, sent>>

Shutdown(p) ==
  /\ ~notifier[p].is_shutdown_ /\ notifier[p] # State(FALSE, "none")
  /\ notifier' = [notifier EXCEPT ![p].is_shutdown_ = TRUE]
  /\ UNCHANGED <<socket, calls, heard, sent>>
\* ... and then notify_fd_ before listen_fd_, each closed before it is -1.
CloseFd(p, f) ==
  /\ notifier[p].is_shutdown_
  /\ f = "listen_fd_" => notifier[p].fd["notify_fd_"] = "-1"
  /\ \E step \in {<<"open", "closed">>, <<"closed", "-1">>} :
       /\ notifier[p].fd[f] = step[1]
       /\ notifier' = [notifier EXCEPT ![p].fd[f] = step[2]]
  /\ socket' = IF f = "listen_fd_" THEN [socket EXCEPT ![p] = {}] ELSE socket
  /\ UNCHANGED <<calls, heard, sent>>

\* Notify(): the test, then sendto() on whatever notify_fd_ is by then.
NotifyBegins(p, b) ==
  /\ ~notifier[p].is_shutdown_ /\ notifier[p].fd["notify_fd_"] = "open"
  /\ calls[p].notify = << >> /\ Cardinality(sent) <= MaxNotifies
  /\ calls' = [calls EXCEPT ![p].notify = <<b>>]
  /\ UNCHANGED <<notifier, socket, heard, sent>>
SendTo(p) ==
  /\ calls[p].notify # << >>
  /\ calls' = [calls EXCEPT ![p].notify = << >>]
  /\ sent' = IF notifier[p].fd["notify_fd_"] = "open"
             THEN sent \union {[host |-> HostOf[p], block |-> calls[p].notify[1]]} ELSE sent
  /\ UNCHANGED <<notifier, socket, heard>>

\* The network: any datagram, whenever and as often as it likes.
Arrives(p, d) ==
  /\ notifier[p].fd["listen_fd_"] = "open"
  /\ Cardinality(socket[p] \union {d}) <= BufferSize
  /\ socket' = [socket EXCEPT ![p] = @ \union {d}]
  /\ UNCHANGED <<notifier, calls, heard, sent>>

\* Fault: the length is not compared with kSize.
FaultyDeserializes(d) == TRUE

\* ReadableInfo::DeserializeFrom() fails unless the length is kSize.
Deserializes(d) == d # Foreign

\* Listen(): the test, then poll() and recvfrom().  A timeout, an empty
\* socket and a closed descriptor all return false.
ListenBegins(p) ==
  /\ ~notifier[p].is_shutdown_ /\ notifier[p].fd["listen_fd_"] = "open" /\ ~calls[p].listen
  /\ calls' = [calls EXCEPT ![p].listen = TRUE]
  /\ UNCHANGED <<notifier, socket, heard, sent>>
ListenFails(p) ==
  /\ calls[p].listen /\ socket[p] = {}
  /\ calls' = [calls EXCEPT ![p].listen = FALSE]
  /\ UNCHANGED <<notifier, socket, heard, sent>>
\* ShmDispatcher::ThreadFunc takes the infos of its own host.
RecvFrom(p, d) ==
  /\ calls[p].listen /\ d \in socket[p]
  /\ calls' = [calls EXCEPT ![p].listen = FALSE]
  /\ socket' = [socket EXCEPT ![p] = @ \ {d}]
  /\ heard' = IF Deserializes(d) /\ (d = Foreign \/ d.host = HostOf[p])
              THEN [heard EXCEPT ![p] = @ \union {d}] ELSE heard
  /\ UNCHANGED <<notifier, sent>>

MulticastNext ==
  \E p \in Processes :
    \/ Init(p) \/ Shutdown(p) \/ SendTo(p) \/ ListenBegins(p) \/ ListenFails(p)
    \/ \E f \in Fds : CloseFd(p, f)
    \/ \E b \in Blocks : NotifyBegins(p, b)
    \/ \E d \in sent : Arrives(p, d) \/ RecvFrom(p, d)

-----------------------------------------------------------------------------
(***************************************************************************)
(* Whatever arrives at the port, twice, late or out of order, the          *)
(* dispatcher only reads blocks that a process of its own host announced;  *)
(* and a Shutdown() that is through has closed both descriptors, with      *)
(* nothing left to be heard by the Listen() that was under way.            *)
(***************************************************************************)
HeardIsLocal ==
  /\ \A p \in Processes : heard[p] \subseteq {d \in sent : d.host = HostOf[p]}
  /\ \A p \in Processes :
       notifier[p].fd["listen_fd_"] = "-1" =>
         notifier[p].is_shutdown_ /\ socket[p] = {} /\ notifier[p].fd["notify_fd_"] = "-1"
=============================================================================
