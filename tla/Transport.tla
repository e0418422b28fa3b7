----------------------------- MODULE Transport -----------------------------
(***************************************************************************)
(* cyber/transport: Transport, which hands out transmitters and receivers  *)
(* and is shut down once, with the Participant that all RTPS ends of the   *)
(* process share and the subscribers of RtpsDispatcher (of one channel).   *)
(* Creators make one end each and transmit with it, Main shuts it down;    *)
(* the fast-rtps Domain is external: the set of participants it has.       *)
(***************************************************************************)
EXTENDS Naturals

CONSTANTS
  Creators,      \* threads that create ends with Transport::Instance()
  Main,          \* the thread that shuts Transport down
  Nobody,        \* no thread
  Modes,         \* the modes the ends are created with
  ValidEnv       \* CYBER_DOMAIN_ID and CYBER_IP can be parsed: the cases

VARIABLES
  transport,     \* Transport: is_shutdown_, participant_ is not null
  participant,   \* Participant: shutdown_, fastrtps_participant_ (0: null)
  domain,        \* Domain: live participants, how many were created; late
  dispatcher_,   \* RtpsDispatcher: participant_, subs_mutex_, the entry of subs_
  user           \* each thread: where it is, its end and that end's state

transportVars == <<transport, participant, domain, dispatcher_, user>>

Users == Creators \union {Main}
NoEnd == [mode |-> "INTRA", kind |-> "none", participant_ |-> FALSE, enabled_ |-> FALSE,
          of |-> 0]

\* The constructors; Participant makes its fast-rtps participant lazily.
TransportInit ==
  /\ transport = [is_shutdown_ |-> FALSE, participant_ |-> TRUE]
  /\ participant \in [shutdown_ : {FALSE}, fastrtps_participant_ : {0}, env : ValidEnv]
  /\ domain = [live |-> {}, created |-> 0, late |-> FALSE]
  /\ dispatcher_ = [participant_ |-> TRUE, subs_mutex_ |-> Nobody, count |-> 0, sub |-> 0]
  /\ user = [t \in Users |-> [pc |-> "idle", end |-> NoEnd, got |-> 0]]

At(t, pc) == user[t].pc = pc
End(t) == user[t].end
Go(t, from, to) == At(t, from) /\ user' = [user EXCEPT ![t].pc = to]

-----------------------------------------------------------------------------
(* CreateTransmitter and CreateReceiver.                                   *)

\* Refused once Transport is shut down (a refusal changes nothing); each
\* thread keeps one end.
Create(t, kind, mode) ==
  /\ ~transport.is_shutdown_
  /\ At(t, "idle") /\ End(t).kind = "none"
  /\ user' = [user EXCEPT ![t].pc = "construct", ![t].end.kind = kind, ![t].end.mode = mode]
  /\ UNCHANGED <<transport, participant, domain, dispatcher_>>
CreateTransmitter(t, mode) == Create(t, "transmitter", mode)
CreateReceiver(t, mode) == Create(t, "receiver", mode)

\* participant() is copied into the end, unguarded against Shutdown(); a
\* hybrid end is enabled later, by the endpoint that joins, any other now.
Construct(t) ==
  /\ At(t, "construct")
  /\ user' = [user EXCEPT ![t].end.participant_ = transport.participant_,
                          ![t].pc = IF End(t).mode = "HYBRID" THEN "idle" ELSE "enable"]
  /\ UNCHANGED <<transport, participant, domain, dispatcher_>>

JoinHybrid(t) ==
  /\ End(t).mode = "HYBRID" /\ ~End(t).enabled_
  /\ Go(t, "idle", "enable")
  /\ UNCHANGED <<transport, participant, domain, dispatcher_>>

UsesRtps(t) == End(t).mode \in {"RTPS", "HYBRID"}

\* Enable() of the ends in shared memory and in the process needs nothing.
Enable(t) ==
  /\ At(t, "enable") /\ ~UsesRtps(t)
  /\ user' = [user EXCEPT ![t].pc = "idle", ![t].end.enabled_ = TRUE]
  /\ UNCHANGED <<transport, participant, domain, dispatcher_>>

\* RtpsTransmitter::Enable needs a participant ...
EnableRtpsTransmitter(t) ==
  /\ UsesRtps(t) /\ End(t).kind = "transmitter"
  /\ Go(t, "enable", IF End(t).participant_ THEN "check" ELSE "idle")
  /\ UNCHANGED <<transport, participant, domain, dispatcher_>>

\* RtpsReceiver::Enable adds the listener and is enabled, subscriber or not.
EnableReturns(t, of) ==
  user' = [user EXCEPT ![t].pc = "idle", ![t].got = 0, ![t].end.of = of,
             ![t].end.enabled_ = of # 0 \/ End(t).kind = "receiver"]

\* ... and so does AddSubscriber, which tests for it before it locks, ...
EnableRtpsReceiver(t) ==
  /\ UsesRtps(t) /\ End(t).kind = "receiver"
  /\ At(t, "enable")
  /\ IF dispatcher_.participant_ THEN Go(t, "enable", "subscribe") ELSE EnableReturns(t, 0)
  /\ UNCHANGED <<transport, participant, domain, dispatcher_>>

\* ... keeps the subscriber the channel has, and uses participant_ without
\* a second test: "undefined" is what a null pointer makes of it.
AddSubscriber(t) ==
  /\ dispatcher_.subs_mutex_ = Nobody
  /\ \/ /\ dispatcher_.count > 0
        /\ At(t, "subscribe") /\ EnableReturns(t, 0)
        /\ UNCHANGED dispatcher_
     \/ /\ dispatcher_.count = 0
        /\ Go(t, "subscribe", IF dispatcher_.participant_ THEN "check" ELSE "undefined")
        /\ dispatcher_' = [dispatcher_ EXCEPT !.subs_mutex_ = t]
  /\ UNCHANGED <<transport, participant, domain>>

-----------------------------------------------------------------------------
(* Participant.                                                            *)

\* fastrtps_participant(): the test of shutdown_ comes before the mutex, ...
CheckShutdown(t) ==
  /\ At(t, "check")
  /\ user' = [user EXCEPT ![t].pc = IF participant.shutdown_ THEN "endpoint" ELSE "lock",
                          ![t].got = 0]
  /\ UNCHANGED <<transport, participant, domain, dispatcher_>>

\* ... under which the participant is made if there is none.  Its attributes
\* come from the configuration; an environment that cannot be parsed, or
\* Domain::createParticipant, may make it fail.
CreateFastRtpsParticipant(t) ==
  \/ /\ participant.env
     /\ participant' = [participant EXCEPT !.fastrtps_participant_ = domain.created + 1]
     /\ domain' = [domain EXCEPT !.created = @ + 1, !.live = @ \union {domain.created + 1}]
     /\ user' = [user EXCEPT ![t].pc = "endpoint", ![t].got = domain.created + 1]
  \/ /\ UNCHANGED <<participant, domain>>
     /\ user' = [user EXCEPT ![t].pc = "endpoint", ![t].got = 0]

\* Fault: the participant a process has is not looked for.
FaultyFastRtps(t) ==
  /\ At(t, "lock")
  /\ CreateFastRtpsParticipant(t)
  /\ UNCHANGED <<transport, dispatcher_>>

fastrtps_participant(t) ==
  /\ At(t, "lock")
  /\ \/ /\ participant.fastrtps_participant_ # 0
        /\ user' = [user EXCEPT ![t].pc = "endpoint",
                                ![t].got = participant.fastrtps_participant_]
        /\ UNCHANGED <<participant, domain>>
     \/ /\ participant.fastrtps_participant_ = 0
        /\ CreateFastRtpsParticipant(t)
  /\ UNCHANGED <<transport, dispatcher_>>

\* createPublisher and createSubscriber give nothing for a participant the
\* Domain does not have; AddSubscriber returns and releases subs_mutex_.
CreateEndpoint(t) ==
  LET of == IF user[t].got \in domain.live THEN user[t].got ELSE 0 IN
  /\ At(t, "endpoint")
  /\ EnableReturns(t, of)
  /\ dispatcher_' = IF End(t).kind = "receiver"
                      THEN [dispatcher_ EXCEPT !.sub = of, !.subs_mutex_ = Nobody,
                                              !.count = IF of = 0 THEN 0 ELSE 1]
                      ELSE dispatcher_
  /\ UNCHANGED <<transport, participant, domain>>

\* RtpsTransmitter::Transmit asks the participant before it writes ...
Transmit(t) ==
  /\ UsesRtps(t) /\ End(t).kind = "transmitter" /\ End(t).enabled_
  /\ Go(t, "idle", IF participant.shutdown_ THEN "idle" ELSE "write")
  /\ UNCHANGED <<transport, participant, domain, dispatcher_>>

\* ... to a publisher that goes with its participant.
Write(t) ==
  /\ Go(t, "write", IF End(t).of \in domain.live THEN "idle" ELSE "undefined")
  /\ UNCHANGED <<transport, participant, domain, dispatcher_>>

-----------------------------------------------------------------------------
(* Transport::Shutdown, by the first thread to exchange is_shutdown_: the  *)
(* dispatchers and the notifier, then the participant.                     *)
Shutdown(t) ==
  /\ ~transport.is_shutdown_
  /\ Go(t, "idle", "sd_subs")
  /\ transport' = [transport EXCEPT !.is_shutdown_ = TRUE]
  /\ UNCHANGED <<participant, domain, dispatcher_>>

\* RtpsDispatcher::Shutdown nulls the subscribers, keeping their entries, and
\* then the participant.
ShutdownSubscribers(t) ==
  /\ Go(t, "sd_subs", "sd_dispatcher")
  /\ dispatcher_.subs_mutex_ = Nobody
  /\ dispatcher_' = [dispatcher_ EXCEPT !.sub = 0]
  /\ UNCHANGED <<transport, participant, domain>>

ShutdownDispatcher(t) ==
  /\ Go(t, "sd_dispatcher", "sd_participant")
  /\ dispatcher_' = [dispatcher_ EXCEPT !.participant_ = FALSE]
  /\ UNCHANGED <<transport, participant, domain>>

\* Participant::Shutdown: the exchange of shutdown_ (who is past the test
\* then is late), and the removal under mutex_.
ShutdownParticipant(t) ==
  /\ Go(t, "sd_participant", "sd_remove")
  /\ participant' = [participant EXCEPT !.shutdown_ = TRUE]
  /\ domain' = [domain EXCEPT !.late = \E u \in Users : At(u, "lock")]
  /\ UNCHANGED <<transport, dispatcher_>>

RemoveParticipant(t) ==
  /\ Go(t, "sd_remove", "sd_end")
  /\ domain' = [domain EXCEPT !.live = @ \ {participant.fastrtps_participant_}]
  /\ participant' = [participant EXCEPT !.fastrtps_participant_ = 0]
  /\ UNCHANGED <<transport, dispatcher_>>

ShutdownReturns(t) ==
  /\ Go(t, "sd_end", "down")
  /\ transport' = [transport EXCEPT !.participant_ = FALSE]
  /\ UNCHANGED <<participant, domain, dispatcher_>>

EndStep(t) ==
  \/ \E mode \in Modes : CreateTransmitter(t, mode) \/ CreateReceiver(t, mode)
  \/ Construct(t) \/ JoinHybrid(t) \/ Enable(t) \/ EnableRtpsTransmitter(t)
  \/ EnableRtpsReceiver(t) \/ AddSubscriber(t) \/ CheckShutdown(t)
  \/ fastrtps_participant(t) \/ CreateEndpoint(t) \/ Transmit(t) \/ Write(t)
ShutdownStep(t) ==
  \/ Shutdown(t) \/ ShutdownSubscribers(t) \/ ShutdownDispatcher(t)
  \/ ShutdownParticipant(t) \/ RemoveParticipant(t) \/ ShutdownReturns(t)

TransportNext == (\E t \in Creators : EndStep(t)) \/ ShutdownStep(Main)

-----------------------------------------------------------------------------
(***************************************************************************)
(* However ends are created while Transport::Shutdown runs: the process    *)
(* has at most one fast-rtps participant, every endpoint belongs to it     *)
(* until it is shut down, only a shutdown makes a thread use a pointer     *)
(* that has gone, and once Shutdown() has returned no participant is left, *)
(* unless a thread had passed the test of shutdown_ and not the mutex.     *)
(***************************************************************************)
ShutdownLeavesNothing ==
  /\ \A a, b \in domain.live : a = b
  /\ ~participant.shutdown_ =>
       \A t \in Users : End(t).of # 0 => End(t).of \in domain.live
  /\ \A t \in Users : At(t, "undefined") => transport.is_shutdown_
  /\ (\E t \in Users : At(t, "down")) /\ ~domain.late => domain.live = {}
=============================================================================
