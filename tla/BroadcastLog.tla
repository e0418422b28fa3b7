---------------------------- MODULE BroadcastLog ----------------------------
(***************************************************************************)
(* What a shared-memory notifier promises (transport/shm/notifier_base.h   *)
(* as ShmTransmitter and ShmDispatcher use it): notifications form one log *)
(* and each listener reads it in order from where it joined, missing none. *)
(***************************************************************************)
EXTENDS Naturals, Sequences

CONSTANTS Listeners, Infos

VARIABLES
  log,    \* everything notified
  pos,    \* how many entries each listener has passed
  heard   \* what each listener's last Listen() returned

vars == <<log, pos, heard>>

Init == log = <<>> /\ pos = [l \in Listeners |-> 0]

Notify(i) == log' = Append(log, i) /\ UNCHANGED <<pos, heard>>

\* A listener joins at the end of the log.
Join(l) == pos' = [pos EXCEPT ![l] = Len(log)] /\ UNCHANGED <<log, heard>>

Listen(l) ==
  /\ pos[l] < Len(log)
  /\ pos' = [pos EXCEPT ![l] = @ + 1]
  /\ heard' = [heard EXCEPT ![l] = log[pos[l] + 1]]
  /\ UNCHANGED log

Next ==
  \/ \E i \in Infos : Notify(i)
  \/ \E l \in Listeners : Join(l) \/ Listen(l)

Spec == Init /\ [][Next]_vars
=============================================================================
