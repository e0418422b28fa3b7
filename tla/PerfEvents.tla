----------------------------- MODULE PerfEvents -----------------------------
(***************************************************************************)
(* cyber/event/perf_event_cache.cc: threads stamp scheduling and transport *)
(* events and put them into a BoundedQueue; the io thread writes them to a *)
(* file, each flushed by its std::endl (and again every kFlushSize).       *)
(* Nobody calls CleanUp() on the singleton, and it is never deleted: the   *)
(* io thread only ends when the process shuts down.  An event is its       *)
(* thread and its stamp.                                                   *)
(***************************************************************************)
EXTENDS Naturals, Sequences, SequencesExt

CONSTANTS
  Adders,        \* threads that add events
  QueueSize,     \* kEventQueueSize
  FlushSize,     \* kFlushSize
  MaxEvents      \* bound: events

VARIABLES
  cache,         \* the events of event_queue_, whether the process shuts down
  adder,         \* per thread: the event it has stamped
  io,            \* the io thread: its place, written to of_, buf_size
  stamps         \* history: events stamped, accepted by the queue

perfVars == <<cache, adder, io, stamps>>
NoEvent == <<>>

PerfInit ==
  /\ cache = [queue |-> << >>, shutdown |-> FALSE]
  /\ adder = [t \in Adders |-> NoEvent]
  /\ io = [pc |-> "test", file |-> << >>, buf_size |-> 0]
  /\ stamps = [clock |-> 0, accepted |-> << >>]

\* AddSchedEvent(), AddTransportEvent(): Now() is read before Enqueue().
Stamp(t) ==
  /\ adder[t] = NoEvent /\ stamps.clock < MaxEvents
  /\ adder' = [adder EXCEPT ![t] = <<t, stamps.clock + 1>>]
  /\ stamps' = [stamps EXCEPT !.clock = @ + 1]
  /\ UNCHANGED <<cache, io>>

\* Fault: with a full queue the event is dropped with the one before it.
FaultyEnqueue(t) ==
  /\ adder[t] # NoEvent
  /\ adder' = [adder EXCEPT ![t] = NoEvent]
  /\ cache' = [cache EXCEPT !.queue =
       IF Len(@) < QueueSize THEN Append(@, adder[t]) ELSE Tail(@)]
  /\ stamps' = [stamps EXCEPT !.accepted =
       IF Len(cache.queue) < QueueSize THEN Append(@, adder[t]) ELSE @]
  /\ UNCHANGED io

\* The result is ignored: with a full queue the event is dropped.
Enqueue(t) ==
  /\ adder[t] # NoEvent
  /\ adder' = [adder EXCEPT ![t] = NoEvent]
  /\ IF Len(cache.queue) < QueueSize
       THEN /\ cache' = [cache EXCEPT !.queue = Append(@, adder[t])]
            /\ stamps' = [stamps EXCEPT !.accepted = Append(@, adder[t])]
       ELSE UNCHANGED <<cache, stamps>>
  /\ UNCHANGED io

\* Run(): the loop's condition ...
Test ==
  /\ io.pc = "test"
  /\ io' = [io EXCEPT !.pc = IF cache.shutdown THEN "ended" ELSE "wait"]
  /\ UNCHANGED <<cache, adder, stamps>>

\* ... and WaitDequeue(), which sleeps until there is an event: nobody breaks
\* the wait, so that shutting down is only noticed after one more.
Write ==
  /\ io.pc = "wait" /\ cache.queue # << >>
  /\ io' = [io EXCEPT !.pc = "test", !.file = Append(@, Head(cache.queue)),
                      !.buf_size = IF @ + 1 >= FlushSize THEN 0 ELSE @ + 1]
  /\ cache' = [cache EXCEPT !.queue = Tail(@)]
  /\ UNCHANGED <<adder, stamps>>

ProcessShutsDown ==
  /\ ~cache.shutdown
  /\ cache' = [cache EXCEPT !.shutdown = TRUE]
  /\ UNCHANGED <<adder, io, stamps>>

PerfNext ==
  \/ \E t \in Adders : Stamp(t) \/ Enqueue(t)
  \/ Test \/ Write \/ ProcessShutsDown

-----------------------------------------------------------------------------
(***************************************************************************)
(* The file holds the accepted events, each once and in the order of the   *)
(* queue, and so every thread's in the order of its stamps (those of       *)
(* different threads need not be), whatever the full queue has refused.    *)
(***************************************************************************)
PerfFileIsExact ==
  /\ io.file \o cache.queue = stamps.accepted
  /\ \A i, j \in DOMAIN io.file :
       i < j /\ io.file[i][1] = io.file[j][1] => io.file[i][2] < io.file[j][2]
=============================================================================
