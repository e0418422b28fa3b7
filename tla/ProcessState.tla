---------------------------- MODULE ProcessState ----------------------------
(***************************************************************************)
(* cyber/init.cc and cyber/state.h: the life of the process.  Init() and   *)
(* Clear() hold g_mutex; the SIGINT handler OnShutdown() holds nothing and *)
(* tests and sets g_cyber_state in two steps, on any thread at any moment  *)
(* after std::signal().  Clear() is called by the application and by the   *)
(* exit handler.                                                           *)
(***************************************************************************)
EXTENDS Naturals, Sequences

CONSTANTS
  Callers,      \* threads that call Init() and Clear()
  MaxSignals    \* bound: SIGINTs, one handler each

VARIABLES
  state,        \* g_cyber_state
  caller,       \* per thread: where it is in Init() or Clear()
  handler,      \* per signal: where its OnShutdown() is
  globals,      \* async_logger, g_atexit_registered, the handler installed,
                \* how many Clear()s have cleaned up and of the current one
                \* how many singletons
  lapses        \* history: Init() overwrote a signal; handlers begun before
                \* STATE_SHUTDOWN; one of those overwrote it

processVars == <<state, caller, handler, globals, lapses>>

\* What Clear() cleans up, in this order.
CleanUps == <<"TaskManager", "TimingWheel", "scheduler", "TopologyManager",
              "Transport", "logger">>

ProcessInit ==
  /\ state = "UNINITIALIZED"
  /\ caller = [t \in Callers |-> "out"]
  /\ handler = [s \in 1..MaxSignals |-> "none"]
  /\ globals = [logger |-> "none", atexit |-> FALSE, signal |-> FALSE,
                cleared |-> 0, step |-> 0]
  /\ lapses = [overwritten |-> FALSE, early |-> {}, revived |-> FALSE]

IsShutdown == state \in {"SHUTTING_DOWN", "SHUTDOWN"}
MutexFree == \A t \in Callers : caller[t] = "out"
Enter(t, pc) == MutexFree /\ caller' = [caller EXCEPT ![t] = pc]
Goto(t, from, to) == caller[t] = from /\ caller' = [caller EXCEPT ![t] = to]

\* Init(): the logger is started before the state is set.
Init(t) ==
  /\ state = "UNINITIALIZED"
  /\ Enter(t, "init")
  /\ globals' = [globals EXCEPT !.logger = "running"]
  /\ UNCHANGED <<state, handler, lapses>>
\* std::signal()
InstallHandler(t) ==
  /\ Goto(t, "init", "atexit")
  /\ globals' = [globals EXCEPT !.signal = TRUE]
  /\ UNCHANGED <<state, handler, lapses>>
\* std::atexit() may fail: Init() returns false with the logger running.
RegisterExit(t) ==
  /\ caller[t] = "atexit"
  /\ \/ /\ caller' = [caller EXCEPT ![t] = "set"]
        /\ globals' = [globals EXCEPT !.atexit = TRUE]
     \/ /\ ~globals.atexit
        /\ caller' = [caller EXCEPT ![t] = "out"]
        /\ UNCHANGED globals
  /\ UNCHANGED <<state, handler, lapses>>
SetInitialized(t) ==
  /\ Goto(t, "set", "out")
  /\ state' = "INITIALIZED"
  /\ lapses' = [lapses EXCEPT !.overwritten = @ \/ IsShutdown]
  /\ UNCHANGED <<handler, globals>>

\* Clear(), and ExitHandle()
Clear(t) ==
  /\ state \notin {"SHUTDOWN", "UNINITIALIZED"}
  /\ Enter(t, "clear")
  /\ globals' = [globals EXCEPT !.cleared = @ + 1, !.step = 0]
  /\ UNCHANGED <<state, handler, lapses>>
CleanUp(t) ==
  /\ caller[t] = "clear" /\ globals.step < Len(CleanUps)
  /\ globals' = [globals EXCEPT !.step = @ + 1,
       !.logger = IF CleanUps[globals.step + 1] = "logger" THEN "stopped" ELSE @]
  /\ UNCHANGED <<state, caller, handler, lapses>>
SetShutdown(t) ==
  /\ globals.step = Len(CleanUps) /\ Goto(t, "clear", "out")
  /\ state' = "SHUTDOWN"
  /\ UNCHANGED <<handler, globals, lapses>>

Begun(s) == lapses' = [lapses EXCEPT !.early = IF state = "SHUTDOWN" THEN @ ELSE @ \union {s}]

\* Fault: the handler does not look at the state first.
FaultyOnShutdown(s) ==
  /\ globals.signal /\ handler[s] = "none"
  /\ handler' = [handler EXCEPT ![s] = "set"]
  /\ Begun(s)
  /\ UNCHANGED <<state, caller, globals>>

\* AsyncShutdown() or a SIGINT from outside, and OnShutdown() of it.
OnShutdown(s) ==
  /\ globals.signal /\ handler[s] = "none"
  /\ handler' = [handler EXCEPT ![s] = IF state = "SHUTDOWN" THEN "done" ELSE "set"]
  /\ Begun(s)
  /\ UNCHANGED <<state, caller, globals>>

SetShuttingDown(s) ==
  /\ handler[s] = "set"
  /\ handler' = [handler EXCEPT ![s] = "done"]
  /\ state' = "SHUTTING_DOWN"
  /\ lapses' = [lapses EXCEPT !.revived = @ \/ (state = "SHUTDOWN" /\ s \in lapses.early)]
  /\ UNCHANGED <<caller, globals>>

ProcessNext ==
  \/ \E t \in Callers :
       \/ Init(t) \/ InstallHandler(t) \/ RegisterExit(t) \/ SetInitialized(t)
       \/ Clear(t) \/ CleanUp(t) \/ SetShutdown(t)
  \/ \E s \in 1..MaxSignals : OnShutdown(s) \/ SetShuttingDown(s)

-----------------------------------------------------------------------------
(***************************************************************************)
(* A handled SIGINT keeps IsShutdown() true for the rest of the process,   *)
(* so that the loops that poll it end, unless Init() had not yet stored    *)
(* STATE_INITIALIZED; STATE_SHUTDOWN means that every singleton is cleaned *)
(* up and the logger has stopped; and the singletons are cleaned up once,  *)
(* unless a handler that had begun before STATE_SHUTDOWN overwrote it.     *)
(***************************************************************************)
ShutdownIsHeard ==
  /\ (\E s \in 1..MaxSignals : handler[s] = "done") /\ ~lapses.overwritten => IsShutdown
  /\ state = "SHUTDOWN" => globals.logger = "stopped" /\ globals.step = Len(CleanUps)
  /\ ~lapses.revived => globals.cleared <= 1
=============================================================================
