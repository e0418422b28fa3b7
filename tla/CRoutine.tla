------------------------------ MODULE CRoutine ------------------------------
(***************************************************************************)
(* cyber/croutine: the part of a CRoutine that threads share.  A routine   *)
(* is run by at most one processor at a time because it is entered through *)
(* the test-and-set flag lock_; everybody else only reads state_ and       *)
(* clears updated_ (cleared means "an event is pending").                  *)
(***************************************************************************)
CONSTANT Routines

VARIABLES
  state_,        \* RoutineState of each routine
  lock_,         \* atomic_flag: TRUE while somebody holds the routine
  updated_,      \* atomic_flag: FALSE when a notification is pending
  force_stop_    \* set by Stop(), never reset

croutineVars == <<state_, lock_, updated_, force_stop_>>

RoutineState == {"READY", "FINISHED", "SLEEP", "IO_WAIT", "DATA_WAIT"}

\* The states SetUpdateFlag and UpdateState care about.
Waiting == {"DATA_WAIT", "IO_WAIT"}

CRoutineTypeOK ==
  /\ state_ \in [Routines -> RoutineState]
  /\ lock_ \in [Routines -> BOOLEAN]
  /\ updated_ \in [Routines -> BOOLEAN]
  /\ force_stop_ \in [Routines -> BOOLEAN]

CRoutineInit ==
  /\ state_ = [c \in Routines |-> "READY"]
  /\ lock_ = [c \in Routines |-> FALSE]
  /\ updated_ = [c \in Routines |-> TRUE]
  /\ force_stop_ = [c \in Routines |-> FALSE]

\* The constructor: READY, nobody holds it, no event pending.
Construct(c) ==
  /\ state_' = [state_ EXCEPT ![c] = "READY"]
  /\ lock_' = [lock_ EXCEPT ![c] = FALSE]
  /\ updated_' = [updated_ EXCEPT ![c] = TRUE]
  /\ force_stop_' = [force_stop_ EXCEPT ![c] = FALSE]

\* Fault: a plain store where the flag is tested and set.
FaultyAcquire(c) == lock_' = [lock_ EXCEPT ![c] = TRUE]

Acquire(c) ==
  /\ ~lock_[c]
  /\ lock_' = [lock_ EXCEPT ![c] = TRUE]

Release(c) == lock_' = [lock_ EXCEPT ![c] = FALSE]

SetUpdateFlag(c) == updated_' = [updated_ EXCEPT ![c] = FALSE]

Stop(c) == force_stop_' = [force_stop_ EXCEPT ![c] = TRUE]

SetState(c, s) == state_' = [state_ EXCEPT ![c] = s]

\* The state UpdateState() leaves; due says that wake_time_ has passed.
NextState(c, due) ==
  IF \/ state_[c] = "SLEEP" /\ due
     \/ state_[c] \in Waiting /\ ~updated_[c]
    THEN "READY" ELSE state_[c]

\* Fault: an elapsed sleep is noticed but the state is left SLEEP.
FaultyUpdateState(c, due) ==
  /\ SetState(c, IF state_[c] = "SLEEP" THEN "SLEEP" ELSE NextState(c, due))
  /\ updated_' = IF state_[c] = "SLEEP" /\ due
                   THEN updated_ ELSE [updated_ EXCEPT ![c] = TRUE]

\* UpdateState(): an elapsed sleep wins and leaves the flag alone, otherwise
\* the flag is tested and set, whatever the state.
UpdateState(c, due) ==
  /\ SetState(c, NextState(c, due))
  /\ updated_' = IF state_[c] = "SLEEP" /\ due
                   THEN updated_ ELSE [updated_ EXCEPT ![c] = TRUE]
=============================================================================
