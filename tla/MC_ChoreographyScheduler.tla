---------------------- MODULE MC_ChoreographyScheduler ----------------------
(***************************************************************************)
(* Instances of ChoreographyScheduler.  In one configuration two routines  *)
(* of different priority share a pinned processor; in another a routine is *)
(* left to two processors of the pool, beside an idle pinned one; in the   *)
(* third a routine is configured for a processor that does not exist.      *)
(***************************************************************************)
EXTENDS ChoreographyScheduler, TLC
CONSTANTS r1, r2

\* r2 goes first; in a pool its priority is the last but beyond MaxPrio.
Prios == r1 :> 0 @@ r2 :> 2

PinnedConf == [proc_num_ |-> 1, task_pool_size_ |-> 0,
               processor |-> r1 :> 0 @@ r2 :> 0, prio |-> Prios]
PoolConf == [proc_num_ |-> 1, task_pool_size_ |-> 2,
             processor |-> r1 :> Pool @@ r2 :> Pool, prio |-> Prios]
BeyondConf == [proc_num_ |-> 1, task_pool_size_ |-> 1,
               processor |-> r1 :> 1 @@ r2 :> Pool, prio |-> Prios]

RoutableConfs == {PinnedConf, PoolConf}
BeyondConfs == {BeyondConf}

\* The pool is left with one task.
TasksOf(f) == IF f = PoolConf THEN {r2} ELSE {r1, r2}
MCNext == Next /\ \A k \in Clients : arg'[k] \in TasksOf(conf) \union {None}
MCSpec == Init /\ [][MCNext]_vars

(***************************************************************************)
(* Fairness, for the configuration with pinned processors only.  Every     *)
(* thread keeps running.  Who asks for the lock of a queue gets it: a      *)
(* writer because AtomicRWLock prefers it (WriterGetsIn), a reader because *)
(* clients do not create and remove tasks all the time.                    *)
(***************************************************************************)
pinned == conf = PinnedConf
Fairly(A) == pinned /\ A /\ UNCHANGED conf
MCFairSpec ==
  /\ MCSpec
  /\ WF_vars(Fairly(ProcessorStep(0))) /\ SF_vars(Fairly(NextRoutine(0)))
  /\ \A k \in Clients : /\ WF_vars(Fairly(ClientStep(k)))
                        /\ SF_vars(Fairly(DispatchEnqueue(k)))
                        /\ SF_vars(Fairly(RemoveWriteLock(k)))

(***************************************************************************)
(* With pinned processors only, whose Wait() is bounded: a routine that is *)
(* notified fetches its message in spite of notified_, and Shutdown()      *)
(* returns.                                                                *)
(***************************************************************************)
PinnedMessageIsFetched == pinned => MessageIsFetched
PinnedShutdownReturns == pinned => ShutdownReturns
=============================================================================
