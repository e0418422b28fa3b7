-------------------------- MODULE ReentrantRWLock --------------------------
(***************************************************************************)
(* cyber/base/reentrant_rw_lock.h: AtomicRWLock whose writer may lock      *)
(* again, for reading or writing, because write_thread_id_ names it.  The  *)
(* id is stored after lock_num_ is taken and cleared after lock_num_ is    *)
(* free, so a late clear can erase the id of the next writer; `erased'     *)
(* records that it happened.  Guards unlock in the reverse order of their  *)
(* locks.  The id fits a word and is read and written whole.               *)
(***************************************************************************)
EXTENDS Integers, Sequences, FiniteSets

CONSTANTS
  Lockers,        \* threads
  WritersFirst,   \* write_first_
  MaxNesting      \* bound: locks a thread holds at once

VARIABLES
  reentrant,      \* lock_num_, write_lock_wait_num_, write_thread_id_
  locker,         \* per thread: pc, the local lock_num, the locks it holds
  erased          \* history: a clear has hit another writer's id

reentrantVars == <<reentrant, locker, erased>>

RW_LOCK_FREE == 0
WRITE_EXCLUSIVE == -1
NULL_THREAD_ID == "null_thread"

ReentrantInit ==
  /\ reentrant = [num |-> RW_LOCK_FREE, waiting |-> 0, writer |-> NULL_THREAD_ID]
  /\ locker = [t \in Lockers |-> [pc |-> "run", num |-> 0, held |-> << >>]]
  /\ erased = FALSE

Held(t, kind) == \E i \in DOMAIN locker[t].held : locker[t].held[i] = kind
\* A thread that only reads does not lock again: with write_first_ it would
\* wait for a writer that waits for it.
MayLock(t) ==
  /\ locker[t].pc = "run" /\ Len(locker[t].held) < MaxNesting
  /\ locker[t].held = << >> \/ Held(t, "write")

Acquired(t, kind) ==
  locker' = [locker EXCEPT ![t].pc = "run", ![t].held = Append(@, kind)]

ReadLock(t) ==
  /\ MayLock(t)
  /\ IF reentrant.writer = t
       THEN Acquired(t, "read")
       ELSE locker' = [locker EXCEPT ![t].pc = "read", ![t].num = reentrant.num]
  /\ UNCHANGED <<reentrant, erased>>

MustWait(t) ==
  \/ locker[t].num < RW_LOCK_FREE
  \/ WritersFirst /\ reentrant.waiting > 0

ReadSpin(t) ==
  /\ locker[t].pc = "read" /\ MustWait(t)
  /\ locker' = [locker EXCEPT ![t].num = reentrant.num]
  /\ UNCHANGED <<reentrant, erased>>
ReadPass(t) ==
  /\ locker[t].pc = "read" /\ ~MustWait(t)
  /\ locker' = [locker EXCEPT ![t].pc = "cas"]
  /\ UNCHANGED <<reentrant, erased>>
ReadCas(t) ==
  /\ locker[t].pc = "cas"
  /\ \/ /\ reentrant.num = locker[t].num
        /\ reentrant' = [reentrant EXCEPT !.num = @ + 1]
        /\ Acquired(t, "read")
     \/ /\ locker' = [locker EXCEPT ![t].pc = "read", ![t].num = reentrant.num]
        /\ UNCHANGED reentrant
  /\ UNCHANGED erased

WriteLock(t) ==
  /\ MayLock(t)
  /\ IF reentrant.writer = t
       THEN /\ reentrant' = [reentrant EXCEPT !.num = @ - 1]
            /\ Acquired(t, "write")
       ELSE /\ reentrant' = [reentrant EXCEPT !.waiting = @ + 1]
            /\ locker' = [locker EXCEPT ![t].pc = "write"]
  /\ UNCHANGED erased

WriteCas(t) ==
  /\ locker[t].pc = "write" /\ reentrant.num = RW_LOCK_FREE
  /\ reentrant' = [reentrant EXCEPT !.num = WRITE_EXCLUSIVE]
  /\ locker' = [locker EXCEPT ![t].pc = "name"]
  /\ UNCHANGED erased
StoreId(t) ==
  /\ locker[t].pc = "name"
  /\ reentrant' = [reentrant EXCEPT !.writer = t]
  /\ locker' = [locker EXCEPT ![t].pc = "withdraw"]
  /\ UNCHANGED erased
Withdraw(t) ==
  /\ locker[t].pc = "withdraw"
  /\ reentrant' = [reentrant EXCEPT !.waiting = @ - 1]
  /\ Acquired(t, "write")
  /\ UNCHANGED erased

Releases(t, kind) ==
  /\ locker[t].pc = "run" /\ locker[t].held # << >>
  /\ locker[t].held[Len(locker[t].held)] = kind
Released(t, pc) ==
  locker' = [locker EXCEPT ![t].pc = pc, ![t].held = SubSeq(@, 1, Len(@) - 1)]

\* Fault: a read lock inside the write lock is taken from lock_num_.
FaultyReadUnlock(t) ==
  /\ Releases(t, "read") /\ Released(t, "run")
  /\ reentrant' = [reentrant EXCEPT !.num = @ - 1]
  /\ UNCHANGED erased

ReadUnlock(t) ==
  /\ Releases(t, "read") /\ Released(t, "run")
  /\ reentrant' = [reentrant EXCEPT !.num = IF reentrant.writer = t THEN @ ELSE @ - 1]
  /\ UNCHANGED erased

WriteUnlock(t) ==
  /\ Releases(t, "write")
  /\ reentrant' = [reentrant EXCEPT !.num = @ + 1]
  /\ Released(t, IF reentrant.num = WRITE_EXCLUSIVE THEN "clear" ELSE "run")
  /\ UNCHANGED erased
ClearId(t) ==
  /\ locker[t].pc = "clear"
  /\ reentrant' = [reentrant EXCEPT !.writer = NULL_THREAD_ID]
  /\ locker' = [locker EXCEPT ![t].pc = "run"]
  /\ erased' = (erased \/ reentrant.writer \notin {t, NULL_THREAD_ID})

ReentrantNext ==
  \E t \in Lockers :
    \/ ReadLock(t) \/ ReadSpin(t) \/ ReadPass(t) \/ ReadCas(t) \/ ReadUnlock(t)
    \/ WriteLock(t) \/ WriteCas(t) \/ StoreId(t) \/ Withdraw(t)
    \/ WriteUnlock(t) \/ ClearId(t)

-----------------------------------------------------------------------------
Writers == {t \in Lockers : Held(t, "write") \/ locker[t].pc \in {"name", "withdraw"}}
WriteDepth(t) ==
  Cardinality({i \in DOMAIN locker[t].held : locker[t].held[i] = "write"})
    + (IF locker[t].pc \in {"name", "withdraw"} THEN 1 ELSE 0)
Readers == {t \in Lockers : Held(t, "read") /\ ~Held(t, "write")}

(***************************************************************************)
(* A writer is alone whatever happens, an erased id included.  And until a *)
(* late clear in WriteUnlock() erases the next writer's id, lock_num_ is   *)
(* the number of readers or minus the number of the writer's write locks,  *)
(* and the writer inside is the one write_thread_id_ names, so that its    *)
(* nested locks return at once.                                            *)
(***************************************************************************)
ReentrantExcludes ==
  /\ \A t \in Writers : Writers = {t} /\ Readers = {}
  /\ ~erased =>
       /\ \A t \in Writers : reentrant.num = -WriteDepth(t)
       /\ Writers = {} => reentrant.num = Cardinality(Readers)
       /\ \A t \in Lockers : Held(t, "write") => reentrant.writer = t
=============================================================================
