------------------------------- MODULE RWLock -------------------------------
(***************************************************************************)
(* What a read-write lock promises its guards (base/rw_lock_guard.h): any  *)
(* number of readers or one writer.                                        *)
(***************************************************************************)
CONSTANT Threads

VARIABLES readers, writers

vars == <<readers, writers>>

Init == readers = {} /\ writers = {}

ReadLock(t) ==
  /\ t \notin readers /\ writers = {}
  /\ readers' = readers \union {t}
  /\ UNCHANGED writers

WriteLock(t) ==
  /\ readers = {} /\ writers = {}
  /\ writers' = {t}
  /\ UNCHANGED readers

ReadUnlock(t) ==
  /\ t \in readers
  /\ readers' = readers \ {t}
  /\ UNCHANGED writers

WriteUnlock(t) ==
  /\ t \in writers
  /\ writers' = writers \ {t}
  /\ UNCHANGED readers

Next ==
  \E t \in Threads :
    ReadLock(t) \/ WriteLock(t) \/ ReadUnlock(t) \/ WriteUnlock(t)

Spec == Init /\ [][Next]_vars
=============================================================================
