-------------------------- MODULE NotifierSegment --------------------------
(***************************************************************************)
(* cyber/transport/shm: how the ConditionNotifiers of a host come to share *)
(* one Indicator.  Each process opens or creates the segment of a key that *)
(* is the same for all, notifies and listens, and shuts down; the segment  *)
(* is never removed on the way out.  ConditionNotifier has the ring, here  *)
(* large enough.  The kernel is external: key is the segment the key       *)
(* names, and a segment is there while it is named or attached.            *)
(***************************************************************************)
EXTENDS Integers

CONSTANTS
  Processes,
  Nobody,          \* no process of this run
  MaxSegments,     \* bound: segments created
  MaxSeq,          \* bound: notifications
  MaxDeaths        \* bound: processes that die

VARIABLES
  kernel,          \* key, the segments created, deaths, whether shm_size_ fits
  segs,            \* each segment: its Indicator and what became of it
  proc             \* each process: where it is, managed_shm_, retry, next_seq_

openingVars == <<kernel, segs, proc>>

None == 0
Ids == 1 .. MaxSegments

\* Fresh memory is zero, as the constructor of Indicator leaves it.  written
\* has the entries that are; creator, late, abandoned and orphans are history
\* (see Construct, AttachFails and Die).
Indicator == [next_seq |-> 0, written |-> {}]
Fresh(p) == [ind |-> Indicator, creator |-> p, late |-> FALSE, abandoned |-> FALSE, orphans |-> {}]
Closed == [pc |-> "closed", shm |-> None, retry |-> 0, next_seq_ |-> 0, seq |-> 0]

\* A segment may be left from processes that ran before, used or not.
OpeningInit ==
  /\ kernel \in [key : {None, 1}, created : {1}, deaths : {0}, fits : BOOLEAN]
  /\ \E used \in {0, 1} :
       segs = [s \in Ids |-> [Fresh(Nobody) EXCEPT
         !.ind = IF s = kernel.key THEN [next_seq |-> used, written |-> 0 .. used - 1] ELSE @]]
  /\ proc = [p \in Processes |-> Closed]

At(p, pc) == proc[p].pc = pc
Shm(p) == proc[p].shm
Go(p, from, to) == At(p, from) /\ proc' = [proc EXCEPT ![p].pc = to]
Attached(p) == proc[p].pc \in {"construct", "load", "ready", "write"}
Exists(s) == kernel.key = s \/ \E p \in Processes : Attached(p) /\ Shm(p) = s

-----------------------------------------------------------------------------
(* The constructor.  A notifier whose Init() fails is shut down.           *)
\* Fault: without IPC_EXCL the segment that exists is taken for a new one.
FaultyKeyExists(p) ==
  /\ kernel.key # None /\ proc[p].retry < 2
  /\ At(p, "closed")
  /\ proc' = [proc EXCEPT ![p].pc = "attach", ![p].shm = kernel.key]
  /\ UNCHANGED <<kernel, segs>>

\* OpenOrCreate(): shmget() with IPC_CREAT | IPC_EXCL finds the key taken ...
KeyExists(p) ==
  /\ kernel.key # None /\ proc[p].retry < 2
  /\ Go(p, "closed", "open_only")
  /\ UNCHANGED <<kernel, segs>>

\* ... or creates the segment ...
CreateSegment(p) ==
  LET s == kernel.created + 1 IN
  /\ kernel.key = None /\ kernel.fits /\ proc[p].retry < 2
  /\ kernel.created < MaxSegments
  /\ At(p, "closed")
  /\ proc' = [proc EXCEPT ![p].pc = "attach", ![p].shm = s]
  /\ segs' = [segs EXCEPT ![s] = Fresh(p)]
  /\ kernel' = [kernel EXCEPT !.key = s, !.created = s]

\* ... or fails with EINVAL: Reset() and Remove(), of nothing, and once more.
TooLarge(p) ==
  /\ kernel.key = None /\ ~kernel.fits /\ proc[p].retry < 2
  /\ At(p, "closed")
  /\ proc' = [proc EXCEPT ![p].retry = @ + 1]
  /\ UNCHANGED <<kernel, segs>>

\* Two failures, or an error of any other kind.
CreateFails(p) ==
  /\ proc[p].retry = 2 \/ kernel.key = None
  /\ Go(p, "closed", "down")
  /\ UNCHANGED <<kernel, segs>>

\* shmat(); a creator that cannot attach removes its segment, whoever has
\* opened it by now.
AttachFails(p) ==
  /\ Go(p, "attach", "down")
  /\ kernel' = [kernel EXCEPT !.key = IF @ = Shm(p) THEN None ELSE @]
  /\ segs' = [segs EXCEPT ![Shm(p)].abandoned = TRUE]
Attach(p) ==
  /\ Go(p, "attach", "construct")
  /\ UNCHANGED <<kernel, segs>>

\* new (managed_shm_) Indicator(), perhaps over one that is in use: late.
Construct(p) ==
  /\ Go(p, "construct", "load")
  /\ segs' = [segs EXCEPT ![Shm(p)].ind = Indicator,
                          ![Shm(p)].late = @ \/ (segs[Shm(p)].creator = p
                                                   /\ segs[Shm(p)].ind.next_seq > 0)]
  /\ UNCHANGED kernel

\* OpenOnly(): the segment may have gone, before shmget() or before shmat().
OpenOnly(p) ==
  /\ At(p, "open_only")
  /\ proc' = [proc EXCEPT ![p].pc = IF kernel.key = None THEN "down" ELSE "attach_only",
                          ![p].shm = kernel.key]
  /\ UNCHANGED <<kernel, segs>>
AttachOnly(p) ==
  /\ Exists(Shm(p))
  /\ Go(p, "attach_only", "load")
  /\ UNCHANGED <<kernel, segs>>
AttachOnlyFails(p) ==
  /\ Go(p, "attach_only", "down")
  /\ UNCHANGED <<kernel, segs>>

\* The constructor ends with the number of the next notification.
LoadNextSeq(p) ==
  /\ At(p, "load")
  /\ proc' = [proc EXCEPT ![p].pc = "ready", ![p].next_seq_ = segs[Shm(p)].ind.next_seq]
  /\ UNCHANGED <<kernel, segs>>

-----------------------------------------------------------------------------
(* Notify(), Listen() and Shutdown().                                      *)
\* fetch_add, and then the entry.
Claim(p) ==
  LET ind == segs[Shm(p)].ind IN
  /\ At(p, "ready") /\ ind.next_seq < MaxSeq
  /\ proc' = [proc EXCEPT ![p].pc = "write", ![p].seq = ind.next_seq]
  /\ segs' = [segs EXCEPT ![Shm(p)].ind.next_seq = @ + 1]
  /\ UNCHANGED kernel
WriteEntry(p) ==
  /\ Go(p, "write", "ready")
  /\ segs' = [segs EXCEPT ![Shm(p)].ind.written = @ \union {proc[p].seq}]
  /\ UNCHANGED kernel

\* One poll that finds the number it expects: that of an entry written, or
\* the 0 that entry 0 has from the start.
Listen(p) ==
  LET ind == segs[Shm(p)].ind  n == proc[p].next_seq_ IN
  /\ At(p, "ready")
  /\ n # ind.next_seq
  /\ n = 0 \/ n \in ind.written
  /\ proc' = [proc EXCEPT ![p].next_seq_ = @ + 1]
  /\ UNCHANGED <<kernel, segs>>

\* Shutdown() waits and detaches; the segment stays.
Shutdown(p) ==
  /\ At(p, "ready")
  /\ proc' = [proc EXCEPT ![p] = [Closed EXCEPT !.pc = "down"]]
  /\ UNCHANGED <<kernel, segs>>

\* A process dies, anywhere, and the kernel detaches it; the number it had
\* claimed is written by nobody.
Die(p) ==
  /\ kernel.deaths < MaxDeaths /\ ~At(p, "down")
  /\ kernel' = [kernel EXCEPT !.deaths = @ + 1]
  /\ proc' = [proc EXCEPT ![p] = [Closed EXCEPT !.pc = "down"]]
  /\ segs' = IF At(p, "write") THEN [segs EXCEPT ![Shm(p)].orphans = @ \union {proc[p].seq}]
                               ELSE segs

OpeningNext ==
  \E p \in Processes :
    \/ KeyExists(p) \/ CreateSegment(p) \/ TooLarge(p) \/ CreateFails(p)
    \/ AttachFails(p) \/ Attach(p) \/ Construct(p)
    \/ OpenOnly(p) \/ AttachOnly(p) \/ AttachOnlyFails(p) \/ LoadNextSeq(p)
    \/ Claim(p) \/ WriteEntry(p) \/ Listen(p) \/ Shutdown(p) \/ Die(p)

-----------------------------------------------------------------------------
(***************************************************************************)
(* Whoever opens first, dies half-way or finds a segment of earlier times, *)
(* the notifiers that are ready meet in the segment of the key, unless its *)
(* creator could not attach; and a listener is owed only numbers that were *)
(* given out, and each of them is written, is being written or was claimed *)
(* by a process that died, unless the Indicator was constructed after a    *)
(* notification.                                                           *)
(***************************************************************************)
NotifiersMeet ==
  \A p \in Processes : At(p, "ready") =>
    LET s == segs[Shm(p)] IN
    /\ Shm(p) = kernel.key \/ s.abandoned
    /\ ~s.late =>
         /\ proc[p].next_seq_ <= s.ind.next_seq
         /\ \A n \in proc[p].next_seq_ .. s.ind.next_seq - 1 :
              \/ n \in s.ind.written \union s.orphans
              \/ \E q \in Processes : At(q, "write") /\ Shm(q) = Shm(p) /\ proc[q].seq = n
=============================================================================
