------------------------- MODULE ConditionNotifier -------------------------
(***************************************************************************)
(* cyber/transport/shm/condition_notifier.cc: the ring in shared memory by *)
(* which transmitters tell the dispatchers of all processes which block to *)
(* read.  next_seq is the only atomic; infos and seqs are plain memory, so *)
(* an entry that is being assigned is Torn, and so is a copy that overlaps *)
(* the assignment.  Each notifier and each listener is a thread; its       *)
(* process attached the ring before.                                       *)
(***************************************************************************)
EXTENDS Integers, Sequences

CONSTANTS
  Notifiers, Listeners,
  Infos,        \* what is notified: (host, block, channel)
  NoInfo,       \* the default ReadableInfo the ring starts with
  Torn,         \* a half-assigned ReadableInfo
  kBufLength,
  FirstSeq,     \* next_seq when the model starts: 0 on a new ring
  MaxLag,       \* bound: how many entries anybody may fall behind
  MaxSeq        \* bound on next_seq

ASSUME NotifierAssumption ==
  /\ kBufLength \in Nat \ {0}
  /\ FirstSeq \in Nat /\ MaxLag \in Nat /\ MaxSeq \in Nat
  /\ NoInfo \notin Infos /\ Torn \notin Infos \union {NoInfo}

VARIABLES
  next_seq, infos, seqs,
  npc, nseq, ninfo,        \* Notify(): seq and info
  lpc, next_seq_, info,    \* Listen(): the member next_seq_, the result
  is_shutdown_,            \* of each thread's process
  sent,                    \* history: infos in the order of their seqs
  heard                    \* history: what the last Listen() returned

ringVars == <<next_seq, infos, seqs>>
notifyVars == <<npc, nseq, ninfo>>
listenVars == <<lpc, next_seq_, info>>
vars == <<ringVars, notifyVars, listenVars, is_shutdown_, sent, heard>>

Threads == Notifiers \union Listeners
Index(seq) == seq % kBufLength

\* A new ring, or one whose first FirstSeq entries are history (and not of
\* interest: NoInfo).
SeqAt(i) ==
  IF i < FirstSeq THEN i + kBufLength * ((FirstSeq - 1 - i) \div kBufLength)
  ELSE 0

Init ==
  /\ next_seq = FirstSeq
  /\ infos = [i \in 0 .. kBufLength - 1 |-> NoInfo]
  /\ seqs = [i \in 0 .. kBufLength - 1 |-> SeqAt(i)]
  /\ npc = [n \in Notifiers |-> "idle"]
  /\ nseq = [n \in Notifiers |-> 0]
  /\ ninfo = [n \in Notifiers |-> NoInfo]
  /\ lpc = [l \in Listeners |-> "new"]
  /\ next_seq_ = [l \in Listeners |-> FirstSeq]
  /\ info = [l \in Listeners |-> NoInfo]
  /\ is_shutdown_ = [t \in Threads |-> FALSE]
  /\ sent = <<>>
  /\ heard = [l \in Listeners |-> NoInfo]

-----------------------------------------------------------------------------
(* Notify().                                                               *)
NotifyGo(n, from, to) == npc[n] = from /\ npc' = [npc EXCEPT ![n] = to]

Notify(n, i) ==
  /\ ~is_shutdown_[n]
  /\ NotifyGo(n, "idle", "claim")
  /\ ninfo' = [ninfo EXCEPT ![n] = i]
  /\ UNCHANGED <<ringVars, nseq, listenVars, is_shutdown_, sent, heard>>

Storing == {"store", "storing", "publish"}

WithinBounds ==
  /\ next_seq < MaxSeq
  /\ \A l \in Listeners : lpc[l] # "new" => next_seq - next_seq_[l] < MaxLag
  /\ \A n \in Notifiers : npc[n] \in Storing => next_seq - nseq[n] < MaxLag

\* Fault: the entry gets its seq at once, before its info.
FaultyClaim(n) ==
  /\ NotifyGo(n, "claim", "store")
  /\ WithinBounds
  /\ nseq' = [nseq EXCEPT ![n] = next_seq]
  /\ next_seq' = next_seq + 1
  /\ seqs' = [seqs EXCEPT ![Index(next_seq)] = next_seq]
  /\ sent' = Append(sent, ninfo[n])
  /\ UNCHANGED <<infos, ninfo, listenVars, is_shutdown_, heard>>

\* fetch_add: the entry is claimed ...
Claim(n) ==
  /\ NotifyGo(n, "claim", "store")
  /\ WithinBounds
  /\ nseq' = [nseq EXCEPT ![n] = next_seq]
  /\ next_seq' = next_seq + 1
  /\ sent' = Append(sent, ninfo[n])
  /\ UNCHANGED <<infos, seqs, ninfo, listenVars, is_shutdown_, heard>>

\* ... assigned, field by field ...
StoreInfo(n) ==
  /\ NotifyGo(n, "store", "storing")
  /\ infos' = [infos EXCEPT ![Index(nseq[n])] = Torn]
  /\ UNCHANGED <<next_seq, seqs, nseq, ninfo, listenVars, is_shutdown_, sent,
                 heard>>

InfoStored(n) ==
  /\ NotifyGo(n, "storing", "publish")
  /\ infos' = [infos EXCEPT ![Index(nseq[n])] = ninfo[n]]
  /\ UNCHANGED <<next_seq, seqs, nseq, ninfo, listenVars, is_shutdown_, sent,
                 heard>>

\* Fault: the seq is the one after the claim.
FaultyStoreSeq(n) ==
  /\ NotifyGo(n, "publish", "idle")
  /\ seqs' = [seqs EXCEPT ![Index(nseq[n])] = nseq[n] + 1]
  /\ UNCHANGED <<next_seq, infos, nseq, ninfo, listenVars, is_shutdown_, sent,
                 heard>>

\* ... and published.
StoreSeq(n) ==
  /\ NotifyGo(n, "publish", "idle")
  /\ seqs' = [seqs EXCEPT ![Index(nseq[n])] = nseq[n]]
  /\ UNCHANGED <<next_seq, infos, nseq, ninfo, listenVars, is_shutdown_, sent,
                 heard>>

-----------------------------------------------------------------------------
(* The constructor and Listen().                                           *)
ListenGo(l, from, to) == lpc[l] = from /\ lpc' = [lpc EXCEPT ![l] = to]

Construct(l) ==
  /\ ListenGo(l, "new", "idle")
  /\ next_seq_' = [next_seq_ EXCEPT ![l] = next_seq]
  /\ UNCHANGED <<ringVars, notifyVars, info, is_shutdown_, sent, heard>>

Listen(l) ==
  /\ ~is_shutdown_[l]
  /\ ListenGo(l, "idle", "loop")
  /\ UNCHANGED <<ringVars, notifyVars, next_seq_, info, is_shutdown_, sent,
                 heard>>

\* while (!is_shutdown_): is there anything after what was read?
LoadNextSeq(l) ==
  /\ ListenGo(l, "loop", IF is_shutdown_[l] THEN "idle"
                         ELSE IF next_seq # next_seq_[l] THEN "check"
                         ELSE "wait")
  /\ UNCHANGED <<ringVars, notifyVars, next_seq_, info, is_shutdown_, sent,
                 heard>>

\* "seq is writing, can not read now" when the entry has another seq.
CheckSeq(l) ==
  /\ ListenGo(l, "check", IF seqs[Index(next_seq_[l])] = next_seq_[l]
                            THEN "copy" ELSE "wait")
  /\ UNCHANGED <<ringVars, notifyVars, next_seq_, info, is_shutdown_, sent,
                 heard>>

Copy(l) ==
  /\ ListenGo(l, "copy", "copying")
  /\ info' = [info EXCEPT ![l] = infos[Index(next_seq_[l])]]
  /\ UNCHANGED <<ringVars, notifyVars, next_seq_, is_shutdown_, sent, heard>>

\* Fault: next_seq_ jumps to the newest entry.
FaultyCopied(l) ==
  /\ ListenGo(l, "copying", "idle")
  /\ heard' = [heard EXCEPT
       ![l] = IF infos[Index(next_seq_[l])] = info[l] THEN info[l] ELSE Torn]
  /\ next_seq_' = [next_seq_ EXCEPT ![l] = next_seq]
  /\ UNCHANGED <<ringVars, notifyVars, info, is_shutdown_, sent>>

\* The copy is done (torn if the entry changed meanwhile): return true.
Copied(l) ==
  /\ ListenGo(l, "copying", "idle")
  /\ heard' = [heard EXCEPT
       ![l] = IF infos[Index(next_seq_[l])] = info[l] THEN info[l] ELSE Torn]
  /\ next_seq_' = [next_seq_ EXCEPT ![l] = @ + 1]
  /\ UNCHANGED <<ringVars, notifyVars, info, is_shutdown_, sent>>

\* Sleep 50us and try again, or give up when the time is over.
Wait(l) ==
  /\ \/ ListenGo(l, "wait", "loop")
     \/ ListenGo(l, "wait", "idle")
  /\ UNCHANGED <<ringVars, notifyVars, next_seq_, info, is_shutdown_, sent,
                 heard>>

-----------------------------------------------------------------------------
\* Shutdown() of the thread's process; the Reset() 100 ms later detaches the
\* ring from the process and changes nothing in it.
Shutdown(t) ==
  /\ ~is_shutdown_[t]
  /\ is_shutdown_' = [is_shutdown_ EXCEPT ![t] = TRUE]
  /\ UNCHANGED <<ringVars, notifyVars, listenVars, sent, heard>>

NotifyStep(n) == Claim(n) \/ StoreInfo(n) \/ InfoStored(n) \/ StoreSeq(n)
ListenStep(l) ==
  \/ LoadNextSeq(l) \/ CheckSeq(l) \/ Copy(l) \/ Copied(l) \/ Wait(l)

Next ==
  \/ \E n \in Notifiers : NotifyStep(n) \/ \E i \in Infos : Notify(n, i)
  \/ \E l \in Listeners : ListenStep(l) \/ Construct(l) \/ Listen(l)
  \/ \E t \in Threads : Shutdown(t)

Spec == Init /\ [][Next]_vars

-----------------------------------------------------------------------------
\* Types; in particular Listen() returns nothing torn.
TypeOK ==
  /\ next_seq \in Nat
  /\ infos \in [0 .. kBufLength - 1 -> Infos \union {NoInfo, Torn}]
  /\ seqs \in [0 .. kBufLength - 1 -> Nat]
  /\ npc \in [Notifiers -> {"idle", "claim", "store", "storing", "publish"}]
  /\ nseq \in [Notifiers -> Nat]
  /\ ninfo \in [Notifiers -> Infos \union {NoInfo}]
  /\ lpc \in [Listeners -> {"new", "idle", "loop", "check", "wait", "copy",
                            "copying"}]
  /\ next_seq_ \in [Listeners -> Nat]
  /\ info \in [Listeners -> Infos \union {NoInfo, Torn}]
  /\ is_shutdown_ \in [Threads -> BOOLEAN]
  /\ sent \in Seq(Infos)
  /\ heard \in [Listeners -> Infos \union {NoInfo}]

(***************************************************************************)
(* Listen() skips an entry with the debug line "is writing, can not read   *)
(* now": the only reason for a seq other than the expected one is that the *)
(* notifier which claimed it has not stored it yet.                        *)
(***************************************************************************)
Behind(l) == lpc[l] # "new" /\ next_seq # next_seq_[l]
Writing(seq) == \E n \in Notifiers : nseq[n] = seq /\ npc[n] \in Storing

MismatchIsWriting ==
  \A l \in Listeners :
    /\ Behind(l)
    /\ seqs[Index(next_seq_[l])] # next_seq_[l]
    => Writing(next_seq_[l])

(***************************************************************************)
(* The converse: an entry that carries the expected seq is not being       *)
(* written any more, so that Listen() never returns half an entry.         *)
(***************************************************************************)
ReadableIsWritten ==
  \A l \in Listeners :
    /\ Behind(l)
    /\ seqs[Index(next_seq_[l])] = next_seq_[l]
    => ~Writing(next_seq_[l])

(***************************************************************************)
(* The ring is a log that every listener reads in order from where it      *)
(* joined: nothing is missed, repeated, reordered or half-read.            *)
(***************************************************************************)
Log == INSTANCE BroadcastLog WITH
         log <- sent, pos <- [l \in Listeners |-> next_seq_[l] - FirstSeq]
ImplementsLog == Log!Spec

(***************************************************************************)
(* Liveness, under the fairness of Notify() and of the dispatcher's loop   *)
(* around Listen(): while a listener is up, it hears of every notification *)
(* although it polls and some entries are still being written.             *)
(***************************************************************************)
NotificationsAreHeard ==
  \A l \in Listeners : Behind(l) ~> (is_shutdown_[l] \/ ~Behind(l))
=============================================================================
