-------------------------- MODULE Transport_proofs --------------------------
(***************************************************************************)
(* Proofs about the parts of the transport in MC_Transport, for any number *)
(* of processes, receivers, writers, dispatching threads and segments.     *)
(*                                                                         *)
(* Segments, for any size classes and groups: one that is under            *)
(* construction describes itself as the smallest, so that nobody computes  *)
(* addresses beyond it; and a writer that is alone is the only one to name *)
(* segments and to abandon them.  Notifiers: descriptors are closed in     *)
(* order, and a listener only waits for numbers that were taken.           *)
(* Listeners: a slot is in the handler of its connection until it is taken *)
(* away, and nobody takes it while it is called with the lock.  The hybrid *)
(* pair: the history ends with the last message sent, and both sides of a  *)
(* pair that has messages to come stay enabled.                            *)
(***************************************************************************)
EXTENDS MC_Transport, FiniteSetTheorems, SequenceTheorems, TLAPS

LEMMA BoundTypes ==
  /\ MaxSegments \in Nat /\ MaxAdds \in Nat /\ QosDepth \in Nat /\ max_depth_ \in Nat
  /\ MaxMessages \in Nat
BY TransportAssumption

-----------------------------------------------------------------------------
(* SegmentLifecycle.                                                       *)

\* Where a call can be, by the mode of the object; a writer that is called
\* has the size of a message.
CallsAreModal ==
  /\ \A p \in Readers : /\ pc[p] \in {"idle", "index", "remap", "open", "access"}
                        /\ ret[p] \in {"idle", "index", "access"}
  /\ \A p \in Writers : pc[p] # "idle" => arg[p] \in Classes

\* init_ and shm_ between the steps of a call.
ObjectsMatch ==
  \A p \in Processes :
    /\ pc[p] \in {"index", "remap", "access"} => init_[p]
    /\ pc[p] \in {"remove", "create", "construct", "open"} => ~init_[p]
    /\ shm_[p] # 0 <=> init_[p] \/ pc[p] = "construct"

\* A segment whose State is yet to be constructed is nobody else's to
\* construct, and its memory is zero; so are the segments not yet created.
NewIsZero ==
  /\ \A g \in Gens : g > last => ceiling_msg_size_[g] = 0 /\ ~need_remap_[g]
  /\ \A p \in Processes : pc[p] = "construct" => ceiling_msg_size_[shm_[p]] = 0
  /\ \A p, q \in Processes :
       pc[p] = "construct" /\ pc[q] = "construct" /\ shm_[p] = shm_[q] => p = q

LayoutInv == LayoutIsSound /\ CallsAreModal /\ ObjectsMatch /\ NewIsZero

\* The processes of the other groups never start.
OthersRest ==
  /\ active \in Groups
  /\ \A p \in Processes \ active : pc[p] = "idle" /\ ~init_[p]

\* A writer that is alone knows that the segment it has or will open was
\* abandoned by nobody, ...
WriterIsAlone(u) ==
  /\ key # 0 /\ need_remap_[key] => pc[u] = "remove"
  /\ init_[u] => ~need_remap_[shm_[u]]
  /\ pc[u] = "open" => ret[u] = "remap"
  /\ pc[u] = "remove" => ret[u] = "access"
  /\ pc[u] \in {"create", "construct"} => ret[u] \in {"remap", "access"}
  /\ pc[u] = "create" /\ ret[u] = "access" => key = 0

\* ... and what it created for a message the message fits in.
WriterHasRoom(u) ==
  /\ pc[u] \in {"remove", "create", "construct"} /\ ret[u] = "access" => arg[u] <= conf_[u]
  /\ pc[u] = "access" => arg[u] <= conf_[u]
  /\ pc[u] = "size" => init_[u]
  /\ pc[u] # "crashed"

\* If nobody leaves, the key names the writer's segment until it abandons it.
WriterHasKey(u) ==
  /\ StaleIsMarked
  /\ init_[u] \/ pc[u] = "construct" => key = shm_[u]
  /\ pc[u] = "remove" /\ key # 0 => need_remap_[key]

SegmentInv ==
  /\ LayoutInv /\ OthersRest
  /\ \A u : active \intersect Writers = {u} =>
       /\ WriterIsAlone(u) /\ WriterHasRoom(u)
       /\ NobodyLeaves => WriterHasKey(u)

-----------------------------------------------------------------------------
(* The start.                                                              *)

LEMMA ClassTypes ==
  /\ 1 \in Classes /\ \A c \in Classes : c \in Nat /\ c >= 1 /\ Ceiling(c) = c
  /\ Ceiling(0) = 1
  /\ \A c \in Classes \union {0} : Ceiling(c) \in Classes
BY SegmentAssumption DEF Ceiling

LEMMA GenTypes ==
  ASSUME TypeOK
  PROVE  /\ last \in Nat /\ last <= MaxGen /\ MaxGen \in Nat
         /\ 0 .. last \ {0} \subseteq Gens
         /\ key # 0 => key \in Gens /\ key <= last
         /\ \A p \in Processes : shm_[p] # 0 => shm_[p] \in Gens /\ shm_[p] <= last
BY SegmentAssumption DEF TypeOK, Gens

LEMMA InitSegments == MCInit => SegmentInv
<1> SUFFICES ASSUME MCInit PROVE SegmentInv
  OBVIOUS
<1> USE DEF MCInit, Init
<1>1. TypeOK
  BY SegmentAssumption DEF TypeOK
<1>2. MappedWithin
  BY DEF MappedWithin
<1>3. CallsAreModal
  BY DEF CallsAreModal, Processes
<1>4. ObjectsMatch
  BY DEF ObjectsMatch
<1>5. NewIsZero
  BY DEF NewIsZero
<1>6. OthersRest
  BY DEF OthersRest
<1>7. ASSUME NEW u, active \intersect Writers = {u}
      PROVE  WriterIsAlone(u) /\ WriterHasRoom(u) /\ WriterHasKey(u)
  <2>1. u \in Processes
    BY <1>7 DEF Processes
  <2> QED
    BY <2>1 DEF WriterIsAlone, WriterHasRoom, WriterHasKey, StaleIsMarked
<1> QED
  BY <1>1, <1>2, <1>3, <1>4, <1>5, <1>6, <1>7 DEF SegmentInv, LayoutInv, LayoutIsSound

-----------------------------------------------------------------------------
(* The layout.                                                             *)

\* A step of one process.
Move(p) ==
  \/ ProcessStep(p)
  \/ p \in Writers /\ \E size \in Classes : AcquireBlockToWrite(p, size)
  \/ p \in Readers /\ \E i \in noted : AcquireBlockToRead(p, i)

\* Remap() and Recreate() give up the mapping.
Forget(p) == init_' = [init_ EXCEPT ![p] = FALSE] /\ shm_' = [shm_ EXCEPT ![p] = 0]

Pcs == {"idle", "index", "remap", "size", "remove", "create", "construct", "open",
          "access", "crashed"}

LEMMA ForgetTypes ==
  ASSUME TypeOK, NEW p \in Processes, Forget(p)
  PROVE  /\ init_' \in [Processes -> BOOLEAN] /\ shm_' \in [Processes -> 0 .. last]
         /\ \A r \in Processes : init_'[r] => shm_'[r] # 0
BY DEF Forget, TypeOK

\* Every step keeps the types.
LEMMA LayoutTypes ==
  ASSUME TypeOK, CallsAreModal, ObjectsMatch, NEW p \in Processes, Move(p)
  PROVE  TypeOK'
<1>1. /\ last \in Nat /\ last <= MaxGen /\ MaxGen \in Nat
      /\ shm_[p] # 0 => shm_[p] \in Gens
      /\ key # 0 => key \in Gens
  BY GenTypes
<1>2. ASSUME NEW a \in Nat, NEW first \in {"remap", "index"}, NEW open \in {"create", "open"},
             Call(p, a, first, open)
      PROVE  TypeOK'
  BY <1>2 DEF TypeOK, Call, Go, stateVars, objVars
<1>3. CASE \E size \in Classes : AcquireBlockToWrite(p, size)
  BY <1>2, <1>3, ClassTypes DEF AcquireBlockToWrite
<1>4. CASE \E i \in noted : AcquireBlockToRead(p, i)
  BY <1>2, <1>4 DEF AcquireBlockToRead, TypeOK
<1>5. CASE CheckIndex(p)
  BY <1>5 DEF TypeOK, CheckIndex, Go, stateVars, objVars
<1>6. CASE Remap(p)
  <2>1. CASE UNCHANGED <<objVars, ret>>
    BY <1>6, <2>1 DEF TypeOK, Remap, Go, stateVars, objVars
  <2>2. CASE Forget(p) /\ ret'[p] \in {"size", "access"}
    <3>1. pc' \in [Processes -> Pcs]
      BY <1>6 DEF TypeOK, Remap, Go, Pcs
    <3>2. ret' \in [Processes -> {"idle", "index", "remap", "size", "access"}]
      BY <1>6, <2>2 DEF TypeOK, Remap
    <3>3. UNCHANGED <<key, last, stateVars, conf_, arg, noted>>
      BY <1>6 DEF Remap, objVars
    <3> QED
      BY <2>2, <3>1, <3>2, <3>3, ForgetTypes DEF TypeOK, stateVars, Pcs
  <2> QED
    BY <2>1, <2>2, <1>6 DEF Remap, Forget, TypeOK
<1>7. CASE CheckSize(p)
  <2>1. p \in Writers /\ arg[p] \in Classes
    BY <1>7 DEF CheckSize, Recreate, Go, CallsAreModal, Processes
  <2>2. CASE Recreate(p)
    <3>1. conf_' = [conf_ EXCEPT ![p] = arg[p]] /\ ret' = [ret EXCEPT ![p] = "access"]
      BY <1>7, <2>1, <2>2, ClassTypes DEF CheckSize, Recreate, Go, objVars, TypeOK
    <3>2. Forget(p)
      BY <2>2 DEF Recreate, Forget
    <3>3. /\ pc' \in [Processes -> Pcs] /\ need_remap_' \in [Gens -> BOOLEAN]
          /\ conf_' \in [Processes -> Classes]
      BY <2>1, <2>2, <3>1 DEF TypeOK, Recreate, Go, Pcs
    <3> QED
      BY <1>7, <3>1, <3>2, <3>3, ForgetTypes DEF TypeOK, CheckSize, Pcs
  <2>3. CASE UNCHANGED <<objVars, ret, need_remap_>>
    BY <1>7, <2>3 DEF TypeOK, CheckSize, Recreate, Go, objVars
  <2> QED
    BY <2>2, <2>3, <1>7 DEF CheckSize
<1>8. CASE Remove(p)
  BY <1>8, <1>1 DEF TypeOK, Remove, Go, stateVars, objVars
<1>9. CASE Create(p)
  <2>1. CASE key = 0 /\ last < MaxGen /\ last' = last + 1
    <3>1. last' \in 0 .. MaxGen /\ key' \in 0 .. last' /\ 0 .. last \subseteq 0 .. last'
      BY <1>1, <1>9, <2>1 DEF Create
    <3>2. shm_' \in [Processes -> 0 .. last'] /\ \A r \in Processes : init_[r] => shm_'[r] # 0
      BY <1>1, <1>9, <2>1, <3>1 DEF TypeOK, Create, Go
    <3> QED
      BY <1>9, <2>1, <3>1, <3>2 DEF TypeOK, Create, Go, stateVars
  <2>2. CASE UNCHANGED <<last, key, shm_>>
    BY <1>9, <2>2 DEF TypeOK, Create, Go, stateVars
  <2> QED
    BY <2>1, <2>2, <1>9 DEF Create
<1>10. CASE Construct(p)
  <2>1. pc[p] = "construct" /\ shm_[p] \in Gens /\ shm_[p] # 0
    BY <1>1, <1>10 DEF Construct, Go, ObjectsMatch
  <2> QED
    BY <2>1, <1>10 DEF TypeOK, Construct, Go
<1>11. CASE OpenOnly(p)
  <2>1. CASE key = 0
    BY <1>11, <2>1 DEF TypeOK, OpenOnly, Go, Failed, objVars
  <2>2. CASE key # 0
    <3>1. Ceiling(ceiling_msg_size_[key]) \in Classes
      BY <1>1, <2>2, ClassTypes DEF TypeOK
    <3>2. /\ shm_' \in [Processes -> 0 .. last] /\ conf_' \in [Processes -> Classes]
          /\ reference_count_' \in [Gens -> Nat]
          /\ \A r \in Processes : init_'[r] => shm_'[r] # 0
      BY <1>1, <1>11, <2>2, <3>1 DEF TypeOK, OpenOnly
    <3>3. /\ init_' \in [Processes -> BOOLEAN]
          /\ pc' \in [Processes -> {"idle", "index", "remap", "size", "remove",
                                    "create", "construct", "open", "access", "crashed"}]
      BY <1>11, <2>2 DEF TypeOK, OpenOnly, Go
    <3> QED
      BY <1>11, <2>2, <3>2, <3>3 DEF TypeOK, OpenOnly
  <2> QED
    BY <2>1, <2>2
<1>12. CASE Access(p)
  <2>1. noted' \subseteq Nat
    <3>1. BlockNum[conf_[p]] \in Nat
      BY SegmentAssumption DEF TypeOK
    <3>2. UNCHANGED noted \/ \E i \in 0 .. BlockNum[conf_[p]] - 1 : noted' = noted \union {i}
      BY <1>12 DEF Access
    <3>3. \A i \in 0 .. BlockNum[conf_[p]] - 1 : i \in Nat
      BY <3>1
    <3> QED
      BY <3>2, <3>3 DEF TypeOK
  <2> QED
    BY <2>1, <1>12 DEF TypeOK, Access, Go, stateVars, objVars
<1>13. CASE Destroy(p)
  <2>1. shm_[p] \in Gens /\ reference_count_[shm_[p]] \in Nat
    BY <1>1, <1>13 DEF Destroy, TypeOK
  <2>2. reference_count_' \in [Gens -> Nat] /\ key' \in 0 .. last
    BY <1>1, <2>1, <1>13 DEF Destroy, TypeOK
  <2> QED
    BY <2>2, <1>13, ClassTypes DEF TypeOK, Destroy, callVars
<1> QED
  BY <1>3, <1>4, <1>5, <1>6, <1>7, <1>8, <1>9, <1>10, <1>11, <1>12, <1>13 DEF Move, ProcessStep

\* A step is of the control and the object of one process.
LEMMA MoveFrame ==
  ASSUME TypeOK, NEW p \in Processes, Move(p)
  PROVE  \A q \in Processes \ {p} :
           /\ pc'[q] = pc[q] /\ ret'[q] = ret[q] /\ arg'[q] = arg[q]
           /\ init_'[q] = init_[q] /\ conf_'[q] = conf_[q] /\ shm_'[q] = shm_[q]
<1> USE DEF TypeOK, Go, objVars, callVars
<1>1. CASE \/ \E size \in Classes : AcquireBlockToWrite(p, size)
           \/ \E i \in noted : AcquireBlockToRead(p, i)
  BY <1>1 DEF AcquireBlockToWrite, AcquireBlockToRead, Call
<1>2. CASE CheckIndex(p) \/ Remove(p) \/ Access(p)
  BY <1>2 DEF CheckIndex, Remove, Access
<1>3. CASE Remap(p) \/ Create(p)
  BY <1>3 DEF Remap, Create
<1>4. CASE CheckSize(p)
  BY <1>4 DEF CheckSize, Recreate
<1>5. CASE Construct(p) \/ OpenOnly(p)
  BY <1>5 DEF Construct, OpenOnly
<1>6. CASE Destroy(p)
  BY <1>6 DEF Destroy
<1> QED
  BY <1>1, <1>2, <1>3, <1>4, <1>5, <1>6 DEF Move, ProcessStep

\* What the steps do to the State of a segment: only its constructor writes
\* ceiling_msg_size_, and only Recreate() sets need_remap_.
LEMMA MoveStates ==
  ASSUME TypeOK, NEW p \in Processes, Move(p), NEW g \in Gens
  PROVE  /\ ceiling_msg_size_'[g] # ceiling_msg_size_[g] => Construct(p) /\ g = shm_[p]
         /\ need_remap_'[g] # need_remap_[g] =>
              (Construct(p) \/ (CheckSize(p) /\ Recreate(p))) /\ g = shm_[p]
<1> USE DEF TypeOK
<1>1. CASE \/ \E size \in Classes : AcquireBlockToWrite(p, size)
           \/ \E i \in noted : AcquireBlockToRead(p, i)
  BY <1>1 DEF AcquireBlockToWrite, AcquireBlockToRead, Call, stateVars
<1>2. CASE CheckIndex(p) \/ Remap(p) \/ Remove(p) \/ Create(p) \/ Access(p)
  BY <1>2 DEF CheckIndex, Remap, Remove, Create, Access, stateVars
<1>3. CASE CheckSize(p)
  BY <1>3 DEF CheckSize, Recreate
<1>4. CASE Construct(p)
  BY <1>4 DEF Construct
<1>5. CASE OpenOnly(p) \/ Destroy(p)
  BY <1>5 DEF OpenOnly, Destroy
<1> QED
  BY <1>1, <1>2, <1>3, <1>4, <1>5 DEF Move, ProcessStep

LEMMA CallsStayModal ==
  ASSUME TypeOK, CallsAreModal, NEW p \in Processes, Move(p)
  PROVE  CallsAreModal'
<1>1. \A q \in Processes \ {p} : pc'[q] = pc[q] /\ ret'[q] = ret[q] /\ arg'[q] = arg[q]
  BY MoveFrame
<1>2. ASSUME p \in Readers
      PROVE  /\ pc'[p] \in {"idle", "index", "remap", "open", "access"}
             /\ ret'[p] \in {"idle", "index", "access"}
  <2>1. /\ pc[p] \in {"idle", "index", "remap", "open", "access"}
        /\ ret[p] \in {"idle", "index", "access"} /\ p \notin Writers
        /\ p \in DOMAIN pc /\ p \in DOMAIN ret
    BY <1>2, SegmentAssumption DEF CallsAreModal, TypeOK
  <2> USE DEF Go
  <2>2. CASE \E i \in noted : AcquireBlockToRead(p, i)
    BY <2>1, <2>2 DEF AcquireBlockToRead, Call
  <2>3. CASE CheckIndex(p) \/ Remap(p) \/ Access(p)
    BY <2>1, <2>3 DEF CheckIndex, Remap, Access
  <2>4. CASE OpenOnly(p)
    BY <2>1, <2>4 DEF OpenOnly, Failed
  <2>5. CASE Destroy(p)
    BY <2>1, <2>5 DEF Destroy, callVars
  <2> QED
    BY <2>1, <2>2, <2>3, <2>4, <2>5
       DEF Move, ProcessStep, CheckSize, Recreate, Remove, Create, Construct
<1>3. ASSUME p \in Writers, pc'[p] # "idle"
      PROVE  arg'[p] \in Classes
  <2>1. arg[p] \in Classes \/ pc[p] = "idle"
    BY <1>3 DEF CallsAreModal
  <2>2. p \notin Readers /\ p \in DOMAIN pc /\ p \in DOMAIN arg
    BY <1>3, SegmentAssumption DEF TypeOK
  <2> USE DEF Go
  <2>3. CASE \E size \in Classes : AcquireBlockToWrite(p, size)
    BY <2>2, <2>3 DEF AcquireBlockToWrite, Call
  <2>4. CASE CheckIndex(p) \/ Remap(p) \/ CheckSize(p) \/ Remove(p) \/ Create(p)
    BY <2>1, <2>4 DEF CheckIndex, Remap, CheckSize, Recreate, Remove, Create
  <2>5. CASE Construct(p) \/ OpenOnly(p) \/ Access(p)
    BY <2>1, <2>5 DEF Construct, OpenOnly, Access
  <2>6. CASE Destroy(p)
    BY <2>6, <1>3 DEF Destroy, callVars
  <2> QED
    BY <2>2, <2>3, <2>4, <2>5, <2>6 DEF Move, ProcessStep
<1> QED
  BY <1>1, <1>2, <1>3 DEF CallsAreModal, Processes

LEMMA ObjectsStayMatched ==
  ASSUME TypeOK, CallsAreModal, ObjectsMatch, NEW p \in Processes, Move(p)
  PROVE  ObjectsMatch'
<1>1. \A q \in Processes \ {p} :
        pc'[q] = pc[q] /\ init_'[q] = init_[q] /\ shm_'[q] = shm_[q]
  BY MoveFrame
<1> DEFINE Matched(c, i, s) ==
             /\ c \in {"index", "remap", "access"} => i
             /\ c \in {"remove", "create", "construct", "open"} => ~i
             /\ s # 0 <=> i \/ c = "construct"
<1>2. Matched(pc[p], init_[p], shm_[p])
  BY DEF ObjectsMatch
<1>3. init_[p] \in BOOLEAN /\ last \in Nat
  BY SegmentAssumption DEF TypeOK
<1>4. Matched(pc'[p], init_'[p], shm_'[p])
  <2> USE DEF TypeOK, Go, objVars
  <2>1. CASE \/ \E size \in Classes : AcquireBlockToWrite(p, size)
             \/ \E i \in noted : AcquireBlockToRead(p, i)
    BY <1>2, <1>3, <2>1 DEF AcquireBlockToWrite, AcquireBlockToRead, Call
  <2>2. CASE CheckIndex(p) \/ Remove(p) \/ Access(p)
    BY <1>2, <1>3, <2>2 DEF CheckIndex, Remove, Access
  <2>3. CASE Remap(p)
    BY <1>2, <1>3, <2>3 DEF Remap
  <2>4. CASE CheckSize(p)
    BY <1>2, <1>3, <2>4 DEF CheckSize, Recreate
  <2>5. CASE Create(p)
    BY <1>2, <1>3, <2>5 DEF Create
  <2>6. CASE Construct(p)
    <3>1. ret[p] # "construct" /\ ret[p] \notin {"remove", "create", "open"}
      OBVIOUS
    <3> QED
      BY <1>2, <1>3, <2>6, <3>1 DEF Construct
  <2>7. CASE OpenOnly(p)
    <3>1. ret[p] # "construct" /\ ret[p] \notin {"remove", "create", "open"}
      OBVIOUS
    <3> QED
      BY <1>2, <1>3, <2>7, <3>1 DEF OpenOnly, Failed
  <2>8. CASE Destroy(p)
    BY <1>2, <1>3, <2>8 DEF Destroy, callVars
  <2> QED
    BY <2>1, <2>2, <2>3, <2>4, <2>5, <2>6, <2>7, <2>8 DEF Move, ProcessStep
<1> QED
  BY <1>1, <1>4 DEF ObjectsMatch

\* A new segment has a number that no process and no State has had; its
\* creator constructs it, whoever opens it before that.
LEMMA NewStaysZero ==
  ASSUME TypeOK, ObjectsMatch, NewIsZero, NEW p \in Processes, Move(p)
  PROVE  NewIsZero'
<1>1. last \in Nat /\ last' \in {last, last + 1}
  <2>1. last \in Nat
    BY GenTypes
  <2>2. last' = last \/ (Create(p) /\ last' = last + 1)
    BY DEF Move, ProcessStep, AcquireBlockToWrite, AcquireBlockToRead, Call, CheckIndex,
           Remap, CheckSize, Remove, Create, Construct, OpenOnly, Access, Destroy
  <2> QED
    BY <2>1, <2>2
<1>2. \A q \in Processes \ {p} : pc'[q] = pc[q] /\ shm_'[q] = shm_[q]
  BY MoveFrame
<1>3. \A q \in Processes : pc[q] = "construct" => shm_[q] \in Gens /\ shm_[q] <= last
  BY GenTypes DEF ObjectsMatch
<1>4. \A g \in Gens : /\ ceiling_msg_size_'[g] # ceiling_msg_size_[g] => Construct(p) /\ g = shm_[p]
                      /\ need_remap_'[g] # need_remap_[g] =>
                           (Construct(p) \/ CheckSize(p)) /\ g = shm_[p]
  BY MoveStates
<1>5. ASSUME NEW g \in Gens, g > last'
      PROVE  ceiling_msg_size_'[g] = 0 /\ ~need_remap_'[g]
  <2>1. g > last /\ g \in Int
    BY <1>1, <1>5 DEF Gens
  <2>2. shm_[p] \in 0 .. last
    BY DEF TypeOK
  <2>3. g # shm_[p]
    BY <1>1, <2>1, <2>2
  <2> QED
    BY <1>4, <2>1, <2>3 DEF NewIsZero
<1>6. ASSUME pc'[p] = "construct"
      PROVE  /\ Create(p) /\ last < MaxGen /\ last' = last + 1
             /\ shm_'[p] = last + 1 /\ UNCHANGED stateVars
  <2>1. ret[p] # "construct"
    BY DEF TypeOK
  <2> QED
    BY <1>6, <2>1 DEF Move, ProcessStep, AcquireBlockToWrite, AcquireBlockToRead, Call,
       CheckIndex, Remap, CheckSize, Recreate, Remove, Create, Construct, OpenOnly, Failed,
       Access, Destroy, Go, callVars, TypeOK
<1>7. ASSUME NEW q \in Processes, pc'[q] = "construct"
      PROVE  ceiling_msg_size_'[shm_'[q]] = 0
  <2>1. CASE q = p
    <3>1. last + 1 \in Gens /\ last + 1 > last
      BY <1>1, <1>6, <1>7, <2>1, GenTypes DEF Gens
    <3> QED
      BY <1>6, <1>7, <2>1, <3>1 DEF NewIsZero, stateVars
  <2>2. CASE q # p
    <3>1. pc[q] = "construct" /\ shm_'[q] = shm_[q] /\ shm_[q] \in Gens
      BY <1>2, <1>3, <1>7, <2>2
    <3>2. Construct(p) => shm_[p] # shm_[q]
      BY <2>2, <3>1 DEF NewIsZero, Construct, Go
    <3> QED
      BY <1>4, <3>1, <3>2 DEF NewIsZero
  <2> QED
    BY <2>1, <2>2
<1>8. ASSUME NEW q \in Processes, NEW r \in Processes,
             pc'[q] = "construct", pc'[r] = "construct", shm_'[q] = shm_'[r], q # r
      PROVE  FALSE
  <2>1. \A s \in Processes \ {p} : pc'[s] = "construct" => shm_'[s] <= last
    BY <1>2, <1>3
  <2>2. pc'[p] = "construct" => shm_'[p] = last + 1
    BY <1>6
  <2>3. CASE q # p /\ r # p
    BY <1>2, <1>8, <2>3 DEF NewIsZero
  <2>4. CASE q = p
    BY <1>1, <1>8, <2>1, <2>2, <2>4
  <2>5. CASE r = p
    BY <1>1, <1>8, <2>1, <2>2, <2>5
  <2> QED
    BY <2>3, <2>4, <2>5
<1> QED
  BY <1>5, <1>7, <1>8 DEF NewIsZero

\* What an object takes the segment for stays within what its State says, also
\* when that is constructed after the object opened it.
LEMMA MappedStaysWithin ==
  ASSUME TypeOK, ObjectsMatch, NewIsZero, MappedWithin, NEW p \in Processes, Move(p)
  PROVE  MappedWithin'
<1>1. \A q \in Processes \ {p} :
        conf_'[q] = conf_[q] /\ init_'[q] = init_[q] /\ shm_'[q] = shm_[q]
  BY MoveFrame
<1>2. \A g \in Gens : ceiling_msg_size_'[g] # ceiling_msg_size_[g] => Construct(p) /\ g = shm_[p]
  BY MoveStates
<1>3. ASSUME Construct(p)
      PROVE  /\ ceiling_msg_size_[shm_[p]] = 0 /\ shm_[p] \in Gens
             /\ ceiling_msg_size_'[shm_[p]] = conf_[p] /\ conf_[p] \in Classes
             /\ conf_'[p] = conf_[p] /\ shm_'[p] = shm_[p]
  <2>1. pc[p] = "construct" /\ shm_[p] # 0
    BY <1>3 DEF Construct, Go, ObjectsMatch
  <2>2. shm_[p] \in Gens
    BY <2>1, GenTypes
  <2> QED
    BY <1>3, <2>1, <2>2 DEF Construct, NewIsZero, TypeOK
<1>4. ASSUME NEW q \in Processes \ {p}, init_[q]
      PROVE  conf_[q] <= Ceiling(ceiling_msg_size_'[shm_[q]])
  <2>1. shm_[q] \in Gens /\ conf_[q] <= Ceiling(ceiling_msg_size_[shm_[q]])
    BY <1>4, GenTypes DEF TypeOK, MappedWithin
  <2>2. CASE Construct(p) /\ shm_[q] = shm_[p]
    <3>1. conf_[q] <= 1 /\ conf_[q] \in Nat
      BY <1>3, <2>1, <2>2, ClassTypes DEF TypeOK
    <3>2. Ceiling(ceiling_msg_size_'[shm_[q]]) = conf_[p] /\ conf_[p] \in Nat /\ conf_[p] >= 1
      BY <1>3, <2>2, ClassTypes
    <3> QED
      BY <3>1, <3>2
  <2>3. CASE ~(Construct(p) /\ shm_[q] = shm_[p])
    BY <1>2, <2>1, <2>3
  <2> QED
    BY <2>2, <2>3
<1>5. ASSUME init_'[p]
      PROVE  conf_'[p] <= Ceiling(ceiling_msg_size_'[shm_'[p]])
  <2>1. CASE Construct(p)
    <3>1. Ceiling(conf_[p]) = conf_[p] /\ conf_[p] \in Nat
      BY <1>3, <2>1, ClassTypes
    <3> QED
      BY <1>3, <2>1, <3>1
  <2>2. CASE OpenOnly(p)
    <3>1. CASE key = 0
      <4>1. UNCHANGED <<init_, conf_, shm_, ceiling_msg_size_>>
        BY <2>2, <3>1 DEF OpenOnly, objVars
      <4> QED
        BY <1>5, <4>1 DEF MappedWithin
    <3>2. CASE key # 0
      <4>1. /\ conf_'[p] = Ceiling(ceiling_msg_size_[key]) /\ shm_'[p] = key
            /\ ceiling_msg_size_' = ceiling_msg_size_
        BY <2>2, <3>2 DEF OpenOnly, TypeOK
      <4>2. Ceiling(ceiling_msg_size_[key]) \in Nat
        BY <3>2, GenTypes, ClassTypes DEF TypeOK
      <4> QED
        BY <4>1, <4>2
    <3> QED
      BY <3>1, <3>2
  <2>3. CASE ~Construct(p) /\ ~OpenOnly(p)
    <3>1. /\ init_'[p] = init_[p] /\ conf_'[p] = conf_[p] /\ shm_'[p] = shm_[p]
          /\ ceiling_msg_size_' = ceiling_msg_size_
      <4> USE DEF TypeOK, Go, objVars, stateVars
      <4>1. CASE \/ \E size \in Classes : AcquireBlockToWrite(p, size)
                 \/ \E i \in noted : AcquireBlockToRead(p, i)
        BY <4>1 DEF AcquireBlockToWrite, AcquireBlockToRead, Call
      <4>2. CASE CheckIndex(p) \/ Remove(p) \/ Access(p)
        BY <4>2 DEF CheckIndex, Remove, Access
      <4>3. CASE Remap(p) \/ CheckSize(p)
        BY <1>5, <4>3 DEF Remap, CheckSize, Recreate
      <4>4. CASE Create(p)
        BY <1>5, <4>4 DEF Create, ObjectsMatch
      <4>5. CASE Destroy(p)
        BY <1>5, <4>5 DEF Destroy
      <4> QED
        BY <2>3, <4>1, <4>2, <4>3, <4>4, <4>5 DEF Move, ProcessStep
    <3> QED
      BY <1>5, <3>1 DEF MappedWithin
  <2> QED
    BY <2>1, <2>2, <2>3
<1> QED
  BY <1>1, <1>4, <1>5 DEF MappedWithin

LEMMA LayoutKept ==
  ASSUME LayoutInv, NEW p \in Processes, Move(p)
  PROVE  LayoutInv'
BY LayoutTypes, CallsStayModal, ObjectsStayMatched, NewStaysZero, MappedStaysWithin
   DEF LayoutInv, LayoutIsSound

-----------------------------------------------------------------------------
(* A writer that is alone.                                                 *)

\* A reader creates and abandons nothing; if it leaves it may free the key.
LEMMA ReaderFrame ==
  ASSUME LayoutInv, NEW p \in Readers, Move(p)
  PROVE  /\ UNCHANGED <<last, need_remap_>>
         /\ key' = key \/ (p \in Leavers /\ key' = 0)
         /\ init_'[p] => (init_[p] /\ shm_'[p] = shm_[p]) \/ shm_'[p] = key
<1>1. /\ pc[p] \in {"idle", "index", "remap", "open", "access"}
      /\ p \in Processes /\ p \notin Writers
  BY SegmentAssumption DEF LayoutInv, CallsAreModal, Processes
<1>2. init_ \in [Processes -> BOOLEAN] /\ shm_ \in [Processes -> 0 .. last]
  BY DEF LayoutInv, LayoutIsSound, TypeOK
<1> USE DEF Go, stateVars, objVars
<1>3. CASE \E i \in noted : AcquireBlockToRead(p, i)
  BY <1>2, <1>3 DEF AcquireBlockToRead, Call
<1>4. CASE CheckIndex(p) \/ Remap(p) \/ Access(p)
  BY <1>1, <1>2, <1>4 DEF CheckIndex, Remap, Access
<1>5. CASE OpenOnly(p)
  BY <1>1, <1>2, <1>5 DEF OpenOnly
<1>6. CASE Destroy(p)
  BY <1>1, <1>2, <1>6 DEF Destroy
<1> QED
  BY <1>1, <1>3, <1>4, <1>5, <1>6
     DEF Move, ProcessStep, CheckSize, Recreate, Remove, Create, Construct

LEMMA ReaderLeavesWriter ==
  ASSUME LayoutInv, NEW u \in Writers, NEW p \in Readers, Move(p),
         WriterIsAlone(u), WriterHasRoom(u)
  PROVE  WriterIsAlone(u)' /\ WriterHasRoom(u)'
<1>1. u # p /\ u \in Processes /\ p \in Processes
  BY SegmentAssumption DEF Processes
<1>2. /\ pc'[u] = pc[u] /\ ret'[u] = ret[u] /\ arg'[u] = arg[u]
      /\ init_'[u] = init_[u] /\ conf_'[u] = conf_[u] /\ shm_'[u] = shm_[u]
  BY <1>1, MoveFrame DEF LayoutInv, LayoutIsSound
<1>3. need_remap_' = need_remap_ /\ key' \in {key, 0}
  BY ReaderFrame
<1> QED
  BY <1>2, <1>3 DEF WriterIsAlone, WriterHasRoom

LEMMA WriterStaysAlone ==
  ASSUME LayoutInv, NEW u \in Writers, Move(u), WriterIsAlone(u), WriterHasRoom(u)
  PROVE  WriterIsAlone(u)' /\ WriterHasRoom(u)'
<1> USE DEF WriterIsAlone, WriterHasRoom, Go
<1>1. /\ u \in Processes /\ TypeOK /\ u \notin Readers
      /\ u \in DOMAIN pc /\ u \in DOMAIN ret /\ u \in DOMAIN arg /\ u \in DOMAIN init_
      /\ u \in DOMAIN conf_ /\ u \in DOMAIN shm_
      /\ conf_[u] \in Classes /\ init_[u] \in BOOLEAN
  BY SegmentAssumption DEF LayoutInv, LayoutIsSound, TypeOK, Processes
<1>2. /\ pc[u] \in {"index", "remap", "access"} => init_[u]
      /\ pc[u] \in {"remove", "create", "construct", "open"} => ~init_[u]
      /\ shm_[u] # 0 <=> init_[u] \/ pc[u] = "construct"
      /\ pc[u] # "idle" => arg[u] \in Classes
  BY <1>1 DEF LayoutInv, ObjectsMatch, CallsAreModal
<1>3. /\ key # 0 => key \in Gens
      /\ shm_[u] # 0 => shm_[u] \in Gens
  BY <1>1, GenTypes
<1>4. CASE \E size \in Classes : AcquireBlockToWrite(u, size)
  BY <1>1, <1>2, <1>4 DEF AcquireBlockToWrite, Call, stateVars, objVars
<1>5. CASE CheckIndex(u) \/ Access(u)
  BY <1>1, <1>2, <1>5 DEF CheckIndex, Access, stateVars, objVars
<1>6. CASE Remap(u)
  BY <1>1, <1>2, <1>6 DEF Remap, stateVars, objVars
<1>7. CASE CheckSize(u)
  <2>1. CASE arg[u] <= conf_[u]
    <3>1. ~(arg[u] > conf_[u])
      BY <1>1, <2>1, ClassTypes DEF TypeOK
    <3> QED
      BY <1>1, <1>2, <1>7, <2>1, <3>1 DEF CheckSize, objVars
  <2>2. CASE Recreate(u)
    <3>1. conf_'[u] = arg[u] /\ arg[u] \in Nat /\ UNCHANGED <<key, arg>>
      BY <1>1, <1>2, <1>7, <2>2, ClassTypes DEF CheckSize, Recreate, objVars
    <3>2. pc'[u] = "remove" /\ ret'[u] = "access" /\ ~init_'[u]
      BY <1>1, <1>2, <1>7, <2>2 DEF CheckSize, Recreate, objVars
    <3> QED
      BY <3>1, <3>2
  <2> QED
    BY <1>1, <1>2, <1>7, <2>1, <2>2 DEF CheckSize, Recreate
<1>8. CASE Remove(u)
  BY <1>1, <1>2, <1>8 DEF Remove, stateVars, objVars
<1>9. CASE Create(u)
  <2>1. CASE key = 0
    <3>1. last \in Nat /\ last < MaxGen /\ key' = last + 1 /\ last + 1 \in Gens
      BY <1>1, <1>9, <2>1, GenTypes DEF Create, Gens
    <3>2. ~need_remap_[key'] /\ need_remap_' = need_remap_
      BY <1>9, <3>1 DEF LayoutInv, NewIsZero, Create, stateVars
    <3> QED
      BY <1>1, <1>2, <1>9, <2>1, <3>2 DEF Create
  <2>2. CASE key # 0
    BY <1>1, <1>2, <1>9, <2>2 DEF Create, stateVars
  <2> QED
    BY <2>1, <2>2
<1>10. CASE Construct(u)
  <2>1. need_remap_' = [need_remap_ EXCEPT ![shm_[u]] = FALSE] /\ shm_[u] \in Gens
    BY <1>2, <1>3, <1>10 DEF Construct
  <2>2. \A g \in Gens : need_remap_'[g] => need_remap_[g]
    BY <1>1, <2>1 DEF TypeOK
  <2>3. ~need_remap_'[shm_[u]]
    BY <1>1, <2>1 DEF TypeOK
  <2> QED
    BY <1>1, <1>2, <1>3, <1>10, <2>2, <2>3 DEF Construct
<1>11. CASE OpenOnly(u)
  <2>1. CASE key = 0
    BY <1>1, <1>2, <1>11, <2>1 DEF OpenOnly, Failed, objVars
  <2>2. CASE key # 0
    BY <1>1, <1>2, <1>11, <2>2 DEF OpenOnly
  <2> QED
    BY <2>1, <2>2
<1>12. CASE Destroy(u)
  BY <1>1, <1>2, <1>12 DEF Destroy, callVars
<1> QED
  BY <1>1, <1>4, <1>5, <1>6, <1>7, <1>8, <1>9, <1>10, <1>11, <1>12 DEF Move, ProcessStep

\* If nobody leaves, no step of a reader frees the key, ...
LEMMA ReaderKeepsKey ==
  ASSUME LayoutInv, NEW u \in Writers, NEW p \in Readers \ Leavers, Move(p), WriterHasKey(u)
  PROVE  WriterHasKey(u)'
<1>1. u # p /\ u \in Processes /\ p \in Processes
  BY SegmentAssumption DEF Processes
<1>2. \A q \in Processes \ {p} :
        pc'[q] = pc[q] /\ init_'[q] = init_[q] /\ shm_'[q] = shm_[q]
  BY <1>1, MoveFrame DEF LayoutInv, LayoutIsSound
<1>3. UNCHANGED <<key, need_remap_>>
  BY ReaderFrame
<1>4. init_'[p] => (init_[p] /\ shm_'[p] = shm_[p]) \/ shm_'[p] = key
  BY ReaderFrame
<1>5. StaleIsMarked'
  BY <1>2, <1>3, <1>4 DEF WriterHasKey, StaleIsMarked
<1> QED
  BY <1>1, <1>2, <1>3, <1>5 DEF WriterHasKey

\* ... and the writer frees it when it has marked the segment that it names.
LEMMA WriterKeepsKey ==
  ASSUME LayoutInv, NEW u \in Writers \ Leavers, Move(u), WriterIsAlone(u), WriterHasRoom(u),
         WriterHasKey(u)
  PROVE  WriterHasKey(u)'
<1> USE DEF WriterHasKey, Go
<1>1. /\ u \in Processes /\ TypeOK /\ u \notin Readers
      /\ u \in DOMAIN pc /\ u \in DOMAIN ret /\ u \in DOMAIN init_ /\ u \in DOMAIN shm_
      /\ init_[u] \in BOOLEAN
  BY SegmentAssumption DEF LayoutInv, LayoutIsSound, TypeOK, Processes
<1>2. /\ pc[u] \in {"index", "remap", "access"} => init_[u]
      /\ pc[u] \in {"remove", "create", "construct", "open"} => ~init_[u]
      /\ shm_[u] # 0 <=> init_[u] \/ pc[u] = "construct"
  BY <1>1 DEF LayoutInv, ObjectsMatch
<1>3. \A q \in Processes \ {u} : init_'[q] = init_[q] /\ shm_'[q] = shm_[q]
  BY <1>1, MoveFrame
<1>4. \A q \in Processes : init_[q] => shm_[q] # 0 /\ shm_[q] \in Gens /\ shm_[q] <= last
  BY <1>1, GenTypes DEF TypeOK
<1>5. \A q \in Processes : init_[q] /\ shm_[q] # key => need_remap_[shm_[q]]
  BY DEF StaleIsMarked
<1>6. ASSUME UNCHANGED <<key, need_remap_>>,
             init_'[u] => (init_[u] /\ shm_'[u] = shm_[u]) \/ shm_'[u] = key
      PROVE  StaleIsMarked'
  BY <1>3, <1>5, <1>6 DEF StaleIsMarked
<1>7. CASE \E size \in Classes : AcquireBlockToWrite(u, size)
  BY <1>1, <1>2, <1>6, <1>7 DEF AcquireBlockToWrite, Call, stateVars, objVars
<1>8. CASE CheckIndex(u) \/ Access(u)
  BY <1>1, <1>2, <1>6, <1>8 DEF CheckIndex, Access, stateVars, objVars
<1>9. CASE Remap(u)
  BY <1>1, <1>2, <1>6, <1>9 DEF Remap, stateVars, objVars, WriterIsAlone
<1>10. CASE CheckSize(u)
  <2>1. CASE UNCHANGED <<objVars, ret, need_remap_>>
    BY <1>1, <1>2, <1>6, <1>10, <2>1 DEF CheckSize, Recreate, objVars
  <2>2. CASE Recreate(u)
    <3>1. /\ init_[u] /\ key = shm_[u] /\ shm_[u] \in Gens
          /\ key' = key /\ ~init_'[u] /\ pc'[u] = "remove"
      BY <1>1, <1>4, <1>10, <2>2 DEF CheckSize, Recreate, WriterHasRoom
    <3>2. need_remap_' = [need_remap_ EXCEPT ![key] = TRUE] /\ need_remap_ \in [Gens -> BOOLEAN]
      BY <1>1, <2>2, <3>1 DEF Recreate, TypeOK
    <3>3. StaleIsMarked'
      BY <1>3, <1>4, <1>5, <3>1, <3>2 DEF StaleIsMarked
    <3> QED
      BY <3>1, <3>2, <3>3
  <2> QED
    BY <1>10, <2>1, <2>2 DEF CheckSize
<1>11. CASE Remove(u)
  <2>1. \A q \in Processes : init_[q] => need_remap_[shm_[q]]
    BY <1>4, <1>5, <1>11 DEF Remove
  <2> QED
    BY <1>1, <1>2, <2>1, <1>11 DEF Remove, stateVars, objVars, StaleIsMarked
<1>12. CASE Create(u)
  <2>1. CASE key = 0
    <3>1. \A q \in Processes : init_[q] => need_remap_[shm_[q]]
      BY <1>4, <1>5, <2>1
    <3>2. init_' = init_ /\ ~init_[u] /\ need_remap_' = need_remap_
          /\ pc'[u] = "construct" /\ shm_'[u] = key'
      BY <1>1, <1>2, <1>12, <2>1 DEF Create, stateVars
    <3> QED
      BY <1>3, <3>1, <3>2 DEF StaleIsMarked
  <2>2. CASE key # 0
    BY <1>1, <1>2, <1>6, <1>12, <2>2 DEF Create, stateVars
  <2> QED
    BY <2>1, <2>2
<1>13. CASE Construct(u)
  <2>1. /\ shm_[u] = key /\ UNCHANGED <<key, shm_>> /\ shm_[u] \in Gens
        /\ need_remap_' = [need_remap_ EXCEPT ![shm_[u]] = FALSE]
    BY <1>1, <1>2, <1>13, GenTypes DEF Construct
  <2>2. \A g \in Gens \ {key} : need_remap_'[g] = need_remap_[g]
    BY <1>1, <2>1 DEF TypeOK
  <2>3. StaleIsMarked'
    BY <1>3, <1>4, <1>5, <2>1, <2>2 DEF StaleIsMarked
  <2>4. pc'[u] \notin {"remove", "construct"}
    BY <1>1, <1>13 DEF Construct, TypeOK
  <2> QED
    BY <2>1, <2>3, <2>4
<1>14. CASE OpenOnly(u)
  <2>1. pc'[u] \notin {"remove", "construct"}
    BY <1>1, <1>14 DEF OpenOnly, Failed, TypeOK
  <2>2. CASE key = 0
    BY <1>1, <1>2, <1>6, <1>14, <2>1, <2>2 DEF OpenOnly, objVars
  <2>3. CASE key # 0
    BY <1>1, <1>2, <1>6, <1>14, <2>1, <2>3 DEF OpenOnly
  <2> QED
    BY <2>2, <2>3
<1> QED
  BY <1>1, <1>7, <1>8, <1>9, <1>10, <1>11, <1>12, <1>13, <1>14 DEF Move, ProcessStep, Destroy

-----------------------------------------------------------------------------
(* The theorems.                                                           *)

\* An active process takes a step; with a lone writer it is that or a reader.
LEMMA StepIsMove ==
  ASSUME OthersRest, NEW p \in active, MCNext,
         ProcessStep(p) \/ (p \in Writers /\ \E size \in Classes : AcquireBlockToWrite(p, size))
           \/ (p \in Readers /\ \E i \in noted : AcquireBlockToRead(p, i))
  PROVE  p \in Processes /\ Move(p) /\ active' = active
BY GroupsAssumption DEF OthersRest, MCNext, Move

LEMMA NextSegments == SegmentInv /\ [MCNext]_<<vars, active>> => SegmentInv'
<1> SUFFICES ASSUME SegmentInv, [MCNext]_<<vars, active>> PROVE SegmentInv'
  OBVIOUS
<1>1. CASE MCNext
  <2>1. IndexesRead \subseteq noted
    BY DEF IndexesRead
  <2>2. PICK p \in active : p \in Processes /\ Move(p) /\ active' = active
    BY <1>1, <2>1, StepIsMove DEF SegmentInv, MCNext
  <2>3. LayoutInv'
    BY <2>2, LayoutKept DEF SegmentInv
  <2>4. OthersRest'
    <3>1. \A q \in Processes \ {p} : pc'[q] = pc[q] /\ init_'[q] = init_[q]
      BY <2>2, MoveFrame DEF SegmentInv, LayoutInv, LayoutIsSound
    <3> QED
      BY <2>2, <3>1 DEF SegmentInv, OthersRest
  <2>5. ASSUME NEW u, active \intersect Writers = {u}
        PROVE  /\ WriterIsAlone(u)' /\ WriterHasRoom(u)'
               /\ NobodyLeaves => WriterHasKey(u)'
    <3>1. /\ LayoutInv /\ u \in active /\ u \in Writers
          /\ WriterIsAlone(u) /\ WriterHasRoom(u) /\ (NobodyLeaves => WriterHasKey(u))
      BY <2>5 DEF SegmentInv
    <3>2. NobodyLeaves => p \notin Leavers /\ u \notin Leavers
      BY <2>2, <3>1 DEF NobodyLeaves
    <3>3. CASE p = u
      BY <2>2, <3>1, <3>2, <3>3, WriterStaysAlone, WriterKeepsKey
    <3>4. CASE p # u
      <4>1. p \in Readers
        BY <2>2, <2>5, <3>4 DEF Processes
      <4> QED
        BY <2>2, <3>1, <3>2, <4>1, ReaderLeavesWriter, ReaderKeepsKey
    <3> QED
      BY <3>3, <3>4
  <2>6. NobodyLeaves' = NobodyLeaves
    BY <2>2 DEF NobodyLeaves
  <2> QED
    BY <2>2, <2>3, <2>4, <2>5, <2>6 DEF SegmentInv
<1>2. CASE UNCHANGED <<vars, active>>
  <2> USE <1>2 DEF vars, stateVars, objVars, callVars
  <2>1. LayoutInv'
    BY DEF SegmentInv, LayoutInv, LayoutIsSound, TypeOK, MappedWithin, CallsAreModal,
           ObjectsMatch, NewIsZero
  <2>2. OthersRest'
    BY DEF SegmentInv, OthersRest
  <2>3. ASSUME NEW u
        PROVE  /\ WriterIsAlone(u) => WriterIsAlone(u)'
               /\ WriterHasRoom(u) => WriterHasRoom(u)'
               /\ WriterHasKey(u) => WriterHasKey(u)'
    BY DEF WriterIsAlone, WriterHasRoom, WriterHasKey, StaleIsMarked
  <2>4. NobodyLeaves' = NobodyLeaves
    BY DEF NobodyLeaves
  <2> QED
    BY <2>1, <2>2, <2>3, <2>4 DEF SegmentInv
<1> QED
  BY <1>1, <1>2

\* The invariant that carries the theorems below.
THEOREM SegmentInvariant == MCSpec => []SegmentInv
<1>1. MCInit => SegmentInv
  BY InitSegments
<1>2. SegmentInv /\ [MCNext]_<<vars, active>> => SegmentInv'
  BY NextSegments
<1> QED
  BY <1>1, <1>2, PTL DEF MCSpec

\* Segment::OpenOnly and OpenOrCreate: every process, of any number of writers
\* and readers, lays out the blocks of what it has mapped within its size.
THEOREM LayoutSafety == MCSpec => []LayoutIsSound
<1>1. SegmentInv => LayoutIsSound
  BY DEF SegmentInv, LayoutInv
<1> QED
  BY <1>1, SegmentInvariant, PTL

\* One writer in a group is the only one.
LEMMA TheWriter ==
  ASSUME OthersRest, OneWriter
  PROVE  \E u \in Writers : active \intersect Writers = {u}
<1>1. IsFiniteSet(active \intersect Writers)
  BY GroupsAssumption, FS_Intersection DEF OthersRest
<1>2. Cardinality(active \intersect Writers) = 1
  BY DEF OneWriter
<1>3. \E u : active \intersect Writers = {u}
  BY <1>1, <1>2, FS_Singleton
<1> QED
  BY <1>3

\* Segment::Recreate of a sole writer, whoever comes and goes: the segment it
\* then writes to is large enough, and it is never without a State to mark.
THEOREM SoleWriterSafety == MCSpec => []SoleWriterIsSafe
<1>1. SegmentInv => SoleWriterIsSafe
  <2> SUFFICES ASSUME SegmentInv, OneWriter PROVE WriteFits /\ NeverCrashes
    BY DEF SoleWriterIsSafe
  <2>1. PICK u \in Writers : active \intersect Writers = {u}
    BY TheWriter DEF SegmentInv
  <2>2. /\ WriterHasRoom(u) /\ TypeOK /\ MappedWithin /\ CallsAreModal /\ ObjectsMatch
        /\ u \in Processes
    BY <2>1 DEF SegmentInv, LayoutInv, LayoutIsSound, Processes
  <2>3. \A p \in Writers \ {u} : pc[p] = "idle"
    BY <2>1 DEF SegmentInv, OthersRest, Processes
  <2>4. ASSUME pc[u] = "access"
        PROVE  arg[u] <= Ceiling(ceiling_msg_size_[shm_[u]])
    <3>1. init_[u] /\ arg[u] <= conf_[u]
      BY <2>2, <2>4 DEF WriterHasRoom, ObjectsMatch
    <3>2. conf_[u] <= Ceiling(ceiling_msg_size_[shm_[u]])
      BY <2>2, <3>1 DEF MappedWithin
    <3>3. arg[u] \in Nat /\ conf_[u] \in Nat /\ Ceiling(ceiling_msg_size_[shm_[u]]) \in Nat
      <4>1. shm_[u] \in Gens
        BY <2>2, <3>1, GenTypes DEF TypeOK
      <4> QED
        BY <2>2, <4>1, ClassTypes DEF TypeOK
    <3> QED
      BY <3>1, <3>2, <3>3
  <2>5. WriteFits
    BY <2>3, <2>4 DEF WriteFits
  <2>6. NeverCrashes
    BY <2>2, <2>3 DEF NeverCrashes, WriterHasRoom, CallsAreModal, Processes
  <2> QED
    BY <2>5, <2>6
<1> QED
  BY <1>1, SegmentInvariant, PTL

\* Segment::Recreate and State::set_need_remap: while nobody leaves, whoever is
\* attached to a segment a sole writer has abandoned has been asked to remap.
THEOREM ReadersToldSafety == MCSpec => []ReadersAreTold
<1>1. SegmentInv => ReadersAreTold
  <2> SUFFICES ASSUME SegmentInv, OneWriter, NobodyLeaves PROVE StaleIsMarked
    BY DEF ReadersAreTold
  <2>1. PICK u \in Writers : active \intersect Writers = {u}
    BY TheWriter DEF SegmentInv
  <2> QED
    BY <2>1 DEF SegmentInv, WriterHasKey
<1> QED
  BY <1>1, SegmentInvariant, PTL

-----------------------------------------------------------------------------
(* MulticastNotifier.                                                      *)

Descriptor == {"none", "open", "closed", "-1"}

\* The descriptors are closed in order, and the socket lives with its own.
MulticastInv ==
  /\ notifier \in [MCWriters -> [is_shutdown_ : BOOLEAN, fd : [Multicast!Fds -> Descriptor]]]
  /\ socket \in [MCWriters -> SUBSET told] /\ taken \in [MCWriters -> SUBSET told]
  /\ Multicast!HeardIsLocal
  /\ \A p \in MCWriters : notifier[p] = Multicast!State(FALSE, "none") => socket[p] = {}

LEMMA MulticastStep ==
  ASSUME MulticastInv, Multicast!MulticastNext
  PROVE  MulticastInv'
<1> USE DEF MulticastInv, Multicast!HeardIsLocal, Multicast!State, Multicast!Fds, Descriptor
<1>1. PICK p \in MCWriters :
        \/ Multicast!Init(p) \/ Multicast!Shutdown(p) \/ Multicast!SendTo(p)
        \/ Multicast!ListenBegins(p) \/ Multicast!ListenFails(p)
        \/ \E f \in Multicast!Fds : Multicast!CloseFd(p, f)
        \/ \E b \in {0} : Multicast!NotifyBegins(p, b)
        \/ \E x \in told : Multicast!Arrives(p, x) \/ Multicast!RecvFrom(p, x)
  BY DEF Multicast!MulticastNext
<1>2. CASE Multicast!Init(p)
  BY <1>2 DEF Multicast!Init
<1>3. CASE Multicast!Shutdown(p)
  <2>1. /\ \A q \in MCWriters \ {p} : notifier'[q] = notifier[q]
        /\ notifier'[p].is_shutdown_ = TRUE /\ notifier'[p].fd = notifier[p].fd
    BY <1>3 DEF Multicast!Shutdown
  <2>3. notifier' \in [MCWriters -> [is_shutdown_ : BOOLEAN, fd : [Multicast!Fds -> Descriptor]]]
    <3>1. notifier' = [notifier EXCEPT ![p].is_shutdown_ = TRUE]
      BY <1>3 DEF Multicast!Shutdown
    <3>2. notifier[p] \in [is_shutdown_ : BOOLEAN, fd : [Multicast!Fds -> Descriptor]]
      OBVIOUS
    <3>3. [notifier[p] EXCEPT !.is_shutdown_ = TRUE]
            \in [is_shutdown_ : BOOLEAN, fd : [Multicast!Fds -> Descriptor]]
      BY <3>2
    <3> QED
      BY <3>1, <3>3
  <2>2. socket' = socket /\ taken' = taken /\ told' = told
    BY <1>3 DEF Multicast!Shutdown
  <2> QED
    BY <2>1, <2>2, <2>3
<1>4. CASE Multicast!SendTo(p)
  BY <1>4 DEF Multicast!SendTo
<1>5. CASE Multicast!ListenBegins(p) \/ Multicast!ListenFails(p)
  BY <1>5 DEF Multicast!ListenBegins, Multicast!ListenFails
<1>6. CASE \E f \in Multicast!Fds : Multicast!CloseFd(p, f)
  <2>1. PICK f \in Multicast!Fds : Multicast!CloseFd(p, f)
    BY <1>6
  <2>2. /\ \A q \in MCWriters \ {p} : notifier'[q] = notifier[q]
        /\ notifier[p].is_shutdown_ /\ notifier'[p].is_shutdown_ = TRUE
        /\ notifier' \in [MCWriters -> [is_shutdown_ : BOOLEAN, fd : [Multicast!Fds -> Descriptor]]]
        /\ \A g \in Multicast!Fds \ {f} : notifier'[p].fd[g] = notifier[p].fd[g]
        /\ notifier[p].fd[f] # "-1"
    BY <2>1 DEF Multicast!CloseFd
  <2>3. /\ taken' = taken /\ told' = told
        /\ socket' = IF f = "listen_fd_" THEN [socket EXCEPT ![p] = {}] ELSE socket
        /\ f = "listen_fd_" => notifier[p].fd["notify_fd_"] = "-1"
    BY <2>1 DEF Multicast!CloseFd
  <2> QED
    BY <2>2, <2>3
<1>7. CASE \E b \in {0} : Multicast!NotifyBegins(p, b)
  BY <1>7 DEF Multicast!NotifyBegins
<1>8. CASE \E x \in told : Multicast!Arrives(p, x)
  BY <1>8 DEF Multicast!Arrives
<1>9. CASE \E x \in told : Multicast!RecvFrom(p, x)
  BY <1>9 DEF Multicast!RecvFrom, Multicast!Deserializes
<1> QED
  BY <1>1, <1>2, <1>3, <1>4, <1>5, <1>6, <1>7, <1>8, <1>9

LEMMA MulticastStart == Multicast!MulticastInit => MulticastInv
BY DEF Multicast!MulticastInit, MulticastInv, Multicast!HeardIsLocal, Multicast!State,
       Multicast!Fds, Descriptor

-----------------------------------------------------------------------------
(* NotifierSegment.                                                        *)

Openers == MCWriters \union {w}
HasSegment == {"attach", "construct", "attach_only", "load", "ready", "write"}

OpeningTypes ==
  /\ kernel \in [key : Nat, created : Nat, deaths : Nat, fits : BOOLEAN]
  /\ kernel.key <= kernel.created /\ kernel.created \in 1 .. MaxSegments
  /\ segs \in [1 .. MaxSegments ->
       [ind : [next_seq : Nat, written : SUBSET Nat], creator : Openers \union {d},
        late : BOOLEAN, abandoned : BOOLEAN, orphans : SUBSET Nat]]
  /\ proc \in [Openers ->
       [pc : HasSegment \union {"closed", "open_only", "down"}, shm : Nat, retry : Nat,
        next_seq_ : Nat, seq : Nat]]

\* A process that has a segment, or has found one, has that of the key, or
\* one whose creator gave it up; and only a creator constructs.
SegmentsAreShared ==
  \A p \in Openers : proc[p].shm <= kernel.created /\
    (proc[p].pc \in HasSegment =>
       /\ proc[p].shm # 0
       /\ proc[p].shm = kernel.key \/ segs[proc[p].shm].abandoned
       /\ proc[p].pc \in {"attach", "construct"} => segs[proc[p].shm].creator = p)

\* The numbers p is owed are written, being written or orphaned.
Covered(s, n) ==
  \/ n \in segs[s].ind.written \union segs[s].orphans
  \/ \E q \in Openers : proc[q].pc = "write" /\ proc[q].shm = s /\ proc[q].seq = n
NothingIsSkipped ==
  \A p \in Openers : proc[p].pc \in {"ready", "write"} /\ ~segs[proc[p].shm].late =>
    /\ proc[p].next_seq_ <= segs[proc[p].shm].ind.next_seq
    /\ \A n \in Nat : proc[p].next_seq_ <= n /\ n < segs[proc[p].shm].ind.next_seq =>
         Covered(proc[p].shm, n)

OpeningInv == OpeningTypes /\ SegmentsAreShared /\ NothingIsSkipped

\* A step of p that leaves the segments, and gives p nothing to be owed.
QuietStep(p) ==
  /\ kernel' = kernel /\ segs' = segs
  /\ \A q \in Openers \ {p} : proc'[q] = proc[q]
  /\ proc[p].pc # "write" /\ proc'[p].pc \notin {"ready", "write"}
  /\ proc'[p].shm \in {0, proc[p].shm, kernel.key}
  /\ proc'[p].pc \in HasSegment =>
       /\ proc'[p].shm # 0
       /\ proc'[p].shm = kernel.key \/ (proc[p].pc \in HasSegment /\ proc'[p].shm = proc[p].shm)
  /\ proc'[p].pc \in {"attach", "construct"} =>
       proc[p].pc = "attach" /\ proc'[p].shm = proc[p].shm

LEMMA QuietKeeps ==
  ASSUME OpeningInv, NEW p \in Openers, QuietStep(p),
         proc' \in [Openers -> [pc : HasSegment \union {"closed", "open_only", "down"},
                                shm : Nat, retry : Nat, next_seq_ : Nat, seq : Nat]]
  PROVE  OpeningInv'
<1> USE DEF OpeningInv
<1>1. OpeningTypes'
  BY DEF OpeningTypes, QuietStep
<1>2. SegmentsAreShared'
  <2> SUFFICES ASSUME NEW q \in Openers
               PROVE  /\ proc'[q].shm <= kernel'.created
                      /\ proc'[q].pc \in HasSegment =>
                           /\ proc'[q].shm # 0
                           /\ proc'[q].shm = kernel'.key \/ segs'[proc'[q].shm].abandoned
                           /\ proc'[q].pc \in {"attach", "construct"} => segs'[proc'[q].shm].creator = q
    BY DEF SegmentsAreShared
  <2>1. CASE q # p
    BY <2>1 DEF QuietStep, SegmentsAreShared
  <2>2. CASE q = p
    <3>1. proc'[p].shm <= kernel'.created
      <4>1. /\ 0 <= kernel.created /\ proc[p].shm <= kernel.created
            /\ kernel.key <= kernel.created
        BY DEF OpeningTypes, SegmentsAreShared
      <4> QED
        BY <4>1 DEF QuietStep
    <3>2. proc[p].pc = "attach" => proc[p].pc \in HasSegment
      BY DEF HasSegment
    <3> QED
      BY <2>2, <3>1, <3>2 DEF QuietStep, SegmentsAreShared
  <2> QED
    BY <2>1, <2>2
<1>3. NothingIsSkipped'
  <2>1. \A s, n : Covered(s, n) => Covered(s, n)'
    BY DEF QuietStep, Covered
  <2> QED
    BY <2>1 DEF QuietStep, NothingIsSkipped
<1> QED
  BY <1>1, <1>2, <1>3

ProcRec == [pc : HasSegment \union {"closed", "open_only", "down"}, shm : Nat, retry : Nat,
            next_seq_ : Nat, seq : Nat]

LEMMA ProcUpdate ==
  ASSUME NEW f \in [Openers -> ProcRec], NEW p \in Openers, NEW x \in ProcRec
  PROVE  /\ [f EXCEPT ![p] = x] \in [Openers -> ProcRec]
         /\ [f EXCEPT ![p] = x][p] = x
         /\ \A q \in Openers \ {p} : [f EXCEPT ![p] = x][q] = f[q]
OBVIOUS

LEMMA QuietSteps ==
  ASSUME OpeningInv, NEW p \in Openers,
         \/ Opening!KeyExists(p) \/ Opening!TooLarge(p) \/ Opening!CreateFails(p)
         \/ Opening!Attach(p) \/ Opening!OpenOnly(p) \/ Opening!AttachOnly(p)
         \/ Opening!AttachOnlyFails(p) \/ Opening!Shutdown(p)
  PROVE  OpeningInv'
<1> DEFINE Quiet(x) == x \in ProcRec /\ proc' = [proc EXCEPT ![p] = x] /\ QuietStep(p)
<1>0. proc \in [Openers -> ProcRec] /\ proc[p] \in ProcRec /\ kernel.key \in Nat
  BY DEF OpeningInv, OpeningTypes, ProcRec
<1>1. ASSUME Opening!KeyExists(p) PROVE  \E x : Quiet(x)
  <2> DEFINE x == [proc[p] EXCEPT !.pc = "open_only"]
  <2>1. /\ proc' = [proc EXCEPT ![p] = x] /\ kernel' = kernel /\ segs' = segs
        /\ proc[p].pc = "closed"
    BY <1>1 DEF Opening!KeyExists, Opening!Go, Opening!At, Opening!None
  <2>2. x \in ProcRec /\ x.pc = "open_only" /\ x.shm = proc[p].shm
    BY <1>0, <2>1 DEF ProcRec, HasSegment
  <2>3. proc'[p] = x /\ \A q \in Openers \ {p} : proc'[q] = proc[q]
    BY <1>0, <2>1, <2>2, ProcUpdate
  <2>4. QuietStep(p)
    BY <2>1, <2>2, <2>3 DEF QuietStep, HasSegment, OpeningInv, SegmentsAreShared
  <2> QED
    BY <2>1, <2>2, <2>4
<1>2. ASSUME Opening!TooLarge(p) PROVE  \E x : Quiet(x)
  <2> DEFINE x == [proc[p] EXCEPT !.retry = @ + 1]
  <2>1. /\ proc' = [proc EXCEPT ![p] = x] /\ kernel' = kernel /\ segs' = segs
        /\ proc[p].pc = "closed"
    BY <1>2 DEF Opening!TooLarge, Opening!Go, Opening!At, Opening!None
  <2>2. x \in ProcRec /\ x.pc = "closed" /\ x.shm = proc[p].shm
    BY <1>0, <2>1 DEF ProcRec, HasSegment
  <2>3. proc'[p] = x /\ \A q \in Openers \ {p} : proc'[q] = proc[q]
    BY <1>0, <2>1, <2>2, ProcUpdate
  <2>4. QuietStep(p)
    BY <2>1, <2>2, <2>3 DEF QuietStep, HasSegment, OpeningInv, SegmentsAreShared
  <2> QED
    BY <2>1, <2>2, <2>4
<1>3. ASSUME Opening!CreateFails(p) PROVE  \E x : Quiet(x)
  <2> DEFINE x == [proc[p] EXCEPT !.pc = "down"]
  <2>1. /\ proc' = [proc EXCEPT ![p] = x] /\ kernel' = kernel /\ segs' = segs
        /\ proc[p].pc = "closed"
    BY <1>3 DEF Opening!CreateFails, Opening!Go, Opening!At, Opening!None
  <2>2. x \in ProcRec /\ x.pc = "down" /\ x.shm = proc[p].shm
    BY <1>0, <2>1 DEF ProcRec, HasSegment
  <2>3. proc'[p] = x /\ \A q \in Openers \ {p} : proc'[q] = proc[q]
    BY <1>0, <2>1, <2>2, ProcUpdate
  <2>4. QuietStep(p)
    BY <2>1, <2>2, <2>3 DEF QuietStep, HasSegment, OpeningInv, SegmentsAreShared
  <2> QED
    BY <2>1, <2>2, <2>4
<1>4. ASSUME Opening!Attach(p) PROVE  \E x : Quiet(x)
  <2> DEFINE x == [proc[p] EXCEPT !.pc = "construct"]
  <2>1. /\ proc' = [proc EXCEPT ![p] = x] /\ kernel' = kernel /\ segs' = segs
        /\ proc[p].pc = "attach"
    BY <1>4 DEF Opening!Attach, Opening!Go, Opening!At, Opening!None
  <2>2. x \in ProcRec /\ x.pc = "construct" /\ x.shm = proc[p].shm
    BY <1>0, <2>1 DEF ProcRec, HasSegment
  <2>3. proc'[p] = x /\ \A q \in Openers \ {p} : proc'[q] = proc[q]
    BY <1>0, <2>1, <2>2, ProcUpdate
  <2>4. QuietStep(p)
    BY <2>1, <2>2, <2>3 DEF QuietStep, HasSegment, OpeningInv, SegmentsAreShared
  <2> QED
    BY <2>1, <2>2, <2>4
<1>5. ASSUME Opening!OpenOnly(p) PROVE  \E x : Quiet(x)
  <2> DEFINE x == [proc[p] EXCEPT !.pc = IF kernel.key = 0 THEN "down" ELSE "attach_only", !.shm = kernel.key]
  <2>1. /\ proc' = [proc EXCEPT ![p] = x] /\ kernel' = kernel /\ segs' = segs
        /\ proc[p].pc = "open_only"
    BY <1>5 DEF Opening!OpenOnly, Opening!Go, Opening!At, Opening!None
  <2>2. x \in ProcRec /\ x.shm = kernel.key /\ (kernel.key = 0 => x.pc = "down")
        /\ (kernel.key # 0 => x.pc = "attach_only")
    BY <1>0, <2>1 DEF ProcRec, HasSegment
  <2>3. proc'[p] = x /\ \A q \in Openers \ {p} : proc'[q] = proc[q]
    BY <1>0, <2>1, <2>2, ProcUpdate
  <2>4. QuietStep(p)
    BY <1>0, <2>1, <2>2, <2>3 DEF QuietStep, HasSegment
  <2> QED
    BY <2>1, <2>2, <2>4
<1>6. ASSUME Opening!AttachOnly(p) PROVE  \E x : Quiet(x)
  <2> DEFINE x == [proc[p] EXCEPT !.pc = "load"]
  <2>1. /\ proc' = [proc EXCEPT ![p] = x] /\ kernel' = kernel /\ segs' = segs
        /\ proc[p].pc = "attach_only"
    BY <1>6 DEF Opening!AttachOnly, Opening!Go, Opening!At, Opening!None
  <2>2. x \in ProcRec /\ x.pc = "load" /\ x.shm = proc[p].shm
    BY <1>0, <2>1 DEF ProcRec, HasSegment
  <2>3. proc'[p] = x /\ \A q \in Openers \ {p} : proc'[q] = proc[q]
    BY <1>0, <2>1, <2>2, ProcUpdate
  <2>4. QuietStep(p)
    BY <2>1, <2>2, <2>3 DEF QuietStep, HasSegment, OpeningInv, SegmentsAreShared
  <2> QED
    BY <2>1, <2>2, <2>4
<1>7. ASSUME Opening!AttachOnlyFails(p) PROVE  \E x : Quiet(x)
  <2> DEFINE x == [proc[p] EXCEPT !.pc = "down"]
  <2>1. /\ proc' = [proc EXCEPT ![p] = x] /\ kernel' = kernel /\ segs' = segs
        /\ proc[p].pc = "attach_only"
    BY <1>7 DEF Opening!AttachOnlyFails, Opening!Go, Opening!At, Opening!None
  <2>2. x \in ProcRec /\ x.pc = "down" /\ x.shm = proc[p].shm
    BY <1>0, <2>1 DEF ProcRec, HasSegment
  <2>3. proc'[p] = x /\ \A q \in Openers \ {p} : proc'[q] = proc[q]
    BY <1>0, <2>1, <2>2, ProcUpdate
  <2>4. QuietStep(p)
    BY <2>1, <2>2, <2>3 DEF QuietStep, HasSegment, OpeningInv, SegmentsAreShared
  <2> QED
    BY <2>1, <2>2, <2>4
<1>8. ASSUME Opening!Shutdown(p) PROVE  \E x : Quiet(x)
  <2> DEFINE x == [Opening!Closed EXCEPT !.pc = "down"]
  <2>1. /\ proc' = [proc EXCEPT ![p] = x] /\ kernel' = kernel /\ segs' = segs
        /\ proc[p].pc = "ready"
    BY <1>8 DEF Opening!Shutdown, Opening!At
  <2>2. x \in ProcRec /\ x.pc = "down" /\ x.shm = 0
    BY DEF ProcRec, HasSegment, Opening!Closed, Opening!None
  <2>3. proc'[p] = x /\ \A q \in Openers \ {p} : proc'[q] = proc[q]
    BY <1>0, <2>1, <2>2, ProcUpdate
  <2>4. QuietStep(p)
    BY <2>1, <2>2, <2>3 DEF QuietStep, HasSegment, OpeningInv, SegmentsAreShared
  <2> QED
    BY <2>1, <2>2, <2>4
<1> QED
  BY <1>0, <1>1, <1>2, <1>3, <1>4, <1>5, <1>6, <1>7, <1>8, QuietKeeps, ProcUpdate DEF ProcRec

\* The creator's segment is one that nobody has.
SegRec == [ind : [next_seq : Nat, written : SUBSET Nat], creator : Openers \union {d},
           late : BOOLEAN, abandoned : BOOLEAN, orphans : SUBSET Nat]

LEMMA HaveSegments ==
  ASSUME OpeningInv, NEW q \in Openers, proc[q].pc \in HasSegment
  PROVE  proc[q].shm \in 1 .. MaxSegments
<1>1. /\ proc[q].shm # 0 /\ proc[q].shm <= kernel.created /\ kernel.created \in 1 .. MaxSegments
  BY DEF OpeningInv, OpeningTypes, SegmentsAreShared
<1>2. proc[q].shm \in Nat
  BY DEF OpeningInv, OpeningTypes
<1> QED
  BY <1>1, <1>2, BoundTypes

LEMMA CreateStep ==
  ASSUME OpeningInv, NEW p \in Openers, Opening!CreateSegment(p)
  PROVE  OpeningInv'
<1> DEFINE s == kernel.created + 1
           x == [proc[p] EXCEPT !.pc = "attach", !.shm = s]
<1>1. /\ kernel \in [key : Nat, created : Nat, deaths : Nat, fits : BOOLEAN]
      /\ kernel.created \in 1 .. MaxSegments /\ kernel.created \in Nat
      /\ segs \in [1 .. MaxSegments -> SegRec] /\ proc \in [Openers -> ProcRec]
      /\ SegmentsAreShared /\ NothingIsSkipped
  BY DEF OpeningInv, OpeningTypes, SegRec, ProcRec
<1>2. /\ kernel.created < MaxSegments /\ proc[p].pc = "closed"
      /\ proc' = [proc EXCEPT ![p] = x]
      /\ segs' = [segs EXCEPT ![s] = Opening!Fresh(p)]
      /\ kernel' = [kernel EXCEPT !.key = s, !.created = s]
  BY DEF Opening!CreateSegment, Opening!At
<1>0. proc[p] \in ProcRec /\ MaxSegments \in Nat
  BY <1>1, TransportAssumption
<1>3. s \in 1 .. MaxSegments /\ s # 0 /\ kernel.created < s /\ s \in Nat
  BY <1>1, <1>2, TransportAssumption
<1>4. x \in ProcRec /\ x.pc = "attach" /\ x.shm = s
  BY <1>0, <1>3 DEF ProcRec, HasSegment
<1>5. Opening!Fresh(p) \in SegRec /\ Opening!Fresh(p).creator = p
  BY DEF SegRec, Opening!Fresh, Opening!Indicator
<1>6. /\ kernel' \in [key : Nat, created : Nat, deaths : Nat, fits : BOOLEAN]
      /\ kernel'.key = s /\ kernel'.created = s
  BY <1>1, <1>2, <1>3
<1>7. /\ proc' \in [Openers -> ProcRec] /\ proc'[p] = x
      /\ \A q \in Openers \ {p} : proc'[q] = proc[q]
  BY <1>1, <1>2, <1>4, ProcUpdate
<1>8. /\ segs' \in [1 .. MaxSegments -> SegRec] /\ segs'[s].creator = p
      /\ \A g \in 1 .. MaxSegments : g # s => segs'[g] = segs[g]
  BY <1>1, <1>2, <1>3, <1>5
<1>9. OpeningTypes'
  BY <1>3, <1>6, <1>7, <1>8 DEF OpeningTypes, SegRec, ProcRec
<1>10. \A q \in Openers : /\ proc[q].shm \in Nat /\ proc[q].shm < s
                          /\ proc[q].pc \in HasSegment => proc[q].shm \in 1 .. MaxSegments
  BY <1>0, <1>1, <1>3 DEF SegmentsAreShared, ProcRec
<1>11. SegmentsAreShared'
  <2>1. ASSUME NEW q \in Openers \ {p}
        PROVE  /\ proc'[q].shm <= kernel'.created
               /\ proc'[q].pc \in HasSegment =>
                    /\ proc'[q].shm # 0 /\ segs'[proc'[q].shm].abandoned
                    /\ proc'[q].pc \in {"attach", "construct"} => segs'[proc'[q].shm].creator = q
    <3>1. proc[q].pc \in HasSegment => proc[q].shm # 0 /\ proc[q].shm # kernel.key
      BY <1>1 DEF SegmentsAreShared, Opening!CreateSegment, Opening!None
    <3> QED
      BY <1>1, <1>3, <1>6, <1>7, <1>8, <1>10, <3>1 DEF SegmentsAreShared
  <2>2. proc'[p].shm <= kernel'.created /\ proc'[p].shm # 0 /\ proc'[p].shm = kernel'.key
        /\ segs'[proc'[p].shm].creator = p
    BY <1>3, <1>4, <1>6, <1>7, <1>8
  <2> QED
    BY <2>1, <2>2 DEF SegmentsAreShared
<1>12. NothingIsSkipped'
  <2>1. \A n : \A g \in 1 .. MaxSegments : g # s /\ Covered(g, n) => Covered(g, n)'
    BY <1>2, <1>7, <1>8 DEF Covered
  <2>2. \A q \in Openers : proc'[q].pc \in {"ready", "write"} =>
          q # p /\ proc[q].shm \in 1 .. MaxSegments /\ proc[q].shm # s
    <3>1. proc'[p].pc = "attach"
      BY <1>4, <1>7
    <3>2. \A q \in Openers \ {p} : proc[q].pc \in {"ready", "write"} =>
            proc[q].shm \in 1 .. MaxSegments /\ proc[q].shm # s
      BY <1>3, <1>10 DEF HasSegment
    <3> QED
      BY <1>7, <3>1, <3>2
  <2> QED
    BY <1>1, <1>7, <1>8, <2>1, <2>2 DEF NothingIsSkipped
<1> QED
  BY <1>9, <1>11, <1>12 DEF OpeningInv

\* The steps that leave the process where it was but for its pc, and change
\* the segment: AttachFails, Construct.
LEMMA AttachFailsStep ==
  ASSUME OpeningInv, NEW p \in Openers, Opening!AttachFails(p)
  PROVE  OpeningInv'
<1> DEFINE s == proc[p].shm
           x == [proc[p] EXCEPT !.pc = "down"]
<1>1. /\ kernel \in [key : Nat, created : Nat, deaths : Nat, fits : BOOLEAN]
      /\ kernel.created \in 1 .. MaxSegments /\ kernel.key <= kernel.created
      /\ segs \in [1 .. MaxSegments -> SegRec] /\ proc \in [Openers -> ProcRec]
      /\ SegmentsAreShared /\ NothingIsSkipped
  BY DEF OpeningInv, OpeningTypes, SegRec, ProcRec
<1>2. /\ proc[p].pc = "attach" /\ proc' = [proc EXCEPT ![p] = x]
      /\ segs' = [segs EXCEPT ![s].abandoned = TRUE]
      /\ kernel' = [kernel EXCEPT !.key = IF @ = s THEN 0 ELSE @]
  BY DEF Opening!AttachFails, Opening!Go, Opening!At, Opening!Shm, Opening!None
<1>3. proc[p] \in ProcRec /\ x \in ProcRec /\ x.pc = "down" /\ x.shm = s
  BY <1>1 DEF ProcRec, HasSegment
<1>4. s \in 1 .. MaxSegments
  BY <1>2, HaveSegments DEF HasSegment
<1>5. /\ kernel' \in [key : Nat, created : Nat, deaths : Nat, fits : BOOLEAN]
      /\ kernel'.created = kernel.created
      /\ kernel'.key = IF kernel.key = s THEN 0 ELSE kernel.key
  BY <1>1, <1>2
<1>6. /\ proc' \in [Openers -> ProcRec] /\ proc'[p] = x
      /\ \A q \in Openers \ {p} : proc'[q] = proc[q]
  BY <1>1, <1>2, <1>3, ProcUpdate
<1>7. /\ segs' \in [1 .. MaxSegments -> SegRec] /\ segs'[s].abandoned
      /\ \A g \in 1 .. MaxSegments :
           /\ segs'[g].ind = segs[g].ind /\ segs'[g].creator = segs[g].creator
           /\ segs'[g].late = segs[g].late /\ segs'[g].orphans = segs[g].orphans
           /\ g # s => segs'[g] = segs[g]
  <2>1. segs[s] \in SegRec /\ [segs[s] EXCEPT !.abandoned = TRUE] \in SegRec
    BY <1>1, <1>4, ZenonT(60) DEF SegRec
  <2> QED
    BY <1>1, <1>2, <1>4, <2>1 DEF SegRec
<1>8. OpeningTypes'
  <2>1. kernel'.created \in 1 .. MaxSegments /\ kernel'.key <= kernel'.created
    BY <1>1, <1>5
  <2>2. segs' \in [1 .. MaxSegments ->
            [ind : [next_seq : Nat, written : SUBSET Nat], creator : Openers \union {d},
             late : BOOLEAN, abandoned : BOOLEAN, orphans : SUBSET Nat]]
    BY <1>7, Zenon DEF SegRec
  <2>3. proc' \in [Openers ->
            [pc : HasSegment \union {"closed", "open_only", "down"}, shm : Nat, retry : Nat,
             next_seq_ : Nat, seq : Nat]]
    BY <1>6, Zenon DEF ProcRec
  <2> QED
    BY <1>5, <2>1, <2>2, <2>3, Zenon DEF OpeningTypes
<1>9. \A q \in Openers : proc[q].pc \in HasSegment => proc[q].shm \in 1 .. MaxSegments
  BY HaveSegments
<1>10. SegmentsAreShared'
  <2>1. ASSUME NEW q \in Openers \ {p}, proc[q].pc \in HasSegment
        PROVE  /\ proc[q].shm # 0
               /\ (proc[q].shm = kernel'.key) \/ segs'[proc[q].shm].abandoned
               /\ proc[q].pc \in {"attach", "construct"} => segs'[proc[q].shm].creator = q
    BY <1>1, <1>5, <1>7, <1>9, <2>1 DEF SegmentsAreShared
  <2>2. \A q \in Openers : proc'[q].shm <= kernel'.created
    BY <1>1, <1>3, <1>5, <1>6, ZenonT(60) DEF SegmentsAreShared, ProcRec
  <2> QED
    BY <1>3, <1>6, <2>1, <2>2 DEF SegmentsAreShared, HasSegment
<1>11. NothingIsSkipped'
  <2>1. \A n : \A g \in 1 .. MaxSegments : Covered(g, n) => Covered(g, n)'
    BY <1>2, <1>6, <1>7 DEF Covered
  <2>2. \A q \in Openers : proc'[q].pc \in {"ready", "write"} =>
          q # p /\ proc[q].shm \in 1 .. MaxSegments
    BY <1>3, <1>6, <1>9 DEF HasSegment
  <2> QED
    BY <1>1, <1>6, <1>7, <2>1, <2>2 DEF NothingIsSkipped
<1> QED
  BY <1>8, <1>10, <1>11 DEF OpeningInv

LEMMA ConstructStep ==
  ASSUME OpeningInv, NEW p \in Openers, Opening!Construct(p)
  PROVE  OpeningInv'
<1> DEFINE s == proc[p].shm
           x == [proc[p] EXCEPT !.pc = "load"]
<1>1. /\ segs \in [1 .. MaxSegments -> SegRec] /\ proc \in [Openers -> ProcRec]
      /\ SegmentsAreShared /\ NothingIsSkipped /\ kernel' = kernel /\ OpeningTypes
      /\ kernel.created \in 1 .. MaxSegments
  BY DEF OpeningInv, OpeningTypes, SegRec, ProcRec, Opening!Construct
<1>2. /\ proc[p].pc = "construct" /\ proc' = [proc EXCEPT ![p] = x]
      /\ segs' = [segs EXCEPT ![s].ind = Opening!Indicator,
           ![s].late = @ \/ (segs[s].creator = p /\ segs[s].ind.next_seq > 0)]
  BY DEF Opening!Construct, Opening!Go, Opening!At, Opening!Shm
<1>3. proc[p] \in ProcRec /\ x \in ProcRec /\ x.pc = "load" /\ x.shm = s
  BY <1>1 DEF ProcRec, HasSegment
<1>4. s \in 1 .. MaxSegments /\ segs[s].creator = p
  BY <1>1, <1>2, HaveSegments DEF SegmentsAreShared, HasSegment
<1>5. segs[s] \in SegRec /\ Opening!Indicator \in [next_seq : Nat, written : SUBSET Nat]
  BY <1>1, <1>4 DEF Opening!Indicator
<1>6. /\ proc' \in [Openers -> ProcRec] /\ proc'[p] = x
      /\ \A q \in Openers \ {p} : proc'[q] = proc[q]
  BY <1>1, <1>2, <1>3, ProcUpdate
<1>7. /\ segs' \in [1 .. MaxSegments -> SegRec] /\ segs'[s].ind = Opening!Indicator
      /\ segs'[s].late = (segs[s].late \/ segs[s].ind.next_seq > 0)
      /\ \A g \in 1 .. MaxSegments :
           /\ segs'[g].creator = segs[g].creator /\ segs'[g].abandoned = segs[g].abandoned
           /\ segs'[g].orphans = segs[g].orphans
           /\ g # s => segs'[g] = segs[g]
  BY <1>1, <1>2, <1>4, <1>5 DEF SegRec
<1>8. OpeningTypes'
  BY <1>1, <1>6, <1>7 DEF OpeningTypes, SegRec, ProcRec
<1>9. \A q \in Openers : proc[q].pc \in HasSegment => proc[q].shm \in 1 .. MaxSegments
  BY HaveSegments
<1>10. SegmentsAreShared'
  <2>1. \A q \in Openers : /\ proc'[q].shm = proc[q].shm
                           /\ proc'[q].pc \in HasSegment => proc[q].pc \in HasSegment
                           /\ proc'[q].pc \in {"attach", "construct"} => proc'[q] = proc[q]
    BY <1>2, <1>3, <1>6 DEF HasSegment
  <2> QED
    BY <1>1, <1>7, <1>9, <2>1 DEF SegmentsAreShared
<1>11. NothingIsSkipped'
  <2> SUFFICES ASSUME NEW q \in Openers, proc'[q].pc \in {"ready", "write"},
                      ~segs'[proc'[q].shm].late
               PROVE  /\ proc'[q].next_seq_ <= segs'[proc'[q].shm].ind.next_seq
                      /\ \A n \in Nat :
                           proc'[q].next_seq_ <= n /\ n < segs'[proc'[q].shm].ind.next_seq
                             => Covered(proc[q].shm, n)'
    BY DEF NothingIsSkipped
  <2>1. q # p /\ proc'[q] = proc[q] /\ proc[q].shm \in 1 .. MaxSegments /\ proc[q] \in ProcRec
    BY <1>1, <1>3, <1>6, <1>9 DEF HasSegment
  <2>2. CASE proc[q].shm = s
    <3>1. ~segs[s].late /\ segs[s].ind.next_seq = 0 /\ proc[q].next_seq_ = 0
      <4>1. ~segs[s].late /\ ~(segs[s].ind.next_seq > 0) /\ segs[s].ind.next_seq \in Nat
        BY <1>5, <1>7, <2>1, <2>2 DEF SegRec
      <4>2. proc[q].next_seq_ <= segs[s].ind.next_seq /\ proc[q].next_seq_ \in Nat
        BY <1>1, <2>1, <2>2, <4>1 DEF NothingIsSkipped, ProcRec
      <4> QED
        BY <4>1, <4>2
    <3> QED
      BY <1>7, <2>1, <2>2, <3>1 DEF Opening!Indicator
  <2>3. CASE proc[q].shm # s
    <3>1. \A n : Covered(proc[q].shm, n) => Covered(proc[q].shm, n)'
      BY <1>2, <1>6, <1>7, <2>1, <2>3, SMTT(40) DEF Covered
    <3> QED
      BY <1>1, <1>7, <2>1, <2>3, <3>1 DEF NothingIsSkipped
  <2> QED
    BY <2>2, <2>3
<1> QED
  BY <1>8, <1>10, <1>11 DEF OpeningInv

\* What p is owed begins at the number it loads, and a poll takes the first.
LEMMA ReaderSteps ==
  ASSUME OpeningInv, NEW p \in Openers, Opening!LoadNextSeq(p) \/ Opening!Listen(p)
  PROVE  OpeningInv'
<1> DEFINE s == proc[p].shm
<1>1. /\ segs \in [1 .. MaxSegments -> SegRec] /\ proc \in [Openers -> ProcRec]
      /\ SegmentsAreShared /\ NothingIsSkipped /\ OpeningTypes
      /\ kernel' = kernel /\ segs' = segs
  BY DEF OpeningInv, OpeningTypes, SegRec, ProcRec, Opening!LoadNextSeq, Opening!Listen
<1>2. s \in 1 .. MaxSegments /\ proc[p] \in ProcRec /\ proc[p].pc \in {"load", "ready"}
  BY <1>1, HaveSegments DEF HasSegment, Opening!LoadNextSeq, Opening!Listen, Opening!At
<1>3. segs[s].ind.next_seq \in Nat
  BY <1>1, <1>2 DEF SegRec
<1>4. PICK x \in ProcRec :
        /\ proc' = [proc EXCEPT ![p] = x] /\ x.pc = "ready" /\ x.shm = s
        /\ ~segs[s].late =>
             /\ x.next_seq_ <= segs[s].ind.next_seq
             /\ \A n \in Nat : x.next_seq_ <= n /\ n < segs[s].ind.next_seq => Covered(s, n)
  <2>1. CASE Opening!LoadNextSeq(p)
    <3> DEFINE x == [proc[p] EXCEPT !.pc = "ready", !.next_seq_ = segs[s].ind.next_seq]
    <3>1. proc' = [proc EXCEPT ![p] = x]
      BY <2>1 DEF Opening!LoadNextSeq, Opening!Shm
    <3>2. x \in ProcRec /\ x.pc = "ready" /\ x.shm = s /\ x.next_seq_ = segs[s].ind.next_seq
      BY <1>2, <1>3 DEF ProcRec, HasSegment
    <3>3. /\ x.next_seq_ <= segs[s].ind.next_seq
          /\ \A n \in Nat : ~(x.next_seq_ <= n /\ n < segs[s].ind.next_seq)
      BY <1>3, <3>2
    <3> HIDE DEF x
    <3> QED
      BY <3>1, <3>2, <3>3
  <2>2. CASE Opening!Listen(p)
    <3> DEFINE x == [proc[p] EXCEPT !.next_seq_ = @ + 1]
    <3>1. /\ proc' = [proc EXCEPT ![p] = x] /\ proc[p].pc = "ready"
          /\ proc[p].next_seq_ # segs[s].ind.next_seq
      BY <2>2 DEF Opening!Listen, Opening!Shm, Opening!At
    <3>2. /\ x \in ProcRec /\ x.pc = "ready" /\ x.shm = s
          /\ x.next_seq_ = proc[p].next_seq_ + 1 /\ proc[p].next_seq_ \in Nat
      BY <1>2, <3>1 DEF ProcRec, HasSegment
    <3>3. ~segs[s].late =>
            /\ proc[p].next_seq_ <= segs[s].ind.next_seq
            /\ \A n \in Nat :
                 proc[p].next_seq_ <= n /\ n < segs[s].ind.next_seq => Covered(s, n)
      BY <1>1, <3>1 DEF NothingIsSkipped
    <3> HIDE DEF x
    <3>4. ~segs[s].late =>
            /\ x.next_seq_ <= segs[s].ind.next_seq
            /\ \A n \in Nat :
                 x.next_seq_ <= n /\ n < segs[s].ind.next_seq => Covered(s, n)
      BY <1>3, <3>1, <3>2, <3>3
    <3> QED
      BY <3>1, <3>2, <3>4
  <2> QED
    BY <2>1, <2>2
<1>5. /\ proc' \in [Openers -> ProcRec] /\ proc'[p] = x
      /\ \A q \in Openers \ {p} : proc'[q] = proc[q]
  BY <1>1, <1>4, ProcUpdate
<1>6. OpeningTypes'
  BY <1>1, <1>5 DEF OpeningTypes, ProcRec
<1>7. SegmentsAreShared'
  <2>1. \A q \in Openers : /\ proc'[q].shm = proc[q].shm
                           /\ proc'[q].pc \in HasSegment => proc[q].pc \in HasSegment
                           /\ proc'[q].pc \in {"attach", "construct"} => proc'[q] = proc[q]
    BY <1>2, <1>4, <1>5 DEF HasSegment
  <2> QED
    BY <1>1, <2>1 DEF SegmentsAreShared
<1>8. NothingIsSkipped'
  <2>1. \A g, n : Covered(g, n) => Covered(g, n)'
    BY <1>1, <1>2, <1>5 DEF Covered
  <2> QED
    BY <1>1, <1>4, <1>5, <2>1 DEF NothingIsSkipped
<1> QED
  BY <1>6, <1>7, <1>8 DEF OpeningInv

\* Claim, WriteEntry and Die at the writing of an entry: a number that is
\* claimed stays covered until it is written or orphaned.
LEMMA ClaimStep ==
  ASSUME OpeningInv, NEW p \in Openers, Opening!Claim(p)
  PROVE  OpeningInv'
<1> DEFINE s == proc[p].shm
           k == segs[s].ind.next_seq
           x == [proc[p] EXCEPT !.pc = "write", !.seq = k]
<1>1. /\ segs \in [1 .. MaxSegments -> SegRec] /\ proc \in [Openers -> ProcRec]
      /\ SegmentsAreShared /\ NothingIsSkipped /\ OpeningTypes /\ kernel' = kernel
  BY DEF OpeningInv, OpeningTypes, SegRec, ProcRec, Opening!Claim
<1>2. /\ proc[p].pc = "ready" /\ proc' = [proc EXCEPT ![p] = x]
      /\ segs' = [segs EXCEPT ![s].ind.next_seq = @ + 1]
  BY DEF Opening!Claim, Opening!Shm, Opening!At
<1>3. s \in 1 .. MaxSegments /\ proc[p] \in ProcRec /\ segs[s] \in SegRec /\ k \in Nat
  BY <1>1, <1>2, HaveSegments DEF HasSegment, SegRec
<1>4. /\ x \in ProcRec /\ x.pc = "write" /\ x.shm = s /\ x.seq = k
      /\ x.next_seq_ = proc[p].next_seq_
  BY <1>3 DEF ProcRec, HasSegment
<1>5. /\ proc' \in [Openers -> ProcRec] /\ proc'[p] = x
      /\ \A q \in Openers \ {p} : proc'[q] = proc[q]
  BY <1>1, <1>2, <1>4, ProcUpdate
<1>6. /\ segs' \in [1 .. MaxSegments -> SegRec] /\ segs'[s].ind.next_seq = k + 1
      /\ segs'[s].ind.written = segs[s].ind.written
      /\ \A g \in 1 .. MaxSegments :
           /\ segs'[g].creator = segs[g].creator /\ segs'[g].abandoned = segs[g].abandoned
           /\ segs'[g].orphans = segs[g].orphans /\ segs'[g].late = segs[g].late
           /\ g # s => segs'[g] = segs[g]
  <2>1. [segs[s] EXCEPT !.ind.next_seq = @ + 1] \in SegRec
    BY <1>3 DEF SegRec
  <2> QED
    BY <1>1, <1>2, <1>3, <2>1 DEF SegRec
<1>7. OpeningTypes'
  BY <1>1, <1>5, <1>6 DEF OpeningTypes, SegRec, ProcRec
<1>8. \A q \in Openers : /\ proc'[q].shm = proc[q].shm /\ proc'[q].next_seq_ = proc[q].next_seq_
                         /\ proc'[q].pc \in HasSegment => proc[q].pc \in HasSegment
                         /\ proc'[q].pc \in {"attach", "construct"} => proc'[q] = proc[q]
                         /\ proc'[q].pc \in {"ready", "write"} => proc[q].pc \in {"ready", "write"}
  BY <1>2, <1>4, <1>5 DEF HasSegment
<1>9. \A q \in Openers : proc[q].pc \in HasSegment => proc[q].shm \in 1 .. MaxSegments
  BY HaveSegments
<1>10. SegmentsAreShared'
  BY <1>1, <1>6, <1>8, <1>9 DEF SegmentsAreShared
<1>11. NothingIsSkipped'
  <2>1. \A n : \A g \in 1 .. MaxSegments : Covered(g, n) => Covered(g, n)'
    BY <1>2, <1>5, <1>6 DEF Covered
  <2>2. \A g, n : g = s /\ n = k => Covered(g, n)'
    BY <1>4, <1>5 DEF Covered
  <2> SUFFICES ASSUME NEW q \in Openers, proc[q].pc \in {"ready", "write"},
                      ~segs'[proc[q].shm].late
               PROVE  /\ proc[q].next_seq_ <= segs'[proc[q].shm].ind.next_seq
                      /\ \A n \in Nat : proc[q].next_seq_ <= n
                                        /\ n < segs'[proc[q].shm].ind.next_seq
                                          => Covered(proc[q].shm, n)'
    BY <1>8 DEF NothingIsSkipped
  <2>3. proc[q].shm \in 1 .. MaxSegments /\ proc[q] \in ProcRec
    BY <1>1, <1>9 DEF HasSegment
  <2>4. /\ proc[q].next_seq_ <= segs[proc[q].shm].ind.next_seq
        /\ \A n \in Nat : proc[q].next_seq_ <= n /\ n < segs[proc[q].shm].ind.next_seq
                            => Covered(proc[q].shm, n)
    BY <1>1, <1>6, <2>3 DEF NothingIsSkipped
  <2>5. CASE proc[q].shm = s
    <3>1. proc[q].next_seq_ \in Nat /\ proc[q].next_seq_ <= k
      BY <2>3, <2>4, <2>5 DEF ProcRec
    <3>2. \A n \in Nat : n < k + 1 => n < k \/ n = k
      BY <1>3
    <3>3. \A n \in Nat : proc[q].next_seq_ <= n /\ n < k + 1 =>
            \A g \in 1 .. MaxSegments : g = s => Covered(g, n)'
      BY <2>1, <2>2, <2>4, <2>5, <3>2
    <3> QED
      BY <1>3, <1>6, <1>8, <2>5, <3>1, <3>3
  <2>6. CASE proc[q].shm # s
    BY <1>6, <1>8, <2>1, <2>3, <2>4, <2>6
  <2> QED
    BY <2>5, <2>6
<1> QED
  BY <1>7, <1>10, <1>11 DEF OpeningInv

\* p stops writing: the entry is there, or nobody will write it.
WritingEnds(p, x) ==
  /\ kernel'.key = kernel.key /\ kernel'.created = kernel.created
  /\ kernel' \in [key : Nat, created : Nat, deaths : Nat, fits : BOOLEAN]
  /\ x \in ProcRec /\ proc' = [proc EXCEPT ![p] = x] /\ x.shm \in {0, proc[p].shm}
  /\ x.pc = "down" \/ (x.pc = "ready" /\ proc[p].pc = "write" /\ x.shm = proc[p].shm
                         /\ x.next_seq_ = proc[p].next_seq_)
  /\ segs' \in [1 .. MaxSegments -> SegRec]
  /\ \A g \in 1 .. MaxSegments :
       /\ segs'[g].creator = segs[g].creator /\ segs'[g].abandoned = segs[g].abandoned
       /\ segs'[g].late = segs[g].late /\ segs'[g].ind.next_seq = segs[g].ind.next_seq
       /\ segs[g].ind.written \subseteq segs'[g].ind.written
       /\ segs[g].orphans \subseteq segs'[g].orphans
  /\ proc[p].pc = "write" =>
       proc[p].seq \in segs'[proc[p].shm].ind.written \union segs'[proc[p].shm].orphans

LEMMA WritingEndsKeeps ==
  ASSUME OpeningInv, NEW p \in Openers, NEW x, WritingEnds(p, x)
  PROVE  OpeningInv'
<1>1. /\ proc \in [Openers -> ProcRec] /\ SegmentsAreShared /\ NothingIsSkipped /\ OpeningTypes
      /\ kernel.key <= kernel.created /\ kernel.created \in 1 .. MaxSegments
  BY DEF OpeningInv, OpeningTypes, SegRec, ProcRec
<1>2. /\ proc' \in [Openers -> ProcRec] /\ proc'[p] = x
      /\ \A q \in Openers \ {p} : proc'[q] = proc[q]
  BY <1>1, ProcUpdate DEF WritingEnds
<1>3. \A q \in Openers : proc[q].pc \in HasSegment => proc[q].shm \in 1 .. MaxSegments
  BY HaveSegments
<1>4. OpeningTypes'
  BY <1>1, <1>2 DEF OpeningTypes, ProcRec, SegRec, WritingEnds
<1>5. \A q \in Openers :
        /\ proc'[q].shm <= kernel.created
        /\ proc'[q].pc \in HasSegment =>
             proc[q].pc \in HasSegment /\ proc'[q].shm = proc[q].shm
        /\ proc'[q].pc \in {"attach", "construct"} => proc'[q] = proc[q]
        /\ proc'[q].pc \in {"ready", "write"} =>
             /\ proc[q].pc \in {"ready", "write"} /\ proc'[q].shm = proc[q].shm
             /\ proc'[q].next_seq_ = proc[q].next_seq_ /\ proc[q].shm \in 1 .. MaxSegments
  <2>1. \A q \in Openers : 0 <= kernel.created /\ proc[q].shm <= kernel.created
    BY <1>1 DEF SegmentsAreShared
  <2> QED
    BY <1>2, <1>3, <2>1 DEF WritingEnds, HasSegment
<1>6. SegmentsAreShared'
  BY <1>1, <1>3, <1>5 DEF SegmentsAreShared, WritingEnds
<1>7. NothingIsSkipped'
  <2>1. ASSUME NEW g \in 1 .. MaxSegments, NEW n, Covered(g, n)
        PROVE  Covered(g, n)'
    <3>1. CASE n \in segs[g].ind.written \union segs[g].orphans
      BY <3>1 DEF Covered, WritingEnds
    <3>2. CASE \E q \in Openers \ {p} : proc[q].pc = "write" /\ proc[q].shm = g /\ proc[q].seq = n
      BY <1>2, <3>2 DEF Covered
    <3>3. CASE proc[p].pc = "write" /\ proc[p].shm = g /\ proc[p].seq = n
      BY <3>3 DEF Covered, WritingEnds
    <3> QED
      BY <2>1, <3>1, <3>2, <3>3 DEF Covered
  <2> QED
    BY <1>1, <1>5, <2>1 DEF NothingIsSkipped, WritingEnds
<1> QED
  BY <1>4, <1>6, <1>7 DEF OpeningInv

LEMMA WriterSteps ==
  ASSUME OpeningInv, NEW p \in Openers, Opening!WriteEntry(p) \/ Opening!Die(p)
  PROVE  OpeningInv'
<1> DEFINE s == proc[p].shm
<1>1. /\ kernel \in [key : Nat, created : Nat, deaths : Nat, fits : BOOLEAN]
      /\ segs \in [1 .. MaxSegments -> SegRec] /\ proc[p] \in ProcRec
      /\ proc[p].seq \in Nat
  BY DEF OpeningInv, OpeningTypes, SegRec, ProcRec
<1>2. proc[p].pc = "write" => s \in 1 .. MaxSegments /\ segs[s] \in SegRec
  BY <1>1, HaveSegments DEF HasSegment
<1>3. ASSUME Opening!WriteEntry(p) PROVE \E x : WritingEnds(p, x)
  <2> DEFINE x == [proc[p] EXCEPT !.pc = "ready"]
             y == [segs[s] EXCEPT !.ind.written = @ \union {proc[p].seq}]
  <2>1. /\ proc[p].pc = "write" /\ proc' = [proc EXCEPT ![p] = x] /\ kernel' = kernel
        /\ segs' = [segs EXCEPT ![s] = y]
    BY <1>3 DEF Opening!WriteEntry, Opening!Go, Opening!At, Opening!Shm
  <2>2. x \in ProcRec /\ x.pc = "ready" /\ x.shm = s /\ x.next_seq_ = proc[p].next_seq_
    BY <1>1 DEF ProcRec, HasSegment
  <2>3. /\ y \in SegRec /\ y.creator = segs[s].creator /\ y.abandoned = segs[s].abandoned
        /\ y.late = segs[s].late /\ y.ind.next_seq = segs[s].ind.next_seq
        /\ y.ind.written = segs[s].ind.written \union {proc[p].seq}
        /\ y.orphans = segs[s].orphans
    BY <1>1, <1>2, <2>1 DEF SegRec
  <2> HIDE DEF x, y
  <2> QED
    BY <1>1, <1>2, <2>1, <2>2, <2>3 DEF WritingEnds
<1>4. ASSUME Opening!Die(p) PROVE \E x : WritingEnds(p, x)
  <2> DEFINE x == [Opening!Closed EXCEPT !.pc = "down"]
             y == [segs[s] EXCEPT !.orphans = @ \union {proc[p].seq}]
  <2>1. /\ proc' = [proc EXCEPT ![p] = x] /\ kernel' = [kernel EXCEPT !.deaths = @ + 1]
        /\ segs' = IF proc[p].pc = "write" THEN [segs EXCEPT ![s] = y] ELSE segs
    BY <1>4 DEF Opening!Die, Opening!At, Opening!Shm
  <2>2. x \in ProcRec /\ x.pc = "down" /\ x.shm = 0
    BY DEF ProcRec, HasSegment, Opening!Closed, Opening!None
  <2>3. proc[p].pc = "write" =>
        /\ y \in SegRec /\ y.creator = segs[s].creator /\ y.abandoned = segs[s].abandoned
        /\ y.late = segs[s].late /\ y.ind = segs[s].ind
        /\ y.orphans = segs[s].orphans \union {proc[p].seq}
    BY <1>1, <1>2 DEF SegRec
  <2>4. /\ kernel'.key = kernel.key /\ kernel'.created = kernel.created
        /\ kernel' \in [key : Nat, created : Nat, deaths : Nat, fits : BOOLEAN]
    BY <1>1, <2>1
  <2> HIDE DEF x, y
  <2>5. CASE proc[p].pc = "write"
    BY <1>1, <1>2, <2>1, <2>2, <2>3, <2>4, <2>5 DEF WritingEnds
  <2>6. CASE proc[p].pc # "write"
    BY <1>1, <2>1, <2>2, <2>4, <2>6 DEF WritingEnds
  <2> QED
    BY <2>5, <2>6
<1> QED
  BY <1>3, <1>4, WritingEndsKeeps

LEMMA OpeningStep ==
  ASSUME OpeningInv, Opening!OpeningNext
  PROVE  OpeningInv'
BY QuietSteps, CreateStep, AttachFailsStep, ConstructStep, ReaderSteps, ClaimStep, WriterSteps
   DEF Opening!OpeningNext, Openers

LEMMA OpeningStart == Opening!OpeningInit => OpeningInv
<1> SUFFICES ASSUME Opening!OpeningInit PROVE OpeningInv
  OBVIOUS
<1>1. proc = [p \in Openers |-> Opening!Closed]
  BY DEF Opening!OpeningInit, Openers
<1>2. /\ kernel.key \in {0, 1} /\ kernel.created = 1
      /\ kernel \in [key : Nat, created : Nat, deaths : Nat, fits : BOOLEAN]
  BY DEF Opening!OpeningInit, Opening!None
<1>3. segs \in [1 .. MaxSegments -> SegRec]
  <2>1. PICK used \in {0, 1} :
          segs = [s \in Opening!Ids |-> [Opening!Fresh(d) EXCEPT
            !.ind = IF s = kernel.key THEN [next_seq |-> used, written |-> 0 .. used - 1] ELSE @]]
    BY DEF Opening!OpeningInit
  <2>2. Opening!Fresh(d) \in SegRec
    BY DEF Opening!Fresh, Opening!Indicator, SegRec
  <2>3. [next_seq |-> used, written |-> 0 .. used - 1] \in [next_seq : Nat, written : SUBSET Nat]
    OBVIOUS
  <2> QED
    BY <2>1, <2>2, <2>3 DEF Opening!Ids, SegRec
<1>4. \A p \in Openers : proc[p] \in ProcRec /\ proc[p].pc = "closed" /\ proc[p].shm = 0
  BY <1>1 DEF ProcRec, HasSegment, Opening!Closed, Opening!None
<1>5. OpeningTypes
  BY <1>1, <1>2, <1>3, <1>4, BoundTypes, TransportAssumption DEF OpeningTypes, ProcRec, SegRec
<1>6. SegmentsAreShared /\ NothingIsSkipped
  BY <1>2, <1>4 DEF SegmentsAreShared, NothingIsSkipped, HasSegment
<1> QED
  BY <1>5, <1>6 DEF OpeningInv

LEMMA OpeningMeets == OpeningInv => Opening!NotifiersMeet
<1> SUFFICES ASSUME OpeningInv, NEW p \in Openers, proc[p].pc = "ready"
             PROVE  LET s == segs[proc[p].shm] IN
               /\ proc[p].shm = kernel.key \/ s.abandoned
               /\ ~s.late =>
                    /\ proc[p].next_seq_ <= s.ind.next_seq
                    /\ \A n \in proc[p].next_seq_ .. s.ind.next_seq - 1 :
                         \/ n \in s.ind.written \union s.orphans
                         \/ \E q \in Openers : /\ proc[q].pc = "write" /\ proc[q].shm = proc[p].shm
                                               /\ proc[q].seq = n
  BY DEF Opening!NotifiersMeet, Opening!At, Opening!Shm, Openers
<1> DEFINE s == segs[proc[p].shm]
<1>1. s.ind.next_seq \in Nat /\ proc[p].next_seq_ \in Nat
  <2>1. proc[p].shm \in 1 .. MaxSegments
    BY HaveSegments DEF HasSegment
  <2> QED
    BY <2>1 DEF OpeningInv, OpeningTypes
<1>2. \A n \in proc[p].next_seq_ .. s.ind.next_seq - 1 :
        n \in Nat /\ proc[p].next_seq_ <= n /\ n < s.ind.next_seq
  BY <1>1
<1> QED
  BY <1>2 DEF OpeningInv, SegmentsAreShared, NothingIsSkipped, HasSegment, Covered

-----------------------------------------------------------------------------
(* ListenerDispatch.                                                       *)

Has(s, x) == Listening!Contains(s, x)
Distinct(s) == \A i, j \in 1 .. Len(s) : s[i] = s[j] => i = j

LCalls == MCReaders \X (1 .. MaxAdds)
LSignals == Senders \union {"any"}
There == {"note", "subscribe", "listening"}

RunRec == [pc : {"idle", "any", "pair"}, h : LCalls \union {<<>>},
           from : Senders \union {"none"}, todo : Seq(LCalls),
           in : LCalls \union {<<>>}, owed : SUBSET MCReaders]
ReceiverRec == [from : LSignals, adds : 0 .. MaxAdds,
                pc : {"idle", "set", "connect"} \union There, h : LCalls \union {<<>>}]
DispatcherRec == [is_shutdown_ : BOOLEAN, handler : LCalls \union {<<>>}, backed : BOOLEAN,
                  subscribed : BOOLEAN, messages : Nat]

ListenerTypes ==
  /\ dispatcher \in DispatcherRec
  /\ slots \in [LCalls -> [LSignals -> Seq(LCalls)]]
  /\ connected \subseteq LCalls
  /\ receiver \in [MCReaders -> ReceiverRec]
  /\ run \in [Dispatchers -> RunRec]

\* Only the calls so far have made handlers, and one that is yet to be set
\* is its maker's alone.
Made(h) == h[2] <= receiver[h[1]].adds
HandlersAreFresh ==
  /\ dispatcher.handler # <<>> => Made(dispatcher.handler)
  /\ \A r \in MCReaders :
       /\ receiver[r].h # <<>> => Made(receiver[r].h)
       /\ receiver[r].pc # "idle" => receiver[r].h # <<>> /\ receiver[r].adds > 0
       /\ receiver[r].pc = "set" =>
            /\ receiver[r].h = <<r, receiver[r].adds>> /\ dispatcher.handler # receiver[r].h
            /\ \A q \in MCReaders \ {r} : receiver[q].h # receiver[r].h
            /\ \A f \in LSignals : slots[receiver[r].h][f] = <<>>
  /\ \A h \in LCalls : ~Made(h) => \A f \in LSignals : slots[h][f] = <<>>

\* A slot that is in no other handler than that of the channel belongs to a
\* listener that is there.
SlotsAreOwned ==
  \A h \in LCalls, f \in LSignals :
    /\ Distinct(slots[h][f])
    /\ \A r \in MCReaders, k \in 1 .. MaxAdds : Has(slots[h][f], <<r, k>>) =>
         /\ receiver[r].from = f /\ k <= receiver[r].adds
         /\ receiver[r].pc \in {"set", "connect"} => k < receiver[r].adds
         /\ \/ receiver[r].pc \in There /\ k = receiver[r].adds /\ receiver[r].h = h
            \/ h # dispatcher.handler

ListenersAreThere ==
  \A r \in MCReaders : receiver[r].pc \in There =>
    /\ Has(slots[receiver[r].h][receiver[r].from], <<r, receiver[r].adds>>)
    /\ <<r, receiver[r].adds>> \in connected

\* The receivers a message is owed to are still to be called, or to be copied
\* with the signal of the writer.
OwedAreComing(t) ==
  /\ run[t].pc = "idle" => run[t].todo = <<>> /\ run[t].in = <<>> /\ run[t].owed = {}
  /\ run[t].pc # "idle" => run[t].h # <<>> /\ run[t].from \in Senders
  /\ \A r \in run[t].owed :
       /\ receiver[r].pc = "listening" /\ receiver[r].h = run[t].h
       /\ receiver[r].from = "any" =>
            run[t].pc = "any" /\ Has(run[t].todo, <<r, receiver[r].adds>>)
       /\ receiver[r].from # "any" =>
            /\ receiver[r].from = run[t].from
            /\ run[t].pc = "pair" => Has(run[t].todo, <<r, receiver[r].adds>>)
RunsAreOwed == \A t \in Dispatchers : OwedAreComing(t)

\* What is called without the lock are listeners to all writers; what is
\* called with it are slots that nobody can take meanwhile.
CallsAreLocal(t) ==
  \A r \in MCReaders, k \in 1 .. MaxAdds :
    Has(run[t].todo, <<r, k>>) \/ run[t].in = <<r, k>> =>
      /\ run[t].pc = "any" => receiver[r].from = "any"
      /\ run[t].pc = "pair" => Has(slots[run[t].h][run[t].from], <<r, k>>)
RunsAreLocal == \A t \in Dispatchers : CallsAreLocal(t)

ListenerInv ==
  /\ ListenerTypes /\ HandlersAreFresh /\ SlotsAreOwned /\ ListenersAreThere
  /\ RunsAreOwed /\ RunsAreLocal

\* What the operators on sequences do to what a sequence has.
LEMMA EmptyHas == \A x : ~Has(<<>>, x)
BY DEF Has, Listening!Contains

LEMMA AppendHas ==
  ASSUME NEW S, NEW s \in Seq(S), NEW x \in S
  PROVE  /\ Append(s, x) \in Seq(S) /\ Append(s, x) # <<>>
         /\ \A y : Has(Append(s, x), y) <=> Has(s, y) \/ y = x
         /\ Distinct(s) /\ ~Has(s, x) => Distinct(Append(s, x))
BY DEF Has, Listening!Contains, Distinct

LEMMA TailHas ==
  ASSUME NEW S, NEW s \in Seq(S), s # <<>>
  PROVE  /\ Head(s) \in S /\ Tail(s) \in Seq(S) /\ Has(s, Head(s))
         /\ \A y : Has(s, y) <=> y = Head(s) \/ Has(Tail(s), y)
<1>1. Len(s) \in Nat /\ Len(s) >= 1 /\ Head(s) = s[1] /\ s[1] \in S
  OBVIOUS
<1>2. /\ Tail(s) \in Seq(S) /\ Len(Tail(s)) = Len(s) - 1
      /\ \A i \in 1 .. Len(s) - 1 : Tail(s)[i] = s[i + 1]
  BY <1>1
<1>3. ASSUME NEW i \in 1 .. Len(s) PROVE i = 1 \/ (i - 1 \in 1 .. Len(s) - 1 /\ s[i] = Tail(s)[i - 1])
  BY <1>1, <1>2
<1>4. \A i \in 1 .. Len(s) - 1 : i + 1 \in 1 .. Len(s)
  BY <1>1
<1>5. ASSUME NEW y PROVE Has(s, y) <=> y = Head(s) \/ Has(Tail(s), y)
  <2>1. Has(s, y) <=> \E i \in 1 .. Len(s) : s[i] = y
    BY DEF Has, Listening!Contains
  <2>2. Has(Tail(s), y) <=> \E i \in 1 .. Len(s) - 1 : Tail(s)[i] = y
    BY <1>2 DEF Has, Listening!Contains
  <2>3. ASSUME NEW i \in 1 .. Len(s), s[i] = y PROVE y = Head(s) \/ Has(Tail(s), y)
    BY <1>1, <1>3, <2>2, <2>3
  <2>4. ASSUME NEW i \in 1 .. Len(s) - 1, Tail(s)[i] = y PROVE Has(s, y)
    BY <1>2, <1>4, <2>1, <2>4
  <2>5. y = Head(s) => Has(s, y)
    BY <1>1, <2>1
  <2> QED
    BY <2>1, <2>2, <2>3, <2>4, <2>5
<1>6. Has(s, Head(s))
  BY <1>5
<1> QED
  BY <1>1, <1>2, <1>5, <1>6

LEMMA RemoveHas ==
  ASSUME NEW S, NEW s \in Seq(S), Distinct(s), NEW i \in 1 .. Len(s)
  PROVE  LET e == Listening!RemoveAt(s, i) IN
         /\ e \in Seq(S) /\ Distinct(e)
         /\ \A y : Has(e, y) <=> Has(s, y) /\ y # s[i]
<1> DEFINE e == Listening!RemoveAt(s, i)
           a == SubSeq(s, 1, i - 1)
           b == SubSeq(s, i + 1, Len(s))
<1>1. PICK L \in Nat : L = Len(s) /\ i \in 1 .. L /\ \A j \in 1 .. L : s[j] \in S
  OBVIOUS
<1>2. a \in Seq(S) /\ Len(a) = i - 1 /\ \A j \in 1 .. i - 1 : a[j] = s[j]
  BY <1>1
<1>3. b \in Seq(S) /\ Len(b) = L - i /\ \A j \in 1 .. L - i : b[j] = s[i + j]
  <2>1. /\ b \in Seq(S) /\ Len(b) = IF i + 1 <= L THEN L - (i + 1) + 1 ELSE 0
        /\ \A j \in 1 .. L - (i + 1) + 1 : b[j] = s[(i + 1) + j - 1]
    <3>1. i + 1 \in Int /\ L \in Int /\ \A j \in i + 1 .. L : s[j] \in S
      BY <1>1
    <3> QED
      BY <1>1, <3>1, SubSeqProperties
  <2> HIDE DEF b
  <2> QED
    BY <1>1, <2>1
<1>4. e = a \o b
  BY DEF Listening!RemoveAt
<1> HIDE DEF a, b, e
<1>5. /\ e \in Seq(S) /\ Len(e) = L - 1
      /\ \A j \in 1 .. L - 1 : e[j] = IF j < i THEN s[j] ELSE s[j + 1]
  <2>1. /\ e \in Seq(S) /\ Len(e) = Len(a) + Len(b)
        /\ \A j \in 1 .. Len(a) + Len(b) : e[j] = IF j <= Len(a) THEN a[j] ELSE b[j - Len(a)]
    BY <1>2, <1>3, <1>4
  <2>2. Len(a) + Len(b) = L - 1
    BY <1>1, <1>2, <1>3
  <2>3. ASSUME NEW j \in 1 .. L - 1 PROVE e[j] = IF j < i THEN s[j] ELSE s[j + 1]
    <3>1. CASE j < i
      BY <1>1, <1>2, <2>1, <2>2, <3>1
    <3>2. CASE ~(j < i)
      <4>1. j - (i - 1) \in 1 .. L - i /\ i + (j - (i - 1)) = j + 1
        BY <1>1, <3>2
      <4>2. e[j] = b[j - (i - 1)]
        <5>1. Len(a) = i - 1 /\ ~(j <= Len(a)) /\ j \in 1 .. Len(a) + Len(b)
          BY <1>1, <1>2, <2>2, <3>2
        <5>2. e[j] = b[j - Len(a)]
          BY <2>1, <5>1
        <5> QED
          BY <5>1, <5>2
      <4> QED
        BY <1>3, <3>2, <4>1, <4>2
    <3> QED
      BY <3>1, <3>2
  <2> QED
    BY <2>1, <2>2, <2>3
<1>6. Distinct(e)
  BY <1>1, <1>5 DEF Distinct
<1>7. ASSUME NEW y PROVE Has(e, y) <=> Has(s, y) /\ y # s[i]
  <2>1. ASSUME NEW j \in 1 .. L, s[j] = y, y # s[i] PROVE Has(e, y)
    <3>1. CASE j < i
      BY <1>1, <1>5, <2>1, <3>1 DEF Has, Listening!Contains
    <3>2. CASE j > i
      <4>1. j - 1 \in 1 .. L - 1 /\ e[j - 1] = s[j]
        BY <1>1, <1>5, <3>2
      <4> QED
        BY <1>5, <2>1, <4>1 DEF Has, Listening!Contains
    <3> QED
      BY <1>1, <2>1, <3>1, <3>2
  <2>2. ASSUME NEW j \in 1 .. L - 1, e[j] = y PROVE Has(s, y) /\ y # s[i]
    <3>1. PICK m \in 1 .. L : s[m] = y /\ m # i
      BY <1>1, <1>5, <2>2
    <3> QED
      BY <1>1, <3>1 DEF Has, Listening!Contains, Distinct
  <2> QED
    BY <1>1, <1>5, <2>1, <2>2 DEF Has, Listening!Contains
<1> QED
  BY <1>5, <1>6, <1>7 DEF e

\* A step of a dispatching thread.
LEMMA RunStepKeeps ==
  ASSUME ListenerInv, NEW t \in Dispatchers, NEW x \in RunRec,
         run' = [run EXCEPT ![t] = x], dispatcher' \in DispatcherRec,
         dispatcher'.handler = dispatcher.handler,
         slots' = slots, connected' = connected, receiver' = receiver,
         OwedAreComing(t)', CallsAreLocal(t)'
  PROVE  ListenerInv'
<1>1. run \in [Dispatchers -> RunRec]
  BY DEF ListenerInv, ListenerTypes
<1>2. run' \in [Dispatchers -> RunRec] /\ \A q \in Dispatchers \ {t} : run'[q] = run[q]
  BY <1>1
<1>3. ListenerTypes'
  BY <1>2 DEF ListenerInv, ListenerTypes
<1>4. HandlersAreFresh' /\ SlotsAreOwned' /\ ListenersAreThere'
  BY DEF ListenerInv, HandlersAreFresh, SlotsAreOwned, ListenersAreThere, Made
<1>5. \A q \in Dispatchers : OwedAreComing(q)' /\ CallsAreLocal(q)'
  <2>1. ASSUME NEW q \in Dispatchers \ {t} PROVE OwedAreComing(q)' /\ CallsAreLocal(q)'
    BY <1>2 DEF ListenerInv, RunsAreOwed, RunsAreLocal, OwedAreComing, CallsAreLocal
  <2> QED
    BY <2>1
<1> QED
  BY <1>3, <1>4, <1>5 DEF ListenerInv, RunsAreOwed, RunsAreLocal

LEMMA CallSlotStep ==
  ASSUME ListenerInv, NEW t \in Dispatchers, Listening!CallSlot(t)
  PROVE  ListenerInv'
<1> DEFINE R == run[t]
           slot == Head(R.todo)
           x == [R EXCEPT !.todo = Tail(@), !.in = IF slot \in connected THEN slot ELSE <<>>,
                          !.owed = IF slot \in connected THEN @ \ {slot[1]} ELSE @]
<1>1. /\ R.todo # <<>> /\ R.in = <<>> /\ run' = [run EXCEPT ![t] = x]
      /\ dispatcher' = dispatcher /\ slots' = slots /\ connected' = connected
      /\ receiver' = receiver
  BY DEF Listening!CallSlot, Listening!NoSlot
<1>2. R \in RunRec /\ run \in [Dispatchers -> RunRec] /\ dispatcher \in DispatcherRec
  BY DEF ListenerInv, ListenerTypes
<1>3. R.todo \in Seq(LCalls) /\ R.owed \subseteq MCReaders /\ R.pc # "idle"
  BY <1>1, <1>2 DEF RunRec, ListenerInv, RunsAreOwed, OwedAreComing
<1>4. /\ slot \in LCalls /\ Tail(R.todo) \in Seq(LCalls) /\ Has(R.todo, slot)
      /\ \A y : Has(R.todo, y) <=> y = slot \/ Has(Tail(R.todo), y)
  BY <1>1, <1>3, TailHas
<1> HIDE DEF slot
<1>5. /\ x \in RunRec /\ x.pc = R.pc /\ x.h = R.h /\ x.from = R.from /\ x.todo = Tail(R.todo)
      /\ x.in = (IF slot \in connected THEN slot ELSE <<>>)
      /\ x.owed = (IF slot \in connected THEN R.owed \ {slot[1]} ELSE R.owed)
  BY <1>2, <1>4 DEF RunRec
<1>6. run'[t] = x
  BY <1>1, <1>2, <1>5
<1> HIDE DEF x
<1>7. OwedAreComing(t)'
  <2>1. ASSUME NEW r \in x.owed, Has(R.todo, <<r, receiver[r].adds>>)
        PROVE  Has(Tail(R.todo), <<r, receiver[r].adds>>)
    <3>1. r \in R.owed /\ r \in MCReaders
      BY <1>3, <1>5
    <3>2. <<r, receiver[r].adds>> \in connected
      BY <3>1 DEF ListenerInv, ListenersAreThere, RunsAreOwed, OwedAreComing, There
    <3>3. slot # <<r, receiver[r].adds>>
      BY <1>5, <3>2
    <3> QED
      BY <1>4, <2>1, <3>3
  <2>2. x.owed \subseteq R.owed
    BY <1>5
  <2> QED
    BY <1>1, <1>3, <1>5, <1>6, <2>1, <2>2 DEF ListenerInv, RunsAreOwed, OwedAreComing
<1>8. CallsAreLocal(t)'
  <2>1. \A y : Has(x.todo, y) \/ (x.in = y /\ y # <<>>) => Has(R.todo, y)
    BY <1>4, <1>5
  <2>2. \A r, k : <<r, k>> # <<>>
    OBVIOUS
  <2> QED
    BY <1>1, <1>5, <1>6, <2>1, <2>2 DEF ListenerInv, RunsAreLocal, CallsAreLocal
<1> QED
  BY <1>1, <1>2, <1>5, <1>7, <1>8, RunStepKeeps

LEMMA RunSteps ==
  ASSUME ListenerInv, NEW t \in Dispatchers,
         Listening!CallbackReturns(t) \/ Listening!RunPair(t) \/ Listening!RunEnds(t)
  PROVE  ListenerInv'
<1> DEFINE R == run[t]
<1>1. /\ dispatcher' = dispatcher /\ slots' = slots /\ connected' = connected
      /\ receiver' = receiver
  BY DEF Listening!CallbackReturns, Listening!RunPair, Listening!RunEnds
<1>2. /\ R \in RunRec /\ run \in [Dispatchers -> RunRec] /\ dispatcher \in DispatcherRec
      /\ OwedAreComing(t) /\ CallsAreLocal(t)
  BY DEF ListenerInv, ListenerTypes, RunsAreOwed, RunsAreLocal
<1>3. CASE Listening!CallbackReturns(t)
  <2> DEFINE x == [R EXCEPT !.in = <<>>]
  <2>1. /\ x \in RunRec /\ x.pc = R.pc /\ x.h = R.h /\ x.from = R.from /\ x.todo = R.todo
        /\ x.in = <<>> /\ x.owed = R.owed
    BY <1>2 DEF RunRec
  <2>2. run' = [run EXCEPT ![t] = x] /\ run'[t] = x
    BY <1>2, <1>3, <2>1 DEF Listening!CallbackReturns, Listening!NoSlot
  <2> HIDE DEF x
  <2>3. OwedAreComing(t)' /\ CallsAreLocal(t)'
    BY <1>1, <1>2, <2>1, <2>2 DEF OwedAreComing, CallsAreLocal
  <2> QED
    BY <1>1, <1>2, <2>1, <2>2, <2>3, RunStepKeeps
<1>4. CASE Listening!RunPair(t)
  <2> DEFINE x == [R EXCEPT !.pc = "pair", !.todo = slots[R.h][R.from]]
  <2>1. /\ R.pc = "any" /\ R.todo = <<>> /\ R.in = <<>> /\ run' = [run EXCEPT ![t] = x]
    BY <1>4 DEF Listening!RunPair, Listening!NoSlot
  <2>2. R.h \in LCalls /\ R.from \in Senders /\ slots[R.h][R.from] \in Seq(LCalls)
    BY <1>2, <2>1 DEF RunRec, OwedAreComing, ListenerInv, ListenerTypes, LSignals
  <2>3. /\ x \in RunRec /\ x.pc = "pair" /\ x.h = R.h /\ x.from = R.from
        /\ x.todo = slots[R.h][R.from] /\ x.in = <<>> /\ x.owed = R.owed
    BY <1>2, <2>1, <2>2 DEF RunRec
  <2>4. run'[t] = x
    BY <1>2, <2>1, <2>3
  <2> HIDE DEF x
  <2>5. OwedAreComing(t)'
    <3>1. ASSUME NEW r \in R.owed
          PROVE  /\ receiver[r].pc = "listening" /\ receiver[r].h = R.h
                 /\ receiver[r].from # "any" /\ receiver[r].from = R.from
                 /\ Has(x.todo, <<r, receiver[r].adds>>)
      <4>1. r \in MCReaders
        BY <1>2 DEF RunRec
      <4>2. /\ receiver[r].pc = "listening" /\ receiver[r].h = R.h
            /\ receiver[r].from # "any" /\ receiver[r].from = R.from
        BY <1>2, <2>1, EmptyHas DEF OwedAreComing
      <4> QED
        BY <2>3, <4>1, <4>2 DEF ListenerInv, ListenersAreThere, There
    <3> QED
      BY <1>1, <1>2, <2>1, <2>2, <2>3, <2>4, <3>1 DEF OwedAreComing
  <2>6. CallsAreLocal(t)'
    BY <1>1, <2>3, <2>4 DEF CallsAreLocal
  <2> QED
    BY <1>1, <1>2, <2>1, <2>3, <2>5, <2>6, RunStepKeeps
<1>5. CASE Listening!RunEnds(t)
  <2> DEFINE x == Listening!Idle
  <2>1. /\ x \in RunRec /\ x.pc = "idle" /\ x.todo = <<>> /\ x.in = <<>> /\ x.owed = {}
    BY DEF RunRec, Listening!Idle, Listening!NoSlot, Listening!NoHandler
  <2>2. run' = [run EXCEPT ![t] = x] /\ run'[t] = x
    BY <1>2, <1>5, <2>1 DEF Listening!RunEnds
  <2>3. OwedAreComing(t)' /\ CallsAreLocal(t)'
    BY <2>1, <2>2 DEF OwedAreComing, CallsAreLocal
  <2> QED
    BY <1>1, <1>2, <2>1, <2>2, <2>3, RunStepKeeps
<1> QED
  BY <1>3, <1>4, <1>5

LEMMA OnMessageStep ==
  ASSUME ListenerInv, NEW t \in Dispatchers, NEW v \in Senders, Listening!OnMessage(t, v)
  PROVE  ListenerInv'
<1> DEFINE h == dispatcher.handler
           x == IF h = <<>> THEN run[t] ELSE [Listening!Idle EXCEPT !.pc = "any", !.h = h,
                  !.from = v, !.todo = slots[h]["any"], !.owed = Listening!Hearing(v)]
<1>1. /\ run[t].pc = "idle" /\ dispatcher' = [dispatcher EXCEPT !.messages = @ + 1]
      /\ slots' = slots /\ connected' = connected /\ receiver' = receiver
      /\ run' = IF h = <<>> THEN run
                ELSE [run EXCEPT ![t] = [Listening!Idle EXCEPT !.pc = "any", !.h = h,
                        !.from = v, !.todo = slots[h]["any"], !.owed = Listening!Hearing(v)]]
  BY DEF Listening!OnMessage, Listening!NoHandler
<1>2. /\ run[t] \in RunRec /\ run \in [Dispatchers -> RunRec] /\ dispatcher \in DispatcherRec
      /\ OwedAreComing(t) /\ CallsAreLocal(t) /\ h \in LCalls \union {<<>>}
  BY DEF ListenerInv, ListenerTypes, RunsAreOwed, RunsAreLocal, DispatcherRec
<1>3. dispatcher' \in DispatcherRec /\ dispatcher'.handler = h
  BY <1>1, <1>2 DEF DispatcherRec
<1>4. CASE h = <<>>
  <2>1. run' = [run EXCEPT ![t] = run[t]]
    BY <1>1, <1>2, <1>4
  <2>2. OwedAreComing(t)' /\ CallsAreLocal(t)'
    BY <1>1, <1>2, <1>4 DEF OwedAreComing, CallsAreLocal
  <2> QED
    BY <1>1, <1>2, <1>3, <2>1, <2>2, RunStepKeeps
<1>5. CASE h # <<>>
  <2>1. slots[h]["any"] \in Seq(LCalls) /\ Listening!Hearing(v) \subseteq MCReaders
    BY <1>2, <1>5 DEF ListenerInv, ListenerTypes, LSignals, Listening!Hearing
  <2>2. /\ x \in RunRec /\ x.pc = "any" /\ x.h = h /\ x.from = v /\ x.todo = slots[h]["any"]
        /\ x.in = <<>> /\ x.owed = Listening!Hearing(v)
    BY <1>2, <1>5, <2>1 DEF RunRec, Listening!Idle, Listening!NoSlot, Listening!NoHandler
  <2>3. run' = [run EXCEPT ![t] = x] /\ run'[t] = x
    BY <1>1, <1>2, <1>5, <2>2
  <2> HIDE DEF x
  <2>4. OwedAreComing(t)'
    <3>1. ASSUME NEW r \in Listening!Hearing(v)
          PROVE  /\ receiver[r].pc = "listening" /\ receiver[r].h = h
                 /\ receiver[r].from = "any" => Has(x.todo, <<r, receiver[r].adds>>)
                 /\ receiver[r].from # "any" => receiver[r].from = v
      <4>1. /\ r \in MCReaders /\ receiver[r].pc = "listening" /\ receiver[r].h = h
            /\ receiver[r].from \in {v, "any"}
        BY DEF Listening!Hearing
      <4> QED
        BY <2>2, <4>1 DEF ListenerInv, ListenersAreThere, There
    <3> QED
      BY <1>1, <1>5, <2>2, <2>3, <3>1 DEF OwedAreComing
  <2>5. CallsAreLocal(t)'
    <3>1. ASSUME NEW r \in MCReaders, NEW k \in 1 .. MaxAdds, Has(x.todo, <<r, k>>)
          PROVE  receiver[r].from = "any"
      BY <1>2, <1>5, <2>2, <3>1 DEF ListenerInv, SlotsAreOwned, LSignals
    <3>2. \A r, k : <<r, k>> # <<>>
      OBVIOUS
    <3> QED
      <4>1. run'[t].pc = "any" /\ run'[t].todo = x.todo /\ run'[t].in = <<>>
        BY <2>2, <2>3
      <4> QED
        BY <1>1, <3>1, <3>2, <4>1 DEF CallsAreLocal
  <2> QED
    BY <1>1, <1>2, <1>3, <2>2, <2>3, <2>4, <2>5, RunStepKeeps
<1> QED
  BY <1>4, <1>5

\* A step of receiver r that leaves slots and runs, and nobody hears of r.
LEMMA ReceiverStepKeeps ==
  ASSUME ListenerInv, NEW r \in MCReaders, NEW x \in ReceiverRec,
         receiver' = [receiver EXCEPT ![r] = x], dispatcher' \in DispatcherRec,
         slots' = slots, connected' = connected, run' = run, x.from = receiver[r].from,
         receiver[r].pc # "listening",
         x.pc \in There =>
           receiver[r].pc \in There /\ x.h = receiver[r].h /\ x.adds = receiver[r].adds,
         HandlersAreFresh', SlotsAreOwned'
  PROVE  ListenerInv'
<1>1. /\ receiver \in [MCReaders -> ReceiverRec] /\ ListenerTypes /\ ListenersAreThere
      /\ RunsAreOwed /\ RunsAreLocal
  BY DEF ListenerInv, ListenerTypes
<1>2. /\ receiver' \in [MCReaders -> ReceiverRec] /\ receiver'[r] = x
      /\ \A q \in MCReaders \ {r} : receiver'[q] = receiver[q]
  BY <1>1
<1>3. ListenerTypes'
  BY <1>1, <1>2 DEF ListenerTypes
<1>4. ListenersAreThere'
  BY <1>1, <1>2 DEF ListenersAreThere
<1>5. RunsAreOwed'
  <2>1. ASSUME NEW t \in Dispatchers, NEW q \in run[t].owed
        PROVE  q \in MCReaders \ {r}
    <3>1. run[t] \in RunRec /\ receiver[q].pc = "listening"
      BY <1>1 DEF ListenerTypes, RunsAreOwed, OwedAreComing
    <3> QED
      BY <3>1 DEF RunRec
  <2> QED
    BY <1>1, <1>2, <2>1 DEF RunsAreOwed, OwedAreComing
<1>6. RunsAreLocal'
  <2>1. \A q \in MCReaders : receiver'[q].from = receiver[q].from
    BY <1>2
  <2> QED
    BY <1>1, <2>1 DEF RunsAreLocal, CallsAreLocal
<1> QED
  BY <1>3, <1>4, <1>5, <1>6 DEF ListenerInv

LEMMA AddListenerStep ==
  ASSUME ListenerInv, NEW r \in MCReaders, Listening!AddListener(r)
  PROVE  ListenerInv'
<1> DEFINE R == receiver[r]
           new == dispatcher.handler = <<>>
           call == <<r, R.adds + 1>>
           x == [R EXCEPT !.adds = @ + 1, !.pc = IF new THEN "set" ELSE "connect",
                          !.h = IF new THEN call ELSE dispatcher.handler]
<1>1. /\ R.pc = "idle" /\ R.adds < MaxAdds /\ receiver' = [receiver EXCEPT ![r] = x]
      /\ dispatcher' = dispatcher /\ slots' = slots /\ connected' = connected /\ run' = run
  BY DEF Listening!AddListener, Listening!NoHandler
<1>2. /\ R \in ReceiverRec /\ receiver \in [MCReaders -> ReceiverRec]
      /\ dispatcher \in DispatcherRec /\ HandlersAreFresh /\ SlotsAreOwned
  BY DEF ListenerInv, ListenerTypes
<1>3. R.adds \in Nat /\ R.adds + 1 \in 1 .. MaxAdds /\ call \in LCalls /\ call # <<>>
  BY <1>1, <1>2, BoundTypes DEF ReceiverRec, LCalls
<1>4. /\ x \in ReceiverRec /\ x.from = R.from /\ x.adds = R.adds + 1
      /\ x.pc = (IF new THEN "set" ELSE "connect")
      /\ x.h = (IF new THEN call ELSE dispatcher.handler)
  <2>1. dispatcher.handler \in LCalls \union {<<>>} /\ R.adds + 1 \in 0 .. MaxAdds
    BY <1>2, <1>3 DEF DispatcherRec
  <2> HIDE DEF call
  <2> QED
    BY <1>2, <1>3, <2>1 DEF ReceiverRec
<1> HIDE DEF x
<1>5. /\ receiver' \in [MCReaders -> ReceiverRec] /\ receiver'[r] = x
      /\ \A q \in MCReaders \ {r} : receiver'[q] = receiver[q]
  BY <1>1, <1>2, <1>4
<1>6. /\ ~Made(call)
      /\ \A h \in LCalls : Made(h) \/ h = call => Made(h)'
  <2>1. ~Made(call)
    BY <1>3 DEF Made
  <2>2. ASSUME NEW h \in LCalls, Made(h) \/ h = call PROVE Made(h)'
    <3>1. h[1] \in MCReaders /\ h[2] \in Nat
      BY DEF LCalls
    <3>2. receiver[h[1]].adds <= receiver'[h[1]].adds /\ receiver[h[1]].adds \in Nat
          /\ receiver'[h[1]].adds \in Nat
      <4>1. receiver[h[1]].adds \in Nat
        BY <1>2, <3>1, BoundTypes DEF ReceiverRec
      <4>2. CASE h[1] = r
        BY <1>3, <1>4, <1>5, <4>2
      <4>3. CASE h[1] # r
        BY <1>5, <3>1, <4>1, <4>3
      <4> QED
        BY <4>2, <4>3
    <3>3. CASE Made(h)
      BY <3>1, <3>2, <3>3 DEF Made
    <3>4. CASE h = call
      BY <1>3, <1>4, <1>5, <3>4 DEF Made
    <3> QED
      BY <2>2, <3>3, <3>4
  <2> QED
    BY <2>1, <2>2
<1>7. HandlersAreFresh'
  <2>1. \A q \in MCReaders : receiver[q].h \in LCalls \union {<<>>}
    BY <1>2 DEF ReceiverRec
  <2>2. dispatcher.handler \in LCalls \union {<<>>}
    BY <1>2 DEF DispatcherRec
  <2>3. dispatcher.handler # <<>> => Made(dispatcher.handler)'
    BY <1>1, <1>2, <1>6, <2>2 DEF HandlersAreFresh
  <2>4. ASSUME NEW q \in MCReaders
        PROVE  /\ receiver'[q].h # <<>> => Made(receiver[q].h)' \/ q = r
               /\ receiver'[q].pc # "idle" => receiver'[q].h # <<>> /\ receiver'[q].adds > 0
    <3>1. CASE q = r
      BY <1>3, <1>4, <1>5, <3>1
    <3>2. CASE q # r
      <4>1. receiver'[q] = receiver[q]
        BY <1>5, <3>2
      <4>2. receiver[q].h # <<>> => Made(receiver[q].h)
        BY <1>2 DEF HandlersAreFresh
      <4>3. \A h \in LCalls : h = receiver[q].h /\ h # <<>> => Made(h)'
        BY <1>6, <4>2
      <4>4. receiver[q].h # <<>> => Made(receiver[q].h)'
        BY <2>1, <4>1, <4>3 DEF Made
      <4> QED
        BY <1>2, <4>1, <4>4 DEF HandlersAreFresh
    <3> QED
      BY <3>1, <3>2
  <2>5. x.h # <<>> => \A h \in LCalls : h = x.h => Made(h)'
    BY <1>1, <1>3, <1>4, <1>6, <2>2, <2>3
  <2>6. ASSUME NEW q \in MCReaders, receiver'[q].h # <<>> PROVE Made(receiver[q].h)' 
    <3>1. CASE q = r
      <4>1. receiver'[q].h \in LCalls /\ receiver'[q].h = x.h
        BY <1>4, <1>5, <2>6, <3>1 DEF ReceiverRec
      <4> QED
        BY <2>5, <2>6, <4>1 DEF Made
    <3>2. CASE q # r
      BY <2>4, <2>6, <3>2
    <3> QED
      BY <3>1, <3>2
  <2>7. ASSUME NEW q \in MCReaders, receiver'[q].pc = "set"
        PROVE  /\ receiver'[q].h = <<q, receiver'[q].adds>>
               /\ dispatcher.handler # receiver'[q].h
               /\ \A p \in MCReaders \ {q} : receiver'[p].h # receiver'[q].h
               /\ \A f \in LSignals : slots[receiver'[q].h][f] = <<>>
    <3>1. CASE q = r
      <4>1. new /\ x.h = call /\ x.adds = R.adds + 1
        BY <1>4, <1>5, <2>7, <3>1
      <4>2. \A p \in MCReaders \ {q} : receiver[p].h # call
        BY <1>2, <1>3, <1>6, <2>1 DEF HandlersAreFresh
      <4> QED
        BY <1>2, <1>3, <1>5, <1>6, <3>1, <4>1, <4>2 DEF HandlersAreFresh
    <3>2. CASE q # r
      <4>1. /\ receiver'[q] = receiver[q] /\ receiver[q].pc = "set"
            /\ receiver[q].h \in LCalls /\ Made(receiver[q].h)
        BY <1>2, <1>5, <2>1, <2>7, <3>2 DEF HandlersAreFresh
      <4>2. x.h # receiver[q].h
        BY <1>2, <1>4, <1>6, <4>1 DEF HandlersAreFresh
      <4> QED
        BY <1>2, <1>5, <3>2, <4>1, <4>2 DEF HandlersAreFresh
    <3> QED
      BY <3>1, <3>2
  <2>8. \A h \in LCalls : ~Made(h)' => \A f \in LSignals : slots[h][f] = <<>>
    BY <1>2, <1>6 DEF HandlersAreFresh
  <2> QED
    BY <1>1, <2>3, <2>4, <2>6, <2>7, <2>8 DEF HandlersAreFresh
<1>8. SlotsAreOwned'
  <2>1. ASSUME NEW h \in LCalls, NEW f \in LSignals, NEW q \in MCReaders, NEW k \in 1 .. MaxAdds,
               Has(slots[h][f], <<q, k>>)
        PROVE  /\ receiver'[q].from = f /\ k <= receiver'[q].adds
               /\ receiver'[q].pc \in {"set", "connect"} => k < receiver'[q].adds
               /\ \/ receiver'[q].pc \in There /\ k = receiver'[q].adds /\ receiver'[q].h = h
                  \/ h # dispatcher.handler
    <3>1. CASE q = r
      <4>1. R.from = f /\ k <= R.adds /\ h # dispatcher.handler
        BY <1>1, <1>2, <2>1, <3>1 DEF SlotsAreOwned, There
      <4> QED
        BY <1>3, <1>4, <1>5, <3>1, <4>1
    <3>2. CASE q # r
      BY <1>2, <1>5, <2>1, <3>2 DEF SlotsAreOwned
    <3> QED
      BY <3>1, <3>2
  <2> QED
    BY <1>1, <1>2, <2>1 DEF SlotsAreOwned
<1> QED
  BY <1>1, <1>2, <1>4, <1>7, <1>8, ReceiverStepKeeps DEF There

LEMMA SetHandlerStep ==
  ASSUME ListenerInv, NEW r \in MCReaders, Listening!SetHandler(r)
  PROVE  ListenerInv'
<1> DEFINE R == receiver[r]
           x == [R EXCEPT !.pc = "connect"]
<1>1. /\ R.pc = "set" /\ receiver' = [receiver EXCEPT ![r] = x]
      /\ dispatcher' = [dispatcher EXCEPT !.handler = R.h]
      /\ slots' = slots /\ connected' = connected /\ run' = run
  BY DEF Listening!SetHandler
<1>2. /\ R \in ReceiverRec /\ receiver \in [MCReaders -> ReceiverRec]
      /\ dispatcher \in DispatcherRec /\ HandlersAreFresh /\ SlotsAreOwned
  BY DEF ListenerInv, ListenerTypes
<1>3. /\ x \in ReceiverRec /\ x.from = R.from /\ x.adds = R.adds
      /\ x.pc = "connect" /\ x.h = R.h
  BY <1>2 DEF ReceiverRec
<1> HIDE DEF x
<1>4. /\ receiver' \in [MCReaders -> ReceiverRec] /\ receiver'[r] = x
      /\ \A q \in MCReaders \ {r} : receiver'[q] = receiver[q]
  BY <1>1, <1>2, <1>3
<1>5. dispatcher' \in DispatcherRec /\ dispatcher'.handler = R.h /\ R.h \in LCalls
  BY <1>1, <1>2 DEF DispatcherRec, ReceiverRec, HandlersAreFresh
<1>6. \A q \in MCReaders : /\ receiver'[q].h = receiver[q].h /\ receiver'[q].adds = receiver[q].adds
                           /\ receiver'[q].from = receiver[q].from
  BY <1>3, <1>4
<1>7. \A h \in LCalls : Made(h)' <=> Made(h)
  BY <1>6 DEF Made, LCalls
<1>8. HandlersAreFresh'
  <2>1. Made(R.h)
    BY <1>1, <1>2 DEF HandlersAreFresh
  <2>2. dispatcher'.handler # <<>> => Made(dispatcher.handler)'
    <3>1. \A h \in LCalls : h = dispatcher'.handler => Made(h)'
      BY <1>5, <1>7, <2>1
    <3> QED
      BY <1>5, <3>1 DEF Made
  <2>3. ASSUME NEW q \in MCReaders
        PROVE  /\ receiver'[q].h # <<>> => Made(receiver[q].h)'
               /\ receiver'[q].pc # "idle" => receiver'[q].h # <<>> /\ receiver'[q].adds > 0
               /\ receiver'[q].pc = "set" =>
                    /\ receiver'[q].h = <<q, receiver'[q].adds>>
                    /\ dispatcher'.handler # receiver'[q].h
                    /\ \A p \in MCReaders \ {q} : receiver'[p].h # receiver'[q].h
                    /\ \A f \in LSignals : slots[receiver'[q].h][f] = <<>>
    <3>1. receiver[q].h \in LCalls \union {<<>>}
      BY <1>2 DEF ReceiverRec
    <3>2. receiver'[q].h # <<>> => Made(receiver[q].h)'
      <4>1. \A h \in LCalls : h = receiver[q].h => Made(h)'
        BY <1>2, <1>7 DEF HandlersAreFresh, LCalls
      <4> QED
        BY <1>6, <3>1, <4>1 DEF Made
    <3>3. receiver'[q].pc # "idle" => receiver[q].pc # "idle"
      BY <1>1, <1>4
    <3>4. ASSUME receiver'[q].pc = "set" PROVE q # r /\ receiver[q].pc = "set"
      BY <1>3, <1>4, <3>4
    <3> QED
      BY <1>2, <1>5, <1>6, <3>2, <3>3, <3>4 DEF HandlersAreFresh
  <2> QED
    BY <1>1, <1>2, <1>7, <2>2, <2>3 DEF HandlersAreFresh
<1>9. SlotsAreOwned'
  <2>1. ASSUME NEW h \in LCalls, NEW f \in LSignals, NEW q \in MCReaders, NEW k \in 1 .. MaxAdds,
               Has(slots[h][f], <<q, k>>)
        PROVE  /\ h # dispatcher'.handler
               /\ receiver'[q].pc \in {"set", "connect"} => k < receiver'[q].adds
    <3>1. h # R.h
      BY <1>1, <1>2, <2>1, EmptyHas DEF HandlersAreFresh
    <3> QED
      BY <1>1, <1>2, <1>4, <1>5, <1>6, <2>1, <3>1 DEF SlotsAreOwned
  <2> QED
    BY <1>1, <1>2, <1>6, <2>1 DEF SlotsAreOwned
<1> QED
  BY <1>1, <1>3, <1>5, <1>8, <1>9, ReceiverStepKeeps DEF There

\* NoteConnection and Subscribe go on with a listener that is there.
LEMMA ThereSteps ==
  ASSUME ListenerInv, NEW r \in MCReaders,
         Listening!NoteConnection(r) \/ Listening!Subscribe(r)
  PROVE  ListenerInv'
<1> DEFINE R == receiver[r]
<1>1. /\ R \in ReceiverRec /\ receiver \in [MCReaders -> ReceiverRec]
      /\ dispatcher \in DispatcherRec /\ HandlersAreFresh /\ SlotsAreOwned
  BY DEF ListenerInv, ListenerTypes
<1>2. PICK where \in There : receiver' = [receiver EXCEPT ![r].pc = where]
  BY DEF Listening!NoteConnection, Listening!Subscribe, Listening!Connected, There
<1>3. /\ R.pc \in {"note", "subscribe"}
      /\ slots' = slots /\ connected' = connected /\ run' = run
  BY DEF Listening!NoteConnection, Listening!Subscribe
<1>4. dispatcher' \in DispatcherRec /\ dispatcher'.handler = dispatcher.handler
  <2>1. dispatcher' = dispatcher \/ dispatcher' = [dispatcher EXCEPT !.subscribed = TRUE]
    BY DEF Listening!NoteConnection, Listening!Subscribe
  <2> QED
    BY <1>1, <2>1 DEF DispatcherRec
<1> DEFINE x == [R EXCEPT !.pc = where]
<1>5. /\ x \in ReceiverRec /\ x.from = R.from /\ x.adds = R.adds /\ x.pc = where /\ x.h = R.h
      /\ receiver' = [receiver EXCEPT ![r] = x]
  BY <1>1, <1>2 DEF ReceiverRec
<1> HIDE DEF x
<1>6. /\ receiver'[r] = x
      /\ \A q \in MCReaders \ {r} : receiver'[q] = receiver[q]
  BY <1>1, <1>5
<1>7. \A q \in MCReaders : /\ receiver'[q].h = receiver[q].h /\ receiver'[q].adds = receiver[q].adds
                           /\ receiver'[q].from = receiver[q].from
                           /\ q # r => receiver'[q].pc = receiver[q].pc
  BY <1>5, <1>6
<1>8. HandlersAreFresh'
  <2>1. \A h : Made(h)' <=> h[2] <= receiver'[h[1]].adds
    BY DEF Made
  <2>2. \A h \in LCalls : Made(h)' <=> Made(h)
    BY <1>7 DEF Made, LCalls
  <2>3. dispatcher.handler \in LCalls \union {<<>>}
    BY <1>1 DEF DispatcherRec
  <2>4. \A q \in MCReaders : receiver[q].h \in LCalls \union {<<>>}
    BY <1>1 DEF ReceiverRec
  <2>5. \A q \in MCReaders :
          /\ receiver'[q].pc # "idle" => receiver[q].pc # "idle"
          /\ receiver'[q].pc = "set" => receiver[q].pc = "set"
    BY <1>2, <1>3, <1>5, <1>6 DEF There
  <2>6. dispatcher'.handler # <<>> => Made(dispatcher.handler)'
    <3>1. \A h \in LCalls : h = dispatcher.handler /\ h # <<>> => Made(h)'
      BY <1>1, <2>2 DEF HandlersAreFresh
    <3> QED
      BY <1>4, <2>3, <3>1 DEF Made
  <2>7. ASSUME NEW q \in MCReaders, receiver'[q].h # <<>> PROVE Made(receiver[q].h)'
    <3>1. \A h \in LCalls : h = receiver[q].h /\ h # <<>> => Made(h)'
      BY <1>1, <2>2 DEF HandlersAreFresh
    <3> QED
      BY <1>7, <2>4, <2>7, <3>1 DEF Made
  <2> QED
    BY <1>1, <1>3, <1>4, <1>7, <2>2, <2>5, <2>6, <2>7 DEF HandlersAreFresh
<1>9. SlotsAreOwned'
  <2>1. ASSUME NEW h \in LCalls, NEW f \in LSignals, NEW q \in MCReaders, NEW k \in 1 .. MaxAdds,
               Has(slots[h][f], <<q, k>>)
        PROVE  /\ receiver'[q].pc \in {"set", "connect"} => k < receiver'[q].adds
               /\ \/ receiver'[q].pc \in There /\ k = receiver'[q].adds /\ receiver'[q].h = h
                  \/ h # dispatcher'.handler
    <3>1. receiver[q].pc \in There => receiver'[q].pc \in There
      BY <1>2, <1>5, <1>6
    <3>2. receiver'[q].pc \in {"set", "connect"} => receiver[q].pc \in {"set", "connect"}
      BY <1>2, <1>5, <1>6 DEF There
    <3> QED
      BY <1>1, <1>4, <1>7, <2>1, <3>1, <3>2 DEF SlotsAreOwned
  <2> QED
    BY <1>1, <1>3, <1>7, <2>1 DEF SlotsAreOwned
<1>10. R.pc \in There /\ R.pc # "listening"
  BY <1>3 DEF There
<1> QED
  BY <1>1, <1>3, <1>4, <1>5, <1>8, <1>9, <1>10, ReceiverStepKeeps

LEMMA ListenerShutdownStep ==
  ASSUME ListenerInv, Listening!Shutdown
  PROVE  ListenerInv'
<1>1. dispatcher' \in DispatcherRec /\ dispatcher'.handler = dispatcher.handler
  BY DEF Listening!Shutdown, ListenerInv, ListenerTypes, DispatcherRec
<1>2. slots' = slots /\ connected' = connected /\ run' = run /\ receiver' = receiver
  BY DEF Listening!Shutdown
<1> QED
  <2>1. ListenerTypes' /\ ListenersAreThere'
    BY <1>1, <1>2 DEF ListenerInv, ListenerTypes, ListenersAreThere
  <2>2. HandlersAreFresh' /\ SlotsAreOwned'
    BY <1>1, <1>2 DEF ListenerInv, HandlersAreFresh, Made, SlotsAreOwned
  <2>3. RunsAreOwed' /\ RunsAreLocal'
    BY <1>2 DEF ListenerInv, RunsAreOwed, RunsAreLocal, OwedAreComing, CallsAreLocal
  <2> QED
    BY <2>1, <2>2, <2>3 DEF ListenerInv

LEMMA ConnectStep ==
  ASSUME ListenerInv, NEW r \in MCReaders, Listening!Connect(r)
  PROVE  ListenerInv'
<1>0. /\ receiver[r] \in ReceiverRec /\ receiver \in [MCReaders -> ReceiverRec]
      /\ dispatcher \in DispatcherRec /\ slots \in [LCalls -> [LSignals -> Seq(LCalls)]]
      /\ connected \subseteq LCalls /\ run \in [Dispatchers -> RunRec]
      /\ HandlersAreFresh /\ SlotsAreOwned /\ ListenersAreThere /\ RunsAreOwed /\ RunsAreLocal
  BY DEF ListenerInv, ListenerTypes
<1>1. PICK n, H, F : n = receiver[r].adds /\ H = receiver[r].h /\ F = receiver[r].from
  OBVIOUS
<1> DEFINE slot == <<r, n>>
<1>2. PICK where \in There : receiver' = [receiver EXCEPT ![r].pc = where]
  BY DEF Listening!Connect, Listening!Connected, There
<1>3. /\ receiver[r].pc = "connect" /\ slots' = [slots EXCEPT ![H][F] = Append(@, slot)]
      /\ connected' = connected \union {slot} /\ dispatcher' = dispatcher /\ run' = run
  BY <1>1 DEF Listening!Connect
<1>4. n \in 1 .. MaxAdds /\ H \in LCalls /\ F \in LSignals /\ slot \in LCalls
  <2>1. receiver[r].h # <<>> /\ receiver[r].adds > 0
    BY <1>0, <1>3 DEF HandlersAreFresh
  <2>2. n \in 1 .. MaxAdds
    BY <1>0, <1>1, <2>1, BoundTypes DEF ReceiverRec
  <2>3. H \in LCalls /\ F \in LSignals
    BY <1>0, <1>1, <2>1 DEF ReceiverRec
  <2> QED
    BY <2>2, <2>3 DEF LCalls
<1> DEFINE x == [receiver[r] EXCEPT !.pc = where]
<1>5. /\ x \in ReceiverRec /\ x.from = F /\ x.adds = n /\ x.pc = where /\ x.h = H
      /\ receiver' = [receiver EXCEPT ![r] = x]
  BY <1>0, <1>1, <1>2 DEF ReceiverRec
<1> HIDE DEF x
<1>6. /\ receiver'[r] = x /\ receiver' \in [MCReaders -> ReceiverRec]
      /\ \A q \in MCReaders \ {r} : receiver'[q] = receiver[q]
  BY <1>0, <1>5
<1>7. \A q \in MCReaders : /\ receiver'[q].h = receiver[q].h /\ receiver'[q].adds = receiver[q].adds
                           /\ receiver'[q].from = receiver[q].from
                           /\ q # r => receiver'[q].pc = receiver[q].pc
  BY <1>1, <1>5, <1>6
<1>8. slots[H][F] \in Seq(LCalls) /\ Distinct(slots[H][F]) /\ ~Has(slots[H][F], slot)
  <2>1. slots[H][F] \in Seq(LCalls) /\ Distinct(slots[H][F])
    BY <1>0, <1>4 DEF SlotsAreOwned
  <2>2. ~Has(slots[H][F], slot)
    <3>1. Has(slots[H][F], <<r, n>>) => n < receiver[r].adds
      BY <1>0, <1>3, <1>4 DEF SlotsAreOwned
    <3> QED
      BY <1>1, <1>4, <3>1
  <2> QED
    BY <2>1, <2>2
<1>9. /\ Append(slots[H][F], slot) \in Seq(LCalls) /\ Distinct(Append(slots[H][F], slot))
      /\ \A y : Has(Append(slots[H][F], slot), y) <=> Has(slots[H][F], y) \/ y = slot
  BY <1>4, <1>8, AppendHas
<1>10. /\ slots' \in [LCalls -> [LSignals -> Seq(LCalls)]]
       /\ slots'[H][F] = Append(slots[H][F], slot)
       /\ \A h \in LCalls, f \in LSignals : h # H \/ f # F => slots'[h][f] = slots[h][f]
  BY <1>0, <1>3, <1>4, <1>9
<1>11. \A h \in LCalls, f \in LSignals :
         /\ Distinct(slots'[h][f])
         /\ \A y : Has(slots'[h][f], y) <=>
                     Has(slots[h][f], y) \/ (y = slot /\ h = H /\ f = F)
  <2> SUFFICES ASSUME NEW h \in LCalls, NEW f \in LSignals
               PROVE  /\ Distinct(slots'[h][f])
                      /\ \A y : Has(slots'[h][f], y) <=>
                                  Has(slots[h][f], y) \/ (y = slot /\ h = H /\ f = F)
    OBVIOUS
  <2>1. CASE h = H /\ f = F
    BY <1>9, <1>10, <2>1
  <2>2. CASE ~(h = H /\ f = F)
    BY <1>0, <1>10, <2>2 DEF SlotsAreOwned
  <2> QED
    BY <2>1, <2>2
<1>12. ListenerTypes'
  BY <1>0, <1>3, <1>4, <1>6, <1>10 DEF ListenerTypes
<1>13. HandlersAreFresh'
  <2>1. \A h \in LCalls : Made(h)' <=> Made(h)
    BY <1>7 DEF Made, LCalls
  <2>2. dispatcher.handler \in LCalls \union {<<>>}
    BY <1>0 DEF DispatcherRec
  <2>3. \A q \in MCReaders : receiver[q].h \in LCalls \union {<<>>}
    BY <1>0 DEF ReceiverRec
  <2>4. dispatcher'.handler # <<>> => Made(dispatcher.handler)'
    <3>1. \A h \in LCalls : h = dispatcher.handler /\ h # <<>> => Made(h)'
      BY <1>0, <2>1 DEF HandlersAreFresh
    <3> QED
      BY <1>3, <2>2, <3>1 DEF Made
  <2>5. ASSUME NEW q \in MCReaders, receiver'[q].h # <<>> PROVE Made(receiver[q].h)'
    <3>1. \A h \in LCalls : h = receiver[q].h /\ h # <<>> => Made(h)'
      BY <1>0, <2>1 DEF HandlersAreFresh
    <3> QED
      BY <1>7, <2>3, <2>5, <3>1 DEF Made
  <2>6. ASSUME NEW q \in MCReaders, receiver'[q].pc = "set"
        PROVE  /\ receiver'[q].h = <<q, receiver'[q].adds>>
               /\ dispatcher'.handler # receiver'[q].h
               /\ \A p \in MCReaders \ {q} : receiver'[p].h # receiver'[q].h
               /\ \A f \in LSignals : slots'[receiver'[q].h][f] = <<>>
    <3>1. q # r /\ receiver[q].pc = "set"
      BY <1>2, <1>5, <1>6, <2>6 DEF There
    <3>2. receiver[q].h # H /\ receiver[q].h \in LCalls
      BY <1>0, <1>1, <2>3, <3>1 DEF HandlersAreFresh
    <3>3. /\ receiver[q].h = <<q, receiver[q].adds>> /\ dispatcher.handler # receiver[q].h
          /\ \A p \in MCReaders \ {q} : receiver[p].h # receiver[q].h
          /\ \A f \in LSignals : slots[receiver[q].h][f] = <<>>
      BY <1>0, <3>1 DEF HandlersAreFresh
    <3>4. \A f \in LSignals : slots'[receiver[q].h][f] = <<>>
      BY <1>10, <3>2, <3>3
    <3> QED
      BY <1>3, <1>7, <3>3, <3>4
  <2>7. ASSUME NEW h \in LCalls, ~Made(h)' PROVE \A f \in LSignals : slots'[h][f] = <<>>
    <3>1. h # H
      BY <1>0, <1>1, <1>3, <2>1, <2>7 DEF HandlersAreFresh
    <3> QED
      BY <1>0, <1>10, <2>1, <2>7, <3>1 DEF HandlersAreFresh
  <2>8. \A q \in MCReaders : receiver'[q].pc # "idle" => receiver'[q].h # <<>> /\ receiver'[q].adds > 0
    BY <1>0, <1>3, <1>7 DEF HandlersAreFresh
  <2> QED
    BY <2>4, <2>5, <2>6, <2>7, <2>8 DEF HandlersAreFresh
<1>14. SlotsAreOwned'
  <2>1. ASSUME NEW h \in LCalls, NEW f \in LSignals, NEW q \in MCReaders, NEW k \in 1 .. MaxAdds,
               Has(slots'[h][f], <<q, k>>)
        PROVE  /\ receiver'[q].from = f /\ k <= receiver'[q].adds
               /\ receiver'[q].pc \in {"set", "connect"} => k < receiver'[q].adds
               /\ \/ receiver'[q].pc \in There /\ k = receiver'[q].adds /\ receiver'[q].h = h
                  \/ h # dispatcher'.handler
    <3>1. CASE Has(slots[h][f], <<q, k>>)
      <4>1. receiver'[q].pc \in {"set", "connect"} => receiver[q].pc \in {"set", "connect"}
        BY <1>3, <1>7
      <4>2. receiver[q].pc \in There => receiver'[q].pc \in There
        BY <1>3, <1>7 DEF There
      <4>3. /\ receiver[q].from = f /\ k <= receiver[q].adds
            /\ receiver[q].pc \in {"set", "connect"} => k < receiver[q].adds
            /\ \/ receiver[q].pc \in There /\ k = receiver[q].adds /\ receiver[q].h = h
               \/ h # dispatcher.handler
        BY <1>0, <3>1 DEF SlotsAreOwned
      <4> QED
        BY <1>3, <1>7, <4>1, <4>2, <4>3
    <3>2. CASE <<q, k>> = slot /\ h = H /\ f = F
      <4>1. q = r /\ k = n
        BY <3>2
      <4>2. /\ receiver'[q].from = F /\ receiver'[q].adds = n /\ receiver'[q].h = H
            /\ receiver'[q].pc \in There
        BY <1>2, <1>5, <1>6, <4>1
      <4> QED
        BY <1>4, <3>2, <4>1, <4>2 DEF There
    <3> QED
      BY <1>11, <2>1, <3>1, <3>2
  <2> QED
    BY <1>11, <2>1 DEF SlotsAreOwned
<1>15. ListenersAreThere'
  <2>1. ASSUME NEW q \in MCReaders, receiver'[q].pc \in There
        PROVE  /\ Has(slots'[receiver'[q].h][receiver'[q].from], <<q, receiver'[q].adds>>)
               /\ <<q, receiver'[q].adds>> \in connected'
    <3>1. CASE q = r
      BY ZenonT(60), <1>3, <1>4, <1>5, <1>6, <1>9, <1>10, <3>1
    <3>2. CASE q # r
      <4>1. /\ receiver[q].pc \in There /\ receiver[q].h \in LCalls /\ receiver[q].from \in LSignals
        BY <1>0, <1>7, <2>1, <3>2 DEF ReceiverRec, HandlersAreFresh, There
      <4>2. /\ Has(slots[receiver[q].h][receiver[q].from], <<q, receiver[q].adds>>)
            /\ <<q, receiver[q].adds>> \in connected
        BY <1>0, <4>1 DEF ListenersAreThere
      <4> QED
        BY <1>3, <1>7, <1>11, <4>1, <4>2
    <3> QED
      BY <3>1, <3>2
  <2> QED
    BY <2>1 DEF ListenersAreThere
<1>16. RunsAreOwed'
  <2>1. ASSUME NEW t \in Dispatchers, NEW q \in run[t].owed
        PROVE  q \in MCReaders \ {r}
    <3>1. run[t] \in RunRec /\ receiver[q].pc = "listening"
      BY <1>0 DEF RunsAreOwed, OwedAreComing
    <3> QED
      BY <1>3, <3>1 DEF RunRec
  <2> QED
    BY <1>0, <1>3, <1>7, <2>1 DEF RunsAreOwed, OwedAreComing
<1>17. RunsAreLocal'
  <2>1. ASSUME NEW t \in Dispatchers, NEW q \in MCReaders, NEW k \in 1 .. MaxAdds,
               Has(run[t].todo, <<q, k>>) \/ run[t].in = <<q, k>>
        PROVE  /\ run[t].pc = "any" => receiver'[q].from = "any"
               /\ run[t].pc = "pair" => Has(slots'[run[t].h][run[t].from], <<q, k>>)
    <3>1. run[t].pc = "pair" => run[t].h \in LCalls /\ run[t].from \in LSignals
      BY <1>0 DEF RunsAreOwed, OwedAreComing, RunRec, LSignals
    <3> QED
      BY <1>0, <1>7, <1>11, <2>1, <3>1 DEF RunsAreLocal, CallsAreLocal
  <2> QED
    BY <1>3, <2>1 DEF RunsAreLocal, CallsAreLocal
<1> QED
  BY <1>12, <1>13, <1>14, <1>15, <1>16, <1>17 DEF ListenerInv

LEMMA RemoveListenerStep ==
  ASSUME ListenerInv, NEW r \in MCReaders, Listening!RemoveListener(r)
  PROVE  ListenerInv'
<1>0. /\ receiver[r] \in ReceiverRec /\ receiver \in [MCReaders -> ReceiverRec]
      /\ dispatcher \in DispatcherRec /\ slots \in [LCalls -> [LSignals -> Seq(LCalls)]]
      /\ connected \subseteq LCalls /\ run \in [Dispatchers -> RunRec]
      /\ HandlersAreFresh /\ SlotsAreOwned /\ ListenersAreThere /\ RunsAreOwed /\ RunsAreLocal
  BY DEF ListenerInv, ListenerTypes
<1>1. PICK n, H, F : n = receiver[r].adds /\ H = dispatcher.handler /\ F = receiver[r].from
  OBVIOUS
<1> DEFINE slot == <<r, n>>
<1>2. /\ receiver[r].pc = "listening" /\ dispatcher' = dispatcher
      /\ \A t \in Dispatchers : ~(run[t].pc = "pair" /\ run[t].h = H)
      /\ receiver' = [receiver EXCEPT ![r].pc = "idle", ![r].h = <<>>]
      /\ run' = [t \in Dispatchers |-> [run[t] EXCEPT !.owed = @ \ {r}]]
      /\ Listening!Disconnect(H, slot)
  BY <1>1 DEF Listening!RemoveListener, Listening!NoHandler, Listening!WriteLockable
<1>3. /\ n \in 1 .. MaxAdds /\ F \in LSignals /\ slot \in LCalls
      /\ H \in LCalls \union {<<>>}
  <2>1. receiver[r].adds > 0
    BY <1>0, <1>2 DEF HandlersAreFresh
  <2>2. n \in 1 .. MaxAdds
    BY <1>0, <1>1, <2>1, BoundTypes DEF ReceiverRec
  <2> QED
    BY <1>0, <1>1, <2>2 DEF LCalls, ReceiverRec, DispatcherRec
<1> DEFINE x == [receiver[r] EXCEPT !.pc = "idle", !.h = <<>>]
<1>4. /\ x \in ReceiverRec /\ x.from = F /\ x.adds = n /\ x.pc = "idle" /\ x.h = <<>>
      /\ receiver' = [receiver EXCEPT ![r] = x]
  BY <1>0, <1>1, <1>2 DEF ReceiverRec
<1> HIDE DEF x
<1>5. /\ receiver'[r] = x /\ receiver' \in [MCReaders -> ReceiverRec]
      /\ \A q \in MCReaders \ {r} : receiver'[q] = receiver[q]
  BY <1>0, <1>4
<1>6. \A q \in MCReaders : /\ receiver'[q].adds = receiver[q].adds
                           /\ receiver'[q].from = receiver[q].from
  BY <1>1, <1>4, <1>5
<1>7. \A h \in LCalls, f \in LSignals : slots[h][f] \in Seq(LCalls) /\ Distinct(slots[h][f])
  BY <1>0 DEF SlotsAreOwned
<1>8. ASSUME H \in LCalls, NEW f \in LSignals, Has(slots[H][f], slot) PROVE f = F
  BY <1>0, <1>1, <1>3, <1>8 DEF SlotsAreOwned
\* What Disconnect() takes away is the slot, from the channel's handler.
<1>9. /\ slots' \in [LCalls -> [LSignals -> Seq(LCalls)]]
      /\ connected' \subseteq connected /\ connected \subseteq connected' \union {slot}
      /\ \A h \in LCalls, f \in LSignals :
           /\ Distinct(slots'[h][f])
           /\ slots[h][f] = <<>> => slots'[h][f] = <<>>
           /\ \A y : Has(slots'[h][f], y) <=> Has(slots[h][f], y) /\ ~(y = slot /\ h = H)
  <2>0. IF H # <<>> /\ Has(slots[H][F], slot)
          THEN /\ connected' = connected \ {slot}
               /\ \E i \in DOMAIN slots[H][F] :
                    /\ slots[H][F][i] = slot
                    /\ slots' = [slots EXCEPT ![H][F] = Listening!RemoveAt(@, i)]
          ELSE slots' = slots /\ connected' = connected
    <3>1. slot[1] = r /\ receiver[slot[1]].from = F
      BY <1>1
    <3> HIDE DEF slot
    <3> QED
      BY <1>2, <3>1 DEF Listening!Disconnect, Listening!NoHandler, Has
  <2>1. CASE H # <<>> /\ Has(slots[H][F], slot)
    <3>1. /\ H \in LCalls /\ connected' = connected \ {slot}
      <4>1. H \in LCalls
        BY <1>3, <2>1
      <4>2. connected' = connected \ {slot}
        BY <1>2, <2>1, <2>0
      <4> QED
        BY <4>1, <4>2
    <3>2. PICK i \in DOMAIN slots[H][F] :
            /\ slots[H][F][i] = slot
            /\ slots' = [slots EXCEPT ![H][F] = Listening!RemoveAt(@, i)]
      BY <2>0, <2>1
    <3>3. i \in 1 .. Len(slots[H][F])
      BY <1>3, <1>7, <3>1
    <3>4. PICK e : e = Listening!RemoveAt(slots[H][F], i)
      OBVIOUS
    <3>5. /\ e \in Seq(LCalls) /\ Distinct(e)
          /\ \A y : Has(e, y) <=> Has(slots[H][F], y) /\ y # slot
      <4>1. PICK s : s = slots[H][F]
        OBVIOUS
      <4>2. s \in Seq(LCalls) /\ Distinct(s) /\ i \in 1 .. Len(s) /\ s[i] = slot
        BY <1>3, <1>7, <3>1, <3>2, <3>3, <4>1
      <4>3. LET b == Listening!RemoveAt(s, i) IN
            /\ b \in Seq(LCalls) /\ Distinct(b)
            /\ \A y : Has(b, y) <=> Has(s, y) /\ y # s[i]
        BY <4>2, RemoveHas
      <4> QED
        BY <3>4, <4>1, <4>2, <4>3
    <3>6. /\ slots' \in [LCalls -> [LSignals -> Seq(LCalls)]]
          /\ slots'[H][F] = e
          /\ \A h \in LCalls, f \in LSignals : h # H \/ f # F => slots'[h][f] = slots[h][f]
      BY <1>0, <1>3, <3>1, <3>2, <3>4, <3>5
    <3>7. ASSUME NEW h \in LCalls, NEW f \in LSignals
          PROVE  /\ Distinct(slots'[h][f])
                 /\ slots[h][f] = <<>> => slots'[h][f] = <<>>
                 /\ \A y : Has(slots'[h][f], y) <=> Has(slots[h][f], y) /\ ~(y = slot /\ h = H)
      <4>1. CASE h = H /\ f = F
        BY <2>1, <3>5, <3>6, <4>1, EmptyHas
      <4>2. CASE ~(h = H /\ f = F)
        BY <1>7, <1>8, <3>6, <4>2
      <4> QED
        BY <4>1, <4>2
    <3> QED
      BY <3>1, <3>6, <3>7
  <2>2. CASE ~(H # <<>> /\ Has(slots[H][F], slot))
    <3>1. slots' = slots /\ connected' = connected
      BY <2>0, <2>2
    <3>2. ASSUME NEW f \in LSignals, H \in LCalls PROVE ~Has(slots[H][f], slot)
      <4>1. H # <<>>
        <5>1. \E a, b : H = <<a, b>>
          BY <3>2 DEF LCalls
        <5> QED
          BY <5>1
      <4> QED
        BY <1>8, <2>2, <3>2, <4>1
    <3> QED
      BY <1>0, <1>7, <3>1, <3>2
  <2> QED
    BY <2>1, <2>2
<1>10. /\ run' \in [Dispatchers -> RunRec]
       /\ \A t \in Dispatchers :
            /\ run'[t].pc = run[t].pc /\ run'[t].h = run[t].h /\ run'[t].from = run[t].from
            /\ run'[t].todo = run[t].todo /\ run'[t].in = run[t].in
            /\ run'[t].owed = run[t].owed \ {r}
  <2>1. ASSUME NEW t \in Dispatchers
        PROVE  LET e == [run[t] EXCEPT !.owed = @ \ {r}] IN
               /\ e \in RunRec /\ e.pc = run[t].pc /\ e.h = run[t].h /\ e.from = run[t].from
               /\ e.todo = run[t].todo /\ e.in = run[t].in /\ e.owed = run[t].owed \ {r}
    <3>1. run[t] \in RunRec
      BY <1>0
    <3> QED
      BY <3>1 DEF RunRec
  <2> QED
    BY <1>2, <2>1
<1>11. ListenerTypes'
  BY <1>0, <1>2, <1>5, <1>9, <1>10 DEF ListenerTypes
<1>12. HandlersAreFresh'
  <2>1. \A h \in LCalls : Made(h)' <=> Made(h)
    BY <1>6 DEF Made, LCalls
  <2>2. dispatcher'.handler # <<>> => Made(dispatcher.handler)'
    <3>1. \A h \in LCalls : h = dispatcher.handler /\ h # <<>> => Made(h)'
      BY <1>0, <2>1 DEF HandlersAreFresh
    <3>2. dispatcher.handler \in LCalls \union {<<>>}
      BY <1>0 DEF DispatcherRec
    <3> QED
      BY <1>2, <3>1, <3>2 DEF Made
  <2>3. \A q \in MCReaders : receiver[q].h \in LCalls \union {<<>>}
    BY <1>0 DEF ReceiverRec
  <2>4. ASSUME NEW q \in MCReaders, receiver'[q].h # <<>> PROVE Made(receiver[q].h)' /\ q # r
    <3>1. q # r
      BY <1>4, <1>5, <2>4
    <3>2. \A h \in LCalls : h = receiver[q].h /\ h # <<>> => Made(h)'
      BY <1>0, <2>1 DEF HandlersAreFresh
    <3> QED
      BY <1>5, <2>3, <2>4, <3>1, <3>2 DEF Made
  <2>5. ASSUME NEW q \in MCReaders, receiver'[q].pc = "set"
        PROVE  /\ receiver'[q].h = <<q, receiver'[q].adds>>
               /\ dispatcher'.handler # receiver'[q].h
               /\ \A p \in MCReaders \ {q} : receiver'[p].h # receiver'[q].h
               /\ \A f \in LSignals : slots'[receiver'[q].h][f] = <<>>
    <3>1. q # r /\ receiver[q].pc = "set" /\ receiver'[q] = receiver[q]
      BY <1>4, <1>5, <2>5
    <3>2. receiver[q].h # <<>> /\ receiver[q].h \in LCalls
      BY <1>0, <2>3, <3>1 DEF HandlersAreFresh
    <3>3. /\ receiver[q].h = <<q, receiver[q].adds>> /\ dispatcher.handler # receiver[q].h
          /\ \A p \in MCReaders \ {q} : receiver[p].h # receiver[q].h
          /\ \A f \in LSignals : slots[receiver[q].h][f] = <<>>
      BY <1>0, <3>1 DEF HandlersAreFresh
    <3>4. \A p \in MCReaders \ {q} : receiver'[p].h # receiver[q].h
      BY <1>4, <1>5, <3>2, <3>3
    <3>5. \A f \in LSignals : slots'[receiver[q].h][f] = <<>>
      BY <1>9, <3>2, <3>3
    <3> QED
      BY <1>2, <3>1, <3>3, <3>4, <3>5
  <2>6. \A q \in MCReaders : receiver'[q].pc # "idle" => receiver'[q].h # <<>> /\ receiver'[q].adds > 0
    BY <1>0, <1>4, <1>5 DEF HandlersAreFresh
  <2>7. \A h \in LCalls : ~Made(h)' => \A f \in LSignals : slots'[h][f] = <<>>
    BY <1>0, <1>9, <2>1 DEF HandlersAreFresh
  <2>8. \A q \in MCReaders : receiver'[q].h # <<>> => Made(receiver[q].h)' /\ receiver'[q].h = receiver[q].h
    BY <1>5, <2>4
  <2> QED
    BY <1>2, <2>2, <2>5, <2>6, <2>7, <2>8 DEF HandlersAreFresh, Made
<1>13. SlotsAreOwned'
  <2>1. ASSUME NEW h \in LCalls, NEW f \in LSignals, NEW q \in MCReaders, NEW k \in 1 .. MaxAdds,
               Has(slots'[h][f], <<q, k>>)
        PROVE  /\ receiver'[q].from = f /\ k <= receiver'[q].adds
               /\ receiver'[q].pc \in {"set", "connect"} => k < receiver'[q].adds
               /\ \/ receiver'[q].pc \in There /\ k = receiver'[q].adds /\ receiver'[q].h = h
                  \/ h # dispatcher'.handler
    <3>1. Has(slots[h][f], <<q, k>>) /\ (h = H => <<q, k>> # slot)
      BY <1>9, <2>1
    <3>2. /\ receiver[q].from = f /\ k <= receiver[q].adds
          /\ receiver[q].pc \in {"set", "connect"} => k < receiver[q].adds
          /\ \/ receiver[q].pc \in There /\ k = receiver[q].adds /\ receiver[q].h = h
             \/ h # dispatcher.handler
      BY <1>0, <3>1 DEF SlotsAreOwned
    <3>3. CASE q = r
      BY <1>1, <1>2, <1>4, <1>5, <1>6, <3>1, <3>2, <3>3
    <3>4. CASE q # r
      BY <1>2, <1>5, <3>2, <3>4
    <3> QED
      BY <3>3, <3>4
  <2> QED
    BY <1>9, <2>1 DEF SlotsAreOwned
<1>14. ListenersAreThere'
  <2>1. ASSUME NEW q \in MCReaders, receiver'[q].pc \in There
        PROVE  /\ Has(slots'[receiver'[q].h][receiver'[q].from], <<q, receiver'[q].adds>>)
               /\ <<q, receiver'[q].adds>> \in connected'
    <3>1. q # r /\ receiver'[q] = receiver[q]
      BY <1>4, <1>5, <2>1 DEF There
    <3>2. receiver[q].h \in LCalls /\ receiver[q].from \in LSignals
      BY <1>0, <2>1, <3>1 DEF ReceiverRec, HandlersAreFresh, There
    <3>3. /\ Has(slots[receiver[q].h][receiver[q].from], <<q, receiver[q].adds>>)
          /\ <<q, receiver[q].adds>> \in connected
      BY <1>0, <2>1, <3>1 DEF ListenersAreThere
    <3> QED
      BY <1>9, <3>1, <3>2, <3>3
  <2> QED
    BY <2>1 DEF ListenersAreThere
<1>15. RunsAreOwed'
  <2>1. ASSUME NEW t \in Dispatchers PROVE OwedAreComing(t)'
    <3>1. OwedAreComing(t) /\ run[t] \in RunRec
      BY <1>0 DEF RunsAreOwed
    <3>2. \A q \in run'[t].owed : q \in run[t].owed /\ q \in MCReaders \ {r} /\ receiver'[q] = receiver[q]
      BY <1>5, <1>10, <3>1 DEF RunRec
    <3> QED
      BY <1>10, <3>1, <3>2 DEF OwedAreComing
  <2> QED
    BY <2>1 DEF RunsAreOwed
<1>16. RunsAreLocal'
  <2>1. ASSUME NEW t \in Dispatchers, NEW q \in MCReaders, NEW k \in 1 .. MaxAdds,
               Has(run[t].todo, <<q, k>>) \/ run[t].in = <<q, k>>
        PROVE  /\ run[t].pc = "any" => receiver'[q].from = "any"
               /\ run[t].pc = "pair" => Has(slots'[run[t].h][run[t].from], <<q, k>>)
    <3>1. run[t].pc = "pair" => run[t].h \in LCalls /\ run[t].from \in LSignals /\ run[t].h # H
      BY <1>0, <1>2 DEF RunsAreOwed, OwedAreComing, RunRec, LSignals
    <3>2. /\ run[t].pc = "any" => receiver[q].from = "any"
          /\ run[t].pc = "pair" => Has(slots[run[t].h][run[t].from], <<q, k>>)
      BY <1>0, <2>1 DEF RunsAreLocal, CallsAreLocal
    <3> QED
      BY <1>6, <1>9, <3>1, <3>2
  <2> QED
    BY <1>10, <2>1 DEF RunsAreLocal, CallsAreLocal
<1> QED
  BY <1>11, <1>12, <1>13, <1>14, <1>15, <1>16 DEF ListenerInv

LEMMA ListenerStep ==
  ASSUME ListenerInv, Listening!ListenerNext
  PROVE  ListenerInv'
<1>1. CASE Listening!Shutdown
  BY <1>1, ListenerShutdownStep
<1>2. ASSUME NEW r \in MCReaders,
             \/ Listening!AddListener(r) \/ Listening!SetHandler(r) \/ Listening!Connect(r)
             \/ Listening!NoteConnection(r) \/ Listening!Subscribe(r)
             \/ Listening!RemoveListener(r)
      PROVE  ListenerInv'
  BY <1>2, AddListenerStep, SetHandlerStep, ConnectStep, ThereSteps, RemoveListenerStep
<1>3. ASSUME NEW t \in Dispatchers,
             \/ Listening!CallSlot(t) \/ Listening!CallbackReturns(t) \/ Listening!RunPair(t)
             \/ Listening!RunEnds(t) \/ \E v \in Senders : Listening!OnMessage(t, v)
      PROVE  ListenerInv'
  BY <1>3, CallSlotStep, RunSteps, OnMessageStep
<1> QED
  BY <1>1, <1>2, <1>3 DEF Listening!ListenerNext

LEMMA ListenerStart ==
  ASSUME Listening!ListenerInit
  PROVE  ListenerInv
<1>1. /\ slots = [h \in LCalls |-> [f \in LSignals |-> <<>>]] /\ connected = {}
      /\ receiver \in [MCReaders -> [from : LSignals, adds : {0}, pc : {"idle"}, h : {<<>>}]]
      /\ run = [t \in Dispatchers |-> Listening!Idle]
      /\ dispatcher \in DispatcherRec /\ dispatcher.handler = <<>>
  BY DEF Listening!ListenerInit, Listening!NoHandler, LCalls, LSignals, DispatcherRec,
         Listening!Calls, Listening!Signals
<1>2. /\ Listening!Idle \in RunRec /\ Listening!Idle.pc = "idle" /\ Listening!Idle.todo = <<>>
      /\ Listening!Idle.in = <<>> /\ Listening!Idle.owed = {}
  BY DEF RunRec, Listening!Idle, Listening!NoSlot, Listening!NoHandler
<1>3. \A r \in MCReaders : /\ receiver[r] \in ReceiverRec /\ receiver[r].h = <<>>
                           /\ receiver[r].adds = 0 /\ receiver[r].pc = "idle"
  BY <1>1, BoundTypes DEF ReceiverRec
<1>4. \A h \in LCalls, f \in LSignals : slots[h][f] = <<>>
  BY <1>1
<1>5. \A t \in Dispatchers : run[t] = Listening!Idle
  BY <1>1
<1>6. ListenerTypes
  <2>1. slots \in [LCalls -> [LSignals -> Seq(LCalls)]]
    BY <1>1
  <2>2. receiver \in [MCReaders -> ReceiverRec]
    BY <1>1, <1>3
  <2>3. run \in [Dispatchers -> RunRec]
    BY <1>1, <1>2
  <2> QED
    BY <1>1, <2>1, <2>2, <2>3 DEF ListenerTypes
<1>7. HandlersAreFresh /\ SlotsAreOwned /\ ListenersAreThere
  <2>1. \A f \in LSignals, h \in LCalls : Distinct(slots[h][f]) /\ \A y : ~Has(slots[h][f], y)
    BY <1>4, EmptyHas DEF Distinct
  <2> QED
    BY <1>1, <1>3, <1>4, <2>1 DEF HandlersAreFresh, SlotsAreOwned, ListenersAreThere, There
<1>8. RunsAreOwed /\ RunsAreLocal
  <2>1. ASSUME NEW t \in Dispatchers PROVE OwedAreComing(t)
    BY <1>2, <1>5 DEF OwedAreComing
  <2>2. ASSUME NEW t \in Dispatchers PROVE CallsAreLocal(t)
    BY <1>2, <1>5 DEF CallsAreLocal
  <2> QED
    BY <2>1, <2>2 DEF RunsAreOwed, RunsAreLocal
<1> QED
  BY <1>6, <1>7, <1>8 DEF ListenerInv

LEMMA ListenerExact ==
  ASSUME ListenerInv
  PROVE  ListenersAreExact
<1>1. Listening!ListenersHear
  <2> SUFFICES ASSUME NEW t \in Dispatchers, run[t].pc = "pair", run[t].todo = <<>>
               PROVE  run[t].owed = {}
    BY DEF Listening!ListenersHear
  <2>1. OwedAreComing(t)
    BY DEF ListenerInv, RunsAreOwed
  <2>2. ASSUME NEW r \in run[t].owed PROVE Has(run[t].todo, <<r, receiver[r].adds>>)
    BY <2>1 DEF OwedAreComing
  <2> QED
    BY <2>2, EmptyHas
<1>2. ASSUME NEW t \in Dispatchers, run[t].in # <<>>
      PROVE  LET r == run[t].in[1] IN
             \/ receiver[r].pc \in There /\ receiver[r].adds = run[t].in[2]
             \/ receiver[r].from = "any"
             \/ Listening!Replaced(run[t].in)
  <2>1. run[t] \in RunRec /\ OwedAreComing(t) /\ CallsAreLocal(t)
    BY DEF ListenerInv, ListenerTypes, RunsAreOwed, RunsAreLocal
  <2>2. PICK r \in MCReaders, k \in 1 .. MaxAdds : run[t].in = <<r, k>>
    BY <1>2, <2>1 DEF RunRec, LCalls
  <2>3. run[t].pc \in {"any", "pair"} /\ run[t].h \in LCalls /\ run[t].from \in Senders
    BY <1>2, <2>1 DEF RunRec, OwedAreComing
  <2>4. CASE run[t].pc = "any"
    BY <2>1, <2>2, <2>4 DEF CallsAreLocal
  <2>5. CASE run[t].pc = "pair"
    <3>1. Has(slots[run[t].h][run[t].from], <<r, k>>) /\ run[t].from \in LSignals
      BY <2>1, <2>2, <2>3, <2>5 DEF CallsAreLocal, LSignals
    <3>2. \/ receiver[r].pc \in There /\ k = receiver[r].adds
          \/ run[t].h # dispatcher.handler
      BY <2>3, <3>1 DEF ListenerInv, SlotsAreOwned
    <3>3. run[t].h # dispatcher.handler => Listening!Replaced(<<r, k>>)
      BY <2>3, <3>1 DEF Listening!Replaced, Has, LCalls, LSignals, Listening!Calls, Listening!Signals
    <3> QED
      BY <2>2, <3>2, <3>3
  <2> QED
    BY <2>3, <2>4, <2>5
<1>3. Listening!RemovedIsSilent
  BY <1>2 DEF Listening!RemovedIsSilent, Listening!NoSlot, There
<1> QED
  BY <1>1, <1>3 DEF ListenersAreExact

-----------------------------------------------------------------------------
(* HybridTransport.                                                        *)

Jobs == Seq(Nat) \ {<<>>}
TxRec == [seq_num_ : Nat, info : Nat, enabled : SUBSET Hybrid!Modes,
          receivers_ : [Hybrid!Modes -> SUBSET MCReaders], history_ : Seq(Nat),
          is_shutdown : BOOLEAN, jobs : [MCReaders -> Seq(Jobs)], joins : Nat,
          owed : [MCReaders -> Nat], since : [MCReaders -> Nat]]
RxRec == [listeners : {0, 1}, wire : Seq(Nat), got : Seq(Nat), subscribed : BOOLEAN,
          window : {"closed", "starting", "open"}, is_msg_arrived : BOOLEAN,
          channel : Seq(Nat), heard : SUBSET Nat]

HybridTypes ==
  /\ pairing.table \in [Hybrid!Relations -> Hybrid!Modes]
  /\ pairing.relation \in [MCReaders -> Hybrid!Relations \union {"NO_RELATION"}]
  /\ tx \in TxRec /\ rx \in [MCReaders -> RxRec]
  /\ lost \in [MCReaders -> SUBSET Nat]

\* The one writing thread sends the number it took last.
WriterIsNext ==
  /\ writing \subseteq {w} /\ tx.info = tx.seq_num_
  /\ writing # {} => tx.seq_num_ > 0

\* The history ends with the last message sent and goes Depth messages back.
EndsWith(s, n) ==
  /\ Len(s) = IF n > Hybrid!Depth THEN Hybrid!Depth ELSE n
  /\ \A i \in 1 .. Len(s) : s[i] = n - Len(s) + i
HistoryIsLast == Hybrid!InitHistory => EndsWith(tx.history_, Hybrid!Sent)

Increases(s) == \A i, j \in 1 .. Len(s) : i < j => s[i] < s[j]
UpTo(s, n) == \A i \in 1 .. Len(s) : s[i] <= n

\* What a receiver got and what is on the way to it, in the order sent.
LiveIsOrdered(r) ==
  /\ Increases(rx[r].got) /\ Increases(rx[r].wire)
  /\ \A i \in 1 .. Len(rx[r].got), j \in 1 .. Len(rx[r].wire) : rx[r].got[i] < rx[r].wire[j]
  /\ UpTo(rx[r].got, Hybrid!Sent) /\ UpTo(rx[r].wire, Hybrid!Sent)
  /\ Hybrid!Related(r) /\ Hybrid!Mode(r) = "INTRA" => rx[r].wire = <<>>

\* A pair that has enabled each other stays so while messages are owed.
OwedAreJoined(r) ==
  tx.owed[r] > 0 =>
    /\ Hybrid!Related(r) /\ rx[r].listeners = 1 /\ rx[r].subscribed
    /\ r \in tx.receivers_[Hybrid!Mode(r)]
    /\ Hybrid!Mode(r) \in tx.enabled \/ tx.is_shutdown
SubscribedListen(r) == rx[r].listeners > 0 => rx[r].subscribed /\ Hybrid!Related(r)

Live(r, n) == Has(rx[r].got, n) \/ Has(rx[r].wire, n) \/ n \in lost[r]
InJobs(jobs, n) == \E i \in 1 .. Len(jobs) : Has(jobs[i], n)
ComingAgain(r, n) ==
  Live(r, n) \/ InJobs(tx.jobs[r], n) \/ Has(rx[r].channel, n) \/ n \in rx[r].heard
OwedArrive(r) ==
  tx.owed[r] > 0 =>
    /\ \A n \in tx.owed[r] .. Hybrid!Sent : Live(r, n)
    /\ rx[r].window # "closed" => \A n \in tx.since[r] .. Hybrid!Sent : ComingAgain(r, n)

PairInv(r) == LiveIsOrdered(r) /\ OwedAreJoined(r) /\ SubscribedListen(r) /\ OwedArrive(r)
HybridInv ==
  /\ HybridTypes /\ WriterIsNext /\ HistoryIsLast
  /\ \A r \in MCReaders : PairInv(r)

LEMMA HybridBounds ==
  /\ QosDepth \in Nat /\ max_depth_ \in Nat /\ Hybrid!Depth \in Nat
  /\ HybridTypes /\ WriterIsNext => Hybrid!Sent \in Nat /\ tx.seq_num_ \in Nat
<1>1. QosDepth \in Nat /\ max_depth_ \in Nat
  BY TransportAssumption
<1> QED
  BY <1>1 DEF Hybrid!Depth, Hybrid!Sent, HybridTypes, TxRec, WriterIsNext

LEMMA LiveKeeps ==
  ASSUME HybridInv, NEW r \in MCReaders, pairing' = pairing, (Hybrid!Sent)' = Hybrid!Sent,
         rx'[r].got = rx[r].got, rx'[r].wire = rx[r].wire,
         rx'[r].listeners = rx[r].listeners, rx'[r].subscribed = rx[r].subscribed
  PROVE  LiveIsOrdered(r)' /\ SubscribedListen(r)'
BY DEF HybridInv, PairInv, LiveIsOrdered, SubscribedListen, Hybrid!Related, Hybrid!Mode

LEMMA OwedKeeps ==
  ASSUME HybridInv, NEW r \in MCReaders, (Hybrid!Sent)' = Hybrid!Sent,
         \A n \in Nat : Live(r, n) => Live(r, n)',
         tx'.owed[r] > 0 =>
           /\ tx'.owed[r] = tx.owed[r] /\ tx'.since[r] = tx.since[r]
           /\ rx'[r].window # "closed" => rx[r].window # "closed"
           /\ \A n \in Nat : ComingAgain(r, n) => ComingAgain(r, n)'
  PROVE  OwedArrive(r)'
<1>1. tx.owed[r] \in Nat /\ tx.since[r] \in Nat /\ Hybrid!Sent \in Nat
  BY HybridBounds DEF HybridInv, HybridTypes, TxRec
<1>2. \A k, n : k \in Nat /\ n \in k .. Hybrid!Sent => n \in Nat
  BY <1>1
<1>3. OwedArrive(r)
  BY DEF HybridInv, PairInv
<1> QED
  BY <1>1, <1>2, <1>3 DEF OwedArrive

\* A receiver that a step does not touch.
LEMMA PairKeeps ==
  ASSUME HybridInv, NEW r \in MCReaders, pairing' = pairing, (Hybrid!Sent)' = Hybrid!Sent,
         rx'[r] = rx[r], lost'[r] = lost[r], tx'.jobs[r] = tx.jobs[r],
         \/ tx'.owed[r] = 0
         \/ /\ tx'.owed[r] = tx.owed[r] /\ tx'.since[r] = tx.since[r]
            /\ OwedAreJoined(r)'
  PROVE  PairInv(r)'
<1>1. LiveIsOrdered(r)' /\ SubscribedListen(r)'
  BY LiveKeeps
<1>2. OwedAreJoined(r)'
  BY DEF OwedAreJoined
<1>3. \A n : (Live(r, n) => Live(r, n)') /\ (ComingAgain(r, n) => ComingAgain(r, n)')
  BY DEF Live, ComingAgain
<1>4. OwedArrive(r)'
  BY <1>3, OwedKeeps
<1> QED
  BY <1>1, <1>2, <1>4 DEF PairInv

\* The history and the numbers stay as they are.
LEMMA HistoryKeeps ==
  ASSUME HybridInv, pairing' = pairing, (Hybrid!Sent)' = Hybrid!Sent,
         tx'.history_ = tx.history_
  PROVE  HistoryIsLast'
BY DEF HybridInv, HistoryIsLast, EndsWith, Hybrid!InitHistory, Hybrid!Depth

\* The steps of the transmitter that are not about one receiver.
LEMMA ManyModesSteps ==
  ASSUME HybridInv, Hybrid!EnableAll \/ Hybrid!DisableAll \/ Hybrid!Shutdown
  PROVE  HybridInv'
<1>1. HybridTypes /\ WriterIsNext /\ tx \in TxRec
  BY DEF HybridInv, HybridTypes
<1>2. pairing' = pairing /\ writing' = writing /\ rx' = rx /\ lost' = lost
  BY DEF Hybrid!EnableAll, Hybrid!DisableAll, Hybrid!Shutdown
<1>3. PICK e \in SUBSET Hybrid!Modes, o \in [MCReaders -> Nat], s \in BOOLEAN :
        /\ tx' = [tx EXCEPT !.enabled = e, !.owed = o, !.is_shutdown = s]
        /\ \A r \in MCReaders : o[r] = 0 \/ (o[r] = tx.owed[r] /\ tx.enabled \subseteq e)
        /\ tx.is_shutdown => s
  <2>1. CASE Hybrid!EnableAll
    <3>1. Hybrid!UsedModes \subseteq Hybrid!Modes
      BY <1>1 DEF HybridTypes, Hybrid!UsedModes
    <3>2. tx' = [tx EXCEPT !.enabled = Hybrid!Enabled(Hybrid!UsedModes), !.owed = tx.owed,
                           !.is_shutdown = tx.is_shutdown]
      BY <1>1, <2>1 DEF Hybrid!EnableAll, TxRec
    <3>3. /\ Hybrid!Enabled(Hybrid!UsedModes) \in SUBSET Hybrid!Modes
          /\ tx.enabled \subseteq Hybrid!Enabled(Hybrid!UsedModes)
      BY <1>1, <3>1 DEF Hybrid!Enabled, TxRec
    <3>4. tx.owed \in [MCReaders -> Nat] /\ tx.is_shutdown \in BOOLEAN
      BY <1>1 DEF TxRec
    <3> QED
      BY <3>2, <3>3, <3>4
  <2>2. CASE Hybrid!DisableAll
    <3>1. tx' = [tx EXCEPT !.enabled = {}, !.owed = [r \in MCReaders |-> 0],
                           !.is_shutdown = tx.is_shutdown]
      BY <1>1, <2>2 DEF Hybrid!DisableAll, Hybrid!Nobody, TxRec
    <3>2. [r \in MCReaders |-> 0] \in [MCReaders -> Nat] /\ tx.is_shutdown \in BOOLEAN
      BY <1>1 DEF TxRec
    <3> QED
      BY <3>1, <3>2
  <2>3. CASE Hybrid!Shutdown
    <3>1. tx' = [tx EXCEPT !.enabled = tx.enabled, !.owed = tx.owed, !.is_shutdown = TRUE]
      BY <1>1, <2>3 DEF Hybrid!Shutdown, TxRec
    <3>2. tx.enabled \in SUBSET Hybrid!Modes /\ tx.owed \in [MCReaders -> Nat]
      BY <1>1 DEF TxRec
    <3> QED
      BY <3>1, <3>2
  <2> QED
    BY <2>1, <2>2, <2>3
<1> DEFINE x == [tx EXCEPT !.enabled = e, !.owed = o, !.is_shutdown = s]
<1>4. /\ x \in TxRec /\ x.seq_num_ = tx.seq_num_ /\ x.info = tx.info /\ x.enabled = e
      /\ x.receivers_ = tx.receivers_ /\ x.history_ = tx.history_ /\ x.is_shutdown = s
      /\ x.jobs = tx.jobs /\ x.owed = o /\ x.since = tx.since
  BY <1>1 DEF TxRec
<1>5. tx' = x
  BY <1>3
<1> HIDE DEF x
<1>6. HybridTypes' /\ WriterIsNext' /\ (Hybrid!Sent)' = Hybrid!Sent
  BY <1>1, <1>2, <1>4, <1>5 DEF HybridTypes, WriterIsNext, Hybrid!Sent
<1>7. HistoryIsLast'
  BY <1>2, <1>4, <1>5, <1>6, HistoryKeeps
<1>8. ASSUME NEW r \in MCReaders PROVE PairInv(r)'
  <2>1. OwedAreJoined(r)
    BY DEF HybridInv, PairInv
  <2>2. o[r] = tx.owed[r] /\ tx.enabled \subseteq e => OwedAreJoined(r)'
    BY <1>2, <1>3, <1>4, <1>5, <2>1 DEF OwedAreJoined, Hybrid!Related, Hybrid!Mode
  <2> QED
    BY <1>2, <1>3, <1>4, <1>5, <1>6, <2>2, PairKeeps
<1> QED
  BY <1>6, <1>7, <1>8 DEF HybridInv

LEMMA NextSeqNumStep ==
  ASSUME HybridInv, NEW t \in {w}, Hybrid!NextSeqNum(t)
  PROVE  HybridInv'
<1>1. HybridTypes /\ WriterIsNext /\ tx \in TxRec
  BY DEF HybridInv, HybridTypes
<1>2. /\ pairing' = pairing /\ rx' = rx /\ lost' = lost /\ writing = {} /\ writing' = {w}
      /\ tx' = [tx EXCEPT !.seq_num_ = tx.seq_num_ + 1, !.info = tx.seq_num_ + 1]
  BY <1>1 DEF Hybrid!NextSeqNum, WriterIsNext
<1>0. PICK n \in Nat : n = tx.seq_num_ + 1 /\ tx.seq_num_ \in Nat
  BY <1>1 DEF TxRec
<1> DEFINE x == [tx EXCEPT !.seq_num_ = n, !.info = n]
<1>3. /\ x \in TxRec /\ x.seq_num_ = tx.seq_num_ + 1 /\ x.info = tx.seq_num_ + 1
      /\ x.enabled = tx.enabled /\ x.receivers_ = tx.receivers_ /\ x.history_ = tx.history_
      /\ x.is_shutdown = tx.is_shutdown /\ x.jobs = tx.jobs /\ x.owed = tx.owed
      /\ x.since = tx.since /\ tx.seq_num_ \in Nat
  BY <1>0, <1>1 DEF TxRec
<1>4. tx' = x
  BY <1>0, <1>2
<1> HIDE DEF x
<1>5. HybridTypes' /\ WriterIsNext' /\ (Hybrid!Sent)' = Hybrid!Sent
  BY <1>1, <1>2, <1>3, <1>4 DEF HybridTypes, WriterIsNext, Hybrid!Sent
<1>6. HistoryIsLast'
  BY <1>2, <1>3, <1>4, <1>5, HistoryKeeps
<1>7. ASSUME NEW r \in MCReaders PROVE PairInv(r)'
  <2>1. OwedAreJoined(r)'
    BY <1>2, <1>3, <1>4 DEF HybridInv, PairInv, OwedAreJoined, Hybrid!Related, Hybrid!Mode
  <2> QED
    BY <1>2, <1>3, <1>4, <1>5, <2>1, PairKeeps
<1> QED
  BY <1>5, <1>6, <1>7 DEF HybridInv

\* Both sides of a pair.
ModeOf == \A r \in MCReaders : Hybrid!Related(r) => Hybrid!Mode(r) \in Hybrid!Modes
LEMMA ModeTypes == HybridTypes => ModeOf
BY DEF HybridTypes, ModeOf, Hybrid!Related, Hybrid!Mode

\* A snapshot of the history holds what a receiver that joins now is owed.
LEMMA HistoryIsEnough ==
  ASSUME HybridInv, Hybrid!InitHistory, NEW n \in Hybrid!Earliest .. Hybrid!Sent
  PROVE  Has(tx.history_, n) /\ tx.history_ # <<>>
<1> DEFINE s == tx.history_
           L == Len(tx.history_)
           S == Hybrid!Sent
<1>1. s \in Seq(Nat) /\ S \in Nat /\ Hybrid!Depth \in Nat /\ L \in Nat
  BY HybridBounds DEF HybridInv, HybridTypes, TxRec
<1>2. /\ L = IF S > Hybrid!Depth THEN Hybrid!Depth ELSE S
      /\ \A i \in 1 .. L : s[i] = S - L + i
  BY DEF HybridInv, HistoryIsLast, EndsWith
<1>3. Hybrid!Earliest = S - L + 1 /\ n \in S - L + 1 .. S
  <2>1. Hybrid!Earliest = S - L + 1
    BY <1>1, <1>2 DEF Hybrid!Earliest
  <2> QED
    BY <2>1
<1> HIDE DEF s, S, L
<1>4. n \in Int /\ n - S + L \in 1 .. L /\ S - L + (n - S + L) = n
  BY <1>1, <1>3
<1>5. s[n - S + L] = n
  BY <1>2, <1>4
<1>6. Has(s, n)
  BY <1>4, <1>5 DEF Has, Listening!Contains, s, L
<1> QED
  BY <1>6, EmptyHas DEF s

LEMMA EnableToStep ==
  ASSUME HybridInv, NEW r \in MCReaders, Hybrid!EnableTo(r)
  PROVE  HybridInv'
<1>1. HybridTypes /\ WriterIsNext /\ tx \in TxRec /\ Hybrid!Related(r) /\ Hybrid!Mode(r) \in Hybrid!Modes
  BY ModeTypes DEF HybridInv, HybridTypes, Hybrid!EnableTo, ModeOf
<1>2. PICK m \in Hybrid!Modes : m = Hybrid!Mode(r)
  BY <1>1
<1> DEFINE first == tx.owed[r] = 0 /\ rx[r].listeners > 0
<1>3. PICK e : e = Hybrid!Enabled({m})
  OBVIOUS
<1>4. PICK js : js = Hybrid!TransmitHistoryMsg(r)
  OBVIOUS
<1>5. PICK o : o = IF first THEN Hybrid!Sent + 1 ELSE tx.owed[r]
  OBVIOUS
<1>6. PICK z : z = IF first THEN Hybrid!Earliest ELSE tx.since[r]
  OBVIOUS
<1>7. Hybrid!Sent \in Nat /\ Hybrid!Earliest \in Nat
  <2>1. Hybrid!Sent \in Nat /\ Hybrid!Depth \in Nat
    BY <1>1, HybridBounds
  <2> QED
    BY <2>1 DEF Hybrid!Earliest
<1>8. PICK j \in Nat : j = tx.joins + 1
  BY <1>1 DEF TxRec
<1>9. /\ pairing' = pairing /\ writing' = writing /\ rx' = rx /\ lost' = lost
      /\ tx' = [tx EXCEPT !.joins = j, !.receivers_[m] = @ \union {r}, !.enabled = e,
                          !.jobs[r] = js, !.owed[r] = o, !.since[r] = z]
  BY <1>2, <1>3, <1>4, <1>5, <1>6, <1>8 DEF Hybrid!EnableTo
<1>10. /\ e \in SUBSET Hybrid!Modes /\ tx.enabled \subseteq e
       /\ m \in e \/ tx.is_shutdown
  BY <1>1, <1>2, <1>3 DEF Hybrid!Enabled, TxRec
<1>11. /\ js \in Seq(Jobs) /\ \A n : InJobs(tx.jobs[r], n) => InJobs(js, n)
       /\ tx.history_ # <<>> => \A n : Has(tx.history_, n) => InJobs(js, n)
  <2>1. tx.jobs[r] \in Seq(Jobs) /\ tx.history_ \in Seq(Nat)
    BY <1>1 DEF TxRec
  <2>2. CASE tx.history_ = <<>>
    BY <1>4, <2>1, <2>2 DEF Hybrid!TransmitHistoryMsg
  <2>3. CASE tx.history_ # <<>>
    <3>1. js = Append(tx.jobs[r], tx.history_) /\ tx.history_ \in Jobs
      BY <1>4, <2>1, <2>3 DEF Hybrid!TransmitHistoryMsg, Jobs
    <3>2. /\ js \in Seq(Jobs) /\ Len(js) = Len(tx.jobs[r]) + 1 /\ js[Len(js)] = tx.history_
          /\ \A i \in 1 .. Len(tx.jobs[r]) : js[i] = tx.jobs[r][i]
          /\ Len(tx.jobs[r]) \in Nat
      BY <2>1, <3>1
    <3> QED
      BY <3>2 DEF InJobs
  <2> QED
    BY <2>2, <2>3
<1>12. o \in Nat /\ z \in Nat
  BY <1>1, <1>5, <1>6, <1>7 DEF TxRec
<1> DEFINE rs == [tx.receivers_ EXCEPT ![m] = @ \union {r}]
           jobs == [tx.jobs EXCEPT ![r] = js]
           owed == [tx.owed EXCEPT ![r] = o]
           since == [tx.since EXCEPT ![r] = z]
           x == [tx EXCEPT !.joins = j, !.receivers_ = rs, !.enabled = e, !.jobs = jobs,
                           !.owed = owed, !.since = since]
<1>13. /\ rs \in [Hybrid!Modes -> SUBSET MCReaders] /\ r \in rs[m]
       /\ \A k \in Hybrid!Modes : tx.receivers_[k] \subseteq rs[k]
  BY <1>1 DEF TxRec
<1>14. /\ jobs \in [MCReaders -> Seq(Jobs)] /\ jobs[r] = js
       /\ \A q \in MCReaders \ {r} : jobs[q] = tx.jobs[q]
  BY <1>1, <1>11 DEF TxRec
<1>15. /\ owed \in [MCReaders -> Nat] /\ owed[r] = o
       /\ since \in [MCReaders -> Nat] /\ since[r] = z
       /\ \A q \in MCReaders \ {r} : owed[q] = tx.owed[q] /\ since[q] = tx.since[q]
  BY <1>1, <1>12 DEF TxRec
<1>16. tx' = x
  BY <1>9
<1> HIDE DEF rs, jobs, owed, since
<1>17. /\ x \in TxRec /\ x.seq_num_ = tx.seq_num_ /\ x.info = tx.info /\ x.enabled = e
       /\ x.receivers_ = rs /\ x.history_ = tx.history_ /\ x.is_shutdown = tx.is_shutdown
       /\ x.jobs = jobs /\ x.owed = owed /\ x.since = since
  BY <1>1, <1>10, <1>13, <1>14, <1>15 DEF TxRec
<1> HIDE DEF x
<1>18. HybridTypes' /\ WriterIsNext' /\ (Hybrid!Sent)' = Hybrid!Sent
  BY <1>1, <1>9, <1>16, <1>17 DEF HybridTypes, WriterIsNext, Hybrid!Sent
<1>19. HistoryIsLast'
  BY <1>9, <1>16, <1>17, <1>18, HistoryKeeps
<1>20. ASSUME NEW q \in MCReaders, q # r PROVE PairInv(q)'
  <2>1. OwedAreJoined(q)
    BY DEF HybridInv, PairInv
  <2>2. Hybrid!Related(q) => Hybrid!Mode(q) \in Hybrid!Modes
    BY <1>1, ModeTypes DEF ModeOf
  <2>3. OwedAreJoined(q)'
    BY <1>9, <1>10, <1>13, <1>15, <1>16, <1>17, <1>20, <2>1, <2>2
       DEF OwedAreJoined, Hybrid!Related, Hybrid!Mode
  <2> QED
    BY <1>9, <1>14, <1>15, <1>16, <1>17, <1>18, <1>20, <2>3, PairKeeps
<1>21. PairInv(r)'
  <2>1. OwedAreJoined(r) /\ SubscribedListen(r) /\ OwedArrive(r) /\ rx[r] \in RxRec
    BY DEF HybridInv, PairInv, HybridTypes
  <2>2. LiveIsOrdered(r)' /\ SubscribedListen(r)'
    BY <1>9, <1>18, LiveKeeps
  <2>3. tx'.owed[r] > 0 => rx[r].listeners = 1
    BY <1>5, <1>15, <1>16, <1>17, <2>1 DEF OwedAreJoined, RxRec
  <2>4. OwedAreJoined(r)'
    <3>1. Hybrid!Related(r)' /\ (Hybrid!Mode(r))' = m
      BY <1>1, <1>2, <1>9 DEF Hybrid!Related, Hybrid!Mode
    <3> QED
      <4> SUFFICES ASSUME tx'.owed[r] > 0
                   PROVE  /\ rx'[r].listeners = 1 /\ rx'[r].subscribed /\ r \in tx'.receivers_[m]
                          /\ m \in tx'.enabled \/ tx'.is_shutdown
        BY <3>1 DEF OwedAreJoined
      <4>1. rx'[r].listeners = 1 /\ rx'[r].subscribed
        BY <1>9, <2>1, <2>3 DEF SubscribedListen
      <4>2. r \in tx'.receivers_[m] /\ (m \in tx'.enabled \/ tx'.is_shutdown)
        BY <1>10, <1>13, <1>16, <1>17
      <4> QED
        BY <4>1, <4>2
  <2>5. /\ \A n : Live(r, n) => Live(r, n)'
        /\ \A n : ComingAgain(r, n) => ComingAgain(r, n)'
        /\ \A n : InJobs(js, n) => ComingAgain(r, n)'
    BY <1>9, <1>11, <1>14, <1>16, <1>17 DEF Live, ComingAgain
  <2>6. OwedArrive(r)'
    <3>1. CASE first
      <4>1. tx'.owed[r] = Hybrid!Sent + 1 /\ tx'.since[r] = Hybrid!Earliest
        BY <1>5, <1>6, <1>15, <1>16, <1>17, <3>1
      <4>2. ASSUME NEW n \in Hybrid!Earliest .. Hybrid!Sent PROVE ComingAgain(r, n)'
        <5>1. Hybrid!InitHistory
          BY <1>7 DEF Hybrid!Earliest
        <5> QED
          BY <1>11, <2>5, <5>1, HistoryIsEnough
      <4> QED
        BY <1>7, <1>18, <4>1, <4>2 DEF OwedArrive
    <3>2. CASE ~first
      <4>1. tx'.owed[r] = tx.owed[r] /\ tx'.since[r] = tx.since[r]
        BY <1>5, <1>6, <1>15, <1>16, <1>17, <3>2
      <4> QED
        BY <1>9, <1>18, <2>5, <4>1, OwedKeeps
    <3> QED
      BY <3>1, <3>2
  <2> QED
    BY <2>2, <2>4, <2>6 DEF PairInv
<1> QED
  BY <1>18, <1>19, <1>20, <1>21 DEF HybridInv

LEMMA DisableToStep ==
  ASSUME HybridInv, NEW r \in MCReaders, Hybrid!DisableTo(r)
  PROVE  HybridInv'
<1>1. HybridTypes /\ WriterIsNext /\ tx \in TxRec /\ Hybrid!Related(r) /\ Hybrid!Mode(r) \in Hybrid!Modes
  BY ModeTypes DEF HybridInv, HybridTypes, Hybrid!DisableTo, ModeOf
<1>2. PICK m \in Hybrid!Modes : m = Hybrid!Mode(r)
  BY <1>1
<1>3. PICK left : left = tx.receivers_[m] \ {r}
  OBVIOUS
<1>4. PICK e : e = IF left = {} THEN tx.enabled \ {m} ELSE tx.enabled
  OBVIOUS
<1>5. /\ pairing' = pairing /\ writing' = writing /\ rx' = rx /\ lost' = lost
      /\ tx' = [tx EXCEPT !.receivers_[m] = left, !.enabled = e, !.owed[r] = 0]
  BY <1>2, <1>3, <1>4 DEF Hybrid!DisableTo
<1> DEFINE rs == [tx.receivers_ EXCEPT ![m] = left]
           owed == [tx.owed EXCEPT ![r] = 0]
           x == [tx EXCEPT !.receivers_ = rs, !.enabled = e, !.owed = owed]
<1>6. /\ rs \in [Hybrid!Modes -> SUBSET MCReaders] /\ rs[m] = left
      /\ \A k \in Hybrid!Modes \ {m} : rs[k] = tx.receivers_[k]
  BY <1>1, <1>3 DEF TxRec
<1>7. /\ owed \in [MCReaders -> Nat] /\ owed[r] = 0
      /\ \A q \in MCReaders \ {r} : owed[q] = tx.owed[q]
  BY <1>1 DEF TxRec
<1>8. tx' = x
  BY <1>5
<1> HIDE DEF rs, owed
<1>9. /\ x \in TxRec /\ x.seq_num_ = tx.seq_num_ /\ x.info = tx.info /\ x.enabled = e
      /\ x.receivers_ = rs /\ x.history_ = tx.history_ /\ x.is_shutdown = tx.is_shutdown
      /\ x.jobs = tx.jobs /\ x.owed = owed /\ x.since = tx.since
  BY <1>1, <1>4, <1>6, <1>7 DEF TxRec
<1> HIDE DEF x
<1>10. HybridTypes' /\ WriterIsNext' /\ (Hybrid!Sent)' = Hybrid!Sent
  BY <1>1, <1>5, <1>8, <1>9 DEF HybridTypes, WriterIsNext, Hybrid!Sent
<1>11. HistoryIsLast'
  BY <1>5, <1>8, <1>9, <1>10, HistoryKeeps
<1>12. ASSUME NEW q \in MCReaders PROVE PairInv(q)'
  <2>1. CASE q = r
    BY <1>5, <1>7, <1>8, <1>9, <1>10, <2>1, PairKeeps
  <2>2. CASE q # r
    <3>1. OwedAreJoined(q)
      BY DEF HybridInv, PairInv
    <3>2. Hybrid!Related(q) => Hybrid!Mode(q) \in Hybrid!Modes
      BY <1>1, ModeTypes DEF ModeOf
    <3>3. OwedAreJoined(q)'
      BY <1>3, <1>4, <1>5, <1>6, <1>7, <1>8, <1>9, <2>2, <3>1, <3>2
         DEF OwedAreJoined, Hybrid!Related, Hybrid!Mode
    <3> QED
      BY <1>5, <1>7, <1>8, <1>9, <1>10, <2>2, <3>3, PairKeeps
  <2> QED
    BY <2>1, <2>2
<1> QED
  BY <1>10, <1>11, <1>12 DEF HybridInv

\* A callback for each listener.
LEMMA CopiesHave ==
  ASSUME NEW g \in Seq(Nat), NEW n \in Nat, NEW k \in {0, 1}
  PROVE  /\ g \o Hybrid!Copies(n, k) \in Seq(Nat)
         /\ Len(g \o Hybrid!Copies(n, k)) = Len(g) + k
         /\ \A i \in 1 .. Len(g) : (g \o Hybrid!Copies(n, k))[i] = g[i]
         /\ k = 1 => (g \o Hybrid!Copies(n, k))[Len(g) + 1] = n
<1> DEFINE c == Hybrid!Copies(n, k)
           e == g \o c
<1>1. c = [i \in 1 .. k |-> n]
  BY DEF Hybrid!Copies
<1>2. c \in Seq(Nat)
  BY <1>1, SeqDef
<1>3. Len(c) = k /\ (k = 1 => c[1] = n)
  BY <1>1, <1>2, LenProperties
<1>4. e = g \o c
  OBVIOUS
<1> HIDE DEF c, e
<1>5. Len(g) \in Nat
  OBVIOUS
<1>6. /\ e \in Seq(Nat) /\ Len(e) = Len(g) + Len(c)
      /\ \A i \in 1 .. Len(g) + Len(c) : e[i] = IF i <= Len(g) THEN g[i] ELSE c[i - Len(g)]
  BY <1>2, <1>4, ConcatProperties
<1>7. \A i \in 1 .. Len(g) : e[i] = g[i]
  BY <1>3, <1>5, <1>6
<1>8. ASSUME k = 1 PROVE e[Len(g) + 1] = n
  <2>1. Len(g) + 1 \in 1 .. Len(g) + Len(c) /\ ~(Len(g) + 1 <= Len(g)) /\ Len(g) + 1 - Len(g) = 1
    BY <1>3, <1>5, <1>8
  <2>2. e[Len(g) + 1] = c[Len(g) + 1 - Len(g)]
    BY <1>6, <2>1
  <2> QED
    BY <1>3, <1>8, <2>1, <2>2
<1> QED
  BY <1>3, <1>6, <1>7, <1>8 DEF c, e

\* A step of one receiver: nothing of what is owed gets away.
LEMMA ReceiverOnly ==
  ASSUME HybridInv, NEW r \in MCReaders, NEW y \in RxRec, rx' = [rx EXCEPT ![r] = y],
         pairing' = pairing, tx' = tx, writing' = writing, lost' = lost,
         LiveIsOrdered(r)', y.listeners = rx[r].listeners, y.subscribed = rx[r].subscribed,
         y.window # "closed" => rx[r].window # "closed",
         tx.owed[r] > 0 => \A n \in Nat : /\ Live(r, n) => Live(r, n)'
                                          /\ ComingAgain(r, n) => ComingAgain(r, n)'
  PROVE  HybridInv'
<1>1. rx \in [MCReaders -> RxRec] /\ HybridTypes /\ WriterIsNext
  BY DEF HybridInv, HybridTypes
<1>2. rx'[r] = y /\ \A q \in MCReaders \ {r} : rx'[q] = rx[q]
  BY <1>1
<1>3. HybridTypes' /\ WriterIsNext' /\ (Hybrid!Sent)' = Hybrid!Sent
  BY <1>1 DEF HybridTypes, WriterIsNext, Hybrid!Sent
<1>4. HistoryIsLast'
  BY <1>3, HistoryKeeps
<1>5. ASSUME NEW q \in MCReaders PROVE OwedAreJoined(q)'
  BY <1>2 DEF HybridInv, PairInv, OwedAreJoined, Hybrid!Related, Hybrid!Mode
<1>6. ASSUME NEW q \in MCReaders \ {r} PROVE PairInv(q)'
  BY <1>2, <1>3, <1>5, PairKeeps
<1>7. PairInv(r)'
  <2>1. SubscribedListen(r)'
    BY <1>2 DEF HybridInv, PairInv, SubscribedListen, Hybrid!Related
  <2>2. OwedArrive(r)'
    <3>1. tx.owed[r] \in Nat /\ tx.since[r] \in Nat /\ Hybrid!Sent \in Nat /\ OwedArrive(r)
      BY <1>1, HybridBounds DEF HybridInv, HybridTypes, TxRec, PairInv
    <3>2. \A k, n : k \in Nat /\ n \in k .. Hybrid!Sent => n \in Nat
      BY <3>1
    <3> QED
      BY <1>2, <1>3, <3>1, <3>2 DEF OwedArrive
  <2> QED
    BY <1>5, <2>1, <2>2 DEF PairInv
<1> QED
  BY <1>3, <1>4, <1>6, <1>7 DEF HybridInv

LEMMA WindowSteps ==
  ASSUME HybridInv, NEW r \in MCReaders,
         Hybrid!OpenWindow(r) \/ Hybrid!HearHistory(r) \/ Hybrid!SleepWindow(r)
  PROVE  HybridInv'
<1>1. /\ rx \in [MCReaders -> RxRec] /\ rx[r] \in RxRec /\ HybridTypes /\ WriterIsNext
      /\ LiveIsOrdered(r)
  BY DEF HybridInv, HybridTypes, PairInv
<1>2. pairing' = pairing /\ tx' = tx /\ writing' = writing /\ lost' = lost
  BY DEF Hybrid!OpenWindow, Hybrid!HearHistory, Hybrid!SleepWindow
<1>3. PICK v \in {"closed", "starting", "open"}, a \in BOOLEAN, c \in Seq(Nat), h \in SUBSET Nat :
        /\ rx' = [rx EXCEPT ![r] = [rx[r] EXCEPT !.window = v, !.is_msg_arrived = a,
                                                 !.channel = c, !.heard = h]]
        /\ v # "closed" => rx[r].window # "closed"
        /\ rx[r].heard \subseteq h
        /\ \A n : Has(rx[r].channel, n) => Has(c, n) \/ n \in h
  <2>1. CASE Hybrid!OpenWindow(r)
    <3>1. /\ rx[r].window = "starting"
          /\ rx' = [rx EXCEPT ![r] = [rx[r] EXCEPT !.window = "open", !.is_msg_arrived = FALSE,
                      !.channel = rx[r].channel, !.heard = rx[r].heard]]
      BY <1>1, <2>1 DEF Hybrid!OpenWindow, RxRec
    <3>2. rx[r].channel \in Seq(Nat) /\ rx[r].heard \in SUBSET Nat
      BY <1>1 DEF RxRec
    <3> QED
      BY <3>1, <3>2
  <2>2. CASE Hybrid!HearHistory(r)
    <3>0. rx[r].channel \in Seq(Nat) /\ rx[r].heard \in SUBSET Nat /\ rx[r].channel # <<>>
      BY <1>1, <2>2 DEF RxRec, Hybrid!HearHistory
    <3>1. PICK c, h : c = Tail(rx[r].channel) /\ h = rx[r].heard \union {Head(rx[r].channel)}
      OBVIOUS
    <3>2. /\ rx[r].window = "open"
          /\ rx' = [rx EXCEPT ![r] = [rx[r] EXCEPT !.window = "open", !.is_msg_arrived = TRUE,
                      !.channel = c, !.heard = h]]
      BY <1>1, <2>2, <3>1, ZenonT(60) DEF Hybrid!HearHistory, RxRec
    <3>3. /\ c \in Seq(Nat) /\ h \in SUBSET Nat /\ rx[r].heard \subseteq h
          /\ \A n : Has(rx[r].channel, n) => Has(c, n) \/ n \in h
      BY <3>0, <3>1, TailHas
    <3> QED
      BY <3>2, <3>3
  <2>3. CASE Hybrid!SleepWindow(r)
    <3>1. PICK v : v = IF rx[r].is_msg_arrived THEN "open" ELSE "closed"
      OBVIOUS
    <3>2. /\ rx[r].window = "open"
          /\ rx' = [rx EXCEPT ![r] = [rx[r] EXCEPT !.window = v, !.is_msg_arrived = FALSE,
                      !.channel = rx[r].channel, !.heard = rx[r].heard]]
      BY <1>1, <2>3, <3>1 DEF Hybrid!SleepWindow, RxRec
    <3>3. rx[r].channel \in Seq(Nat) /\ rx[r].heard \in SUBSET Nat
      BY <1>1 DEF RxRec
    <3> QED
      BY <3>1, <3>2, <3>3
  <2> QED
    BY <2>1, <2>2, <2>3
<1> DEFINE y == [rx[r] EXCEPT !.window = v, !.is_msg_arrived = a, !.channel = c, !.heard = h]
<1>4. /\ y \in RxRec /\ y.listeners = rx[r].listeners /\ y.wire = rx[r].wire
      /\ y.got = rx[r].got /\ y.subscribed = rx[r].subscribed /\ y.window = v
      /\ y.channel = c /\ y.heard = h
  BY <1>1 DEF RxRec
<1>5. rx' = [rx EXCEPT ![r] = y]
  BY <1>3
<1> HIDE DEF y
<1>6. rx'[r] = y
  BY <1>1, <1>5
<1>7. LiveIsOrdered(r)'
  <2>1. (Hybrid!Sent)' = Hybrid!Sent
    BY <1>2 DEF Hybrid!Sent
  <2> QED
    BY <1>2, <1>4, <1>6, <2>1, LiveKeeps
<1>8. \A n \in Nat : /\ Live(r, n) => Live(r, n)'
                     /\ ComingAgain(r, n) => ComingAgain(r, n)'
  BY <1>2, <1>3, <1>4, <1>6 DEF Live, ComingAgain
<1> QED
  BY <1>2, <1>3, <1>4, <1>5, <1>7, <1>8, ReceiverOnly

LEMMA OnNewMessageStep ==
  ASSUME HybridInv, NEW r \in MCReaders, Hybrid!OnNewMessage(r)
  PROVE  HybridInv'
<1>1. /\ rx \in [MCReaders -> RxRec] /\ rx[r] \in RxRec /\ HybridTypes /\ WriterIsNext
      /\ LiveIsOrdered(r) /\ OwedAreJoined(r)
  BY DEF HybridInv, HybridTypes, PairInv
<1>2. PICK g, s, k, n : /\ g = rx[r].got /\ s = rx[r].wire /\ k = rx[r].listeners
                        /\ n = Head(rx[r].wire)
  OBVIOUS
<1>3. /\ g \in Seq(Nat) /\ s \in Seq(Nat) /\ k \in {0, 1} /\ s # <<>>
      /\ pairing' = pairing /\ tx' = tx /\ writing' = writing /\ lost' = lost
  BY <1>1, <1>2 DEF RxRec, Hybrid!OnNewMessage
<1>4. /\ n \in Nat /\ n = s[1] /\ Len(g) \in Nat /\ Len(s) \in Nat /\ Len(s) > 0
      /\ Tail(s) \in Seq(Nat) /\ Len(Tail(s)) = Len(s) - 1
      /\ \A i \in 1 .. Len(s) - 1 : Tail(s)[i] = s[i + 1]
      /\ \A q : Has(s, q) <=> q = n \/ Has(Tail(s), q)
  BY <1>2, <1>3, TailHas
<1>5. PICK e : e = g \o Hybrid!Copies(n, k)
  OBVIOUS
<1>6. /\ e \in Seq(Nat) /\ Len(e) = Len(g) + k /\ \A i \in 1 .. Len(g) : e[i] = g[i]
      /\ k = 1 => e[Len(g) + 1] = n
  <2>1. g \in Seq(Nat) /\ n \in Nat /\ k \in {0, 1}
    BY <1>3, <1>4
  <2> QED
    <3>1. /\ g \o Hybrid!Copies(n, k) \in Seq(Nat)
          /\ Len(g \o Hybrid!Copies(n, k)) = Len(g) + k
          /\ \A i \in 1 .. Len(g) : (g \o Hybrid!Copies(n, k))[i] = g[i]
          /\ k = 1 => (g \o Hybrid!Copies(n, k))[Len(g) + 1] = n
      BY <2>1, CopiesHave, Zenon
    <3> QED
      BY <1>5, <3>1
<1>7. PICK f : f = Tail(s)
  OBVIOUS
<1> DEFINE y == [rx[r] EXCEPT !.wire = f, !.got = e]
<1>8. rx' = [rx EXCEPT ![r] = y]
  <2>1. rx' = [rx EXCEPT ![r] = Hybrid!Called([rx[r] EXCEPT !.wire = f], n)]
    BY <1>1, <1>2, <1>7 DEF Hybrid!OnNewMessage
  <2>2. Hybrid!Called([rx[r] EXCEPT !.wire = f], n) = y
    <3> DEFINE x == [rx[r] EXCEPT !.wire = f]
    <3>1. x.got = g /\ x.listeners = k
      BY <1>1, <1>2 DEF RxRec
    <3>2. Hybrid!Called(x, n) = [x EXCEPT !.got = e]
      BY <1>5, <3>1 DEF Hybrid!Called
    <3>3. [x EXCEPT !.got = e] = y
      BY <1>1 DEF RxRec
    <3> QED
      BY <3>2, <3>3
  <2> QED
    BY <2>1, <2>2
<1>9. /\ y \in RxRec /\ y.listeners = k /\ y.wire = f /\ y.got = e
      /\ y.subscribed = rx[r].subscribed /\ y.window = rx[r].window
      /\ y.channel = rx[r].channel /\ y.heard = rx[r].heard
  BY <1>1, <1>2, <1>4, <1>6, <1>7 DEF RxRec
<1> HIDE DEF y
<1>10. rx'[r] = y
  BY <1>1, <1>8
<1>11. (Hybrid!Sent)' = Hybrid!Sent /\ Hybrid!Sent \in Nat
  BY <1>1, <1>3, HybridBounds DEF Hybrid!Sent
<1>12. /\ \A i, j \in 1 .. Len(g) : i < j => g[i] < g[j]
       /\ \A i, j \in 1 .. Len(s) : i < j => s[i] < s[j]
       /\ \A i \in 1 .. Len(g), j \in 1 .. Len(s) : g[i] < s[j]
       /\ \A i \in 1 .. Len(g) : g[i] <= Hybrid!Sent
       /\ \A i \in 1 .. Len(s) : s[i] <= Hybrid!Sent
  BY <1>1, <1>2 DEF LiveIsOrdered, Increases, UpTo
<1>13. \A i \in 1 .. Len(e) : (i \in 1 .. Len(g) /\ e[i] = g[i]) \/ (k = 1 /\ i = Len(g) + 1 /\ e[i] = s[1])
  BY SMTT(40), <1>3, <1>4, <1>6
<1>14. \A i \in 1 .. Len(f) : i + 1 \in 1 .. Len(s) /\ f[i] = s[i + 1] /\ 1 < i + 1
  BY <1>4, <1>7
<1>15. 1 \in 1 .. Len(s)
  BY <1>4
<1>16. Increases(e) /\ UpTo(e, Hybrid!Sent)
  <2>1. ASSUME NEW i \in 1 .. Len(e), NEW j \in 1 .. Len(e), i < j PROVE e[i] < e[j]
    <3>1. i \in 1 .. Len(g) /\ e[i] = g[i]
      BY <1>4, <1>6, <1>13, <2>1
    <3> QED
      BY <1>12, <1>13, <1>15, <2>1, <3>1
  <2> QED
    BY <1>12, <1>13, <1>15, <2>1 DEF Increases, UpTo
<1>17. Increases(f) /\ UpTo(f, Hybrid!Sent)
  <2>1. ASSUME NEW i \in 1 .. Len(f), NEW j \in 1 .. Len(f), i < j PROVE f[i] < f[j]
    <3>1. i + 1 < j + 1
      BY <1>4, <1>7, <2>1
    <3> QED
      BY <1>12, <1>14, <3>1
  <2> QED
    BY <1>12, <1>14, <2>1 DEF Increases, UpTo
<1>18. \A i \in 1 .. Len(e), j \in 1 .. Len(f) : e[i] < f[j]
  BY <1>12, <1>13, <1>14, <1>15
<1>19. LiveIsOrdered(r)'
  <2>1. Hybrid!Related(r)' /\ (Hybrid!Mode(r))' = "INTRA" => FALSE
    BY <1>1, <1>2, <1>3 DEF LiveIsOrdered, Hybrid!Related, Hybrid!Mode
  <2>2. \A z : (z = Hybrid!Sent => (Increases(e) /\ UpTo(e, z) /\ Increases(f) /\ UpTo(f, z)))
    BY <1>16, <1>17
  <2> QED
    BY <1>9, <1>10, <1>11, <1>18, <2>1, <2>2 DEF LiveIsOrdered, Increases, UpTo
<1>20. ASSUME tx.owed[r] > 0
       PROVE  \A q \in Nat : /\ Live(r, q) => Live(r, q)'
                             /\ ComingAgain(r, q) => ComingAgain(r, q)'
  <2>1. k = 1
    BY <1>1, <1>2, <1>20 DEF OwedAreJoined
  <2>2. \A q : Has(g, q) \/ q = n => Has(e, q)
    BY <1>4, <1>6, <2>1 DEF Has, Listening!Contains
  <2>3. \A q : Live(r, q) => Live(r, q)'
    BY <1>2, <1>3, <1>4, <1>7, <1>9, <1>10, <2>2 DEF Live
  <2> QED
    BY <1>3, <1>9, <1>10, <2>3 DEF ComingAgain
<1> QED
  BY <1>2, <1>3, <1>8, <1>9, <1>19, <1>20, ReceiverOnly

LEMMA DisableFromStep ==
  ASSUME HybridInv, NEW r \in MCReaders, Hybrid!DisableFrom(r)
  PROVE  HybridInv'
<1>1. /\ rx \in [MCReaders -> RxRec] /\ rx[r] \in RxRec /\ HybridTypes /\ WriterIsNext
      /\ tx \in TxRec
  BY DEF HybridInv, HybridTypes
<1> DEFINE y == [rx[r] EXCEPT !.listeners = 0]
           owed == [tx.owed EXCEPT ![r] = 0]
           x == [tx EXCEPT !.owed = owed]
<1>2. /\ pairing' = pairing /\ writing' = writing /\ lost' = lost
      /\ rx' = [rx EXCEPT ![r] = y] /\ tx' = x
  BY <1>1 DEF Hybrid!DisableFrom
<1>3. /\ owed \in [MCReaders -> Nat] /\ owed[r] = 0
      /\ \A q \in MCReaders \ {r} : owed[q] = tx.owed[q]
  BY <1>1 DEF TxRec
<1> HIDE DEF owed
<1>4. /\ x \in TxRec /\ x.seq_num_ = tx.seq_num_ /\ x.info = tx.info /\ x.enabled = tx.enabled
      /\ x.receivers_ = tx.receivers_ /\ x.history_ = tx.history_
      /\ x.is_shutdown = tx.is_shutdown /\ x.jobs = tx.jobs /\ x.owed = owed
      /\ x.since = tx.since
  BY <1>1, <1>3 DEF TxRec
<1>5. /\ y \in RxRec /\ y.listeners = 0 /\ y.wire = rx[r].wire /\ y.got = rx[r].got
  BY <1>1 DEF RxRec
<1> HIDE DEF x, y
<1>6. rx'[r] = y /\ \A q \in MCReaders \ {r} : rx'[q] = rx[q]
  BY <1>1, <1>2
<1>7. HybridTypes' /\ WriterIsNext' /\ (Hybrid!Sent)' = Hybrid!Sent
  BY <1>1, <1>2, <1>4, <1>5 DEF HybridTypes, WriterIsNext, Hybrid!Sent
<1>8. HistoryIsLast'
  BY <1>2, <1>4, <1>7, HistoryKeeps
<1>9. ASSUME NEW q \in MCReaders \ {r} PROVE PairInv(q)'
  <2>1. OwedAreJoined(q)'
    BY <1>2, <1>3, <1>4, <1>6 DEF HybridInv, PairInv, OwedAreJoined, Hybrid!Related, Hybrid!Mode
  <2> QED
    BY <1>2, <1>3, <1>4, <1>6, <1>7, <2>1, PairKeeps
<1>10. PairInv(r)'
  <2>1. LiveIsOrdered(r)'
    BY <1>2, <1>5, <1>6, <1>7 DEF HybridInv, PairInv, LiveIsOrdered, Hybrid!Related, Hybrid!Mode
  <2>2. OwedAreJoined(r)' /\ SubscribedListen(r)' /\ OwedArrive(r)'
    BY <1>2, <1>3, <1>4, <1>5, <1>6 DEF OwedAreJoined, SubscribedListen, OwedArrive
  <2> QED
    BY <2>1, <2>2 DEF PairInv
<1> QED
  BY <1>7, <1>8, <1>9, <1>10 DEF HybridInv

LEMMA EnableFromStep ==
  ASSUME HybridInv, NEW r \in MCReaders, Hybrid!EnableFrom(r)
  PROVE  HybridInv'
<1>1. /\ rx \in [MCReaders -> RxRec] /\ rx[r] \in RxRec /\ HybridTypes /\ WriterIsNext
      /\ tx \in TxRec /\ PairInv(r) /\ Hybrid!Related(r) /\ rx[r].window = "closed"
      /\ Hybrid!Sent \in Nat
  BY HybridBounds DEF HybridInv, HybridTypes, Hybrid!EnableFrom
<1> DEFINE alone == rx[r].listeners = 0
           first == alone /\ Hybrid!Mode(r) \in tx.enabled /\ r \in tx.receivers_[Hybrid!Mode(r)]
<1>2. PICK v : v = IF alone THEN Hybrid!Window(r) ELSE rx[r].window
  OBVIOUS
<1>3. PICK h : h = IF alone THEN {} ELSE rx[r].heard
  OBVIOUS
<1>4. PICK o : o = IF first THEN Hybrid!Sent + 1 ELSE tx.owed[r]
  OBVIOUS
<1>5. PICK z : z = IF first THEN Hybrid!Sent + 1 ELSE tx.since[r]
  OBVIOUS
<1>6. PICK j \in Nat : j = tx.joins + 1
  BY <1>1 DEF TxRec
<1>7. /\ v \in {"closed", "starting"} /\ h \in SUBSET Nat /\ o \in Nat /\ z \in Nat
      /\ ~alone => v = "closed" /\ rx[r].listeners = 1
      /\ alone => tx.owed[r] = 0
  BY <1>1, <1>2, <1>3, <1>4, <1>5 DEF Hybrid!Window, RxRec, TxRec, PairInv, OwedAreJoined
<1> DEFINE y == [rx[r] EXCEPT !.subscribed = TRUE, !.listeners = 1, !.window = v, !.heard = h]
           owed == [tx.owed EXCEPT ![r] = o]
           since == [tx.since EXCEPT ![r] = z]
           x == [tx EXCEPT !.joins = j, !.owed = owed, !.since = since]
<1>8. /\ pairing' = pairing /\ writing' = writing /\ lost' = lost
      /\ rx' = [rx EXCEPT ![r] = y] /\ tx' = x
  <2>1. rx' = [rx EXCEPT ![r].subscribed = TRUE, ![r].listeners = 1, ![r].window = v,
                         ![r].heard = h]
    <3>1. (IF rx[r].listeners = 0 THEN rx[r].listeners + 1 ELSE rx[r].listeners) = 1
      BY <1>1 DEF RxRec
    <3> QED
      BY <1>1, <1>2, <1>3, <3>1 DEF Hybrid!EnableFrom
  <2>2. tx' = [tx EXCEPT !.joins = j, !.owed[r] = o, !.since[r] = z]
    BY <1>4, <1>5, <1>6 DEF Hybrid!EnableFrom
  <2>3. rx' = [rx EXCEPT ![r] = y]
    BY <1>1, <2>1
  <2>4. tx' = x
    BY <1>1, <2>2
  <2> QED
    BY <2>3, <2>4 DEF Hybrid!EnableFrom
<1>9. /\ owed \in [MCReaders -> Nat] /\ owed[r] = o
      /\ since \in [MCReaders -> Nat] /\ since[r] = z
      /\ \A q \in MCReaders \ {r} : owed[q] = tx.owed[q] /\ since[q] = tx.since[q]
  BY <1>1, <1>7 DEF TxRec
<1> HIDE DEF owed, since
<1>10. /\ x \in TxRec /\ x.seq_num_ = tx.seq_num_ /\ x.info = tx.info /\ x.enabled = tx.enabled
       /\ x.receivers_ = tx.receivers_ /\ x.history_ = tx.history_
       /\ x.is_shutdown = tx.is_shutdown /\ x.jobs = tx.jobs /\ x.owed = owed
       /\ x.since = since
  BY <1>1, <1>9 DEF TxRec
<1>11. /\ y \in RxRec /\ y.listeners = 1 /\ y.wire = rx[r].wire /\ y.got = rx[r].got
       /\ y.subscribed /\ y.window = v /\ y.heard = h /\ y.channel = rx[r].channel
  BY <1>1, <1>7 DEF RxRec
<1> HIDE DEF x, y
<1>12. rx'[r] = y /\ \A q \in MCReaders \ {r} : rx'[q] = rx[q]
  BY <1>1, <1>8
<1>13. HybridTypes' /\ WriterIsNext' /\ (Hybrid!Sent)' = Hybrid!Sent
  BY <1>1, <1>8, <1>10, <1>11 DEF HybridTypes, WriterIsNext, Hybrid!Sent
<1>14. HistoryIsLast'
  BY <1>8, <1>10, <1>13, HistoryKeeps
<1>15. ASSUME NEW q \in MCReaders \ {r} PROVE PairInv(q)'
  <2>1. OwedAreJoined(q)'
    BY <1>8, <1>9, <1>10, <1>12 DEF HybridInv, PairInv, OwedAreJoined, Hybrid!Related, Hybrid!Mode
  <2> QED
    BY <1>8, <1>9, <1>10, <1>12, <1>13, <2>1, PairKeeps
<1>16. PairInv(r)'
  <2>1. LiveIsOrdered(r)'
    BY <1>1, <1>8, <1>11, <1>12, <1>13 DEF PairInv, LiveIsOrdered, Hybrid!Related, Hybrid!Mode
  <2>2. SubscribedListen(r)'
    BY <1>1, <1>8, <1>11, <1>12 DEF SubscribedListen, Hybrid!Related
  <2>3. Hybrid!Related(r)' /\ (Hybrid!Mode(r))' = Hybrid!Mode(r)
    BY <1>1, <1>8 DEF Hybrid!Related, Hybrid!Mode
  <2>4. OwedAreJoined(r)'
    <3>1. CASE first
      BY <1>8, <1>10, <1>11, <1>12, <2>3, <3>1 DEF OwedAreJoined
    <3>2. CASE ~first
      <4>1. tx'.owed[r] = tx.owed[r]
        BY <1>4, <1>8, <1>9, <1>10, <3>2
      <4> QED
        BY <1>1, <1>8, <1>10, <1>11, <1>12, <2>3, <4>1 DEF OwedAreJoined, PairInv
    <3> QED
      BY <3>1, <3>2
  <2>5. OwedArrive(r)'
    <3>1. CASE first
      <4>1. tx'.owed[r] = Hybrid!Sent + 1 /\ tx'.since[r] = Hybrid!Sent + 1
        BY <1>4, <1>5, <1>8, <1>9, <1>10, <3>1
      <4>2. \A n : n \notin Hybrid!Sent + 1 .. Hybrid!Sent
        BY <1>1
      <4> QED
        BY <1>13, <4>1, <4>2 DEF OwedArrive
    <3>2. CASE ~first
      <4>1. tx'.owed[r] = tx.owed[r] /\ tx'.since[r] = tx.since[r]
        BY <1>4, <1>5, <1>8, <1>9, <1>10, <3>2
      <4>2. CASE alone
        BY <1>7, <4>1, <4>2 DEF OwedArrive
      <4>3. CASE ~alone
        <5>1. rx'[r].window = "closed"
          BY <1>7, <1>11, <1>12, <4>3
        <5>2. \A n : Live(r, n) => Live(r, n)'
          BY <1>8, <1>11, <1>12 DEF Live
        <5>3. OwedArrive(r)
          BY <1>1 DEF PairInv
        <5> QED
          BY <1>13, <4>1, <5>1, <5>2, <5>3 DEF OwedArrive
      <4> QED
        BY <4>2, <4>3
    <3> QED
      BY <3>1, <3>2
  <2> QED
    BY <2>1, <2>2, <2>4, <2>5 DEF PairInv
<1> QED
  BY <1>13, <1>14, <1>15, <1>16 DEF HybridInv

\* The job that is under way, without the message it sends.
LEMMA JobsHave ==
  ASSUME NEW js \in Seq(Jobs), js # <<>>, NEW e,
         e = IF Len(Head(js)) = 1 THEN Tail(js) ELSE <<Tail(Head(js))>> \o Tail(js)
  PROVE  /\ e \in Seq(Jobs) /\ Head(Head(js)) \in Nat
         /\ \A n : InJobs(js, n) => n = Head(Head(js)) \/ InJobs(e, n)
<1>1. PICK job, f : job = Head(js) /\ f = Tail(js)
  OBVIOUS
<1>2. /\ job \in Jobs /\ f \in Seq(Jobs) /\ Len(js) \in Nat /\ Len(js) > 0 /\ js[1] = job
      /\ Len(f) = Len(js) - 1 /\ \A i \in 1 .. Len(js) - 1 : f[i] = js[i + 1]
  BY <1>1
<1>3. /\ job \in Seq(Nat) /\ job # <<>> /\ Head(job) \in Nat /\ Tail(job) \in Seq(Nat)
      /\ Len(Tail(job)) = Len(job) - 1 /\ Len(job) \in Nat /\ Len(job) > 0
      /\ \A y : Has(job, y) <=> y = Head(job) \/ Has(Tail(job), y)
  <2>1. job \in Seq(Nat) /\ job # <<>>
    BY <1>2 DEF Jobs
  <2> QED
    BY <2>1, TailHas
<1>4. ASSUME NEW n PROVE InJobs(js, n) => Has(job, n) \/ InJobs(f, n)
  <2> SUFFICES ASSUME NEW i \in 1 .. Len(js), Has(js[i], n), i # 1 PROVE InJobs(f, n)
    BY <1>2 DEF InJobs
  <2>1. i - 1 \in 1 .. Len(f) /\ f[i - 1] = js[i]
    BY <1>2
  <2> QED
    BY <2>1 DEF InJobs
<1>5. CASE Len(job) = 1
  <2>1. Tail(job) = <<>>
    <3>1. Len(Tail(job)) = 0
      BY <1>3, <1>5
    <3> QED
      BY <1>3, <3>1, EmptySeq
  <2>2. e = f
    BY <1>1, <1>5
  <2> QED
    BY <1>1, <1>2, <1>3, <1>4, <2>1, <2>2, EmptyHas
<1>6. CASE Len(job) # 1
  <2>1. Tail(job) # <<>>
    <3>1. Len(Tail(job)) # 0
      BY <1>3, <1>6
    <3> QED
      BY <3>1, EmptySeq
  <2>2. PICK u : u = Tail(job)
    OBVIOUS
  <2>3. e = <<u>> \o f /\ u \in Jobs
    BY <1>1, <1>3, <1>6, <2>1, <2>2 DEF Jobs
  <2>4. PICK c : c = <<u>>
    OBVIOUS
  <2>5. c \in Seq(Jobs) /\ Len(c) = 1 /\ c[1] = u
    BY <2>3, <2>4
  <2>6. /\ e \in Seq(Jobs) /\ Len(e) = Len(c) + Len(f)
        /\ \A i \in 1 .. Len(c) + Len(f) : e[i] = IF i <= Len(c) THEN c[i] ELSE f[i - Len(c)]
    <3>1. e = c \o f
      BY <2>3, <2>4
    <3>2. /\ c \o f \in Seq(Jobs) /\ Len(c \o f) = Len(c) + Len(f)
          /\ \A i \in 1 .. Len(c) + Len(f) : (c \o f)[i] = IF i <= Len(c) THEN c[i] ELSE f[i - Len(c)]
      <4>1. c \in Seq(Jobs) /\ f \in Seq(Jobs)
        BY <1>2, <2>5
      <4> QED
        BY <4>1, ConcatProperties, Zenon
    <3> QED
      BY <3>1, <3>2
  <2>7. Len(f) \in Nat
    BY <1>2
  <2>8. e[1] = u /\ 1 \in 1 .. Len(e)
    BY <2>5, <2>6, <2>7
  <2>9. ASSUME NEW i \in 1 .. Len(f) PROVE i + 1 \in 1 .. Len(e) /\ e[i + 1] = f[i]
    <3>1. i + 1 \in 1 .. Len(c) + Len(f) /\ ~(i + 1 <= Len(c)) /\ i + 1 - Len(c) = i
      BY <2>5, <2>7
    <3>2. e[i + 1] = f[i + 1 - Len(c)]
      BY <2>6, <3>1
    <3> QED
      BY <2>6, <3>1, <3>2
  <2>10. ASSUME NEW n PROVE InJobs(js, n) => n = Head(job) \/ InJobs(e, n)
    <3>1. Has(u, n) => InJobs(e, n)
      BY <2>8 DEF InJobs
    <3>2. InJobs(f, n) => InJobs(e, n)
      BY <2>9 DEF InJobs
    <3> QED
      BY <1>3, <1>4, <2>2, <3>1, <3>2
  <2> QED
    BY <1>1, <1>3, <2>6, <2>10
<1> QED
  BY <1>5, <1>6

LEMMA SendHistoryStep ==
  ASSUME HybridInv, NEW r \in MCReaders, Hybrid!SendHistory(r)
  PROVE  HybridInv'
<1>1. /\ rx \in [MCReaders -> RxRec] /\ rx[r] \in RxRec /\ HybridTypes /\ WriterIsNext
      /\ tx \in TxRec /\ PairInv(r) /\ lost \in [MCReaders -> SUBSET Nat]
      /\ tx.jobs[r] \in Seq(Jobs) /\ tx.jobs[r] # <<>>
  BY DEF HybridInv, HybridTypes, TxRec, Hybrid!SendHistory
<1>2. PICK n, js : /\ n = Head(Head(tx.jobs[r]))
                   /\ js = IF Len(Head(tx.jobs[r])) = 1 THEN Tail(tx.jobs[r])
                           ELSE <<Tail(Head(tx.jobs[r]))>> \o Tail(tx.jobs[r])
  OBVIOUS
<1>3. n \in Nat /\ js \in Seq(Jobs) /\ \A i : InJobs(tx.jobs[r], i) => i = n \/ InJobs(js, i)
  BY <1>1, <1>2, JobsHave
<1>4. PICK c, l : /\ c = IF tx.is_shutdown THEN rx[r].channel ELSE Append(rx[r].channel, n)
                  /\ l = IF tx.is_shutdown THEN lost[r] \union {n} ELSE lost[r]
  OBVIOUS
<1>5. /\ c \in Seq(Nat) /\ l \in SUBSET Nat /\ lost[r] \subseteq l
      /\ \A i : Has(rx[r].channel, i) => Has(c, i)
      /\ Has(c, n) \/ n \in l
  <2>1. rx[r].channel \in Seq(Nat) /\ lost[r] \in SUBSET Nat
    BY <1>1 DEF RxRec
  <2>2. CASE tx.is_shutdown
    BY <1>3, <1>4, <2>1, <2>2
  <2>3. CASE ~tx.is_shutdown
    <3>1. c = Append(rx[r].channel, n) /\ l = lost[r]
      BY <1>4, <2>3
    <3> QED
      BY <1>3, <2>1, <3>1, AppendHas
  <2> QED
    BY <2>2, <2>3
<1> DEFINE jobs == [tx.jobs EXCEPT ![r] = js]
           x == [tx EXCEPT !.jobs = jobs]
           y == [rx[r] EXCEPT !.channel = c]
<1>6. /\ pairing' = pairing /\ writing' = writing /\ tx' = x
      /\ rx' = [rx EXCEPT ![r] = y] /\ lost' = [lost EXCEPT ![r] = l]
  BY <1>1, <1>2, <1>4 DEF Hybrid!SendHistory
<1>7. /\ jobs \in [MCReaders -> Seq(Jobs)] /\ jobs[r] = js
      /\ \A q \in MCReaders \ {r} : jobs[q] = tx.jobs[q]
  BY <1>1, <1>3 DEF TxRec
<1> HIDE DEF jobs
<1>8. /\ x \in TxRec /\ x.seq_num_ = tx.seq_num_ /\ x.info = tx.info /\ x.enabled = tx.enabled
      /\ x.receivers_ = tx.receivers_ /\ x.history_ = tx.history_
      /\ x.is_shutdown = tx.is_shutdown /\ x.jobs = jobs /\ x.owed = tx.owed
      /\ x.since = tx.since
  BY <1>1, <1>7 DEF TxRec
<1>9. /\ y \in RxRec /\ y.listeners = rx[r].listeners /\ y.wire = rx[r].wire
      /\ y.got = rx[r].got /\ y.subscribed = rx[r].subscribed /\ y.window = rx[r].window
      /\ y.heard = rx[r].heard /\ y.channel = c
  BY <1>1, <1>5 DEF RxRec
<1> HIDE DEF x, y
<1>10. /\ rx'[r] = y /\ \A q \in MCReaders \ {r} : rx'[q] = rx[q] /\ lost'[q] = lost[q]
       /\ lost'[r] = l /\ lost' \in [MCReaders -> SUBSET Nat]
  BY <1>1, <1>5, <1>6
<1>11. HybridTypes' /\ WriterIsNext' /\ (Hybrid!Sent)' = Hybrid!Sent
  BY <1>1, <1>6, <1>8, <1>9, <1>10 DEF HybridTypes, WriterIsNext, Hybrid!Sent
<1>12. HistoryIsLast'
  BY <1>6, <1>8, <1>11, HistoryKeeps
<1>13. ASSUME NEW q \in MCReaders PROVE OwedAreJoined(q)'
  BY <1>6, <1>8, <1>9, <1>10 DEF HybridInv, PairInv, OwedAreJoined, Hybrid!Related, Hybrid!Mode
<1>14. ASSUME NEW q \in MCReaders \ {r} PROVE PairInv(q)'
  BY <1>6, <1>7, <1>8, <1>10, <1>11, <1>13, PairKeeps
<1>15. PairInv(r)'
  <2>1. LiveIsOrdered(r)' /\ SubscribedListen(r)'
    BY <1>6, <1>9, <1>10, <1>11, LiveKeeps
  <2>2. /\ \A i : Live(r, i) => Live(r, i)'
        /\ \A i : ComingAgain(r, i) => ComingAgain(r, i)'
    BY <1>3, <1>5, <1>6, <1>7, <1>8, <1>9, <1>10 DEF Live, ComingAgain
  <2>3. OwedArrive(r)'
    BY <1>6, <1>8, <1>9, <1>10, <1>11, <2>2, OwedKeeps
  <2> QED
    BY <1>13, <2>1, <2>3 DEF PairInv
<1> QED
  BY <1>11, <1>12, <1>14, <1>15 DEF HybridInv

LEMMA HistoryAddIsLast ==
  ASSUME NEW s \in Seq(Nat), NEW S \in Nat, EndsWith(s, S), NEW n \in Nat, n = S + 1
  PROVE  Hybrid!HistoryAdd(s, n) \in Seq(Nat) /\ EndsWith(Hybrid!HistoryAdd(s, n), n)
<1>0. PICK D \in Nat : D = Hybrid!Depth
  BY HybridBounds
<1> SUFFICES LET e == Hybrid!HistoryAdd(s, n) IN
             /\ e \in Seq(Nat) /\ Len(e) = IF n > D THEN D ELSE n
             /\ \A i \in 1 .. Len(e) : e[i] = n - Len(e) + i
  BY <1>0 DEF EndsWith
<1>9. /\ Len(s) = IF S > D THEN D ELSE S
      /\ \A i \in 1 .. Len(s) : s[i] = S - Len(s) + i
  BY <1>0 DEF EndsWith
<1>1. PICK L \in Nat : L = Len(s)
  OBVIOUS
<1>2. PICK h : h = Append(s, n)
  OBVIOUS
<1>3. /\ h \in Seq(Nat) /\ Len(h) = L + 1 /\ h[L + 1] = n /\ h # <<>>
      /\ \A i \in 1 .. L : h[i] = S - L + i
  <2>1. n \in Nat /\ \A i \in 1 .. L : s[i] = S - L + i
    BY <1>1, <1>9
  <2>2. /\ h \in Seq(Nat) /\ Len(h) = Len(s) + 1 /\ h[Len(s) + 1] = n
        /\ \A i \in 1 .. Len(s) : h[i] = s[i]
    BY <1>2, <2>1
  <2>3. h # <<>>
    BY <1>2, <2>1, AppendHas
  <2> QED
    BY <1>1, <2>1, <2>2, <2>3
<1>4. \A i \in 1 .. L + 1 : h[i] = S - L + i
  <2>1. \A i \in 1 .. L + 1 : i \in 1 .. L \/ i = L + 1
    BY <1>1
  <2>2. h[L + 1] = S - L + (L + 1)
    BY <1>1, <1>3
  <2> QED
    BY <1>3, <2>1, <2>2
<1>5. CASE L + 1 > D
  <2>1. L = D /\ n > D
    BY <1>1, <1>5, <1>9
  <2>2. PICK f : f = Tail(h)
    OBVIOUS
  <2>3. /\ f \in Seq(Nat) /\ Len(f) = L /\ \A i \in 1 .. L : f[i] = h[i + 1]
    <3>1. /\ Tail(h) \in Seq(Nat) /\ Len(Tail(h)) = Len(h) - 1
          /\ \A i \in 1 .. Len(Tail(h)) : Tail(h)[i] = h[i + 1]
      BY <1>3, HeadTailProperties
    <3> QED
      BY <1>1, <1>3, <2>2, <3>1
  <2>4. \A i \in 1 .. L : f[i] = n - L + i
    <3>1. ASSUME NEW i \in 1 .. L PROVE f[i] = n - L + i
      <4>1. i + 1 \in 1 .. L + 1 /\ S - L + (i + 1) = n - L + i
        BY <1>1
      <4> QED
        BY <1>4, <2>3, <4>1
    <3> QED
      BY <3>1
  <2>5. Hybrid!HistoryAdd(s, n) = f
    BY <1>2, <1>3, <1>5, <2>2, <1>0 DEF Hybrid!HistoryAdd
  <2> QED
    BY <2>1, <2>3, <2>4, <2>5
<1>6. CASE ~(L + 1 > D)
  <2>1. L = S /\ ~(n > D)
    BY <1>1, <1>6, <1>9
  <2>2. Hybrid!HistoryAdd(s, n) = h
    BY <1>2, <1>3, <1>6, <1>0 DEF Hybrid!HistoryAdd
  <2>3. \A i \in 1 .. L + 1 : h[i] = n - (L + 1) + i
    BY <1>1, <1>4, <2>1
  <2> QED
    BY <1>3, <2>1, <2>2, <2>3
<1> QED
  BY <1>5, <1>6

LEMMA IncreasesByOne ==
  ASSUME NEW s \in Seq(Nat), NEW n \in Nat, Increases(s), \A i \in 1 .. Len(s) : s[i] < n,
         NEW e \in Seq(Nat), Len(e) = Len(s) + 1, \A i \in 1 .. Len(s) : e[i] = s[i],
         e[Len(s) + 1] = n
  PROVE  Increases(e) /\ UpTo(e, n)
<1>1. \A i \in 1 .. Len(e) : i \in 1 .. Len(s) \/ i = Len(s) + 1
  OBVIOUS
<1>2. \A i \in 1 .. Len(s) : s[i] \in Nat
  OBVIOUS
<1>3. UpTo(e, n)
  BY <1>1, <1>2 DEF UpTo
<1>4. ASSUME NEW i \in 1 .. Len(e), NEW j \in 1 .. Len(e), i < j PROVE e[i] < e[j]
  <2>1. i \in 1 .. Len(s)
    BY <1>1, <1>4
  <2> QED
    BY <1>1, <1>4, <2>1 DEF Increases
<1> QED
  BY <1>3, <1>4 DEF Increases

LEMMA TransmitStep ==
  ASSUME HybridInv, NEW t \in {w}, Hybrid!Transmit(t)
  PROVE  HybridInv'
<1>1. /\ rx \in [MCReaders -> RxRec] /\ HybridTypes /\ WriterIsNext
      /\ tx \in TxRec /\ lost \in [MCReaders -> SUBSET Nat]
      /\ \A r \in MCReaders : PairInv(r)
  BY DEF HybridInv, HybridTypes
<1>2. PICK n, S : n = tx.info /\ S = Hybrid!Sent
  OBVIOUS
<1>3. PICK failing \in SUBSET {m \in tx.enabled : Hybrid!MayFail(m)} :
        LET modes == IF tx.is_shutdown THEN {} ELSE tx.enabled \ failing
            Reached(r) == /\ Hybrid!Related(r) /\ rx[r].subscribed /\ Hybrid!Mode(r) \in modes
                          /\ Hybrid!Reaches(Hybrid!Mode(r), r)
        IN
        /\ t \in writing /\ writing' = writing \ {t} /\ pairing' = pairing
        /\ tx' = [tx EXCEPT !.history_ = IF Hybrid!InitHistory THEN Hybrid!HistoryAdd(@, n) ELSE @]
        /\ rx' = [r \in MCReaders |->
             IF ~Reached(r) THEN rx[r]
             ELSE IF Hybrid!Mode(r) = "INTRA" THEN Hybrid!Called(rx[r], n)
             ELSE Hybrid!OnItsWay(rx[r], n)]
        /\ lost' = [r \in MCReaders |->
             IF Hybrid!Related(r) /\ (~Hybrid!Reaches(Hybrid!Mode(r), r)
                                      \/ Hybrid!Mode(r) \in failing \/ tx.is_shutdown)
               THEN lost[r] \union {n} ELSE lost[r]]
  BY <1>2 DEF Hybrid!Transmit
<1> DEFINE modes == IF tx.is_shutdown THEN {} ELSE tx.enabled \ failing
           Reached(r) == /\ Hybrid!Related(r) /\ rx[r].subscribed /\ Hybrid!Mode(r) \in modes
                         /\ Hybrid!Reaches(Hybrid!Mode(r), r)
<1>4. /\ writing = {w} /\ writing' = {} /\ pairing' = pairing
      /\ n \in Nat /\ S \in Nat /\ n = S + 1 /\ n = tx.seq_num_
  BY <1>1, <1>2, <1>3 DEF WriterIsNext, Hybrid!Sent, TxRec
<1>5. PICK hist : hist = IF Hybrid!InitHistory THEN Hybrid!HistoryAdd(tx.history_, n) ELSE tx.history_
  OBVIOUS
<1>6. hist \in Seq(Nat) /\ (Hybrid!InitHistory => EndsWith(hist, n))
  <2>1. tx.history_ \in Seq(Nat) /\ (Hybrid!InitHistory => EndsWith(tx.history_, S))
    BY <1>1, <1>2 DEF TxRec, HybridInv, HistoryIsLast
  <2> QED
    BY <1>4, <1>5, <2>1, HistoryAddIsLast
<1> DEFINE x == [tx EXCEPT !.history_ = hist]
<1>7. tx' = x
  BY <1>3, <1>5
<1>8. /\ x \in TxRec /\ x.seq_num_ = tx.seq_num_ /\ x.info = tx.info /\ x.enabled = tx.enabled
      /\ x.receivers_ = tx.receivers_ /\ x.history_ = hist
      /\ x.is_shutdown = tx.is_shutdown /\ x.jobs = tx.jobs /\ x.owed = tx.owed
      /\ x.since = tx.since
  BY <1>1, <1>6 DEF TxRec
<1> HIDE DEF x
<1>9. (Hybrid!Sent)' = n /\ WriterIsNext'
  BY <1>1, <1>4, <1>7, <1>8 DEF Hybrid!Sent, WriterIsNext
<1>10. HistoryIsLast'
  <2>1. hist = tx'.history_ /\ n = (Hybrid!Sent)'
    BY <1>7, <1>8, <1>9
  <2> QED
    BY <1>4, <1>6, <2>1 DEF HistoryIsLast, EndsWith, Hybrid!InitHistory, Hybrid!Depth
<1>11. ASSUME NEW r \in MCReaders
       PROVE  /\ lost'[r] \in SUBSET Nat /\ lost[r] \subseteq lost'[r]
              /\ Hybrid!Related(r) /\ (~Hybrid!Reaches(Hybrid!Mode(r), r)
                   \/ Hybrid!Mode(r) \in failing \/ tx.is_shutdown) => n \in lost'[r]
  BY <1>1, <1>3, <1>4
<1> HIDE DEF modes
\* What the receiver gets, is sent or misses.
<1>12. ASSUME NEW r \in MCReaders
       PROVE  LET X == rx[r]  Y == rx'[r] IN
              /\ Y \in RxRec /\ Y.listeners = X.listeners /\ Y.subscribed = X.subscribed
              /\ Y.window = X.window /\ Y.channel = X.channel /\ Y.heard = X.heard
              /\ \/ Y.got = X.got /\ Y.wire = X.wire /\ ~Reached(r)
                 \/ /\ Reached(r) /\ Hybrid!Mode(r) = "INTRA" /\ Y.wire = X.wire
                    /\ Len(Y.got) = Len(X.got) + X.listeners
                    /\ \A i \in 1 .. Len(X.got) : Y.got[i] = X.got[i]
                    /\ X.listeners = 1 => Y.got[Len(X.got) + 1] = n
                 \/ /\ Reached(r) /\ Hybrid!Mode(r) # "INTRA" /\ Y.got = X.got
                    /\ Y.wire = Append(X.wire, n)
  <2>1. /\ rx[r] \in RxRec /\ rx[r].got \in Seq(Nat) /\ rx[r].wire \in Seq(Nat)
        /\ rx[r].listeners \in {0, 1}
    BY <1>1 DEF RxRec
  <2>2. rx'[r] = IF ~Reached(r) THEN rx[r]
                 ELSE IF Hybrid!Mode(r) = "INTRA" THEN Hybrid!Called(rx[r], n)
                 ELSE Hybrid!OnItsWay(rx[r], n)
    BY <1>3 DEF modes
  <2> HIDE DEF Reached
  <2>3. CASE ~Reached(r)
    BY <2>1, <2>2, <2>3
  <2>4. CASE Reached(r) /\ Hybrid!Mode(r) = "INTRA"
    <3>1. PICK e : e = rx[r].got \o Hybrid!Copies(n, rx[r].listeners)
      OBVIOUS
    <3>2. PICK g \in Seq(Nat), k \in {0, 1} : g = rx[r].got /\ k = rx[r].listeners
      BY <2>1
    <3>3. /\ g \o Hybrid!Copies(n, k) \in Seq(Nat)
          /\ Len(g \o Hybrid!Copies(n, k)) = Len(g) + k
          /\ \A i \in 1 .. Len(g) : (g \o Hybrid!Copies(n, k))[i] = g[i]
          /\ k = 1 => (g \o Hybrid!Copies(n, k))[Len(g) + 1] = n
      BY <1>4, CopiesHave, Zenon
    <3>4. rx'[r] = [rx[r] EXCEPT !.got = e] /\ e = g \o Hybrid!Copies(n, k)
      BY <2>2, <2>4, <3>1, <3>2 DEF Hybrid!Called
    <3>5. /\ e \in Seq(Nat) /\ Len(e) = Len(g) + k
          /\ \A i \in 1 .. Len(g) : e[i] = g[i]
          /\ k = 1 => e[Len(g) + 1] = n
      BY <3>3, <3>4
    <3>6. /\ rx'[r] \in RxRec /\ rx'[r].listeners = k
          /\ rx'[r].subscribed = rx[r].subscribed /\ rx'[r].window = rx[r].window
          /\ rx'[r].channel = rx[r].channel /\ rx'[r].heard = rx[r].heard
          /\ rx'[r].wire = rx[r].wire /\ rx'[r].got = e
      BY <2>1, <3>2, <3>4, <3>5 DEF RxRec
    <3> QED
      BY <2>4, <3>2, <3>5, <3>6
  <2>5. CASE Reached(r) /\ Hybrid!Mode(r) # "INTRA"
    <3>1. PICK e : e = Append(rx[r].wire, n)
      OBVIOUS
    <3>2. e \in Seq(Nat)
      BY <1>4, <2>1, <3>1
    <3>3. rx'[r] = [rx[r] EXCEPT !.wire = e]
      BY <2>2, <2>5, <3>1 DEF Hybrid!OnItsWay
    <3>4. /\ rx'[r] \in RxRec /\ rx'[r].listeners = rx[r].listeners
          /\ rx'[r].subscribed = rx[r].subscribed /\ rx'[r].window = rx[r].window
          /\ rx'[r].channel = rx[r].channel /\ rx'[r].heard = rx[r].heard
          /\ rx'[r].wire = e /\ rx'[r].got = rx[r].got
      BY <2>1, <3>2, <3>3 DEF RxRec
    <3> QED
      BY <2>5, <3>1, <3>4
  <2> QED
    BY <2>3, <2>4, <2>5
<1> HIDE DEF Reached
<1>13. HybridTypes'
  <2>1. rx' \in [MCReaders -> RxRec]
    <3>1. \A r \in MCReaders : rx'[r] \in RxRec
      BY <1>12
    <3>2. DOMAIN rx' = MCReaders /\ rx' = [r \in MCReaders |-> rx'[r]]
      BY <1>3
    <3> QED
      BY <3>1, <3>2
  <2>2. lost' \in [MCReaders -> SUBSET Nat]
    <3>1. \A r \in MCReaders : lost'[r] \in SUBSET Nat
      BY <1>11
    <3>2. lost' = [r \in MCReaders |-> lost'[r]]
      BY <1>3
    <3> QED
      BY <3>1, <3>2
  <2> QED
    BY <1>1, <1>4, <1>7, <1>8, <2>1, <2>2 DEF HybridTypes
<1>14. ASSUME NEW r \in MCReaders PROVE OwedAreJoined(r)' /\ SubscribedListen(r)'
  <2>1. OwedAreJoined(r) /\ SubscribedListen(r)
    BY <1>1 DEF PairInv
  <2>2. rx'[r].listeners = rx[r].listeners /\ rx'[r].subscribed = rx[r].subscribed
    BY <1>12
  <2> QED
    BY <1>4, <1>7, <1>8, <2>1, <2>2
       DEF OwedAreJoined, SubscribedListen, Hybrid!Related, Hybrid!Mode
<1>15. ASSUME NEW r \in MCReaders PROVE LiveIsOrdered(r)'
  <2>1. PICK g, s, k : g = rx[r].got /\ s = rx[r].wire /\ k = rx[r].listeners
    OBVIOUS
  <2>2. PICK e, f : e = rx'[r].got /\ f = rx'[r].wire
    OBVIOUS
  <2>3. /\ g \in Seq(Nat) /\ s \in Seq(Nat) /\ k \in {0, 1} /\ e \in Seq(Nat) /\ f \in Seq(Nat)
    <3>1. rx[r] \in RxRec /\ rx'[r] \in RxRec
      BY <1>1, <1>12
    <3> QED
      BY <2>1, <2>2, <3>1 DEF RxRec
  <2>4. /\ Increases(g) /\ Increases(s)
        /\ \A i \in 1 .. Len(g), j \in 1 .. Len(s) : g[i] < s[j]
        /\ \A i \in 1 .. Len(g) : g[i] \in Nat /\ g[i] < n
        /\ \A i \in 1 .. Len(s) : s[i] \in Nat /\ s[i] < n
        /\ Hybrid!Related(r) /\ Hybrid!Mode(r) = "INTRA" => s = <<>>
    <3>1. /\ Increases(g) /\ Increases(s)
          /\ \A i \in 1 .. Len(g), j \in 1 .. Len(s) : g[i] < s[j]
          /\ UpTo(g, S) /\ UpTo(s, S)
          /\ Hybrid!Related(r) /\ Hybrid!Mode(r) = "INTRA" => s = <<>>
      BY <1>1, <1>2, <2>1 DEF PairInv, LiveIsOrdered
    <3>2. /\ \A i \in 1 .. Len(g) : g[i] \in Nat /\ g[i] <= S
          /\ \A i \in 1 .. Len(s) : s[i] \in Nat /\ s[i] <= S
      BY <2>3, <3>1 DEF UpTo
    <3>3. \A i \in Nat : i <= S => i < n
      BY <1>4
    <3> QED
      BY <3>1, <3>2, <3>3
  <2>5. UpTo(g, n) /\ UpTo(s, n)
    BY <1>4, <2>4 DEF UpTo
  <2>6. SUFFICES /\ Increases(e) /\ Increases(f) /\ UpTo(e, n) /\ UpTo(f, n)
                 /\ \A i \in 1 .. Len(e), j \in 1 .. Len(f) : e[i] < f[j]
                 /\ Hybrid!Related(r) /\ Hybrid!Mode(r) = "INTRA" => f = <<>>
    BY <1>4, <1>9, <2>2 DEF LiveIsOrdered, Increases, UpTo, Hybrid!Related, Hybrid!Mode
  <2>7. CASE e = g /\ f = s
    BY <2>4, <2>5, <2>7
  <2>8. CASE /\ Reached(r) /\ Hybrid!Mode(r) = "INTRA" /\ f = s /\ Len(e) = Len(g) + k
             /\ \A i \in 1 .. Len(g) : e[i] = g[i]
             /\ k = 1 => e[Len(g) + 1] = n
    <3>1. f = <<>> /\ \A j : j \notin 1 .. Len(f)
      BY <2>4, <2>8 DEF Reached
    <3>2. CASE k = 1
      BY <1>4, <2>3, <2>4, <2>5, <2>8, <3>1, <3>2, IncreasesByOne
    <3>3. CASE k = 0
      <4>1. Len(e) = Len(g)
        BY <2>3, <2>8, <3>3
      <4>2. e = g
        BY <2>3, <2>8, <4>1, SeqEqual
      <4> QED
        BY <2>4, <2>5, <2>8, <3>1, <4>2
    <3> QED
      BY <2>3, <3>2, <3>3
  <2>9. CASE Reached(r) /\ Hybrid!Mode(r) # "INTRA" /\ e = g /\ f = Append(s, n)
    <3>1. /\ Len(f) = Len(s) + 1 /\ f[Len(s) + 1] = n /\ \A i \in 1 .. Len(s) : f[i] = s[i]
          /\ \A i \in 1 .. Len(f) : i \in 1 .. Len(s) \/ i = Len(s) + 1
      BY <1>4, <2>3, <2>9
    <3>2. Increases(f) /\ UpTo(f, n)
      BY <1>4, <2>3, <2>4, <3>1, IncreasesByOne
    <3>3. \A i \in 1 .. Len(g), j \in 1 .. Len(f) : g[i] < f[j]
      BY <2>4, <3>1
    <3> QED
      BY <2>4, <2>5, <2>9, <3>2, <3>3
  <2>10. \/ e = g /\ f = s
         \/ /\ Reached(r) /\ Hybrid!Mode(r) = "INTRA" /\ f = s /\ Len(e) = Len(g) + k
            /\ \A i \in 1 .. Len(g) : e[i] = g[i]
            /\ k = 1 => e[Len(g) + 1] = n
         \/ Reached(r) /\ Hybrid!Mode(r) # "INTRA" /\ e = g /\ f = Append(s, n)
    BY <1>12, <2>1, <2>2
  <2> QED
    BY <2>7, <2>8, <2>9, <2>10
<1>16. ASSUME NEW r \in MCReaders PROVE OwedArrive(r)'
  <2>1. /\ rx[r].got \in Seq(Nat) /\ rx[r].wire \in Seq(Nat) /\ OwedArrive(r) /\ OwedAreJoined(r)
        /\ rx[r].listeners \in {0, 1}
    BY <1>1 DEF RxRec, PairInv
  <2>2. \A i : (Has(rx[r].got, i) => Has(rx'[r].got, i)) /\ (Has(rx[r].wire, i) => Has(rx'[r].wire, i))
    <3>1. CASE rx'[r].got = rx[r].got /\ rx'[r].wire = rx[r].wire
      BY <3>1
    <3>2. CASE /\ rx'[r].wire = rx[r].wire /\ Len(rx'[r].got) = Len(rx[r].got) + rx[r].listeners
               /\ \A i \in 1 .. Len(rx[r].got) : rx'[r].got[i] = rx[r].got[i]
      <4>1. \A i \in 1 .. Len(rx[r].got) : i \in 1 .. Len(rx'[r].got)
        BY <2>1, <3>2
      <4> QED
        BY <3>2, <4>1 DEF Has, Listening!Contains
    <3>3. CASE rx'[r].got = rx[r].got /\ rx'[r].wire = Append(rx[r].wire, n)
      <4>1. \A i : Has(rx[r].wire, i) => Has(Append(rx[r].wire, n), i)
        BY <1>4, <2>1, AppendHas
      <4> QED
        BY <3>3, <4>1
    <3> QED
      BY <1>12, <3>1, <3>2, <3>3
  <2>3. \A i : (Live(r, i) => Live(r, i)') /\ (ComingAgain(r, i) => ComingAgain(r, i)')
    BY <1>7, <1>8, <1>11, <1>12, <2>2 DEF Live, ComingAgain
  <2>4. ASSUME tx.owed[r] > 0 PROVE Live(r, n)'
    <3>1. CASE Reached(r) /\ Hybrid!Mode(r) = "INTRA"
      <4>1. /\ Len(rx'[r].got) = Len(rx[r].got) + 1 /\ rx'[r].got[Len(rx[r].got) + 1] = n
        BY <1>12, <2>1, <2>4, <3>1 DEF OwedAreJoined
      <4>2. Len(rx[r].got) + 1 \in 1 .. Len(rx'[r].got)
        BY <2>1, <4>1
      <4> QED
        BY <4>1, <4>2 DEF Live, Has, Listening!Contains
    <3>2. CASE Reached(r) /\ Hybrid!Mode(r) # "INTRA"
      <4>1. rx'[r].wire = Append(rx[r].wire, n)
        BY <1>12, <3>2
      <4>2. Has(rx'[r].wire, n)
        BY <1>4, <2>1, <4>1, AppendHas
      <4> QED
        BY <4>2 DEF Live
    <3>3. CASE ~Reached(r)
      <4>1. /\ Hybrid!Related(r) /\ rx[r].subscribed
            /\ Hybrid!Mode(r) \in tx.enabled \/ tx.is_shutdown
        BY <2>1, <2>4 DEF OwedAreJoined
      <4>2. \/ ~Hybrid!Reaches(Hybrid!Mode(r), r) \/ Hybrid!Mode(r) \in failing \/ tx.is_shutdown
        BY <3>3, <4>1 DEF Reached, modes
      <4> QED
        BY <1>11, <4>1, <4>2 DEF Live
    <3> QED
      BY <3>1, <3>2, <3>3
  <2>5. \A i : Live(r, i)' => ComingAgain(r, i)'
    BY DEF ComingAgain
  <2>6. tx.owed[r] \in Nat /\ tx.since[r] \in Nat
    BY <1>1 DEF TxRec
  <2>7. \A k \in Nat : \A i \in k .. n : i \in k .. S \/ i = n
    BY <1>4
  <2>8. ASSUME tx.owed[r] > 0
        PROVE  /\ \A i \in tx.owed[r] .. n : Live(r, i)'
               /\ rx[r].window # "closed" => \A i \in tx.since[r] .. n : ComingAgain(r, i)'
    <3>1. /\ \A i \in tx.owed[r] .. S : Live(r, i)
          /\ rx[r].window # "closed" => \A i \in tx.since[r] .. S : ComingAgain(r, i)
      BY <1>2, <2>1, <2>8 DEF OwedArrive
    <3> QED
      BY <2>3, <2>4, <2>5, <2>6, <2>7, <2>8, <3>1
  <2>9. rx'[r].window = rx[r].window
    BY <1>12
  <2> QED
    BY <1>7, <1>8, <1>9, <2>8, <2>9 DEF OwedArrive
<1> QED
  BY <1>9, <1>10, <1>13, <1>14, <1>15, <1>16 DEF HybridInv, PairInv

LEMMA HybridStep ==
  ASSUME HybridInv, Hybrid!HybridNext
  PROVE  HybridInv'
<1>1. CASE Hybrid!EnableAll \/ Hybrid!DisableAll \/ Hybrid!Shutdown
  BY <1>1, ManyModesSteps
<1>2. CASE \E t \in {w} : Hybrid!NextSeqNum(t) \/ Hybrid!Transmit(t)
  BY <1>2, NextSeqNumStep, TransmitStep
<1>3. ASSUME NEW r \in MCReaders,
             \/ Hybrid!EnableTo(r) \/ Hybrid!DisableTo(r) \/ Hybrid!SendHistory(r)
             \/ Hybrid!EnableFrom(r) \/ Hybrid!DisableFrom(r) \/ Hybrid!OnNewMessage(r)
             \/ Hybrid!OpenWindow(r) \/ Hybrid!HearHistory(r) \/ Hybrid!SleepWindow(r)
      PROVE  HybridInv'
  BY <1>3, EnableToStep, DisableToStep, SendHistoryStep, EnableFromStep, DisableFromStep,
     OnNewMessageStep, WindowSteps
<1> QED
  BY <1>1, <1>2, <1>3 DEF Hybrid!HybridNext

LEMMA HybridStart ==
  ASSUME Hybrid!HybridInit
  PROVE  HybridInv
<1>1. /\ tx = [seq_num_ |-> 0, info |-> 0, enabled |-> {},
               receivers_ |-> [m \in Hybrid!Modes |-> {}], history_ |-> <<>>, is_shutdown |-> FALSE,
               jobs |-> [r \in MCReaders |-> <<>>], joins |-> 0,
               owed |-> [r \in MCReaders |-> 0], since |-> [r \in MCReaders |-> 0]]
      /\ writing = {} /\ lost = [r \in MCReaders |-> {}]
      /\ rx = [r \in MCReaders |-> [listeners |-> 0, wire |-> <<>>, got |-> <<>>,
                subscribed |-> FALSE, window |-> "closed", is_msg_arrived |-> FALSE,
                channel |-> <<>>, heard |-> {}]]
      /\ pairing.table \in Hybrid!MappingTables
      /\ pairing.relation \in [MCReaders -> Hybrid!Relations \union {"NO_RELATION"}]
  BY DEF Hybrid!HybridInit, Hybrid!Nobody
<1>2. pairing.table \in [Hybrid!Relations -> Hybrid!Modes]
  <2>1. Hybrid!InitMode \in [Hybrid!Relations -> Hybrid!Modes]
    BY DEF Hybrid!InitMode, Hybrid!Relations, Hybrid!Modes
  <2>2. \A m \in {"RTPS"} : [x \in Hybrid!Relations |-> m] \in [Hybrid!Relations -> Hybrid!Modes]
    BY DEF Hybrid!Modes
  <2> QED
    BY <1>1, <2>1, <2>2 DEF Hybrid!MappingTables
<1>3. tx \in TxRec
  BY <1>1 DEF TxRec
<1>4. /\ rx \in [MCReaders -> RxRec]
      /\ \A r \in MCReaders : rx[r].got = <<>> /\ rx[r].wire = <<>> /\ rx[r].listeners = 0
  BY <1>1 DEF RxRec
<1>5. HybridTypes
  BY <1>1, <1>2, <1>3, <1>4 DEF HybridTypes
<1>6. WriterIsNext /\ Hybrid!Sent = 0
  BY <1>1 DEF WriterIsNext, Hybrid!Sent
<1>7. HistoryIsLast
  <2>1. tx.history_ = <<>> /\ Hybrid!Depth \in Nat
    BY <1>1, HybridBounds
  <2> QED
    BY <1>6, <2>1 DEF HistoryIsLast, EndsWith
<1>8. ASSUME NEW r \in MCReaders PROVE PairInv(r)
  <2>1. tx.owed[r] = 0
    BY <1>1
  <2>2. LiveIsOrdered(r)
    BY <1>4 DEF LiveIsOrdered, Increases, UpTo
  <2>3. OwedAreJoined(r) /\ SubscribedListen(r) /\ OwedArrive(r)
    BY <1>4, <2>1 DEF OwedAreJoined, SubscribedListen, OwedArrive
  <2> QED
    BY <2>2, <2>3 DEF PairInv
<1> QED
  BY <1>5, <1>6, <1>7, <1>8 DEF HybridInv

LEMMA HybridMeets == HybridInv => HybridDelivers
<1> SUFFICES ASSUME HybridInv, NEW r \in MCReaders
             PROVE  /\ LET s == rx[r].got \o rx[r].wire IN \A i \in 1 .. Len(s) - 1 : s[i] < s[i + 1]
                    /\ tx.owed[r] > 0 =>
                         /\ tx.owed[r] .. Hybrid!Sent \subseteq
                              Hybrid!ToSet(rx[r].got) \union Hybrid!ToSet(rx[r].wire) \union lost[r]
                         /\ rx[r].window # "closed" =>
                              tx.since[r] .. Hybrid!Sent \subseteq Hybrid!Coming(r)
  BY DEF HybridDelivers, Hybrid!LiveOnceInOrder, Hybrid!JoinedMissesNothing
<1>1. /\ rx[r] \in RxRec /\ tx \in TxRec /\ LiveIsOrdered(r) /\ OwedArrive(r)
      /\ rx[r].got \in Seq(Nat) /\ rx[r].wire \in Seq(Nat) /\ rx[r].channel \in Seq(Nat)
      /\ tx.jobs[r] \in Seq(Jobs)
  BY DEF HybridInv, HybridTypes, PairInv, RxRec, TxRec
<1>2. PICK g, q : g = rx[r].got /\ q = rx[r].wire
  OBVIOUS
<1>3. PICK s : s = g \o q
  OBVIOUS
<1>4. ASSUME NEW i \in 1 .. Len(s) - 1 PROVE s[i] < s[i + 1]
  <2>1. /\ g \in Seq(Nat) /\ q \in Seq(Nat) /\ Len(g) \in Nat /\ Len(q) \in Nat
    BY <1>1, <1>2
  <2>2. /\ Len(s) = Len(g) + Len(q)
        /\ \A k \in 1 .. Len(g) + Len(q) : s[k] = IF k <= Len(g) THEN g[k] ELSE q[k - Len(g)]
    BY <1>3, <2>1, ConcatProperties
  <2>3. /\ \A k, l \in 1 .. Len(g) : k < l => g[k] < g[l]
        /\ \A k, l \in 1 .. Len(q) : k < l => q[k] < q[l]
        /\ \A k \in 1 .. Len(g), l \in 1 .. Len(q) : g[k] < q[l]
    BY <1>1, <1>2 DEF LiveIsOrdered, Increases
  <2>4. i \in 1 .. Len(g) + Len(q) /\ i + 1 \in 1 .. Len(g) + Len(q)
    BY <2>1, <2>2
  <2>5. CASE i + 1 <= Len(g)
    <3>1. i \in 1 .. Len(g) /\ i + 1 \in 1 .. Len(g) /\ i < i + 1 /\ i <= Len(g)
      BY <2>1, <2>4, <2>5
    <3> QED
      BY <2>2, <2>3, <2>4, <3>1
  <2>6. CASE i = Len(g)
    <3>1. /\ i \in 1 .. Len(g) /\ i <= Len(g) /\ ~(i + 1 <= Len(g)) /\ i + 1 - Len(g) = 1
          /\ 1 \in 1 .. Len(q)
      BY <2>1, <2>4, <2>6
    <3>2. s[i] = g[i] /\ s[i + 1] = q[i + 1 - Len(g)]
      BY <2>2, <2>4, <3>1
    <3> QED
      BY <2>3, <3>1, <3>2
  <2>7. CASE i > Len(g)
    <3>1. /\ i - Len(g) \in 1 .. Len(q) /\ i + 1 - Len(g) \in 1 .. Len(q)
          /\ i - Len(g) < i + 1 - Len(g) /\ ~(i <= Len(g)) /\ ~(i + 1 <= Len(g))
      BY <2>1, <2>4, <2>7
    <3>2. s[i] = q[i - Len(g)] /\ s[i + 1] = q[i + 1 - Len(g)]
      BY <2>2, <2>4, <3>1
    <3> QED
      BY <2>3, <3>1, <3>2
  <2> QED
    BY <2>1, <2>4, <2>5, <2>6, <2>7
<1>5. \A n : /\ Has(rx[r].got, n) => n \in Hybrid!ToSet(rx[r].got)
             /\ Has(rx[r].wire, n) => n \in Hybrid!ToSet(rx[r].wire)
             /\ Has(rx[r].channel, n) => n \in Hybrid!ToSet(rx[r].channel)
  BY <1>1 DEF Hybrid!ToSet, Has, Listening!Contains
<1>6. ASSUME NEW n, InJobs(tx.jobs[r], n)
      PROVE  n \in UNION {Hybrid!ToSet(tx.jobs[r][i]) : i \in DOMAIN tx.jobs[r]}
  <2>1. PICK i \in 1 .. Len(tx.jobs[r]) : Has(tx.jobs[r][i], n)
    BY <1>6 DEF InJobs
  <2>2. tx.jobs[r][i] \in Seq(Nat) /\ i \in DOMAIN tx.jobs[r]
    BY <1>1 DEF Jobs
  <2>3. n \in Hybrid!ToSet(tx.jobs[r][i])
    BY <2>1, <2>2 DEF Hybrid!ToSet, Has, Listening!Contains
  <2> QED
    BY <2>2, <2>3
<1>7. \A n : Live(r, n) => n \in Hybrid!ToSet(rx[r].got) \union Hybrid!ToSet(rx[r].wire) \union lost[r]
  BY <1>5 DEF Live
<1>8. \A n : ComingAgain(r, n) => n \in Hybrid!Coming(r)
  <2> SUFFICES ASSUME NEW n, ComingAgain(r, n) PROVE n \in Hybrid!Coming(r)
    OBVIOUS
  <2>1. CASE Live(r, n)
    BY <1>7, <2>1 DEF Hybrid!Coming
  <2>2. CASE InJobs(tx.jobs[r], n)
    BY <1>6, <2>2 DEF Hybrid!Coming
  <2>3. CASE Has(rx[r].channel, n) \/ n \in rx[r].heard
    BY <1>5, <2>3 DEF Hybrid!Coming
  <2> QED
    BY <2>1, <2>2, <2>3 DEF ComingAgain
<1> QED
  BY <1>1, <1>2, <1>3, <1>4, <1>7, <1>8 DEF OwedArrive

-----------------------------------------------------------------------------
(* The parts together.                                                     *)

TransportInv == MulticastInv /\ OpeningInv /\ ListenerInv /\ HybridInv
transportVars == <<segmentAll, multicastAll, listenersAll, hybridAll, openingAll, subject>>

LEMMA UntouchedParts ==
  /\ MulticastInv /\ UNCHANGED multicastAll => MulticastInv'
  /\ OpeningInv /\ UNCHANGED openingAll => OpeningInv'
  /\ ListenerInv /\ UNCHANGED listenersAll => ListenerInv'
  /\ HybridInv /\ UNCHANGED hybridAll => HybridInv'
<1>1. MulticastInv /\ UNCHANGED multicastAll => MulticastInv'
  BY DEF multicastAll, MulticastInv, Multicast!HeardIsLocal
<1>2. OpeningInv /\ UNCHANGED openingAll => OpeningInv'
  BY DEF openingAll, OpeningInv, OpeningTypes, SegmentsAreShared, NothingIsSkipped, Covered
<1>3. ListenerInv /\ UNCHANGED listenersAll => ListenerInv'
  <2> SUFFICES ASSUME ListenerInv, UNCHANGED listenersAll PROVE ListenerInv'
    OBVIOUS
  <2>1. ListenerTypes' /\ ListenersAreThere' /\ HandlersAreFresh' /\ SlotsAreOwned'
    BY DEF listenersAll, ListenerInv, ListenerTypes, ListenersAreThere, HandlersAreFresh, Made,
           SlotsAreOwned
  <2>2. RunsAreOwed' /\ RunsAreLocal'
    BY DEF listenersAll, ListenerInv, RunsAreOwed, RunsAreLocal, OwedAreComing, CallsAreLocal
  <2> QED
    BY <2>1, <2>2 DEF ListenerInv
<1>4. HybridInv /\ UNCHANGED hybridAll => HybridInv'
  <2> SUFFICES ASSUME HybridInv, UNCHANGED hybridAll PROVE HybridInv'
    OBVIOUS
  <2>1. (Hybrid!Sent)' = Hybrid!Sent
    BY DEF hybridAll, Hybrid!Sent
  <2>2. HybridTypes' /\ WriterIsNext' /\ HistoryIsLast'
    BY <2>1, HistoryKeeps DEF hybridAll, HybridInv, HybridTypes, WriterIsNext
  <2>3. ASSUME NEW r \in MCReaders PROVE PairInv(r)'
    <3>1. OwedAreJoined(r)'
      BY DEF hybridAll, HybridInv, PairInv, OwedAreJoined, Hybrid!Related, Hybrid!Mode
    <3> QED
      BY <2>1, <3>1, PairKeeps DEF hybridAll
  <2> QED
    BY <2>2, <2>3 DEF HybridInv
<1> QED
  BY <1>1, <1>2, <1>3, <1>4

\* The invariant that carries the theorems below.
THEOREM TransportInvariant == TransportSpec => []TransportInv
<1>1. TransportInit => TransportInv
  BY MulticastStart, OpeningStart, ListenerStart, HybridStart DEF TransportInit, TransportInv
<1>2. TransportInv /\ [TransportNext]_transportVars => TransportInv'
  <2> SUFFICES ASSUME TransportInv, [TransportNext]_transportVars PROVE TransportInv'
    OBVIOUS
  <2>1. CASE Multicast!MulticastNext /\ UNCHANGED <<listenersAll, hybridAll, openingAll>>
    BY <2>1, MulticastStep, UntouchedParts DEF TransportInv
  <2>2. CASE Listening!ListenerNext /\ UNCHANGED <<multicastAll, hybridAll, openingAll>>
    BY <2>2, ListenerStep, UntouchedParts DEF TransportInv
  <2>3. CASE Hybrid!HybridNext /\ UNCHANGED <<multicastAll, listenersAll, openingAll>>
    BY <2>3, HybridStep, UntouchedParts DEF TransportInv
  <2>4. CASE Opening!OpeningNext /\ UNCHANGED <<multicastAll, listenersAll, hybridAll>>
    BY <2>4, OpeningStep, UntouchedParts DEF TransportInv
  <2>5. CASE UNCHANGED <<multicastAll, listenersAll, hybridAll, openingAll>>
    BY <2>5, UntouchedParts DEF TransportInv
  <2> QED
    BY <2>1, <2>2, <2>3, <2>4, <2>5 DEF TransportNext, transportVars
<1> QED
  BY <1>1, <1>2, PTL DEF TransportSpec, transportVars

\* MulticastNotifier and NotifierSegment: whatever the socket brings, the
\* dispatcher reads blocks of its own host only, and a listener of a condition
\* notifier waits for no number that nobody will write.
THEOREM NotifiersSafety == TransportSpec => []NotifiersAreSound
<1>1. TransportInv => NotifiersAreSound
  BY OpeningMeets DEF TransportInv, MulticastInv, NotifiersAreSound
<1> QED
  BY <1>1, TransportInvariant, PTL

\* ListenerHandler::Run and Disconnect: with any number of receivers and
\* dispatching threads, a listener that is there and stays hears the message,
\* and one that was removed is not called again.
THEOREM ListenersSafety == TransportSpec => []ListenersAreExact
<1>1. TransportInv => ListenersAreExact
  BY ListenerExact DEF TransportInv
<1> QED
  BY <1>1, TransportInvariant, PTL

\* HybridTransmitter::Transmit and HybridReceiver: with one writing thread a
\* receiver gets each message at most once and in order, and from the moment
\* both ends have enabled each other it misses none; any depth of history.
THEOREM HybridSafety == TransportSpec => []HybridDelivers
<1>1. TransportInv => HybridDelivers
  BY HybridMeets DEF TransportInv
<1> QED
  BY <1>1, TransportInvariant, PTL

\* What holds of the segments alone holds of them in the transport.
THEOREM TransportHasSegments == TransportSpec => MCSpec
<1>1. TransportInit => MCInit
  BY DEF TransportInit
<1>2. [TransportNext]_transportVars => [MCNext]_<<vars, active>>
  BY DEF TransportNext, transportVars, segmentAll
<1> QED
  BY <1>1, <1>2, PTL DEF TransportSpec, transportVars, MCSpec
=============================================================================
