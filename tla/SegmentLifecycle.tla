-------------------------- MODULE SegmentLifecycle --------------------------
(***************************************************************************)
(* cyber/transport/shm/segment.cc, state.h, shm_conf.cc: how the processes *)
(* of one channel create, open, enlarge, remap and remove the System V     *)
(* segment behind their Segment objects.  A segment is a generation, the   *)
(* key names at most one of them; IPC_RMID frees the key and leaves those  *)
(* who are attached where they are.  Message and block sizes are the       *)
(* classes of ShmConf.                                                     *)
(***************************************************************************)
EXTENDS Integers, FiniteSets

CONSTANTS
  Writers, Readers,    \* Segment objects by ReadWriteMode, one per process
  Leavers,             \* those whose objects are destroyed (and made anew)
  Classes,             \* 1 .. n, the ceilings of ShmConf
  BlockNum,            \* block_num of each class
  MaxGen,              \* bound on the segments created
  MaxRef               \* bound on reference_count_

ASSUME SegmentAssumption ==
  /\ Leavers \subseteq Writers \union Readers
  /\ Writers \intersect Readers = {}
  /\ Classes \subseteq Nat \ {0} /\ 1 \in Classes
  /\ BlockNum \in [Classes -> Nat \ {0}]
  /\ MaxGen \in Nat /\ MaxRef \in Nat

Processes == Writers \union Readers
Gens == 1 .. MaxGen

VARIABLES
  key,                 \* generation the key names, 0 if none
  last,                \* generations created so far
  ceiling_msg_size_, need_remap_, reference_count_,  \* State, by generation
  init_, conf_, shm_,  \* Segment: shm_ is the generation mapped, 0 if none
  pc, ret, arg,        \* the call: size to write or index to read
  noted                \* block indexes transmitters have announced

stateVars == <<ceiling_msg_size_, need_remap_, reference_count_>>
objVars == <<init_, conf_, shm_>>
callVars == <<pc, ret, arg>>
vars == <<key, last, stateVars, objVars, callVars, noted>>

Init ==
  /\ key = 0 /\ last = 0
  /\ ceiling_msg_size_ = [g \in Gens |-> 0]
  /\ need_remap_ = [g \in Gens |-> FALSE]
  /\ reference_count_ = [g \in Gens |-> 0]
  /\ init_ = [p \in Processes |-> FALSE]
  /\ conf_ = [p \in Processes |-> 1]
  /\ shm_ = [p \in Processes |-> 0]
  /\ pc = [p \in Processes |-> "idle"]
  /\ ret = [p \in Processes |-> "idle"]
  /\ arg = [p \in Processes |-> 0]
  /\ noted = {}

\* ShmConf::Update: memory that is still zero counts as the smallest class.
Ceiling(size) == IF size = 0 THEN 1 ELSE size

Go(p, from, to) == pc[p] = from /\ pc' = [pc EXCEPT ![p] = to]

\* Where Init(), Remap() or Recreate() goes on if it fails: only a failed
\* Remap() of a writer does not end the call at once.
Failed(p) == IF ret[p] = "size" THEN "size" ELSE "idle"

-----------------------------------------------------------------------------
(* AcquireBlockToWrite() and AcquireBlockToRead().                         *)
Call(p, a, first, open) ==
  /\ Go(p, "idle", IF init_[p] THEN first ELSE open)
  /\ ret' = [ret EXCEPT ![p] = first]
  /\ arg' = [arg EXCEPT ![p] = a]
  /\ UNCHANGED <<key, last, stateVars, objVars, noted>>

AcquireBlockToWrite(p, size) == Call(p, size, "remap", "create")
AcquireBlockToRead(p, i) == i \in noted /\ Call(p, i, "index", "open")

\* The reader checks the index with the block_num it has.
CheckIndex(p) ==
  /\ Go(p, "index", IF arg[p] >= BlockNum[conf_[p]] THEN "idle" ELSE "remap")
  /\ UNCHANGED <<key, last, stateVars, objVars, ret, arg, noted>>

\* Remap(), if the State asks for it: forget the mapping, open again.
Remap(p) ==
  LET then == IF p \in Writers THEN "size" ELSE "access" IN
  /\ \/ /\ Go(p, "remap", then)
        /\ ~need_remap_[shm_[p]]
        /\ UNCHANGED <<objVars, ret>>
     \/ /\ Go(p, "remap", "open")
        /\ need_remap_[shm_[p]]
        /\ ret' = [ret EXCEPT ![p] = then]
        /\ init_' = [init_ EXCEPT ![p] = FALSE]
        /\ shm_' = [shm_ EXCEPT ![p] = 0]
        /\ UNCHANGED conf_
  /\ UNCHANGED <<key, last, stateVars, arg, noted>>

\* Fault: nobody is asked to remap.
FaultyCheckSize(p) ==
  /\ \/ /\ arg[p] <= conf_[p]
        /\ Go(p, "size", IF shm_[p] = 0 THEN "idle" ELSE "access")
        /\ UNCHANGED <<objVars, ret>>
     \/ /\ arg[p] > conf_[p] /\ shm_[p] # 0
        /\ Go(p, "size", "remove")
        /\ ret' = [ret EXCEPT ![p] = "access"]
        /\ conf_' = [conf_ EXCEPT ![p] = Ceiling(arg[p])]
        /\ init_' = [init_ EXCEPT ![p] = FALSE]
        /\ shm_' = [shm_ EXCEPT ![p] = 0]
  /\ UNCHANGED <<key, last, stateVars, arg, noted>>

\* Recreate() asks everybody to remap and goes on with Remove().
Recreate(p) ==
  /\ Go(p, "size", "remove")
  /\ init_' = [init_ EXCEPT ![p] = FALSE]
  /\ need_remap_' = [need_remap_ EXCEPT ![shm_[p]] = TRUE]
  /\ shm_' = [shm_ EXCEPT ![p] = 0]

\* A message larger than the ceiling.  After a failed Remap() there is no
\* State to write to.
CheckSize(p) ==
  /\ \/ /\ arg[p] <= conf_[p]
        /\ Go(p, "size", IF shm_[p] = 0 THEN "idle" ELSE "access")
        /\ UNCHANGED <<objVars, ret, need_remap_>>
     \/ /\ arg[p] > conf_[p] /\ shm_[p] # 0
        /\ Recreate(p)
        /\ ret' = [ret EXCEPT ![p] = "access"]
        /\ conf_' = [conf_ EXCEPT ![p] = Ceiling(arg[p])]
     \/ /\ arg[p] > conf_[p] /\ shm_[p] = 0
        /\ Go(p, "size", "crashed")
        /\ UNCHANGED <<objVars, ret, need_remap_>>
  /\ UNCHANGED <<key, last, ceiling_msg_size_, reference_count_, arg, noted>>

\* Fault: the key is left to the segment that is too small.
FaultyRemove(p) ==
  /\ Go(p, "remove", "create")
  /\ UNCHANGED <<key, last, stateVars, objVars, ret, arg, noted>>

\* Recreate() frees the key, whatever segment it names by now ...
Remove(p) ==
  /\ Go(p, "remove", "create")
  /\ key' = 0
  /\ UNCHANGED <<last, stateVars, objVars, ret, arg, noted>>

\* ... and creates, or (OpenOrCreate) opens what somebody else created.
Create(p) ==
  /\ \/ /\ key = 0 /\ last < MaxGen
        /\ Go(p, "create", "construct")
        /\ last' = last + 1
        /\ key' = last + 1
        /\ shm_' = [shm_ EXCEPT ![p] = last + 1]
     \/ /\ key # 0
        /\ Go(p, "create", "open")
        /\ UNCHANGED <<last, key, shm_>>
  /\ UNCHANGED <<stateVars, init_, conf_, ret, arg, noted>>

\* The constructors of State and Blocks.
Construct(p) ==
  /\ Go(p, "construct", ret[p])
  /\ ceiling_msg_size_' = [ceiling_msg_size_ EXCEPT ![shm_[p]] = conf_[p]]
  /\ need_remap_' = [need_remap_ EXCEPT ![shm_[p]] = FALSE]
  /\ reference_count_' = [reference_count_ EXCEPT ![shm_[p]] = 1]
  /\ init_' = [init_ EXCEPT ![p] = TRUE]
  /\ UNCHANGED <<key, last, conf_, shm_, ret, arg, noted>>

\* Fault: the caller's own configuration is kept.
KeepingOpenOnly(p) ==
  /\ \/ /\ key = 0
        /\ Go(p, "open", Failed(p))
        /\ UNCHANGED <<objVars, reference_count_>>
     \/ /\ key # 0 /\ reference_count_[key] < MaxRef
        /\ Go(p, "open", ret[p])
        /\ shm_' = [shm_ EXCEPT ![p] = key]
        /\ reference_count_' = [reference_count_ EXCEPT ![key] = @ + 1]
        /\ init_' = [init_ EXCEPT ![p] = TRUE]
        /\ UNCHANGED conf_
  /\ UNCHANGED <<key, last, ceiling_msg_size_, need_remap_, ret, arg, noted>>

\* What is there is opened, constructed or not.
OpenOnly(p) ==
  /\ \/ /\ key = 0
        /\ Go(p, "open", Failed(p))
        /\ UNCHANGED <<objVars, reference_count_>>
     \/ /\ key # 0 /\ reference_count_[key] < MaxRef
        /\ Go(p, "open", ret[p])
        /\ shm_' = [shm_ EXCEPT ![p] = key]
        /\ conf_' = [conf_ EXCEPT ![p] = Ceiling(ceiling_msg_size_[key])]
        /\ reference_count_' = [reference_count_ EXCEPT ![key] = @ + 1]
        /\ init_' = [init_ EXCEPT ![p] = TRUE]
  /\ UNCHANGED <<key, last, ceiling_msg_size_, need_remap_, ret, arg, noted>>

\* The block is used: a writer picks one and announces it, a reader takes
\* the announced one.
Access(p) ==
  /\ Go(p, "access", "idle")
  /\ \/ p \in Writers /\ \E i \in 0 .. BlockNum[conf_[p]] - 1 :
                           noted' = noted \union {i}
     \/ p \in Readers /\ UNCHANGED noted
  /\ UNCHANGED <<key, last, stateVars, objVars, ret, arg>>

\* ~Segment(): the last one out frees the key.
Destroy(p) ==
  /\ pc[p] = "idle" /\ init_[p] /\ p \in Leavers
  /\ init_' = [init_ EXCEPT ![p] = FALSE]
  /\ conf_' = [conf_ EXCEPT ![p] = 1]
  /\ shm_' = [shm_ EXCEPT ![p] = 0]
  /\ LET g == shm_[p]
         n == IF reference_count_[g] = 0 THEN 0 ELSE reference_count_[g] - 1
     IN  /\ reference_count_' = [reference_count_ EXCEPT ![g] = n]
         /\ key' = IF n = 0 THEN 0 ELSE key
  /\ UNCHANGED <<last, ceiling_msg_size_, need_remap_, callVars, noted>>

ProcessStep(p) ==
  \/ CheckIndex(p) \/ Remap(p) \/ CheckSize(p) \/ Remove(p) \/ Create(p)
  \/ Construct(p) \/ OpenOnly(p) \/ Access(p) \/ Destroy(p)

Next ==
  \/ \E p \in Processes : ProcessStep(p)
  \/ \E p \in Writers, size \in Classes : AcquireBlockToWrite(p, size)
  \/ \E p \in Readers : \E i \in noted : AcquireBlockToRead(p, i)

Spec == Init /\ [][Next]_vars

-----------------------------------------------------------------------------
TypeOK ==
  /\ key \in 0 .. last /\ last \in 0 .. MaxGen
  /\ ceiling_msg_size_ \in [Gens -> Classes \union {0}]
  /\ need_remap_ \in [Gens -> BOOLEAN]
  /\ reference_count_ \in [Gens -> Nat]
  /\ init_ \in [Processes -> BOOLEAN]
  /\ conf_ \in [Processes -> Classes]
  /\ shm_ \in [Processes -> 0 .. last]
  /\ \A p \in Processes : init_[p] => shm_[p] # 0
  /\ pc \in [Processes -> {"idle", "index", "remap", "size", "remove",
                           "create", "construct", "open", "access", "crashed"}]
  /\ ret \in [Processes -> {"idle", "index", "remap", "size", "access"}]
  /\ arg \in [Processes -> Nat]
  /\ noted \subseteq Nat

(***************************************************************************)
(* A message is only ever written to a block it fits in: whatever way the  *)
(* segment was obtained, its ceiling is not below the message size.        *)
(***************************************************************************)
WriteFits ==
  \A p \in Writers :
    pc[p] = "access" => arg[p] <= Ceiling(ceiling_msg_size_[shm_[p]])

\* Recreate() is not reached without a State (a failed Remap() has none).
NeverCrashes == \A p \in Processes : pc[p] # "crashed"

(***************************************************************************)
(* The layout an object computes its block addresses from (conf_, taken    *)
(* from the State by OpenOnly, or its own when it creates) never describes *)
(* more memory than the mapped segment has, even if it was opened between  *)
(* shmget() and the constructor of its State, or replaced a smaller one    *)
(* that another writer created meanwhile.                                  *)
(***************************************************************************)
MappedWithin ==
  \A p \in Processes :
    init_[p] => conf_[p] <= Ceiling(ceiling_msg_size_[shm_[p]])

(***************************************************************************)
(* Who is attached to a segment the key no longer names has been asked to  *)
(* remap: transmitters and dispatchers of a channel end up in one segment, *)
(* and what one writes the other can read.                                 *)
(***************************************************************************)
StaleIsMarked ==
  \A p \in Processes : init_[p] /\ shm_[p] # key => need_remap_[shm_[p]]

(***************************************************************************)
(* AcquireBlockToRead refuses an "invalid block_index": the block it locks *)
(* exists in the segment that is mapped.                                   *)
(***************************************************************************)
IndexInRange ==
  \A p \in Readers : pc[p] = "access" => arg[p] < BlockNum[conf_[p]]
=============================================================================
