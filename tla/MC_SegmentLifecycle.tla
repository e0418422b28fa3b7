------------------------ MODULE MC_SegmentLifecycle ------------------------
(***************************************************************************)
(* SegmentLifecycle for a few small groups of processes.  A behaviour is   *)
(* about one group; the processes of the others never start.               *)
(***************************************************************************)
EXTENDS SegmentLifecycle, TLC

CONSTANTS
  Groups,            \* sets of processes, one of which is active
  MCWriters, MCReaders

ASSUME GroupsAssumption == \A g \in Groups : g \subseteq Processes /\ IsFiniteSet(g)

VARIABLE active

\* Three ceilings; the larger the messages, the fewer the blocks.
MCClasses == 1 .. 3
MCBlockNum == [c \in MCClasses |-> 4 - c]

\* With a third process the readers only read block 0, which every class has;
\* the pairs have the index that is refused as well.
IndexesRead == IF Cardinality(active) > 2 THEN noted \intersect {0} ELSE noted

MCInit == Init /\ active \in Groups
MCNext ==
  /\ UNCHANGED active
  /\ \/ \E p \in active : ProcessStep(p)
     \/ \E p \in active \intersect Writers, size \in Classes :
          AcquireBlockToWrite(p, size)
     \/ \E p \in active \intersect Readers : \E i \in IndexesRead :
          AcquireBlockToRead(p, i)

MCSpec == MCInit /\ [][MCNext]_<<vars, active>>

RoleSymmetry == Permutations(MCWriters) \union Permutations(MCReaders)

-----------------------------------------------------------------------------
OneWriter == Cardinality(active \intersect Writers) = 1
NobodyLeaves == active \intersect Leavers = {}

(***************************************************************************)
(* Every process lays out the blocks of the segment it has mapped, within  *)
(* its size (MappedWithin).  With one writer, whoever comes and goes,      *)
(* Recreate() yields a segment the message fits in and is never reached    *)
(* after a failed Remap(), which leaves no State to mark.  (Two writers    *)
(* that enlarge at once can meet both: one opens the smaller segment of    *)
(* the other.)                                                             *)
(***************************************************************************)
LayoutIsSound == TypeOK /\ MappedWithin
SoleWriterIsSafe == OneWriter => WriteFits /\ NeverCrashes

(***************************************************************************)
(* With a single writer that stays, every enlargement reaches the readers: *)
(* whoever is attached to an abandoned segment has been asked to remap.    *)
(***************************************************************************)
ReadersAreTold == OneWriter /\ NobodyLeaves => StaleIsMarked
=============================================================================
