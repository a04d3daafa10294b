------------------------ MODULE TcSequenceAllocator ------------------------
(***************************************************************************)
(* The transactional core of gds/sequence.py: the durable Space Packet     *)
(* sequence counter the GDS keeps for one (spacecraft instance, APID)      *)
(* pair.  An allocator is the pair [next, epoch]; next = SeqModulus is the *)
(* persisted "rollover is due" value, so the counter takes SeqModulus + 1  *)
(* values although packets only carry 0 .. SeqModulus - 1.                 *)
(***************************************************************************)
EXTENDS Integers

CONSTANTS
    SeqModulus,     \* SPACE_PACKET_SEQUENCE_MODULUS (16384 in the code)
    MaxEpoch        \* MAX_U32, the last sequence epoch

ASSUME SeqModulusAssumption == SeqModulus \in Nat \ {0}
ASSUME MaxEpochAssumption == MaxEpoch \in Nat

Allocator == [next : 0 .. SeqModulus, epoch : 0 .. MaxEpoch]

\* The row allocate_in_transaction inserts when none exists yet.
FreshAllocator == [next |-> 0, epoch |-> 0]

\* The counter is parked past the last sequence: the next packet rolls over.
Rollover(a) == a.next = SeqModulus

\* SequenceAllocatorError: the epoch cannot be advanced any more.
Exhausted(a) == Rollover(a) /\ a.epoch = MaxEpoch

\* Mutant of Allocated: a rollover stays in its epoch.
AllocatedSameEpoch(a) ==
    [sequence |-> IF Rollover(a) THEN 0 ELSE a.next, epoch |-> a.epoch]

\* The sequence count and the epoch handed out by one allocation.
Allocated(a) ==
    [sequence |-> IF Rollover(a) THEN 0 ELSE a.next,
     epoch    |-> IF Rollover(a) THEN a.epoch + 1 ELSE a.epoch]

\* The allocator row after that allocation.
AfterAllocate(a) ==
    [next  |-> IF Rollover(a) THEN 1 ELSE a.next + 1,
     epoch |-> IF Rollover(a) THEN a.epoch + 1 ELSE a.epoch]
=============================================================================
