------------------------------- MODULE SdsBloom -------------------------------
(***************************************************************************)
(* The deduplication filter of an SDS channel (sds/bloom.rs).              *)
(*                                                                         *)
(* A bloom filter remembers an id by setting the bits its hash functions   *)
(* select, and takes an id for seen when all of its bits are set.  BitsOf  *)
(* stands for the hash functions, so ids that share bits give the false    *)
(* positives of the real filter and ids with bits of their own give an     *)
(* exact filter.  The filter counts insertions (repetitions included) and  *)
(* forgets everything when the count reaches its capacity.                 *)
(***************************************************************************)
EXTENDS Integers

CONSTANTS
    Bits,       \* the positions of the bitmap
    BitsOf(_),  \* the bits the hash functions select for an id
    Capacity    \* insertions after which the filter is replaced by an empty one

ASSUME CapacityAssumption == Capacity \in Nat \ {0}

Filter == [bits : SUBSET Bits, count : Nat]

BloomNew == [bits |-> {}, count |-> 0]

BloomCheck(b, id) == BitsOf(id) \subseteq b.bits

\* The insertion that reaches the capacity also loses the id just inserted.
BloomResets(b) == b.count + 1 >= Capacity

BloomSet(b, id) ==
    IF BloomResets(b)
    THEN BloomNew
    ELSE [bits |-> b.bits \cup BitsOf(id), count |-> b.count + 1]

\* to_bytes and from_bytes: the bitmap travels with the parameters of the hash functions, which
\* all channels share; the count does not.
BloomToBytes(b) == b.bits
BloomFromBytes(data) == [bits |-> data, count |-> 0]
===============================================================================
