----------------------------- MODULE MCSdsChannel -----------------------------
(***************************************************************************)
(* Instances of SdsChannel for TLC.                                        *)
(***************************************************************************)
EXTENDS SdsChannel, TLC

\* A filter without false positives: every id has a bit of its own.
ExactBits == MessageId
ExactBitsOf(id) == {id}

\* A filter with false positives: payloads are numbers, two bits per id, and the bits of two ids cover
\* those of a third.
SharedBits == 0..2
SharedBitsOf(id) == {id[2] % 3, (id[2] + 1) % 3}

PeerSymmetry == Permutations(Peers)
Symmetry == Permutations(Peers) \cup Permutations(Payloads)
===============================================================================
