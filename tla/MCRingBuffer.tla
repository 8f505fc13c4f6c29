---------------------------- MODULE MCRingBuffer ----------------------------
(* TLC instances of RingBuffer. *)
EXTENDS RingBuffer, TLC

(* Values are only copied and compared. *)
ValSymmetry == Permutations(Vals)
=============================================================================
