---------------------------- MODULE MCTokenBucket ----------------------------
(* Instances of TokenBucket for TLC. *)
EXTENDS TokenBucket, TLC

CONSTANTS c1, c2, c3

OneTokenASecond == {[bucketSize |-> 1, refillPerSecond |-> 1]}

Symmetry == Permutations(Clients)
=============================================================================
