------------------------------ MODULE Positions ------------------------------
(***************************************************************************)
(* Some positions of a sequence, and the sequence of what stands at them:    *)
(* what Array.filter leaves of an array.                                    *)
(***************************************************************************)
EXTENDS Integers, Sequences, FiniteSets

(* The k-th of some positions.                                               *)
Nth(positions, k) == CHOOSE i \in positions : Cardinality({j \in positions : j <= i}) = k

Kept(seq, positions) == [k \in 1 .. Cardinality(positions) |-> seq[Nth(positions, k)]]
=============================================================================
