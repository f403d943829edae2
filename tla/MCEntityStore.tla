---------------------------- MODULE MCEntityStore ----------------------------
(* Instances of EntityStore for TLC. *)
EXTENDS EntityStore, TLC

CONSTANTS e1, e2,     \* entities
          o1, o2,     \* observers
          c1, c2      \* contents
=============================================================================
