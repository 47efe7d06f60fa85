------------------------------- MODULE MCAgent -------------------------------
(* Constants for the runs of Agent. *)
EXTENDS Agent, TLC

CONSTANTS c1, c2, r1, r2, q1, q2, l1, l2, l3

Symmetry == Permutations({c1, c2}) \cup Permutations({r1, r2})
              \cup Permutations({q1, q2}) \cup Permutations({l1, l2, l3})
=============================================================================
