---------------------------- MODULE MCHousehold ----------------------------
(* Constants for the runs of Household. *)
EXTENDS Household, TLC

CONSTANTS e1, e2

\* No list, or one with an email that is not on it.
Lists == {{}, {e1}}

\* The transactions are alike.
Alike == Permutations(Sessions)
=============================================================================
