---------------------------- MODULE MCBankSync ------------------------------
(* Constants for model checking BankSync. *)
EXTENDS BankSync, TLC

CONSTANTS b1, b2

\* The rows of bank_connections at the start, oldest first.
NoRows  == <<>>
OneRow  == <<b1>>
TwoRows == <<b1, b2>>

Symmetry == Permutations(Requests) \cup Permutations(Dialogs)
=============================================================================
