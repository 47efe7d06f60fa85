--------------------------- MODULE MCImportLedger ---------------------------
(* Constants for the runs of ImportLedger. *)
EXTENDS ImportLedger, FiniteSetsExt

CONSTANTS k1, k2

Amount == [k \in Keys |-> IF k = k1 THEN -1 ELSE 3]
Sum    == [S \in SUBSET Keys |-> MapThenSumSet(LAMBDA k : Amount[k], S)]

\* Two bookings a day apart.
TwoBookings == <<k1, k2>>

\* The balances after each posting.
TwoBalances == [n \in 0..2 |-> <<10, 9, 12>>[n + 1]]
=============================================================================
