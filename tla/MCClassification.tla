-------------------------- MODULE MCClassification --------------------------
(* Constants for the runs of Classification. *)
EXTENDS Classification, TLC

CONSTANTS rent, food, p, q

\* Two bookings of one merchant; the newer also mentions another, and the account that
\* becomes the depot.  Both name the same holder, so that the older one is a transfer by
\* the name once the newer one is a transfer by the account.
Texts == <<{p}, {p, q}>>
Merchants == <<p, p>>
Builtins == <<None, rent>>
Holders == <<{2}, {}>>

Alike == Permutations(Sessions)
=============================================================================
