--------------------------- MODULE MCTelegramBots ---------------------------
(* Constants for the runs of TelegramBots. *)
EXTENDS TelegramBots, TLC

CONSTANTS h1, h2, t1, t2, c1, c2, s1, s2, k1, k2

Symmetry == Permutations({h1, h2}) \cup Permutations({s1, s2})
              \cup Permutations({c1, c2}) \cup Permutations({k1, k2})
=============================================================================
