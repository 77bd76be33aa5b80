------------------------------- MODULE MCPage -------------------------------
(* Two accounts, two credentials and two Ledgers.                            *)
EXTENDS Page, TLC

CONSTANTS a, b, c1, c2, x, y

MCSymmetry == Permutations({a, b}) \cup Permutations({c1, c2}) \cup Permutations({x, y})
=============================================================================
