---------------------------- MODULE MCPublishing ----------------------------
(***************************************************************************)
(* A small instance of Publishing: two tickers, two requests at a time, a  *)
(* cap of two posts in two ticks, and weeks of three ticks.                *)
(***************************************************************************)
EXTENDS Publishing, TLC

CONSTANTS bhp, cba, q1, q2

MCTickers == {bhp, cba}
MCRequests == {q1, q2}
Symmetry == Permutations(MCRequests) \cup Permutations(MCTickers)

=============================================================================
