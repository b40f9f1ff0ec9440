---------------------------- MODULE MCTokenStore ----------------------------
(***************************************************************************)
(* A small instance of TokenStore: the posting loop and another client,    *)
(* and tokens enough for each to refresh and for the operator to step in.  *)
(***************************************************************************)
EXTENDS TokenStore, TLC

CONSTANTS c1, c2

MCClients == {c1, c2}
ClientSymmetry == Permutations(MCClients)

=============================================================================
