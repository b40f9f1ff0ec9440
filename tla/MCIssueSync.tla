----------------------------- MODULE MCIssueSync -----------------------------
(***************************************************************************)
(* A small instance of IssueSync: two repositories, two requests at a time *)
(* and enough issues for a copy of a copy of a copy.                       *)
(***************************************************************************)
EXTENDS IssueSync, TLC

CONSTANTS h1, h2

MCHandlers == {h1, h2}
RequestSymmetry == Permutations(MCHandlers)

=============================================================================
