----------------------------- MODULE MCFeedback -----------------------------
(***************************************************************************)
(* A small instance of Feedback: two topics that share a category, whose   *)
(* tickets push each other out of a window of one, and one of another.     *)
(***************************************************************************)
EXTENDS Feedback, TLC

CONSTANTS q1, q2, crash, freeze, wish, bug, feature

MCRequests == {q1, q2}
MCTopics == {crash, freeze, wish}
MCCategory == [t \in MCTopics |-> IF t = wish THEN feature ELSE bug]
RequestSymmetry == Permutations(MCRequests)

=============================================================================
