---------------------------- MODULE MCPostingLoop ----------------------------
(***************************************************************************)
(* A small instance of PostingLoop: three announcements for a window of    *)
(* two, of which the second is price sensitive and the first comes first   *)
(* in the query, a platform and the review room, and a loop that forgets   *)
(* everything once it has posted two.                                      *)
(***************************************************************************)
EXTENDS PostingLoop

CONSTANT x

MCPlatforms == <<x>>
MCSettings ==
    {[mode |-> "auto", sensitiveOnly |-> FALSE],
     [mode |-> "review", sensitiveOnly |-> FALSE],
     [mode |-> "neither", sensitiveOnly |-> TRUE]}

=============================================================================
