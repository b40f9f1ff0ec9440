--------------------------- MODULE MCErrorRollup ---------------------------
(***************************************************************************)
(* A small instance of ErrorRollup: two categories whose buckets hold two  *)
(* texts, and enough errors that a bucket overflows, is sent, and fills    *)
(* again while the text is under way.                                      *)
(***************************************************************************)
EXTENDS ErrorRollup

CONSTANTS publish, silence

MCCategories == {publish, silence}

=============================================================================
