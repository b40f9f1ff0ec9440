------------------------------- MODULE MCSocket -------------------------------
(***************************************************************************)
(* A small instance of Socket: a subscription and two keys of two commands *)
(* each, or five commands of a plain client, over buffers that hold a      *)
(* frame and a half.                                                       *)
(***************************************************************************)
EXTENDS Socket

MCCommands == {"spike", "toggle", "reload", "status"}
MCMayBeRefused == {"toggle", "reload"}

=============================================================================
