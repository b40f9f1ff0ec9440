------------------------------ MODULE MCReload ------------------------------
(***************************************************************************)
(* Daemon with one reload at a time and nobody else about: what README's   *)
(* section on hot reloading says of a single reload.  The file holds what  *)
(* the daemon booted with, the same with another Linear API key and        *)
(* Documenso removed, or that with an invalid [power] section as well.     *)
(***************************************************************************)
EXTENDS Daemon

CONSTANTS linear, documenso, v1, v2

MCNames == {linear, documenso}
MCOrder == <<linear, documenso>>
MCKind == [n \in MCNames |-> IF n = linear THEN "client" ELSE "plain"]
MCValues == {v1, v2}

Sections(l, d) == [n \in MCNames |-> IF n = linear THEN l ELSE d]

Booted == [section |-> Sections(v1, v1), power |-> "p1"]
NewKey == [section |-> Sections(v2, None), power |-> "p1"]
BadPower == [section |-> Sections(v2, None), power |-> "bad"]

MCFiles == {Booted, NewKey, BadPower}

=============================================================================
