------------------------------ MODULE MCDaemon ------------------------------
(***************************************************************************)
(* A small instance of Daemon: the connectors whose lifecycle calls do     *)
(* most.  The file may hold what the daemon booted with, a config in which *)
(* Matrix goes and the others change, and one in which Matrix changes and  *)
(* the others go and whose [power] section is invalid; a second reload may *)
(* bring back what the first took away.                                    *)
(***************************************************************************)
EXTENDS Daemon

CONSTANTS affine, matrix, social, v1, v2, r1, r2, o1

MCOrder == <<matrix, affine, social>>
MCNames == {matrix, affine, social}
MCKind == [n \in MCNames |->
    CASE n = affine -> "affine" [] n = matrix -> "matrix" [] n = social -> "social"]
MCValues == {v1, v2}

Sections(m, a, s) ==
    [n \in MCNames |-> CASE n = matrix -> m [] n = affine -> a [] n = social -> s]

Booted == [section |-> Sections(v1, v1, v1), power |-> "p1"]
Edited == [section |-> Sections(None, v2, v2), power |-> "p2"]
Broken == [section |-> Sections(v2, None, None), power |-> "bad"]

MCFiles == {Booted, Edited, Broken}
MCMayFail == {matrix}

=============================================================================
