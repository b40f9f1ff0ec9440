------------------------------- MODULE MCServer -------------------------------
(***************************************************************************)
(* A small instance of Server: a contract that is completed and then       *)
(* rejected, two webhooks at a time, one request to publish, one reload,   *)
(* by a signal or by the admin API, and one end of the daemon.             *)
(***************************************************************************)
EXTENDS Server

CONSTANTS doc, h1, h2, p1, signal, admin

Event(kind) == [doc |-> doc, kind |-> kind]
MCHistories == {<<Event("completed"), Event("rejected")>>}

\* A request to publish, a reload and a shutdown; or an issue that is set and a
\* shutdown; or any trouble and a fault.
MCBudgets ==
    {[w \in Trouble |-> IF w \in some THEN 1 ELSE 0] :
        some \in {{"publish", "reload", "stop"}, {"link", "stop"}}
                \cup {{"fault", w} : w \in Trouble}}

=============================================================================
