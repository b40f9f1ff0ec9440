---------------------------- MODULE CommandChannel ----------------------------
(***************************************************************************)
(* What a command channel of the daemon promises its client, whatever is   *)
(* on the wire: commands are executed in the order they were sent, one at  *)
(* a time and at most once, and each is over and answered before the next  *)
(* is looked at, until the connection is closed; what is left then is      *)
(* dropped, and nothing is left out before.                                *)
(***************************************************************************)
EXTENDS Naturals, Sequences

CONSTANT Kinds   \* of commands

VARIABLES
    sent,        \* the commands the client has sent, numbered in order
    done,        \* those whose execution was started, in that order
    over,        \* how many of these have come to an end
    answered,    \* how many answers have been written
    closed       \* the daemon has dropped the connection

vars == <<sent, done, over, answered, closed>>

Init ==
    /\ sent = <<>>
    /\ done = <<>>
    /\ over = 0
    /\ answered = 0
    /\ closed = FALSE

\* One command or several in a row.
Submit ==
    /\ Len(sent) < Len(sent')
    /\ SubSeq(sent', 1, Len(sent)) = sent
    /\ \A n \in DOMAIN sent' : sent'[n].id = n /\ sent'[n].kind \in Kinds
    /\ UNCHANGED <<done, over, answered, closed>>

Serve ==
    /\ ~closed
    /\ answered = Len(done)
    /\ Len(done) < Len(sent)
    /\ done' = Append(done, sent[Len(done) + 1])
    /\ UNCHANGED <<sent, over, answered, closed>>

Finish ==
    /\ ~closed
    /\ over < Len(done)
    /\ over' = over + 1
    /\ UNCHANGED <<sent, done, answered, closed>>

Answer ==
    /\ ~closed
    /\ answered < over
    /\ answered' = answered + 1
    /\ UNCHANGED <<sent, done, over, closed>>

Close ==
    /\ ~closed
    /\ closed' = TRUE
    /\ UNCHANGED <<sent, done, over, answered>>

Next == Submit \/ Serve \/ Finish \/ Answer \/ Close

Safety == Init /\ [][Next]_vars

\* A command is not left lying, and neither is the answer to one that is over;
\* but a command may run for ever, and nothing is done about it.
Live == WF_vars(Serve \/ Answer)

Spec == Safety /\ Live

=============================================================================
