-------------------------------- MODULE Ledger --------------------------------
(***************************************************************************)
(* What the error rollup promises the people in the room, whatever its     *)
(* buckets keep of a text: errors are held per category until a report has *)
(* told of all that were held when it was looked at.  A report whose       *)
(* answer is lost leaves everything held, and is made again; one that was  *)
(* answered leaves nothing behind, and drops only what came after its      *)
(* look.  Nothing is told, and nothing dropped, in any other way.          *)
(***************************************************************************)
EXTENDS Naturals

CONSTANT Categories

VARIABLES
    held,      \* per category, the errors that are waiting to be told
    seen,      \* how many of them the report in preparation tells of
    heard,     \* how many of those held the room was told of already
    told,      \* how many were told, each counted once
    dropped    \* how many never will be

vars == <<held, seen, heard, told, dropped>>

None == [c \in Categories |-> 0]

Init ==
    /\ held = None
    /\ seen = None
    /\ heard = None
    /\ told = None
    /\ dropped = None

Arrive(c) ==
    /\ held' = [held EXCEPT ![c] = @ + 1]
    /\ UNCHANGED <<seen, heard, told, dropped>>

\* A report is prepared when there is something to tell, and not while another is.
Look ==
    /\ held # None
    /\ seen = None
    /\ seen' = held
    /\ UNCHANGED <<held, heard, told, dropped>>

\* It did not get through: all of it is still held.
GiveUp ==
    /\ seen # None
    /\ seen' = None
    /\ UNCHANGED <<held, heard, told, dropped>>

\* It got through, and its answer came back or did not.
Deliver ==
    /\ seen # None
    /\ told' = [c \in Categories |-> told[c] + (seen[c] - heard[c])]
    /\ heard' = seen
    /\ seen' \in {seen, None}
    /\ UNCHANGED <<held, dropped>>

\* All of it is told: what is held is let go, with what came in since the look.
Settle ==
    /\ seen # None
    /\ heard = seen
    /\ dropped' = [c \in Categories |-> dropped[c] + (held[c] - seen[c])]
    /\ held' = None
    /\ seen' = None
    /\ heard' = None
    /\ UNCHANGED told

Next == Look \/ GiveUp \/ Deliver \/ Settle \/ \E c \in Categories : Arrive(c)

Spec == Init /\ [][Next]_vars

=============================================================================
