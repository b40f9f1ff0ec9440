------------------------------ MODULE ConfigLock ------------------------------
(***************************************************************************)
(* The lock around the daemon's config, a tokio RwLock: requests queue up  *)
(* in the order in which they are made, and a reader that comes after a    *)
(* waiting writer waits behind it, though readers have the lock.           *)
(*                                                                         *)
(* Most who read the config copy what they need and give the guard back    *)
(* before they await anything, and so does the one writer; those who keep  *)
(* it are in guards.                                                       *)
(***************************************************************************)
EXTENDS Naturals, Sequences

VARIABLES
    queue,     \* who waits, and for what
    guards     \* who keeps a read guard

lock == <<queue, guards>>

Free == queue = <<>> /\ guards = {}

Asked(a, mode) == [by |-> a, mode |-> mode]

Asks(a, mode) ==
    /\ queue' = Append(queue, Asked(a, mode))
    /\ UNCHANGED guards

\* The lock is a's: it is first, and a writer has it to itself.
Turn(a, mode) ==
    /\ queue # <<>>
    /\ Head(queue) = Asked(a, mode)
    /\ mode = "write" => guards = {}

\* a uses the config and gives the lock back at once.
Passes ==
    /\ queue' = Tail(queue)
    /\ UNCHANGED guards

\* a gives it back and asks again.
PassesAndAsks(a, mode) ==
    /\ queue' = Append(Tail(queue), Asked(a, mode))
    /\ UNCHANGED guards

\* a keeps its guard while it awaits something else.
Keeps(a) ==
    /\ queue' = Tail(queue)
    /\ guards' = guards \cup {a}

Drops(a) ==
    /\ guards' = guards \ {a}
    /\ UNCHANGED queue

Forgotten ==
    /\ queue' = <<>>
    /\ guards' = {}

Waits(a) == \E n \in DOMAIN queue : queue[n].by = a

=============================================================================
