-------------------------------- MODULE Server --------------------------------
(***************************************************************************)
(* The daemon's life around its requests: webhooks of Documenso and        *)
(* requests to publish, which both read the config; reloads, which write   *)
(* it; and a shutdown, which stops the connectors, reads the config to     *)
(* remove the socket, and only then stops accepting requests and waits for *)
(* those under way.  A publisher keeps its guard while it awaits the       *)
(* platforms, who owe it no answer; everybody else queues behind a reload  *)
(* that waits for it.                                                      *)
(***************************************************************************)
EXTENDS Contracts, ConfigLock

CONSTANTS
    Publishers,  \* requests to publish
    Reloaders,   \* SIGHUP, the admin API, the socket
    Admins,      \* those of the admin API, which are requests
    Main         \* the task that shuts down

\* A task queues for the config under its own name.
ASSUME LockersDiffer ==
    /\ Handlers \cap Publishers = {} /\ Handlers \cap Reloaders = {}
    /\ Publishers \cap Reloaders = {}
    /\ Main \notin Handlers \cup Publishers \cup Reloaders
    /\ Admins \subseteq Reloaders

VARIABLES
    phase,       \* of the daemon
    running,     \* connectors that have a client or a bot
    configured,  \* whether the config has a documenso section
    publisher,   \* per request to publish: where it is
    reload       \* per reload: where it is

server == <<phase, running, configured, publisher, reload>>
vars == <<contracts, lock, server>>

Services == {"matrix", "linear"}

Init ==
    /\ ContractsInit
    /\ Free
    /\ phase = "up"
    /\ running = Services
    /\ configured = TRUE
    /\ publisher = [p \in Publishers |-> "idle"]
    /\ reload = [r \in Reloaders |-> "idle"]

\* Requests are accepted until the shutdown future has done all it does.
Accepting == phase \in {"up", "stopping", "cleanup"}
Alive == phase # "exited"

(***************************************************************************)
(* Webhooks of Documenso.                                                  *)
(***************************************************************************)
SetsIssue == Link /\ UNCHANGED <<lock, server>>

\* Slots for requests are all alike, so any free one will do.
FreeSlots == {h \in Handlers : ~Busy(h)}

Receive(e) ==
    LET h == CHOOSE s \in FreeSlots : TRUE IN
    /\ Accepting
    /\ FreeSlots # {}
    /\ Deliver(h, e) /\ Asks(h, "read")
    /\ UNCHANGED server

\* The secret is cloned out of the config.  Without a section the answer is 503.
ReadsSecret(h) ==
    /\ At(h, "config")
    /\ Turn(h, "read")
    /\ Passes
    /\ IF configured THEN Goes(h, "find") /\ UNCHANGED events ELSE Answers(h, FALSE)
    /\ UNCHANGED <<row, told, unheard, commented, used, linked, newest,
                   wanted, overtaken, server>>

Serves(h) ==
    \/ ReadsSecret(h)
    \/ HandlerStep(h, "matrix" \in running, "linear" \in running) /\ UNCHANGED <<lock, server>>

(***************************************************************************)
(* Requests to publish.                                                    *)
(***************************************************************************)
MovesTo(p, pc) ==
    /\ publisher' = [publisher EXCEPT ![p] = pc]
    /\ UNCHANGED <<ledger, phase, running, configured, reload>>

Publish(p) ==
    /\ Accepting
    /\ publisher[p] = "idle"
    /\ Spend("publish")
    /\ Asks(p, "read")
    /\ MovesTo(p, "auth")

\* A bug to compare with: the caller has a guard when it calls check_admin_auth.
AuthorizeUnderGuard(p) ==
    /\ publisher[p] = "auth"
    /\ Turn(p, "read")
    /\ queue' = Append(Tail(queue), Asked(p, "read"))
    /\ guards' = guards \cup {p}
    /\ MovesTo(p, "asking")
    /\ UNCHANGED used

\* check_admin_auth gives its guard back when it returns.
Authorize(p) ==
    /\ publisher[p] = "auth"
    /\ Turn(p, "read")
    /\ \/ PassesAndAsks(p, "read") /\ MovesTo(p, "asking")
       \/ Passes /\ MovesTo(p, "idle")     \* it says no
    /\ UNCHANGED used

\* The section is borrowed from the config until the request is done.
TakesConfig(p) ==
    /\ publisher[p] = "asking"
    /\ Turn(p, "read")
    /\ \/ Keeps(p) /\ MovesTo(p, "publishing")
       \/ Passes /\ MovesTo(p, "idle")     \* there is no such section
    /\ UNCHANGED used

\* The platforms have answered, or the client has gone and the request with it.
\* Neither need ever happen: the platforms' HTTP clients have no timeout.
Published(p) ==
    /\ publisher[p] = "publishing"
    /\ Drops(p)
    /\ MovesTo(p, "idle")
    /\ UNCHANGED used

PublisherStep(p) == Authorize(p) \/ TakesConfig(p) \/ Published(p)

(***************************************************************************)
(* Reloads: the config is cloned first and swapped last.                   *)
(***************************************************************************)
ReloadTo(r, pc) ==
    /\ reload' = [reload EXCEPT ![r] = pc]
    /\ UNCHANGED <<ledger, phase, running, publisher>>

Reload(r) ==
    /\ IF r \in Admins THEN Accepting ELSE Alive
    /\ reload[r] = "idle"
    /\ Spend("reload")
    /\ Asks(r, "read")
    /\ ReloadTo(r, IF r \in Admins THEN "auth" ELSE "old")
    /\ UNCHANGED configured

\* check_admin_auth, as for a request to publish.
AuthorizeReload(r) ==
    /\ reload[r] = "auth"
    /\ Turn(r, "read")
    /\ \/ PassesAndAsks(r, "read") /\ ReloadTo(r, "old")
       \/ Passes /\ ReloadTo(r, "idle")     \* it says no
    /\ UNCHANGED <<configured, used>>

\* A bug to compare with: the old config is borrowed, not cloned.
BorrowOld(r) ==
    /\ reload[r] = "old"
    /\ Turn(r, "read")
    /\ Keeps(r)
    /\ ReloadTo(r, "work")
    /\ UNCHANGED <<configured, used>>

CloneOld(r) ==
    /\ reload[r] = "old"
    /\ Turn(r, "read")
    /\ Passes
    /\ ReloadTo(r, "work")
    /\ UNCHANGED <<configured, used>>

\* The connectors are changed (see Daemon), or that fails.
Changed(r) ==
    /\ reload[r] = "work"
    /\ \/ Asks(r, "write") /\ ReloadTo(r, "swap")
       \/ ReloadTo(r, "idle") /\ UNCHANGED lock
    /\ UNCHANGED <<configured, used>>

Swap(r) ==
    /\ reload[r] = "swap"
    /\ Turn(r, "write")
    /\ Passes
    /\ configured' \in BOOLEAN
    /\ ReloadTo(r, "idle")
    /\ UNCHANGED used

ReloadStep(r) == AuthorizeReload(r) \/ CloneOld(r) \/ Changed(r) \/ Swap(r)

(***************************************************************************)
(* The end of the daemon, and its next life.                               *)
(***************************************************************************)
PhaseTo(p) ==
    /\ phase' = p
    /\ UNCHANGED <<configured, publisher, reload>>

CtrlC ==
    /\ phase = "up"
    /\ Spend("stop")
    /\ PhaseTo("stopping")
    /\ UNCHANGED <<ledger, lock, running>>

\* registry.stop_all, one connector after the other, then cleanup_socket.
StopAll ==
    /\ phase = "stopping"
    /\ \/ /\ \E c \in running : running' = running \ {c}
          /\ UNCHANGED <<phase, lock>>
       \/ /\ running = {}
          /\ phase' = "cleanup"
          /\ Asks(Main, "read")
          /\ UNCHANGED running
    /\ UNCHANGED <<contracts, configured, publisher, reload>>

CleanUp ==
    /\ phase = "cleanup"
    /\ Turn(Main, "read")
    /\ Passes
    /\ PhaseTo("draining")
    /\ UNCHANGED <<contracts, running>>

Ends ==
    /\ phase' = "exited"
    /\ Forgotten
    /\ Cut
    /\ publisher' = [p \in Publishers |-> "idle"]
    /\ reload' = [r \in Reloaders |-> "idle"]
    /\ UNCHANGED <<running, configured>>

\* The last request is done; a reload that is none is not waited for.
Drained ==
    /\ phase = "draining"
    /\ \A h \in Handlers : ~Busy(h)
    /\ \A p \in Publishers : publisher[p] = "idle"
    /\ \A r \in Admins : reload[r] = "idle"
    /\ Ends
    /\ UNCHANGED used

\* It crashes, or is ended by a signal it does not handle.
Dies ==
    /\ Alive
    /\ Spend("stop")
    /\ Ends

\* Edits of the config between two lives are left to reloads.
Restart ==
    /\ phase = "exited"
    /\ phase' = "up"
    /\ running' = Services
    /\ UNCHANGED <<contracts, lock, configured, publisher, reload>>

ShutdownStep == StopAll \/ CleanUp \/ Drained

----------------------------------------------------------------------------

Next ==
    \/ SetsIssue
    \/ \E e \in Events : Receive(e)
    \/ \E h \in Handlers : Serves(h)
    \/ \E p \in Publishers : Publish(p) \/ PublisherStep(p)
    \/ \E r \in Reloaders : Reload(r) \/ ReloadStep(r)
    \/ CtrlC \/ ShutdownStep \/ Dies \/ Restart

(***************************************************************************)
(* Requests, reloads and the shutdown are tasks that are polled, so they   *)
(* go on when it is their turn for the lock, which is fair.  Documenso     *)
(* repeats what was not accepted, and the service manager starts the       *)
(* daemon again.  Nobody outside owes an answer: a platform, Linear, a     *)
(* database or a connector that is changed may be awaited for ever.  The   *)
(* properties say which of these waits must end for theirs to end.         *)
(***************************************************************************)
Fairness ==
    /\ \A e \in Events : WF_vars(Receive(e))
    /\ \A h \in Handlers : WF_vars(ReadsSecret(h))
    /\ \A p \in Publishers : WF_vars(Authorize(p)) /\ WF_vars(TakesConfig(p))
    /\ \A r \in Reloaders :
            WF_vars(AuthorizeReload(r)) /\ WF_vars(CloneOld(r)) /\ WF_vars(Swap(r))
    /\ WF_vars(ShutdownStep) /\ WF_vars(Restart)

Spec == Init /\ [][Next]_vars /\ Fairness

(***************************************************************************)
(* Properties.                                                             *)
(***************************************************************************)

Lockers == Handlers \cup Publishers \cup Reloaders \cup {Main}

\* Types, and what they exclude: somebody who waits twice, a guard that is kept
\* by someone who is not publishing, a shutdown that drains with connectors up.
TypeOK ==
    /\ ContractsTypeOK
    /\ queue \in Seq([by : Lockers, mode : {"read", "write"}])
    /\ \A m, n \in DOMAIN queue : queue[m].by = queue[n].by => m = n
    /\ guards = {p \in Publishers : publisher[p] = "publishing"}
    /\ phase \in {"up", "stopping", "cleanup", "draining", "exited"}
    /\ running \subseteq Services
    /\ phase \in {"cleanup", "draining"} => running = {}
    /\ configured \in BOOLEAN
    /\ publisher \in [Publishers -> {"idle", "auth", "asking", "publishing"}]
    /\ reload \in [Reloaders -> {"idle", "auth", "old", "work", "swap"}]
    /\ \A r \in Reloaders \ Admins : reload[r] # "auth"

\* The first delivery of a rejection has left a row with an empty text for an
\* issue, and every later one asks Linear for the issue of that name.
Stuck(e) == events[e].kind = "rejected" /\ row[events[e].doc].issue = "blank"

\* The premises.  No platform keeps a request to publish waiting for ever, or the
\* client of the request gives up.
PlatformsAnswer == \A p \in Publishers : []<>(publisher[p] # "publishing")

\* No call of a handler, to the database, Matrix or Linear, hangs for ever.
CallsReturn == \A h \in Handlers : []<>(handler[h].pc \in {"idle", "config"})

\* Nor does a change of the connectors that was asked for through the admin API.
ChangesEnd == \A r \in Admins : []<>(reload[r] # "work")

\* Whatever fails, overlaps, reloads or restarts, an event is accepted in the
\* end, although its handler queues for the config with everybody else; unless
\* from some point on the config has no section for it, or it is stuck.  A single
\* platform that never answers defeats it: its request keeps its guard, a reload
\* queues behind the guard, and every handler behind the reload.  So does any request
\* that never ends, once a shutdown waits for it.
EventuallyAccepted ==
    PlatformsAnswer /\ CallsReturn /\ ChangesEnd =>
        \A e \in Events :
            <>events[e].accepted \/ <>[](Stuck(e) \/ ~configured)

\* If platforms answer, nobody waits for the config for ever, though guards are kept
\* over awaits and a waiting reload holds everyone up.  If whatever else a request
\* awaits answers as well, a shutdown, which needs the config and the end of every
\* request, ends.
EveryWaitEnds ==
    PlatformsAnswer =>
        /\ \A a \in Publishers \cup Reloaders \cup Handlers : Waits(a) ~> ~Waits(a)
        /\ CallsReturn /\ ChangesEnd => (phase = "stopping" ~> phase = "exited")

=============================================================================
