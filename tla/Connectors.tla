----------------------------- MODULE Connectors -----------------------------
(***************************************************************************)
(* The connector objects of the daemon and what a lifecycle call does to   *)
(* one of them.  An instance is one Arc<dyn Connector>; a name may have    *)
(* had several.  The operators below are the effects of the calls, and     *)
(* Daemon says who makes them and when.                                    *)
(*                                                                         *)
(* A connector is told apart by its kind:                                  *)
(*   "client"  linear, github, opencode: start builds an API client from   *)
(*             the stored section; reconfigure only stores the section     *)
(*   "affine"  as "client", but reconfigure rebuilds the clients, and each *)
(*             of the two holds one mutex while it waits for the other       *)
(*   "plain"   documenso: a status and nothing else                        *)
(*   "matrix"  start logs a bot in and spawns the sync task; suspend and   *)
(*             resume are its own                                          *)
(*   "social"  stonkwatch_social: start spawns the posting loop            *)
(***************************************************************************)
EXTENDS Naturals, FiniteSets

CONSTANTS
    Names,        \* the names connectors are registered under
    Kind,         \* the kind of each name
    Values,       \* contents a section of the config can have
    LoopValues,   \* those that make stonkwatch_social spawn its timer loop
    Instances,    \* identities of connector objects, 1..K: K bounds the model
    None          \* no instance, no section, no client

Kinds == {"client", "affine", "plain", "matrix", "social"}

ASSUME KindAssumption == Kind \in [Names -> Kinds]
ASSUME LoopAssumption == LoopValues \subseteq Values
ASSUME InstancesAssumption == Instances \subseteq Nat
ASSUME NoneAssumption == None \notin Values /\ None \notin Instances /\ None \notin Names

VARIABLES
    owner,    \* the name an instance was made for; None: not made yet
    stored,   \* the section the instance holds
    built,    \* the section its client, bot or loop was built from, or None
    status,   \* the AtomicU8
    task,     \* it holds the handle of a live sync task or posting loop
    orphans,  \* live tasks of the instance whose handle has been overwritten
    ended     \* history: instances whose last task ended and nobody ended it

objects == <<owner, stored, built, status, task, orphans, ended>>

Statuses == {"Running", "Stopped", "Suspended"}

ObjectsTypeOK ==
    /\ owner \in [Instances -> Names \cup {None}]
    /\ stored \in [Instances -> Values \cup {None}]
    /\ built \in [Instances -> Values \cup {None}]
    /\ status \in [Instances -> Statuses]
    /\ task \in [Instances -> BOOLEAN]
    /\ orphans \in [Instances -> Nat]
    /\ ended \subseteq Instances

KindOf(i) == Kind[owner[i]]

Unmade == {i \in Instances : owner[i] = None}

\* The next identity to give out.
Fresh == CHOOSE i \in Unmade : \A j \in Unmade : i <= j

\* Does start, given section v, leave a background task running?
Spawns(kind, v) == kind = "matrix" \/ (kind = "social" /\ v \in LoopValues)

\* What start builds: documenso has nothing to build.
Builds(kind, v) == IF kind = "plain" THEN None ELSE v

(***************************************************************************)
(* A new instance for name n that has just been started: XConnector::new   *)
(* followed by the start that register calls, before anyone else holds it. *)
(***************************************************************************)
NewStarted(i, n, v) ==
    /\ owner' = [owner EXCEPT ![i] = n]
    /\ stored' = [stored EXCEPT ![i] = v]
    /\ built' = [built EXCEPT ![i] = Builds(Kind[n], v)]
    /\ status' = [status EXCEPT ![i] = "Running"]
    /\ task' = [task EXCEPT ![i] = Spawns(Kind[n], v)]
    /\ UNCHANGED <<orphans, ended>>

(***************************************************************************)
(* A task is spawned and its handle (JoinHandle or CancellationToken)      *)
(* stored.  Overwriting a handle neither aborts nor cancels the old task.  *)
(***************************************************************************)
Spawn(i) ==
    /\ task' = [task EXCEPT ![i] = TRUE]
    /\ orphans' = [orphans EXCEPT ![i] = @ + (IF task[i] THEN 1 ELSE 0)]
    /\ ended' = ended \ {i}

(***************************************************************************)
(* A task ends and nobody has ended it: Client::sync returns on the first  *)
(* error and the sync task with it, or a panic unwinds the posting loop.   *)
(* The status byte is not touched.                                         *)
(***************************************************************************)
TaskEnds(i) ==
    /\ \/ /\ task[i]
          /\ task' = [task EXCEPT ![i] = FALSE]
          /\ ended' = ended \cup {i}
          /\ UNCHANGED orphans
       \/ /\ orphans[i] > 0
          /\ orphans' = [orphans EXCEPT ![i] = @ - 1]
          /\ UNCHANGED <<task, ended>>
    /\ UNCHANGED <<owner, stored, built, status>>

\* start on instance i, once it has read the section v and, for Matrix, logged
\* in: replace the client, spawn, store Running.
Start(i, v) ==
    /\ built' = [built EXCEPT ![i] = Builds(KindOf(i), v)]
    /\ status' = [status EXCEPT ![i] = "Running"]
    /\ IF Spawns(KindOf(i), v) THEN Spawn(i) ELSE UNCHANGED <<task, orphans, ended>>
    /\ UNCHANGED <<owner, stored>>

\* A bug to compare with: stop drops a JoinHandle where it should abort the task.
StopWithoutAbort(i) ==
    /\ built' = [built EXCEPT ![i] = None]
    /\ status' = [status EXCEPT ![i] = "Stopped"]
    /\ UNCHANGED <<owner, stored, task, orphans, ended>>

\* A bug to compare with: stop stores a byte that is none of the statuses.
StopStoresError(i) ==
    /\ built' = [built EXCEPT ![i] = None]
    /\ status' = [status EXCEPT ![i] = "Error"]
    /\ task' = [task EXCEPT ![i] = FALSE]
    /\ UNCHANGED <<owner, stored, orphans, ended>>

\* stop: drop the client or bot, end the task whose handle is held.
Stop(i) ==
    /\ built' = [built EXCEPT ![i] = None]
    /\ status' = [status EXCEPT ![i] = "Stopped"]
    /\ task' = [task EXCEPT ![i] = FALSE]
    /\ UNCHANGED <<owner, stored, orphans, ended>>

\* suspend: Matrix ends its sync task and keeps the bot, stonkwatch_social does
\* nothing, the others take the default, which is stop.
Suspend(i) ==
    CASE KindOf(i) = "matrix" ->
            /\ task' = [task EXCEPT ![i] = FALSE]
            /\ status' = [status EXCEPT ![i] = "Suspended"]
            /\ UNCHANGED <<owner, stored, built, orphans, ended>>
      [] KindOf(i) = "social" -> UNCHANGED objects
      [] OTHER -> Stop(i)

\* A bug to compare with: resume says Running and leaves the sync task paused.
ResumeWithoutTask(i) ==
    /\ status' = [status EXCEPT ![i] = "Running"]
    /\ UNCHANGED <<owner, stored, built, task, orphans, ended>>

\* resume of the only connector that is ever Suspended, Matrix, once it has
\* taken its bot: spawn the sync task again.
Resume(i) ==
    /\ Spawn(i)
    /\ status' = [status EXCEPT ![i] = "Running"]
    /\ UNCHANGED <<owner, stored, built>>

\* What reconfigure builds, which only AFFiNE's does, and what it stores.
Rebuild(i, v) ==
    /\ built' = [built EXCEPT ![i] = v]
    /\ UNCHANGED <<owner, stored, status, task, orphans, ended>>
Store(i, v) ==
    /\ stored' = [stored EXCEPT ![i] = v]
    /\ UNCHANGED <<owner, built, status, task, orphans, ended>>

\* The boolean reconfigure returns: no restart needed.
InPlace(kind) == kind \in {"client", "affine", "matrix"}

=============================================================================
