------------------------------- MODULE Daemon -------------------------------
(***************************************************************************)
(* The registry of the daemon and those who drive it: config reloads       *)
(* (SIGHUP, POST /admin/reload and the socket's reload command all call    *)
(* daemon::reload, and nothing keeps two calls apart), operators who       *)
(* toggle a connector, and the task that follows the power state.          *)
(*                                                                         *)
(* ConnectorRegistry and PowerManager are a library.  The registry is      *)
(* modelled as the project's plan lists it: register starts a connector    *)
(* and then inserts it, deregister removes it and then stops it, toggle    *)
(* works on the Arc it looked up without holding the map's lock, and       *)
(* suspend_all and resume_all hold the read lock from end to end.  Of the  *)
(* power manager only the state it announces is kept.                      *)
(*                                                                         *)
(* The registry's lock, the await on a stop or a start, the await on a     *)
(* Matrix login and AFFiNE's two mutexes are where one actor may overtake  *)
(* another, so they are where an operation is cut into steps.              *)
(***************************************************************************)
EXTENDS Connectors, Sequences

CONSTANTS
    Order,        \* the order in which reload compares the sections
    PowerValues,  \* contents of the [power] section
    ValidPower,   \* those PowerManager::reconfigure accepts
    Files,        \* configs the file may hold; each is loaded or rejected
    Unparsable,   \* a file Config::load rejects
    FirstConfig,  \* what the daemon booted with
    FirstPower,   \* the power states it may be in then
    Reloaders, Operators, Watcher,  \* the actors
    MayFail,      \* names whose start can fail (only Matrix's does)
    MaxEdits, MaxReloads, MaxToggles, MaxFlips, MaxEnds,  \* bounds of the model,
    MaxEvents                                  \* and on all of these together

Configs == [section : [Names -> Values \cup {None}], power : PowerValues]

Actors == Reloaders \cup Operators \cup {Watcher}

ASSUME OrderAssumption ==
    /\ Order \in Seq(Names)
    /\ \A n \in Names : \E k \in 1 .. Len(Order) : Order[k] = n
    /\ 1 .. Len(Order) \subseteq Instances  \* each is there at boot
ASSUME FilesAssumption ==
    /\ Files \subseteq Configs
    /\ FirstConfig \in Files
    /\ FirstConfig.power \in ValidPower
    /\ Unparsable \notin Configs
ASSUME PowerAssumption == FirstPower \subseteq {"Active", "Resting"}
ASSUME ActorsAssumption ==
    /\ Reloaders \cap Operators = {}
    /\ Watcher \notin Reloaders \cup Operators

VARIABLES
    file,      \* what gluebox.toml holds now
    config,    \* state.config
    registry,  \* the map of the registry: the instance of a name, or None
    expected,  \* the section expected_platforms was computed from
    reload,    \* per reloader: where it is and its local variables
    op,        \* per operator: the toggle in progress
    power,     \* the state PowerManager announces
    watch,     \* the power watcher: position, goal, names left, instance
    used,      \* how often each bounded action has happened
    tidy,      \* history: no reload failed, no two reloads overlapped
    raced      \* history: names on which two lifecycle calls overlapped, or that
               \* got a second connector while the first was not stopped

daemon == <<file, config, registry, expected, reload, op, power, watch, used, tidy, raced>>
vars == <<objects, daemon>>

----------------------------------------------------------------------------

NoReload == [pc |-> "idle", old |-> FirstConfig, new |-> FirstConfig, todo |-> {}, inst |-> None]
NoOp == [pc |-> "idle", inst |-> None, value |-> None]
NoWalk == [pc |-> "idle", seen |-> 0, goal |-> "Resting", todo |-> {}, inst |-> None]

Present(c) == {n \in Names : c.section[n] # None}

Registered == {n \in Names : registry[n] # None}

\* Boot registered every section that is present, each from the same config.
BootInstance(n) == CHOOSE k \in 1 .. Len(Order) : Order[k] = n

Init ==
    /\ file \in Files \cup {Unparsable}  \* someone may have edited it since boot
    /\ config = FirstConfig
    /\ registry = [n \in Names |-> IF n \in Present(config) THEN BootInstance(n) ELSE None]
    /\ expected = [n \in {m \in Names : Kind[m] = "social"} |-> config.section[n]]
    /\ owner = [i \in Instances |->
                    IF \E n \in Registered : registry[n] = i
                    THEN CHOOSE n \in Registered : registry[n] = i ELSE None]
    /\ stored = [i \in Instances |-> IF owner[i] = None THEN None ELSE config.section[owner[i]]]
    /\ built = [i \in Instances |-> IF owner[i] = None THEN None ELSE Builds(KindOf(i), stored[i])]
    /\ status = [i \in Instances |-> IF owner[i] = None THEN "Stopped" ELSE "Running"]
    /\ task = [i \in Instances |-> owner[i] # None /\ Spawns(KindOf(i), stored[i])]
    /\ orphans = [i \in Instances |-> 0]
    /\ ended = {}
    /\ reload = [r \in Reloaders |-> NoReload]
    /\ op = [t \in Operators |-> NoOp]
    /\ power \in FirstPower
    /\ watch = NoWalk
    /\ used = [edits |-> 0, reloads |-> 0, toggles |-> 0, flips |-> 0, ends |-> 0]
    /\ tidy = TRUE
    /\ raced = {}

Spend(what, bound) ==
    /\ used[what] < bound
    /\ used.edits + used.reloads + used.toggles + used.flips + used.ends < MaxEvents
    /\ used' = [used EXCEPT ![what] = @ + 1]

(***************************************************************************)
(* History: who is in the middle of a lifecycle call on which instance.    *)
(***************************************************************************)
InCall(a, i) ==
    \/ a \in Reloaders /\ reload[a].pc \in {"stop", "configs"} /\ reload[a].inst = i
    \/ a \in Operators /\ op[a].pc # "idle" /\ op[a].inst = i
    \/ a = Watcher /\ watch.inst = i

\* Actor a makes or completes a call on instance i.
Touch(a, i) ==
    raced' = IF \E b \in Actors \ {a} : InCall(b, i) THEN raced \cup {owner[i]} ELSE raced

\* Actor a has made a second connector for name n.
MakesRival(a, n) ==
    \/ registry[n] # None
    \/ \E b \in Reloaders \ {a} :
          reload[b].pc \in {"stop", "insert"} /\ reload[b].inst # None /\ owner[reload[b].inst] = n

NoneReloading == \A r \in Reloaders : reload[r].pc = "idle"

(***************************************************************************)
(* AFFiNE's start locks its configs and then its clients, its reconfigure  *)
(* the clients and then the configs; its stop needs the clients.  Who has  *)
(* the first and waits for the second:                                     *)
(***************************************************************************)
ConfigsHeld(i) == \E t \in Operators : op[t].pc = "clients" /\ op[t].inst = i
ClientsHeld(i) == \E r \in Reloaders : reload[r].pc = "configs" /\ reload[r].inst = i

(***************************************************************************)
(* daemon::reload.                                                         *)
(***************************************************************************)
EditFile ==
    /\ \E c \in Files \cup {Unparsable} : c # file /\ file' = c
    /\ Spend("edits", MaxEdits)
    /\ UNCHANGED <<objects, config, registry, expected, reload, op, power, watch, tidy, raced>>

\* The sections that differ, and the one of them the code comes to first.
Changed(old, new) == {n \in Names : old.section[n] # new.section[n]}

Earliest(todo) ==
    Order[CHOOSE k \in 1 .. Len(Order) :
            /\ Order[k] \in todo
            /\ \A l \in 1 .. Len(Order) : Order[l] \in todo => k <= l]

\* Config::load returned the parse error: nothing else has happened yet.
RejectFile(r) ==
    /\ reload[r].pc = "idle"
    /\ file = Unparsable
    /\ Spend("reloads", MaxReloads)
    /\ UNCHANGED <<objects, file, config, registry, expected, reload, op, power, watch, tidy, raced>>

\* A bug to compare with: the diff is against the config the daemon booted with.
ReloadFromBootConfig(r) ==
    /\ reload[r].pc = "idle"
    /\ file # Unparsable
    /\ reload' = [reload EXCEPT ![r] =
                    [pc |-> "section", old |-> FirstConfig, new |-> file,
                     todo |-> Changed(FirstConfig, file), inst |-> None]]
    /\ tidy' = (tidy /\ NoneReloading)
    /\ Spend("reloads", MaxReloads)
    /\ UNCHANGED <<objects, file, config, registry, expected, op, power, watch, raced>>

BeginReload(r) ==
    /\ reload[r].pc = "idle"
    /\ file # Unparsable
    /\ reload' = [reload EXCEPT ![r] =
                    [pc |-> "section", old |-> config, new |-> file,
                     todo |-> Changed(config, file), inst |-> None]]
    /\ tidy' = (tidy /\ NoneReloading)
    /\ Spend("reloads", MaxReloads)
    /\ UNCHANGED <<objects, file, config, registry, expected, op, power, watch, raced>>

Section(r) == Earliest(reload[r].todo)
Moves(r, pc, i) == reload' = [reload EXCEPT ![r].pc = pc, ![r].inst = i]
SectionDone(r) ==
    reload' = [reload EXCEPT ![r].pc = "section", ![r].inst = None, ![r].todo = @ \ {Section(r)}]
Was(r) == reload[r].old.section[Section(r)]
Wants(r) == reload[r].new.section[Section(r)]

AtSection(r) == reload[r].pc = "section" /\ reload[r].todo # {}

\* heartbeat.set_expected_platforms comes before the connector is touched.
Expect(r) ==
    expected' = IF Kind[Section(r)] = "social"
                THEN [expected EXCEPT ![Section(r)] = Wants(r)] ELSE expected

Appeared(r) == AtSection(r) /\ Was(r) = None

\* The section is gone, or it is Documenso's, which is always replaced.
Retired(r) ==
    /\ AtSection(r)
    /\ Was(r) # None
    /\ Wants(r) = None \/ Kind[Section(r)] = "plain"

Modified(r) == AtSection(r) /\ ~Appeared(r) /\ ~Retired(r)

\* get_dyn finds nothing to reconfigure; the change is reported all the same.
SectionUnregistered(r) ==
    /\ Modified(r)
    /\ registry[Section(r)] = None
    /\ Expect(r)
    /\ SectionDone(r)
    /\ UNCHANGED <<objects, file, config, registry, op, power, watch, used, tidy, raced>>

\* reconfigure of everything but AFFiNE.
SectionChanged(r) ==
    LET n == Section(r) IN
    /\ Modified(r)
    /\ registry[n] # None
    /\ Kind[n] # "affine"
    /\ Expect(r)
    /\ Store(registry[n], Wants(r))
    /\ Touch(r, registry[n])
    /\ IF InPlace(Kind[n]) THEN SectionDone(r) ELSE Moves(r, "remove", None)
    /\ UNCHANGED <<file, config, registry, op, power, watch, used, tidy>>

\* AFFiNE's reconfigure, first half: with the clients locked it rebuilds them.
LocksClients(r) ==
    LET n == Section(r) IN
    /\ Modified(r)
    /\ registry[n] # None
    /\ Kind[n] = "affine"
    /\ ~ClientsHeld(registry[n])
    /\ Expect(r)
    /\ Rebuild(registry[n], Wants(r))
    /\ Touch(r, registry[n])
    /\ Moves(r, "configs", registry[n])
    /\ UNCHANGED <<file, config, registry, op, power, watch, used, tidy>>

\* Second half: the configs are free, and both locks are given back.
StoresConfigs(r) ==
    /\ reload[r].pc = "configs"
    /\ ~ConfigsHeld(reload[r].inst)
    /\ Store(reload[r].inst, Wants(r))
    /\ Touch(r, reload[r].inst)
    /\ SectionDone(r)
    /\ UNCHANGED <<file, config, registry, expected, op, power, watch, used, tidy>>

\* The map's write lock waits for the watcher's read lock.
MapIsFree == watch.pc = "idle"

\* A bug to compare with: deregister forgets to stop what it removed.
RemoveWithoutStop(r) ==
    LET n == Section(r) IN
    /\ Retired(r) \/ reload[r].pc = "remove"
    /\ MapIsFree
    /\ Expect(r)
    /\ registry' = [registry EXCEPT ![n] = None]
    /\ IF Wants(r) # None THEN Moves(r, "create", None) ELSE SectionDone(r)
    /\ UNCHANGED <<objects, file, config, op, power, watch, used, tidy, raced>>

\* deregister, first half.
Remove(r) ==
    LET n == Section(r) IN
    /\ Retired(r) \/ reload[r].pc = "remove"
    /\ MapIsFree
    /\ Expect(r)
    /\ registry' = [registry EXCEPT ![n] = None]
    /\ IF registry[n] # None THEN Moves(r, "stop", registry[n])
       ELSE IF Wants(r) # None THEN Moves(r, "create", None) ELSE SectionDone(r)
    /\ UNCHANGED <<objects, file, config, op, power, watch, used, tidy, raced>>

\* A bug to compare with: stop waits for the background task and does not end it.
StopRemovedJoins(r) ==
    /\ reload[r].pc = "stop"
    /\ ~task[reload[r].inst]
    /\ ~ClientsHeld(reload[r].inst)
    /\ Stop(reload[r].inst)
    /\ Touch(r, reload[r].inst)
    /\ IF Wants(r) # None THEN Moves(r, "create", None) ELSE SectionDone(r)
    /\ UNCHANGED <<file, config, registry, expected, op, power, watch, used, tidy>>

\* deregister, second half.
StopRemoved(r) ==
    /\ reload[r].pc = "stop"
    /\ ~ClientsHeld(reload[r].inst)
    /\ Stop(reload[r].inst)
    /\ Touch(r, reload[r].inst)
    /\ IF Wants(r) # None THEN Moves(r, "create", None) ELSE SectionDone(r)
    /\ UNCHANGED <<file, config, registry, expected, op, power, watch, used, tidy>>

Creating(r) == Appeared(r) \/ reload[r].pc = "create"

\* XConnector::new and the start that register calls.
CreateAndStart(r) ==
    /\ Creating(r)
    /\ Unmade # {}
    /\ Expect(r)
    /\ NewStarted(Fresh, Section(r), Wants(r))
    /\ Moves(r, "insert", Fresh)
    /\ raced' = IF MakesRival(r, Section(r)) THEN raced \cup {Section(r)} ELSE raced
    /\ UNCHANGED <<file, config, registry, op, power, watch, used, tidy>>

\* register's `?`: reload returns, and what it did so far stays done.
StartFails(r) ==
    /\ Creating(r)
    /\ Section(r) \in MayFail
    /\ Expect(r)
    /\ reload' = [reload EXCEPT ![r] = NoReload]
    /\ tidy' = FALSE
    /\ UNCHANGED <<objects, file, config, registry, op, power, watch, used, raced>>

Insert(r) ==
    LET n == Section(r) IN
    /\ reload[r].pc = "insert"
    /\ MapIsFree
    /\ registry' = [registry EXCEPT ![n] = reload[r].inst]
    /\ raced' = IF registry[n] # None THEN raced \cup {n} ELSE raced
    /\ SectionDone(r)
    /\ UNCHANGED <<objects, file, config, expected, op, power, watch, used, tidy>>

AllSectionsDone(r) == reload[r].pc = "section" /\ reload[r].todo = {}

PowerAccepted(r) ==
    \/ reload[r].new.power = reload[r].old.power
    \/ reload[r].new.power \in ValidPower

\* PowerManager::reconfigure validates [power] after the connectors are done.
RejectPower(r) ==
    /\ AllSectionsDone(r)
    /\ ~PowerAccepted(r)
    /\ reload' = [reload EXCEPT ![r] = NoReload]
    /\ tidy' = FALSE
    /\ UNCHANGED <<objects, file, config, registry, expected, op, power, watch, used, raced>>

SwapConfig(r) ==
    /\ AllSectionsDone(r)
    /\ PowerAccepted(r)
    /\ config' = reload[r].new
    /\ reload' = [reload EXCEPT ![r] = NoReload]
    /\ UNCHANGED <<objects, file, registry, expected, op, power, watch, used, tidy, raced>>

ReloadStep(r) ==
    \/ SectionUnregistered(r) \/ SectionChanged(r) \/ LocksClients(r) \/ StoresConfigs(r)
    \/ Remove(r) \/ StopRemoved(r) \/ CreateAndStart(r) \/ StartFails(r) \/ Insert(r)
    \/ RejectPower(r) \/ SwapConfig(r)

(***************************************************************************)
(* ConnectorRegistry::toggle, from the admin API or the socket.            *)
(***************************************************************************)
BeginToggle(t, n) ==
    LET i == registry[n] IN
    /\ op[t].pc = "idle"
    /\ i # None
    /\ op' = [op EXCEPT ![t] =
                IF status[i] = "Running"
                THEN [pc |-> "stop", inst |-> i, value |-> None]
                ELSE [pc |-> "start", inst |-> i, value |-> stored[i]]]
    /\ Touch(t, i)
    /\ Spend("toggles", MaxToggles)
    /\ UNCHANGED <<objects, file, config, registry, expected, reload, power, watch, tidy>>

ToggleStops(t) ==
    /\ op[t].pc = "stop"
    /\ ~ClientsHeld(op[t].inst)
    /\ Stop(op[t].inst)
    /\ Touch(t, op[t].inst)
    /\ op' = [op EXCEPT ![t] = NoOp]
    /\ UNCHANGED <<file, config, registry, expected, reload, power, watch, used, tidy>>

\* AFFiNE's start, first half: what it is going to build it reads with the
\* configs locked.
TakesConfigs(t) ==
    /\ op[t].pc = "start" /\ KindOf(op[t].inst) = "affine"
    /\ ~ConfigsHeld(op[t].inst)
    /\ op' = [op EXCEPT ![t].pc = "clients", ![t].value = stored[op[t].inst]]
    /\ UNCHANGED <<objects, file, config, registry, expected, reload, power, watch, used, tidy, raced>>

ToggleStarts(t) ==
    /\ \/ op[t].pc = "start" /\ KindOf(op[t].inst) # "affine"
       \/ op[t].pc = "clients" /\ ~ClientsHeld(op[t].inst)
    /\ Start(op[t].inst, op[t].value)
    /\ Touch(t, op[t].inst)
    /\ op' = [op EXCEPT ![t] = NoOp]
    /\ UNCHANGED <<file, config, registry, expected, reload, power, watch, used, tidy>>

ToggleFails(t) ==
    /\ op[t].pc = "start"
    /\ owner[op[t].inst] \in MayFail
    /\ op' = [op EXCEPT ![t] = NoOp]
    /\ UNCHANGED <<objects, file, config, registry, expected, reload, power, watch, used, tidy, raced>>

ToggleStep(t) == ToggleStops(t) \/ TakesConfigs(t) \/ ToggleStarts(t) \/ ToggleFails(t)

(***************************************************************************)
(* The power state, and the task spawned in main that follows it through a *)
(* watch channel: transitions it was too slow for are coalesced.           *)
(***************************************************************************)
FlipPower ==
    /\ power' = IF power = "Active" THEN "Resting" ELSE "Active"
    /\ Spend("flips", MaxFlips)
    /\ UNCHANGED <<objects, file, config, registry, expected, reload, op, watch, tidy, raced>>

\* rx.changed() fires if anything was sent since, and borrows the latest state.
BeginWalk ==
    /\ watch.pc = "idle"
    /\ watch.seen # used.flips
    /\ watch' = [pc |-> "walk", seen |-> used.flips, goal |-> power,
                 todo |-> Registered, inst |-> None]
    /\ UNCHANGED <<objects, file, config, registry, expected, reload, op, power, used, tidy, raced>>

Walking(n) == watch.pc = "walk" /\ watch.inst = None /\ n \in watch.todo

\* The connector is not in the status this pass is about, or it is a resume
\* whose bot is gone, which is logged.
WalkPast(n) ==
    LET i == registry[n] IN
    /\ Walking(n)
    /\ \/ watch.goal = "Resting" /\ status[i] # "Running"
       \/ watch.goal = "Active" /\ (status[i] # "Suspended" \/ built[i] = None)
    /\ watch' = [watch EXCEPT !.todo = @ \ {n}]
    /\ UNCHANGED <<objects, file, config, registry, expected, reload, op, power, used, tidy, raced>>

WalkSuspends(n) ==
    LET i == registry[n] IN
    /\ Walking(n)
    /\ watch.goal = "Resting" /\ status[i] = "Running"
    /\ ~ClientsHeld(i)
    /\ Suspend(i)
    /\ Touch(Watcher, i)
    /\ watch' = [watch EXCEPT !.todo = @ \ {n}]
    /\ UNCHANGED <<file, config, registry, expected, reload, op, power, used, tidy>>

\* resume has its bot and is about to spawn the sync task.
WalkBeginsResume(n) ==
    LET i == registry[n] IN
    /\ Walking(n)
    /\ watch.goal = "Active" /\ status[i] = "Suspended" /\ built[i] # None
    /\ watch' = [watch EXCEPT !.todo = @ \ {n}, !.inst = i]
    /\ Touch(Watcher, i)
    /\ UNCHANGED <<objects, file, config, registry, expected, reload, op, power, used, tidy>>

WalkResumes ==
    /\ watch.inst # None
    /\ Resume(watch.inst)
    /\ Touch(Watcher, watch.inst)
    /\ watch' = [watch EXCEPT !.inst = None]
    /\ UNCHANGED <<file, config, registry, expected, reload, op, power, used, tidy>>

EndWalk ==
    /\ watch.pc = "walk" /\ watch.inst = None /\ watch.todo = {}
    /\ watch' = [watch EXCEPT !.pc = "idle"]
    /\ UNCHANGED <<objects, file, config, registry, expected, reload, op, power, used, tidy, raced>>

WatchStep ==
    \/ BeginWalk \/ WalkResumes \/ EndWalk
    \/ \E n \in Names : WalkPast(n) \/ WalkSuspends(n) \/ WalkBeginsResume(n)

(***************************************************************************)
(* A sync task or a posting loop ends by itself, and nobody is told.       *)
(***************************************************************************)
LoseTask ==
    /\ \E i \in Instances : TaskEnds(i)
    /\ Spend("ends", MaxEnds)
    /\ UNCHANGED <<file, config, registry, expected, reload, op, power, watch, tidy, raced>>

----------------------------------------------------------------------------

Next ==
    \/ EditFile
    \/ FlipPower
    \/ LoseTask
    \/ WatchStep
    \/ \E r \in Reloaders : RejectFile(r) \/ BeginReload(r) \/ ReloadStep(r)
    \/ \E t \in Operators : ToggleStep(t) \/ \E n \in Names : BeginToggle(t, n)

(***************************************************************************)
(* Started calls and the watcher are tokio tasks: they are polled until    *)
(* they are done, and a Matrix login has matrix-sdk's request timeout.     *)
(* Who edits the file, reloads, toggles or is busy enough to flip the      *)
(* power state owes nothing, and no task is bound to end.                  *)
(***************************************************************************)
Fairness ==
    /\ WF_vars(WatchStep)
    /\ \A r \in Reloaders : WF_vars(ReloadStep(r))
    /\ \A t \in Operators : WF_vars(ToggleStep(t))

Spec == Init /\ [][Next]_vars /\ Fairness

(***************************************************************************)
(* Properties.                                                             *)
(***************************************************************************)

\* Types, and what they exclude: a status that start and stop do not know, a
\* registry entry that is no connector, a reload that holds no config.
TypeOK ==
    /\ ObjectsTypeOK
    /\ file \in Configs \cup {Unparsable}
    /\ config \in Configs
    /\ registry \in [Names -> Instances \cup {None}]
    /\ expected \in [{n \in Names : Kind[n] = "social"} -> Values \cup {None}]
    /\ reload \in [Reloaders ->
            [pc : {"idle", "section", "configs", "create", "remove", "stop", "insert"},
             old : Configs, new : Configs, todo : SUBSET Names, inst : Instances \cup {None}]]
    /\ op \in [Operators -> [pc : {"idle", "stop", "start", "clients"},
                             inst : Instances \cup {None}, value : Values \cup {None}]]
    /\ power \in {"Active", "Resting"}
    /\ watch \in [pc : {"idle", "walk"}, seen : Nat, goal : {"Active", "Resting"},
                  todo : SUBSET Names, inst : Instances \cup {None}]
    /\ used \in [edits : Nat, reloads : Nat, toggles : Nat, flips : Nat, ends : Nat]
    /\ tidy \in BOOLEAN
    /\ raced \subseteq Names

LiveTasks(n) == {i \in Instances : owner[i] = n /\ task[i]}

\* Sync tasks and posting loops are never doubled, and never left without a
\* handle to stop them by, on a name whose lifecycle calls did not overlap:
\* replacing a connector, toggling it and power transitions all hand over.
NoDoubledTask ==
    \A n \in Names \ raced :
        /\ Cardinality(LiveTasks(n)) <= 1
        /\ \A i \in Instances : owner[i] = n => orphans[i] = 0

\* A task that runs belongs to a connector someone can still stop: it is in
\* the registry, or a reload is holding it between register's start and insert
\* or between deregister's remove and stop.
TaskIsReachable ==
    \A n \in Names \ raced : \A i \in LiveTasks(n) :
        \/ registry[n] = i
        \/ \E r \in Reloaders : reload[r].inst = i

\* As long as reloads come one at a time and none fails, the registry holds
\* exactly the connectors whose sections the config has, each holding its
\* section, and the heartbeat expects the platforms of that config.
RegistryFollowsConfig ==
    tidy /\ NoneReloading =>
        /\ Registered = Present(config)
        /\ \A n \in Registered : stored[registry[n]] = config.section[n]
        /\ \A n \in DOMAIN expected : expected[n] = config.section[n]

\* A registered connector that says Running has what its callers ask it for: a
\* client, bot or loop, and a Matrix one has its sync task too unless that has
\* ended by itself, which no status tells; one that says it does not run has no
\* background task.
StatusIsTrue ==
    \A n \in Registered \ raced :
        LET i == registry[n] IN
        /\ status[i] = "Running" /\ Kind[n] # "plain" => built[i] # None
        /\ status[i] = "Running" /\ Kind[n] = "matrix" => task[i] \/ i \in ended
        /\ status[i] # "Running" => ~task[i]

\* A start of AFFiNE and a reload each hold the mutex the other waits for.
Embrace == \E i \in Instances : ConfigsHeld(i) /\ ClientsHeld(i)

\* Every reload ends, with its config swapped in or with an error, although it
\* waits for the watcher to give the registry's lock back and for calls that
\* others make on the same connector, or it comes to the one embrace there is.
ReloadEnds ==
    \A r \in Reloaders : (reload[r].pc # "idle") ~> (reload[r].pc = "idle" \/ Embrace)

(***************************************************************************)
(* What the documentation promises and the code does not keep.             *)
(***************************************************************************)

\* README, Hot reload: a section that changed is applied in place or by a
\* restart, so once tidy reloads are over a connector that runs has built its
\* client, bot or loop from the section the config has.
RunsOnCurrentConfig ==
    tidy /\ NoneReloading =>
        \A n \in Registered \ raced :
            LET i == registry[n] IN
            status[i] = "Running" /\ built[i] # None => built[i] = config.section[n]

\* README, Hot reload: a reload of an invalid file leaves the daemon with the
\* previous config, so when reloads come one at a time the registry matches the
\* config whenever none is running, even if one of them failed.
FailsSafely ==
    NoneReloading =>
        /\ Registered = Present(config)
        /\ \A n \in Registered : stored[registry[n]] = config.section[n]

=============================================================================
