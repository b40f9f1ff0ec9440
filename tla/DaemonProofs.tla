----------------------------- MODULE DaemonProofs -----------------------------
(***************************************************************************)
(* Tasks are single, reachable and truly reported, for any set of names of *)
(* any kinds, any configs, and any number of reloads, operators, toggles,  *)
(* power transitions and tasks that end by themselves, on every name whose *)
(* lifecycle calls did not overlap.                                        *)
(*                                                                         *)
(* A connector is current if it is registered or a reload holds it between *)
(* register's two halves or deregister's.  A name has one current          *)
(* connector at most, only that one has a task, and whoever is about to    *)
(* start or resume one has a current one without a task: anybody else who  *)
(* touched it meanwhile has made the name raced.                           *)
(*                                                                         *)
(* And while reloads come one at a time and none has failed, the registry  *)
(* follows the config, section by section.                                 *)
(***************************************************************************)
EXTENDS Daemon, FiniteSetTheorems, WellFoundedInduction, TLAPS

ReloadRecords == [pc : {"idle", "section", "configs", "create", "remove", "stop", "insert"},
                  old : Configs, new : Configs, todo : SUBSET Names, inst : Instances \cup {None}]
OpRecords == [pc : {"idle", "stop", "start", "clients"},
              inst : Instances \cup {None}, value : Values \cup {None}]
Counts == [edits : Nat, reloads : Nat, toggles : Nat, flips : Nat, ends : Nat]
WatchRecords == [pc : {"idle", "walk"}, seen : Nat, goal : {"Active", "Resting"},
                 todo : SUBSET Names, inst : Instances \cup {None}]

Of(n) == {i \in Instances : owner[i] = n}

Holds(r, i) == reload[r].pc \in {"stop", "insert"} /\ reload[r].inst = i

Current(i) == registry[owner[i]] = i \/ \E r \in Reloaders : Holds(r, i)

\* What a connector that exists is like, whoever raced for it.
Objects ==
    \A i \in Instances :
        /\ status[i] # "Running" => ~task[i]
        /\ owner[i] = None => ~task[i] /\ orphans[i] = 0
        /\ owner[i] # None => stored[i] # None
        /\ owner[i] # None /\ status[i] = "Running" /\ KindOf(i) = "matrix" =>
              task[i] \/ i \in ended

\* What a reload has in its hands is of the section it is at.
Reloading(r) ==
    /\ reload[r].todo \subseteq Changed(reload[r].old, reload[r].new)
    /\ reload[r].pc \in {"configs", "create", "remove", "stop", "insert"} => reload[r].todo # {}
    /\ reload[r].pc \in {"configs", "stop", "insert"} =>
          reload[r].inst \in Instances /\ owner[reload[r].inst] = Section(r)
    /\ reload[r].pc \in {"configs", "create"} => Wants(r) # None

Toggling(t) ==
    op[t].pc # "idle" =>
        /\ op[t].inst \in Instances /\ owner[op[t].inst] \in Names
        /\ op[t].pc \in {"start", "clients"} => op[t].value # None

\* The watcher keeps the registry as it found it.
Watching ==
    /\ watch.inst # None => watch.pc = "walk" /\ \E n \in Names : registry[n] = watch.inst
    /\ watch.pc = "walk" => watch.todo \subseteq Registered

Roles ==
    /\ \A n \in Names : registry[n] # None => owner[registry[n]] = n
    /\ \A r \in Reloaders : Reloading(r)
    /\ \A t \in Operators : Toggling(t)
    /\ Watching

OneCurrent(n) == \A i, j \in Of(n) : Current(i) /\ Current(j) => i = j

InOrder(n) ==
    \A i \in Of(n) :
        /\ task[i] => Current(i)
        /\ orphans[i] = 0
        /\ status[i] = "Running" /\ Kind[n] # "plain" => built[i] # None

\* Whoever is about to start or resume a connector of n.
CallsAlone(n) ==
    /\ \A t \in Operators : op[t].pc # "idle" /\ op[t].inst \in Of(n) =>
          /\ Current(op[t].inst)
          /\ op[t].pc \in {"start", "clients"} => ~task[op[t].inst]
    /\ watch.inst \in Of(n) => ~task[watch.inst] /\ built[watch.inst] # None

Quiet(n) == OneCurrent(n) /\ InOrder(n) /\ CallsAlone(n)

IInv == TypeOK /\ Objects /\ Roles /\ \A n \in Names \ raced : Quiet(n)

----------------------------------------------------------------------------
\* Choices the code makes are there to be made.

LEMMA LeastNumber == ASSUME NEW T \in SUBSET Nat, T # {} PROVE \E k \in T : \A l \in T : k <= l
<1> DEFINE R == {p \in Nat \X Nat : p[1] < p[2]}
<1>1. IsWellFoundedOn(R, Nat)
  BY NatLessThanWellFounded DEF OpToRel
<1>2. PICK k \in T : \A l \in T : ~(<<l, k>> \in R)
  <2> HIDE DEF R
  <2> QED
    BY <1>1, WFMin
<1>3. \A l \in Nat : l < k => <<l, k>> \in R
  OBVIOUS
<1>4. \A l \in T : ~(l < k)
  BY <1>2, <1>3
<1> QED
  BY <1>4

LEMMA EarliestIsOne == ASSUME NEW todo \in SUBSET Names, todo # {} PROVE Earliest(todo) \in todo
<1> DEFINE T == {k \in 1 .. Len(Order) : Order[k] \in todo}
<1>1. T \in SUBSET Nat /\ T # {}
  <2>1. Len(Order) \in Nat
    BY OrderAssumption
  <2>2. T \in SUBSET Nat
    BY <2>1
  <2>3. PICK n \in Names : n \in todo
    OBVIOUS
  <2>4. PICK first \in 1 .. Len(Order) : Order[first] = n
    BY <2>3, OrderAssumption
  <2> QED
    BY <2>2, <2>3, <2>4
<1>2. PICK least \in T : \A l \in T : least <= l
  BY <1>1, LeastNumber
<1>3. \E k \in 1 .. Len(Order) :
          Order[k] \in todo /\ \A l \in 1 .. Len(Order) : Order[l] \in todo => k <= l
  BY <1>2
<1> QED
  BY <1>3 DEF Earliest

LEMMA FreshIsUnmade == Unmade # {} => Fresh \in Instances /\ owner[Fresh] = None
<1> SUFFICES ASSUME Unmade # {} PROVE Fresh \in Unmade
  BY DEF Unmade
<1>1. Unmade \in SUBSET Nat
  BY InstancesAssumption DEF Unmade
<1>2. \E i \in Unmade : \A j \in Unmade : i <= j
  BY <1>1, LeastNumber
<1> QED
  BY <1>2 DEF Fresh

----------------------------------------------------------------------------
\* What a lifecycle call does to the instance it is made on, and that it leaves
\* the others alone.

Only(i) ==
    \A j \in Instances \ {i} :
        /\ owner'[j] = owner[j] /\ stored'[j] = stored[j] /\ built'[j] = built[j]
        /\ status'[j] = status[j] /\ task'[j] = task[j] /\ orphans'[j] = orphans[j]
        /\ j \in ended' <=> j \in ended

LEMMA NewStartedDoes ==
    ASSUME ObjectsTypeOK, NEW i \in Instances, NEW n \in Names, NEW v \in Values \cup {None},
           NewStarted(i, n, v)
    PROVE  /\ ObjectsTypeOK' /\ Only(i)
           /\ owner'[i] = n /\ stored'[i] = v /\ built'[i] = Builds(Kind[n], v)
           /\ status'[i] = "Running" /\ task'[i] = Spawns(Kind[n], v) /\ orphans'[i] = orphans[i]
<1>1. Builds(Kind[n], v) \in Values \cup {None} /\ Spawns(Kind[n], v) \in BOOLEAN
  BY DEF Builds, Spawns
<1> QED
  BY <1>1 DEF ObjectsTypeOK, NewStarted, Only, Statuses

LEMMA StopDoes ==
    ASSUME ObjectsTypeOK, NEW i \in Instances, Stop(i)
    PROVE  /\ ObjectsTypeOK' /\ Only(i) /\ owner' = owner /\ stored' = stored /\ orphans' = orphans
           /\ status'[i] = "Stopped" /\ ~task'[i]
BY DEF ObjectsTypeOK, Stop, Only, Statuses

LEMMA SpawnDoes ==
    ASSUME ObjectsTypeOK, NEW i \in Instances, Spawn(i)
    PROVE  /\ task' \in [Instances -> BOOLEAN] /\ orphans' \in [Instances -> Nat]
           /\ task'[i]
           /\ ~task[i] => orphans'[i] = orphans[i]
           /\ \A j \in Instances \ {i} : task'[j] = task[j] /\ orphans'[j] = orphans[j]
           /\ ended' \subseteq Instances /\ \A j \in Instances \ {i} : j \in ended' <=> j \in ended
<1>1. orphans \in [Instances -> Nat] /\ task \in [Instances -> BOOLEAN] /\ ended \subseteq Instances
  BY DEF ObjectsTypeOK
<1>2. orphans[i] + (IF task[i] THEN 1 ELSE 0) \in Nat
  BY <1>1
<1>3. ~task[i] => orphans[i] + (IF task[i] THEN 1 ELSE 0) = orphans[i]
  BY <1>1
<1> QED
  BY <1>1, <1>2, <1>3 DEF Spawn

LEMMA StartDoes ==
    ASSUME ObjectsTypeOK, NEW i \in Instances, NEW v \in Values \cup {None}, Start(i, v)
    PROVE  /\ ObjectsTypeOK' /\ Only(i) /\ owner' = owner /\ stored' = stored
           /\ built'[i] = Builds(KindOf(i), v) /\ status'[i] = "Running"
           /\ KindOf(i) = "matrix" => task'[i]
           /\ ~task[i] => orphans'[i] = orphans[i]
<1>1. /\ task' \in [Instances -> BOOLEAN] /\ orphans' \in [Instances -> Nat]
      /\ KindOf(i) = "matrix" => task'[i]
      /\ ~task[i] => orphans'[i] = orphans[i]
      /\ \A j \in Instances \ {i} : task'[j] = task[j] /\ orphans'[j] = orphans[j]
      /\ ended' \subseteq Instances /\ \A j \in Instances \ {i} : j \in ended' <=> j \in ended
  <2>1. CASE Spawns(KindOf(i), v)
    BY <2>1, SpawnDoes DEF Start
  <2>2. CASE ~Spawns(KindOf(i), v)
    BY <2>2 DEF Start, ObjectsTypeOK, Spawns
  <2> QED
    BY <2>1, <2>2
<1>2. Builds(KindOf(i), v) \in Values \cup {None}
  BY DEF Builds
<1> QED
  BY <1>1, <1>2 DEF Start, ObjectsTypeOK, Only, Statuses

LEMMA SuspendDoes ==
    ASSUME ObjectsTypeOK, NEW i \in Instances, Suspend(i)
    PROVE  /\ ObjectsTypeOK' /\ Only(i) /\ owner' = owner /\ stored' = stored /\ orphans' = orphans
           /\ \/ status'[i] # "Running" /\ ~task'[i]
              \/ UNCHANGED objects
<1>1. CASE KindOf(i) = "matrix"
  BY <1>1 DEF Suspend, ObjectsTypeOK, Only, Statuses
<1>2. CASE KindOf(i) = "social"
  BY <1>2 DEF Suspend, ObjectsTypeOK, Only, objects
<1>3. CASE KindOf(i) # "matrix" /\ KindOf(i) # "social"
  BY <1>3, StopDoes DEF Suspend
<1> QED
  BY <1>1, <1>2, <1>3

LEMMA ResumeDoes ==
    ASSUME ObjectsTypeOK, NEW i \in Instances, Resume(i)
    PROVE  /\ ObjectsTypeOK' /\ Only(i) /\ owner' = owner /\ stored' = stored /\ built' = built
           /\ status'[i] = "Running" /\ task'[i]
           /\ ~task[i] => orphans'[i] = orphans[i]
<1>1. Spawn(i)
  BY DEF Resume
<1> QED
  BY <1>1, SpawnDoes DEF Resume, ObjectsTypeOK, Only, Statuses

LEMMA RebuildDoes ==
    ASSUME ObjectsTypeOK, NEW i \in Instances, NEW v \in Values \cup {None}, Rebuild(i, v)
    PROVE  /\ ObjectsTypeOK' /\ Only(i) /\ UNCHANGED <<owner, stored, status, task, orphans, ended>>
           /\ built'[i] = v
BY DEF Rebuild, ObjectsTypeOK, Only

LEMMA StoreDoes ==
    ASSUME ObjectsTypeOK, NEW i \in Instances, NEW v \in Values \cup {None}, Store(i, v)
    PROVE  /\ ObjectsTypeOK' /\ Only(i) /\ UNCHANGED <<owner, built, status, task, orphans, ended>>
           /\ stored'[i] = v
BY DEF Store, ObjectsTypeOK, Only

----------------------------------------------------------------------------
\* Where reloads, operators and names stand.

LEMMA Types ==
    ASSUME TypeOK
    PROVE  /\ reload \in [Reloaders -> ReloadRecords] /\ op \in [Operators -> OpRecords]
           /\ watch \in WatchRecords /\ ObjectsTypeOK
           /\ registry \in [Names -> Instances \cup {None}]
           /\ None \notin Names /\ None \notin Instances
BY NoneAssumption DEF TypeOK, ReloadRecords, OpRecords, WatchRecords

\* A reload that has a section left is at one that differs.
LEMMA AtItsSection ==
    ASSUME TypeOK, NEW r \in Reloaders, Reloading(r), reload[r].todo # {}
    PROVE  /\ Section(r) \in Names /\ Section(r) \in reload[r].todo
           /\ Was(r) \in Values \cup {None} /\ Wants(r) \in Values \cup {None}
           /\ Was(r) # Wants(r)
<1>1. reload[r] \in ReloadRecords
  BY Types
<1>2. reload[r].todo \in SUBSET Names /\ reload[r].old \in Configs /\ reload[r].new \in Configs
  BY <1>1 DEF ReloadRecords
<1>3. Section(r) \in reload[r].todo
  BY <1>2, EarliestIsOne DEF Section
<1>4. Section(r) \in Names
  BY <1>2, <1>3
<1>5. Section(r) \in Changed(reload[r].old, reload[r].new)
  BY <1>3 DEF Reloading
<1>6. /\ reload[r].old.section \in [Names -> Values \cup {None}]
      /\ reload[r].new.section \in [Names -> Values \cup {None}]
  BY <1>2 DEF Configs
<1> QED
  BY <1>3, <1>4, <1>5, <1>6 DEF Was, Wants, Changed

LEMMA MovesDoes ==
    ASSUME TypeOK, NEW r \in Reloaders, NEW pc \in {"section", "configs", "create", "remove", "stop", "insert"},
           NEW i \in Instances \cup {None}, Moves(r, pc, i)
    PROVE  /\ reload' \in [Reloaders -> ReloadRecords]
           /\ reload'[r].pc = pc /\ reload'[r].inst = i /\ reload'[r].todo = reload[r].todo
           /\ reload'[r].old = reload[r].old /\ reload'[r].new = reload[r].new
           /\ \A q \in Reloaders \ {r} : reload'[q] = reload[q]
<1>1. reload \in [Reloaders -> ReloadRecords] /\ reload[r] \in ReloadRecords
  BY Types
<1> DEFINE rec == [reload[r] EXCEPT !.pc = pc, !.inst = i]
<1>2. reload' = [reload EXCEPT ![r] = rec]
  BY DEF Moves
<1>3. /\ rec \in ReloadRecords
      /\ rec.pc = pc /\ rec.inst = i /\ rec.todo = reload[r].todo
      /\ rec.old = reload[r].old /\ rec.new = reload[r].new
  BY <1>1 DEF ReloadRecords
<1> HIDE DEF rec
<1> QED
  BY <1>1, <1>2, <1>3

LEMMA SectionDoneDoes ==
    ASSUME TypeOK, NEW r \in Reloaders, SectionDone(r)
    PROVE  /\ reload' \in [Reloaders -> ReloadRecords]
           /\ reload'[r].pc = "section" /\ reload'[r].inst = None
           /\ reload'[r].todo = reload[r].todo \ {Section(r)}
           /\ reload'[r].old = reload[r].old /\ reload'[r].new = reload[r].new
           /\ \A q \in Reloaders \ {r} : reload'[q] = reload[q]
<1>1. reload \in [Reloaders -> ReloadRecords] /\ reload[r] \in ReloadRecords
  BY Types
<1> DEFINE rec == [reload[r] EXCEPT !.pc = "section", !.inst = None, !.todo = @ \ {Section(r)}]
<1>2. reload' = [reload EXCEPT ![r] = rec]
  BY DEF SectionDone
<1>3. /\ rec \in ReloadRecords
      /\ rec.pc = "section" /\ rec.inst = None /\ rec.todo = reload[r].todo \ {Section(r)}
      /\ rec.old = reload[r].old /\ rec.new = reload[r].new
  BY <1>1 DEF ReloadRecords
<1> HIDE DEF rec
<1> QED
  BY <1>1, <1>2, <1>3

\* A reload at a section, or at the next, has nothing in its hands.
LEMMA SectionDoneSound ==
    ASSUME TypeOK, NEW r \in Reloaders, Reloading(r), SectionDone(r)
    PROVE  Reloading(r)'
<1>1. Changed(reload[r].old, reload[r].new)' = Changed(reload'[r].old, reload'[r].new)
  BY DEF Changed
<1>2. Changed(reload'[r].old, reload'[r].new) = Changed(reload[r].old, reload[r].new)
  BY SectionDoneDoes
<1> QED
  BY <1>1, <1>2, SectionDoneDoes DEF Reloading

\* A reload that did not move, while no instance changed hands, is where it was.
LEMMA ReloadingStays ==
    ASSUME TypeOK, NEW r \in Reloaders, Reloading(r), reload'[r] = reload[r],
           \A i \in Instances : owner[i] # None => owner'[i] = owner[i]
    PROVE  Reloading(r)'
<1>1. Section(r)' = Section(r) /\ Wants(r)' = Wants(r)
  BY DEF Section, Wants, Earliest
<1>2. Changed(reload[r].old, reload[r].new)' = Changed(reload[r].old, reload[r].new)
  BY DEF Changed
<1>3. ASSUME reload[r].pc \in {"configs", "stop", "insert"} PROVE owner'[reload[r].inst] = Section(r)
  <2>1. Section(r) \in Names
    BY <1>3, AtItsSection DEF Reloading
  <2> QED
    BY <1>3, <2>1, Types DEF Reloading
<1> QED
  BY <1>1, <1>2, <1>3 DEF Reloading

LEMMA TogglingStays ==
    ASSUME TypeOK, NEW t \in Operators, Toggling(t), op'[t] = op[t] \/ op'[t].pc = "idle",
           \A i \in Instances : owner[i] # None => owner'[i] = owner[i]
    PROVE  Toggling(t)'
BY Types DEF Toggling

\* The registry is as it was, and no instance changed hands: so are the roles of
\* all that did not move.
LEMMA RolesStay ==
    ASSUME TypeOK, Roles, registry' = registry,
           \A i \in Instances : owner[i] # None => owner'[i] = owner[i],
           \A r \in Reloaders : reload'[r] = reload[r] \/ Reloading(r)',
           \A t \in Operators : op'[t] = op[t] \/ op'[t].pc = "idle" \/ Toggling(t)',
           Watching'
    PROVE  Roles'
<1>1. \A n \in Names : registry'[n] # None => owner'[registry'[n]] = n
  BY Types DEF Roles
<1>2. \A r \in Reloaders : Reloading(r)'
  BY ReloadingStays DEF Roles
<1>3. \A t \in Operators : Toggling(t)'
  BY TogglingStays DEF Roles
<1> QED
  BY <1>1, <1>2, <1>3 DEF Roles

\* An operator waits for the second of AFFiNE's mutexes instead of the first.
GoesOn(t) == op[t].pc = "start" /\ op'[t].pc = "clients" /\ op'[t].inst = op[t].inst

\* A name nothing happened to, but that a task of its own may have ended.
LEMMA QuietStays ==
    ASSUME TypeOK, NEW n \in Names, Quiet(n), Of(n)' = Of(n),
           \A i \in Of(n) :
               /\ status'[i] = status[i] /\ built'[i] = built[i]
               /\ task'[i] => task[i]
               /\ orphans[i] = 0 => orphans'[i] = 0
               /\ Current(i)' <=> Current(i),
           \A t \in Operators :
               op'[t] = op[t] \/ op'[t].pc = "idle" \/ op'[t].inst \notin Of(n) \/ GoesOn(t),
           watch'.inst = watch.inst \/ watch'.inst \notin Of(n)
    PROVE  Quiet(n)'
<1>1. OneCurrent(n)'
  BY DEF Quiet, OneCurrent
<1>2. InOrder(n)'
  BY DEF Quiet, InOrder
<1>3. CallsAlone(n)'
  <2>1. ASSUME NEW t \in Operators, op'[t].pc # "idle", NEW i \in Of(n), op'[t].inst = i
        PROVE  Current(i)' /\ (op'[t].pc \in {"start", "clients"} => ~task'[i])
    <3>1. op[t].pc # "idle" /\ op[t].inst = i
          /\ (op'[t].pc \in {"start", "clients"} => op[t].pc \in {"start", "clients"})
      BY <2>1 DEF GoesOn
    <3>2. Current(i) /\ (op[t].pc \in {"start", "clients"} => ~task[i])
      BY <2>1, <3>1 DEF Quiet, CallsAlone
    <3> QED
      BY <3>1, <3>2
  <2>2. ASSUME NEW i \in Of(n), watch'.inst = i PROVE ~task'[i] /\ built'[i] # None
    BY <2>2 DEF Quiet, CallsAlone
  <2> QED
    BY <2>1, <2>2 DEF CallsAlone, Current, Holds
<1> QED
  BY <1>1, <1>2, <1>3 DEF Quiet

----------------------------------------------------------------------------
\* A step that starts, stops and builds nothing, and leaves the registry alone.
LEMMA NothingCalled ==
    ASSUME IInv, TypeOK', UNCHANGED <<owner, built, status, registry>>, raced \subseteq raced',
           \A i \in Instances :
               /\ task'[i] => task[i]
               /\ orphans[i] = 0 => orphans'[i] = 0
               /\ stored[i] # None => stored'[i] # None
               /\ task[i] \/ i \in ended => task'[i] \/ i \in ended',
           \A r \in Reloaders :
               \/ reload'[r] = reload[r]
               \/ /\ reload[r].pc \notin {"stop", "insert"} /\ reload'[r].pc \notin {"stop", "insert"}
                  /\ Reloading(r)',
           \A t \in Operators :
               op'[t] = op[t] \/ op'[t].pc = "idle" \/ (GoesOn(t) /\ Toggling(t)'),
           watch'.inst = watch.inst, Watching'
    PROVE  IInv'
<1> USE DEF IInv
<1>1. Objects'
  BY DEF Objects, KindOf
<1>2. Roles'
  BY RolesStay
<1>3. \A i \in Instances : Current(i)' <=> Current(i)
  BY DEF Current, Holds
<1>4. ASSUME NEW n \in Names \ raced PROVE Quiet(n)'
  <2>1. Of(n)' = Of(n) /\ Of(n) \subseteq Instances
    BY DEF Of
  <2> QED
    BY <1>3, <1>4, <2>1, QuietStays
<1> QED
  BY <1>1, <1>2, <1>4

\* A step that calls no connector and leaves the registry alone.
LEMMA NoCall ==
    ASSUME IInv, TypeOK', UNCHANGED objects, registry' = registry, raced' = raced,
           \A r \in Reloaders :
               \/ reload'[r] = reload[r]
               \/ /\ reload[r].pc \notin {"stop", "insert"} /\ reload'[r].pc \notin {"stop", "insert"}
                  /\ Reloading(r)',
           \A t \in Operators :
               op'[t] = op[t] \/ op'[t].pc = "idle" \/ (GoesOn(t) /\ Toggling(t)'),
           watch'.inst = watch.inst, Watching'
    PROVE  IInv'
BY NothingCalled DEF objects

\* A touch is noticed if somebody else is in a call.
LEMMA TouchDoes ==
    ASSUME TypeOK, NEW a \in Actors, NEW i \in Instances, owner[i] \in Names, Touch(a, i)
    PROVE  /\ raced' \subseteq Names /\ raced \subseteq raced'
           /\ owner[i] \notin raced' => \A b \in Actors \ {a} : ~InCall(b, i)
BY DEF Touch, TypeOK

\* Whoever calls the current connector of a name that is not raced is alone.
LEMMA CallAlone ==
    ASSUME IInv, NEW a \in Actors, NEW i \in Instances, NEW n \in Names, owner[i] = n,
           Touch(a, i), n \notin raced', Current(i)
    PROVE  /\ n \notin raced /\ Quiet(n)
           /\ \A t \in Operators : t # a /\ op[t].pc # "idle" => op[t].inst \notin Of(n)
           /\ a # Watcher => watch.inst \notin Of(n)
<1> USE DEF IInv
<1>1. n \notin raced /\ Quiet(n) /\ \A b \in Actors \ {a} : ~InCall(b, i)
  BY TouchDoes
<1>2. i \in Of(n)
  BY DEF Of
<1>3. ASSUME NEW t \in Operators, t # a, op[t].pc # "idle", op[t].inst \in Of(n) PROVE FALSE
  <2>1. Current(op[t].inst)
    BY <1>1, <1>3 DEF Quiet, CallsAlone
  <2>2. op[t].inst = i
    BY <1>1, <1>2, <1>3, <2>1 DEF Quiet, OneCurrent
  <2> QED
    BY <1>1, <1>3, <2>2 DEF InCall, Actors
<1>4. ASSUME a # Watcher, watch.inst \in Of(n) PROVE FALSE
  <2>1. watch.inst \in Instances /\ watch.inst # None /\ owner[watch.inst] = n
    BY <1>4, Types DEF Of
  <2>2. registry[n] = watch.inst
    BY <2>1 DEF Roles, Watching
  <2>3. Current(watch.inst)
    BY <2>1, <2>2 DEF Current
  <2>4. watch.inst = i
    BY <1>1, <1>2, <1>4, <2>3 DEF Quiet, OneCurrent
  <2> QED
    BY <1>1, <1>4, <2>4 DEF InCall, Actors
<1> QED
  BY <1>1, <1>3, <1>4

\* A call on a current connector that leaves it in order, ends with it, and changes
\* nobody else's mind about what is current.
LEMMA CallInv ==
    ASSUME IInv, TypeOK', NEW a \in Actors, NEW i \in Instances,
           owner[i] \in Names, Touch(a, i), owner[i] \notin raced' => Current(i),
           Only(i), owner' = owner, registry' = registry,
           status'[i] # "Running" => ~task'[i],
           stored'[i] # None,
           status'[i] = "Running" /\ KindOf(i) = "matrix" => task'[i] \/ i \in ended',
           owner[i] \notin raced' =>
               /\ task'[i] => Current(i)'
               /\ orphans'[i] = orphans[i]
               /\ status'[i] = "Running" /\ KindOf(i) # "plain" => built'[i] # None,
           \A r \in Reloaders :
               \/ reload'[r] = reload[r]
               \/ Reloading(r)' /\ reload'[r].pc \notin {"stop", "insert"}
                  /\ (reload[r].pc \in {"stop", "insert"} => reload[r].inst = i),
           \A t \in Operators : op'[t].pc = "idle" \/ (t # a /\ op'[t] = op[t]),
           watch'.inst = None \/ (a # Watcher /\ watch'.inst = watch.inst),
           Watching'
    PROVE  IInv'
<1> USE DEF IInv
<1>1. Objects'
  <2> SUFFICES ASSUME NEW j \in Instances
               PROVE  /\ status'[j] # "Running" => ~task'[j]
                      /\ owner[j] = None => ~task'[j] /\ orphans'[j] = 0
                      /\ owner[j] # None => stored'[j] # None
                      /\ owner[j] # None /\ status'[j] = "Running" /\ KindOf(j) = "matrix" =>
                             task'[j] \/ j \in ended'
    BY DEF Objects, KindOf
  <2>1. CASE j = i
    BY <2>1, Types
  <2>2. CASE j # i
    BY <2>2 DEF Only, Objects
  <2> QED
    BY <2>1, <2>2
<1>2. Roles'
  BY RolesStay
<1>3. ASSUME NEW j \in Instances \ {i} PROVE Current(j)' <=> Current(j)
  BY DEF Current, Holds
<1>4. Current(i)' => Current(i)
  BY DEF Current, Holds
<1>5. ASSUME NEW n \in Names \ raced', n # owner[i] PROVE Quiet(n)'
  <2>1. Of(n)' = Of(n) /\ Of(n) \subseteq Instances \ {i}
    BY <1>5 DEF Of
  <2>2. n \notin raced /\ Quiet(n)
    BY <1>5, TouchDoes
  <2>3. None \notin Of(n)
    BY <2>1, Types
  <2>4. \A j \in Of(n) :
            /\ status'[j] = status[j] /\ task'[j] = task[j]
            /\ orphans'[j] = orphans[j] /\ built'[j] = built[j]
            /\ Current(j)' <=> Current(j)
    BY <1>3, <2>1 DEF Only
  <2> QED
    BY <1>5, <2>1, <2>2, <2>3, <2>4, QuietStays
<1>6. ASSUME NEW n \in Names \ raced', n = owner[i] PROVE Quiet(n)'
  <2>1. /\ n \notin raced /\ Quiet(n)
        /\ \A t \in Operators : t # a /\ op[t].pc # "idle" => op[t].inst \notin Of(n)
        /\ a # Watcher => watch.inst \notin Of(n)
    BY <1>6, CallAlone
  <2>2. Of(n)' = Of(n) /\ i \in Of(n) /\ Of(n) \subseteq Instances
    BY <1>6 DEF Of
  <2>3. OneCurrent(n)'
    BY <1>3, <1>4, <2>1, <2>2 DEF Quiet, OneCurrent
  <2>4. InOrder(n)'
    <3> SUFFICES ASSUME NEW j \in Of(n)
                 PROVE  /\ task'[j] => Current(j)'
                        /\ orphans'[j] = 0
                        /\ status'[j] = "Running" /\ Kind[n] # "plain" => built'[j] # None
      BY <2>2 DEF InOrder
    <3>1. CASE j = i
      BY <1>6, <2>1, <3>1 DEF Quiet, InOrder, KindOf
    <3>2. CASE j # i
      BY <1>3, <2>1, <2>2, <3>2 DEF Quiet, InOrder, Only
    <3> QED
      BY <3>1, <3>2
  <2>5. CallsAlone(n)'
    <3>1. \A t \in Operators : op'[t].pc # "idle" => op'[t].inst \notin Of(n)
      BY <2>1
    <3>2. watch'.inst \notin Of(n)
      BY <2>1, <2>2, Types
    <3> QED
      BY <2>2, <3>1, <3>2 DEF CallsAlone
  <2> QED
    BY <2>3, <2>4, <2>5 DEF Quiet
<1> QED
  BY <1>1, <1>2, <1>5, <1>6

----------------------------------------------------------------------------
\* The steps that call no connector.

LEMMA SpendTyped ==
    ASSUME TypeOK, NEW what \in {"edits", "reloads", "toggles", "flips", "ends"}, NEW bound,
           Spend(what, bound)
    PROVE  used' \in Counts
<1>1. used \in Counts /\ used[what] \in Nat
  BY DEF TypeOK, Counts
<1>2. used' = [used EXCEPT ![what] = used[what] + 1] /\ used[what] + 1 \in Nat
  BY <1>1 DEF Spend
<1> QED
  BY <1>1, <1>2 DEF Counts

\* The watcher and the registry as they were.
LEMMA WatchingStays == ASSUME Watching, watch' = watch, registry' = registry PROVE Watching'
BY DEF Watching, Registered

LEMMA SurroundingsInv ==
    ASSUME IInv, EditFile \/ FlipPower \/ UNCHANGED vars \/ \E r \in Reloaders : RejectFile(r)
    PROVE  IInv'
<1>1. TypeOK /\ Watching
  BY DEF IInv, Roles
<1>2. CASE EditFile
  <2>1. UNCHANGED objects /\ used' \in Counts
    BY <1>1, <1>2, SpendTyped DEF EditFile
  <2>2. file' \in Configs \cup {Unparsable}
    BY <1>2, FilesAssumption DEF EditFile
  <2>3. TypeOK'
    BY <1>1, <1>2, <2>1, <2>2 DEF EditFile, TypeOK, objects, ObjectsTypeOK, Counts
  <2> QED
    BY <1>1, <1>2, <2>3, NoCall, WatchingStays DEF EditFile
<1>3. CASE FlipPower
  <2>1. UNCHANGED objects /\ used' \in Counts
    BY <1>1, <1>3, SpendTyped DEF FlipPower
  <2>2. TypeOK'
    BY <1>1, <1>3, <2>1 DEF FlipPower, TypeOK, objects, ObjectsTypeOK, Counts
  <2> QED
    BY <1>1, <1>3, <2>2, NoCall, WatchingStays DEF FlipPower
<1>4. CASE UNCHANGED vars
  <2>1. TypeOK'
    BY <1>1, <1>4 DEF vars, daemon, TypeOK, objects, ObjectsTypeOK
  <2> QED
    BY <1>1, <1>4, <2>1, NoCall, WatchingStays DEF vars, daemon
<1>5. ASSUME NEW r \in Reloaders, RejectFile(r) PROVE IInv'
  <2>1. UNCHANGED objects /\ used' \in Counts
    BY <1>1, <1>5, SpendTyped DEF RejectFile
  <2>2. TypeOK'
    BY <1>1, <1>5, <2>1 DEF RejectFile, TypeOK, objects, ObjectsTypeOK, Counts
  <2> QED
    BY <1>1, <1>5, <2>2, NoCall, WatchingStays DEF RejectFile
<1> QED
  BY <1>2, <1>3, <1>4, <1>5

\* A reload begins with the sections that differ.
LEMMA BeginReloadInv == ASSUME IInv, NEW r \in Reloaders, BeginReload(r) PROVE IInv'
<1>1. TypeOK /\ Watching /\ reload[r].pc = "idle"
  BY DEF IInv, Roles, BeginReload
<1> DEFINE rec == [pc |-> "section", old |-> config, new |-> file,
                   todo |-> Changed(config, file), inst |-> None]
<1>2. config \in Configs /\ file \in Configs /\ Changed(config, file) \subseteq Names
  BY <1>1 DEF BeginReload, TypeOK, Changed
<1>3. rec \in ReloadRecords
  BY <1>2 DEF ReloadRecords
<1>4. reload' = [reload EXCEPT ![r] = rec]
  BY DEF BeginReload
<1>5. /\ reload' \in [Reloaders -> ReloadRecords] /\ reload'[r] = rec
      /\ \A q \in Reloaders \ {r} : reload'[q] = reload[q]
  BY <1>1, <1>3, <1>4, Types
<1>6. used' \in Counts
  BY <1>1, SpendTyped DEF BeginReload
<1>7. TypeOK'
  BY <1>1, <1>5, <1>6 DEF BeginReload, TypeOK, objects, ObjectsTypeOK, Counts, ReloadRecords
<1>8. Reloading(r)'
  <2>1. Changed(config, file) = Changed(reload'[r].old, reload'[r].new)
    BY <1>5
  <2>2. Changed(reload'[r].old, reload'[r].new) = Changed(reload[r].old, reload[r].new)'
    BY DEF Changed
  <2> QED
    BY <1>5, <2>1, <2>2 DEF Reloading
<1> QED
  BY <1>1, <1>5, <1>7, <1>8, NoCall, WatchingStays DEF BeginReload

\* A reload that has ended holds nothing.
LEMMA EndsReload ==
    ASSUME TypeOK, NEW r \in Reloaders, reload' = [reload EXCEPT ![r] = NoReload]
    PROVE  /\ reload' \in [Reloaders -> ReloadRecords]
           /\ reload'[r].pc = "idle" /\ Reloading(r)'
           /\ \A q \in Reloaders \ {r} : reload'[q] = reload[q]
<1>1. NoReload \in ReloadRecords
  BY FilesAssumption DEF NoReload, ReloadRecords
<1>2. /\ reload' \in [Reloaders -> ReloadRecords] /\ reload'[r] = NoReload
      /\ \A q \in Reloaders \ {r} : reload'[q] = reload[q]
  BY <1>1, Types
<1>3. reload'[r].pc = "idle" /\ reload'[r].todo = {}
  BY <1>2 DEF NoReload
<1> QED
  BY <1>2, <1>3 DEF Reloading

LEMMA ExpectTyped ==
    ASSUME TypeOK, NEW r \in Reloaders, Reloading(r), reload[r].todo # {}, Expect(r)
    PROVE  expected' \in [{n \in Names : Kind[n] = "social"} -> Values \cup {None}]
<1>1. Section(r) \in Names /\ Wants(r) \in Values \cup {None}
  BY AtItsSection
<1>2. expected \in [{n \in Names : Kind[n] = "social"} -> Values \cup {None}]
  BY DEF TypeOK
<1>3. CASE Kind[Section(r)] = "social"
  BY <1>1, <1>2, <1>3 DEF Expect
<1>4. CASE Kind[Section(r)] # "social"
  BY <1>2, <1>4 DEF Expect
<1> QED
  BY <1>3, <1>4

LEMMA EndsOfReloadInv ==
    ASSUME IInv, NEW r \in Reloaders,
           SectionUnregistered(r) \/ StartFails(r) \/ RejectPower(r) \/ SwapConfig(r)
    PROVE  IInv'
<1>1. TypeOK /\ Watching /\ Reloading(r)
  BY DEF IInv, Roles
<1>2. CASE SectionUnregistered(r)
  <2>1. reload[r].pc = "section" /\ reload[r].todo # {} /\ Expect(r) /\ SectionDone(r)
    BY <1>2 DEF SectionUnregistered, Modified, AtSection
  <2>2. TypeOK'
    BY <1>1, <1>2, <2>1, SectionDoneDoes, ExpectTyped
       DEF SectionUnregistered, TypeOK, objects, ObjectsTypeOK, ReloadRecords
  <2> QED
    BY <1>1, <1>2, <2>1, <2>2, SectionDoneDoes, SectionDoneSound, NoCall, WatchingStays
       DEF SectionUnregistered
<1>3. CASE StartFails(r)
  <2>1. reload[r].pc \in {"section", "create"} /\ reload[r].todo # {} /\ Expect(r)
        /\ reload' = [reload EXCEPT ![r] = NoReload]
    BY <1>1, <1>3 DEF StartFails, Creating, Appeared, AtSection, Reloading
  <2>2. TypeOK'
    BY <1>1, <1>3, <2>1, EndsReload, ExpectTyped
       DEF StartFails, TypeOK, objects, ObjectsTypeOK, ReloadRecords
  <2> QED
    BY <1>1, <1>3, <2>1, <2>2, EndsReload, NoCall, WatchingStays DEF StartFails
<1>4. CASE RejectPower(r)
  <2>1. reload[r].pc = "section" /\ reload' = [reload EXCEPT ![r] = NoReload]
    BY <1>4 DEF RejectPower, AllSectionsDone
  <2>2. TypeOK'
    BY <1>1, <1>4, <2>1, EndsReload DEF RejectPower, TypeOK, objects, ObjectsTypeOK, ReloadRecords
  <2> QED
    BY <1>1, <1>4, <2>1, <2>2, EndsReload, NoCall, WatchingStays DEF RejectPower
<1>5. CASE SwapConfig(r)
  <2>1. reload[r].pc = "section" /\ reload' = [reload EXCEPT ![r] = NoReload]
    BY <1>5 DEF SwapConfig, AllSectionsDone
  <2>2. config' \in Configs
    BY <1>1, <1>5, Types DEF SwapConfig, ReloadRecords
  <2>3. TypeOK'
    BY <1>1, <1>5, <2>1, <2>2, EndsReload DEF SwapConfig, TypeOK, objects, ObjectsTypeOK, ReloadRecords
  <2> QED
    BY <1>1, <1>5, <2>1, <2>3, EndsReload, NoCall, WatchingStays DEF SwapConfig
<1> QED
  BY <1>2, <1>3, <1>4, <1>5

----------------------------------------------------------------------------
\* The steps of operators and of the watcher that call no connector.

LEMMA IdleIsTyped == NoOp \in OpRecords
BY DEF NoOp, OpRecords

LEMMA ToggleFailsInv == ASSUME IInv, NEW t \in Operators, ToggleFails(t) PROVE IInv'
<1>1. TypeOK /\ Watching
  BY DEF IInv, Roles
<1>2. op' \in [Operators -> OpRecords] /\ op'[t].pc = "idle" /\ \A s \in Operators \ {t} : op'[s] = op[s]
  BY <1>1, Types, IdleIsTyped DEF ToggleFails, NoOp
<1>3. TypeOK'
  BY <1>1, <1>2 DEF ToggleFails, TypeOK, objects, ObjectsTypeOK, OpRecords
<1> QED
  BY <1>1, <1>2, <1>3, NoCall, WatchingStays DEF ToggleFails

\* AFFiNE's start has one of its mutexes and waits for the other.
LEMMA TakesConfigsInv == ASSUME IInv, NEW t \in Operators, TakesConfigs(t) PROVE IInv'
<1>1. TypeOK /\ ObjectsTypeOK /\ Objects /\ Watching /\ Toggling(t) /\ op \in [Operators -> OpRecords]
  BY Types DEF IInv, Roles
<1>2. PICK i \in Instances : i = op[t].inst /\ owner[i] \in Names /\ stored[i] \in Values /\ stored[i] # None
  <2>1. op[t].inst \in Instances /\ owner[op[t].inst] \in Names /\ owner[op[t].inst] # None
    BY <1>1, Types DEF TakesConfigs, Toggling
  <2> QED
    BY <1>1, <2>1 DEF Objects, ObjectsTypeOK
<1> DEFINE rec == [op[t] EXCEPT !.pc = "clients", !.value = stored[i]]
<1>3. op' = [op EXCEPT ![t] = rec] /\ op[t].pc = "start"
  BY <1>2 DEF TakesConfigs
<1>4. rec \in OpRecords /\ rec.pc = "clients" /\ rec.inst = i /\ rec.value # None
  BY <1>1, <1>2 DEF OpRecords
<1>5. op' \in [Operators -> OpRecords] /\ op'[t] = rec /\ \A u \in Operators \ {t} : op'[u] = op[u]
  BY <1>1, <1>3, <1>4
<1> HIDE DEF rec
<1>6. UNCHANGED objects /\ UNCHANGED <<file, config, registry, expected, reload, power, watch, used, tidy, raced>>
  BY DEF TakesConfigs
<1>7. TypeOK'
  BY <1>1, <1>5, <1>6 DEF TypeOK, objects, ObjectsTypeOK, OpRecords
<1>8. GoesOn(t)
  BY <1>2, <1>3, <1>4, <1>5 DEF GoesOn
<1>9. Toggling(t)'
  BY <1>2, <1>4, <1>5, <1>6 DEF Toggling, objects
<1> QED
  BY <1>1, <1>5, <1>6, <1>7, <1>8, <1>9, NoCall, WatchingStays

\* Whatever a task was, nobody has to know that it is gone.
LEMMA LoseTaskInv == ASSUME IInv, LoseTask PROVE IInv'
<1>1. TypeOK /\ ObjectsTypeOK /\ Watching
  BY Types DEF IInv, Roles
<1>2. PICK i \in Instances : TaskEnds(i)
  BY DEF LoseTask
<1>3. /\ UNCHANGED <<owner, stored, built, status>>
      /\ task' \in [Instances -> BOOLEAN] /\ orphans' \in [Instances -> Nat]
      /\ ended' \subseteq Instances
      /\ \A j \in Instances : /\ task'[j] => task[j]
                              /\ orphans[j] = 0 => orphans'[j] = 0
                              /\ task[j] \/ j \in ended => task'[j] \/ j \in ended'
  <2>1. CASE task[i] /\ task' = [task EXCEPT ![i] = FALSE] /\ ended' = ended \cup {i} /\ UNCHANGED orphans
    BY <1>1, <1>2, <2>1 DEF TaskEnds, ObjectsTypeOK
  <2>2. CASE orphans[i] > 0 /\ orphans' = [orphans EXCEPT ![i] = @ - 1] /\ UNCHANGED <<task, ended>>
    <3>1. orphans[i] \in Nat /\ orphans[i] - 1 \in Nat
      BY <1>1, <2>2 DEF ObjectsTypeOK
    <3> QED
      BY <1>1, <1>2, <2>2, <3>1 DEF TaskEnds, ObjectsTypeOK
  <2> QED
    BY <1>2, <2>1, <2>2 DEF TaskEnds
<1>4. /\ used' \in Counts
      /\ UNCHANGED <<file, config, registry, expected, reload, op, power, watch, tidy, raced>>
  BY <1>1, SpendTyped DEF LoseTask
<1>5. TypeOK' /\ Watching'
  BY <1>1, <1>3, <1>4, WatchingStays DEF TypeOK, ObjectsTypeOK, Counts
<1> QED
  BY <1>3, <1>4, <1>5, NothingCalled

LEMMA WalkInv ==
    ASSUME IInv, BeginWalk \/ EndWalk \/ \E n \in Names : WalkPast(n)
    PROVE  IInv'
<1>1. TypeOK /\ Watching /\ watch \in WatchRecords
  BY Types DEF IInv, Roles
<1>2. CASE BeginWalk
  <2>1. used.flips \in Nat /\ power \in {"Active", "Resting"} /\ Registered \subseteq Names
    BY <1>1 DEF TypeOK, Registered
  <2>2. watch' \in WatchRecords /\ watch'.inst = None /\ watch'.pc = "walk" /\ watch'.todo = Registered
    BY <1>2, <2>1 DEF BeginWalk, WatchRecords
  <2>3. watch.inst = None
    BY <1>1, <1>2 DEF BeginWalk, Watching
  <2>4. TypeOK'
    BY <1>1, <1>2, <2>2 DEF BeginWalk, TypeOK, objects, ObjectsTypeOK, WatchRecords
  <2>5. Watching'
    BY <1>2, <2>2 DEF BeginWalk, Watching, Registered
  <2> QED
    BY <1>1, <1>2, <2>2, <2>3, <2>4, <2>5, NoCall DEF BeginWalk
<1>3. CASE EndWalk
  <2>1. watch' \in WatchRecords /\ watch'.inst = None /\ watch.inst = None /\ watch'.pc = "idle"
    BY <1>1, <1>3 DEF EndWalk, WatchRecords
  <2>2. TypeOK'
    BY <1>1, <1>3, <2>1 DEF EndWalk, TypeOK, objects, ObjectsTypeOK, WatchRecords
  <2>3. Watching'
    BY <2>1 DEF Watching
  <2> QED
    BY <1>1, <1>3, <2>1, <2>2, <2>3, NoCall DEF EndWalk
<1>4. ASSUME NEW n \in Names, WalkPast(n) PROVE IInv'
  <2>1. /\ watch' \in WatchRecords /\ watch'.inst = watch.inst /\ watch'.pc = watch.pc
        /\ watch'.todo \subseteq watch.todo
    BY <1>1, <1>4 DEF WalkPast, WatchRecords
  <2>2. TypeOK'
    BY <1>1, <1>4, <2>1 DEF WalkPast, TypeOK, objects, ObjectsTypeOK, WatchRecords
  <2>3. Watching'
    BY <1>1, <1>4, <2>1 DEF WalkPast, Watching, Registered
  <2> QED
    BY <1>1, <1>4, <2>1, <2>2, <2>3, NoCall DEF WalkPast
<1> QED
  BY <1>2, <1>3, <1>4


----------------------------------------------------------------------------
\* The steps that call a connector.

\* A reload goes on with the section it is at.
LEMMA MovesSound ==
    ASSUME TypeOK, NEW r \in Reloaders, Reloading(r), reload[r].todo # {},
           NEW pc \in {"configs", "create", "remove", "stop", "insert"},
           NEW i \in Instances \cup {None}, Moves(r, pc, i),
           pc \in {"configs", "create"} => Wants(r) # None,
           pc \in {"configs", "stop", "insert"} => i \in Instances /\ owner'[i] = Section(r)
    PROVE  Reloading(r)'
<1>1. /\ reload'[r].pc = pc /\ reload'[r].inst = i /\ reload'[r].todo = reload[r].todo
      /\ reload'[r].old = reload[r].old /\ reload'[r].new = reload[r].new
  BY MovesDoes
<1>2. Section(r)' = Section(r) /\ Wants(r)' = Wants(r)
  BY <1>1 DEF Section, Wants, Earliest
<1>3. Changed(reload[r].old, reload[r].new)' = Changed(reload[r].old, reload[r].new)
  BY <1>1 DEF Changed
<1> QED
  BY <1>1, <1>2, <1>3 DEF Reloading

LEMMA SectionChangedInv ==
    ASSUME IInv, NEW r \in Reloaders, SectionChanged(r) \/ LocksClients(r) PROVE IInv'
<1>1. TypeOK /\ ObjectsTypeOK /\ Objects /\ Roles /\ Watching /\ Reloading(r) /\ reload[r].todo # {}
      /\ reload[r].pc = "section"
  BY Types DEF IInv, Roles, SectionChanged, LocksClients, Modified, AtSection
<1>2. PICK n \in Names : n = Section(r)
  BY <1>1, AtItsSection
<1>3. registry[n] \in Instances /\ registry[n] # None
  BY <1>1, <1>2, Types DEF SectionChanged, LocksClients
<1>4. PICK i \in Instances : i = registry[n]
  BY <1>3
<1>5. owner[i] = n /\ Current(i)
  BY <1>1, <1>3, <1>4 DEF Roles, Current
<1>6. Wants(r) \in Values /\ Wants(r) # None
  BY <1>1, <1>2, AtItsSection DEF SectionChanged, LocksClients, Modified, Appeared, Retired
<1>7. /\ ObjectsTypeOK' /\ Only(i) /\ owner' = owner
      /\ status' = status /\ task' = task /\ orphans' = orphans /\ ended' = ended
      /\ stored'[i] # None /\ (built'[i] = built[i] \/ built'[i] # None)
  <2>1. stored[i] # None
    BY <1>1, <1>5, Types DEF Objects
  <2> QED
    BY <1>1, <1>2, <1>4, <1>6, <2>1, RebuildDoes, StoreDoes DEF SectionChanged, LocksClients
<1>8. Touch(r, i)
  BY <1>2, <1>4 DEF SectionChanged, LocksClients
<1>9. /\ reload' \in [Reloaders -> ReloadRecords] /\ Reloading(r)'
      /\ reload'[r].pc \notin {"stop", "insert"}
      /\ \A q \in Reloaders \ {r} : reload'[q] = reload[q]
  <2>1. CASE SectionDone(r)
    BY <1>1, <2>1, SectionDoneDoes, SectionDoneSound
  <2>2. CASE Moves(r, "remove", None)
    BY <1>1, <2>2, MovesDoes, MovesSound
  <2>3. CASE Moves(r, "configs", i)
    BY <1>1, <1>2, <1>5, <1>6, <1>7, <2>3, MovesDoes, MovesSound
  <2> QED
    BY <1>2, <1>4, <2>1, <2>2, <2>3 DEF SectionChanged, LocksClients
<1>10. TypeOK'
  <2>1. expected' \in [{m \in Names : Kind[m] = "social"} -> Values \cup {None}]
    BY <1>1, ExpectTyped DEF SectionChanged, LocksClients
  <2>2. raced' \subseteq Names
    BY <1>1, <1>5, <1>8, TouchDoes DEF Actors
  <2> QED
    BY <1>1, <1>7, <1>9, <2>1, <2>2 DEF SectionChanged, LocksClients, TypeOK, ReloadRecords
<1>11. ASSUME n \notin raced'
       PROVE  /\ task'[i] => Current(i)'
              /\ status'[i] = "Running" /\ KindOf(i) # "plain" => built'[i] # None
  <2>1. InOrder(n)
    BY <1>1, <1>5, <1>8, <1>11, TouchDoes DEF IInv, Quiet, Actors
  <2>2. Current(i)'
    BY <1>4, <1>5, <1>7 DEF Current, SectionChanged, LocksClients
  <2> QED
    BY <1>5, <1>7, <2>1, <2>2 DEF InOrder, Of, KindOf
<1>12. \A t \in Operators : t # r /\ op'[t] = op[t]
  BY ActorsAssumption DEF SectionChanged, LocksClients
<1>13. r # Watcher /\ r \in Actors /\ watch' = watch /\ registry' = registry /\ Watching'
  BY <1>1, WatchingStays, ActorsAssumption DEF Actors, SectionChanged, LocksClients
<1>14. /\ status'[i] # "Running" => ~task'[i]
       /\ status'[i] = "Running" /\ KindOf(i) = "matrix" => task'[i] \/ i \in ended'
  BY <1>1, <1>5, <1>7, Types DEF Objects
<1> QED
  BY <1>1, <1>5, <1>7, <1>8, <1>9, <1>10, <1>11, <1>12, <1>13, <1>14, CallInv

LEMMA StoresConfigsInv == ASSUME IInv, NEW r \in Reloaders, StoresConfigs(r) PROVE IInv'
<1>1. TypeOK /\ ObjectsTypeOK /\ Roles /\ Watching /\ Reloading(r) /\ reload[r].pc = "configs"
      /\ reload[r].todo # {}
  BY Types DEF IInv, Roles, StoresConfigs, Reloading
<1>2. PICK i \in Instances : i = reload[r].inst
  BY <1>1 DEF Reloading
<1>3. /\ owner[i] = Section(r) /\ Section(r) \in Names
      /\ Wants(r) \in Values \cup {None} /\ Wants(r) # None
  BY <1>1, <1>2, AtItsSection DEF Reloading
<1>4. /\ ObjectsTypeOK' /\ Only(i) /\ UNCHANGED <<owner, built, status, task, orphans, ended>>
      /\ stored'[i] # None
  BY <1>1, <1>2, <1>3, StoreDoes DEF StoresConfigs
<1>5. raced \subseteq raced' /\ raced' \subseteq Names
  BY <1>1, <1>2, <1>3, TouchDoes DEF StoresConfigs, Actors
<1>6. /\ reload' \in [Reloaders -> ReloadRecords] /\ Reloading(r)' /\ reload'[r].pc = "section"
      /\ \A q \in Reloaders \ {r} : reload'[q] = reload[q]
  BY <1>1, SectionDoneDoes, SectionDoneSound DEF StoresConfigs
<1>7. UNCHANGED <<file, config, registry, expected, op, power, watch, used, tidy>> /\ Watching'
  BY <1>1, WatchingStays DEF StoresConfigs
<1>8. TypeOK'
  BY <1>1, <1>4, <1>5, <1>6, <1>7 DEF TypeOK, ReloadRecords
<1>9. \A j \in Instances : stored[j] # None => stored'[j] # None
  BY <1>4 DEF Only
<1> QED
  BY <1>1, <1>4, <1>5, <1>6, <1>7, <1>8, <1>9, NothingCalled

LEMMA StopRemovedInv == ASSUME IInv, NEW r \in Reloaders, StopRemoved(r) PROVE IInv'
<1>1. TypeOK /\ ObjectsTypeOK /\ Roles /\ Watching /\ Reloading(r) /\ reload[r].pc = "stop"
      /\ reload[r].todo # {}
  BY Types DEF IInv, Roles, StopRemoved, Reloading
<1>2. PICK i \in Instances : i = reload[r].inst
  BY <1>1 DEF Reloading
<1>3. owner[i] = Section(r) /\ Section(r) \in Names /\ Wants(r) \in Values \cup {None}
  BY <1>1, <1>2, AtItsSection DEF Reloading
<1>4. Current(i)
  BY <1>1, <1>2 DEF Current, Holds
<1>5. /\ ObjectsTypeOK' /\ Only(i) /\ owner' = owner /\ stored' = stored /\ orphans' = orphans
      /\ status'[i] = "Stopped" /\ ~task'[i]
  BY <1>1, <1>2, StopDoes DEF StopRemoved
<1>6. Touch(r, i)
  BY <1>2 DEF StopRemoved
<1>7. /\ reload' \in [Reloaders -> ReloadRecords] /\ Reloading(r)'
      /\ reload'[r].pc \notin {"stop", "insert"}
      /\ \A q \in Reloaders \ {r} : reload'[q] = reload[q]
  <2>1. CASE SectionDone(r)
    BY <1>1, <2>1, SectionDoneDoes, SectionDoneSound
  <2>2. CASE Wants(r) # None /\ Moves(r, "create", None)
    BY <1>1, <2>2, MovesDoes, MovesSound
  <2> QED
    BY <2>1, <2>2 DEF StopRemoved
<1>8. TypeOK'
  <2>1. raced' \subseteq Names
    BY <1>1, <1>3, <1>6, TouchDoes DEF Actors
  <2> QED
    BY <1>1, <1>5, <1>7, <2>1 DEF StopRemoved, TypeOK, ReloadRecords
<1>9. \A t \in Operators : t # r /\ op'[t] = op[t]
  BY ActorsAssumption DEF StopRemoved
<1>10. r # Watcher /\ r \in Actors /\ watch' = watch /\ registry' = registry /\ Watching'
  BY <1>1, WatchingStays, ActorsAssumption DEF Actors, StopRemoved
<1>11. stored'[i] # None
  BY <1>3, <1>5, Types, <1>1 DEF IInv, Objects
<1> QED
  BY <1>2, <1>3, <1>4, <1>5, <1>6, <1>7, <1>8, <1>9, <1>10, <1>11, CallInv


\* An operator whose call was noticed by nobody has the current connector.
LEMMA OperatorAlone ==
    ASSUME IInv, NEW t \in Operators, op[t].pc # "idle", NEW i \in Instances, i = op[t].inst,
           Touch(t, i), owner[i] \notin raced'
    PROVE  Current(i) /\ Quiet(owner[i]) /\ (op[t].pc \in {"start", "clients"} => ~task[i])
<1>1. TypeOK /\ owner[i] \in Names
  BY DEF IInv, Roles, Toggling
<1>2. Quiet(owner[i])
  BY <1>1, TouchDoes DEF IInv, Actors
<1>3. i \in Of(owner[i])
  BY DEF Of
<1> QED
  BY <1>2, <1>3 DEF Quiet, CallsAlone

LEMMA ToggleEndsInv == ASSUME IInv, NEW t \in Operators, ToggleStops(t) \/ ToggleStarts(t) PROVE IInv'
<1>1. TypeOK /\ ObjectsTypeOK /\ Objects /\ Roles /\ Watching /\ Toggling(t) /\ op[t].pc # "idle"
  BY Types DEF IInv, Roles, ToggleStops, ToggleStarts
<1>2. PICK i \in Instances : i = op[t].inst
  BY <1>1 DEF Toggling
<1>3. owner[i] \in Names /\ owner[i] # None
  BY <1>1, <1>2, Types DEF Toggling
<1>4. op' \in [Operators -> OpRecords] /\ op'[t].pc = "idle" /\ \A u \in Operators \ {t} : op'[u] = op[u]
  BY <1>1, Types, IdleIsTyped DEF ToggleStops, ToggleStarts, NoOp
<1>5. Touch(t, i) /\ UNCHANGED <<file, config, registry, expected, reload, power, watch, used, tidy>>
  BY <1>2 DEF ToggleStops, ToggleStarts
<1>6. /\ ObjectsTypeOK' /\ Only(i) /\ owner' = owner /\ stored' = stored
      /\ status'[i] # "Running" => ~task'[i]
      /\ status'[i] = "Running" /\ KindOf(i) = "matrix" => task'[i]
      /\ status'[i] = "Running" /\ KindOf(i) # "plain" => built'[i] # None
      /\ (op[t].pc \in {"start", "clients"} => ~task[i]) => orphans'[i] = orphans[i]
  <2>1. CASE ToggleStops(t)
    BY <1>1, <1>2, <2>1, StopDoes DEF ToggleStops
  <2>2. CASE ToggleStarts(t)
    <3>1. op[t].pc \in {"start", "clients"} /\ op[t].value \in Values \cup {None} /\ op[t].value # None
      BY <1>1, <2>2, Types DEF ToggleStarts, Toggling, OpRecords
    <3>2. KindOf(i) # "plain" => Builds(KindOf(i), op[t].value) # None
      BY <3>1 DEF Builds
    <3> QED
      BY <1>1, <1>2, <2>2, <3>1, <3>2, StartDoes DEF ToggleStarts
  <2> QED
    BY <2>1, <2>2
<1>7. TypeOK'
  <2>1. raced' \subseteq Names
    BY <1>1, <1>3, <1>5, TouchDoes DEF Actors
  <2> QED
    BY <1>1, <1>4, <1>5, <1>6, <2>1 DEF TypeOK, OpRecords
<1>8. ASSUME owner[i] \notin raced' PROVE Current(i) /\ Current(i)' /\ orphans'[i] = orphans[i]
  <2>1. Current(i) /\ (op[t].pc \in {"start", "clients"} => ~task[i])
    BY <1>1, <1>2, <1>5, <1>8, OperatorAlone
  <2>2. Current(i)'
    BY <1>5, <1>6, <2>1 DEF Current, Holds
  <2> QED
    BY <1>6, <2>1, <2>2
<1>9. t # Watcher /\ t \in Actors /\ Watching'
  BY <1>1, <1>5, WatchingStays, ActorsAssumption DEF Actors
<1>10. stored'[i] # None
  BY <1>1, <1>3, <1>6 DEF Objects
<1> QED
  BY <1>3, <1>4, <1>5, <1>6, <1>7, <1>8, <1>9, <1>10, CallInv

\* What the watcher walks past or calls is in the registry.
LEMMA WatchersCall ==
    ASSUME TypeOK, Roles, NEW n \in Names,
           \/ n \in watch.todo /\ watch.pc = "walk"
           \/ registry[n] = watch.inst /\ watch.inst # None
    PROVE  \E i \in Instances : i = registry[n] /\ owner[i] = n /\ owner[i] # None /\ Current(i)
BY Types DEF Roles, Watching, Registered, Current

LEMMA WalkSuspendsInv == ASSUME IInv, NEW n \in Names, WalkSuspends(n) PROVE IInv'
<1>1. /\ TypeOK /\ ObjectsTypeOK /\ Objects /\ Roles /\ Watching /\ watch \in WatchRecords
      /\ n \in watch.todo /\ watch.pc = "walk" /\ watch.inst = None
  BY Types DEF IInv, Roles, WalkSuspends, Walking
<1>2. PICK i \in Instances : i = registry[n] /\ owner[i] = n /\ owner[i] # None /\ Current(i)
  BY <1>1, WatchersCall
<1>3. owner[i] = n /\ Current(i) /\ owner[i] # None
  BY <1>2
<1>4. /\ ObjectsTypeOK' /\ Only(i) /\ owner' = owner /\ stored' = stored /\ orphans' = orphans
      /\ (status'[i] # "Running" /\ ~task'[i]) \/ UNCHANGED objects
  BY <1>1, <1>2, SuspendDoes DEF WalkSuspends
<1>5. Touch(Watcher, i) /\ UNCHANGED <<file, config, registry, expected, reload, op, power, used, tidy>>
  BY <1>2 DEF WalkSuspends
<1>6. watch' \in WatchRecords /\ watch'.inst = None /\ watch'.todo \subseteq watch.todo /\ watch'.pc = "walk"
  BY <1>1 DEF WalkSuspends, WatchRecords
<1>7. Watching'
  BY <1>1, <1>5, <1>6 DEF Watching, Registered
<1>8. TypeOK'
  <2>1. raced' \subseteq Names
    BY <1>1, <1>3, <1>5, TouchDoes DEF Actors
  <2> QED
    BY <1>1, <1>4, <1>5, <1>6, <2>1 DEF TypeOK, WatchRecords
<1>9. \A t \in Operators : t # Watcher
  BY ActorsAssumption
<1>10. Current(i)'
  BY <1>3, <1>4, <1>5 DEF Current, Holds
<1>11. ASSUME owner[i] \notin raced', status'[i] = "Running", KindOf(i) # "plain" PROVE built'[i] # None
  <2>1. InOrder(n)
    BY <1>1, <1>3, <1>5, <1>11, TouchDoes DEF IInv, Quiet, Actors
  <2>2. UNCHANGED objects
    BY <1>4, <1>11
  <2> QED
    BY <1>3, <1>11, <2>1, <2>2 DEF InOrder, Of, objects, KindOf
<1>12. /\ status'[i] # "Running" => ~task'[i]
       /\ status'[i] = "Running" /\ KindOf(i) = "matrix" => task'[i] \/ i \in ended'
       /\ stored'[i] # None
  BY <1>1, <1>3, <1>4 DEF Objects, objects
<1> QED
  BY <1>3, <1>4, <1>5, <1>6, <1>7, <1>8, <1>9, <1>10, <1>11, <1>12, CallInv DEF Actors

LEMMA WalkResumesInv == ASSUME IInv, WalkResumes PROVE IInv'
<1>1. /\ TypeOK /\ ObjectsTypeOK /\ Objects /\ Roles /\ Watching /\ watch \in WatchRecords
      /\ watch.inst # None /\ watch.pc = "walk"
  BY Types DEF IInv, Roles, Watching, WalkResumes
<1>2. PICK n \in Names : registry[n] = watch.inst
  BY <1>1 DEF Watching
<1>3. PICK i \in Instances : i = watch.inst /\ owner[i] = n /\ owner[i] # None /\ Current(i)
  BY <1>1, <1>2, WatchersCall
<1>4. owner[i] = n /\ Current(i) /\ owner[i] # None /\ i \in Of(n)
  BY <1>3 DEF Of
<1>5. /\ ObjectsTypeOK' /\ Only(i) /\ owner' = owner /\ stored' = stored /\ built' = built
      /\ status'[i] = "Running" /\ task'[i]
      /\ ~task[i] => orphans'[i] = orphans[i]
  BY <1>1, <1>3, ResumeDoes DEF WalkResumes
<1>6. Touch(Watcher, i) /\ UNCHANGED <<file, config, registry, expected, reload, op, power, used, tidy>>
  BY <1>3 DEF WalkResumes
<1>7. watch' \in WatchRecords /\ watch'.inst = None /\ watch'.todo = watch.todo /\ watch'.pc = "walk"
  BY <1>1 DEF WalkResumes, WatchRecords
<1>8. Watching'
  BY <1>1, <1>6, <1>7 DEF Watching, Registered
<1>9. TypeOK'
  <2>1. raced' \subseteq Names
    BY <1>1, <1>4, <1>6, TouchDoes DEF Actors
  <2> QED
    BY <1>1, <1>5, <1>6, <1>7, <2>1 DEF TypeOK, WatchRecords
<1>10. \A t \in Operators : t # Watcher
  BY ActorsAssumption
<1>11. Current(i)'
  BY <1>4, <1>5, <1>6 DEF Current, Holds
<1>12. ASSUME owner[i] \notin raced' PROVE ~task[i] /\ built[i] # None
  BY <1>1, <1>3, <1>4, <1>6, <1>12, TouchDoes DEF IInv, Quiet, CallsAlone, Actors
<1>13. stored'[i] # None
  BY <1>1, <1>4, <1>5 DEF Objects
<1> QED
  BY <1>4, <1>5, <1>6, <1>7, <1>8, <1>9, <1>10, <1>11, <1>12, <1>13, CallInv DEF Actors


----------------------------------------------------------------------------
\* The steps that are about to call one.

LEMMA NothingMoved ==
    ASSUME UNCHANGED objects, registry' = registry, reload' = reload
    PROVE  /\ owner' = owner /\ stored' = stored /\ built' = built
           /\ status' = status /\ task' = task /\ orphans' = orphans /\ ended' = ended
           /\ \A i \in Instances : Current(i)' <=> Current(i)
           /\ \A n \in Names : Of(n)' = Of(n) /\ Of(n) \subseteq Instances
           /\ Objects <=> Objects'
BY DEF objects, Current, Holds, Of, Objects, KindOf

LEMMA BeginToggleInv == ASSUME IInv, NEW t \in Operators, NEW n \in Names, BeginToggle(t, n) PROVE IInv'
<1>1. TypeOK /\ ObjectsTypeOK /\ Objects /\ Roles /\ Watching
  BY Types DEF IInv, Roles
<1>2. PICK i \in Instances : i = registry[n] /\ owner[i] = n /\ owner[i] # None /\ Current(i)
  BY <1>1, Types DEF BeginToggle, Roles, Current
<1>3. /\ UNCHANGED objects /\ UNCHANGED <<file, config, registry, expected, reload, power, watch, tidy>>
      /\ Touch(t, i)
  BY <1>2 DEF BeginToggle
<1>4. /\ op' \in [Operators -> OpRecords] /\ \A u \in Operators \ {t} : op'[u] = op[u]
      /\ op'[t].inst = i
      /\ op'[t].pc \in {"start", "clients"} => op'[t].value # None /\ ~task[i]
  <2>1. stored[i] \in Values \cup {None} /\ stored[i] # None
    BY <1>1, <1>2 DEF ObjectsTypeOK, Objects
  <2>2. CASE status[i] = "Running"
    BY <1>1, <1>2, <2>2, Types DEF BeginToggle, OpRecords
  <2>3. CASE status[i] # "Running"
    <3>1. ~task[i]
      BY <1>1, <2>3 DEF Objects
    <3> QED
      BY <1>1, <1>2, <2>1, <2>3, <3>1, Types DEF BeginToggle, OpRecords
  <2> QED
    BY <2>2, <2>3
<1>5. TypeOK'
  <2>1. raced' \subseteq Names
    BY <1>1, <1>2, <1>3, TouchDoes DEF Actors
  <2>2. used' \in Counts
    BY <1>1, SpendTyped DEF BeginToggle
  <2> QED
    BY <1>1, <1>3, <1>4, <2>1, <2>2, NothingMoved DEF TypeOK, OpRecords, ObjectsTypeOK, Counts
<1>6. Roles'
  <2>1. \A m \in Names : registry'[m] # None => owner'[registry'[m]] = m
    BY <1>1, <1>3, NothingMoved DEF Roles
  <2>2. \A r \in Reloaders : Reloading(r)'
    BY <1>1, <1>3, NothingMoved, ReloadingStays DEF Roles
  <2>3. Toggling(t)'
    BY <1>2, <1>3, <1>4, NothingMoved DEF Toggling
  <2>4. \A u \in Operators \ {t} : Toggling(u)'
    BY <1>1, <1>3, <1>4, NothingMoved, TogglingStays DEF Roles
  <2>5. Watching'
    BY <1>1, <1>3, WatchingStays
  <2> QED
    BY <2>1, <2>2, <2>3, <2>4, <2>5 DEF Roles
<1>7. ASSUME NEW m \in Names \ raced', m # n PROVE Quiet(m)'
  <2>1. i \notin Of(m) /\ m \notin raced /\ Quiet(m)
    BY <1>1, <1>2, <1>3, <1>7, TouchDoes DEF Of, IInv, Actors
  <2> QED
    BY <1>1, <1>3, <1>4, <1>7, <2>1, NothingMoved, QuietStays
<1>8. ASSUME n \notin raced' PROVE Quiet(n)'
  <2>1. /\ Quiet(n)
        /\ \A u \in Operators : u # t /\ op[u].pc # "idle" => op[u].inst \notin Of(n)
        /\ watch.inst \notin Of(n)
    BY <1>1, <1>2, <1>3, <1>8, CallAlone, ActorsAssumption DEF Actors
  <2>2. OneCurrent(n)'
    BY <1>3, <2>1, NothingMoved DEF Quiet, OneCurrent
  <2>3. InOrder(n)'
    BY <1>3, <2>1, NothingMoved DEF Quiet, InOrder
  <2>4. ASSUME NEW u \in Operators, NEW j \in Instances, op'[u].pc # "idle", op'[u].inst = j, j \in Of(n)
        PROVE  Current(j)' /\ (op'[u].pc \in {"start", "clients"} => ~task'[j])
    <3>1. u = t /\ j = i
      BY <1>4, <2>1, <2>4
    <3> QED
      BY <1>2, <1>3, <1>4, <3>1, NothingMoved
  <2>5. CallsAlone(n)'
    BY <1>3, <2>1, <2>4, NothingMoved DEF CallsAlone, Current, Holds
  <2> QED
    BY <2>2, <2>3, <2>5 DEF Quiet
<1> QED
  BY <1>1, <1>3, <1>5, <1>6, <1>7, <1>8, NothingMoved DEF IInv

LEMMA WalkBeginsResumeInv == ASSUME IInv, NEW n \in Names, WalkBeginsResume(n) PROVE IInv'
<1>1. TypeOK /\ ObjectsTypeOK /\ Objects /\ Roles /\ Watching /\ watch \in WatchRecords
      /\ watch.pc = "walk" /\ n \in watch.todo
  BY Types DEF IInv, Roles, WalkBeginsResume, Walking
<1>2. PICK i \in Instances : i = registry[n] /\ owner[i] = n /\ owner[i] # None /\ Current(i)
  BY <1>1, WatchersCall
<1>3. /\ UNCHANGED objects /\ UNCHANGED <<file, config, registry, expected, reload, op, power, used, tidy>>
      /\ Touch(Watcher, i) /\ status[i] = "Suspended" /\ built[i] # None
  BY <1>2 DEF WalkBeginsResume
<1>4. watch' \in WatchRecords /\ watch'.inst = i /\ watch'.pc = "walk" /\ watch'.todo \subseteq watch.todo
  BY <1>1, <1>2 DEF WalkBeginsResume, WatchRecords
<1>5. TypeOK'
  <2>1. raced' \subseteq Names
    BY <1>1, <1>2, <1>3, TouchDoes DEF Actors
  <2> QED
    BY <1>1, <1>3, <1>4, <2>1, NothingMoved DEF TypeOK, WatchRecords, ObjectsTypeOK
<1>6. Watching'
  BY <1>1, <1>2, <1>3, <1>4 DEF Watching, Registered
<1>7. Roles'
  BY <1>1, <1>3, <1>6, NothingMoved, RolesStay
<1>8. ASSUME NEW m \in Names \ raced', m # n PROVE Quiet(m)'
  <2>1. i \notin Of(m) /\ m \notin raced /\ Quiet(m)
    BY <1>1, <1>2, <1>3, <1>8, TouchDoes DEF Of, IInv, Actors
  <2> QED
    BY <1>1, <1>3, <1>4, <1>8, <2>1, NothingMoved, QuietStays
<1>9. ASSUME n \notin raced' PROVE Quiet(n)'
  <2>1. /\ Quiet(n)
        /\ \A u \in Operators : op[u].pc # "idle" => op[u].inst \notin Of(n)
    BY <1>1, <1>2, <1>3, <1>9, CallAlone, ActorsAssumption DEF Actors
  <2>2. OneCurrent(n)'
    BY <1>3, <2>1, NothingMoved DEF Quiet, OneCurrent
  <2>3. InOrder(n)'
    BY <1>3, <2>1, NothingMoved DEF Quiet, InOrder
  <2>4. ~task[i] /\ built[i] # None
    BY <1>1, <1>3 DEF Objects
  <2>5. CallsAlone(n)'
    BY <1>3, <1>4, <2>1, <2>4, NothingMoved DEF CallsAlone
  <2> QED
    BY <2>2, <2>3, <2>5 DEF Quiet
<1> QED
  BY <1>1, <1>3, <1>5, <1>7, <1>8, <1>9, NothingMoved DEF IInv


----------------------------------------------------------------------------
\* The steps that make a connector, or change what the registry holds.

LEMMA RemoveInv == ASSUME IInv, NEW r \in Reloaders, Remove(r) PROVE IInv'
<1>1. /\ TypeOK /\ Objects /\ Roles /\ Watching /\ Reloading(r) /\ reload[r].todo # {}
      /\ reload[r].pc \in {"section", "remove"} /\ watch.inst = None /\ watch.pc = "idle"
  BY DEF IInv, Roles, Reloading, Remove, Retired, AtSection, MapIsFree, Watching
<1>2. PICK n \in Names : n = Section(r)
  BY <1>1, AtItsSection
<1>3. /\ UNCHANGED objects /\ UNCHANGED <<file, config, op, power, watch, used, tidy, raced>>
      /\ Expect(r) /\ registry' = [registry EXCEPT ![n] = None]
  BY <1>2 DEF Remove
<1>4. expected' \in [{m \in Names : Kind[m] = "social"} -> Values \cup {None}]
  BY <1>1, <1>3, ExpectTyped
<1>5. /\ registry' \in [Names -> Instances \cup {None}] /\ registry'[n] = None
      /\ \A m \in Names \ {n} : registry'[m] = registry[m]
  BY <1>1, <1>3, Types
<1>6. CASE registry[n] = None
  <2>1. registry' = registry
    BY <1>1, <1>3, <1>6, Types
  <2>2. /\ reload' \in [Reloaders -> ReloadRecords] /\ Reloading(r)'
        /\ reload'[r].pc \notin {"stop", "insert"}
        /\ \A q \in Reloaders \ {r} : reload'[q] = reload[q]
    <3>1. CASE SectionDone(r)
      BY <1>1, <3>1, SectionDoneDoes, SectionDoneSound
    <3>2. CASE Wants(r) # None /\ Moves(r, "create", None)
      BY <1>1, <3>2, MovesDoes, MovesSound
    <3> QED
      BY <1>2, <1>6, <3>1, <3>2 DEF Remove
  <2>3. TypeOK'
    BY <1>1, <1>3, <1>4, <1>5, <2>2 DEF TypeOK, objects, ObjectsTypeOK, ReloadRecords
  <2> QED
    BY <1>1, <1>3, <2>1, <2>2, <2>3, NoCall, WatchingStays
<1>7. CASE registry[n] # None
  <2>1. PICK i \in Instances : i = registry[n] /\ owner[i] = n
    BY <1>1, <1>7, Types DEF Roles
  <2>2. Moves(r, "stop", i)
    BY <1>2, <1>7, <2>1 DEF Remove
  <2>3. /\ reload' \in [Reloaders -> ReloadRecords] /\ reload'[r].pc = "stop" /\ reload'[r].inst = i
        /\ \A q \in Reloaders \ {r} : reload'[q] = reload[q]
    BY <1>1, <2>2, MovesDoes
  <2>4. /\ owner' = owner /\ stored' = stored /\ built' = built
        /\ status' = status /\ task' = task /\ orphans' = orphans /\ ended' = ended
    BY <1>3 DEF objects
  <2>5. Reloading(r)'
    BY <1>1, <1>2, <2>1, <2>2, <2>4, MovesSound
  <2>6. TypeOK'
    BY <1>1, <1>3, <1>4, <1>5, <2>3, <2>4 DEF TypeOK, ObjectsTypeOK, ReloadRecords
  <2>7. Roles'
    <3>1. \A m \in Names : registry'[m] # None => owner'[registry'[m]] = m
      BY <1>1, <1>5, <2>4 DEF Roles
    <3>2. \A q \in Reloaders : Reloading(q)'
      BY <1>1, <2>3, <2>4, <2>5, ReloadingStays DEF Roles
    <3>3. \A t \in Operators : Toggling(t)'
      BY <1>1, <1>3, <2>4, TogglingStays DEF Roles
    <3>4. Watching'
      BY <1>1, <1>3 DEF Watching
    <3> QED
      BY <3>1, <3>2, <3>3, <3>4 DEF Roles
  <2>8. ASSUME NEW j \in Instances, owner[j] \in Names PROVE Current(j)' <=> Current(j)
    <3>1. CASE j = i
      <4>1. Current(j)
        BY <2>1, <3>1 DEF Current
      <4>2. Current(j)'
        BY <2>3, <3>1 DEF Current, Holds
      <4> QED
        BY <4>1, <4>2
    <3>2. CASE j # i
      <4>1. registry'[owner[j]] = j <=> registry[owner[j]] = j
        BY <1>1, <1>5, <2>1, <2>8, <3>2, Types
      <4>2. \A q \in Reloaders : Holds(q, j)' <=> Holds(q, j)
        BY <1>1, <2>3, <3>2 DEF Holds
      <4> QED
        BY <2>4, <4>1, <4>2 DEF Current
    <3> QED
      BY <3>1, <3>2
  <2>9. ASSUME NEW m \in Names \ raced PROVE Quiet(m)'
    <3>1. Of(m)' = Of(m) /\ \A j \in Of(m) : j \in Instances /\ owner[j] \in Names
      BY <2>4 DEF Of
    <3> QED
      BY <1>1, <1>3, <2>4, <2>8, <2>9, <3>1, QuietStays DEF IInv
  <2> QED
    BY <1>1, <1>3, <2>4, <2>6, <2>7, <2>9 DEF IInv, Objects, KindOf
<1> QED
  BY <1>6, <1>7

LEMMA InsertInv == ASSUME IInv, NEW r \in Reloaders, Insert(r) PROVE IInv'
<1>1. /\ TypeOK /\ Objects /\ Roles /\ Watching /\ Reloading(r) /\ reload[r].todo # {}
      /\ reload[r].pc = "insert" /\ watch.inst = None /\ watch.pc = "idle"
  BY DEF IInv, Roles, Reloading, Insert, MapIsFree, Watching
<1>2. PICK n \in Names : n = Section(r)
  BY <1>1, AtItsSection
<1>3. PICK i \in Instances : i = reload[r].inst /\ owner[i] = n
  BY <1>1, <1>2 DEF Reloading
<1>4. /\ UNCHANGED objects /\ UNCHANGED <<file, config, expected, op, power, watch, used, tidy>>
      /\ registry' = [registry EXCEPT ![n] = i]
      /\ SectionDone(r)
      /\ raced' = IF registry[n] # None THEN raced \cup {n} ELSE raced
  BY <1>2, <1>3 DEF Insert
<1>5. /\ registry' \in [Names -> Instances \cup {None}] /\ registry'[n] = i
      /\ \A m \in Names \ {n} : registry'[m] = registry[m]
  BY <1>1, <1>4, Types
<1>6. /\ reload' \in [Reloaders -> ReloadRecords] /\ Reloading(r)' /\ reload'[r].pc = "section"
      /\ \A q \in Reloaders \ {r} : reload'[q] = reload[q]
  BY <1>1, <1>4, SectionDoneDoes, SectionDoneSound
<1>7. /\ owner' = owner /\ stored' = stored /\ built' = built
      /\ status' = status /\ task' = task /\ orphans' = orphans /\ ended' = ended
  BY <1>4 DEF objects
<1>8. TypeOK'
  BY <1>1, <1>4, <1>5, <1>6, <1>7 DEF TypeOK, ObjectsTypeOK, ReloadRecords
<1>9. Roles'
  <2>1. \A m \in Names : registry'[m] # None => owner'[registry'[m]] = m
    BY <1>1, <1>3, <1>5, <1>7 DEF Roles
  <2>2. \A q \in Reloaders : Reloading(q)'
    BY <1>1, <1>6, <1>7, ReloadingStays DEF Roles
  <2>3. \A t \in Operators : Toggling(t)'
    BY <1>1, <1>4, <1>7, TogglingStays DEF Roles
  <2>4. Watching'
    BY <1>1, <1>4 DEF Watching
  <2> QED
    BY <2>1, <2>2, <2>3, <2>4 DEF Roles
<1>10. ASSUME NEW j \in Instances, owner[j] \in Names \ raced' PROVE Current(j)' <=> Current(j)
  <2>1. CASE j = i
    <3>1. Current(j)
      BY <1>1, <1>3, <2>1 DEF Current, Holds
    <3>2. Current(j)'
      BY <1>3, <1>5, <1>7, <2>1 DEF Current
    <3> QED
      BY <3>1, <3>2
  <2>2. CASE j # i
    <3>1. owner[j] = n => registry[n] = None
      BY <1>4, <1>10
    <3>2. registry'[owner[j]] = j <=> registry[owner[j]] = j
      BY <1>1, <1>5, <1>10, <2>2, <3>1, Types
    <3>3. \A q \in Reloaders : Holds(q, j)' <=> Holds(q, j)
      BY <1>1, <1>3, <1>6, <2>2 DEF Holds
    <3> QED
      BY <1>7, <3>2, <3>3 DEF Current
  <2> QED
    BY <2>1, <2>2
<1>11. ASSUME NEW m \in Names \ raced' PROVE Quiet(m)'
  <2>1. Of(m)' = Of(m) /\ \A j \in Of(m) : j \in Instances /\ owner[j] \in Names \ raced'
    BY <1>7, <1>11 DEF Of
  <2>2. m \notin raced
    BY <1>4, <1>11
  <2> QED
    BY <1>1, <1>4, <1>7, <1>10, <2>1, <2>2, QuietStays DEF IInv
<1> QED
  BY <1>1, <1>7, <1>8, <1>9, <1>11 DEF IInv, Objects, KindOf


LEMMA CreateAndStartInv == ASSUME IInv, NEW r \in Reloaders, CreateAndStart(r) PROVE IInv'
<1>1. /\ TypeOK /\ ObjectsTypeOK /\ Objects /\ Roles /\ Watching /\ Reloading(r) /\ reload[r].todo # {}
      /\ reload[r].pc \in {"section", "create"}
  BY Types DEF IInv, Roles, Reloading, CreateAndStart, Creating, Appeared, AtSection
<1>2. PICK n \in Names : n = Section(r)
  BY <1>1, AtItsSection
<1>3. PICK i \in Instances : i = Fresh /\ owner[i] = None
  BY FreshIsUnmade DEF CreateAndStart
<1>4. PICK v \in Values : v = Wants(r) /\ v # None
  <2>1. Wants(r) # None
    BY <1>1, AtItsSection DEF CreateAndStart, Creating, Appeared, Reloading
  <2> QED
    BY <1>1, <2>1, AtItsSection
<1>5. /\ Expect(r) /\ NewStarted(i, n, v) /\ Moves(r, "insert", i)
      /\ raced' = IF MakesRival(r, n) THEN raced \cup {n} ELSE raced
      /\ UNCHANGED <<file, config, registry, op, power, watch, used, tidy>>
  BY <1>2, <1>3, <1>4 DEF CreateAndStart
<1>6. /\ ObjectsTypeOK' /\ Only(i)
      /\ owner'[i] = n /\ stored'[i] = v /\ built'[i] = Builds(Kind[n], v)
      /\ status'[i] = "Running" /\ task'[i] = Spawns(Kind[n], v) /\ orphans'[i] = orphans[i]
  BY <1>1, <1>5, NewStartedDoes
<1>7. /\ reload' \in [Reloaders -> ReloadRecords] /\ reload'[r].pc = "insert" /\ reload'[r].inst = i
      /\ \A q \in Reloaders \ {r} : reload'[q] = reload[q]
  BY <1>1, <1>5, MovesDoes
<1>8. TypeOK'
  <2>1. expected' \in [{m \in Names : Kind[m] = "social"} -> Values \cup {None}]
    BY <1>1, <1>5, ExpectTyped
  <2> QED
    BY <1>1, <1>5, <1>6, <1>7, <2>1 DEF TypeOK, ReloadRecords
<1>9. Objects'
  <2> SUFFICES ASSUME NEW j \in Instances
               PROVE  /\ status'[j] # "Running" => ~task'[j]
                      /\ owner'[j] = None => ~task'[j] /\ orphans'[j] = 0
                      /\ owner'[j] # None => stored'[j] # None
                      /\ owner'[j] # None /\ status'[j] = "Running" /\ Kind[owner'[j]] = "matrix" =>
                             task'[j] \/ j \in ended'
    BY DEF Objects, KindOf
  <2>1. CASE j = i
    <3>1. n # None
      BY <1>1, Types
    <3> QED
      BY <1>4, <1>6, <2>1, <3>1 DEF Spawns
  <2>2. CASE j # i
    BY <1>1, <1>6, <2>2 DEF Only, Objects, KindOf
  <2> QED
    BY <2>1, <2>2
<1>10. \A j \in Instances : owner[j] # None => j # i /\ owner'[j] = owner[j]
  BY <1>3, <1>6 DEF Only
<1>11. Roles'
  <2>1. Reloading(r)'
    BY <1>1, <1>2, <1>5, <1>6, MovesSound
  <2> QED
    BY <1>1, <1>5, <1>7, <1>10, <2>1, RolesStay, WatchingStays
<1>12. ASSUME NEW j \in Instances \ {i}, owner[j] # None PROVE Current(j)' <=> Current(j)
  <2>1. \A q \in Reloaders : Holds(q, j)' <=> Holds(q, j)
    BY <1>1, <1>7, <1>12 DEF Holds
  <2> QED
    BY <1>5, <1>10, <1>12, <2>1 DEF Current
<1>13. ASSUME NEW m \in Names \ raced', m # n PROVE Quiet(m)'
  <2>1. m # None
    BY <1>1, Types
  <2>2. Of(m)' = Of(m) /\ \A j \in Of(m) : j \in Instances \ {i} /\ owner[j] # None
    BY <1>3, <1>6, <1>13, <2>1 DEF Of, Only
  <2>3. m \notin raced
    BY <1>5, <1>13
  <2> QED
    BY <1>1, <1>5, <1>6, <1>12, <2>2, <2>3, QuietStays DEF IInv, Only
<1>14. ASSUME n \notin raced' PROVE Quiet(n)'
  <2>1. n \notin raced /\ ~MakesRival(r, n) /\ Quiet(n) /\ n # None
    BY <1>1, <1>5, <1>14, Types DEF IInv
  <2>2. ASSUME NEW j \in Of(n) PROVE j \in Instances \ {i} /\ ~Current(j)
    <3>1. j \in Instances /\ owner[j] = n /\ j # i /\ j # None
      BY <1>1, <1>3, <2>1, Types DEF Of
    <3>2. registry[n] # j
      BY <2>1, <3>1 DEF MakesRival
    <3>3. ASSUME NEW q \in Reloaders, Holds(q, j) PROVE FALSE
      <4>1. q # r
        BY <1>1, <3>3 DEF Holds
      <4> QED
        BY <2>1, <3>1, <3>3, <4>1 DEF MakesRival, Holds
    <3> QED
      BY <3>1, <3>2, <3>3 DEF Current
  <2>3. \A j \in Of(n)' : j = i \/ (j \in Of(n) /\ j \in Instances \ {i})
    BY <1>6, <2>2 DEF Of, Only
  <2>4. \A j \in Of(n) : ~Current(j)' /\ ~task[j]
    BY <1>12, <2>1, <2>2 DEF Quiet, InOrder, Of
  <2>5. OneCurrent(n)'
    BY <2>3, <2>4 DEF OneCurrent
  <2>6. InOrder(n)'
    <3> SUFFICES ASSUME NEW j \in Of(n)'
                 PROVE  /\ task'[j] => Current(j)'
                        /\ orphans'[j] = 0
                        /\ status'[j] = "Running" /\ Kind[n] # "plain" => built'[j] # None
      BY DEF InOrder
    <3>1. CASE j = i
      <4>1. Current(i)'
        BY <1>7 DEF Current, Holds
      <4>2. orphans'[i] = 0
        BY <1>1, <1>3, <1>6 DEF Objects
      <4> QED
        BY <1>4, <1>6, <3>1, <4>1, <4>2 DEF Builds
    <3>2. CASE j # i
      BY <1>6, <2>1, <2>3, <2>4, <3>2 DEF Quiet, InOrder, Only
    <3> QED
      BY <3>1, <3>2
  <2>7. CallsAlone(n)'
    <3>1. ASSUME NEW t \in Operators, op[t].pc # "idle" PROVE op[t].inst \notin Of(n)'
      <4>1. op[t].inst # i
        BY <1>1, <1>3, <3>1, Types DEF Roles, Toggling
      <4>2. op[t].inst \notin Of(n)
        BY <2>1, <2>2, <3>1 DEF Quiet, CallsAlone
      <4> QED
        BY <2>3, <4>1, <4>2
    <3>2. watch.inst \notin Of(n)'
      <4>1. CASE watch.inst = None
        BY <1>1, <2>3, <4>1, Types
      <4>2. CASE watch.inst # None
        <5>1. PICK m \in Names : registry[m] = watch.inst
          BY <1>1, <4>2 DEF Watching
        <5>2. owner[watch.inst] = m /\ m # n
          BY <1>1, <2>1, <4>2, <5>1 DEF Roles, MakesRival
        <5>3. m # None
          BY <1>1, Types
        <5> QED
          BY <1>3, <2>3, <5>2, <5>3 DEF Of
      <4> QED
        BY <4>1, <4>2
    <3> QED
      BY <1>5, <3>1, <3>2 DEF CallsAlone
  <2> QED
    BY <2>5, <2>6, <2>7 DEF Quiet
<1> QED
  BY <1>1, <1>8, <1>9, <1>11, <1>13, <1>14 DEF IInv

LEMMA NextInv == IInv /\ [Next]_vars => IInv'
<1> SUFFICES ASSUME IInv, [Next]_vars PROVE IInv'
  OBVIOUS
<1>1. CASE EditFile \/ FlipPower \/ LoseTask \/ UNCHANGED vars
  BY <1>1, SurroundingsInv, LoseTaskInv
<1>2. CASE WatchStep
  BY <1>2, WalkInv, WalkSuspendsInv, WalkBeginsResumeInv, WalkResumesInv DEF WatchStep
<1>3. ASSUME NEW r \in Reloaders, RejectFile(r) \/ BeginReload(r) PROVE IInv'
  BY <1>3, SurroundingsInv, BeginReloadInv
<1>4. ASSUME NEW r \in Reloaders, ReloadStep(r) PROVE IInv'
  BY <1>4, EndsOfReloadInv, SectionChangedInv, StoresConfigsInv, RemoveInv, StopRemovedInv,
     CreateAndStartInv, InsertInv
     DEF ReloadStep
<1>5. ASSUME NEW t \in Operators, ToggleStep(t) PROVE IInv'
  BY <1>5, ToggleEndsInv, TakesConfigsInv, ToggleFailsInv DEF ToggleStep
<1>6. ASSUME NEW t \in Operators, NEW n \in Names, BeginToggle(t, n) PROVE IInv'
  BY <1>6, BeginToggleInv
<1> QED
  BY <1>1, <1>2, <1>3, <1>4, <1>5, <1>6 DEF Next


----------------------------------------------------------------------------
\* Boot has made one connector for each section the config has.

LEMMA BootInstanceIsThere ==
    ASSUME NEW n \in Names
    PROVE  BootInstance(n) \in Instances /\ Order[BootInstance(n)] = n
<1>1. \E k \in 1 .. Len(Order) : Order[k] = n
  BY OrderAssumption
<1>2. BootInstance(n) \in 1 .. Len(Order) /\ Order[BootInstance(n)] = n
  BY <1>1 DEF BootInstance
<1> QED
  BY <1>2, OrderAssumption

LEMMA BootOwners ==
    ASSUME Init
    PROVE  /\ registry \in [Names -> Instances \cup {None}]
           /\ \A n \in Names : registry[n] # None => owner[registry[n]] = n
           /\ \A i \in Instances : owner[i] # None =>
                  /\ owner[i] \in Names /\ registry[owner[i]] = i
                  /\ config.section[owner[i]] # None
<1>1. registry \in [Names -> Instances \cup {None}]
  BY BootInstanceIsThere DEF Init
<1>2. ASSUME NEW n \in Names, registry[n] # None
      PROVE  registry[n] = BootInstance(n) /\ config.section[n] # None
  BY <1>2 DEF Init, Present
<1>3. ASSUME NEW m \in Names, NEW n \in Names, registry[m] # None, registry[m] = registry[n] PROVE m = n
  BY <1>2, <1>3, BootInstanceIsThere
<1>4. ASSUME NEW i \in Instances, NEW n \in Names, registry[n] = i PROVE owner[i] = n
  <2>1. registry[n] # None /\ n \in Registered
    BY <1>4, NoneAssumption DEF Registered
  <2>2. owner[i] = CHOOSE m \in Registered : registry[m] = i
    BY <1>4, <2>1 DEF Init
  <2>3. owner[i] \in Registered /\ registry[owner[i]] = i
    BY <1>4, <2>1, <2>2
  <2> QED
    BY <1>3, <1>4, <2>1, <2>3 DEF Registered
<1>5. ASSUME NEW i \in Instances, owner[i] # None
      PROVE  owner[i] \in Names /\ registry[owner[i]] = i /\ config.section[owner[i]] # None
  <2>1. PICK n \in Registered : registry[n] = i
    BY <1>5 DEF Init
  <2>2. n \in Names /\ owner[i] = n
    BY <1>4, <2>1 DEF Registered
  <2> QED
    BY <1>2, <2>1, <2>2 DEF Registered
<1> QED
  BY <1>1, <1>4, <1>5

LEMMA InitInv == Init => IInv
<1> SUFFICES ASSUME Init PROVE IInv
  OBVIOUS
<1>1. /\ registry \in [Names -> Instances \cup {None}]
      /\ \A n \in Names : registry[n] # None => owner[registry[n]] = n
      /\ \A i \in Instances : owner[i] # None =>
             owner[i] \in Names /\ registry[owner[i]] = i /\ config.section[owner[i]] # None
  BY BootOwners
<1>2. config \in Configs /\ config.section \in [Names -> Values \cup {None}]
  BY FilesAssumption DEF Init, Configs
<1>3. \A i \in Instances :
          /\ owner[i] \in Names \cup {None}
          /\ stored[i] = IF owner[i] = None THEN None ELSE config.section[owner[i]]
          /\ built[i] = IF owner[i] = None THEN None ELSE Builds(KindOf(i), stored[i])
          /\ status[i] = IF owner[i] = None THEN "Stopped" ELSE "Running"
          /\ task[i] <=> owner[i] # None /\ Spawns(KindOf(i), stored[i])
          /\ orphans[i] = 0
  BY <1>1 DEF Init
<1>4. ObjectsTypeOK
  <2>1. \A i \in Instances : stored[i] \in Values \cup {None} /\ built[i] \in Values \cup {None}
    BY <1>1, <1>2, <1>3 DEF Builds
  <2>2. owner \in [Instances -> Names \cup {None}]
    BY <1>1 DEF Init
  <2>3. stored \in [Instances -> Values \cup {None}] /\ built \in [Instances -> Values \cup {None}]
    BY <2>1 DEF Init
  <2>4. /\ status \in [Instances -> Statuses] /\ task \in [Instances -> BOOLEAN]
        /\ orphans \in [Instances -> Nat] /\ ended \subseteq Instances
    BY DEF Init, Statuses, Spawns
  <2> QED
    BY <2>2, <2>3, <2>4 DEF ObjectsTypeOK
<1>5. TypeOK
  <2>1. file \in Configs \cup {Unparsable} /\ power \in {"Active", "Resting"}
    BY FilesAssumption, PowerAssumption DEF Init
  <2>2. expected \in [{n \in Names : Kind[n] = "social"} -> Values \cup {None}]
    BY <1>2 DEF Init
  <2>3. NoReload \in ReloadRecords
    BY FilesAssumption DEF NoReload, ReloadRecords
  <2>4. NoWalk \in WatchRecords
    BY DEF NoWalk, WatchRecords
  <2>5. reload \in [Reloaders -> ReloadRecords] /\ op \in [Operators -> OpRecords] /\ watch \in WatchRecords
    BY <2>3, <2>4, IdleIsTyped DEF Init
  <2> QED
    BY <1>1, <1>2, <1>4, <2>1, <2>2, <2>5 DEF Init, TypeOK, ReloadRecords, OpRecords, WatchRecords
<1>6. Objects
  BY <1>1, <1>3 DEF Objects, Spawns
<1>7. Roles
  <2>1. \A r \in Reloaders : Reloading(r)
    BY DEF Init, Reloading, NoReload
  <2>2. \A t \in Operators : Toggling(t)
    BY DEF Init, Toggling, NoOp
  <2>3. Watching
    BY DEF Init, Watching, NoWalk
  <2> QED
    BY <1>1, <2>1, <2>2, <2>3 DEF Roles
<1>8. ASSUME NEW n \in Names PROVE Quiet(n)
  <2>1. n # None /\ None \notin Instances
    BY NoneAssumption
  <2>2. \A i \in Of(n) : i \in Instances /\ owner[i] = n /\ registry[n] = i
    BY <1>1, <2>1 DEF Of
  <2>3. OneCurrent(n)
    BY <2>2 DEF OneCurrent
  <2>4. InOrder(n)
    <3>1. \A i \in Of(n) : Current(i) /\ orphans[i] = 0
      BY <1>3, <2>2 DEF Current
    <3>2. \A i \in Of(n) : Kind[n] # "plain" => built[i] # None
      BY <1>1, <1>3, <2>1, <2>2 DEF Builds, KindOf
    <3> QED
      BY <3>1, <3>2 DEF InOrder
  <2>5. CallsAlone(n)
    <3>1. \A t \in Operators : op[t].pc = "idle"
      BY DEF Init, NoOp
    <3>2. watch.inst \notin Of(n)
      BY <2>1, <2>2 DEF Init, NoWalk
    <3> QED
      BY <3>1, <3>2 DEF CallsAlone
  <2> QED
    BY <2>3, <2>4, <2>5 DEF Quiet
<1> QED
  BY <1>5, <1>6, <1>7, <1>8 DEF IInv

----------------------------------------------------------------------------
\* While reloads come one at a time and none has failed, the registry is between
\* the two configs of the one under way: at the new one in the sections it has
\* been through, at the old one in those ahead of it.

\* What the registry and the heartbeat have for n is what config c has.
Agrees(n, c) ==
    /\ registry[n] = None <=> c.section[n] = None
    /\ registry[n] # None => stored[registry[n]] = c.section[n]
    /\ Kind[n] = "social" => expected[n] = c.section[n]

Halfway(r) ==
    /\ reload[r].old = config
    /\ \A n \in Names \ reload[r].todo : Agrees(n, reload[r].new)
    /\ \A n \in reload[r].todo :
          reload[r].pc = "section" \/ n # Section(r) => Agrees(n, reload[r].old)
    /\ reload[r].pc # "section" /\ Kind[Section(r)] = "social" => expected[Section(r)] = Wants(r)
    /\ reload[r].pc = "configs" => registry[Section(r)] = reload[r].inst
    /\ reload[r].pc = "stop" => registry[Section(r)] = None
    /\ reload[r].pc = "insert" => stored[reload[r].inst] = Wants(r)

OneReload == \A q, r \in Reloaders : reload[q].pc # "idle" /\ reload[r].pc # "idle" => q = r

Following ==
    tidy =>
        /\ OneReload
        /\ \A r \in Reloaders : reload[r].pc # "idle" => Halfway(r)
        /\ NoneReloading => \A n \in Names : Agrees(n, config)

\* Nothing that concerns n has changed.
Same(n) ==
    /\ registry'[n] = registry[n]
    /\ registry[n] # None => stored'[registry[n]] = stored[registry[n]]
    /\ Kind[n] = "social" => expected'[n] = expected[n]

LEMMA FollowingStays ==
    ASSUME Following, UNCHANGED <<stored, config, registry, expected, reload>>, tidy' = tidy
    PROVE  Following'
<1>1. \A c : \A n \in Names : Agrees(n, c)' <=> Agrees(n, c)
  BY DEF Agrees
<1>2. \A n \in Names : Agrees(n, config)' <=> Agrees(n, config)
  BY DEF Agrees
<1>3. OneReload' <=> OneReload
  BY DEF OneReload
<1>4. NoneReloading' <=> NoneReloading
  BY DEF NoneReloading
<1>5. ASSUME NEW r \in Reloaders, Halfway(r) PROVE Halfway(r)'
  <2>1. Section(r)' = Section(r) /\ Wants(r)' = Wants(r)
    BY DEF Section, Wants, Earliest
  <2> QED
    BY <1>5, <2>1 DEF Halfway, Agrees
<1> QED
  BY <1>2, <1>3, <1>4, <1>5 DEF Following

\* The reload that is under way goes on.
LEMMA FollowingGoesOn ==
    ASSUME Following, tidy' = tidy, NEW r \in Reloaders, tidy => Halfway(r)',
           reload[r].pc # "idle", reload'[r].pc # "idle",
           \A q \in Reloaders \ {r} : reload'[q] = reload[q]
    PROVE  Following'
<1> SUFFICES ASSUME tidy PROVE Following'
  BY DEF Following
<1>1. \A q \in Reloaders \ {r} : reload[q].pc = "idle" /\ reload'[q].pc = "idle"
  BY DEF Following, OneReload
<1>2. OneReload' /\ ~NoneReloading'
  BY <1>1 DEF OneReload, NoneReloading
<1>3. ASSUME NEW q \in Reloaders, reload'[q].pc # "idle" PROVE Halfway(q)'
  BY <1>1, <1>3
<1> QED
  BY <1>2, <1>3 DEF Following

LEMMA ExpectDoes ==
    ASSUME TypeOK, NEW r \in Reloaders, NEW n \in Names, n = Section(r), Expect(r)
    PROVE  /\ Kind[n] = "social" => expected'[n] = Wants(r)
           /\ \A m \in Names \ {n} : Kind[m] = "social" => expected'[m] = expected[m]
<1>1. expected \in [{m \in Names : Kind[m] = "social"} -> Values \cup {None}]
  BY DEF TypeOK
<1> QED
  BY <1>1 DEF Expect

\* It is through with a section when that section agrees.
LEMMA HalfwayDone ==
    ASSUME TypeOK, NEW r \in Reloaders, Halfway(r), SectionDone(r), config' = config,
           NEW n \in Names, n = Section(r), \A m \in Names \ {n} : Same(m),
           registry'[n] = None <=> Wants(r) = None,
           registry'[n] # None => stored'[registry'[n]] = Wants(r),
           Kind[n] = "social" => expected'[n] = Wants(r)
    PROVE  Halfway(r)'
<1>1. /\ reload'[r].pc = "section" /\ reload'[r].todo = reload[r].todo \ {n}
      /\ reload'[r].old = reload[r].old /\ reload'[r].new = reload[r].new
  BY SectionDoneDoes
<1>2. reload[r].todo \subseteq Names
  BY Types DEF ReloadRecords
<1>3. ASSUME NEW m \in Names \ reload'[r].todo PROVE Agrees(m, reload[r].new)'
  <2>1. CASE m = n
    BY <1>1, <2>1 DEF Agrees, Wants
  <2>2. CASE m # n
    BY <1>1, <1>3, <2>2 DEF Agrees, Same, Halfway
  <2> QED
    BY <2>1, <2>2
<1>4. ASSUME NEW m \in reload'[r].todo PROVE Agrees(m, reload[r].old)'
  BY <1>1, <1>2, <1>4 DEF Agrees, Same, Halfway
<1> QED
  BY <1>1, <1>3, <1>4 DEF Halfway

\* Or it goes on with it.
LEMMA HalfwayMoves ==
    ASSUME TypeOK, NEW r \in Reloaders, Halfway(r), config' = config,
           NEW pc \in {"configs", "create", "remove", "stop", "insert"}, NEW i \in Instances \cup {None},
           Moves(r, pc, i),
           NEW n \in Names, n = Section(r), \A m \in Names \ {n} : Same(m), n \in reload[r].todo,
           Kind[n] = "social" => expected'[n] = Wants(r),
           pc = "configs" => registry'[n] = i,
           pc = "stop" => registry'[n] = None,
           pc = "insert" => stored'[i] = Wants(r)
    PROVE  Halfway(r)'
<1>1. /\ reload'[r].pc = pc /\ reload'[r].inst = i /\ reload'[r].todo = reload[r].todo
      /\ reload'[r].old = reload[r].old /\ reload'[r].new = reload[r].new
  BY MovesDoes
<1>2. reload[r].todo \subseteq Names
  BY Types DEF ReloadRecords
<1>3. Section(r)' = n /\ Wants(r)' = Wants(r)
  BY <1>1 DEF Section, Wants, Earliest
<1>4. ASSUME NEW m \in Names \ reload'[r].todo PROVE Agrees(m, reload[r].new)'
  BY <1>1, <1>4 DEF Agrees, Same, Halfway
<1>5. ASSUME NEW m \in reload'[r].todo, m # n PROVE Agrees(m, reload[r].old)'
  BY <1>1, <1>2, <1>5 DEF Agrees, Same, Halfway
<1> QED
  BY <1>1, <1>3, <1>4, <1>5 DEF Halfway

\* A reload begins where the last one ended, and ends where it was going.
LEMMA BeginReloadFollows == ASSUME IInv, Following, NEW r \in Reloaders, BeginReload(r) PROVE Following'
<1> SUFFICES ASSUME tidy' PROVE Following'
  BY DEF Following
<1>1. TypeOK /\ tidy /\ NoneReloading /\ \A n \in Names : Agrees(n, config)
  BY DEF IInv, Following, BeginReload
<1>2. /\ \A q \in Reloaders \ {r} : reload'[q].pc = "idle"
      /\ reload'[r] = [pc |-> "section", old |-> config, new |-> file,
                       todo |-> Changed(config, file), inst |-> None]
      /\ UNCHANGED <<stored, config, registry, expected>>
  BY <1>1, Types DEF BeginReload, NoneReloading, objects
<1>3. /\ reload'[r].pc = "section" /\ reload'[r].old = config /\ reload'[r].new = file
      /\ reload'[r].todo = Changed(config, file)
  BY <1>2
<1>4. \A n \in Names : Agrees(n, reload[r].old)'
  BY <1>1, <1>2, <1>3 DEF Agrees
<1>5. ASSUME NEW n \in Names \ reload'[r].todo PROVE Agrees(n, reload[r].new)'
  <2>1. config.section[n] = file.section[n]
    BY <1>3, <1>5 DEF Changed
  <2> QED
    BY <1>1, <1>2, <1>3, <2>1 DEF Agrees
<1>6. reload'[r].todo \subseteq Names
  BY <1>3 DEF Changed
<1>7. Halfway(r)'
  BY <1>2, <1>3, <1>4, <1>5, <1>6 DEF Halfway
<1>8. OneReload' /\ ~NoneReloading'
  BY <1>2, <1>3 DEF OneReload, NoneReloading
<1> QED
  BY <1>2, <1>7, <1>8 DEF Following

LEMMA SwapConfigFollows == ASSUME IInv, Following, NEW r \in Reloaders, SwapConfig(r) PROVE Following'
<1> SUFFICES ASSUME tidy PROVE Following'
  BY DEF Following, SwapConfig
<1>1. TypeOK /\ Halfway(r) /\ reload[r].todo = {} /\ \A q \in Reloaders \ {r} : reload[q].pc = "idle"
  BY DEF IInv, Following, SwapConfig, AllSectionsDone, OneReload
<1>2. \A q \in Reloaders : reload'[q].pc = "idle"
  BY <1>1, EndsReload DEF SwapConfig
<1>3. \A n \in Names : Agrees(n, config)'
  BY <1>1 DEF SwapConfig, Halfway, Agrees, objects
<1> QED
  BY <1>2, <1>3 DEF Following, OneReload


\* What every step at a section may count on.
LEMMA AtWork ==
    ASSUME IInv, Following, tidy, NEW r \in Reloaders, reload[r].pc # "idle", reload[r].todo # {}
    PROVE  /\ TypeOK /\ ObjectsTypeOK /\ Objects /\ Roles /\ Reloading(r) /\ Halfway(r)
           /\ Section(r) \in Names /\ Section(r) \in reload[r].todo
           /\ Wants(r) \in Values \cup {None}
           /\ reload[r].pc = "section" =>
                  /\ registry[Section(r)] = None <=> Was(r) = None
<1>1. TypeOK /\ ObjectsTypeOK /\ Objects /\ Roles /\ Reloading(r) /\ Halfway(r)
  BY Types DEF IInv, Roles, Following
<1>2. Section(r) \in Names /\ Section(r) \in reload[r].todo /\ Wants(r) \in Values \cup {None}
  BY <1>1, AtItsSection
<1> QED
  BY <1>1, <1>2 DEF Halfway, Agrees, Was

LEMMA UnregisteredFollows ==
    ASSUME IInv, Following, NEW r \in Reloaders, SectionUnregistered(r) PROVE Following'
<1> SUFFICES ASSUME tidy PROVE Following'
  BY DEF Following, SectionUnregistered
<1>1. reload[r].pc = "section" /\ reload[r].todo # {} /\ Was(r) # None
  BY DEF SectionUnregistered, Modified, Appeared, AtSection
<1> QED
  BY <1>1, AtWork DEF SectionUnregistered

LEMMA ChangedFollows ==
    ASSUME IInv, Following, NEW r \in Reloaders, SectionChanged(r) \/ LocksClients(r)
    PROVE  Following'
<1>1. reload[r].pc = "section" /\ reload[r].todo # {} /\ tidy' = tidy
  BY DEF SectionChanged, LocksClients, Modified, AtSection
<1>2. \/ SectionDone(r) /\ SectionChanged(r)
      \/ Moves(r, "remove", None)
      \/ Moves(r, "configs", registry[Section(r)])
  BY DEF SectionChanged, LocksClients
<1>3. TypeOK
  BY DEF IInv
<1>4. reload'[r].pc # "idle" /\ \A q \in Reloaders \ {r} : reload'[q] = reload[q]
  <2>1. Section(r) \in Names /\ registry[Section(r)] \in Instances \cup {None}
    BY <1>1, <1>3, AtItsSection, Types DEF IInv, Roles
  <2> QED
    BY <1>2, <1>3, <2>1, SectionDoneDoes, MovesDoes
<1>5. ASSUME tidy PROVE Halfway(r)'
  <2>1. /\ ObjectsTypeOK /\ Roles /\ Halfway(r) /\ Section(r) \in Names /\ Section(r) \in reload[r].todo
        /\ Wants(r) \in Values \cup {None}
    BY <1>1, <1>5, AtWork
  <2>2. PICK n \in Names : n = Section(r) /\ n \in reload[r].todo
    BY <2>1
  <2>3. PICK i \in Instances : i = registry[n] /\ owner[i] = n
    BY <1>3, <2>1, <2>2, Types DEF SectionChanged, LocksClients, Roles
  <2>4. Only(i) /\ (SectionChanged(r) => stored'[i] = Wants(r)) /\ Wants(r) # None
    BY <2>1, <2>2, <2>3, RebuildDoes, StoreDoes DEF SectionChanged, LocksClients, Modified, Appeared, Retired
  <2>5. /\ Kind[n] = "social" => expected'[n] = Wants(r)
        /\ \A m \in Names \ {n} : Kind[m] = "social" => expected'[m] = expected[m]
    BY <1>3, <2>2, ExpectDoes DEF SectionChanged, LocksClients
  <2>6. config' = config /\ registry' = registry
    BY DEF SectionChanged, LocksClients
  <2>7. ASSUME NEW m \in Names \ {n} PROVE Same(m)
    <3>1. registry[m] # None => registry[m] \in Instances \ {i}
      BY <1>3, <2>1, <2>3, Types DEF Roles
    <3> QED
      BY <2>4, <2>5, <2>6, <3>1 DEF Same, Only
  <2>8. i # None
    BY <1>3, Types
  <2> QED
    BY <1>2, <1>3, <2>1, <2>2, <2>3, <2>4, <2>5, <2>6, <2>7, <2>8, HalfwayDone, HalfwayMoves
<1> QED
  BY <1>1, <1>4, <1>5, FollowingGoesOn

LEMMA StoresConfigsFollows == ASSUME IInv, Following, NEW r \in Reloaders, StoresConfigs(r) PROVE Following'
<1>1. /\ reload[r].pc = "configs" /\ reload[r].todo # {} /\ TypeOK /\ ObjectsTypeOK /\ Roles
      /\ Reloading(r) /\ tidy' = tidy /\ SectionDone(r)
  BY Types DEF IInv, Roles, Reloading, StoresConfigs
<1>2. PICK n \in Names : n = Section(r) /\ n \in reload[r].todo
  BY <1>1, AtItsSection
<1>3. PICK i \in Instances : i = reload[r].inst /\ owner[i] = n
  BY <1>1, <1>2 DEF Reloading
<1>4. reload'[r].pc # "idle" /\ \A q \in Reloaders \ {r} : reload'[q] = reload[q]
  BY <1>1, SectionDoneDoes
<1>5. Wants(r) \in Values \cup {None} /\ Wants(r) # None
  BY <1>1, AtItsSection DEF Reloading
<1>6. stored'[i] = Wants(r) /\ Only(i)
  BY <1>1, <1>3, <1>5, StoreDoes DEF StoresConfigs
<1>7. UNCHANGED <<config, registry, expected>>
  BY DEF StoresConfigs
<1>8. ASSUME NEW m \in Names \ {n} PROVE Same(m)
  <2>1. registry[m] # None => registry[m] \in Instances \ {i}
    BY <1>1, <1>3, Types DEF Roles
  <2> QED
    BY <1>6, <1>7, <2>1 DEF Same, Only
<1>9. ASSUME tidy PROVE Halfway(r)'
  <2>1. Halfway(r)
    BY <1>1, <1>9 DEF Following
  <2>2. registry[n] = i /\ i # None /\ (Kind[n] = "social" => expected[n] = Wants(r))
    BY <1>1, <1>2, <1>3, <2>1, Types DEF Halfway
  <2> QED
    BY <1>1, <1>2, <1>5, <1>6, <1>7, <1>8, <2>1, <2>2, HalfwayDone
<1> QED
  BY <1>1, <1>4, <1>9, FollowingGoesOn

LEMMA RemoveFollows == ASSUME IInv, Following, NEW r \in Reloaders, Remove(r) PROVE Following'
<1>1. reload[r].pc \in {"section", "remove"} /\ reload[r].todo # {} /\ TypeOK /\ Roles /\ tidy' = tidy
  BY DEF IInv, Roles, Reloading, Remove, Retired, AtSection
<1>2. PICK n \in Names : n = Section(r) /\ n \in reload[r].todo
  BY <1>1, AtItsSection DEF Roles
<1>3. PICK i \in Instances \cup {None} : i = registry[n]
  BY <1>1, Types
<1>4. \/ i # None /\ Moves(r, "stop", i)
      \/ Wants(r) # None /\ Moves(r, "create", None)
      \/ Wants(r) = None /\ SectionDone(r)
  BY <1>2, <1>3 DEF Remove
<1>5. reload'[r].pc # "idle" /\ \A q \in Reloaders \ {r} : reload'[q] = reload[q]
  BY <1>1, <1>4, SectionDoneDoes, MovesDoes
<1>6. registry'[n] = None /\ \A m \in Names \ {n} : registry'[m] = registry[m]
  BY <1>1, <1>2, Types DEF Remove
<1>7. /\ Kind[n] = "social" => expected'[n] = Wants(r)
      /\ \A m \in Names \ {n} : Kind[m] = "social" => expected'[m] = expected[m]
  BY <1>1, <1>2, ExpectDoes DEF Remove
<1>8. config' = config /\ stored' = stored
  BY DEF Remove, objects
<1>9. \A m \in Names \ {n} : Same(m)
  BY <1>6, <1>7, <1>8 DEF Same
<1>10. ASSUME tidy PROVE Halfway(r)'
  <2>1. Halfway(r)
    BY <1>1, <1>10 DEF Following
  <2> QED
    BY <1>1, <1>2, <1>4, <1>6, <1>7, <1>8, <1>9, <2>1, HalfwayDone, HalfwayMoves
<1> QED
  BY <1>1, <1>5, <1>10, FollowingGoesOn

LEMMA StopRemovedFollows == ASSUME IInv, Following, NEW r \in Reloaders, StopRemoved(r) PROVE Following'
<1>1. reload[r].pc = "stop" /\ reload[r].todo # {} /\ TypeOK /\ Roles /\ tidy' = tidy
  BY DEF IInv, Roles, Reloading, StopRemoved
<1>2. PICK n \in Names : n = Section(r) /\ n \in reload[r].todo
  BY <1>1, AtItsSection DEF Roles
<1>3. \/ Wants(r) # None /\ Moves(r, "create", None)
      \/ Wants(r) = None /\ SectionDone(r)
  BY DEF StopRemoved
<1>4. reload'[r].pc # "idle" /\ \A q \in Reloaders \ {r} : reload'[q] = reload[q]
  BY <1>1, <1>3, SectionDoneDoes, MovesDoes
<1>5. UNCHANGED <<config, registry, expected, stored>>
  BY DEF StopRemoved, Stop
<1>6. \A m \in Names \ {n} : Same(m)
  BY <1>5 DEF Same
<1>7. ASSUME tidy PROVE Halfway(r)'
  <2>1. Halfway(r)
    BY <1>1, <1>7 DEF Following
  <2>2. registry[n] = None /\ (Kind[n] = "social" => expected[n] = Wants(r))
    BY <1>1, <1>2, <2>1 DEF Halfway
  <2> QED
    BY <1>1, <1>2, <1>3, <1>5, <1>6, <2>1, <2>2, HalfwayDone, HalfwayMoves
<1> QED
  BY <1>1, <1>4, <1>7, FollowingGoesOn

LEMMA CreateFollows == ASSUME IInv, Following, NEW r \in Reloaders, CreateAndStart(r) PROVE Following'
<1>1. /\ reload[r].pc \in {"section", "create"} /\ reload[r].todo # {} /\ TypeOK /\ ObjectsTypeOK /\ Roles
      /\ tidy' = tidy
  BY Types DEF IInv, Roles, Reloading, CreateAndStart, Creating, Appeared, AtSection
<1>2. PICK n \in Names : n = Section(r) /\ n \in reload[r].todo
  BY <1>1, AtItsSection DEF Roles
<1>3. PICK i \in Instances : i = Fresh /\ owner[i] = None
  BY FreshIsUnmade DEF CreateAndStart
<1>4. Moves(r, "insert", i)
  BY <1>3 DEF CreateAndStart
<1>5. reload'[r].pc # "idle" /\ \A q \in Reloaders \ {r} : reload'[q] = reload[q]
  BY <1>1, <1>4, MovesDoes
<1>6. Wants(r) \in Values \cup {None}
  BY <1>1, AtItsSection DEF Roles
<1>7. stored'[i] = Wants(r) /\ Only(i)
  BY <1>1, <1>2, <1>3, <1>6, NewStartedDoes DEF CreateAndStart
<1>8. /\ Kind[n] = "social" => expected'[n] = Wants(r)
      /\ \A m \in Names \ {n} : Kind[m] = "social" => expected'[m] = expected[m]
  BY <1>1, <1>2, ExpectDoes DEF CreateAndStart
<1>9. config' = config /\ registry' = registry
  BY DEF CreateAndStart
<1>10. ASSUME NEW m \in Names \ {n} PROVE Same(m)
  <2>1. registry[m] # None => registry[m] \in Instances \ {i}
    BY <1>1, <1>3, Types DEF Roles
  <2> QED
    BY <1>7, <1>8, <1>9, <2>1 DEF Same, Only
<1>11. ASSUME tidy PROVE Halfway(r)'
  <2>1. Halfway(r)
    BY <1>1, <1>11 DEF Following
  <2> QED
    BY <1>1, <1>2, <1>4, <1>7, <1>8, <1>9, <1>10, <2>1, HalfwayMoves
<1> QED
  BY <1>1, <1>5, <1>11, FollowingGoesOn

LEMMA InsertFollows == ASSUME IInv, Following, NEW r \in Reloaders, Insert(r) PROVE Following'
<1>1. /\ reload[r].pc = "insert" /\ reload[r].todo # {} /\ TypeOK /\ Objects /\ Roles /\ Reloading(r)
      /\ tidy' = tidy /\ SectionDone(r)
  BY DEF IInv, Roles, Reloading, Insert
<1>2. PICK n \in Names : n = Section(r) /\ n \in reload[r].todo
  BY <1>1, AtItsSection
<1>3. PICK i \in Instances : i = reload[r].inst /\ owner[i] = n
  BY <1>1, <1>2 DEF Reloading
<1>4. reload'[r].pc # "idle" /\ \A q \in Reloaders \ {r} : reload'[q] = reload[q]
  BY <1>1, SectionDoneDoes
<1>5. registry'[n] = i /\ \A m \in Names \ {n} : registry'[m] = registry[m]
  BY <1>1, <1>2, <1>3, Types DEF Insert
<1>6. UNCHANGED <<config, expected, stored>>
  BY DEF Insert, objects
<1>7. \A m \in Names \ {n} : Same(m)
  BY <1>5, <1>6 DEF Same
<1>8. i # None /\ stored[i] # None
  BY <1>1, <1>3, Types DEF Objects
<1>9. ASSUME tidy PROVE Halfway(r)'
  <2>1. Halfway(r)
    BY <1>1, <1>9 DEF Following
  <2>2. stored[i] = Wants(r) /\ (Kind[n] = "social" => expected[n] = Wants(r))
    BY <1>1, <1>2, <1>3, <2>1 DEF Halfway
  <2> QED
    BY <1>1, <1>2, <1>5, <1>6, <1>7, <1>8, <2>1, <2>2, HalfwayDone
<1> QED
  BY <1>1, <1>4, <1>9, FollowingGoesOn

\* Toggles and walks call connectors and leave what they hold to the reloads.
LEMMA OthersFollow ==
    ASSUME Following,
           \/ EditFile \/ FlipPower \/ LoseTask \/ WatchStep \/ UNCHANGED vars
           \/ \E r \in Reloaders : RejectFile(r)
           \/ \E t \in Operators : ToggleStep(t) \/ \E n \in Names : BeginToggle(t, n)
    PROVE  Following'
<1>1. CASE EditFile \/ FlipPower \/ LoseTask \/ UNCHANGED vars
  BY <1>1, FollowingStays DEF EditFile, FlipPower, LoseTask, TaskEnds, vars, daemon, objects
<1>2. ASSUME NEW r \in Reloaders, RejectFile(r) PROVE Following'
  BY <1>2, FollowingStays DEF RejectFile, objects
<1>3. CASE BeginWalk \/ EndWalk \/ WalkResumes
  BY <1>3, FollowingStays DEF BeginWalk, EndWalk, WalkResumes, Resume, objects
<1>4. ASSUME NEW n \in Names, WalkPast(n) \/ WalkBeginsResume(n) PROVE Following'
  BY <1>4, FollowingStays DEF WalkPast, WalkBeginsResume, objects
<1>5. ASSUME NEW n \in Names, WalkSuspends(n) PROVE Following'
  <2>1. Suspend(registry[n])
    BY <1>5 DEF WalkSuspends
  <2>2. stored' = stored
    <3>1. CASE KindOf(registry[n]) = "matrix"
      BY <2>1, <3>1 DEF Suspend
    <3>2. CASE KindOf(registry[n]) = "social"
      BY <2>1, <3>2 DEF Suspend, objects
    <3>3. CASE KindOf(registry[n]) # "matrix" /\ KindOf(registry[n]) # "social"
      BY <2>1, <3>3 DEF Suspend, Stop
    <3> QED
      BY <3>1, <3>2, <3>3
  <2> QED
    BY <1>5, <2>2, FollowingStays DEF WalkSuspends
<1>6. ASSUME NEW t \in Operators, ToggleStep(t) PROVE Following'
  BY <1>6, FollowingStays 
     DEF ToggleStep, ToggleStops, TakesConfigs, ToggleStarts, ToggleFails, Stop, Start, objects
<1>7. ASSUME NEW t \in Operators, NEW n \in Names, BeginToggle(t, n) PROVE Following'
  BY <1>7, FollowingStays DEF BeginToggle, objects
<1> QED
  BY <1>1, <1>2, <1>3, <1>4, <1>5, <1>6, <1>7 DEF WatchStep

LEMMA InitFollows == Init => Following
<1> SUFFICES ASSUME Init PROVE Following
  OBVIOUS
<1>1. \A r \in Reloaders : reload[r].pc = "idle"
  BY DEF Init, NoReload
<1>2. ASSUME NEW n \in Names PROVE Agrees(n, config)
  <2>1. BootInstance(n) # None /\ BootInstance(n) \in Instances
    BY BootInstanceIsThere, NoneAssumption
  <2>2. registry[n] = IF config.section[n] # None THEN BootInstance(n) ELSE None
    BY DEF Init, Present
  <2>3. registry[n] # None => owner[registry[n]] = n /\ n # None
    BY BootOwners, NoneAssumption
  <2>4. registry[n] # None => stored[registry[n]] = config.section[n]
    BY <2>1, <2>2, <2>3 DEF Init
  <2>5. Kind[n] = "social" => expected[n] = config.section[n]
    BY DEF Init
  <2> QED
    BY <2>1, <2>2, <2>4, <2>5 DEF Agrees
<1> QED
  BY <1>1, <1>2 DEF Following, OneReload

LEMMA NextFollows == IInv /\ Following /\ [Next]_vars => Following'
<1> SUFFICES ASSUME IInv, Following, [Next]_vars PROVE Following'
  OBVIOUS
<1>1. CASE \/ EditFile \/ FlipPower \/ LoseTask \/ WatchStep \/ UNCHANGED vars
           \/ \E r \in Reloaders : RejectFile(r)
           \/ \E t \in Operators : ToggleStep(t) \/ \E n \in Names : BeginToggle(t, n)
  BY <1>1, OthersFollow
<1>2. ASSUME NEW r \in Reloaders, BeginReload(r) PROVE Following'
  BY <1>2, BeginReloadFollows
<1>3. ASSUME NEW r \in Reloaders, StartFails(r) \/ RejectPower(r) PROVE Following'
  BY <1>3 DEF StartFails, RejectPower, Following
<1>4. ASSUME NEW r \in Reloaders, ReloadStep(r) PROVE Following'
  BY <1>3, <1>4, UnregisteredFollows, ChangedFollows, StoresConfigsFollows, RemoveFollows, StopRemovedFollows,
     CreateFollows, InsertFollows, SwapConfigFollows DEF ReloadStep
<1> QED
  BY <1>1, <1>2, <1>4 DEF Next


----------------------------------------------------------------------------
\* What the invariant says of the properties.

LEMMA SingleFromInv == IInv => NoDoubledTask
<1> SUFFICES ASSUME IInv, NEW n \in Names \ raced
             PROVE  /\ Cardinality(LiveTasks(n)) <= 1
                    /\ \A i \in Instances : owner[i] = n => orphans[i] = 0
  BY DEF NoDoubledTask
<1>1. OneCurrent(n) /\ InOrder(n)
  BY DEF IInv, Quiet
<1>2. \A i, j \in LiveTasks(n) : i = j
  BY <1>1 DEF LiveTasks, OneCurrent, InOrder, Of
<1>3. Cardinality(LiveTasks(n)) <= 1
  <2>1. CASE LiveTasks(n) = {}
    BY <2>1, FS_EmptySet
  <2>2. CASE LiveTasks(n) # {}
    <3>1. PICK i : LiveTasks(n) = {i}
      BY <1>2, <2>2
    <3>2. Cardinality({i}) = 1
      BY FS_Singleton
    <3> QED
      BY <3>1, <3>2
  <2> QED
    BY <2>1, <2>2
<1> QED
  BY <1>1, <1>3 DEF InOrder, Of

LEMMA ReachableFromInv == IInv => TaskIsReachable
<1> SUFFICES ASSUME IInv, NEW n \in Names \ raced, NEW i \in LiveTasks(n)
             PROVE  registry[n] = i \/ \E r \in Reloaders : reload[r].inst = i
  BY DEF TaskIsReachable
<1>1. owner[i] = n /\ i \in Of(n) /\ task[i]
  BY DEF LiveTasks, Of
<1>2. Current(i)
  BY <1>1 DEF IInv, Quiet, InOrder
<1> QED
  BY <1>1, <1>2 DEF Current, Holds

LEMMA StatusFromInv == IInv => StatusIsTrue
<1> SUFFICES ASSUME IInv, NEW n \in Registered \ raced
             PROVE  LET i == registry[n] IN
                    /\ status[i] = "Running" /\ Kind[n] # "plain" => built[i] # None
                    /\ status[i] = "Running" /\ Kind[n] = "matrix" => task[i] \/ i \in ended
                    /\ status[i] # "Running" => ~task[i]
  BY DEF StatusIsTrue
<1>1. n \in Names \ raced /\ registry[n] # None
  BY DEF Registered
<1>2. PICK i \in Instances : i = registry[n] /\ owner[i] = n /\ owner[i] # None
  BY <1>1, Types DEF IInv, Roles
<1>3. InOrder(n) /\ Objects
  BY <1>1 DEF IInv, Quiet
<1>4. status[i] = "Running" /\ Kind[n] # "plain" => built[i] # None
  BY <1>2, <1>3 DEF InOrder, Of
<1>5. /\ status[i] = "Running" /\ Kind[n] = "matrix" => task[i] \/ i \in ended
      /\ status[i] # "Running" => ~task[i]
  BY <1>2, <1>3 DEF Objects, KindOf
<1> QED
  BY <1>2, <1>4, <1>5

LEMMA RegistryFromInv == IInv /\ Following => RegistryFollowsConfig
<1> SUFFICES ASSUME IInv, Following, tidy, NoneReloading
             PROVE  /\ Registered = Present(config)
                    /\ \A n \in Registered : stored[registry[n]] = config.section[n]
                    /\ \A n \in DOMAIN expected : expected[n] = config.section[n]
  BY DEF RegistryFollowsConfig
<1>1. \A n \in Names : Agrees(n, config)
  BY DEF Following
<1>2. DOMAIN expected = {n \in Names : Kind[n] = "social"}
  BY DEF IInv, TypeOK
<1> QED
  BY <1>1, <1>2 DEF Agrees, Registered, Present

\* The invariants hold for any number of actors and calls.
LEMMA Invariance == Spec => []IInv
BY InitInv, NextInv, PTL DEF Spec

LEMMA FollowingHolds == Spec => []Following
BY InitFollows, NextFollows, Invariance, PTL DEF Spec

\* Statuses are those start and stop know, the registry holds connectors, and a
\* reload holds the configs it compares: see TypeOK.
THEOREM TypeCorrect == Spec => []TypeOK
<1>1. IInv => TypeOK
  BY DEF IInv
<1> QED
  BY <1>1, Invariance, PTL

\* start and resume overwrite a task's handle without ending the task behind it:
\* as long as nobody overtakes a call on the same name, no task is ever doubled or
\* left behind by that, however replacements, toggles and power transitions of any
\* number of actors follow each other.
THEOREM TasksAreSingle == Spec => []NoDoubledTask
BY SingleFromInv, Invariance, PTL

\* register inserts after it started and deregister stops after it removed: a
\* task whose connector is in neither the registry nor a reload's hands exists
\* only on a name that was raced for.
THEOREM TasksAreReachable == Spec => []TaskIsReachable
BY ReachableFromInv, Invariance, PTL

\* The status byte that every caller reads agrees with the client and the task
\* behind it, on every name that was not raced for: a Matrix that says Running
\* without a sync task is one whose task has ended by itself.
THEOREM StatusIsTold == Spec => []StatusIsTrue
BY StatusFromInv, Invariance, PTL


\* reload touches the registry section by section, at every await of which toggles
\* and the power watcher go on: once it is over the connectors and the platforms
\* the watchdog expects are those of the config, unless a reload failed half-way
\* or two of them ran at once.
THEOREM RegistryIsAsConfigured == Spec => []RegistryFollowsConfig
BY RegistryFromInv, Invariance, FollowingHolds, PTL


=============================================================================
