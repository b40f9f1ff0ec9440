----------------------------- MODULE PostingLoop -----------------------------
(***************************************************************************)
(* The posting loop of stonkwatch_social, and the watchdog that is to tell *)
(* when a platform has not been posted to for a day.                       *)
(*                                                                         *)
(* A cycle opens the replica, fetches the announcements of the last 24     *)
(* hours, leaves out those the loop remembers, and posts some of the rest, *)
(* to every platform in turn or to a review room; now and then a promo     *)
(* follows.  The whole cycle has a time budget.  What it posted is         *)
(* remembered only when it ends in time, and only in memory.               *)
(*                                                                         *)
(* An announcement is its rank in the query's order.  Publishing takes as  *)
(* long as it likes, so that a platform never answers is a step that is    *)
(* not taken.                                                              *)
(***************************************************************************)
EXTENDS Naturals, Sequences, FiniteSets

CONSTANTS
    Announcements,  \* ranks: lower ones come first in the query
    Sensitive,      \* those that are price sensitive
    Platforms,      \* the platforms that take announcements, in posting order
    Room,           \* the review room
    Settings,       \* the modes and filters the section may ask for
    Window,         \* LIMIT of the query
    MaxPerCycle,    \* max_posts_per_cycle
    Forget,         \* 500: more ids than this and all are forgotten
    MaxRespawns, MaxOthers  \* bounds: new loops, posts by triggers of their own

Modes == {"auto", "review", "neither"}

PlatformSet == {Platforms[n] : n \in DOMAIN Platforms}

ASSUME RankAssumption == Announcements \subseteq Nat /\ Sensitive \subseteq Announcements
ASSUME SizeAssumption == {Window, MaxPerCycle, Forget} \subseteq Nat \ {0}
ASSUME PlatformsAssumption ==
    /\ Platforms \in Seq(PlatformSet)
    /\ \A m, n \in DOMAIN Platforms : Platforms[m] = Platforms[n] => m = n
ASSUME SettingsAssumption == Settings \subseteq [mode : Modes, sensitiveOnly : BOOLEAN]

VARIABLES
    setting,    \* the section the loop was spawned with
    feed,       \* announcements of the last 24 hours
    expired,    \* those that are older
    pc,         \* "sleep", "open", "post", "promo", or "dead": the task panicked
    promo,      \* this cycle ends with a promo
    todo,       \* to_post: what is left of it, the one in hand included
    at,         \* which target is next
    newly,      \* newly_posted
    memory,     \* posted_ids
    heartbeat,  \* per platform: no success since boot, one within 24 hours, older
    told,       \* platforms whose silence was recorded since they last succeeded
    used,       \* how often each bounded action has happened
    fate        \* history, per announcement and target: what became of it there since
                \* the loop last lost track of the announcement

world == <<feed, expired>>
cycle == <<pc, promo, todo, at, newly, memory>>
monitor == <<heartbeat, told>>
loopVars == <<setting, world, cycle, monitor, used, fate>>

AutoPost == setting.mode = "auto"
Targets == IF AutoPost THEN Platforms ELSE <<Room>>
Places == PlatformSet \cup {Room}
Untouched == [p \in Places |-> "none"]

LoopInit ==
    /\ setting \in Settings
    /\ feed \in SUBSET Announcements
    /\ expired = {}
    /\ pc = "sleep" /\ promo = FALSE /\ todo = {} /\ at = 1
    /\ newly = {} /\ memory = {}
    /\ heartbeat = [p \in PlatformSet |-> "never"]
    /\ told = {}
    /\ used = [respawns |-> 0, others |-> 0]
    /\ fate = [a \in Announcements |-> Untouched]

Appears(a) ==
    /\ a \notin feed \cup expired
    /\ feed' = feed \cup {a}
    /\ UNCHANGED <<setting, expired, cycle, monitor, used, fate>>

Expires(a) ==
    /\ a \in feed
    /\ feed' = feed \ {a}
    /\ expired' = expired \cup {a}
    /\ UNCHANGED <<setting, cycle, monitor, used, fate>>

(***************************************************************************)
(* A cycle.                                                                *)
(***************************************************************************)
\* Every twelfth cycle has a promo, in market hours every sixth.
Wake ==
    /\ pc = "sleep"
    /\ pc' = "open"
    /\ promo' \in BOOLEAN
    /\ UNCHANGED <<setting, world, todo, at, newly, memory, monitor, used, fate>>

\* A bug to compare with: the limit on what is remembered is off by one.
EndCycleKeepsOneMore(mem) ==
    /\ memory' = IF Cardinality(mem) > Forget + 1 THEN {} ELSE mem
    /\ fate' = [a \in Announcements |-> IF a \in memory' THEN fate[a] ELSE Untouched]
    /\ pc' = "sleep" /\ promo' = FALSE /\ todo' = {} /\ at' = 1 /\ newly' = {}
    /\ UNCHANGED <<setting, world, monitor, used>>

\* The loop goes to sleep with mem in memory, or with nothing if that is too much.
EndCycle(mem) ==
    /\ memory' = IF Cardinality(mem) > Forget THEN {} ELSE mem
    /\ fate' = [a \in Announcements |-> IF a \in memory' THEN fate[a] ELSE Untouched]
    /\ pc' = "sleep" /\ promo' = FALSE /\ todo' = {} /\ at' = 1 /\ newly' = {}
    /\ UNCHANGED <<setting, world, monitor, used>>

\* No replica, no connection: there is no promo either.
OpenFails == pc = "open" /\ EndCycle(memory)

\* The rows of the query, best first.
Rows == {a \in feed : Cardinality({b \in feed : b < a}) < Window}

\* Price sensitive ones first, otherwise in the query's order.
Before(a, b) == IF a \in Sensitive <=> b \in Sensitive THEN a < b ELSE a \in Sensitive

Wanted(S) == IF setting.sensitiveOnly THEN S \cap Sensitive ELSE S

Take(S) == {a \in S : Cardinality({b \in S : Before(b, a)}) < MaxPerCycle}

\* A bug to compare with: max_posts_per_cycle is applied to the rows of the query.
TakeThenFilter == Take(Wanted(Rows)) \ memory

\* A bug to compare with: what was posted is not left out.
CandidatesAll == Take(Wanted(Rows))

Candidates == Take(Wanted(Rows \ memory))

\* Texts and images are prepared for every row that is not remembered.
Fetch ==
    /\ pc = "open"
    /\ pc' = "post"
    /\ todo' = IF setting.mode = "neither" THEN {} ELSE Candidates
    /\ UNCHANGED <<setting, world, promo, at, newly, memory, monitor, used, fate>>

\* &summary[..197] is inside a character of one of them: the panic ends the task.
FetchPanics ==
    /\ pc = "open"
    /\ Rows \ memory # {}
    /\ pc' = "dead"
    /\ UNCHANGED <<setting, world, promo, todo, at, newly, memory, monitor, used, fate>>

\* So does og_description of the one in hand, before it goes to the first platform.
PostPanics ==
    /\ pc = "post" /\ AutoPost /\ todo # {} /\ at = 1
    /\ pc' = "dead"
    /\ UNCHANGED <<setting, world, promo, todo, at, newly, memory, monitor, used, fate>>

FetchFails ==
    /\ pc = "open"
    /\ pc' = "post"
    /\ UNCHANGED <<setting, world, promo, todo, at, newly, memory, monitor, used, fate>>

After(was, took) ==
    IF ~took THEN IF was = "none" THEN "refused" ELSE was
    ELSE IF was \in {"posted", "reposted"} THEN "reposted" ELSE "posted"

Succeeds(p) ==
    /\ heartbeat' = [heartbeat EXCEPT ![p] = "fresh"]
    /\ told' = told \ {p}

InHand(a) == a \in todo /\ \A b \in todo \ {a} : Before(a, b)

\* The target whose turn it is took the post in hand, or refused it, which is
\* only logged.
TargetAnswers(a, took) ==
    /\ pc = "post" /\ InHand(a) /\ at <= Len(Targets)
    /\ fate' = [fate EXCEPT ![a][Targets[at]] = After(@, took)]
    /\ IF took /\ AutoPost THEN Succeeds(Targets[at]) ELSE UNCHANGED monitor
    /\ at' = at + 1
    /\ UNCHANGED <<setting, world, pc, promo, todo, newly, memory, used>>

\* After the last one the announcement is one of newly_posted.
Posted(a) ==
    /\ pc = "post" /\ InHand(a) /\ at > Len(Targets)
    /\ at' = 1
    /\ todo' = todo \ {a}
    /\ newly' = newly \cup {a}
    /\ UNCHANGED <<setting, world, pc, promo, memory, monitor, used, fate>>

BeginPromo ==
    /\ pc = "post" /\ todo = {} /\ promo
    /\ pc' = "promo"
    /\ UNCHANGED <<setting, world, promo, todo, at, newly, memory, monitor, used, fate>>

\* Promos go to the platforms in every mode.
PromoAnswers(took) ==
    /\ pc = "promo" /\ at <= Len(Platforms)
    /\ at' = at + 1
    /\ IF took THEN Succeeds(Platforms[at]) ELSE UNCHANGED monitor
    /\ UNCHANGED <<setting, world, pc, promo, todo, newly, memory, used, fate>>

Done ==
    \/ pc = "post" /\ todo = {} /\ ~promo
    \/ pc = "promo" /\ at > Len(Platforms)

Finish == Done /\ EndCycle(memory \cup newly)

\* A bug to compare with: only opening the replica is under the budget.
TimeoutWhileOpening == pc = "open" /\ EndCycle(memory)

\* The budget is spent wherever the cycle was waiting: its work is dropped, what
\* it has already posted included.
Timeout == pc \in {"open", "post", "promo"} /\ EndCycle(memory)

Work ==
    \/ OpenFails \/ Fetch \/ FetchPanics \/ FetchFails
    \/ PostPanics \/ BeginPromo \/ Finish

Answer ==
    \/ \E a \in todo : Posted(a) \/ \E took \in BOOLEAN : TargetAnswers(a, took)
    \/ \E took \in BOOLEAN : PromoAnswers(took)

(***************************************************************************)
(* Another loop takes over: the connector was toggled or replaced, or the  *)
(* daemon restarted, in which case the heartbeat starts over as well.      *)
(***************************************************************************)
Respawn(reboot) ==
    /\ used.respawns < MaxRespawns
    /\ used' = [used EXCEPT !.respawns = @ + 1]
    /\ setting' \in Settings
    /\ pc' = "sleep" /\ promo' = FALSE /\ todo' = {} /\ at' = 1
    /\ newly' = {} /\ memory' = {}
    /\ fate' = [a \in Announcements |-> Untouched]
    /\ heartbeat' = IF reboot THEN [p \in PlatformSet |-> "never"] ELSE heartbeat
    /\ told' = IF reboot THEN {} ELSE told
    /\ UNCHANGED world

(***************************************************************************)
(* The heartbeat and its watchdog.                                         *)
(***************************************************************************)
\* The digest and the trending webhook publish on the same platforms.
OtherTrigger(p) ==
    /\ used.others < MaxOthers
    /\ used' = [used EXCEPT !.others = @ + 1]
    /\ Succeeds(p)
    /\ UNCHANGED <<setting, world, cycle, fate>>

\* 24 hours have passed since the last success.
GoesStale(p) ==
    /\ heartbeat[p] = "fresh"
    /\ heartbeat' = [heartbeat EXCEPT ![p] = "stale"]
    /\ UNCHANGED <<setting, world, cycle, told, used, fate>>

\* Platforms are expected to be posted to only where posts are not reviewed.
Expected == IF AutoPost THEN PlatformSet ELSE {}

\* A bug to compare with: snapshot instead of snapshot_with_expected, which lacks
\* platforms that never succeeded.
WatchdogOfKnown ==
    /\ told' = told \cup {p \in Expected : heartbeat[p] = "stale"}
    /\ told' # told
    /\ UNCHANGED <<setting, world, cycle, heartbeat, used, fate>>

Watchdog ==
    /\ told' = told \cup {p \in Expected : heartbeat[p] # "fresh"}
    /\ told' # told
    /\ UNCHANGED <<setting, world, cycle, heartbeat, used, fate>>

LoopNext ==
    \/ Wake \/ Work \/ Answer \/ Timeout
    \/ Watchdog
    \/ \E a \in Announcements : Appears(a) \/ Expires(a)
    \/ \E p \in PlatformSet : OtherTrigger(p) \/ GoesStale(p)
    \/ \E reboot \in BOOLEAN : Respawn(reboot)

(***************************************************************************)
(* The loop and the watchdog are tasks with timers, and time passes.       *)
(* Nobody owes the loop an answer: only its own budget is sure to end a    *)
(* cycle that waits for one.                                               *)
(***************************************************************************)
Fairness ==
    /\ WF_loopVars(Wake)
    /\ WF_loopVars(Timeout)
    /\ WF_loopVars(Watchdog)
    /\ \A p \in PlatformSet : WF_loopVars(GoesStale(p))

LoopSpec == LoopInit /\ [][LoopNext]_loopVars /\ Fairness

(***************************************************************************)
(* Properties.                                                             *)
(***************************************************************************)

\* Types, and what they exclude: a memory beyond the 500 ids the loop allows, a
\* cycle with more posts than max_posts_per_cycle.
LoopTypeOK ==
    /\ setting \in Settings
    /\ feed \subseteq Announcements /\ expired \subseteq Announcements
    /\ pc \in {"sleep", "open", "post", "promo", "dead"}
    /\ promo \in BOOLEAN
    /\ todo \subseteq Announcements /\ Cardinality(todo) <= MaxPerCycle
    /\ at \in 1 .. (IF pc = "promo" THEN Len(Platforms) ELSE Len(Targets)) + 1
    /\ newly \subseteq Announcements
    /\ memory \subseteq Announcements /\ Cardinality(memory) <= Forget
    /\ heartbeat \in [PlatformSet -> {"never", "fresh", "stale"}]
    /\ told \subseteq PlatformSet
    /\ used \in [respawns : Nat, others : Nat]
    /\ fate \in [Announcements -> [Places -> {"none", "refused", "posted", "reposted"}]]

\* While the loop keeps track of an announcement it posts it to a platform, or to
\* the room, once; it loses track when a cycle runs out of time, when another
\* loop takes over, and when it has posted so many that it forgets them all.
NoRepost == \A a \in Announcements : \A p \in Places : fate[a][p] # "reposted"

\* The cycle cannot wedge the loop: whoever does not answer, it ends, unless the
\* task panics.
CycleEnds == (pc \in {"open", "post", "promo"}) ~> (pc \in {"sleep", "dead"})

\* An assumption on the servers: from some time on no query fails and cycles end
\* within the budget, so that a step that could be a failure is not one.
ServersWork == <>[][OpenFails \/ FetchFails \/ Timeout => Fetch \/ Finish]_loopVars

\* No announcement the query returns is passed over for ever: if the servers work in
\* the end, it is posted, however many are preferred to it, or it becomes too old, or
\* newer ones push it out of the window, which counts those that were posted as well.
\* Outside of the window it may stay until it is too old: nothing is promised there.
EventuallyPosted ==
    ServersWork =>
        \A a \in Announcements :
            (a \in feed) ~>
                \/ fate[a] # Untouched \/ a \notin Rows
                \/ setting.mode = "neither" \/ (setting.sensitiveOnly /\ a \notin Sensitive)
                \/ pc = "dead"

\* A loop that panicked still reads as Running, but its silence is recorded once
\* the other triggers are silent too.
DeadLoopIsNoticed ==
    \A p \in PlatformSet :
        (pc = "dead" /\ AutoPost) ~> (p \in told \/ pc # "dead")

=============================================================================
