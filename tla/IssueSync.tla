------------------------------ MODULE IssueSync ------------------------------
(***************************************************************************)
(* Issues mirrored between Linear and GitHub.  A webhook for an issue that *)
(* was opened on one side is handled by looking its mapping up, creating a *)
(* copy on the other side and inserting the mapping, with an await between *)
(* any two of these.  Copies are opened like any other issue, so the other *)
(* side sends a webhook for each: only the mapping stops the echo.         *)
(*                                                                         *)
(* The repository a copy goes to is the one the GitHub client was built    *)
(* for; the repository in the mapping is the one in the config.  Reloads   *)
(* change the second and leave the first (see Daemon, Reconfigure).        *)
(*                                                                         *)
(* Linear, GitHub and the delivery of webhooks are external: deliveries    *)
(* may be lost, late, repeated and concurrent.                             *)
(***************************************************************************)
EXTENDS Naturals, FiniteSets

CONSTANTS
    Repos,       \* GitHub repositories
    FirstRepo,   \* the one configured at first
    NoRepo,      \* the config has no [github] section
    Handlers,    \* webhook requests being served at a time
    None,        \* no issue, no client
    Person, NotYet,                      \* sources of an issue that is no copy
    MaxGithub, MaxLinear,                \* bounds: issues per repository, in Linear
    MaxPeople, MaxAgain, MaxFailures, MaxReconfigs  \* and of what others do

ASSUME RepoAssumption == FirstRepo \in Repos /\ NoRepo \notin Repos
ASSUME NoneAssumption == None \notin Repos \cup {NoRepo}

GithubIssues == Repos \X (1 .. MaxGithub)
LinearIssues == {"linear"} \X (1 .. MaxLinear)
Issues == GithubIssues \cup LinearIssues

ASSUME SidesAssumption == GithubIssues \cap LinearIssues = {} /\ None \notin Issues
ASSUME SourcesAssumption == Person \notin Issues /\ NotYet \notin Issues \cup {Person}

VARIABLES
    source,      \* NotYet, Person, or the issue an issue was made a copy of
    webhooks,    \* deliveries under way, per issue
    rows,        \* the table github_linear_mappings
    configured,  \* repo of the [github] section, or NoRepo
    built,       \* repo of the client of the github connector, or None
    handler,     \* per request: where it is and its local variables
    used,        \* how often each bounded action has happened
    raced,       \* history: an issue was looked up while another request held it
    misfiled,    \* history: a mapping was inserted under another repository
    clean        \* history: no call of a request failed

vars == <<source, webhooks, rows, configured, built, handler, used, raced, misfiled, clean>>

Idle == [pc |-> "idle", issue |-> None, made |-> None, repo |-> None]

Exists(i) == source[i] # NotYet

\* The number a tracker gives out next, if the model has one left.
Unopened(pool) == {i \in pool : ~Exists(i) /\ \A j \in pool : ~Exists(j) => i[2] <= j[2]}

Init ==
    /\ source = [i \in Issues |-> NotYet]
    /\ webhooks = [i \in Issues |-> 0]
    /\ rows = {}
    /\ configured = FirstRepo
    /\ built = FirstRepo
    /\ handler = [h \in Handlers |-> Idle]
    /\ used = [people |-> 0, again |-> 0, failures |-> 0, reconfigs |-> 0]
    /\ raced = FALSE
    /\ misfiled = FALSE
    /\ clean = TRUE

Spend(what, bound) ==
    /\ used[what] < bound
    /\ used' = [used EXCEPT ![what] = @ + 1]

Open(i, from) ==
    /\ source' = [source EXCEPT ![i] = from]
    /\ webhooks' = [webhooks EXCEPT ![i] = @ + 1]

(***************************************************************************)
(* What happens around the handlers.                                       *)
(***************************************************************************)
PersonOpens ==
    /\ \E pool \in {LinearIssues} \cup {{r} \X (1 .. MaxGithub) : r \in Repos} :
          \E i \in Unopened(pool) : Open(i, Person)
    /\ Spend("people", MaxPeople)
    /\ UNCHANGED <<rows, configured, built, handler, raced, misfiled, clean>>

Redeliver ==
    /\ \E i \in Issues : Exists(i) /\ webhooks' = [webhooks EXCEPT ![i] = @ + 1]
    /\ Spend("again", MaxAgain)
    /\ UNCHANGED <<source, rows, configured, built, handler, raced, misfiled, clean>>

\* The webhook never arrives, is older than a minute, or meets no [github] section.
LoseWebhook(i) ==
    /\ webhooks[i] > 0
    /\ webhooks' = [webhooks EXCEPT ![i] = @ - 1]
    /\ UNCHANGED <<source, rows, configured, built, handler, used, raced, misfiled, clean>>

\* A reload: the connector goes with its section and starts when one appears; a
\* section that changed is stored and the client stays.
ReloadGithub ==
    /\ \E r \in Repos \cup {NoRepo} :
          /\ r # configured
          /\ configured' = r
          /\ built' = IF r = NoRepo THEN None ELSE IF configured = NoRepo THEN r ELSE built
    /\ Spend("reconfigs", MaxReconfigs)
    /\ UNCHANGED <<source, webhooks, rows, handler, raced, misfiled, clean>>

\* Toggling the connector drops the client, or builds one from the section.
ToggleGithub ==
    /\ configured # NoRepo
    /\ built' = IF built = None THEN configured ELSE None
    /\ Spend("reconfigs", MaxReconfigs)
    /\ UNCHANGED <<source, webhooks, rows, configured, handler, raced, misfiled, clean>>

(***************************************************************************)
(* One webhook request.                                                    *)
(***************************************************************************)
Mapped(i) == \E row \in rows : row.github = i \/ row.linear = i

IsLinear(h) == handler[h].issue \in LinearIssues

\* Another request is at work on issue i, or has just made it.
Held(h, i) == \E g \in Handlers \ {h} : handler[g].pc # "idle" /\ i \in {handler[g].issue, handler[g].made}

Ends(h) == handler' = [handler EXCEPT ![h] = Idle]

\* The request is accepted: handle_github refuses it without a [github] section.
Deliver(h, i) ==
    /\ handler[h].pc = "idle"
    /\ webhooks[i] > 0
    /\ i \in GithubIssues => configured # NoRepo
    /\ webhooks' = [webhooks EXCEPT ![i] = @ - 1]
    /\ handler' = [handler EXCEPT ![h] = [Idle EXCEPT !.pc = "lookup", !.issue = i]]
    /\ UNCHANGED <<source, rows, configured, built, used, raced, misfiled, clean>>

\* The issue is mapped already, or it is Linear's and no connector is registered.
Skip(h) ==
    /\ handler[h].pc = "lookup"
    /\ Mapped(handler[h].issue) \/ (IsLinear(h) /\ configured = NoRepo)
    /\ Ends(h)
    /\ UNCHANGED <<source, webhooks, rows, configured, built, used, raced, misfiled, clean>>

\* A bug to compare with: the mapping is not looked up, the echo is not stopped.
LookupNothing(h) ==
    /\ handler[h].pc = "lookup"
    /\ IsLinear(h) => built # None
    /\ raced' = (raced \/ Held(h, handler[h].issue))
    /\ handler' = [handler EXCEPT ![h].pc = "create", ![h].repo = IF IsLinear(h) THEN built ELSE None]
    /\ UNCHANGED <<source, webhooks, rows, configured, built, used, misfiled, clean>>

\* There is no mapping: take a copy of the client.
Lookup(h) ==
    /\ handler[h].pc = "lookup"
    /\ ~Mapped(handler[h].issue)
    /\ IsLinear(h) => configured # NoRepo /\ built # None
    /\ raced' = (raced \/ Held(h, handler[h].issue))
    /\ handler' = [handler EXCEPT ![h].pc = "create", ![h].repo = IF IsLinear(h) THEN built ELSE None]
    /\ UNCHANGED <<source, webhooks, rows, configured, built, used, misfiled, clean>>

\* Where the copy goes.
Target(h) == IF IsLinear(h) THEN {handler[h].repo} \X (1 .. MaxGithub) ELSE LinearIssues

Create(h) ==
    /\ handler[h].pc = "create"
    /\ \E i \in Unopened(Target(h)) :
          /\ Open(i, handler[h].issue)
          /\ handler' = [handler EXCEPT ![h].pc = "insert", ![h].made = i]
    /\ UNCHANGED <<rows, configured, built, used, raced, misfiled, clean>>

\* The copy was made, but the request for it timed out.
CreateUnanswered(h) ==
    /\ handler[h].pc = "create"
    /\ \E i \in Unopened(Target(h)) : Open(i, handler[h].issue)
    /\ Ends(h)
    /\ Spend("failures", MaxFailures)
    /\ clean' = FALSE
    /\ UNCHANGED <<rows, configured, built, raced, misfiled>>

\* Linear answered without an issue: the id is "" and is mapped all the same.
CreateEmpty(h) ==
    /\ handler[h].pc = "create"
    /\ ~IsLinear(h)
    /\ handler' = [handler EXCEPT ![h].pc = "insert"]
    /\ Spend("failures", MaxFailures)
    /\ clean' = FALSE
    /\ UNCHANGED <<source, webhooks, rows, configured, built, raced, misfiled>>

\* The database or the other side gives an error, or the client is not there:
\* nothing undoes what has been done.
Fail(h) ==
    /\ handler[h].pc # "idle"
    /\ Ends(h)
    /\ Spend("failures", MaxFailures)
    /\ clean' = FALSE
    /\ UNCHANGED <<source, webhooks, rows, configured, built, raced, misfiled>>

\* A bug to compare with: the sides of the pair are taken from the request alone.
RowOfRequest(h) ==
    IF IsLinear(h)
    THEN [github |-> <<configured, handler[h].issue[2]>>, linear |-> handler[h].issue]
    ELSE [github |-> handler[h].issue, linear |-> <<"linear", handler[h].issue[2]>>]

\* A bug to compare with: the arguments of the insert are swapped.
RowSwapped(h) ==
    IF IsLinear(h)
    THEN [github |-> handler[h].issue, linear |-> handler[h].made]
    ELSE [github |-> handler[h].made, linear |-> handler[h].issue]

\* The row, its repository read from the config only now.
Row(h) ==
    IF IsLinear(h)
    THEN [github |-> <<configured, handler[h].made[2]>>, linear |-> handler[h].issue]
    ELSE [github |-> handler[h].issue, linear |-> handler[h].made]

\* A bug to compare with: only one direction is mapped.
InsertForGithubOnly(h) ==
    /\ handler[h].pc = "insert"
    /\ rows' = IF IsLinear(h) \/ (\E row \in rows : row.github = Row(h).github)
               THEN rows ELSE rows \cup {Row(h)}
    /\ misfiled' = (misfiled \/ (IsLinear(h) /\ configured # handler[h].made[1]))
    /\ Ends(h)
    /\ UNCHANGED <<source, webhooks, configured, built, used, raced, clean>>

\* INSERT OR IGNORE: the key is the GitHub issue, and the first row stays.
Insert(h) ==
    /\ handler[h].pc = "insert"
    /\ rows' = IF \E row \in rows : row.github = Row(h).github THEN rows ELSE rows \cup {Row(h)}
    /\ misfiled' = (misfiled \/ (IsLinear(h) /\ configured # handler[h].made[1]))
    /\ Ends(h)
    /\ UNCHANGED <<source, webhooks, configured, built, used, raced, clean>>

Step(h) ==
    \/ Skip(h) \/ Lookup(h)
    \/ Create(h) \/ CreateUnanswered(h) \/ CreateEmpty(h)
    \/ Fail(h) \/ Insert(h)

Next ==
    \/ PersonOpens \/ Redeliver \/ ReloadGithub \/ ToggleGithub
    \/ \E i \in Issues : LoseWebhook(i)
    \/ \E h \in Handlers : Step(h) \/ \E i \in Issues : Deliver(h, i)

Spec == Init /\ [][Next]_vars

(***************************************************************************)
(* Properties.                                                             *)
(***************************************************************************)

\* Types, and what they exclude: a mapping whose sides are swapped, or one of an
\* issue with itself.
TypeOK ==
    /\ source \in [Issues -> Issues \cup {Person, NotYet}]
    /\ webhooks \in [Issues -> Nat]
    /\ rows \subseteq [github : (Repos \cup {NoRepo}) \X (1 .. MaxGithub),
                       linear : LinearIssues \cup {None}]
    /\ configured \in Repos \cup {NoRepo}
    /\ built \in Repos \cup {None}
    /\ handler \in [Handlers ->
            [pc : {"idle", "lookup", "create", "insert"}, issue : Issues \cup {None},
             made : Issues \cup {None}, repo : Repos \cup {None}]]
    /\ used \in [people : Nat, again : Nat, failures : Nat, reconfigs : Nat]
    /\ raced \in BOOLEAN /\ misfiled \in BOOLEAN /\ clean \in BOOLEAN

IsCopy(i) == source[i] \in Issues

CopiesOf(i) == {c \in Issues : source[c] = i}

\* Although every copy sets off a webhook of its own, and webhooks come again, an
\* issue has one copy and a copy has none, as long as no request looks an issue
\* up that another one holds, none fails, and no repository is changed under one.
MirroredOnce ==
    ~raced /\ clean /\ ~misfiled =>
        \A i \in Issues :
            /\ Cardinality(CopiesOf(i)) <= 1
            /\ IsCopy(i) => CopiesOf(i) = {}

\* On the same terms no copy is forgotten: it is in the table with its original,
\* or the request that made it is about to put it there.
CopiesAreMapped ==
    ~raced /\ clean /\ ~misfiled =>
        \A i \in Issues : IsCopy(i) =>
            \/ \E row \in rows : {row.github, row.linear} = {i, source[i]}
            \/ \E h \in Handlers : handler[h].pc = "insert" /\ handler[h].made = i

\* A row relates an issue to its copy, whatever fails and whoever overlaps; only
\* a repository that changed between the client and the config makes it lie.
RowsAreTrue ==
    ~misfiled =>
        \A row \in rows : row.linear # None =>
            source[row.linear] = row.github \/ source[row.github] = row.linear

(***************************************************************************)
(* What the documentation promises and the code does not keep.             *)
(***************************************************************************)

\* README, Triggers: github_issue_opened creates a Linear issue and stores a
\* bidirectional mapping.  So once no call has failed and no request is at
\* work, the Linear issues that were made from GitHub ones can be looked up.
MappingIsBidirectional ==
    clean /\ (\A h \in Handlers : handler[h].pc = "idle") =>
        \A i \in LinearIssues : IsCopy(i) => Mapped(i)

=============================================================================
