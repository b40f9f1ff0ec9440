--------------------------- MODULE IssueSyncProofs ---------------------------
(***************************************************************************)
(* A mapping never lies about an issue whose repository was left alone,    *)
(* for every number of repositories, issues, requests and failures: no     *)
(* term of RowsAreTrue speaks of races or of lost answers.                 *)
(*                                                                         *)
(* It is not inductive alone.  The row of a request is right because of    *)
(* what the request carries from one await to the next (CarriesTruth), and *)
(* the rows that are there stay right because what an issue was made from  *)
(* never changes (SourceIsForever).                                        *)
(***************************************************************************)
EXTENDS IssueSync, FiniteSetTheorems, TLAPS

\* What request h holds over its awaits: an issue, then the repository its copy
\* goes to, then the copy that was made of it on the other side.
Carries(h) ==
    /\ handler[h].pc # "idle" => handler[h].issue \in Issues
    /\ handler[h].pc \in {"lookup", "create"} => handler[h].made = None
    /\ handler[h].pc = "create" /\ IsLinear(h) => handler[h].repo \in Repos
    /\ handler[h].pc = "insert" /\ IsLinear(h) =>
          handler[h].made \in GithubIssues /\ source[handler[h].made] = handler[h].issue
    /\ handler[h].pc = "insert" /\ ~IsLinear(h) =>
          \/ handler[h].made = None
          \/ handler[h].made \in LinearIssues /\ source[handler[h].made] = handler[h].issue

CarriesTruth == \A h \in Handlers : Carries(h)

\* As long as nothing was misfiled, the GitHub side of a row is an issue that can
\* have been opened: its repository is not the absent one.
RowsAreIssues == ~misfiled => \A row \in rows : row.github \in GithubIssues

IInv == TypeOK /\ CarriesTruth /\ RowsAreIssues /\ RowsAreTrue

\* What an issue was made from stays what it was.
SourceKept == \A i \in Issues : Exists(i) => source'[i] = source[i]

\* At first there are no rows and no requests.
LEMMA InitInv == Init => IInv
<1> SUFFICES ASSUME Init PROVE IInv
  OBVIOUS
<1>1. TypeOK
  BY RepoAssumption DEF Init, TypeOK, Idle
<1>2. CarriesTruth
  BY DEF Init, CarriesTruth, Carries, Idle
<1>3. RowsAreIssues /\ RowsAreTrue
  BY DEF Init, RowsAreIssues, RowsAreTrue
<1> QED
  BY <1>1, <1>2, <1>3 DEF IInv

\* An issue that is opened was not there, so no source that is known changes.
LEMMA OpenKeepsSources ==
    ASSUME TypeOK, NEW i \in Issues, ~Exists(i), NEW from \in Issues \cup {Person}, Open(i, from)
    PROVE  /\ source' \in [Issues -> Issues \cup {Person, NotYet}]
           /\ webhooks' \in [Issues -> Nat]
           /\ source'[i] = from
           /\ SourceKept
BY DEF TypeOK, Open, Exists, SourceKept

\* The rows that are there stay true when sources are kept.
LEMMA RowsStay ==
    ASSUME IInv, SourceKept, rows' = rows, misfiled' = misfiled
    PROVE  RowsAreIssues' /\ RowsAreTrue'
<1>1. RowsAreIssues'
  BY DEF IInv, RowsAreIssues
<1>2. RowsAreTrue'
  <2> SUFFICES ASSUME ~misfiled, NEW row \in rows, row.linear # None
               PROVE  source'[row.linear] = row.github \/ source'[row.github] = row.linear
    BY DEF RowsAreTrue
  <2>1. row.github \in GithubIssues /\ row.linear \in LinearIssues
    BY DEF IInv, RowsAreIssues, TypeOK
  <2>2. row.github \in Issues /\ row.linear \in Issues
    BY <2>1 DEF Issues
  <2>3. source[row.linear] = row.github \/ source[row.github] = row.linear
    BY DEF IInv, RowsAreTrue
  <2> QED
    BY <2>2, <2>3, SourcesAssumption DEF SourceKept, Exists
<1> QED
  BY <1>1, <1>2

\* The requests, and the value of one.
Request == [pc : {"idle", "lookup", "create", "insert"}, issue : Issues \cup {None},
            made : Issues \cup {None}, repo : Repos \cup {None}]

\* A request that goes on stays a request, and leaves the others alone.
LEMMA OneRequest ==
    ASSUME TypeOK, NEW h \in Handlers, NEW r \in Request, handler' = [handler EXCEPT ![h] = r]
    PROVE  /\ handler' \in [Handlers -> Request]
           /\ handler'[h] = r
           /\ \A g \in Handlers \ {h} : handler'[g] = handler[g]
<1>1. handler \in [Handlers -> Request]
  BY DEF TypeOK, Request
<1> QED
  BY <1>1

\* What a request carries stays true when sources are kept and it does not move.
LEMMA CarriesStays ==
    ASSUME IInv, SourceKept, NEW h \in Handlers, handler'[h] = handler[h]
    PROVE  Carries(h)'
<1>1. Carries(h)
  BY DEF IInv, CarriesTruth
<1>2. IsLinear(h)' <=> IsLinear(h)
  BY DEF IsLinear
<1>3. handler[h].issue \in Issues /\ handler[h].made \in Issues /\ source[handler[h].made] = handler[h].issue
        => source'[handler[h].made] = handler[h].issue
  BY SourcesAssumption DEF SourceKept, Exists
<1> QED
  BY <1>1, <1>2, <1>3 DEF Carries, Issues

\* So a step in which one request moves, and inserts nothing, has only that one
\* to answer for.
LEMMA OneMoves ==
    ASSUME IInv, TypeOK', SourceKept, rows' = rows, misfiled' = misfiled, NEW h \in Handlers,
           \A g \in Handlers \ {h} : handler'[g] = handler[g], Carries(h)'
    PROVE  IInv'
<1>1. CarriesTruth'
  BY CarriesStays DEF CarriesTruth
<1> QED
  BY <1>1, RowsStay DEF IInv

\* A step that moves no request and writes no row.
LEMMA NoneMoves ==
    ASSUME IInv, TypeOK', SourceKept, rows' = rows, misfiled' = misfiled, handler' = handler
    PROVE  IInv'
<1>1. CarriesTruth'
  BY CarriesStays DEF CarriesTruth
<1> QED
  BY <1>1, RowsStay DEF IInv

\* A request that ends, however it ends, carries nothing.
LEMMA EndsCarriesNothing ==
    ASSUME TypeOK, NEW h \in Handlers, Ends(h)
    PROVE  /\ handler' \in [Handlers -> Request]
           /\ \A g \in Handlers \ {h} : handler'[g] = handler[g]
           /\ Carries(h)'
<1>1. handler'[h] = Idle /\ \A g \in Handlers \ {h} : handler'[g] = handler[g]
  BY DEF Ends, TypeOK
<1>2. Idle.pc = "idle"
  BY DEF Idle
<1> QED
  BY <1>1, <1>2 DEF Ends, TypeOK, Request, Idle, Carries

\* The counters stay counters.
LEMMA SpendTyped ==
    ASSUME TypeOK, NEW what \in {"people", "again", "failures", "reconfigs"}, NEW bound, Spend(what, bound)
    PROVE  used' \in [people : Nat, again : Nat, failures : Nat, reconfigs : Nat]
<1>1. used[what] \in Nat
  BY DEF TypeOK
<1> QED
  BY <1>1 DEF Spend, TypeOK

\* People open issues, webhooks are lost and repeated, the config changes: none of
\* these is a request's doing.
LEMMA SurroundingsInv ==
    ASSUME IInv,
           \/ PersonOpens \/ Redeliver \/ ReloadGithub \/ ToggleGithub
           \/ \E i \in Issues : LoseWebhook(i)
    PROVE  IInv'
<1> USE DEF IInv
<1>1. CASE PersonOpens
  <2>1. PICK i \in Issues : ~Exists(i) /\ Open(i, Person)
    BY <1>1 DEF PersonOpens, Unopened, Issues, GithubIssues
  <2>2. /\ source' \in [Issues -> Issues \cup {Person, NotYet}]
        /\ webhooks' \in [Issues -> Nat]
        /\ SourceKept
    BY <2>1, OpenKeepsSources
  <2>3. TypeOK'
    BY <1>1, <2>2, SpendTyped DEF PersonOpens, TypeOK
  <2> QED
    BY <1>1, <2>2, <2>3, NoneMoves DEF PersonOpens
<1>2. CASE Redeliver
  <2>1. TypeOK'
    BY <1>2, SpendTyped DEF Redeliver, TypeOK
  <2> QED
    BY <1>2, <2>1, NoneMoves DEF Redeliver, SourceKept
<1>3. CASE ReloadGithub
  <2>1. TypeOK'
    BY <1>3, SpendTyped DEF ReloadGithub, TypeOK
  <2> QED
    BY <1>3, <2>1, NoneMoves DEF ReloadGithub, SourceKept
<1>4. CASE ToggleGithub
  <2>1. TypeOK'
    BY <1>4, SpendTyped DEF ToggleGithub, TypeOK
  <2> QED
    BY <1>4, <2>1, NoneMoves DEF ToggleGithub, SourceKept
<1>5. ASSUME NEW i \in Issues, LoseWebhook(i) PROVE IInv'
  <2>1. TypeOK'
    BY <1>5 DEF LoseWebhook, TypeOK
  <2> QED
    BY <1>5, <2>1, NoneMoves DEF LoseWebhook, SourceKept
<1> QED
  BY <1>1, <1>2, <1>3, <1>4, <1>5

\* A request before it makes a copy.  A client that is built has a repository, and
\* Lookup carries it over the await.
LEMMA BeforeCreateInv ==
    ASSUME IInv, NEW h \in Handlers, Lookup(h) \/ Skip(h) \/ \E i \in Issues : Deliver(h, i)
    PROVE  IInv'
<1> USE DEF IInv
<1>1. CASE Lookup(h)
  <2>1. IsLinear(h) => built \in Repos
    BY <1>1 DEF Lookup, TypeOK
  <2> DEFINE r == [handler[h] EXCEPT !.pc = "create", !.repo = IF IsLinear(h) THEN built ELSE None]
  <2>step. handler' = [handler EXCEPT ![h] = r]
    BY <1>1 DEF Lookup
  <2>request. r \in Request
    BY <2>1, ZenonT(60) DEF TypeOK, Request
  <2>moved. /\ handler' \in [Handlers -> Request]
        /\ handler'[h] = r
        /\ \A g \in Handlers \ {h} : handler'[g] = handler[g]
    BY <2>step, <2>request, OneRequest
  <2>2. TypeOK'
    BY <1>1, <2>moved DEF Lookup, TypeOK, Request
  <2>3. /\ handler'[h].pc = "create"
        /\ handler'[h].issue = handler[h].issue
        /\ handler'[h].made = handler[h].made
        /\ handler'[h].repo = IF IsLinear(h) THEN built ELSE None
    BY <2>moved DEF TypeOK
  <2>4. handler[h].issue \in Issues /\ handler[h].made = None /\ (IsLinear(h)' <=> IsLinear(h))
    BY <1>1, <2>3 DEF Lookup, CarriesTruth, Carries, IsLinear
  <2>5. Carries(h)'
    BY <2>1, <2>3, <2>4 DEF Carries
  <2> QED
    BY <1>1, <2>2, <2>5, <2>moved, OneMoves DEF Lookup, SourceKept
<1>2. CASE Skip(h)
  <2>1. Ends(h)
    BY <1>2 DEF Skip
  <2>2. TypeOK'
    BY <1>2, <2>1, EndsCarriesNothing DEF Skip, TypeOK, Request
  <2> QED
    BY <1>2, <2>1, <2>2, EndsCarriesNothing, OneMoves DEF Skip, SourceKept
<1>3. ASSUME NEW i \in Issues, Deliver(h, i) PROVE IInv'
  <2> DEFINE r == [Idle EXCEPT !.pc = "lookup", !.issue = i]
  <2>step. handler' = [handler EXCEPT ![h] = r]
    BY <1>3 DEF Deliver
  <2>request. r \in Request
    BY DEF Idle, Request
  <2>moved. /\ handler' \in [Handlers -> Request]
        /\ handler'[h] = r
        /\ \A g \in Handlers \ {h} : handler'[g] = handler[g]
    BY <2>step, <2>request, OneRequest
  <2>1. TypeOK'
    <3>1. webhooks[i] > 0 /\ webhooks' = [webhooks EXCEPT ![i] = @ - 1]
      BY <1>3 DEF Deliver
    <3>2. webhooks \in [Issues -> Nat]
      BY DEF TypeOK
    <3>3. webhooks' \in [Issues -> Nat]
      BY <3>1, <3>2
    <3> QED
      BY <1>3, <2>moved, <3>3 DEF Deliver, TypeOK, Request
  <2>2. handler'[h].pc = "lookup" /\ handler'[h].issue = i /\ handler'[h].made = None
    BY <2>moved DEF Idle
  <2>3. Carries(h)'
    BY <2>2 DEF Carries
  <2> QED
    BY <1>3, <2>1, <2>3, <2>moved, OneMoves DEF Deliver, SourceKept
<1> QED
  BY <1>1, <1>2, <1>3

\* The copy is an issue of the other side that was not there.
LEMMA TargetIsOtherSide ==
    ASSUME IInv, NEW h \in Handlers, handler[h].pc = "create", NEW i \in Unopened(Target(h))
    PROVE  /\ handler[h].issue \in Issues
           /\ i \in Issues /\ ~Exists(i)
           /\ IsLinear(h) => i \in GithubIssues
           /\ ~IsLinear(h) => i \in LinearIssues
<1>1. handler[h].issue \in Issues /\ (IsLinear(h) => handler[h].repo \in Repos)
  BY DEF IInv, CarriesTruth, Carries
<1>2. i \in Target(h) /\ ~Exists(i)
  BY DEF Unopened
<1>3. (IsLinear(h) => i \in GithubIssues) /\ (~IsLinear(h) => i \in LinearIssues)
  BY <1>1, <1>2 DEF Target, GithubIssues
<1> QED
  BY <1>1, <1>2, <1>3 DEF Issues

\* The ways the creation of a copy can go, and the ways a request can fail.
LEMMA CreateInv ==
    ASSUME IInv, NEW h \in Handlers,
           Create(h) \/ CreateUnanswered(h) \/ CreateEmpty(h) \/ Fail(h)
    PROVE  IInv'
<1> USE DEF IInv
<1>1. CASE Create(h)
  <2>1. PICK i \in Unopened(Target(h)) :
            /\ Open(i, handler[h].issue)
            /\ handler' = [handler EXCEPT ![h].pc = "insert", ![h].made = i]
    BY <1>1 DEF Create
  <2>2. /\ handler[h].issue \in Issues /\ i \in Issues /\ ~Exists(i)
        /\ IsLinear(h) => i \in GithubIssues
        /\ ~IsLinear(h) => i \in LinearIssues
    BY <1>1, TargetIsOtherSide DEF Create
  <2>3. /\ source' \in [Issues -> Issues \cup {Person, NotYet}]
        /\ webhooks' \in [Issues -> Nat]
        /\ source'[i] = handler[h].issue
        /\ SourceKept
    BY <2>1, <2>2, OpenKeepsSources
  <2> DEFINE r == [handler[h] EXCEPT !.pc = "insert", !.made = i]
  <2>step. handler' = [handler EXCEPT ![h] = r]
    BY <2>1
  <2>request. r \in Request
    BY <2>2, ZenonT(60) DEF TypeOK, Request
  <2>moved. /\ handler' \in [Handlers -> Request]
        /\ handler'[h] = r
        /\ \A g \in Handlers \ {h} : handler'[g] = handler[g]
    BY <2>step, <2>request, OneRequest
  <2>4. TypeOK'
    BY <1>1, <2>3, <2>moved DEF Create, TypeOK, Request
  <2>5. /\ handler'[h].pc = "insert" /\ handler'[h].issue = handler[h].issue
        /\ handler'[h].made = i
    BY <2>moved DEF TypeOK
  <2>6. Carries(h)'
    BY <2>2, <2>3, <2>5 DEF Carries, IsLinear
  <2> QED
    BY <1>1, <2>3, <2>4, <2>6, <2>moved, OneMoves DEF Create
<1>2. CASE CreateUnanswered(h)
  <2>1. PICK i \in Unopened(Target(h)) : Open(i, handler[h].issue)
    BY <1>2 DEF CreateUnanswered
  <2>2. handler[h].issue \in Issues /\ i \in Issues /\ ~Exists(i)
    BY <1>2, TargetIsOtherSide DEF CreateUnanswered
  <2>3. /\ source' \in [Issues -> Issues \cup {Person, NotYet}]
        /\ webhooks' \in [Issues -> Nat]
        /\ SourceKept
    BY <2>1, <2>2, OpenKeepsSources
  <2>4. Ends(h)
    BY <1>2 DEF CreateUnanswered
  <2>5. TypeOK'
    BY <1>2, <2>3, <2>4, EndsCarriesNothing, SpendTyped DEF CreateUnanswered, TypeOK, Request
  <2> QED
    BY <1>2, <2>3, <2>4, <2>5, EndsCarriesNothing, OneMoves DEF CreateUnanswered
<1>3. CASE CreateEmpty(h)
  <2>1. TypeOK'
    BY <1>3, SpendTyped, ZenonT(60) DEF CreateEmpty, TypeOK
  <2>2. /\ handler'[h].pc = "insert" /\ handler'[h].issue = handler[h].issue
        /\ handler'[h].made = handler[h].made
        /\ \A g \in Handlers \ {h} : handler'[g] = handler[g]
    BY <1>3 DEF CreateEmpty, TypeOK
  <2>3. handler[h].issue \in Issues /\ handler[h].made = None
    BY <1>3 DEF CreateEmpty, CarriesTruth, Carries
  <2>4. Carries(h)'
    BY <1>3, <2>2, <2>3 DEF CreateEmpty, Carries, IsLinear
  <2> QED
    BY <1>3, <2>1, <2>2, <2>4, OneMoves DEF CreateEmpty, SourceKept
<1>4. CASE Fail(h)
  <2>1. Ends(h)
    BY <1>4 DEF Fail
  <2>2. TypeOK'
    BY <1>4, <2>1, EndsCarriesNothing, SpendTyped DEF Fail, TypeOK, Request
  <2> QED
    BY <1>4, <2>1, <2>2, EndsCarriesNothing, OneMoves DEF Fail, SourceKept
<1> QED
  BY <1>1, <1>2, <1>3, <1>4

\* The row a request inserts is of the right types, and true unless the repository
\* in the config is not the one the copy went to.
LEMMA RowIsTrue ==
    ASSUME IInv, NEW h \in Handlers, handler[h].pc = "insert"
    PROVE  /\ Row(h) \in [github : (Repos \cup {NoRepo}) \X (1 .. MaxGithub),
                          linear : LinearIssues \cup {None}]
           /\ ~(IsLinear(h) /\ configured # handler[h].made[1]) =>
                 /\ Row(h).github \in GithubIssues
                 /\ Row(h).linear # None =>
                       \/ source[Row(h).linear] = Row(h).github
                       \/ source[Row(h).github] = Row(h).linear
<1> USE DEF IInv
<1>1. Carries(h)
  BY DEF CarriesTruth
<1>2. CASE IsLinear(h)
  <2>1. /\ Row(h) = [github |-> <<configured, handler[h].made[2]>>, linear |-> handler[h].issue]
        /\ handler[h].made \in GithubIssues /\ source[handler[h].made] = handler[h].issue
        /\ handler[h].issue \in LinearIssues
    BY <1>1, <1>2 DEF Carries, Row, IsLinear
  <2>2. configured \in Repos \cup {NoRepo} /\ handler[h].made[2] \in 1 .. MaxGithub
    BY <2>1 DEF TypeOK, GithubIssues
  <2>3. configured = handler[h].made[1] => <<configured, handler[h].made[2]>> = handler[h].made
    BY <2>1 DEF GithubIssues
  <2> QED
    BY <1>2, <2>1, <2>2, <2>3
<1>3. CASE ~IsLinear(h)
  <2>1. /\ Row(h) = [github |-> handler[h].issue, linear |-> handler[h].made]
        /\ handler[h].issue \in GithubIssues
        /\ \/ handler[h].made = None
           \/ handler[h].made \in LinearIssues /\ source[handler[h].made] = handler[h].issue
    BY <1>1, <1>3 DEF Carries, Row, IsLinear, Issues
  <2> QED
    BY <2>1, <1>3 DEF GithubIssues
<1> QED
  BY <1>2, <1>3

\* The insert.
LEMMA InsertInv == ASSUME IInv, NEW h \in Handlers, Insert(h) PROVE IInv'
<1> USE DEF IInv
<1>1. handler[h].pc = "insert" /\ Ends(h) /\ source' = source
  BY DEF Insert
<1>2. rows' \subseteq rows \cup {Row(h)}
  BY DEF Insert
<1>3. SourceKept
  BY <1>1 DEF SourceKept
<1>4. TypeOK'
  BY <1>1, <1>2, RowIsTrue, EndsCarriesNothing DEF Insert, TypeOK, Request
<1>5. CarriesTruth'
  BY <1>1, <1>3, EndsCarriesNothing, CarriesStays DEF CarriesTruth
<1>6. ~misfiled' => ~misfiled /\ ~(IsLinear(h) /\ configured # handler[h].made[1])
  BY DEF Insert
<1>7. RowsAreIssues'
  BY <1>1, <1>2, <1>6, RowIsTrue DEF RowsAreIssues
<1>8. RowsAreTrue'
  <2> SUFFICES ASSUME ~misfiled', NEW row \in rows', row.linear # None
               PROVE  source[row.linear] = row.github \/ source[row.github] = row.linear
    BY <1>1 DEF RowsAreTrue
  <2>1. CASE row \in rows
    BY <1>6, <2>1 DEF RowsAreTrue
  <2>2. CASE row = Row(h)
    BY <1>1, <1>6, <2>2, RowIsTrue
  <2> QED
    BY <1>2, <2>1, <2>2
<1> QED
  BY <1>4, <1>5, <1>7, <1>8

\* Every step keeps the invariant.
LEMMA NextInv == IInv /\ [Next]_vars => IInv'
<1> SUFFICES ASSUME IInv, [Next]_vars PROVE IInv'
  OBVIOUS
<1>1. CASE Next
  <2>1. CASE \/ PersonOpens \/ Redeliver \/ ReloadGithub \/ ToggleGithub
             \/ \E i \in Issues : LoseWebhook(i)
    BY <2>1, SurroundingsInv
  <2>2. ASSUME NEW h \in Handlers, Step(h) \/ \E i \in Issues : Deliver(h, i) PROVE IInv'
    BY <2>2, BeforeCreateInv, CreateInv, InsertInv DEF Step
  <2> QED
    BY <1>1, <2>1, <2>2 DEF Next
<1>2. CASE UNCHANGED vars
  <2>1. TypeOK'
    BY <1>2 DEF vars, IInv, TypeOK
  <2> QED
    BY <1>2, <2>1, NoneMoves DEF vars, SourceKept
<1> QED
  BY <1>1, <1>2

\* Requests, rows and issues are always what the code takes them for: the GitHub
\* side of a row is a GitHub issue's key, the Linear side a Linear issue or "".
THEOREM TypeCorrect == Spec => []TypeOK
<1>1. IInv => TypeOK
  BY DEF IInv
<1> QED
  BY InitInv, NextInv, <1>1, PTL DEF Spec

\* Whatever fails, overlaps, is lost or comes again, a row relates an issue and the
\* copy that was made of it, unless the repository was changed in between.
THEOREM MappingsAreTrue == Spec => []RowsAreTrue
<1>1. IInv => RowsAreTrue
  BY DEF IInv
<1> QED
  BY InitInv, NextInv, <1>1, PTL DEF Spec

(***************************************************************************)
(* An issue is mirrored once and its copy is mapped, for every number of   *)
(* repositories, issues, requests at a time, deliveries and reloads.       *)
(*                                                                         *)
(* A request that got past the lookup is the only one at work on its issue *)
(* (Alone); the issue is no copy and has none but the one the request has  *)
(* made (OnlyCopy).  When a later request looks the issue up, either the   *)
(* row is there or the maker is still at work, which the terms exclude.    *)
(***************************************************************************)
\* The terms of both properties.
Terms == ~raced /\ clean /\ ~misfiled

Working(h) == handler[h].pc \in {"create", "insert"}

\* Nobody is told of an issue before it is opened.
Known ==
    /\ \A i \in Issues : webhooks[i] > 0 => Exists(i)
    /\ \A h \in Handlers : handler[h].pc # "idle" => Exists(handler[h].issue)
    /\ \A i \in Issues : IsCopy(i) => Exists(source[i])

OneEach ==
    \A i \in Issues :
        /\ \A c, d \in CopiesOf(i) : c = d
        /\ IsCopy(i) => CopiesOf(i) = {}

Alone ==
    \A g, h \in Handlers : g # h /\ Working(g) /\ Working(h) => handler[g].issue # handler[h].issue

OnlyCopy ==
    \A h \in Handlers :
        /\ Working(h) => ~IsCopy(handler[h].issue)
        /\ handler[h].pc = "create" => CopiesOf(handler[h].issue) = {}
        /\ handler[h].pc = "insert" =>
              handler[h].made \in Issues /\ CopiesOf(handler[h].issue) = {handler[h].made}

RowsFull == \A row \in rows : row.linear # None

CopiesHeld ==
    \A i \in Issues : IsCopy(i) =>
        \/ \E row \in rows : {row.github, row.linear} = {i, source[i]}
        \/ \E h \in Handlers : handler[h].pc = "insert" /\ handler[h].made = i

Tidy == OneEach /\ Alone /\ OnlyCopy /\ RowsFull /\ CopiesHeld

MInv == IInv /\ Known /\ (Terms => Tidy)

\* At first nothing is open.
LEMMA MirrorInit == Init => MInv
<1> SUFFICES ASSUME Init PROVE MInv
  OBVIOUS
<1>1. \A i \in Issues : source[i] = NotYet /\ ~IsCopy(i) /\ CopiesOf(i) = {} /\ webhooks[i] = 0
  BY SourcesAssumption DEF Init, IsCopy, CopiesOf
<1>2. \A h \in Handlers : handler[h].pc = "idle"
  BY DEF Init, Idle
<1>3. rows = {}
  BY DEF Init
<1>4. Known
  BY <1>1, <1>2 DEF Known
<1>5. Tidy
  BY <1>1, <1>2, <1>3 DEF Tidy, OneEach, Alone, OnlyCopy, RowsFull, CopiesHeld, Working
<1> QED
  BY InitInv, <1>4, <1>5 DEF MInv

\* Who is a copy, and of what, after a step that opens issue i.
LEMMA OpenIsKnown ==
    ASSUME IInv, Known, NEW i \in Issues, ~Exists(i),
           NEW from \in Issues \cup {Person}, from \in Issues => Exists(from), Open(i, from)
    PROVE  /\ source' = [source EXCEPT ![i] = from]
           /\ source \in [Issues -> Issues \cup {Person, NotYet}]
           /\ \A j \in Issues : Exists(j) => Exists(j)'
           /\ \A j \in Issues : webhooks'[j] > 0 => Exists(j)'
           /\ \A j, k \in Issues : source'[j] = k => Exists(k)'
<1>1. source \in [Issues -> Issues \cup {Person, NotYet}] /\ webhooks \in [Issues -> Nat]
  BY DEF IInv, TypeOK
<1>2. source' = [source EXCEPT ![i] = from] /\ webhooks' = [webhooks EXCEPT ![i] = @ + 1]
  BY DEF Open
<1>3. source'[i] = from /\ \A j \in Issues \ {i} : source'[j] = source[j] /\ webhooks'[j] = webhooks[j]
  BY <1>1, <1>2
<1>4. \A j \in Issues : Exists(j) => Exists(j)'
  BY <1>3 DEF Exists
<1>5. Exists(i)'
  BY <1>3, SourcesAssumption DEF Exists
<1>6. \A j \in Issues : webhooks'[j] > 0 => Exists(j)'
  BY <1>3, <1>4, <1>5 DEF Known
<1>7. ASSUME NEW j \in Issues, NEW k \in Issues, source'[j] = k PROVE Exists(k)'
  <2>1. CASE j = i
    BY <1>3, <1>4, <1>7, <2>1
  <2>2. CASE j # i
    BY <1>3, <1>4, <1>7, <2>2 DEF Known, IsCopy
  <2> QED
    BY <2>1, <2>2
<1> QED
  BY <1>1, <1>2, <1>4, <1>6, <1>7

\* Requests know of issues that are open: each step leaves a request its issue, ends
\* it, or gives it the issue of a webhook.
LEMMA KnownStays ==
    ASSUME IInv, Known,
           \A i \in Issues : Exists(i) => Exists(i)',
           \A i \in Issues : webhooks'[i] > 0 => Exists(i)',
           \A i, k \in Issues : source'[i] = k => Exists(k)',
           \A h \in Handlers :
               \/ handler'[h].pc = "idle"
               \/ handler[h].pc # "idle" /\ handler'[h].issue = handler[h].issue
               \/ \E i \in Issues : handler'[h].issue = i /\ Exists(i)
    PROVE  Known'
<1>1. ASSUME NEW h \in Handlers, handler'[h].pc # "idle"
      PROVE  \E i \in Issues : handler'[h].issue = i /\ Exists(i)
  BY <1>1 DEF IInv, CarriesTruth, Carries, Known
<1>2. \A h \in Handlers : handler'[h].pc # "idle" => source'[handler'[h].issue] # NotYet
  BY <1>1 DEF Exists
<1>3. \A i \in Issues : source'[i] \in Issues => source'[source'[i]] # NotYet
  BY DEF Exists
<1> QED
  BY <1>2, <1>3 DEF Known, Exists, IsCopy

\* A step that opens nothing: what is open stays open.
LEMMA NothingOpens ==
    ASSUME IInv, Known, source' = source,
           \A i \in Issues : webhooks'[i] > 0 => webhooks[i] > 0 \/ Exists(i)
    PROVE  /\ \A i \in Issues : Exists(i) => Exists(i)'
           /\ \A i \in Issues : webhooks'[i] > 0 => Exists(i)'
           /\ \A i, k \in Issues : source'[i] = k => Exists(k)'
BY DEF Known, Exists, IsCopy

\* What a step of request h does to requests.
LEMMA OthersWait ==
    ASSUME IInv, NEW h \in Handlers, Step(h)
    PROVE  /\ \A g \in Handlers \ {h} : handler'[g] = handler[g]
           /\ handler[h].pc # "idle"
           /\ \/ handler'[h].pc = "idle"
              \/ handler'[h].issue = handler[h].issue
<1>1. handler \in [Handlers -> Request]
  BY DEF IInv, TypeOK, Request
<1>2. CASE Lookup(h)
  BY <1>1, <1>2 DEF Lookup, Request
<1>3. CASE Create(h)
  <2>1. handler[h].pc = "create" /\ \E i : handler' = [handler EXCEPT ![h].pc = "insert", ![h].made = i]
    BY <1>3 DEF Create
  <2> QED
    BY <1>1, <2>1 DEF Request
<1>4. CASE CreateEmpty(h)
  BY <1>1, <1>4 DEF CreateEmpty, Request
<1>5. CASE Skip(h) \/ CreateUnanswered(h) \/ Fail(h) \/ Insert(h)
  <2>1. Ends(h) /\ handler[h].pc # "idle"
    BY <1>5 DEF Skip, CreateUnanswered, Fail, Insert
  <2> QED
    BY <1>1, <2>1 DEF Ends, Idle
<1> QED
  BY <1>2, <1>3, <1>4, <1>5 DEF Step

LEMMA KnownInv == IInv /\ Known /\ [Next]_vars => Known'
<1> SUFFICES ASSUME IInv, Known, [Next]_vars PROVE Known'
  OBVIOUS
<1> USE DEF IInv
<1>types. webhooks \in [Issues -> Nat] /\ handler \in [Handlers -> Request]
  BY DEF TypeOK, Request
<1>1. CASE PersonOpens
  <2>1. PICK i \in Issues : ~Exists(i) /\ Open(i, Person)
    BY <1>1 DEF PersonOpens, Unopened, Issues, GithubIssues
  <2>2. handler' = handler /\ Person \notin Issues
    BY <1>1, SourcesAssumption DEF PersonOpens
  <2> QED
    BY <2>1, <2>2, OpenIsKnown, KnownStays
<1>2. CASE Redeliver
  <2>1. /\ source' = source /\ handler' = handler
        /\ \A i \in Issues : webhooks'[i] > 0 => webhooks[i] > 0 \/ Exists(i)
    BY <1>2, <1>types DEF Redeliver
  <2> QED
    BY <2>1, NothingOpens, KnownStays
<1>3. CASE ReloadGithub \/ ToggleGithub \/ UNCHANGED vars
  <2>1. source' = source /\ handler' = handler /\ webhooks' = webhooks
    BY <1>3 DEF ReloadGithub, ToggleGithub, vars
  <2> QED
    BY <2>1, NothingOpens, KnownStays
<1>4. ASSUME NEW i \in Issues, LoseWebhook(i) PROVE Known'
  <2>1. /\ source' = source /\ handler' = handler
        /\ \A j \in Issues : webhooks'[j] > 0 => webhooks[j] > 0
    BY <1>4, <1>types DEF LoseWebhook
  <2> QED
    BY <2>1, NothingOpens, KnownStays
<1>5. ASSUME NEW h \in Handlers, NEW i \in Issues, Deliver(h, i) PROVE Known'
  <2>1. /\ source' = source
        /\ \A j \in Issues : webhooks'[j] > 0 => webhooks[j] > 0
        /\ webhooks[i] > 0
    BY <1>5, <1>types DEF Deliver
  <2>2. handler'[h].issue = i /\ \A g \in Handlers \ {h} : handler'[g] = handler[g]
    BY <1>5, <1>types DEF Deliver, Idle
  <2>3. Exists(i)
    BY <2>1 DEF Known
  <2> QED
    BY <2>1, <2>2, <2>3, NothingOpens, KnownStays
<1>6. ASSUME NEW h \in Handlers, Create(h) \/ CreateUnanswered(h) PROVE Known'
  <2>1. PICK i \in Unopened(Target(h)) : Open(i, handler[h].issue)
    BY <1>6 DEF Create, CreateUnanswered
  <2>2. /\ handler[h].pc = "create" /\ handler[h].issue \in Issues /\ i \in Issues /\ ~Exists(i)
    BY <1>6, TargetIsOtherSide DEF Create, CreateUnanswered
  <2>3. Exists(handler[h].issue)
    BY <2>2 DEF Known
  <2>4. /\ \A g \in Handlers \ {h} : handler'[g] = handler[g]
        /\ handler'[h].pc = "idle" \/ handler'[h].issue = handler[h].issue
    BY <1>6, OthersWait DEF Step
  <2>5. \A g \in Handlers :
           \/ handler'[g].pc = "idle"
           \/ handler[g].pc # "idle" /\ handler'[g].issue = handler[g].issue
    BY <2>2, <2>4
  <2>6. /\ \A j \in Issues : Exists(j) => Exists(j)'
        /\ \A j \in Issues : webhooks'[j] > 0 => Exists(j)'
        /\ \A j, k \in Issues : source'[j] = k => Exists(k)'
    BY <2>1, <2>2, <2>3, OpenIsKnown
  <2> QED
    BY <2>5, <2>6, KnownStays
<1>7. ASSUME NEW h \in Handlers, Skip(h) \/ Lookup(h) \/ CreateEmpty(h) \/ Fail(h) \/ Insert(h)
      PROVE  Known'
  <2>1. source' = source /\ webhooks' = webhooks
    BY <1>7 DEF Skip, Lookup, CreateEmpty, Fail, Insert
  <2>2. handler[h].pc # "idle"
    BY <1>7 DEF Skip, Lookup, CreateEmpty, Fail, Insert
  <2>3. /\ \A g \in Handlers \ {h} : handler'[g] = handler[g]
        /\ handler'[h].pc = "idle" \/ handler'[h].issue = handler[h].issue
    BY <1>7, OthersWait DEF Step
  <2>4. \A g \in Handlers :
           \/ handler'[g].pc = "idle"
           \/ handler[g].pc # "idle" /\ handler'[g].issue = handler[g].issue
    BY <2>2, <2>3
  <2>5. /\ \A j \in Issues : Exists(j) => Exists(j)'
        /\ \A j \in Issues : webhooks'[j] > 0 => Exists(j)'
        /\ \A j, k \in Issues : source'[j] = k => Exists(k)'
    BY <2>1, NothingOpens
  <2> QED
    BY <2>4, <2>5, KnownStays
<1> QED
  BY <1>1, <1>2, <1>3, <1>4, <1>5, <1>6, <1>7 DEF Next, Step

\* A step that makes no copy, writes no row, and leaves requests past the lookup
\* where they are.
LEMMA TidyStays ==
    ASSUME IInv, Tidy, rows' = rows,
           \A c \in Issues : source'[c] = source[c] \/ (~IsCopy(c) /\ ~IsCopy(c)'),
           \A h \in Handlers : handler'[h] = handler[h] \/ (~Working(h) /\ ~Working(h)')
    PROVE  Tidy'
<1>1. \A i \in Issues : (IsCopy(i)' <=> IsCopy(i)) /\ (IsCopy(i) => source'[i] = source[i])
  BY DEF IsCopy
<1>2. \A i \in Issues : CopiesOf(i)' = CopiesOf(i)
  BY <1>1 DEF CopiesOf, IsCopy
<1>3. \A h \in Handlers :
          /\ Working(h)' <=> Working(h)
          /\ Working(h) => handler'[h] = handler[h] /\ handler[h].issue \in Issues
          /\ handler'[h].pc = "create" => Working(h)
          /\ handler'[h].pc = "insert" => Working(h)
          /\ handler[h].pc = "insert" => Working(h)
  BY DEF Working, IInv, CarriesTruth, Carries
<1>4. OneEach'
  BY <1>1, <1>2 DEF Tidy, OneEach
<1>5. Alone'
  BY <1>3 DEF Tidy, Alone
<1>6. OnlyCopy'
  <2> SUFFICES ASSUME NEW h \in Handlers, Working(h)
               PROVE  /\ ~IsCopy(handler[h].issue)'
                      /\ handler[h].pc = "create" => CopiesOf(handler[h].issue)' = {}
                      /\ handler[h].pc = "insert" =>
                            handler[h].made \in Issues /\ CopiesOf(handler[h].issue)' = {handler[h].made}
    BY <1>3 DEF OnlyCopy, IsCopy, CopiesOf
  <2>1. handler[h].issue \in Issues /\ handler'[h] = handler[h]
    BY <1>3
  <2> QED
    BY <1>1, <1>2, <2>1 DEF Tidy, OnlyCopy, IsCopy, CopiesOf
<1>7. RowsFull'
  BY DEF Tidy, RowsFull
<1>8. CopiesHeld'
  BY <1>1, <1>3 DEF Tidy, CopiesHeld
<1> QED
  BY <1>4, <1>5, <1>6, <1>7, <1>8 DEF Tidy

\* A request that found no row, for an issue nobody else is at work on: there is
\* no copy of it, or its row, or its maker, would have been met.
LEMMA LookupTidy ==
    ASSUME IInv, Tidy, NEW h \in Handlers, Lookup(h), ~raced'
    PROVE  Tidy'
<1> DEFINE i == handler[h].issue
<1>types. handler \in [Handlers -> Request]
  BY DEF IInv, TypeOK, Request
<1>1. /\ handler[h].pc = "lookup" /\ ~Mapped(i) /\ ~Held(h, i)
      /\ source' = source /\ rows' = rows
  BY DEF Lookup
<1>2. i \in Issues /\ (\A g \in Handlers : Carries(g))
  BY <1>1 DEF IInv, CarriesTruth, Carries
<1>3. /\ \A g \in Handlers \ {h} : handler'[g] = handler[g]
      /\ handler'[h].pc = "create" /\ handler'[h].issue = i
  BY <1>types DEF Lookup, Request
<1>4. ~IsCopy(i)
  <2> SUFFICES ASSUME IsCopy(i) PROVE FALSE
    OBVIOUS
  <2>1. CASE \E row \in rows : {row.github, row.linear} = {i, source[i]}
    BY <1>1, <2>1 DEF Mapped
  <2>2. CASE \E g \in Handlers : handler[g].pc = "insert" /\ handler[g].made = i
    BY <1>1, <2>2 DEF Held
  <2> QED
    BY <1>2, <2>1, <2>2 DEF Tidy, CopiesHeld
<1>5. CopiesOf(i) = {}
  <2> SUFFICES ASSUME NEW c \in Issues, source[c] = i PROVE FALSE
    BY DEF CopiesOf
  <2>1. CASE \E row \in rows : {row.github, row.linear} = {c, source[c]}
    BY <1>1, <2>1 DEF Mapped
  <2>2. ASSUME NEW g \in Handlers, handler[g].pc = "insert", handler[g].made = c PROVE FALSE
    <3>1. c # None
      BY SidesAssumption
    <3>2. source[c] = handler[g].issue
      BY <1>2, <2>2, <3>1 DEF Carries
    <3> QED
      BY <1>1, <2>2, <3>2 DEF Held
  <2>3. IsCopy(c)
    BY <1>2 DEF IsCopy
  <2> QED
    BY <2>1, <2>2, <2>3 DEF Tidy, CopiesHeld
<1>6. \A k \in Issues : (IsCopy(k)' <=> IsCopy(k)) /\ CopiesOf(k)' = CopiesOf(k)
  BY <1>1 DEF IsCopy, CopiesOf
<1>7. OneEach'
  BY <1>6 DEF Tidy, OneEach
<1>8. \A g \in Handlers \ {h} : Working(g) => handler[g].issue # i
  BY <1>1 DEF Held, Working
<1>9. Alone'
  BY <1>3, <1>8 DEF Tidy, Alone, Working
<1>10. OnlyCopy'
  <2>1. ASSUME NEW g \in Handlers \ {h}
        PROVE  /\ Working(g) => ~IsCopy(handler[g].issue)
               /\ handler[g].pc = "create" => CopiesOf(handler[g].issue) = {}
               /\ handler[g].pc = "insert" =>
                     handler[g].made \in Issues /\ CopiesOf(handler[g].issue) = {handler[g].made}
    BY DEF Tidy, OnlyCopy
  <2> QED
    BY <1>1, <1>3, <1>4, <1>5, <2>1 DEF OnlyCopy, Working, IsCopy, CopiesOf
<1>11. RowsFull'
  BY <1>1 DEF Tidy, RowsFull
<1>12. CopiesHeld'
  <2>1. \A g \in Handlers : handler[g].pc = "insert" => handler'[g] = handler[g]
    BY <1>1, <1>3
  <2> QED
    BY <1>1, <2>1 DEF Tidy, CopiesHeld, IsCopy
<1> QED
  BY <1>7, <1>9, <1>10, <1>11, <1>12 DEF Tidy

\* The copy is the first one of its issue, and nothing is a copy of it yet.
LEMMA CreateTidy ==
    ASSUME IInv, Known, Tidy, NEW h \in Handlers, Create(h)
    PROVE  Tidy'
<1> DEFINE j == handler[h].issue
<1>types. handler \in [Handlers -> Request] /\ source \in [Issues -> Issues \cup {Person, NotYet}]
  BY DEF IInv, TypeOK, Request
<1>1. PICK i \in Unopened(Target(h)) :
          Open(i, j) /\ handler' = [handler EXCEPT ![h].pc = "insert", ![h].made = i]
  BY DEF Create
<1>2. handler[h].pc = "create" /\ j \in Issues /\ i \in Issues /\ ~Exists(i) /\ rows' = rows
  BY TargetIsOtherSide DEF Create
<1>3. Exists(j) /\ i # j
  BY <1>2 DEF Known
<1>4. source'[i] = j /\ \A k \in Issues \ {i} : source'[k] = source[k]
  BY <1>1, <1>2, <1>types DEF Open
<1>5. /\ \A g \in Handlers \ {h} : handler'[g] = handler[g]
      /\ handler'[h].pc = "insert" /\ handler'[h].issue = j /\ handler'[h].made = i
  BY <1>1, <1>types DEF Request
<1>6. source[i] = NotYet /\ ~IsCopy(i)
  BY <1>2, SourcesAssumption DEF Exists, IsCopy
<1>7. CopiesOf(i) = {}
  BY <1>2 DEF Known, CopiesOf, IsCopy
<1>8. CopiesOf(j) = {} /\ ~IsCopy(j)
  BY <1>2 DEF Tidy, OnlyCopy, Working
<1>9. \A k \in Issues \ {i} : IsCopy(k)' <=> IsCopy(k)
  BY <1>4 DEF IsCopy
<1>10. \A k \in Issues \ {j} : CopiesOf(k)' = CopiesOf(k)
  BY <1>2, <1>4, <1>6, SourcesAssumption DEF CopiesOf
<1>11. source'[j] \notin Issues /\ {c \in Issues : source'[c] = j} = {i}
  BY <1>2, <1>3, <1>4, <1>8 DEF CopiesOf, IsCopy
<1>12. OneEach'
  <2> SUFFICES ASSUME NEW k \in Issues
               PROVE  /\ \A c, d \in CopiesOf(k)' : c = d
                      /\ IsCopy(k)' => CopiesOf(k)' = {}
    BY DEF OneEach
  <2>1. CASE k = j
    BY <1>11, <2>1 DEF CopiesOf, IsCopy
  <2>2. CASE k = i
    BY <1>3, <1>7, <1>10, <2>2
  <2>3. CASE k # i /\ k # j
    BY <1>9, <1>10, <2>3 DEF Tidy, OneEach
  <2> QED
    BY <2>1, <2>2, <2>3
<1>13. Alone'
  BY <1>2, <1>5 DEF Tidy, Alone, Working
<1>14. OnlyCopy'
  <2>1. ASSUME NEW g \in Handlers \ {h}, Working(g)
        PROVE  handler[g].issue \in Issues \ {i, j}
    <3>1. handler[g].issue \in Issues /\ Exists(handler[g].issue)
      BY <2>1 DEF IInv, CarriesTruth, Carries, Working, Known
    <3>2. handler[g].issue # j
      BY <1>2, <2>1 DEF Tidy, Alone, Working
    <3> QED
      BY <1>2, <3>1, <3>2
  <2>2. ASSUME NEW g \in Handlers \ {h}, Working(g)
        PROVE  /\ source'[handler[g].issue] \notin Issues
               /\ {c \in Issues : source'[c] = handler[g].issue} = CopiesOf(handler[g].issue)
    <3>1. handler[g].issue \in Issues \ {i, j}
      BY <2>1, <2>2
    <3>2. source'[handler[g].issue] = source[handler[g].issue] /\ ~IsCopy(handler[g].issue)
      BY <1>4, <2>2, <3>1 DEF Tidy, OnlyCopy
    <3> QED
      BY <1>2, <1>4, <1>6, <3>1, <3>2, SourcesAssumption DEF IsCopy, CopiesOf
  <2> SUFFICES ASSUME NEW g \in Handlers, Working(g)'
               PROVE  /\ source'[handler'[g].issue] \notin Issues
                      /\ handler'[g].pc = "create" =>
                            {c \in Issues : source'[c] = handler'[g].issue} = {}
                      /\ handler'[g].pc = "insert" =>
                            /\ handler'[g].made \in Issues
                            /\ {c \in Issues : source'[c] = handler'[g].issue} = {handler'[g].made}
    BY DEF OnlyCopy, Working, IsCopy, CopiesOf
  <2>3. CASE g = h
    BY <1>2, <1>5, <1>11, <2>3
  <2>4. CASE g # h
    BY <1>5, <2>2, <2>4 DEF Tidy, OnlyCopy, Working
  <2> QED
    BY <2>3, <2>4
<1>15. RowsFull'
  BY <1>2 DEF Tidy, RowsFull
<1>16. CopiesHeld'
  <2> SUFFICES ASSUME NEW k \in Issues, IsCopy(k)'
               PROVE  \/ \E row \in rows : {row.github, row.linear} = {k, source'[k]}
                      \/ \E g \in Handlers : handler'[g].pc = "insert" /\ handler'[g].made = k
    BY <1>2 DEF CopiesHeld
  <2>1. CASE k = i
    BY <1>5, <2>1
  <2>2. CASE k # i
    <3>1. IsCopy(k) /\ source'[k] = source[k]
      BY <1>4, <1>9, <2>2
    <3>2. \A g \in Handlers : handler[g].pc = "insert" => handler'[g] = handler[g]
      BY <1>2, <1>5
    <3> QED
      BY <3>1, <3>2 DEF Tidy, CopiesHeld
  <2> QED
    BY <2>1, <2>2
<1> QED
  BY <1>12, <1>13, <1>14, <1>15, <1>16 DEF Tidy

\* The row names the issue and its copy.  If the key is taken, it is by that row: any
\* other would make the issue a copy, or give it or the copy another one.
LEMMA InsertTidy ==
    ASSUME IInv, Tidy, NEW h \in Handlers, Insert(h), ~misfiled'
    PROVE  Tidy'
<1> DEFINE i == handler[h].issue
           c == handler[h].made
<1>1. /\ handler[h].pc = "insert" /\ Ends(h) /\ source' = source
      /\ rows' = IF \E row \in rows : row.github = Row(h).github THEN rows ELSE rows \cup {Row(h)}
      /\ ~misfiled /\ ~(IsLinear(h) /\ configured # c[1])
  BY DEF Insert
<1>2. /\ c \in Issues /\ i \in Issues /\ source[c] = i /\ source[i] \notin Issues
      /\ \A d \in Issues : source[d] = i => d = c
  <2>1. c \in Issues /\ CopiesOf(i) = {c} /\ ~IsCopy(i)
    BY <1>1 DEF Tidy, OnlyCopy, Working
  <2>2. i \in Issues
    BY <1>1 DEF IInv, CarriesTruth, Carries
  <2> QED
    BY <2>1, <2>2 DEF CopiesOf, IsCopy
<1>3. \A d \in Issues : source[d] # c
  BY <1>2 DEF Tidy, OneEach, IsCopy, CopiesOf
<1>4. Row(h) = IF IsLinear(h) THEN [github |-> c, linear |-> i] ELSE [github |-> i, linear |-> c]
  <2>1. CASE IsLinear(h)
    <3>1. c \in GithubIssues /\ configured = c[1]
      BY <1>1, <1>2, <2>1 DEF IInv, CarriesTruth, Carries
    <3>2. <<configured, c[2]>> = c
      BY <3>1 DEF GithubIssues
    <3> QED
      BY <2>1, <3>2 DEF Row
  <2>2. CASE ~IsLinear(h)
    BY <2>2 DEF Row
  <2> QED
    BY <2>1, <2>2
<1>5. \E row \in rows' : {row.github, row.linear} = {c, i}
  <2>1. CASE \E row \in rows : row.github = Row(h).github
    <3>1. PICK row \in rows : row.github = Row(h).github
      BY <2>1
    <3>2. /\ row.linear # None
          /\ row.github \in GithubIssues /\ row.linear \in LinearIssues
          /\ source[row.linear] = row.github \/ source[row.github] = row.linear
      BY <1>1 DEF IInv, RowsAreTrue, RowsAreIssues, TypeOK, Tidy, RowsFull
    <3>3. row.github \in Issues /\ row.linear \in Issues
      BY <3>2 DEF Issues
    <3>4. CASE IsLinear(h)
      BY <1>1, <1>2, <1>3, <1>4, <2>1, <3>1, <3>2, <3>3, <3>4
    <3>5. CASE ~IsLinear(h)
      BY <1>1, <1>2, <1>3, <1>4, <2>1, <3>1, <3>2, <3>3, <3>5
    <3> QED
      BY <3>4, <3>5
  <2>2. CASE ~\E row \in rows : row.github = Row(h).github
    <3>1. Row(h) \in rows'
      BY <1>1, <2>2
    <3>2. {Row(h).github, Row(h).linear} = {c, i}
      BY <1>4
    <3> QED
      BY <3>1, <3>2
  <2> QED
    BY <2>1, <2>2
<1>6. /\ \A g \in Handlers \ {h} : handler'[g] = handler[g]
      /\ handler'[h].pc = "idle"
  BY <1>1 DEF IInv, TypeOK, Ends, Idle
<1>7. \A k \in Issues : (IsCopy(k)' <=> IsCopy(k)) /\ CopiesOf(k)' = CopiesOf(k)
  BY <1>1 DEF IsCopy, CopiesOf
<1>8. OneEach'
  BY <1>7 DEF Tidy, OneEach
<1>9. Alone'
  BY <1>6 DEF Tidy, Alone, Working
<1>10. OnlyCopy'
  BY <1>1, <1>6 DEF Tidy, OnlyCopy, Working, IsCopy, CopiesOf
<1>11. RowsFull'
  <2>1. Row(h).linear # None
    BY <1>2, <1>4, SidesAssumption
  <2> QED
    BY <1>1, <2>1 DEF Tidy, RowsFull
<1>12. CopiesHeld'
  <2> SUFFICES ASSUME NEW k \in Issues, IsCopy(k)
               PROVE  \/ \E row \in rows' : {row.github, row.linear} = {k, source[k]}
                      \/ \E g \in Handlers : handler'[g].pc = "insert" /\ handler'[g].made = k
    BY <1>1 DEF CopiesHeld, IsCopy
  <2>1. CASE k = c
    BY <1>2, <1>5, <2>1
  <2>2. CASE k # c
    BY <1>1, <1>6, <2>2 DEF Tidy, CopiesHeld
  <2> QED
    BY <2>1, <2>2
<1> QED
  BY <1>8, <1>9, <1>10, <1>11, <1>12 DEF Tidy

\* Every step keeps the invariant; a failure ends the terms.
LEMMA MirrorNext == MInv /\ [Next]_vars => MInv'
<1> SUFFICES ASSUME MInv, [Next]_vars PROVE MInv'
  OBVIOUS
<1>1. IInv /\ Known /\ IInv' /\ Known'
  BY NextInv, KnownInv DEF MInv
<1> SUFFICES ASSUME Terms' PROVE Tidy'
  BY <1>1 DEF MInv
<1>types. handler \in [Handlers -> Request] /\ source \in [Issues -> Issues \cup {Person, NotYet}]
  BY <1>1 DEF IInv, TypeOK, Request
<1>2. Terms => Tidy
  BY DEF MInv
<1>3. CASE PersonOpens
  <2>1. Terms /\ rows' = rows /\ handler' = handler
    BY <1>3 DEF PersonOpens, Terms
  <2>2. PICK i \in Issues : ~Exists(i) /\ Open(i, Person)
    BY <1>3 DEF PersonOpens, Unopened, Issues, GithubIssues
  <2>3. source'[i] = Person /\ \A k \in Issues \ {i} : source'[k] = source[k]
    BY <2>2, <1>types DEF Open
  <2>4. ~IsCopy(i) /\ ~IsCopy(i)'
    BY <2>2, <2>3, SourcesAssumption DEF Exists, IsCopy
  <2> QED
    BY <1>1, <1>2, <2>1, <2>3, <2>4, TidyStays
<1>4. CASE Redeliver \/ ReloadGithub \/ ToggleGithub \/ (\E i \in Issues : LoseWebhook(i)) \/ UNCHANGED vars
  <2>1. /\ rows' = rows /\ handler' = handler /\ source' = source
        /\ raced' = raced /\ clean' = clean /\ misfiled' = misfiled
    <3>1. CASE Redeliver \/ ReloadGithub \/ ToggleGithub
      BY <3>1 DEF Redeliver, ReloadGithub, ToggleGithub
    <3>2. CASE (\E i \in Issues : LoseWebhook(i)) \/ UNCHANGED vars
      BY <3>2 DEF LoseWebhook, vars
    <3> QED
      BY <1>4, <3>1, <3>2
  <2>2. Terms
    BY <2>1 DEF Terms
  <2> QED
    BY <1>1, <1>2, <2>1, <2>2, TidyStays
<1>5. ASSUME NEW h \in Handlers, Skip(h) \/ \E i \in Issues : Deliver(h, i) PROVE Tidy'
  <2>1. /\ rows' = rows /\ source' = source
        /\ raced' = raced /\ clean' = clean /\ misfiled' = misfiled
        /\ ~Working(h) /\ ~Working(h)'
        /\ \A g \in Handlers \ {h} : handler'[g] = handler[g]
    <3>1. CASE Skip(h)
      BY <1>types, <3>1 DEF Skip, Ends, Idle, Working
    <3>2. ASSUME NEW i \in Issues, Deliver(h, i)
          PROVE  /\ rows' = rows /\ source' = source
                 /\ raced' = raced /\ clean' = clean /\ misfiled' = misfiled
                 /\ ~Working(h) /\ ~Working(h)'
                 /\ \A g \in Handlers \ {h} : handler'[g] = handler[g]
      BY <1>types, <3>2 DEF Deliver, Idle, Working
    <3> QED
      BY <1>5, <3>1, <3>2
  <2>2. Terms
    BY <2>1 DEF Terms
  <2> QED
    BY <1>1, <1>2, <2>1, <2>2, TidyStays
<1>6. ASSUME NEW h \in Handlers, CreateUnanswered(h) \/ CreateEmpty(h) \/ Fail(h) PROVE Tidy'
  BY <1>6 DEF CreateUnanswered, CreateEmpty, Fail, Terms
<1>7. ASSUME NEW h \in Handlers, Lookup(h) PROVE Tidy'
  <2>1. Terms /\ ~raced'
    BY <1>7 DEF Lookup, Terms
  <2> QED
    BY <1>1, <1>2, <1>7, <2>1, LookupTidy
<1>8. ASSUME NEW h \in Handlers, Create(h) PROVE Tidy'
  <2>1. Terms
    BY <1>8 DEF Create, Terms
  <2> QED
    BY <1>1, <1>2, <1>8, <2>1, CreateTidy
<1>9. ASSUME NEW h \in Handlers, Insert(h) PROVE Tidy'
  <2>1. Terms /\ ~misfiled'
    BY <1>9 DEF Insert, Terms
  <2> QED
    BY <1>1, <1>2, <1>9, <2>1, InsertTidy
<1> QED
  BY <1>3, <1>4, <1>5, <1>6, <1>7, <1>8, <1>9 DEF Next, Step

\* Though every copy sets off a webhook of its own, and webhooks come again, an issue
\* gets one copy and a copy none, unless requests overlap on one issue, a call fails,
\* or the repository is changed under a request.
THEOREM OneCopyEach == Spec => []MirroredOnce
<1>1. MInv => MirroredOnce
  <2> SUFFICES ASSUME Tidy, NEW i \in Issues
               PROVE  Cardinality(CopiesOf(i)) <= 1 /\ (IsCopy(i) => CopiesOf(i) = {})
    BY DEF MInv, Terms, MirroredOnce
  <2>1. CASE CopiesOf(i) = {}
    BY <2>1, FS_EmptySet
  <2>2. CASE CopiesOf(i) # {}
    <3>1. PICK c : c \in CopiesOf(i)
      BY <2>2
    <3>2. CopiesOf(i) = {c}
      BY <3>1 DEF Tidy, OneEach
    <3>3. Cardinality(CopiesOf(i)) = 1
      BY <3>2, FS_Singleton
    <3> QED
      BY <3>3 DEF Tidy, OneEach
  <2> QED
    BY <2>1, <2>2
<1> QED
  BY MirrorInit, MirrorNext, <1>1, PTL DEF Spec

\* On the same terms a copy is in the table with its original, or the request that
\* made it is about to put it there.
THEOREM NoCopyIsForgotten == Spec => []CopiesAreMapped
<1>1. MInv => CopiesAreMapped
  BY DEF MInv, Terms, Tidy, CopiesHeld, CopiesAreMapped
<1> QED
  BY MirrorInit, MirrorNext, <1>1, PTL DEF Spec

=============================================================================
