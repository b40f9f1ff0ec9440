---------------------------- MODULE FeedbackProofs ----------------------------
(***************************************************************************)
(* A topic gets one issue, and a cluster is where the task said it was,    *)
(* for any number of requests, topics and clusters, any window of the      *)
(* query, and any number of failures, lost answers, mistakes and           *)
(* restarts.                                                               *)
(*                                                                         *)
(* That an issue is the only one of its topic rests on who may still       *)
(* decide about the topic. There is one such task at most (Alone):         *)
(* another one that reads the tickets meanwhile excuses the topic. The     *)
(* issue has its ticket or its maker is about to store it (Remembered),    *)
(* so that who reads the tickets with nobody else deciding sees the        *)
(* issue, unless its row has left the window, and who goes on to open an   *)
(* issue has seen none because there was none (ReadRightly).               *)
(*                                                                         *)
(* That a cluster is in one place rests on when it may be: an issue holds  *)
(* what was told of, or what the task is about to store a ticket for       *)
(* (HeldInTime).                                                           *)
(***************************************************************************)
EXTENDS Feedback, FiniteSetTheorems, SequenceTheorems, TLAPS

\* What a task may tell of a cluster, where it is while it works, and what it holds.
Results == {"comment", "issue", "no_url", "error"}
Steps == {"query", "match", "comment", "label", "newlabel", "create", "store"}
Pcs == {"off", "clustering", "done", "lost"} \cup Steps
Tickets == [topic : Topics, issue : 1 .. Len(issues)]
Tasks == [pc : Pcs, clusters : Messages \cup {<<>>}, rows : SUBSET Tickets, duplicate : 0 .. Len(issues) + 1]

\* The types, with those of what a task has read.
Typed ==
    /\ labels \in [Categories -> Seq({"Bug", "bug"})]
    /\ issues \in Seq([topic : Topics, holds : SUBSET Clusters])
    /\ tickets \in Seq(Tickets)
    /\ task \in [Requests -> Tasks]
    /\ told \in [Requests -> Seq(Results)]
    /\ faults \in 0 .. MaxFaults
    /\ excused \subseteq Topics

\* A task at work is at one of its clusters, and one that is not has told nothing.
AtACluster ==
    \A r \in Requests :
        /\ task[r].pc \in {"off", "clustering"} => told[r] = <<>>
        /\ task[r].pc \in Steps => Now(r) \in DOMAIN task[r].clusters

\* Issue i has cluster n of request r, and some issue has it.
Holds(i, r, n) == i \in DOMAIN issues /\ <<r, n>> \in issues[i].holds
SomePlace(r, n) == \E i \in DOMAIN issues : Holds(i, r, n)

\* An issue holds clusters that were told of, or about to be.
HeldInTime ==
    \A i \in DOMAIN issues, r \in Requests, n \in Nat : Holds(i, r, n) =>
        n <= Len(told[r]) \/ (n = Now(r) /\ task[r].pc \in {"store", "lost"})

\* No two issues have the same cluster.
OnePlace ==
    \A i, j \in DOMAIN issues, r \in Requests, n \in Nat : Holds(i, r, n) /\ Holds(j, r, n) => i = j

\* The ticket about to be stored names the issue that was opened for the cluster.
StoresItsOwn == \A r \in Requests : task[r].pc = "store" => Holds(task[r].duplicate, r, Now(r))

\* What a task told of a cluster is so.
ToldTruly ==
    \A r \in Requests : \A n \in DOMAIN told[r] :
        /\ told[r][n] \in {"issue", "comment"} => SomePlace(r, n)
        /\ told[r][n] = "no_url" => ~SomePlace(r, n)
        /\ told[r][n] = "error" /\ SomePlace(r, n) => faults > 0

\* Where the clusters are.
Filed == HeldInTime /\ OnePlace /\ StoresItsOwn /\ ToldTruly

\* Issue i was opened for topic t.
IssueOf(t, i) == i \in DOMAIN issues /\ issues[i].topic = t

\* Who reads the tickets of topic t is the only one to decide about it.
Alone(t) ==
    \A r, s \in Requests : Deciding(r) /\ Deciding(s) /\ Topic(r) = t /\ Topic(s) = t => r = s

\* An issue of topic t has its ticket, or is about to get it.
Remembered(t) ==
    (\E i \in DOMAIN issues : IssueOf(t, i)) => Stored(t) \/ \E r \in Requests : At(r, "store") /\ Topic(r) = t

\* Who decides about topic t knows of its issue, if there is one.
ReadRightly(t) ==
    \A r \in Requests : Deciding(r) /\ Topic(r) = t /\ ~At(r, "store") =>
        \/ ~\E i \in DOMAIN issues : IssueOf(t, i)
        \/ At(r, "match") /\ Shows(task[r].rows, t)

\* Topic t has one issue at most.
Single(t) == \A i, j \in DOMAIN issues : IssueOf(t, i) /\ IssueOf(t, j) => i = j

\* What keeps the issue of a topic the only one.
Settled(t) == Alone(t) /\ Remembered(t) /\ ReadRightly(t) /\ Single(t)

\* The inductive invariant.
IInv == Typed /\ AtACluster /\ Filed /\ \A t \in Topics \ excused : Settled(t)

IssueRecords == [topic : Topics, holds : SUBSET Clusters]

\* A message has at least one cluster, and each is of some topic.
LEMMA MessageIs ==
    ASSUME NEW m \in Messages \cup {<<>>}
    PROVE  /\ m \in Seq(Topics) /\ Len(m) \in Nat /\ Len(m) <= MaxClusters /\ DOMAIN m = 1 .. Len(m)
           /\ m \in Messages => Len(m) >= 1
<1>0. MaxClusters \in Nat
  BY BoundAssumption
<1>1. CASE m = <<>>
  <2>1. m \notin Messages
    <3>1. ASSUME NEW n \in 1 .. MaxClusters, m \in [1 .. n -> Topics] PROVE FALSE
      BY <1>0, <1>1, <3>1
    <3> QED
      BY <3>1 DEF Messages
  <2> QED
    BY <1>0, <1>1, <2>1
<1>2. ASSUME NEW n \in 1 .. MaxClusters, m \in [1 .. n -> Topics] PROVE m \in Seq(Topics) /\ Len(m) = n
  BY <1>0, <1>2, SeqDef, LenProperties
<1> QED
  BY <1>0, <1>1, <1>2 DEF Messages

\* Where r is, what it is about, and the numbers around it.
LEMMA AtWork ==
    ASSUME Typed, AtACluster, NEW r \in Requests, task[r].pc \in Steps
    PROVE  /\ task[r] \in Tasks /\ told[r] \in Seq(Results)
           /\ task[r].clusters \in Seq(Topics) /\ Len(task[r].clusters) \in Nat
           /\ DOMAIN task[r].clusters = 1 .. Len(task[r].clusters)
           /\ Len(told[r]) \in Nat /\ DOMAIN told[r] = 1 .. Len(told[r]) /\ Now(r) = Len(told[r]) + 1
           /\ Now(r) \in Nat /\ Now(r) > Len(told[r]) /\ Now(r) \in 1 .. MaxClusters /\ Now(r) <= Len(task[r].clusters)
           /\ Topic(r) \in Topics /\ Category[Topic(r)] \in Categories
           /\ <<r, Now(r)>> \in Clusters
           /\ Len(issues) \in Nat /\ DOMAIN issues = 1 .. Len(issues)
<1>1. task[r] \in Tasks /\ task[r].clusters \in Messages \cup {<<>>}
  BY DEF Typed, Tasks
<1>2. /\ task[r].clusters \in Seq(Topics) /\ Len(task[r].clusters) \in Nat
      /\ Len(task[r].clusters) <= MaxClusters /\ DOMAIN task[r].clusters = 1 .. Len(task[r].clusters)
  BY <1>1, MessageIs
<1>3. told[r] \in Seq(Results) /\ issues \in Seq([topic : Topics, holds : SUBSET Clusters])
  BY DEF Typed
<1>4. /\ Len(told[r]) \in Nat /\ DOMAIN told[r] = 1 .. Len(told[r])
      /\ Len(issues) \in Nat /\ DOMAIN issues = 1 .. Len(issues)
  BY <1>3
<1>5. Now(r) = Len(told[r]) + 1 /\ Now(r) \in 1 .. Len(task[r].clusters)
  BY <1>2 DEF AtACluster, Now
<1>6. Now(r) \in 1 .. MaxClusters
  BY <1>2, <1>4, <1>5, BoundAssumption
<1>7. Topic(r) \in Topics
  BY <1>2, <1>5 DEF Topic
<1> QED
  BY <1>1, <1>2, <1>3, <1>4, <1>5, <1>6, <1>7 DEF Clusters, Categories

\* Nothing of an issue is undone.
LEMMA MoreIssues ==
    ASSUME NEW a \in Nat, NEW b \in Nat, a <= b
    PROVE  /\ 1 .. a \subseteq 1 .. b /\ 0 .. a + 1 \subseteq 0 .. b + 1
           /\ [topic : Topics, issue : 1 .. a] \subseteq [topic : Topics, issue : 1 .. b]
           /\ Seq([topic : Topics, issue : 1 .. a]) \subseteq Seq([topic : Topics, issue : 1 .. b])
<1>1. 1 .. a \subseteq 1 .. b /\ 0 .. a + 1 \subseteq 0 .. b + 1
  OBVIOUS
<1>2. [topic : Topics, issue : 1 .. a] \subseteq [topic : Topics, issue : 1 .. b]
  BY <1>1
<1>3. ASSUME NEW A, NEW B, A \subseteq B PROVE Seq(A) \subseteq Seq(B)
  BY <1>3, SeqDef
<1> QED
  BY <1>1, <1>2, <1>3

\* Linear has the issues it had, and cluster number Now(r) of r is in one more place.
Adds(r, i) ==
    /\ issues' \in Seq(IssueRecords) /\ Len(issues') >= Len(issues) /\ i \in 1 .. Len(issues')
    /\ \A j \in 1 .. Len(issues) : issues'[j].topic = issues[j].topic
    /\ \A j \in Nat, s \in Requests, n \in Nat :
          Holds(j, s, n)' <=> Holds(j, s, n) \/ (j = i /\ s = r /\ n = Now(r))

\* A comment puts the cluster into the issue that is taken for a duplicate.
LEMMA Comments ==
    ASSUME Typed, AtACluster, NEW r \in Requests, task[r].pc \in Steps,
           task[r].duplicate \in DOMAIN issues, Commented(r)
    PROVE  Adds(r, task[r].duplicate) /\ Len(issues') = Len(issues)
<1> DEFINE d == task[r].duplicate
           x == <<r, Now(r)>>
<1>1. /\ x \in Clusters /\ Len(issues) \in Nat /\ DOMAIN issues = 1 .. Len(issues)
      /\ issues \in Seq(IssueRecords) /\ d \in 1 .. Len(issues)
  BY AtWork DEF Typed, IssueRecords
<1>2. \A s, n : <<s, n>> = x <=> s = r /\ n = Now(r)
  OBVIOUS
<1>3. issues' = [issues EXCEPT ![d].holds = issues[d].holds \cup {x}]
  BY DEF Commented
<1> HIDE DEF d, x
<1>4. issues[d] \in IssueRecords
  BY <1>1
<1> DEFINE more == [issues[d] EXCEPT !.holds = issues[d].holds \cup {x}]
<1>5. more \in IssueRecords /\ more.topic = issues[d].topic /\ more.holds = issues[d].holds \cup {x}
  BY <1>1, <1>4 DEF IssueRecords
<1>6. issues' = [issues EXCEPT ![d] = more]
  BY <1>3
<1> HIDE DEF more
<1>7. /\ issues' \in Seq(IssueRecords) /\ Len(issues') = Len(issues) /\ DOMAIN issues' = 1 .. Len(issues)
      /\ issues'[d] = more /\ \A j \in 1 .. Len(issues) : j # d => issues'[j] = issues[j]
  BY <1>1, <1>5, <1>6
<1>8. \A j \in Nat, s \in Requests, n \in Nat :
          Holds(j, s, n)' <=> Holds(j, s, n) \/ (j = d /\ s = r /\ n = Now(r))
  <2> SUFFICES ASSUME NEW j \in Nat, NEW s \in Requests, NEW n \in Nat
               PROVE  Holds(j, s, n)' <=> Holds(j, s, n) \/ (j = d /\ s = r /\ n = Now(r))
    OBVIOUS
  <2>1. CASE j = d
    <3>1. issues'[j].holds = issues[j].holds \cup {x}
      BY <1>5, <1>7, <2>1
    <3>2. <<s, n>> \in issues'[j].holds <=> <<s, n>> \in issues[j].holds \/ (s = r /\ n = Now(r))
      BY <1>2, <3>1
    <3>3. j \in DOMAIN issues /\ j \in DOMAIN issues'
      BY <1>1, <1>7, <2>1
    <3> QED
      BY <2>1, <3>2, <3>3 DEF Holds
  <2>2. CASE j # d
    BY <1>1, <1>7, <2>2 DEF Holds
  <2> QED
    BY <2>1, <2>2
<1> QED
  BY <1>1, <1>5, <1>7, <1>8 DEF Adds, d

\* A new issue has the cluster.
LEMMA Opens ==
    ASSUME Typed, AtACluster, NEW r \in Requests, task[r].pc \in Steps, Opened(r)
    PROVE  /\ Adds(r, Len(issues) + 1) /\ Len(issues') = Len(issues) + 1
           /\ issues'[Len(issues) + 1].topic = Topic(r)
<1> DEFINE x == <<r, Now(r)>>
           new == [topic |-> Topic(r), holds |-> {x}]
<1>1. /\ x \in Clusters /\ Len(issues) \in Nat /\ DOMAIN issues = 1 .. Len(issues)
      /\ issues \in Seq(IssueRecords) /\ Topic(r) \in Topics
  BY AtWork DEF Typed, IssueRecords
<1>2. \A s, n : <<s, n>> = x <=> s = r /\ n = Now(r)
  OBVIOUS
<1>3. issues' = Append(issues, new)
  BY DEF Opened
<1> HIDE DEF x
<1>4. new \in IssueRecords /\ new.topic = Topic(r) /\ new.holds = {x}
  BY <1>1 DEF IssueRecords
<1> HIDE DEF new
<1>5. /\ issues' \in Seq(IssueRecords) /\ Len(issues') = Len(issues) + 1
      /\ DOMAIN issues' = 1 .. (Len(issues) + 1)
      /\ issues'[Len(issues) + 1] = new /\ \A j \in 1 .. Len(issues) : issues'[j] = issues[j]
  BY <1>1, <1>3, <1>4
<1>6. \A j \in Nat, s \in Requests, n \in Nat :
          Holds(j, s, n)' <=> Holds(j, s, n) \/ (j = Len(issues) + 1 /\ s = r /\ n = Now(r))
  <2> SUFFICES ASSUME NEW j \in Nat, NEW s \in Requests, NEW n \in Nat
               PROVE  Holds(j, s, n)' <=> Holds(j, s, n) \/ (j = Len(issues) + 1 /\ s = r /\ n = Now(r))
    OBVIOUS
  <2>1. CASE j \in 1 .. Len(issues)
    <3>1. j # Len(issues) + 1 /\ j \in DOMAIN issues /\ j \in DOMAIN issues' /\ issues'[j] = issues[j]
      BY <1>1, <1>5, <2>1
    <3> QED
      BY <3>1 DEF Holds
  <2>2. CASE j = Len(issues) + 1
    <3>1. j \notin DOMAIN issues /\ j \in DOMAIN issues' /\ issues'[j].holds = {x}
      BY <1>1, <1>4, <1>5, <2>2
    <3> QED
      BY <1>2, <2>2, <3>1 DEF Holds
  <2>3. CASE j \notin 1 .. (Len(issues) + 1)
    <3>1. j \notin DOMAIN issues /\ j \notin DOMAIN issues' /\ j # Len(issues) + 1
      BY <1>1, <1>5, <2>3
    <3> QED
      BY <3>1 DEF Holds
  <2> QED
    BY <1>1, <2>1, <2>2, <2>3
<1>7. /\ Len(issues') >= Len(issues) /\ Len(issues) + 1 \in 1 .. Len(issues')
      /\ issues'[Len(issues) + 1].topic = Topic(r)
  BY <1>1, <1>4, <1>5
<1>8. \A j \in 1 .. Len(issues) : issues'[j].topic = issues[j].topic
  BY <1>5
<1> QED
  BY <1>5, <1>6, <1>7, <1>8 DEF Adds

(***************************************************************************)
(* Types.                                                                  *)
(***************************************************************************)
Others(r) == \A s \in Requests \ {r} : task'[s] = task[s] /\ told'[s] = told[s]

Grown == Len(issues') \in Nat /\ Len(issues) \in Nat /\ Len(issues) <= Len(issues')

\* As there are more issues, what a task holds remains right.
LEMMA TasksGrow == ASSUME Grown PROVE Tasks \subseteq Tasks'
<1>1. /\ Tickets \subseteq Tickets'
      /\ 0 .. Len(issues) + 1 \subseteq 0 .. Len(issues') + 1
  BY MoreIssues DEF Grown, Tickets
<1>2. Tasks' = [pc : Pcs, clusters : Messages \cup {<<>>}, rows : SUBSET Tickets', duplicate : 0 .. Len(issues') + 1]
  BY DEF Tasks, Messages, Pcs, Steps
<1> HIDE DEF Tickets, Messages, Pcs
<1> QED
  BY <1>1, <1>2 DEF Tasks

\* Task r goes on to x with the cluster it is at, or to its clusters.
LEMMA Going ==
    ASSUME Typed, AtACluster, Grown, NEW r \in Requests, NEW x \in Tasks',
           task' = [task EXCEPT ![r] = x], told' = told,
           x.pc \in {"off", "clustering"} => told[r] = <<>>,
           x.pc \in Steps => Now(r) \in DOMAIN x.clusters
    PROVE  /\ task' \in [Requests -> Tasks'] /\ AtACluster' /\ Others(r) /\ task'[r] = x
<1>1. task \in [Requests -> Tasks] /\ Tasks \subseteq Tasks'
  BY TasksGrow DEF Typed
<1> HIDE DEF Tasks
<1>2. task' \in [Requests -> Tasks'] /\ task'[r] = x /\ \A s \in Requests \ {r} : task'[s] = task[s]
  BY <1>1
<1>3. AtACluster'
  BY <1>2 DEF AtACluster, Now
<1> QED
  BY <1>2, <1>3 DEF Others

\* Task r is done with a cluster.
LEMMA Ending ==
    ASSUME Typed, AtACluster, Grown, NEW r \in Requests, task[r].pc \in Steps, NEW what \in Results, Result(r, what)
    PROVE  /\ task' \in [Requests -> Tasks'] /\ told' \in [Requests -> Seq(Results)] /\ AtACluster' /\ Others(r)
           /\ task'[r].pc \in {"query", "done"} /\ task'[r].clusters = task[r].clusters
           /\ DOMAIN told'[r] = 1 .. Len(told'[r])
           /\ Len(told'[r]) = Len(told[r]) + 1 /\ told'[r][Now(r)] = what
           /\ \A n \in 1 .. Len(told[r]) : told'[r][n] = told[r][n]
<1>1. task \in [Requests -> Tasks] /\ Tasks \subseteq Tasks' /\ told \in [Requests -> Seq(Results)]
  BY TasksGrow DEF Typed
<1>2. /\ told[r] \in Seq(Results) /\ Len(told[r]) \in Nat /\ Now(r) = Len(told[r]) + 1
      /\ Now(r) <= Len(task[r].clusters) /\ Len(task[r].clusters) \in Nat
      /\ DOMAIN task[r].clusters = 1 .. Len(task[r].clusters) /\ task[r] \in Tasks
  BY AtWork
<1> DEFINE pc == IF Now(r) = Len(task[r].clusters) THEN "done" ELSE "query"
           x == [task[r] EXCEPT !.pc = pc, !.rows = {}, !.duplicate = 0]
<1>3. /\ told' = [told EXCEPT ![r] = Append(told[r], what)]
      /\ task' = [task EXCEPT ![r] = x]
  BY DEF Result
<1>4. pc \in {"query", "done"} /\ (pc = "query" => Now(r) + 1 \in DOMAIN task[r].clusters)
  BY <1>2
<1> HIDE DEF pc
<1>5. x \in Tasks /\ x.pc = pc /\ x.clusters = task[r].clusters
  <2>1. {} \in SUBSET Tickets /\ 0 \in 0 .. Len(issues) + 1
    BY DEF Grown
  <2>2. pc \in Pcs
    BY <1>4 DEF Pcs, Steps
  <2> HIDE DEF Tickets, Messages, Pcs
  <2> QED
    BY <1>2, <2>1, <2>2 DEF Tasks
<1> HIDE DEF x, Tasks
<1>6. task' \in [Requests -> Tasks'] /\ task'[r] = x /\ \A s \in Requests \ {r} : task'[s] = task[s]
  BY <1>1, <1>3, <1>5
<1>7. /\ told' \in [Requests -> Seq(Results)] /\ told'[r] = Append(told[r], what)
      /\ \A s \in Requests \ {r} : told'[s] = told[s]
  BY <1>1, <1>2, <1>3
<1>8. /\ DOMAIN told'[r] = 1 .. Len(told'[r])
      /\ Len(told'[r]) = Len(told[r]) + 1 /\ told'[r][Now(r)] = what
      /\ \A n \in 1 .. Len(told[r]) : told'[r][n] = told[r][n]
  BY <1>2, <1>7
<1>9. AtACluster'
  <2>1. ASSUME NEW s \in Requests
        PROVE  /\ task'[s].pc \in {"off", "clustering"} => told'[s] = <<>>
               /\ task'[s].pc \in Steps => Len(told'[s]) + 1 \in DOMAIN task'[s].clusters
    <3>1. CASE s = r
      BY <1>2, <1>4, <1>5, <1>6, <1>8, <3>1 DEF Steps
    <3>2. CASE s # r
      BY <1>6, <1>7, <3>2 DEF AtACluster, Now
    <3> QED
      BY <3>1, <3>2
  <2> QED
    BY <2>1 DEF AtACluster, Now
<1> QED
  BY <1>4, <1>5, <1>6, <1>7, <1>8, <1>9 DEF Others

\* Faults are counted up to their bound.
LEMMA Faulted ==
    ASSUME Typed, UNCHANGED faults \/ Fault
    PROVE  faults' \in 0 .. MaxFaults /\ faults \in Nat /\ faults' \in Nat /\ faults' >= faults /\ (Fault => faults' > 0)
BY BoundAssumption DEF Typed, Fault

\* The three ways to leave the issues: as they are, with a comment, or with one more.
LEMMA IssuesGrow ==
    ASSUME Typed, AtACluster, NEW r \in Requests, Step(r)
    PROVE  /\ Grown
           /\ \/ issues' = issues
              \/ At(r, "comment") /\ task[r].duplicate \in DOMAIN issues /\ Commented(r)
              \/ At(r, "create") /\ Opened(r)
<1>1. \/ issues' = issues
      \/ At(r, "comment") /\ task[r].duplicate \in DOMAIN issues /\ Commented(r)
      \/ At(r, "create") /\ Opened(r)
  <2>1. CASE Accept(r) \/ Clustered(r) \/ NotClustered(r) \/ Query(r) \/ QueryFails(r) \/ Match(r) \/ Mismatch(r)
    BY <2>1 DEF Accept, Clustered, NotClustered, Query, QueryFails, Match, Mismatch
  <2>2. CASE FindLabel(r) \/ NewLabel(r) \/ LabelFails(r) \/ Store(r) \/ StoreFails(r)
    BY <2>2 DEF FindLabel, NewLabel, LabelFails, Store, StoreFails
  <2>3. CASE Comment(r) \/ CommentFails(r) \/ Create(r) \/ CreateFails(r)
    BY <2>3 DEF Comment, CommentFails, Create, CreateFails
  <2> QED
    BY <2>1, <2>2, <2>3 DEF Step
<1>2. issues \in Seq(IssueRecords) /\ Len(issues) \in Nat
  BY DEF Typed, IssueRecords
<1>3. CASE At(r, "comment") /\ task[r].duplicate \in DOMAIN issues /\ Commented(r)
  BY <1>2, <1>3, Comments DEF At, Steps, Grown
<1>4. CASE At(r, "create") /\ Opened(r)
  BY <1>2, <1>4, Opens DEF At, Steps, Grown
<1> QED
  BY <1>1, <1>2, <1>3, <1>4 DEF Grown

\* The other tables.
LEMMA TablesTyped ==
    ASSUME Typed, AtACluster, StoresItsOwn, NEW r \in Requests, Step(r)
    PROVE  /\ labels' \in [Categories -> Seq({"Bug", "bug"})]
           /\ issues' \in Seq([topic : Topics, holds : SUBSET Clusters])
           /\ tickets' \in Seq(Tickets')
           /\ UNCHANGED faults \/ Fault
           /\ excused \subseteq excused' /\ excused' \subseteq Topics
<1>1. /\ Grown /\ issues \in Seq(IssueRecords)
      /\ \/ issues' = issues
         \/ At(r, "comment") /\ task[r].duplicate \in DOMAIN issues /\ Commented(r)
         \/ At(r, "create") /\ Opened(r)
  BY IssuesGrow DEF Typed, IssueRecords
<1>2. issues' \in Seq(IssueRecords)
  BY <1>1, Comments, Opens DEF At, Steps, Adds
<1>3. /\ labels \in [Categories -> Seq({"Bug", "bug"})] /\ tickets \in Seq(Tickets) /\ excused \subseteq Topics
      /\ task[r].pc \in Steps => Topic(r) \in Topics /\ Category[Topic(r)] \in Categories
  BY AtWork DEF Typed
<1>4. labels' \in [Categories -> Seq({"Bug", "bug"})]
  <2>1. \/ labels' = labels
        \/ At(r, "newlabel") /\ labels' = [labels EXCEPT ![Category[Topic(r)]] = Append(@, "Bug")]
    <3>1. CASE Accept(r) \/ Clustered(r) \/ NotClustered(r) \/ Query(r) \/ QueryFails(r) \/ Match(r) \/ Mismatch(r)
      BY <3>1 DEF Accept, Clustered, NotClustered, Query, QueryFails, Match, Mismatch
    <3>2. CASE FindLabel(r) \/ NewLabel(r) \/ LabelFails(r) \/ Store(r) \/ StoreFails(r)
      BY <3>2 DEF FindLabel, NewLabel, LabelFails, Store, StoreFails
    <3>3. CASE Comment(r) \/ CommentFails(r) \/ Create(r) \/ CreateFails(r)
      BY <3>3 DEF Comment, CommentFails, Create, CreateFails
    <3> QED
      BY <3>1, <3>2, <3>3 DEF Step
  <2>2. CASE At(r, "newlabel") /\ labels' = [labels EXCEPT ![Category[Topic(r)]] = Append(@, "Bug")]
    <3>1. Category[Topic(r)] \in Categories
      BY <1>3, <2>2 DEF At, Steps
    <3> DEFINE c == Category[Topic(r)]
    <3>2. Append(labels[c], "Bug") \in Seq({"Bug", "bug"})
      BY <1>3, <3>1
    <3>3. labels' = [labels EXCEPT ![c] = Append(labels[c], "Bug")]
      BY <2>2
    <3> HIDE DEF c
    <3> QED
      BY <1>3, <3>2, <3>3
  <2> QED
    BY <1>3, <2>1, <2>2
<1>5. tickets' \in Seq(Tickets')
  <2>1. Tickets' = [topic : Topics, issue : 1 .. Len(issues')] /\ Seq(Tickets) \subseteq Seq(Tickets')
    BY <1>1, MoreIssues DEF Tickets, Grown
  <2>2. CASE Store(r)
    <3>1. issues' = issues /\ task[r].pc = "store"
      BY <2>2 DEF Store, At
    <3>2. task[r].duplicate \in 1 .. Len(issues)
      <4>1. DOMAIN issues = 1 .. Len(issues)
        BY <3>1, AtWork DEF Steps
      <4> QED
        BY <3>1, <4>1 DEF StoresItsOwn, Holds
    <3>3. [topic |-> Topic(r), issue |-> task[r].duplicate] \in Tickets
      BY <1>3, <3>1, <3>2 DEF Tickets, Steps
    <3> DEFINE ticket == [topic |-> Topic(r), issue |-> task[r].duplicate]
    <3>4. tickets' = Append(tickets, ticket)
      BY <2>2 DEF Store
    <3> HIDE DEF ticket, Tickets
    <3>5. Append(tickets, ticket) \in Seq(Tickets)
      BY <1>3, <3>3 DEF ticket
    <3> QED
      BY <2>1, <3>4, <3>5
  <2>3. CASE tickets' = tickets
    BY <1>3, <2>1, <2>3
  <2>4. tickets' = tickets \/ Store(r)
    <3>1. CASE Accept(r) \/ Clustered(r) \/ NotClustered(r) \/ Query(r) \/ QueryFails(r) \/ Match(r) \/ Mismatch(r)
      BY <3>1 DEF Accept, Clustered, NotClustered, Query, QueryFails, Match, Mismatch
    <3>2. CASE FindLabel(r) \/ NewLabel(r) \/ LabelFails(r) \/ StoreFails(r)
      BY <3>2 DEF FindLabel, NewLabel, LabelFails, StoreFails
    <3>3. CASE Comment(r) \/ CommentFails(r) \/ Create(r) \/ CreateFails(r)
      BY <3>3 DEF Comment, CommentFails, Create, CreateFails
    <3> QED
      BY <3>1, <3>2, <3>3 DEF Step
  <2> QED
    BY <2>2, <2>3, <2>4
<1>6. UNCHANGED faults \/ Fault
  <2>1. CASE Accept(r) \/ Clustered(r) \/ NotClustered(r) \/ Query(r) \/ QueryFails(r) \/ Match(r) \/ Mismatch(r)
    BY <2>1 DEF Accept, Clustered, NotClustered, Query, QueryFails, Match, Mismatch
  <2>2. CASE FindLabel(r) \/ NewLabel(r) \/ LabelFails(r) \/ Store(r) \/ StoreFails(r)
    BY <2>2 DEF FindLabel, NewLabel, LabelFails, Store, StoreFails
  <2>3. CASE Comment(r) \/ CommentFails(r) \/ Create(r) \/ CreateFails(r)
    BY <2>3 DEF Comment, CommentFails, Create, CreateFails
  <2> QED
    BY <2>1, <2>2, <2>3 DEF Step
<1>7. excused' = excused \/ (task[r].pc \in Steps /\ excused' = excused \cup {Topic(r)})
  <2>1. CASE Accept(r) \/ Clustered(r) \/ NotClustered(r) \/ QueryFails(r) \/ Match(r)
    BY <2>1 DEF Accept, Clustered, NotClustered, QueryFails, Match
  <2>2. CASE Query(r) \/ Mismatch(r) \/ StoreFails(r) \/ CreateFails(r)
    BY <2>2 DEF Query, Mismatch, StoreFails, CreateFails, At, Steps
  <2>3. CASE FindLabel(r) \/ NewLabel(r) \/ LabelFails(r) \/ Store(r)
    BY <2>3 DEF FindLabel, NewLabel, LabelFails, Store
  <2>4. CASE Comment(r) \/ CommentFails(r) \/ Create(r)
    BY <2>4 DEF Comment, CommentFails, Create
  <2> QED
    BY <2>1, <2>2, <2>3, <2>4 DEF Step
<1> QED
  BY <1>2, <1>3, <1>4, <1>5, <1>6, <1>7 DEF IssueRecords

\* What is only a change of place.
LEMMA ChangesPlace ==
    ASSUME Typed, AtACluster, Grown, NEW r \in Requests, NEW pc \in Pcs, Goes(r, pc), told' = told,
           pc \in {"off", "clustering"} => told[r] = <<>>,
           pc \in Steps => task[r].pc \in Steps
    PROVE  /\ task' \in [Requests -> Tasks'] /\ AtACluster' /\ Others(r)
           /\ task'[r] = [task[r] EXCEPT !.pc = pc]
<1> DEFINE x == [task[r] EXCEPT !.pc = pc]
<1>1. task[r] \in Tasks /\ Tasks \subseteq Tasks' /\ task' = [task EXCEPT ![r] = x]
  BY TasksGrow DEF Typed, Goes
<1>2. x \in Tasks /\ x.pc = pc /\ x.clusters = task[r].clusters
  <2> HIDE DEF Messages, Tickets, Pcs
  <2> QED
    BY <1>1 DEF Tasks
<1>3. x \in Tasks'
  BY <1>1, <1>2
<1>4. pc \in Steps => Now(r) \in DOMAIN task[r].clusters
  BY DEF AtACluster
<1> HIDE DEF x, Tasks
<1>5. /\ x.pc \in {"off", "clustering"} => told[r] = <<>>
      /\ x.pc \in Steps => Now(r) \in DOMAIN x.clusters
  BY <1>2, <1>4
<1>6. task' \in [Requests -> Tasks'] /\ AtACluster' /\ Others(r) /\ task'[r] = x
  BY <1>1, <1>3, <1>5, Going
<1> QED
  BY <1>6 DEF x

\* The rows of a query are tickets.
LEMMA NewestTyped == ASSUME Typed, NEW c PROVE Newest(c) \subseteq Tickets
<1>1. \A n \in DOMAIN tickets : tickets[n] \in Tickets
  <2> HIDE DEF Tickets
  <2> QED
    BY DEF Typed
<1> QED
  BY <1>1 DEF Newest, OfCategory

\* Where a step takes task r, and what it tells.
LEMMA StepTyped ==
    ASSUME Typed, AtACluster, StoresItsOwn, NEW r \in Requests, Step(r)
    PROVE  task' \in [Requests -> Tasks'] /\ told' \in [Requests -> Seq(Results)] /\ AtACluster' /\ Others(r)
<1>1. Grown /\ Len(issues) \in Nat /\ told \in [Requests -> Seq(Results)] /\ task[r] \in Tasks
  BY IssuesGrow DEF Typed, Grown
<1>2. ASSUME NEW what \in Results, task[r].pc \in Steps, Result(r, what)
      PROVE  task' \in [Requests -> Tasks'] /\ told' \in [Requests -> Seq(Results)] /\ AtACluster' /\ Others(r)
  <2> HIDE DEF Tasks
  <2> QED
    BY <1>1, <1>2, Ending
<1>3. ASSUME NEW pc \in Pcs, Goes(r, pc), told' = told,
             pc \in {"off", "clustering"} => told[r] = <<>>,
             pc \in Steps => task[r].pc \in Steps
      PROVE  task' \in [Requests -> Tasks'] /\ told' \in [Requests -> Seq(Results)] /\ AtACluster' /\ Others(r)
  <2> HIDE DEF Tasks
  <2> QED
    BY <1>1, <1>3, ChangesPlace
<1>4. ASSUME NEW x \in Tasks', task' = [task EXCEPT ![r] = x], told' = told,
             x.pc \in Pcs \ {"off", "clustering"},
             Now(r) \in DOMAIN x.clusters
      PROVE  task' \in [Requests -> Tasks'] /\ told' \in [Requests -> Seq(Results)] /\ AtACluster' /\ Others(r)
  <2> HIDE DEF Tasks
  <2> QED
    BY <1>1, <1>4, Going
<1>5. Tasks \subseteq Tasks'
  BY <1>1, TasksGrow
<1>6. CASE Accept(r) \/ NotClustered(r)
  <2>1. CASE Accept(r)
    <3>1. told[r] = <<>> /\ told' = told /\ Goes(r, "clustering") /\ "clustering" \in Pcs /\ "clustering" \notin Steps
      BY <2>1 DEF Accept, AtACluster, At, Pcs, Steps
    <3> HIDE DEF Pcs, Steps
    <3> QED
      BY <1>3, <3>1
  <2>2. CASE NotClustered(r)
    <3>1. told' = told /\ Goes(r, "done") /\ "done" \in Pcs /\ "done" \notin Steps
      BY <2>2 DEF NotClustered, Pcs, Steps
    <3> HIDE DEF Pcs, Steps
    <3> QED
      BY <1>3, <3>1
  <2> QED
    BY <1>6, <2>1, <2>2
<1>7. CASE Clustered(r)
  <2>1. PICK m \in Messages : task' = [task EXCEPT ![r].pc = "query", ![r].clusters = m]
    BY <1>7 DEF Clustered
  <2> DEFINE x == [task[r] EXCEPT !.pc = "query", !.clusters = m]
  <2>2. task' = [task EXCEPT ![r] = x] /\ told' = told
    BY <1>7, <2>1 DEF Clustered, Typed
  <2>3. x \in Tasks /\ x.pc = "query" /\ x.clusters = m
    <3>1. "query" \in Pcs
      BY DEF Pcs, Steps
    <3> HIDE DEF Messages, Tickets, Pcs
    <3> QED
      BY <1>1, <3>1 DEF Tasks
  <2>4. Now(r) \in DOMAIN m
    <3>1. told[r] = <<>>
      BY <1>7 DEF Clustered, AtACluster, At
    <3>2. DOMAIN m = 1 .. Len(m) /\ Len(m) \in Nat /\ Len(m) >= 1
      BY MessageIs
    <3> QED
      BY <3>1, <3>2 DEF Now
  <2>5. x.pc \in Pcs \ {"off", "clustering"}
    BY <2>3 DEF Pcs, Steps
  <2> HIDE DEF x, Tasks
  <2> QED
    BY <1>4, <1>5, <2>2, <2>3, <2>4, <2>5
<1>8. CASE Query(r)
  <2> DEFINE rows == Newest(Category[Topic(r)])
             pc == IF rows = {} THEN "label" ELSE "match"
             x == [task[r] EXCEPT !.rows = rows, !.pc = pc]
  <2>1. task[r].pc = "query" /\ task' = [task EXCEPT ![r].rows = rows, ![r].pc = pc] /\ told' = told
    BY <1>8 DEF Query, At
  <2>2. rows \in SUBSET Tickets /\ pc \in {"label", "match"}
    BY NewestTyped
  <2> HIDE DEF rows, pc
  <2>3. task' = [task EXCEPT ![r] = x]
    BY <2>1 DEF Typed
  <2>4. x \in Tasks /\ x.pc = pc /\ x.clusters = task[r].clusters
    <3>1. pc \in Pcs
      BY <2>2 DEF Pcs, Steps
    <3> HIDE DEF Messages, Tickets, Pcs
    <3> QED
      BY <1>1, <2>2, <3>1 DEF Tasks
  <2>5. x.pc \in Pcs \ {"off", "clustering"} /\ Now(r) \in DOMAIN task[r].clusters
    BY <2>1, <2>2, <2>4 DEF Pcs, Steps, AtACluster
  <2> HIDE DEF x, Tasks
  <2> QED
    BY <1>4, <1>5, <2>1, <2>3, <2>4, <2>5
<1>9. ASSUME NEW i \in 0 .. Len(issues') + 1, NEW pc \in {"comment", "store"}, task[r].pc \in Steps,
             task' = [task EXCEPT ![r].pc = pc, ![r].duplicate = i], told' = told
      PROVE  task' \in [Requests -> Tasks'] /\ told' \in [Requests -> Seq(Results)] /\ AtACluster' /\ Others(r)
  <2> DEFINE x == [task[r] EXCEPT !.pc = pc, !.duplicate = i]
  <2>1. task' = [task EXCEPT ![r] = x]
    BY <1>9 DEF Typed
  <2>2. task[r] \in Tasks'
    BY <1>1, <1>5
  <2>3. x \in Tasks' /\ x.pc = pc /\ x.clusters = task[r].clusters
    <3>1. pc \in Pcs
      BY DEF Pcs, Steps
    <3>2. Tasks' = [pc : Pcs, clusters : Messages \cup {<<>>}, rows : SUBSET Tickets', duplicate : 0 .. Len(issues') + 1]
      BY DEF Tasks, Pcs, Messages, Steps
    <3> HIDE DEF Messages, Tickets, Pcs, Tasks
    <3> QED
      BY <1>9, <2>2, <3>1, <3>2
  <2>4. x.pc \in Pcs \ {"off", "clustering"} /\ Now(r) \in DOMAIN task[r].clusters
    BY <1>9, <2>3 DEF Pcs, Steps, AtACluster
  <2> HIDE DEF x, Tasks
  <2> QED
    BY <1>4, <1>9, <2>1, <2>3, <2>4
<1>10. CASE Match(r) \/ Mismatch(r)
  <2>1. /\ task[r].pc = "match" /\ issues' = issues /\ told' = told /\ task[r].pc \in Steps
        /\ \/ Goes(r, "label")
           \/ \E i \in {row.issue : row \in task[r].rows} \cup {Len(issues) + 1} :
                 task' = [task EXCEPT ![r].pc = "comment", ![r].duplicate = i]
    BY <1>10 DEF Match, Mismatch, At, Steps
  <2>2. CASE Goes(r, "label")
    <3>1. "label" \in Pcs \ {"off", "clustering"}
      BY DEF Pcs, Steps
    <3> QED
      BY <1>3, <2>1, <2>2, <3>1
  <2>3. ASSUME NEW i \in {row.issue : row \in task[r].rows} \cup {Len(issues) + 1},
               task' = [task EXCEPT ![r].pc = "comment", ![r].duplicate = i]
        PROVE  task' \in [Requests -> Tasks'] /\ told' \in [Requests -> Seq(Results)] /\ AtACluster' /\ Others(r)
    <3>1. task[r].rows \subseteq Tickets
      BY <1>1 DEF Tasks
    <3>2. i \in 0 .. Len(issues') + 1
      BY <1>1, <2>1, <3>1 DEF Tickets
    <3> QED
      BY <1>9, <2>1, <2>3, <3>2
  <2> QED
    BY <2>1, <2>2, <2>3
<1>11. CASE FindLabel(r) \/ NewLabel(r)
  <2>1. /\ told' = told /\ task[r].pc \in Steps
        /\ Goes(r, "create") \/ Goes(r, "newlabel")
        /\ {"create", "newlabel"} \subseteq Pcs \ {"off", "clustering"}
    BY <1>11 DEF FindLabel, NewLabel, At, Steps, Pcs
  <2> QED
    BY <1>3, <2>1
<1>12. CASE Create(r)
  <2>1. /\ told' = told /\ task[r].pc \in Steps /\ Opened(r)
        /\ task' = [task EXCEPT ![r].pc = "store", ![r].duplicate = Len(issues')]
    BY <1>12 DEF Create, At, Steps
  <2>2. Len(issues') \in 0 .. Len(issues') + 1
    BY <1>1 DEF Grown
  <2> QED
    BY <1>9, <2>1, <2>2
<1>13. CASE QueryFails(r) \/ Comment(r) \/ CommentFails(r) \/ LabelFails(r) \/ CreateFails(r) \/ Store(r) \/ StoreFails(r)
  <2>1. task[r].pc \in Steps /\ \E what \in Results : Result(r, what)
    <3>1. CASE QueryFails(r) \/ Comment(r) \/ CommentFails(r)
      BY <3>1 DEF QueryFails, Comment, CommentFails, Steps, Results, At
    <3>2. CASE LabelFails(r) \/ CreateFails(r) \/ Store(r) \/ StoreFails(r)
      BY <3>2 DEF LabelFails, CreateFails, Store, StoreFails, Steps, Results, At
    <3> QED
      BY <1>13, <3>1, <3>2
  <2> QED
    BY <1>2, <2>1
<1> QED
  BY <1>6, <1>7, <1>8, <1>10, <1>11, <1>12, <1>13 DEF Step

(***************************************************************************)
(* Where the clusters are.                                                 *)
(***************************************************************************)
\* Cluster Now(r) is in no issue before r has opened one for it, or commented.
LEMMA NotYetFiled ==
    ASSUME Typed, AtACluster, Filed, NEW r \in Requests, task[r].pc \in Steps \ {"store"}
    PROVE  ~SomePlace(r, Now(r))
<1>1. task[r].pc \in Steps /\ task[r].pc \notin {"store", "lost"}
  BY DEF Steps
<1>2. Now(r) \in Nat /\ Len(told[r]) \in Nat /\ Now(r) > Len(told[r])
  BY <1>1, AtWork
<1> QED
  BY <1>1, <1>2 DEF Filed, HeldInTime, SomePlace

\* The task goes on, and the issues hold what they held.
LEMMA FiledGoes ==
    ASSUME Typed, Filed, NEW r \in Requests, Others(r), UNCHANGED <<issues, told>>,
           task[r].pc \notin {"store", "lost"}, task'[r].pc # "store", UNCHANGED faults \/ Fault
    PROVE  Filed'
<1>1. faults \in Nat /\ faults' >= faults /\ faults' \in Nat
  BY Faulted
<1>2. \A i, s, n : Holds(i, s, n)' <=> Holds(i, s, n)
  BY DEF Holds
<1>3. HeldInTime'
  BY <1>2 DEF Filed, HeldInTime, Others, Now
<1>4. OnePlace'
  BY <1>2 DEF Filed, OnePlace
<1>5. StoresItsOwn'
  <2> SUFFICES ASSUME NEW s \in Requests, task'[s].pc = "store" PROVE Holds(task[s].duplicate, s, Now(s))'
    BY DEF StoresItsOwn
  <2>1. task'[s] = task[s] /\ Now(s)' = Now(s)
    BY DEF Others, Now
  <2>2. Holds(task[s].duplicate, s, Now(s))
    BY <2>1 DEF Filed, StoresItsOwn
  <2> QED
    BY <2>1, <2>2 DEF Holds, Now
<1>6. ToldTruly'
  <2>1. \A s, n : SomePlace(s, n)' <=> SomePlace(s, n)
    BY DEF SomePlace, Holds
  <2>2. faults > 0 => faults' > 0
    BY <1>1
  <2> QED
    BY <2>1, <2>2 DEF Filed, ToldTruly
<1> QED
  BY <1>3, <1>4, <1>5, <1>6 DEF Filed

\* An issue is opened for the cluster, and the task goes on to store its ticket.
LEMMA FiledOpens ==
    ASSUME Typed, AtACluster, Filed, NEW r \in Requests, Others(r), told' = told, faults' = faults,
           task[r].pc \in Steps \ {"store"}, task'[r].pc = "store",
           Adds(r, task'[r].duplicate)
    PROVE  Filed'
<1>0. task[r].pc \in Steps
  OBVIOUS
<1>1. /\ Now(r) \in Nat /\ Len(told[r]) \in Nat /\ Now(r) > Len(told[r])
      /\ DOMAIN issues = 1 .. Len(issues) /\ Len(issues) \in Nat /\ DOMAIN told[r] = 1 .. Len(told[r])
  BY <1>0, AtWork
<1>2. ~SomePlace(r, Now(r))
  BY NotYetFiled
<1> DEFINE d == task'[r].duplicate
<1>3. /\ \A j \in Nat, s \in Requests, n \in Nat :
            Holds(j, s, n)' <=> Holds(j, s, n) \/ (j = d /\ s = r /\ n = Now(r))
      /\ issues' \in Seq(IssueRecords) /\ Len(issues') >= Len(issues) /\ d \in 1 .. Len(issues')
  BY DEF Adds
<1> HIDE DEF d
<1>4. /\ DOMAIN issues' = 1 .. Len(issues') /\ Len(issues') \in Nat /\ DOMAIN issues' \subseteq Nat
      /\ DOMAIN issues \subseteq DOMAIN issues' /\ d \in DOMAIN issues' /\ d \in Nat
  BY <1>1, <1>3
<1>5. \A s \in Requests : Now(s)' = Now(s)
  BY DEF Now
<1>6. HeldInTime'
  BY <1>3, <1>4, <1>5 DEF Filed, HeldInTime, Others, Holds
<1>7. OnePlace'
  <2> SUFFICES ASSUME NEW i \in DOMAIN issues', NEW j \in DOMAIN issues', NEW s \in Requests, NEW n \in Nat,
                      Holds(i, s, n)', Holds(j, s, n)'
               PROVE  i = j
    BY DEF OnePlace
  <2>1. i \in Nat /\ j \in Nat
    BY <1>4
  <2>2. /\ Holds(i, s, n) \/ (i = d /\ s = r /\ n = Now(r))
        /\ Holds(j, s, n) \/ (j = d /\ s = r /\ n = Now(r))
    BY <1>3, <2>1
  <2> QED
    BY <1>2, <2>2 DEF SomePlace, Filed, OnePlace, Holds
<1>8. StoresItsOwn'
  <2> SUFFICES ASSUME NEW s \in Requests, task'[s].pc = "store" PROVE Holds(task[s].duplicate, s, Now(s))'
    BY DEF StoresItsOwn
  <2>1. PICK k \in Nat, n \in Nat : k = task'[s].duplicate /\ n = Now(s) /\ Holds(k, s, n)'
    <3>1. CASE s = r
      BY <1>1, <1>3, <1>4, <3>1 DEF d
    <3>2. CASE s # r
      <4>1. task'[s] = task[s] /\ task[s].pc \in Steps
        BY <3>2 DEF Others, Steps
      <4>2. Holds(task[s].duplicate, s, Now(s))
        BY <4>1 DEF Filed, StoresItsOwn
      <4>3. Now(s) \in Nat /\ task[s].duplicate \in Nat
        BY <1>1, <4>1, <4>2, AtWork DEF Holds
      <4> QED
        BY <1>3, <4>1, <4>2, <4>3
    <3> QED
      BY <3>1, <3>2
  <2> QED
    BY <1>5, <2>1 DEF Holds
<1>9. ToldTruly'
  <2> SUFFICES ASSUME NEW s \in Requests, NEW n \in DOMAIN told[s]
               PROVE  SomePlace(s, n)' <=> SomePlace(s, n)
    BY DEF Filed, ToldTruly
  <2>1. n \in Nat
    BY DEF Typed
  <2>2. ~(s = r /\ n = Now(r))
    BY <1>1
  <2>3. \A i \in Nat : Holds(i, s, n)' <=> Holds(i, s, n)
    BY <1>3, <2>1, <2>2
  <2> QED
    BY <1>1, <1>4, <2>3 DEF SomePlace, Holds
<1> QED
  BY <1>6, <1>7, <1>8, <1>9 DEF Filed

\* Linear has cluster Now(r) in the new place, if there is one, and otherwise what it had.
Places(r, new) ==
    \A j \in Nat, s \in Requests, n \in Nat :
        Holds(j, s, n)' <=> Holds(j, s, n) \/ (j \in new /\ s = r /\ n = Now(r))

\* The task tells where its cluster went.
LEMMA FiledEnds ==
    ASSUME Typed, AtACluster, Filed, Grown, issues' \in Seq(IssueRecords),
           NEW r \in Requests, task[r].pc \in Steps, NEW what \in Results, Result(r, what), UNCHANGED faults \/ Fault,
           NEW new \in SUBSET (1 .. Len(issues')), Places(r, new), \A i, j \in new : i = j,
           task[r].pc = "store" => new = {},
           what \in {"issue", "comment"} => task[r].pc = "store" \/ new # {},
           what \in {"error", "no_url"} => task[r].pc # "store",
           what = "no_url" => new = {},
           what = "error" /\ new # {} => Fault
    PROVE  Filed'
<1>1. /\ Now(r) \in Nat /\ Len(told[r]) \in Nat /\ Now(r) > Len(told[r]) /\ Now(r) = Len(told[r]) + 1
      /\ DOMAIN issues = 1 .. Len(issues) /\ Len(issues) \in Nat /\ DOMAIN told[r] = 1 .. Len(told[r])
  BY AtWork
<1>2. /\ Others(r) /\ DOMAIN told'[r] = 1 .. Len(told'[r])
      /\ task'[r].pc \in {"query", "done"}
      /\ Len(told'[r]) = Len(told[r]) + 1 /\ told'[r][Now(r)] = what
      /\ \A n \in 1 .. Len(told[r]) : told'[r][n] = told[r][n]
  BY Ending
<1>3. faults \in Nat /\ faults' \in Nat /\ faults' >= faults /\ (Fault => faults' > 0)
  BY Faulted
<1>4. task[r].pc # "store" => ~SomePlace(r, Now(r))
  BY NotYetFiled
<1>5. /\ DOMAIN issues' = 1 .. Len(issues') /\ DOMAIN issues' \subseteq Nat
      /\ DOMAIN issues \subseteq Nat /\ DOMAIN issues \subseteq DOMAIN issues'
  <2>1. DOMAIN issues' = 1 .. Len(issues') /\ Len(issues') \in Nat /\ Len(issues) <= Len(issues')
    BY DEF Grown
  <2> QED
    BY <1>1, <2>1
<1>6. \A s \in Requests, n \in Nat : SomePlace(s, n)' <=> SomePlace(s, n) \/ (new # {} /\ s = r /\ n = Now(r))
  <2> SUFFICES ASSUME NEW s \in Requests, NEW n \in Nat
               PROVE  SomePlace(s, n)' <=> SomePlace(s, n) \/ (new # {} /\ s = r /\ n = Now(r))
    OBVIOUS
  <2>1. \A j \in Nat : Holds(j, s, n)' <=> Holds(j, s, n) \/ (j \in new /\ s = r /\ n = Now(r))
    BY DEF Places
  <2> QED
    BY <1>5, <2>1 DEF SomePlace, Holds
<1>7. HeldInTime'
  <2> SUFFICES ASSUME NEW j \in DOMAIN issues', NEW s \in Requests, NEW n \in Nat, Holds(j, s, n)'
               PROVE  n <= Len(told'[s]) \/ (n = Now(s)' /\ task'[s].pc \in {"store", "lost"})
    BY DEF HeldInTime
  <2>1. j \in Nat /\ (Holds(j, s, n) \/ (j \in new /\ s = r /\ n = Now(r)))
    BY <1>5 DEF Places
  <2>2. CASE s = r
    <3>1. Holds(j, s, n) => n <= Len(told[r]) \/ n = Now(r)
      BY <2>2 DEF Filed, HeldInTime, Holds
    <3>2. n <= Len(told[r]) \/ n = Now(r)
      BY <2>1, <2>2, <3>1
    <3>3. Len(told'[r]) = Now(r) /\ Len(told[r]) < Now(r)
      BY <1>1, <1>2
    <3>4. n <= Len(told'[r])
      BY <1>1, <3>2, <3>3
    <3> QED
      BY <2>2, <3>4
  <2>3. CASE s # r
    <3>1. task'[s] = task[s] /\ told'[s] = told[s] /\ Now(s)' = Now(s) /\ Holds(j, s, n)
      BY <1>2, <2>1, <2>3 DEF Others, Now
    <3> QED
      BY <3>1 DEF Filed, HeldInTime, Holds
  <2> QED
    BY <2>2, <2>3
<1>8. OnePlace'
  <2> SUFFICES ASSUME NEW k \in DOMAIN issues', NEW j \in DOMAIN issues', NEW s \in Requests, NEW n \in Nat,
                      Holds(k, s, n)', Holds(j, s, n)'
               PROVE  k = j
    BY DEF OnePlace
  <2>1. k \in Nat /\ j \in Nat
    BY <1>5
  <2>2. /\ Holds(k, s, n) \/ (k \in new /\ s = r /\ n = Now(r))
        /\ Holds(j, s, n) \/ (j \in new /\ s = r /\ n = Now(r))
    BY <2>1 DEF Places
  <2> QED
    BY <1>4, <2>2 DEF SomePlace, Filed, OnePlace, Holds
<1>9. StoresItsOwn'
  <2> SUFFICES ASSUME NEW s \in Requests, task'[s].pc = "store" PROVE Holds(task[s].duplicate, s, Now(s))'
    BY DEF StoresItsOwn
  <2>1. s # r /\ task'[s] = task[s] /\ Now(s)' = Now(s) /\ task[s].pc \in Steps
    BY <1>2 DEF Others, Now, Steps
  <2>2. Holds(task[s].duplicate, s, Now(s)) /\ Now(s) \in Nat
    BY <2>1, AtWork DEF Filed, StoresItsOwn
  <2>3. PICK k \in Nat, n \in Nat : k = task[s].duplicate /\ n = Now(s)
    BY <1>5, <2>2 DEF Holds
  <2>4. Holds(k, s, n)'
    BY <2>2, <2>3 DEF Places
  <2> QED
    BY <2>1, <2>3, <2>4 DEF Holds
<1>10. ToldTruly'
  <2> SUFFICES ASSUME NEW s \in Requests, NEW n \in DOMAIN told'[s]
               PROVE  /\ told'[s][n] \in {"issue", "comment"} => SomePlace(s, n)'
                      /\ told'[s][n] = "no_url" => ~SomePlace(s, n)'
                      /\ told'[s][n] = "error" /\ SomePlace(s, n)' => faults' > 0
    BY DEF ToldTruly
  <2>1. n \in Nat
    <3>1. CASE s = r
      BY <1>2, <3>1
    <3>2. CASE s # r
      BY <1>2, <3>2 DEF Others, Typed
    <3> QED
      BY <3>1, <3>2
  <2>2. CASE s = r /\ n = Now(r)
    <3>1. task[r].pc = "store" => SomePlace(r, n)
      BY <2>2 DEF Filed, StoresItsOwn, SomePlace, Holds
    <3>2. SomePlace(s, n)' <=> task[r].pc = "store" \/ new # {}
      BY <1>4, <1>6, <2>1, <2>2, <3>1
    <3> QED
      BY <1>2, <1>3, <2>2, <3>2
  <2>3. CASE ~(s = r /\ n = Now(r))
    <3>1. n \in DOMAIN told[s] /\ told'[s][n] = told[s][n]
      <4>1. CASE s = r
        <5>1. n # Now(r) /\ n \in 1 .. Len(told'[r]) /\ Len(told'[r]) = Now(r)
          BY <1>1, <1>2, <2>3, <4>1
        <5>2. n \in 1 .. Len(told[r])
          BY <1>1, <5>1
        <5> QED
          BY <1>1, <1>2, <4>1, <5>2
      <4>2. CASE s # r
        BY <1>2, <4>2 DEF Others
      <4> QED
        BY <4>1, <4>2
    <3>2. SomePlace(s, n)' <=> SomePlace(s, n)
      BY <1>6, <2>1, <2>3
    <3> QED
      BY <1>3, <3>1, <3>2 DEF Filed, ToldTruly
  <2> QED
    BY <2>2, <2>3
<1> QED
  BY <1>7, <1>8, <1>9, <1>10 DEF Filed

\* Whatever a task does, Linear has each of its clusters as it tells.
LEMMA FiledStep ==
    ASSUME Typed, AtACluster, Filed, NEW r \in Requests, Step(r)
    PROVE  Filed'
<1>1. /\ Grown /\ Others(r) /\ issues' \in Seq(IssueRecords) /\ (UNCHANGED faults \/ Fault)
      /\ Len(issues) \in Nat
  BY IssuesGrow, StepTyped, TablesTyped DEF Filed, IssueRecords, Grown
<1>2. /\ task[r].pc \in Steps /\ task[r].duplicate \in DOMAIN issues /\ Commented(r) => Adds(r, task[r].duplicate)
      /\ task[r].pc \in Steps /\ Opened(r) => Adds(r, Len(issues) + 1) /\ Len(issues') = Len(issues) + 1
  BY Comments, Opens
<1>3. issues' = issues => Places(r, {})
  BY DEF Places, Holds
<1>4. ASSUME NEW i, Adds(r, i) PROVE Places(r, {i}) /\ {i} \in SUBSET (1 .. Len(issues'))
  BY <1>4 DEF Places, Adds
<1>5. CASE \/ Accept(r) \/ Clustered(r) \/ NotClustered(r) \/ Query(r) \/ Match(r) \/ Mismatch(r)
           \/ FindLabel(r) \/ NewLabel(r)
  <2>1. /\ UNCHANGED <<issues, told>> /\ task[r].pc \notin {"store", "lost"} /\ task'[r].pc # "store"
    <3>0. \A pc : Goes(r, pc) => task'[r].pc = pc
      BY DEF Goes, Typed
    <3>1. CASE Accept(r) \/ NotClustered(r) \/ FindLabel(r) \/ NewLabel(r)
      BY <3>0, <3>1 DEF Accept, NotClustered, FindLabel, NewLabel, At
    <3>2. CASE Match(r) \/ Mismatch(r) \/ Clustered(r) \/ Query(r)
      <4>1. UNCHANGED <<issues, told>> /\ task[r].pc \notin {"store", "lost"}
        BY <3>2 DEF Match, Mismatch, Clustered, Query, At
      <4>2. \A i : task' = [task EXCEPT ![r].pc = "comment", ![r].duplicate = i] => task'[r].pc = "comment"
        BY DEF Typed
      <4>3. CASE Match(r) \/ Mismatch(r)
        BY <3>0, <4>1, <4>2, <4>3 DEF Match, Mismatch
      <4>4. CASE Clustered(r)
        BY <4>1, <4>4 DEF Clustered, Typed
      <4>5. CASE Query(r)
        BY <4>1, <4>5 DEF Query, Typed
      <4> QED
        BY <3>2, <4>3, <4>4, <4>5
    <3> QED
      BY <1>5, <3>1, <3>2
  <2> QED
    BY <1>1, <2>1, FiledGoes
<1>6. CASE Create(r)
  <2>1. /\ task[r].pc \in Steps \ {"store"} /\ Opened(r) /\ UNCHANGED <<told, faults>>
        /\ task'[r].pc = "store" /\ task'[r].duplicate = Len(issues')
    BY <1>6 DEF Create, At, Steps, Typed
  <2>2. Adds(r, task'[r].duplicate)
    BY <1>2, <2>1
  <2> QED
    BY <1>1, <2>1, <2>2, FiledOpens
<1>7. ASSUME NEW what \in Results, Result(r, what), task[r].pc \in Steps, issues' = issues,
             what \in {"issue", "comment"} => task[r].pc = "store",
             what \in {"error", "no_url"} => task[r].pc # "store"
      PROVE  Filed'
  <2>1. {} \in SUBSET (1 .. Len(issues')) /\ \A i, j \in {} : i = j
    OBVIOUS
  <2> QED
    BY <1>1, <1>3, <1>7, <2>1, FiledEnds
<1>8. ASSUME NEW what \in {"comment", "error"}, Result(r, what), task[r].pc \in Steps \ {"store"}, NEW i, Adds(r, i),
             what = "error" => Fault
      PROVE  Filed'
  <2>1. Places(r, {i}) /\ {i} \in SUBSET (1 .. Len(issues')) /\ \A j, k \in {i} : j = k
    BY <1>4, <1>8
  <2>2. what \in Results
    BY DEF Results
  <2> QED
    BY <1>1, <1>8, <2>1, <2>2, FiledEnds
<1>9. CASE QueryFails(r) \/ LabelFails(r)
  <2>1. Result(r, "error") /\ task[r].pc \in Steps /\ issues' = issues /\ task[r].pc # "store" /\ "error" \in Results
    BY <1>9 DEF QueryFails, LabelFails, At, Steps, Results
  <2> QED
    BY <1>7, <2>1
<1>10. CASE Store(r) \/ StoreFails(r)
  <2>1. Result(r, "issue") /\ task[r].pc \in Steps /\ issues' = issues /\ task[r].pc = "store" /\ "issue" \in Results
    BY <1>10 DEF Store, StoreFails, At, Steps, Results
  <2> QED
    BY <1>7, <2>1
<1>11. CASE Comment(r)
  <2>1. Result(r, "comment") /\ task[r].pc \in Steps \ {"store"} /\ task[r].duplicate \in DOMAIN issues /\ Commented(r)
    BY <1>11 DEF Comment, At, Steps
  <2> QED
    BY <1>2, <1>8, <2>1
<1>12. CASE CommentFails(r)
  <2>1. /\ Result(r, "error") /\ task[r].pc \in Steps \ {"store"} /\ "error" \in Results
        /\ \/ issues' = issues
           \/ task[r].duplicate \in DOMAIN issues /\ Fault /\ Commented(r)
    BY <1>12 DEF CommentFails, At, Steps, Results
  <2> QED
    BY <1>2, <1>7, <1>8, <2>1
<1>13. CASE CreateFails(r)
  <2>1. /\ task[r].pc \in Steps \ {"store"} /\ Fault /\ {"error", "no_url"} \subseteq Results
        /\ \/ Result(r, "error") /\ issues' = issues
           \/ Result(r, "no_url") /\ issues' = issues
           \/ Result(r, "error") /\ Opened(r)
    BY <1>13 DEF CreateFails, At, Steps, Results
  <2> QED
    BY <1>2, <1>7, <1>8, <2>1
<1> QED
  BY <1>5, <1>6, <1>9, <1>10, <1>11, <1>12, <1>13 DEF Step

\* A restart: what tasks held is as it was, and they are about to store no longer.
LEMMA RestartTyped ==
    ASSUME Typed, AtACluster, Filed, Restart
    PROVE  /\ Typed' /\ AtACluster' /\ Filed'
           /\ \A s \in Requests : task'[s].pc \in {"off", "done", "lost"}
<1>1. /\ UNCHANGED <<labels, issues, tickets, told>> /\ Fault
      /\ task' = [r \in Requests |->
            IF task[r].pc \in {"off", "done"} THEN task[r] ELSE [task[r] EXCEPT !.pc = "lost"]]
      /\ excused' = excused \cup {Topic(r) : r \in {r \in Requests : At(r, "store")}}
  BY DEF Restart
<1>2. \A s \in Requests : task[s] \in Tasks
  <2> HIDE DEF Tasks
  <2> QED
    BY DEF Typed
<1>3. \A s \in Requests : task'[s] = IF task[s].pc \in {"off", "done"} THEN task[s] ELSE [task[s] EXCEPT !.pc = "lost"]
  BY <1>1
<1>4. \A s \in Requests : /\ task'[s] \in Tasks
                          /\ task'[s].pc = task[s].pc \/ task'[s].pc = "lost"
                          /\ task'[s].pc \in {"off", "done", "lost"}
  <2>1. "lost" \in Pcs
    BY DEF Pcs
  <2> HIDE DEF Messages, Tickets, Pcs
  <2> QED
    BY <1>2, <1>3, <2>1 DEF Tasks
<1>5. task' \in [Requests -> Tasks]
  <2> HIDE DEF Tasks
  <2>1. \A s \in Requests : (IF task[s].pc \in {"off", "done"} THEN task[s] ELSE [task[s] EXCEPT !.pc = "lost"]) \in Tasks
    BY <1>3, <1>4
  <2> QED
    BY <1>1, <2>1
<1>6. Tasks' = Tasks /\ Tickets' = Tickets
  BY <1>1 DEF Tasks, Tickets, Messages, Pcs, Steps
<1>7. excused' \subseteq Topics
  <2>1. \A s \in Requests : At(s, "store") => Topic(s) \in Topics
    BY AtWork DEF At, Steps
  <2> QED
    BY <1>1, <2>1 DEF Typed
<1>8. Typed'
  <2>1. faults' \in 0 .. MaxFaults
    BY <1>1, Faulted
  <2> HIDE DEF Tasks, Tickets
  <2> QED
    BY <1>1, <1>5, <1>6, <1>7, <2>1 DEF Typed
<1>9. AtACluster'
  BY <1>1, <1>4 DEF AtACluster, Steps
<1>10. Filed'
  <2>1. \A s, n : SomePlace(s, n)' <=> SomePlace(s, n)
    BY <1>1 DEF SomePlace, Holds
  <2>2. HeldInTime'
    <3>1. \A i, s, n : Holds(i, s, n)' <=> Holds(i, s, n)
      BY <1>1 DEF Holds
    <3>2. \A s \in Requests : task[s].pc \in {"store", "lost"} => task'[s].pc = "lost"
      BY <1>4
    <3> QED
      BY <1>1, <3>1, <3>2 DEF Filed, HeldInTime, Now
  <2>3. OnePlace'
    BY <1>1 DEF Filed, OnePlace, Holds
  <2>4. StoresItsOwn'
    BY <1>4 DEF StoresItsOwn
  <2>5. ToldTruly'
    <3>1. faults > 0 => faults' > 0
      BY <1>1, Faulted
    <3> QED
      BY <1>1, <2>1, <3>1 DEF Filed, ToldTruly
  <2> QED
    BY <2>2, <2>3, <2>4, <2>5 DEF Filed
<1> QED
  BY <1>4, <1>8, <1>9, <1>10

(***************************************************************************)
(* One issue for a topic.                                                  *)
(***************************************************************************)
\* Nothing was opened for topic t.
Unheard(t) == ~\E i \in DOMAIN issues : IssueOf(t, i)

\* Issues, tickets and tasks of other topics come and go; a task that decides about t
\* did so before and knows no worse, and whoever leaves an issue leaves a ticket.
LEMMA SettledStays ==
    ASSUME NEW t, Settled(t), NEW r \in Requests, Others(r),
           \A i : IssueOf(t, i)' <=> IssueOf(t, i),
           Stored(t) => Stored(t)',
           At(r, "store") /\ Topic(r) = t => Stored(t)',
           Deciding(r)' /\ Topic(r)' = t =>
               /\ Deciding(r) /\ Topic(r) = t /\ task'[r].pc # "store"
               /\ Unheard(t) \/ (task'[r].pc = "match" /\ Shows(task'[r].rows, t))
    PROVE  Settled(t)'
<1>1. \A s \in Requests \ {r} : /\ task'[s] = task[s] /\ Topic(s)' = Topic(s)
                                /\ Deciding(s)' <=> Deciding(s)
  BY DEF Others, Topic, Now, Deciding
<1>2. Unheard(t)' <=> Unheard(t)
  BY DEF Unheard, IssueOf
<1>3. Alone(t)'
  BY <1>1 DEF Settled, Alone
<1>4. Remembered(t)'
  BY <1>1, <1>2 DEF Settled, Remembered, Unheard, At
<1>5. ReadRightly(t)'
  <2> SUFFICES ASSUME NEW s \in Requests, Deciding(s)', Topic(s)' = t, task'[s].pc # "store"
               PROVE  Unheard(t)' \/ (task'[s].pc = "match" /\ Shows(task'[s].rows, t))
    BY DEF ReadRightly, Unheard, At, Shows
  <2>1. CASE s = r
    BY <1>2, <2>1
  <2>2. CASE s # r
    BY <1>1, <1>2, <2>2 DEF Settled, ReadRightly, Unheard, At
  <2> QED
    BY <2>1, <2>2
<1>6. Single(t)'
  BY DEF Settled, Single, IssueOf
<1> QED
  BY <1>3, <1>4, <1>5, <1>6 DEF Settled

\* Who opens the first issue of a topic was the only one to decide about it.
LEMMA SettledOpens ==
    ASSUME Typed, AtACluster, NEW t, Settled(t), NEW r \in Requests, Create(r), Topic(r) = t, Others(r)
    PROVE  Settled(t)'
<1>1. /\ task[r].pc = "create" /\ Opened(r) /\ told' = told /\ tickets' = tickets
      /\ task'[r].pc = "store" /\ task'[r].clusters = task[r].clusters
  BY DEF Create, At, Typed
<1>2. task[r].pc \in Steps /\ Deciding(r) /\ ~At(r, "store") /\ ~At(r, "match")
  BY <1>1 DEF Steps, Deciding, At
<1>3. Unheard(t)
  BY <1>2 DEF Settled, ReadRightly, Unheard
<1>4. /\ DOMAIN issues = 1 .. Len(issues) /\ Len(issues) \in Nat
      /\ Adds(r, Len(issues) + 1) /\ Len(issues') = Len(issues) + 1
  BY <1>1, <1>2, AtWork, Opens
<1>5. \A s \in Requests : Topic(s)' = Topic(s) /\ (s # r => task'[s] = task[s])
  BY <1>1 DEF Others, Topic, Now
<1>6. \A s \in Requests : Deciding(s)' <=> Deciding(s)
  BY <1>1, <1>2, <1>5 DEF Deciding
<1>7. Alone(t)'
  BY <1>5, <1>6 DEF Settled, Alone
<1>8. Remembered(t)'
  BY <1>1, <1>5 DEF Remembered, At
<1>9. ReadRightly(t)'
  BY <1>1, <1>2, <1>5, <1>6 DEF ReadRightly, Settled, Alone, At
<1>10. Single(t)'
  <2>1. \A i \in DOMAIN issues' : i \in DOMAIN issues \/ i = Len(issues) + 1
    BY <1>4 DEF Adds
  <2>2. \A i \in DOMAIN issues : ~IssueOf(t, i)'
    BY <1>3, <1>4 DEF Unheard, IssueOf, Adds
  <2> QED
    BY <2>1, <2>2 DEF Single
<1> QED
  BY <1>7, <1>8, <1>9, <1>10 DEF Settled

\* Nobody else decides about the topic, so an issue of it has a ticket; the query shows
\* one, unless all are forgotten.
LEMMA SettledQueries ==
    ASSUME Typed, AtACluster, NEW t, Settled(t), NEW r \in Requests, Query(r), Topic(r) = t, Others(r), t \notin excused'
    PROVE  Settled(t)'
<1> DEFINE rows == Newest(Category[t])
<1>1. /\ task[r].pc = "query" /\ UNCHANGED <<issues, tickets, told>>
      /\ task'[r].pc = (IF rows = {} THEN "label" ELSE "match") /\ task'[r].rows = rows
      /\ task'[r].clusters = task[r].clusters
      /\ ~Forgotten(t)
      /\ \A d \in Requests \ {r} : ~(Deciding(d) /\ Topic(d) = t)
  BY DEF Query, At, Typed
<1>2. \A s \in Requests : Topic(s)' = Topic(s) /\ (s # r => task'[s] = task[s])
  BY <1>1 DEF Others, Topic, Now
<1>3. \A d \in Requests \ {r} : ~(Deciding(d)' /\ Topic(d)' = t)
  BY <1>1, <1>2 DEF Deciding
<1>4. Unheard(t)' <=> Unheard(t)
  BY <1>1 DEF Unheard, IssueOf
<1>5. Unheard(t) \/ Stored(t)
  <2>1. \A s \in Requests : ~(At(s, "store") /\ Topic(s) = t)
    BY <1>1 DEF Deciding, At
  <2> QED
    BY <2>1 DEF Settled, Remembered, Unheard
<1>6. Stored(t) => Shows(rows, t) /\ rows # {}
  <2> SUFFICES ASSUME Stored(t) PROVE \E row \in rows : row.topic = t
    BY DEF Shows
  <2>1. PICK n \in OfCategory(Category[t]) :
            /\ tickets[n].topic = t
            /\ ~(Cardinality({m \in OfCategory(Category[t]) : m > n}) >= Window)
    BY <1>1 DEF Forgotten
  <2> DEFINE newer == {m \in OfCategory(Category[t]) : m > n}
  <2>2. Cardinality(newer) \in Nat
    <3>1. newer \subseteq 1 .. Len(tickets) /\ Len(tickets) \in Nat
      BY DEF OfCategory, Typed
    <3>2. IsFiniteSet(1 .. Len(tickets))
      BY <3>1, FS_Interval
    <3>3. IsFiniteSet(newer)
      BY <3>1, <3>2, FS_Subset
    <3> HIDE DEF newer
    <3> QED
      BY <3>3, FS_CardinalityType
  <2>3. Cardinality(newer) < Window
    BY <2>1, <2>2, WindowAssumption
  <2>4. tickets[n] \in rows
    BY <2>3 DEF Newest
  <2> QED
    BY <2>1, <2>4
<1> HIDE DEF rows
<1>7. Alone(t)'
  BY <1>3 DEF Alone
<1>8. Remembered(t)'
  <2>1. Stored(t) => Stored(t)'
    BY <1>1 DEF Stored
  <2> QED
    BY <1>4, <1>5, <2>1 DEF Remembered, Unheard
<1>9. ReadRightly(t)'
  <2> SUFFICES ASSUME NEW s \in Requests, Deciding(s)', Topic(s)' = t
               PROVE  Unheard(t)' \/ (task'[s].pc = "match" /\ Shows(task'[s].rows, t))
    BY DEF ReadRightly, Unheard, At, Shows
  <2>1. s = r
    BY <1>3
  <2> QED
    BY <1>1, <1>4, <1>5, <1>6, <2>1
<1>10. Single(t)'
  BY <1>1 DEF Settled, Single, IssueOf
<1> QED
  BY <1>7, <1>8, <1>9, <1>10 DEF Settled

\* What a step leaves of the issues and tickets of topic t.
LEMMA OfTopic ==
    ASSUME Typed, AtACluster, NEW r \in Requests, Step(r), NEW t, Create(r) => Topic(r) # t, t \notin excused'
    PROVE  /\ \A i : IssueOf(t, i)' <=> IssueOf(t, i)
           /\ Stored(t) => Stored(t)'
           /\ At(r, "store") /\ Topic(r) = t => Stored(t)'
<1>1. /\ \/ issues' = issues
         \/ At(r, "comment") /\ task[r].duplicate \in DOMAIN issues /\ Commented(r)
         \/ At(r, "create") /\ Opened(r)
      /\ DOMAIN issues = 1 .. Len(issues) /\ Len(issues) \in Nat /\ tickets \in Seq(Tickets)
  BY IssuesGrow DEF Typed
<1>2. \A i : IssueOf(t, i)' <=> IssueOf(t, i)
  <2>1. CASE issues' = issues
    BY <2>1 DEF IssueOf
  <2>2. CASE At(r, "comment") /\ task[r].duplicate \in DOMAIN issues /\ Commented(r)
    <3>1. Adds(r, task[r].duplicate) /\ Len(issues') = Len(issues)
      BY <2>2, Comments DEF At, Steps
    <3>2. DOMAIN issues' = DOMAIN issues /\ \A i \in DOMAIN issues : issues'[i].topic = issues[i].topic
      BY <1>1, <3>1 DEF Adds
    <3> QED
      BY <3>2 DEF IssueOf
  <2>3. CASE At(r, "create") /\ Opened(r)
    <3>1. /\ Adds(r, Len(issues) + 1) /\ Len(issues') = Len(issues) + 1
          /\ issues'[Len(issues) + 1].topic = Topic(r)
      BY <2>3, Opens DEF At, Steps
    <3>2. Topic(r) # t
      <4>1. CASE Create(r)
        BY <4>1
      <4>2. CASE ~Create(r)
        <5>1. CreateFails(r)
          BY <2>3, <4>2 DEF Step, Accept, Clustered, NotClustered, Query, QueryFails, Match, Mismatch, Comment,
                            CommentFails, FindLabel, NewLabel, LabelFails, Store, StoreFails, At
        <5>2. issues' # issues
          BY <1>1, <3>1
        <5> QED
          BY <5>1, <5>2 DEF CreateFails
      <4> QED
        BY <4>1, <4>2
    <3>3. /\ DOMAIN issues' = 1 .. (Len(issues) + 1)
          /\ \A i \in 1 .. Len(issues) : issues'[i].topic = issues[i].topic
      BY <1>1, <3>1 DEF Adds
    <3> QED
      BY <1>1, <3>1, <3>2, <3>3 DEF IssueOf
  <2> QED
    BY <1>1, <2>1, <2>2, <2>3
<1>3. tickets' = tickets \/ Store(r)
  <2>1. CASE Accept(r) \/ Clustered(r) \/ NotClustered(r) \/ Query(r) \/ QueryFails(r) \/ Match(r) \/ Mismatch(r)
    BY <2>1 DEF Accept, Clustered, NotClustered, Query, QueryFails, Match, Mismatch
  <2>2. CASE FindLabel(r) \/ NewLabel(r) \/ LabelFails(r) \/ StoreFails(r)
    BY <2>2 DEF FindLabel, NewLabel, LabelFails, StoreFails
  <2>3. CASE Comment(r) \/ CommentFails(r) \/ Create(r) \/ CreateFails(r)
    BY <2>3 DEF Comment, CommentFails, Create, CreateFails
  <2> QED
    BY <2>1, <2>2, <2>3 DEF Step
<1>4. ASSUME Store(r) PROVE (Stored(t) => Stored(t)') /\ (Topic(r) = t => Stored(t)')
  <2> DEFINE ticket == [topic |-> Topic(r), issue |-> task[r].duplicate]
  <2>1. tickets' = Append(tickets, ticket) /\ ticket.topic = Topic(r)
    BY <1>4 DEF Store
  <2> HIDE DEF ticket, Tickets
  <2>2. /\ DOMAIN tickets' = 1 .. (Len(tickets) + 1) /\ DOMAIN tickets = 1 .. Len(tickets) /\ Len(tickets) \in Nat
        /\ tickets'[Len(tickets) + 1] = ticket
        /\ \A n \in 1 .. Len(tickets) : tickets'[n] = tickets[n]
    BY <1>1, <2>1
  <2> QED
    BY <2>1, <2>2 DEF Stored
<1>5. At(r, "store") => Store(r) \/ Topic(r) # t
  <2>1. At(r, "store") => Store(r) \/ StoreFails(r)
    BY DEF Step, Accept, Clustered, NotClustered, Query, QueryFails, Match, Mismatch, Comment,
           CommentFails, FindLabel, NewLabel, LabelFails, Create, CreateFails, At
  <2> QED
    BY <2>1 DEF StoreFails
<1> QED
  BY <1>2, <1>3, <1>4, <1>5 DEF Stored

\* A step that does not excuse the topic leaves it settled.
LEMMA SettledStep ==
    ASSUME Typed, AtACluster, Filed, NEW r \in Requests, Step(r), NEW t, Settled(t), t \notin excused'
    PROVE  Settled(t)'
<1>1. Others(r) /\ task \in [Requests -> Tasks]
  BY StepTyped DEF Filed, Typed
<1>2. CASE Create(r) /\ Topic(r) = t
  BY <1>1, <1>2, SettledOpens
<1>3. CASE Query(r) /\ Topic(r) = t
  BY <1>1, <1>3, SettledQueries
<1>4. ASSUME ~(Create(r) /\ Topic(r) = t), ~(Query(r) /\ Topic(r) = t), Deciding(r)', Topic(r)' = t
      PROVE  Deciding(r) /\ Topic(r) = t /\ task'[r].pc # "store" /\ Unheard(t)
  <2>0. \A pc : Goes(r, pc) => task'[r].pc = pc /\ task'[r].clusters = task[r].clusters
    BY <1>1 DEF Goes
  <2>1. CASE \E what \in Results : Result(r, what) /\ task[r].pc \in Steps
    BY <1>4, <2>1, IssuesGrow, Ending DEF Deciding
  <2>2. CASE Accept(r) \/ NotClustered(r) \/ Clustered(r)
    <3>1. CASE Accept(r) \/ NotClustered(r)
      BY <1>4, <2>0, <3>1 DEF Accept, NotClustered, Deciding
    <3>2. CASE Clustered(r)
      <4>1. \A m : task' = [task EXCEPT ![r].pc = "query", ![r].clusters = m] => task'[r].pc = "query"
        BY <1>1
      <4>2. task'[r].pc = "query"
        BY <3>2, <4>1 DEF Clustered
      <4> QED
        BY <1>4, <4>2 DEF Deciding
    <3> QED
      BY <2>2, <3>1, <3>2
  <2>3. CASE Query(r) \/ Create(r)
    <3>1. told' = told /\ task'[r].clusters = task[r].clusters
      <4>1. CASE Query(r)
        <5>1. \A rows, pc : task' = [task EXCEPT ![r].rows = rows, ![r].pc = pc]
                             => task'[r].clusters = task[r].clusters
          BY <1>1
        <5> QED
          BY <4>1, <5>1 DEF Query
      <4>2. CASE Create(r)
        <5>1. \A pc, d : task' = [task EXCEPT ![r].pc = pc, ![r].duplicate = d]
                          => task'[r].clusters = task[r].clusters
          BY <1>1
        <5> QED
          BY <4>2, <5>1 DEF Create
      <4> QED
        BY <2>3, <4>1, <4>2
    <3>2. Topic(r)' = Topic(r)
      BY <3>1 DEF Topic, Now
    <3> QED
      BY <1>4, <2>3, <3>2
  <2>4. CASE Match(r) \/ Mismatch(r)
    <3>1. \A i : task' = [task EXCEPT ![r].pc = "comment", ![r].duplicate = i] => task'[r].pc = "comment"
      BY <1>1
    <3>2. Goes(r, "label") /\ told' = told /\ task[r].pc = "match" /\ task'[r].clusters = task[r].clusters
          /\ task'[r].pc = "label"
      BY <1>4, <2>0, <2>4, <3>1 DEF Match, Mismatch, Deciding, At
    <3>3. Topic(r) = t
      BY <1>4, <3>2 DEF Topic, Now
    <3>4. ~Shows(task[r].rows, t)
      <4>1. \A i : task' # [task EXCEPT ![r].pc = "comment", ![r].duplicate = i]
        BY <3>1, <3>2
      <4> QED
        BY <2>4, <3>3, <4>1 DEF Match, Mismatch
    <3> QED
      BY <3>2, <3>3, <3>4 DEF Settled, ReadRightly, Unheard, Deciding, At
  <2>5. CASE FindLabel(r) \/ NewLabel(r)
    <3>1. /\ told' = told /\ task[r].pc \in {"label", "newlabel"} /\ task'[r].clusters = task[r].clusters
          /\ task'[r].pc \in {"create", "newlabel"}
      BY <2>0, <2>5 DEF FindLabel, NewLabel, At
    <3>2. Topic(r) = t
      BY <1>4, <3>1 DEF Topic, Now
    <3> QED
      BY <3>1, <3>2 DEF Settled, ReadRightly, Unheard, Deciding, At
  <2>6. CASE \/ QueryFails(r) \/ Comment(r) \/ CommentFails(r) \/ LabelFails(r) \/ CreateFails(r)
             \/ Store(r) \/ StoreFails(r)
    <3>1. CASE QueryFails(r) \/ Comment(r) \/ CommentFails(r)
      BY <2>1, <3>1 DEF QueryFails, Comment, CommentFails, Steps, Results, At
    <3>2. CASE LabelFails(r) \/ CreateFails(r) \/ Store(r) \/ StoreFails(r)
      BY <2>1, <3>2 DEF LabelFails, CreateFails, Store, StoreFails, Steps, Results, At
    <3> QED
      BY <2>6, <3>1, <3>2
  <2> QED
    BY <2>2, <2>3, <2>4, <2>5, <2>6 DEF Step
<1>5. CASE ~(Create(r) /\ Topic(r) = t) /\ ~(Query(r) /\ Topic(r) = t)
  BY <1>1, <1>4, <1>5, OfTopic, SettledStays
<1> QED
  BY <1>2, <1>3, <1>5

\* After a restart nobody decides, and an issue without a ticket is excused.
LEMMA SettledRestarts ==
    ASSUME Typed, AtACluster, Filed, Restart, NEW t, Settled(t), t \notin excused'
    PROVE  Settled(t)'
<1>1. /\ UNCHANGED <<issues, tickets>>
      /\ excused' = excused \cup {Topic(r) : r \in {r \in Requests : At(r, "store")}}
  BY DEF Restart
<1>2. \A s \in Requests : task'[s].pc \in {"off", "done", "lost"}
  BY RestartTyped
<1>3. Alone(t)' /\ ReadRightly(t)'
  BY <1>2 DEF Alone, ReadRightly, Deciding
<1>4. Remembered(t)'
  <2>1. \A s \in Requests : ~(At(s, "store") /\ Topic(s) = t)
    BY <1>1
  <2> QED
    BY <1>1, <2>1 DEF Settled, Remembered, IssueOf, Stored
<1>5. Single(t)'
  BY <1>1 DEF Settled, Single, IssueOf
<1> QED
  BY <1>3, <1>4, <1>5 DEF Settled

(***************************************************************************)
(* The invariant, and what follows.                                        *)
(***************************************************************************)
\* A set that holds no two things has one element at most.
LEMMA AtMostOne ==
    ASSUME NEW S, \A i, j \in S : i = j
    PROVE  Cardinality(S) <= 1
<1>1. CASE S = {}
  BY <1>1, FS_EmptySet
<1>2. ASSUME NEW i \in S PROVE Cardinality(S) <= 1
  <2>1. S = {i}
    OBVIOUS
  <2>2. Cardinality({i}) = 1
    BY FS_Singleton
  <2> QED
    BY <2>1, <2>2
<1> QED
  BY <1>1, <1>2

\* At first nothing is filed and nobody is at work.
LEMMA InitInv == Init => IInv
<1> SUFFICES ASSUME Init PROVE IInv
  OBVIOUS
<1>0. /\ Len(issues) = 0 /\ DOMAIN issues = {} /\ DOMAIN tickets = {}
      /\ \A r \in Requests : task[r] = Idle /\ told[r] = <<>>
      /\ \A r \in Requests : task[r].pc = "off" /\ DOMAIN told[r] = {}
  BY DEF Init, Idle
<1>1. Typed
  <2>1. \A S : <<>> \in Seq(S)
    OBVIOUS
  <2>2. FirstLabels \subseteq Seq({"Bug", "bug"})
    BY DEF FirstLabels
  <2>3. labels \in [Categories -> Seq({"Bug", "bug"})]
    BY <2>2 DEF Init
  <2>4. Idle \in Tasks
    BY <1>0 DEF Idle, Tasks, Pcs
  <2>5. task \in [Requests -> Tasks] /\ told \in [Requests -> Seq(Results)]
    BY <2>1, <2>4 DEF Init
  <2> QED
    BY <2>1, <2>3, <2>5, BoundAssumption DEF Init, Typed
<1>2. AtACluster
  BY <1>0 DEF AtACluster, Steps
<1>3. Filed
  BY <1>0 DEF Filed, HeldInTime, OnePlace, StoresItsOwn, ToldTruly
<1>4. ASSUME NEW t PROVE Settled(t)
  BY <1>0 DEF Settled, Alone, Remembered, ReadRightly, Single, Deciding
<1> QED
  BY <1>1, <1>2, <1>3, <1>4 DEF IInv

\* Every step keeps the invariant.
LEMMA NextInv == IInv /\ [Next]_vars => IInv'
<1> SUFFICES ASSUME IInv, [Next]_vars PROVE IInv'
  OBVIOUS
<1>0. Typed /\ AtACluster /\ Filed /\ StoresItsOwn /\ \A t \in Topics \ excused : Settled(t)
  BY DEF IInv, Filed
<1>1. ASSUME NEW r \in Requests, Step(r) PROVE IInv'
  <2>1. /\ task' \in [Requests -> Tasks'] /\ told' \in [Requests -> Seq(Results)] /\ AtACluster'
        /\ labels' \in [Categories -> Seq({"Bug", "bug"})]
        /\ issues' \in Seq([topic : Topics, holds : SUBSET Clusters])
        /\ tickets' \in Seq(Tickets')
        /\ UNCHANGED faults \/ Fault
        /\ excused \subseteq excused' /\ excused' \subseteq Topics
    BY <1>0, <1>1, StepTyped, TablesTyped
  <2>2. faults' \in 0 .. MaxFaults
    BY <1>0, <2>1, Faulted
  <2>3. Typed'
    BY <2>1, <2>2 DEF Typed
  <2>4. Filed'
    BY <1>0, <1>1, FiledStep
  <2>5. ASSUME NEW t \in Topics \ excused' PROVE Settled(t)'
    <3>1. Settled(t) /\ t \notin excused'
      BY <1>0, <2>1
    <3> QED
      BY <1>0, <1>1, <3>1, SettledStep
  <2> QED
    BY <2>1, <2>3, <2>4, <2>5 DEF IInv
<1>2. CASE Restart
  <2>1. Typed' /\ AtACluster' /\ Filed'
    BY <1>0, <1>2, RestartTyped
  <2>2. excused \subseteq excused'
    BY <1>2 DEF Restart
  <2>3. ASSUME NEW t \in Topics \ excused' PROVE Settled(t)'
    <3>1. Settled(t) /\ t \notin excused'
      BY <1>0, <2>2
    <3> QED
      BY <1>0, <1>2, <3>1, SettledRestarts
  <2> QED
    BY <2>1, <2>3 DEF IInv
<1>3. CASE UNCHANGED vars
  <2>1. /\ labels' = labels /\ issues' = issues /\ tickets' = tickets /\ task' = task /\ told' = told
        /\ faults' = faults /\ excused' = excused
    BY <1>3 DEF vars
  <2>2. Typed' /\ AtACluster'
    BY <1>0, <2>1 DEF Typed, Tasks, Tickets, AtACluster, Now
  <2>3. Filed'
    BY <1>0, <2>1 DEF Filed, HeldInTime, OnePlace, StoresItsOwn, ToldTruly, SomePlace, Holds, Now
  <2>4. \A t : Settled(t)' <=> Settled(t)
    BY <2>1 DEF Settled, Alone, Remembered, ReadRightly, Single, IssueOf, Stored, Shows, Deciding, At, Topic, Now
  <2> QED
    BY <1>0, <2>1, <2>2, <2>3, <2>4 DEF IInv
<1> QED
  BY <1>1, <1>2, <1>3 DEF Next

\* The invariant holds in every behaviour.
THEOREM InvariantHolds == Spec => []IInv
BY InitInv, NextInv, PTL DEF Spec

\* Labels, issues, tickets and tasks are always what the code takes them for: a
\* ticket names an issue that Linear has opened.
THEOREM TypeCorrect == Spec => []TypeOK
<1>1. IInv => TypeOK
  <2> SUFFICES ASSUME IInv PROVE TypeOK
    OBVIOUS
  <2>1. Typed
    BY DEF IInv
  <2>2. ASSUME NEW r \in Requests
        PROVE  /\ task[r].pc \in {"off", "clustering", "query", "match", "comment", "label",
                                  "newlabel", "create", "store", "done", "lost"}
               /\ task[r].clusters \in Messages \cup {<<>>}
               /\ task[r].duplicate \in 0 .. Len(issues) + 1
               /\ told[r] \in Seq({"comment", "issue", "no_url", "error"})
    <3>1. task[r] \in Tasks /\ told[r] \in Seq(Results)
      BY <2>1 DEF Typed
    <3> QED
      BY <3>1 DEF Tasks, Pcs, Steps, Results
  <2> QED
    BY <2>1, <2>2 DEF Typed, TypeOK, Tickets
<1> QED
  BY <1>1, InvariantHolds, PTL

\* However many requests interleave, a topic gets one issue, unless two read the
\* tickets before either stored one, its ticket left the window, the model was
\* mistaken about it or its ticket was never stored.
THEOREM OneIssueEach == Spec => []OneIssuePerTopic
<1>1. IInv => OneIssuePerTopic
  <2> SUFFICES ASSUME IInv, NEW t \in Topics \ excused
               PROVE  Cardinality({i \in DOMAIN issues : issues[i].topic = t}) <= 1
    BY DEF OneIssuePerTopic
  <2>1. Single(t)
    BY DEF IInv, Settled
  <2>2. \A i, j \in {i \in DOMAIN issues : issues[i].topic = t} : i = j
    BY <2>1 DEF Single, IssueOf
  <2> QED
    BY <2>2, AtMostOne
<1> QED
  BY <1>1, InvariantHolds, PTL

\* A cluster is in one place of Linear at most, and there if its result says so; a
\* result that says otherwise is wrong only after a failure.
THEOREM FiledTruly == Spec => []FiledAsTold
<1>1. IInv => FiledAsTold
  <2> SUFFICES ASSUME IInv PROVE FiledAsTold
    OBVIOUS
  <2>0. Typed /\ OnePlace /\ ToldTruly
    BY DEF IInv, Filed
  <2> DEFINE filed(r, n) == {i \in DOMAIN issues : <<r, n>> \in issues[i].holds}
  <2>1. ASSUME NEW r \in Requests, NEW n \in DOMAIN task[r].clusters
        PROVE  Cardinality(filed(r, n)) <= 1
    <3>1. n \in Nat
      <4>1. task[r].clusters \in Messages \cup {<<>>}
        BY <2>0 DEF Typed, Tasks
      <4> QED
        BY <4>1, MessageIs
    <3>2. \A i, j \in filed(r, n) : i = j
      BY <2>0, <3>1 DEF OnePlace, Holds
    <3> QED
      BY <3>2, AtMostOne
  <2>2. \A r, n : filed(r, n) # {} <=> SomePlace(r, n)
    BY DEF SomePlace, Holds
  <2>3. ASSUME NEW r \in Requests, NEW n \in DOMAIN told[r]
        PROVE  /\ told[r][n] \in Results
               /\ told[r][n] \in {"issue", "comment"} => filed(r, n) # {}
               /\ told[r][n] = "no_url" => filed(r, n) = {}
               /\ told[r][n] = "error" /\ filed(r, n) # {} => faults > 0
    <3>1. told[r] \in Seq(Results)
      BY <2>0 DEF Typed
    <3>2. told[r][n] \in Results
      BY <3>1
    <3> QED
      BY <2>0, <2>2, <3>2 DEF ToldTruly
  <2> HIDE DEF filed
  <2>4. ASSUME NEW r \in Requests, NEW n \in DOMAIN told[r]
        PROVE  CASE told[r][n] \in {"issue", "comment"} -> filed(r, n) # {}
                 [] told[r][n] = "no_url" -> filed(r, n) = {}
                 [] OTHER -> filed(r, n) # {} => faults > 0
    BY <2>3 DEF Results
  <2>5. \A r \in Requests : \A n \in DOMAIN task[r].clusters :
           /\ Cardinality(filed(r, n)) <= 1
           /\ n \in DOMAIN told[r] =>
                CASE told[r][n] \in {"issue", "comment"} -> filed(r, n) # {}
                  [] told[r][n] = "no_url" -> filed(r, n) = {}
                  [] OTHER -> filed(r, n) # {} => faults > 0
    BY <2>1, <2>4
  <2> QED
    BY <2>5 DEF FiledAsTold, filed
<1> QED
  BY <1>1, InvariantHolds, PTL

=============================================================================
