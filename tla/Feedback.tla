------------------------------ MODULE Feedback ------------------------------
(***************************************************************************)
(* Product feedback.  The webhook answers 202 and leaves the rest to a     *)
(* detached task: a language model splits the message into clusters, and   *)
(* for each of them the task reads the newest tickets of its category,     *)
(* asks the model whether one of them is about the same, and either        *)
(* comments on that issue or finds the label, creates an issue with it and *)
(* stores a ticket.  Tasks of several requests interleave at every await.  *)
(*                                                                         *)
(* A topic is what a cluster is about; its category comes with it.  Linear *)
(* and the language model are external: Linear may lose an answer after it *)
(* has done what it was asked, and the model may be mistaken.              *)
(***************************************************************************)
EXTENDS Naturals, Sequences, FiniteSets

CONSTANTS
    Requests,
    Topics,
    Category,     \* of each topic
    Window,       \* tickets the model is shown, LIMIT of the query
    MaxClusters,  \* bound: clusters of a message
    MaxFaults     \* bound: failures, lost answers, mistakes, restarts

ASSUME WindowAssumption == Window \in Nat \ {0}
ASSUME BoundAssumption == MaxClusters \in Nat \ {0} /\ MaxFaults \in Nat

Categories == {Category[t] : t \in Topics}
Messages == UNION {[1 .. n -> Topics] : n \in 1 .. MaxClusters}

VARIABLES
    labels,     \* of the Linear team, per category: the spellings there are
    issues,     \* of Linear: what each was opened for, and the clusters it holds
    tickets,    \* rows of feedback_tickets in the order of created_at
    task,       \* per request: where it is, its clusters, rows read, duplicate
    told,       \* per request: the results so far
    faults,     \* how many there have been
    excused     \* history: topics that may have a second issue

vars == <<labels, issues, tickets, task, told, faults, excused>>

\* What there may be of a category before the first request: nothing, the label
\* as the task would spell it, or one in another case.
FirstLabels == {<<>>, <<"Bug">>, <<"bug">>}

Idle == [pc |-> "off", clusters |-> <<>>, rows |-> {}, duplicate |-> 0]

Init ==
    /\ labels \in [Categories -> FirstLabels]
    /\ issues = <<>>
    /\ tickets = <<>>
    /\ task = [r \in Requests |-> Idle]
    /\ told = [r \in Requests |-> <<>>]
    /\ faults = 0
    /\ excused = {}

(***************************************************************************)
(* Helpers.                                                                *)
(***************************************************************************)
At(r, pc) == task[r].pc = pc
Goes(r, pc) == task' = [task EXCEPT ![r].pc = pc]

Now(r) == Len(told[r]) + 1                      \* the cluster it is at
Topic(r) == task[r].clusters[Now(r)]
CategoryOf(row) == Category[row.topic]

Fault ==
    /\ faults < MaxFaults
    /\ faults' = faults + 1

\* The cluster is finished with this result; the next one starts over.
Result(r, what) ==
    /\ told' = [told EXCEPT ![r] = Append(@, what)]
    /\ task' = [task EXCEPT ![r] =
            [@ EXCEPT !.pc = IF Now(r) = Len(task[r].clusters) THEN "done" ELSE "query",
                      !.rows = {}, !.duplicate = 0]]

OfCategory(c) == {n \in DOMAIN tickets : CategoryOf(tickets[n]) = c}

\* A bug to compare with: the query does not say DESC.
OldestOf(c) == {tickets[n] : n \in {n \in OfCategory(c) : Cardinality({m \in OfCategory(c) : m < n}) < Window}}

\* The rows of a query: the newest of the category.
Newest(c) == {tickets[n] : n \in {n \in OfCategory(c) : Cardinality({m \in OfCategory(c) : m > n}) < Window}}

Shows(rows, t) == \E row \in rows : row.topic = t

\* r has read the tickets and may yet store one.
Deciding(r) == task[r].pc \in {"match", "label", "newlabel", "create", "store"}

Stored(t) == \E n \in DOMAIN tickets : tickets[n].topic = t

\* The rows of topic t fell out of the window: others are newer and fill it.
Forgotten(t) ==
    /\ Stored(t)
    /\ \A n \in OfCategory(Category[t]) : tickets[n].topic = t =>
          Cardinality({m \in OfCategory(Category[t]) : m > n}) >= Window

(***************************************************************************)
(* The request and the model's reading of it.                              *)
(***************************************************************************)
Accept(r) ==
    /\ At(r, "off")
    /\ Goes(r, "clustering")
    /\ UNCHANGED <<labels, issues, tickets, told, faults, excused>>

Clustered(r) ==
    /\ At(r, "clustering")
    /\ \E m \in Messages : task' = [task EXCEPT ![r].pc = "query", ![r].clusters = m]
    /\ UNCHANGED <<labels, issues, tickets, told, faults, excused>>

\* No clusters, no answer, one that does not parse, no connector or no team: the
\* feedback is in the log at best.
NotClustered(r) ==
    /\ At(r, "clustering")
    /\ Goes(r, "done")
    /\ Fault
    /\ UNCHANGED <<labels, issues, tickets, told, excused>>

(***************************************************************************)
(* Is there an issue already?                                              *)
(***************************************************************************)
Query(r) ==
    /\ At(r, "query")
    /\ LET t == Topic(r)
           rows == Newest(Category[t])
       IN  /\ task' = [task EXCEPT ![r].rows = rows,
                                   ![r].pc = IF rows = {} THEN "label" ELSE "match"]
           /\ excused' = IF \/ Forgotten(t)
                            \/ \E d \in Requests \ {r} : Deciding(d) /\ Topic(d) = t
                         THEN excused \cup {t} ELSE excused
    /\ UNCHANGED <<labels, issues, tickets, told, faults>>

QueryFails(r) ==
    /\ At(r, "query")
    /\ Result(r, "error")
    /\ Fault
    /\ UNCHANGED <<labels, issues, tickets, excused>>

\* The model is right: a row with the same topic, or none.
Match(r) ==
    /\ At(r, "match")
    /\ \/ \E row \in task[r].rows :
              /\ row.topic = Topic(r)
              /\ task' = [task EXCEPT ![r].pc = "comment", ![r].duplicate = row.issue]
       \/ ~Shows(task[r].rows, Topic(r)) /\ Goes(r, "label")
    /\ UNCHANGED <<labels, issues, tickets, told, faults, excused>>

\* It is not, or does not answer, which counts as "no duplicate": it misses the
\* row, takes another one, or names an issue there is not.
Mismatch(r) ==
    /\ At(r, "match")
    /\ Fault
    /\ \/ /\ Shows(task[r].rows, Topic(r))
          /\ Goes(r, "label")
          /\ excused' = excused \cup {Topic(r)}
       \/ /\ \E i \in {row.issue : row \in task[r].rows} \cup {Len(issues) + 1} :
                 task' = [task EXCEPT ![r].pc = "comment", ![r].duplicate = i]
          /\ UNCHANGED excused
    /\ UNCHANGED <<labels, issues, tickets, told>>

\* The cluster becomes a comment on the issue it was found to repeat.
Commented(r) == issues' = [issues EXCEPT ![task[r].duplicate].holds = @ \cup {<<r, Now(r)>>}]

\* A bug to compare with: without `continue` the cluster gets an issue as well.
CommentFallsThrough(r) ==
    /\ At(r, "comment")
    /\ task[r].duplicate \in DOMAIN issues
    /\ Commented(r)
    /\ Goes(r, "label")
    /\ UNCHANGED <<labels, tickets, told, faults, excused>>

Comment(r) ==
    /\ At(r, "comment")
    /\ task[r].duplicate \in DOMAIN issues
    /\ Commented(r)
    /\ Result(r, "comment")
    /\ UNCHANGED <<labels, tickets, faults, excused>>

\* There is no such issue, the call fails, or its answer is lost.
CommentFails(r) ==
    /\ At(r, "comment")
    /\ \/ task[r].duplicate \notin DOMAIN issues /\ UNCHANGED <<issues, faults>>
       \/ Fault /\ UNCHANGED issues
       \/ task[r].duplicate \in DOMAIN issues /\ Fault /\ Commented(r)
    /\ Result(r, "error")
    /\ UNCHANGED <<labels, tickets, excused>>

(***************************************************************************)
(* get_or_create_label, then the issue, then the ticket.                   *)
(***************************************************************************)
\* The comparison ignores case.
Known(c) == \E n \in DOMAIN labels[c] : labels[c][n] \in {"Bug", "bug"}

FindLabel(r) ==
    /\ At(r, "label")
    /\ Goes(r, IF Known(Category[Topic(r)]) THEN "create" ELSE "newlabel")
    /\ UNCHANGED <<labels, issues, tickets, told, faults, excused>>

NewLabel(r) ==
    /\ At(r, "newlabel")
    /\ labels' = [labels EXCEPT ![Category[Topic(r)]] = Append(@, "Bug")]
    /\ Goes(r, "create")
    /\ UNCHANGED <<issues, tickets, told, faults, excused>>

\* Either call fails, or Linear refuses a second label of that name, or the
\* answer with the new label is lost.
LabelFails(r) ==
    /\ task[r].pc \in {"label", "newlabel"}
    /\ \/ Fault /\ UNCHANGED labels
       \/ /\ At(r, "newlabel") /\ labels[Category[Topic(r)]] # <<>>
          /\ UNCHANGED <<labels, faults>>
       \/ /\ At(r, "newlabel") /\ Fault
          /\ labels' = [labels EXCEPT ![Category[Topic(r)]] = Append(@, "Bug")]
    /\ Result(r, "error")
    /\ UNCHANGED <<issues, tickets, excused>>

Opened(r) == issues' = Append(issues, [topic |-> Topic(r), holds |-> {<<r, Now(r)>>}])

Create(r) ==
    /\ At(r, "create")
    /\ Opened(r)
    /\ task' = [task EXCEPT ![r].pc = "store", ![r].duplicate = Len(issues')]
    /\ UNCHANGED <<labels, tickets, told, faults, excused>>

\* A bug to compare with: a ticket is stored for an issue without an id.
CreateFailsStores(r) ==
    /\ At(r, "create")
    /\ Fault
    /\ tickets' = Append(tickets, [topic |-> Topic(r), issue |-> 0])
    /\ Result(r, "no_url")
    /\ UNCHANGED <<labels, issues, excused>>

\* Linear answers without an issue: the result looks like a success without a
\* URL.  Or the call fails, or its answer is lost.
CreateFails(r) ==
    /\ At(r, "create")
    /\ Fault
    /\ \/ Result(r, "no_url") /\ UNCHANGED <<issues, excused>>
       \/ Result(r, "error") /\ UNCHANGED <<issues, excused>>
       \/ /\ Result(r, "error")
          /\ Opened(r)
          /\ excused' = excused \cup {Topic(r)}
    /\ UNCHANGED <<labels, tickets>>

Store(r) ==
    /\ At(r, "store")
    /\ tickets' = Append(tickets, [topic |-> Topic(r), issue |-> task[r].duplicate])
    /\ Result(r, "issue")
    /\ UNCHANGED <<labels, issues, faults, excused>>

\* The error of the insert is dropped.
StoreFails(r) ==
    /\ At(r, "store")
    /\ Fault
    /\ excused' = excused \cup {Topic(r)}
    /\ Result(r, "issue")
    /\ UNCHANGED <<labels, issues, tickets>>

\* The daemon dies with its tasks: what was accepted is gone.
Restart ==
    /\ Fault
    /\ excused' = excused \cup {Topic(r) : r \in {r \in Requests : At(r, "store")}}
    /\ task' = [r \in Requests |->
            IF task[r].pc \in {"off", "done"} THEN task[r] ELSE [task[r] EXCEPT !.pc = "lost"]]
    /\ UNCHANGED <<labels, issues, tickets, told>>

Step(r) ==
    \/ Accept(r) \/ Clustered(r) \/ NotClustered(r)
    \/ Query(r) \/ QueryFails(r) \/ Match(r) \/ Mismatch(r)
    \/ Comment(r) \/ CommentFails(r)
    \/ FindLabel(r) \/ NewLabel(r) \/ LabelFails(r)
    \/ Create(r) \/ CreateFails(r) \/ Store(r) \/ StoreFails(r)

Next == Restart \/ \E r \in Requests : Step(r)

Spec == Init /\ [][Next]_vars

(***************************************************************************)
(* Properties.                                                             *)
(***************************************************************************)

Clusters == Requests \X (1 .. MaxClusters)

\* Types, and what they exclude: a ticket of an issue that Linear never opened.
TypeOK ==
    /\ labels \in [Categories -> Seq({"Bug", "bug"})]
    /\ issues \in Seq([topic : Topics, holds : SUBSET Clusters])
    /\ tickets \in Seq([topic : Topics, issue : 1 .. Len(issues)])
    /\ \A r \in Requests :
        /\ task[r].pc \in {"off", "clustering", "query", "match", "comment", "label",
                           "newlabel", "create", "store", "done", "lost"}
        /\ task[r].clusters \in Messages \cup {<<>>}
        /\ task[r].duplicate \in 0 .. Len(issues) + 1
        /\ told[r] \in Seq({"comment", "issue", "no_url", "error"})
    /\ faults \in 0 .. MaxFaults
    /\ excused \subseteq Topics

\* However requests interleave and however often a topic comes back, also within
\* a message, it gets one issue, and comments after that.  The exceptions are
\* named: two tasks that read the tickets before either stored one, a ticket
\* older than the window, a mistake of the model, and an issue whose ticket was
\* never stored.
OneIssuePerTopic ==
    \A t \in Topics \ excused :
        Cardinality({i \in DOMAIN issues : issues[i].topic = t}) <= 1

\* A cluster is in Linear in one place at most; it is there if the result says so,
\* and if the result is an error it may be there only because an answer was lost.
FiledAsTold ==
    \A r \in Requests : \A n \in DOMAIN task[r].clusters :
        LET filed == {i \in DOMAIN issues : <<r, n>> \in issues[i].holds} IN
        /\ Cardinality(filed) <= 1
        /\ n \in DOMAIN told[r] =>
            CASE told[r][n] \in {"issue", "comment"} -> filed # {}
              [] told[r][n] = "no_url" -> filed = {}
              [] OTHER -> filed # {} => faults > 0

=============================================================================
