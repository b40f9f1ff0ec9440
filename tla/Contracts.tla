------------------------------- MODULE Contracts -------------------------------
(***************************************************************************)
(* Contracts of Documenso: the webhook handlers for documents that were    *)
(* completed or rejected, and the table contract_mappings.                 *)
(*                                                                         *)
(* A handler reads the row of its document, writes it back with the new    *)
(* status, tells the Matrix room, and comments on the Linear issue of a    *)
(* rejected contract.  An error ends it, the answer is 500, and Documenso  *)
(* delivers the event again.  Nothing in the program sets an issue: people *)
(* do.  A missing issue is bound as an empty text, so COALESCE takes it    *)
(* for a value, and the next handler that reads the row does as well.      *)
(*                                                                         *)
(* Documenso, Matrix and Linear are external.                              *)
(***************************************************************************)
EXTENDS Naturals, Sequences, FiniteSets

CONSTANTS
    Documents,
    Handlers,    \* requests served at a time
    Histories,   \* bound of the model: what may happen to documents, each a
                 \* sequence of events that are a document and a kind
    NumEvents,   \* and how many events that is
    Budgets      \* bound of the model: how often each kind of trouble may come
                 \* in one behaviour, in all the combinations allowed

\* The last three kinds are up to the daemon around the handlers.
Trouble == {"fault", "link", "publish", "reload", "stop"}

ASSUME ContractBounds ==
    /\ NumEvents \in Nat
    /\ Budgets \subseteq [Trouble -> Nat]
    /\ Histories \subseteq [1 .. NumEvents -> [doc : Documents, kind : {"completed", "rejected"}]]

VARIABLES
    events,      \* what has happened to documents, or will, in order; whether a
                 \* handler was ever given it, and whether one has answered 200
    row,         \* contract_mappings
    handler,     \* per request: where it is, its event, the issue it found
    told,        \* events the Matrix room has been told of
    unheard,     \* events for which there was no bot to tell
    commented,   \* events Linear has a comment for
    used,        \* how often there has been trouble, of each kind
    linked,      \* history: documents whose row has been given an issue
    newest,      \* history: per document, the newest event written to its row
    wanted,      \* history: events whose only handler found the issue of the contract
    overtaken    \* history: documents whose events overlapped or were handled
                 \* out of order, or were linked while a handler was at work

ledger == <<events, row, handler, told, unheard, commented, linked, newest, wanted, overtaken>>
contracts == <<ledger, used>>

Events == 1 .. NumEvents
Statuses == {"none", "completed", "rejected"}

\* What a handler makes of the issue: there is no row, the column is NULL, it is
\* the empty text, or it is the id of an issue.
Issues == {"no row", "null", "blank", "issue"}

NoRow == [status |-> "none", issue |-> "no row"]
Idle == [pc |-> "idle", event |-> 0, found |-> "no row"]

ContractsInit ==
    /\ \E g \in Histories :
        events = [e \in Events |-> [doc |-> g[e].doc, kind |-> g[e].kind,
                                   tried |-> FALSE, accepted |-> FALSE]]
    /\ row = [d \in Documents |-> NoRow]
    /\ handler = [h \in Handlers |-> Idle]
    /\ told = {} /\ unheard = {} /\ commented = {}
    /\ used = [w \in Trouble |-> 0]
    /\ linked = {} /\ wanted = {} /\ overtaken = {}
    /\ newest = [d \in Documents |-> 0]

Spend(w) ==
    /\ used' = [used EXCEPT ![w] = @ + 1]
    /\ \E b \in Budgets : \A v \in Trouble : used'[v] <= b[v]

At(h, pc) == handler[h].pc = pc
Goes(h, pc) == handler' = [handler EXCEPT ![h].pc = pc]
EventOf(h) == events[handler[h].event]
Doc(h) == EventOf(h).doc
Busy(h) == ~At(h, "idle")

(***************************************************************************)
(* Documenso, and people.                                                  *)
(***************************************************************************)
\* Somebody sets the issue of a contract, whose row may be new.
Link ==
    /\ Spend("link")
    /\ \E d \in Documents :
        /\ row' = [row EXCEPT ![d].issue = "issue"]
        /\ linked' = linked \cup {d}
        /\ overtaken' = IF \E h \in Handlers : At(h, "upsert") /\ Doc(h) = d
                        THEN overtaken \cup {d} ELSE overtaken
    /\ UNCHANGED <<events, handler, told, unheard, commented, newest, wanted>>

\* The webhook of event e reaches handler h.  It comes again if it was not
\* accepted, and, when Documenso loses patience, while it is being handled.
Deliver(h, e) ==
    LET d == events[e].doc
        Same(n) == events[n].doc = d /\ n # e IN
    /\ ~Busy(h)
    /\ ~events[e].accepted
    /\ IF \E g \in Handlers : handler[g].event = e THEN Spend("fault") ELSE UNCHANGED used
    /\ handler' = [handler EXCEPT ![h] = [pc |-> "config", event |-> e, found |-> "no row"]]
    /\ events' = [events EXCEPT ![e].tried = TRUE]
    /\ overtaken' = IF \/ \E g \in Handlers : Busy(g) /\ Same(handler[g].event)
                       \/ \E n \in e + 1 .. NumEvents : Same(n) /\ events[n].tried
                    THEN overtaken \cup {d} ELSE overtaken
    /\ UNCHANGED <<row, told, unheard, commented, linked, newest, wanted>>

(***************************************************************************)
(* The handler.                                                            *)
(***************************************************************************)
Answers(h, accepted) ==
    /\ handler' = [handler EXCEPT ![h] = Idle]
    /\ events' = [events EXCEPT ![handler[h].event].accepted = @ \/ accepted]

\* get_contract_by_documenso_id.
Find(h) ==
    LET found == row[Doc(h)].issue IN
    /\ At(h, "find")
    /\ handler' = [handler EXCEPT ![h].pc = "upsert", ![h].found = found]
    /\ wanted' = IF /\ found = "issue"
                    /\ ~EventOf(h).accepted
                    /\ \A g \in Handlers \ {h} : handler[g].event # handler[h].event
                 THEN wanted \cup {handler[h].event} ELSE wanted
    /\ UNCHANGED <<events, row, told, unheard, commented, used, linked,
                   newest, overtaken>>

\* What is bound for an issue that was found, or not.
Bound(found) == IF found = "issue" THEN "issue" ELSE "blank"

\* A bug to compare with: what the row has comes first.
CoalesceTheRow(h) ==
    LET r == row[Doc(h)] IN
    [status |-> IF r.status = "none" THEN EventOf(h).kind ELSE r.status,
     issue |-> IF r.issue \in {"issue", "blank"} THEN r.issue ELSE Bound(handler[h].found)]

\* COALESCE(excluded.x, x): what is bound is never NULL, so it is what is bound.
Coalesced(h) == [status |-> EventOf(h).kind, issue |-> Bound(handler[h].found)]

\* upsert_contract.
Upserted(h) ==
    LET d == Doc(h) IN
    /\ row' = [row EXCEPT ![d] = Coalesced(h)]
    /\ newest' = [newest EXCEPT ![d] = IF @ < handler[h].event THEN handler[h].event ELSE @]

\* A bug to compare with: the row is inserted, and a second one is refused.
InsertOnce(h) ==
    /\ At(h, "upsert")
    /\ IF row[Doc(h)] = NoRow THEN Upserted(h) /\ Goes(h, "notify") /\ UNCHANGED events
       ELSE Answers(h, FALSE) /\ UNCHANGED <<row, newest>>
    /\ UNCHANGED <<told, unheard, commented, used, linked, wanted, overtaken>>

Upsert(h) ==
    /\ At(h, "upsert")
    /\ Upserted(h)
    /\ Goes(h, "notify")
    /\ UNCHANGED <<events, told, unheard, commented, used, linked, wanted, overtaken>>

\* A rejected contract whose row was there with an issue, or with an empty text.
Comments(h) == EventOf(h).kind = "rejected" /\ handler[h].found \in {"issue", "blank"}

Told(h) == IF Comments(h) THEN Goes(h, "comment") /\ UNCHANGED events ELSE Answers(h, TRUE)

\* notify_contract_event; bot is whether Matrix has one.  If not, that is all.
Notify(h, bot) ==
    /\ At(h, "notify")
    /\ told' = IF bot THEN told \cup {handler[h].event} ELSE told
    /\ unheard' = IF bot THEN unheard ELSE unheard \cup {handler[h].event}
    /\ Told(h)
    /\ UNCHANGED <<row, commented, used, linked, newest, wanted, overtaken>>

\* client is whether Linear has one.  No issue has an empty id.
Comment(h, client) ==
    /\ At(h, "comment")
    /\ client /\ handler[h].found = "issue"
    /\ commented' = commented \cup {handler[h].event}
    /\ Answers(h, TRUE)
    /\ UNCHANGED <<row, told, unheard, used, linked, newest, wanted, overtaken>>

CommentRefused(h, client) ==
    /\ At(h, "comment")
    /\ ~client \/ handler[h].found = "blank"
    /\ Answers(h, FALSE)
    /\ UNCHANGED <<row, told, unheard, commented, used, linked, newest, wanted, overtaken>>

\* A bug to compare with: an error of Matrix is logged, and that is all.
NotifyErrorLogged(h, bot, client) ==
    /\ At(h, "notify") /\ bot
    /\ Spend("fault")
    /\ Told(h)
    /\ UNCHANGED <<row, told, unheard, commented, linked, newest, wanted, overtaken>>

\* A call fails, or only its answer is lost.
StepFails(h, bot, client) ==
    /\ Spend("fault")
    /\ \/ At(h, "find") /\ UNCHANGED <<row, newest, told, commented>>
       \/ At(h, "upsert") /\ UNCHANGED <<row, newest, told, commented>>
       \/ At(h, "upsert") /\ Upserted(h) /\ UNCHANGED <<told, commented>>
       \/ /\ At(h, "notify") /\ bot
          /\ told' \in {told, told \cup {handler[h].event}}
          /\ UNCHANGED <<row, newest, commented>>
       \/ /\ At(h, "comment") /\ client /\ handler[h].found = "issue"
          /\ commented' \in {commented, commented \cup {handler[h].event}}
          /\ UNCHANGED <<row, newest, told>>
    /\ Answers(h, FALSE)
    /\ UNCHANGED <<unheard, linked, wanted, overtaken>>

HandlerStep(h, bot, client) ==
    \/ Find(h) \/ Upsert(h) \/ Notify(h, bot)
    \/ Comment(h, client) \/ CommentRefused(h, client) \/ StepFails(h, bot, client)

\* The daemon is gone: requests go with it, and the table stays.
Cut ==
    /\ handler' = [h \in Handlers |-> Idle]
    /\ UNCHANGED <<events, row, told, unheard, commented, linked, newest,
                   wanted, overtaken>>

(***************************************************************************)
(* Properties.                                                             *)
(***************************************************************************)

ContractsTypeOK ==
    /\ events \in [Events -> [doc : Documents, kind : {"completed", "rejected"},
                              tried : BOOLEAN, accepted : BOOLEAN]]
    /\ row \in [Documents -> [status : Statuses, issue : Issues]]
    /\ \A d \in Documents : row[d].status # "none" => row[d].issue \in {"blank", "issue"}
    /\ handler \in [Handlers -> [pc : {"idle", "config", "find", "upsert", "notify", "comment"},
                                 event : 0 .. NumEvents, found : Issues]]
    /\ \A h \in Handlers : Busy(h) <=> handler[h].event # 0
    /\ told \cup unheard \cup commented \cup wanted \subseteq Events
    /\ used \in [Trouble -> Nat]
    /\ linked \cup overtaken \subseteq Documents
    /\ newest \in [Documents -> 0 .. NumEvents]

\* Through repeated and failed webhooks, the row of a contract has the status of
\* the newest event a handler has written, and the issue somebody gave it.  The
\* exceptions are named: events of one document that overlap or come out of
\* order, and an issue set between a handler's read and its write.
ContractIsKept ==
    \A d \in Documents \ overtaken :
        /\ newest[d] # 0 => row[d].status = events[newest[d]].kind
        /\ d \in linked => row[d].issue = "issue"

\* An event Documenso is told to forget has been dealt with: its row was written,
\* the room was told of it if there was a bot, and a rejection is in the issue
\* its handler found.
AcceptedIsDone ==
    \A e \in Events : events[e].accepted =>
        /\ newest[events[e].doc] >= e
        /\ e \in told \cup unheard
        /\ events[e].kind = "rejected" /\ e \in wanted => e \in commented

=============================================================================
