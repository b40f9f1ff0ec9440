----------------------------- MODULE ServerProofs -----------------------------
(***************************************************************************)
(* Contracts are kept, and what Documenso may forget has been done, for    *)
(* any number of contracts, events, requests at a time and troubles, with  *)
(* reloads, publishers, shutdowns and restarts around them.                *)
(*                                                                         *)
(* Unless a contract is overtaken, all requests at work for it are for one *)
(* event, and none later was ever tried (NoneNewer); and a request that is *)
(* about to write has the issue that was set (IssueCarried).  An issue     *)
(* that was found once leaves a row for everyone who looks after it        *)
(* (WantedIsSeen), so that nobody gets past the comment without it.        *)
(* And nobody waits twice for the config, or keeps it without publishing.  *)
(***************************************************************************)
EXTENDS Server, TLAPS

EventRecords == [doc : Documents, kind : {"completed", "rejected"}, tried : BOOLEAN, accepted : BOOLEAN]
Rows == [status : Statuses, issue : Issues]
Requests == [pc : {"idle", "config", "find", "upsert", "notify", "comment"},
             event : 0 .. NumEvents, found : Issues]

\* An issue that is, or is taken for, one.
Seen == {"blank", "issue"}

Typed ==
    /\ events \in [Events -> EventRecords]
    /\ row \in [Documents -> Rows]
    /\ \A d \in Documents : row[d].status # "none" => row[d].issue \in Seen
    /\ handler \in [Handlers -> Requests]
    /\ \A h \in Handlers : Busy(h) <=> handler[h].event # 0
    /\ newest \in [Documents -> 0 .. NumEvents]

\* What has been written was delivered, and for the document it was written to.
WrittenWasTried ==
    /\ \A h \in Handlers : Busy(h) => EventOf(h).tried
    /\ \A d \in Documents : newest[d] # 0 => events[newest[d]].doc = d /\ events[newest[d]].tried

NoneNewer ==
    \A h \in Handlers : Busy(h) /\ Doc(h) \notin overtaken =>
        \A n \in Events : events[n].doc = Doc(h) /\ events[n].tried => n <= handler[h].event

IssueCarried ==
    \A h \in Handlers :
        At(h, "upsert") /\ Doc(h) \in linked /\ Doc(h) \notin overtaken => handler[h].found = "issue"

\* How far a request has come.
HasWritten ==
    \A h \in Handlers : handler[h].pc \in {"notify", "comment"} => newest[Doc(h)] >= handler[h].event

HasTold ==
    \A h \in Handlers : At(h, "comment") => handler[h].event \in told \cup unheard

WantedIsSeen ==
    \A e \in Events \cap wanted :
        /\ row[events[e].doc].issue \in Seen
        /\ \A h \in Handlers :
            handler[h].event = e /\ handler[h].pc \in {"upsert", "notify", "comment"} => handler[h].found \in Seen

IInv ==
    /\ Typed
    /\ WrittenWasTried
    /\ NoneNewer
    /\ IssueCarried
    /\ HasWritten
    /\ HasTold
    /\ WantedIsSeen
    /\ ContractIsKept
    /\ AcceptedIsDone

LEMMA InitInv == Init => IInv
<1> SUFFICES ASSUME Init PROVE IInv
  OBVIOUS
<1>1. PICK g \in Histories :
        events = [e \in Events |-> [doc |-> g[e].doc, kind |-> g[e].kind, tried |-> FALSE, accepted |-> FALSE]]
  BY DEF Init, ContractsInit
<1>2. \A e \in Events : g[e].doc \in Documents /\ g[e].kind \in {"completed", "rejected"}
  BY ContractBounds DEF Events
<1>3. events \in [Events -> EventRecords]
  <2>1. \A e \in Events :
            [doc |-> g[e].doc, kind |-> g[e].kind, tried |-> FALSE, accepted |-> FALSE] \in EventRecords
    BY <1>2 DEF EventRecords
  <2> QED
    BY <1>1, <2>1
<1>4. \A e \in Events : ~events[e].tried /\ ~events[e].accepted
  BY <1>1
<1>5. NumEvents \in Nat
  BY ContractBounds
<1>6. Idle \in Requests /\ Idle.pc = "idle" /\ Idle.event = 0
  BY <1>5 DEF Idle, Requests, Issues
<1>7. /\ handler = [h \in Handlers |-> Idle] /\ newest = [d \in Documents |-> 0]
      /\ row = [d \in Documents |-> NoRow] /\ linked = {} /\ wanted = {} /\ overtaken = {}
  BY DEF Init, ContractsInit
<1> USE DEF Events
<1>8. \A h \in Handlers : handler[h].pc = "idle" /\ handler[h].event = 0 /\ ~Busy(h)
  BY <1>6, <1>7 DEF Busy, At
<1>9. Typed
  <2>1. NoRow \in Rows /\ NoRow.status = "none"
    BY DEF NoRow, Rows, Statuses, Issues
  <2>2. row \in [Documents -> Rows] /\ \A d \in Documents : row[d].status = "none"
    BY <1>7, <2>1
  <2>3. handler \in [Handlers -> Requests]
    BY <1>6, <1>7
  <2>4. newest \in [Documents -> 0 .. NumEvents]
    BY <1>5, <1>7
  <2> QED
    BY <1>3, <1>8, <2>2, <2>3, <2>4 DEF Typed
<1>10. WrittenWasTried /\ NoneNewer /\ IssueCarried /\ HasWritten /\ HasTold /\ WantedIsSeen
  BY <1>7, <1>8 DEF WrittenWasTried, NoneNewer, IssueCarried, HasWritten, HasTold, WantedIsSeen, At
<1>11. ContractIsKept /\ AcceptedIsDone
  BY <1>4, <1>7 DEF ContractIsKept, AcceptedIsDone
<1> QED
  BY <1>9, <1>10, <1>11 DEF IInv

\* What the types say of a request at work.
LEMMA AtWork ==
    ASSUME Typed, NEW h \in Handlers, Busy(h)
    PROVE  /\ handler[h].event \in Events /\ handler[h].event \in Nat /\ handler[h].event # 0
           /\ EventOf(h) \in EventRecords /\ Doc(h) \in Documents
           /\ EventOf(h).kind \in {"completed", "rejected"}
           /\ handler[h] \in Requests
<1>1. handler[h] \in Requests /\ handler[h].event # 0 /\ NumEvents \in Nat
  BY ContractBounds DEF Typed
<1>2. handler[h].event \in 1 .. NumEvents
  BY <1>1 DEF Requests
<1>3. EventOf(h) \in EventRecords
  BY <1>2 DEF Typed, EventOf, Events
<1> QED
  BY <1>1, <1>2, <1>3 DEF Events, Doc, EventRecords

\* A step of request h may write its row, and nothing else of the table.
Writes(h) == UNCHANGED <<row, newest>> \/ (At(h, "upsert") /\ Upserted(h))

\* What that does to the table.
LEMMA WrittenRow ==
    ASSUME IInv, NEW h \in Handlers, Busy(h), Writes(h)
    PROVE  /\ row' \in [Documents -> Rows] /\ newest' \in [Documents -> 0 .. NumEvents]
           /\ \A d \in Documents :
                /\ newest'[d] >= newest[d]
                /\ row'[d].status # "none" => row'[d].issue \in Seen
                /\ row[d].issue \in Seen => row'[d].issue \in Seen
                /\ newest'[d] # 0 => events[newest'[d]].doc = d /\ events[newest'[d]].tried
                /\ d \notin overtaken /\ newest'[d] # 0 => row'[d].status = events[newest'[d]].kind
                /\ d \notin overtaken /\ d \in linked => row'[d].issue = "issue"
           /\ At(h, "upsert") /\ Upserted(h) => newest'[Doc(h)] >= handler[h].event
<1>1. /\ Typed /\ WrittenWasTried /\ NoneNewer /\ IssueCarried /\ ContractIsKept
      /\ \A d \in Documents : newest[d] \in Nat
  BY DEF IInv, Typed
<1> DEFINE d0 == Doc(h)
           e0 == handler[h].event
<1>2. /\ e0 \in Events /\ e0 \in Nat /\ e0 # 0 /\ d0 \in Documents /\ e0 \in 0 .. NumEvents
      /\ EventOf(h).kind \in {"completed", "rejected"} /\ events[e0].doc = d0 /\ events[e0].tried
      /\ handler[h] \in Requests
  BY <1>1, AtWork DEF WrittenWasTried, EventOf, Doc, Requests
<1>3. CASE UNCHANGED <<row, newest>>
  <2>1. At(h, "upsert") /\ Upserted(h) => newest'[Doc(h)] >= handler[h].event
    BY <1>1, <1>2, <1>3 DEF Upserted, Typed
  <2> QED
    BY <1>1, <1>3, <2>1 DEF Typed, WrittenWasTried, ContractIsKept
<1>4. CASE At(h, "upsert") /\ Upserted(h)
  <2>1. /\ row' = [row EXCEPT ![d0] = Coalesced(h)]
        /\ newest' = [newest EXCEPT ![d0] = IF newest[d0] < e0 THEN e0 ELSE newest[d0]]
    BY <1>1, <1>2, <1>4 DEF Upserted, Typed
  <2>2. /\ Coalesced(h) \in Rows /\ Coalesced(h).issue \in Seen
        /\ Coalesced(h).status = EventOf(h).kind
        /\ handler[h].found = "issue" => Coalesced(h).issue = "issue"
    BY <1>2 DEF Coalesced, Bound, Rows, Statuses, Issues, Seen
  <2> HIDE DEF d0, e0
  <2>3. /\ row'[d0] = Coalesced(h) /\ \A d \in Documents \ {d0} : row'[d] = row[d]
        /\ row' \in [Documents -> Rows]
    BY <1>1, <1>2, <2>1, <2>2 DEF Typed
  <2>4. /\ newest'[d0] = (IF newest[d0] < e0 THEN e0 ELSE newest[d0])
        /\ \A d \in Documents \ {d0} : newest'[d] = newest[d]
    BY <1>1, <1>2, <2>1 DEF Typed
  <2>5. newest'[d0] >= newest[d0] /\ newest'[d0] >= e0 /\ newest'[d0] \in {e0, newest[d0]}
    BY <1>1, <1>2, <2>4
  <2>6. newest' \in [Documents -> 0 .. NumEvents]
    BY <1>1, <1>2, <2>1 DEF Typed
  <2>7. newest'[d0] # 0 => events[newest'[d0]].doc = d0 /\ events[newest'[d0]].tried
    BY <1>1, <1>2, <2>5 DEF WrittenWasTried
  <2>8. ASSUME d0 \notin overtaken PROVE newest'[d0] = e0
    <3>1. CASE newest[d0] = 0
      BY <1>2, <2>4, <3>1
    <3>2. CASE newest[d0] # 0
      <4>1. newest[d0] \in Events
        BY <1>1, <1>2, <3>2, ContractBounds DEF Typed, Events
      <4>2. newest[d0] <= e0
        BY <1>1, <1>2, <2>8, <3>2, <4>1 DEF NoneNewer, WrittenWasTried, d0, e0
      <4> QED
        BY <1>1, <1>2, <2>4, <4>2
    <3> QED
      BY <3>1, <3>2
  <2>9. d0 \notin overtaken /\ newest'[d0] # 0 => row'[d0].status = events[newest'[d0]].kind
    BY <2>2, <2>3, <2>8 DEF EventOf, e0
  <2>10. d0 \notin overtaken /\ d0 \in linked => row'[d0].issue = "issue"
    BY <1>1, <1>4, <2>2, <2>3 DEF IssueCarried, d0
  <2>11. \A d \in Documents \ {d0} :
            /\ newest'[d] >= newest[d]
            /\ row'[d].status # "none" => row'[d].issue \in Seen
            /\ row[d].issue \in Seen => row'[d].issue \in Seen
            /\ newest'[d] # 0 => events[newest'[d]].doc = d /\ events[newest'[d]].tried
            /\ d \notin overtaken /\ newest'[d] # 0 => row'[d].status = events[newest'[d]].kind
            /\ d \notin overtaken /\ d \in linked => row'[d].issue = "issue"
    BY <1>1, <2>3, <2>4 DEF Typed, WrittenWasTried, ContractIsKept
  <2> QED
    BY <2>2, <2>3, <2>5, <2>6, <2>7, <2>9, <2>10, <2>11 DEF d0, e0
<1> QED
  BY <1>3, <1>4 DEF Writes

\* What a step says of the events: they stay what they are, and those that are
\* accepted by it are h's, and were dealt with.
EventsStay ==
    /\ events' \in [Events -> EventRecords]
    /\ \A e \in Events :
        /\ events'[e].doc = events[e].doc /\ events'[e].kind = events[e].kind
        /\ events'[e].tried <=> events[e].tried

AcceptedBy(h) ==
    \A e \in Events : events'[e].accepted /\ ~events[e].accepted =>
        /\ e = handler[h].event
        /\ handler[h].pc \in {"notify", "comment"}
        /\ e \in told' \cup unheard'
        /\ events[e].kind = "rejected" /\ e \in wanted => e \in commented'

\* Request h goes on to x: from the look-up it takes the issue it found along, to
\* the message it goes once its row is written, to the comment once it has told.
GoesOn(h, x) ==
    /\ x = Idle \/ (x.event = handler[h].event /\ x.pc # "idle")
    /\ x.pc = "upsert" => At(h, "find") /\ x.found = row[Doc(h)].issue
    /\ x.pc \in {"notify", "comment"} => x.found = handler[h].found
    /\ x.pc = "notify" => At(h, "upsert") /\ Upserted(h)
    /\ x.pc = "comment" => At(h, "notify") /\ handler[h].event \in told' \cup unheard'

\* An event is wanted from the moment its only request has found an issue.
BecomesWanted(h, x) ==
    /\ wanted \subseteq wanted'
    /\ \A e \in wanted' \ wanted :
        /\ e = handler[h].event /\ ~events[e].accepted
        /\ x.pc = "upsert" /\ x.found = "issue"
        /\ \A g \in Handlers \ {h} : handler[g].event # e

\* A step of a request that is at work.
LEMMA Moves ==
    ASSUME IInv, NEW h \in Handlers, Busy(h), Writes(h),
           NEW x \in Requests, handler' = [handler EXCEPT ![h] = x],
           GoesOn(h, x), BecomesWanted(h, x), EventsStay, AcceptedBy(h),
           UNCHANGED <<linked, overtaken>>,
           told \subseteq told', unheard \subseteq unheard', commented \subseteq commented'
    PROVE  IInv'
<1>1. /\ Typed /\ WrittenWasTried /\ NoneNewer /\ IssueCarried /\ HasWritten /\ HasTold /\ WantedIsSeen
      /\ ContractIsKept /\ AcceptedIsDone
  BY DEF IInv
<1>2. /\ handler[h].event \in Events /\ handler[h].event \in Nat /\ Doc(h) \in Documents
      /\ Events' = Events
  BY <1>1, AtWork DEF Events
<1>3. /\ row' \in [Documents -> Rows] /\ newest' \in [Documents -> 0 .. NumEvents]
      /\ \A d \in Documents :
           /\ newest'[d] >= newest[d]
           /\ row'[d].status # "none" => row'[d].issue \in Seen
           /\ row[d].issue \in Seen => row'[d].issue \in Seen
           /\ newest'[d] # 0 => events[newest'[d]].doc = d /\ events[newest'[d]].tried
           /\ d \notin overtaken /\ newest'[d] # 0 => row'[d].status = events[newest'[d]].kind
           /\ d \notin overtaken /\ d \in linked => row'[d].issue = "issue"
      /\ At(h, "upsert") /\ Upserted(h) => newest'[Doc(h)] >= handler[h].event
  BY WrittenRow
<1>4. /\ handler'[h] = x /\ \A g \in Handlers \ {h} : handler'[g] = handler[g]
      /\ handler' \in [Handlers -> Requests]
  BY <1>1 DEF Typed
<1>5. \A g \in Handlers : Busy(g) => handler[g].event \in Events
  BY <1>1, AtWork
<1>going. /\ x.pc = "idle" => x.event = 0
          /\ x.pc # "idle" => x.event = handler[h].event
          /\ x.event # 0 => x.pc # "idle"
          /\ handler[h].event # 0
  <2>1. Idle.pc = "idle" /\ Idle.event = 0
    BY DEF Idle
  <2>2. handler[h].event # 0
    BY <1>1 DEF Typed
  <2> QED
    BY <2>1, <2>2 DEF GoesOn
<1>6. \A g \in Handlers : Busy(g)' =>
          /\ Busy(g) /\ handler'[g].event = handler[g].event
          /\ Doc(g)' = Doc(g) /\ Doc(g) \in Documents
  <2> SUFFICES ASSUME NEW g \in Handlers, Busy(g)'
               PROVE  /\ Busy(g) /\ handler'[g].event = handler[g].event
                      /\ Doc(g)' = Doc(g) /\ Doc(g) \in Documents
    OBVIOUS
  <2>1. Busy(g) /\ handler'[g].event = handler[g].event
    <3>1. CASE g = h
      BY <3>1, <1>4, <1>going DEF Busy, At
    <3>2. CASE g # h
      BY <3>2, <1>4 DEF Busy, At
    <3> QED
      BY <3>1, <3>2
  <2> QED
    BY <1>1, <1>5, <2>1, AtWork DEF Doc, EventOf, EventsStay
<1>7. Typed'
  <2>1. \A g \in Handlers : Busy(g)' <=> handler'[g].event # 0
    <3>1. x.pc # "idle" <=> x.event # 0
      BY <1>going
    <3> QED
      BY <1>1, <1>4, <3>1 DEF Busy, At, Typed
  <2> QED
    BY <1>2, <1>3, <1>4, <2>1 DEF Typed, EventsStay
<1>8. \A d \in Documents : newest'[d] # 0 => newest'[d] \in Events
  BY <1>3, ContractBounds DEF Events
<1>9. WrittenWasTried'
  <2>1. \A g \in Handlers : Busy(g)' => EventOf(g)'.tried
    BY <1>1, <1>5, <1>6 DEF WrittenWasTried, EventOf, EventsStay
  <2>2. \A d \in Documents : newest'[d] # 0 => events'[newest'[d]].doc = d /\ events'[newest'[d]].tried
    BY <1>3, <1>8 DEF EventsStay
  <2> QED
    BY <2>1, <2>2 DEF WrittenWasTried
<1>10. NoneNewer'
  BY <1>1, <1>2, <1>6 DEF NoneNewer, EventsStay
<1>11. IssueCarried'
  <2> SUFFICES ASSUME NEW g \in Handlers, At(g, "upsert")', Doc(g)' \in linked, Doc(g)' \notin overtaken
               PROVE  handler'[g].found = "issue"
    BY DEF IssueCarried
  <2>1. Doc(g)' = Doc(g) /\ Doc(g) \in Documents
    BY <1>6 DEF At, Busy
  <2>2. CASE g = h
    BY <1>1, <1>4, <2>1, <2>2 DEF At, GoesOn, ContractIsKept
  <2>3. CASE g # h
    BY <1>1, <1>4, <2>1, <2>3 DEF At, IssueCarried
  <2> QED
    BY <2>2, <2>3
<1>12. HasWritten'
  <2> SUFFICES ASSUME NEW g \in Handlers, handler'[g].pc \in {"notify", "comment"}
               PROVE  newest'[Doc(g)'] >= handler'[g].event
    BY DEF HasWritten
  <2>1. /\ Doc(g)' = Doc(g) /\ Doc(g) \in Documents /\ handler'[g].event = handler[g].event
        /\ handler[g].event \in Nat
    BY <1>1, <1>6, AtWork DEF At, Busy
  <2>2. newest[Doc(g)] \in Nat /\ newest'[Doc(g)] \in Nat
    BY <1>1, <1>3, <2>1 DEF Typed
  <2>3. newest[Doc(g)] >= handler[g].event \/ (g = h /\ At(h, "upsert") /\ Upserted(h))
    BY <1>1, <1>4 DEF HasWritten, GoesOn, At
  <2> QED
    BY <1>3, <2>1, <2>2, <2>3
<1>13. HasTold'
  BY <1>1, <1>4, <1>6 DEF HasTold, GoesOn, At, Busy
<1>14. WantedIsSeen'
  <2> SUFFICES ASSUME NEW e \in Events, e \in wanted'
               PROVE  /\ row'[events'[e].doc].issue \in Seen
                      /\ \A g \in Handlers :
                            handler'[g].event = e /\ handler'[g].pc \in {"upsert", "notify", "comment"}
                            => handler'[g].found \in Seen
    BY <1>2 DEF WantedIsSeen, Seen
  <2>1. events'[e].doc = events[e].doc /\ events[e].doc \in Documents
    BY <1>1 DEF EventsStay, Typed, EventRecords
  <2>2. row[events[e].doc].issue \in Seen
    <3>1. CASE e \in wanted
      BY <1>1, <3>1 DEF WantedIsSeen
    <3>2. CASE e \notin wanted
      BY <3>2 DEF BecomesWanted, GoesOn, Doc, EventOf, Seen
    <3> QED
      BY <3>1, <3>2
  <2>3. ASSUME NEW g \in Handlers, handler'[g].event = e, handler'[g].pc \in {"upsert", "notify", "comment"}
        PROVE  handler'[g].found \in Seen
    <3>1. handler[g].event = e
      BY <1>6, <2>3 DEF Busy, At
    <3>2. CASE g = h /\ x.pc = "upsert"
      BY <1>4, <2>2, <3>1, <3>2 DEF GoesOn, Doc, EventOf
    <3>3. CASE g = h /\ x.pc # "upsert"
      <4>1. x.pc \in {"notify", "comment"} /\ x.found = handler[h].found
        BY <1>4, <2>3, <3>3 DEF GoesOn
      <4>2. handler[h].pc \in {"upsert", "notify"}
        BY <4>1 DEF GoesOn, At
      <4>3. e \in Events \cap wanted
        BY <3>3 DEF BecomesWanted
      <4> QED
        BY <1>1, <1>4, <3>1, <3>3, <4>1, <4>2, <4>3 DEF WantedIsSeen
    <3>4. CASE g # h
      <4>1. e \in Events \cap wanted
        BY <3>1, <3>4 DEF BecomesWanted
      <4>2. handler'[g] = handler[g]
        BY <1>4, <3>4
      <4> QED
        BY <1>1, <2>3, <4>1, <4>2 DEF WantedIsSeen
    <3> QED
      BY <3>2, <3>3, <3>4
  <2> QED
    BY <1>3, <2>1, <2>2, <2>3
<1>15. ContractIsKept'
  BY <1>3, <1>8 DEF ContractIsKept, EventsStay
<1>16. AcceptedIsDone'
  <2> SUFFICES ASSUME NEW e \in Events, events'[e].accepted
               PROVE  /\ newest'[events'[e].doc] >= e
                      /\ e \in told' \cup unheard'
                      /\ events'[e].kind = "rejected" /\ e \in wanted' => e \in commented'
    BY <1>2 DEF AcceptedIsDone
  <2>1. /\ events'[e].doc = events[e].doc /\ events[e].doc \in Documents /\ events'[e].kind = events[e].kind
        /\ e \in Nat
    BY <1>1 DEF EventsStay, Typed, EventRecords, Events
  <2>2. newest[events[e].doc] \in Nat /\ newest'[events[e].doc] \in Nat
    BY <1>1, <1>3, <2>1 DEF Typed
  <2>3. newest[events[e].doc] >= e
    BY <1>1 DEF AcceptedIsDone, AcceptedBy, HasWritten, Doc, EventOf
  <2>4. newest'[events[e].doc] >= e
    BY <1>3, <2>1, <2>2, <2>3
  <2>5. e \in told' \cup unheard'
    BY <1>1 DEF AcceptedIsDone, AcceptedBy
  <2>6. events[e].kind = "rejected" /\ e \in wanted' => e \in commented'
    <3>1. CASE events[e].accepted
      BY <1>1, <3>1 DEF AcceptedIsDone, BecomesWanted
    <3>2. CASE ~events[e].accepted
      <4>1. x.pc # "upsert"
        BY <3>2 DEF AcceptedBy, GoesOn, At
      <4> QED
        BY <3>2, <4>1 DEF AcceptedBy, BecomesWanted
    <3> QED
      BY <3>1, <3>2
  <2> QED
    BY <2>1, <2>4, <2>5, <2>6
<1> QED
  BY <1>7, <1>9, <1>10, <1>11, <1>12, <1>13, <1>14, <1>15, <1>16 DEF IInv

\* An answer to request h.
LEMMA Answering ==
    ASSUME Typed, NEW h \in Handlers, Busy(h), NEW b \in BOOLEAN, Answers(h, b)
    PROVE  /\ EventsStay
           /\ \A e \in Events : events'[e].accepted /\ ~events[e].accepted => b /\ e = handler[h].event
           /\ Idle \in Requests /\ Idle.pc = "idle" /\ GoesOn(h, Idle)
           /\ handler' = [handler EXCEPT ![h] = Idle]
<1> DEFINE e0 == handler[h].event
<1>1. e0 \in Events /\ events \in [Events -> EventRecords]
  BY AtWork DEF Typed
<1>2. Idle \in Requests /\ Idle.pc = "idle"
  BY ContractBounds DEF Idle, Requests, Issues
<1>3. GoesOn(h, Idle) /\ handler' = [handler EXCEPT ![h] = Idle]
  BY <1>2 DEF GoesOn, Answers
<1>4. events' = [events EXCEPT ![e0] = [events[e0] EXCEPT !.accepted = events[e0].accepted \/ b]]
  BY <1>1 DEF Answers
<1> HIDE DEF e0
<1>5. [events[e0] EXCEPT !.accepted = events[e0].accepted \/ b] \in EventRecords
  <2>1. events[e0] \in EventRecords
    BY <1>1
  <2> QED
    BY <2>1, Zenon DEF EventRecords
<1> QED
  BY <1>1, <1>2, <1>3, <1>4, <1>5 DEF EventsStay, EventRecords, e0

\* A step of request h that leaves the events alone and goes on at another place.
LEMMA GoingOn ==
    ASSUME Typed, NEW h \in Handlers, Busy(h), UNCHANGED events,
           NEW pc \in {"find", "upsert", "notify", "comment"}, Goes(h, pc),
           pc = "upsert" => At(h, "find") /\ handler[h].found = row[Doc(h)].issue,
           pc = "notify" => At(h, "upsert") /\ Upserted(h),
           pc = "comment" => At(h, "notify") /\ handler[h].event \in told' \cup unheard'
    PROVE  \E x \in Requests :
              /\ handler' = [handler EXCEPT ![h] = x]
              /\ GoesOn(h, x)
              /\ EventsStay /\ AcceptedBy(h)
<1> DEFINE x == [handler[h] EXCEPT !.pc = pc]
<1>1. x \in Requests /\ x.pc = pc /\ x.event = handler[h].event /\ x.found = handler[h].found
  BY AtWork DEF Requests
<1>2. handler' = [handler EXCEPT ![h] = x]
  BY DEF Goes, Typed
<1> HIDE DEF x
<1>3. GoesOn(h, x)
  BY <1>1 DEF GoesOn
<1>4. EventsStay /\ AcceptedBy(h)
  BY DEF EventsStay, AcceptedBy, Typed
<1> QED
  BY <1>1, <1>2, <1>3, <1>4

\* Request h is answered with an error.
LEMMA RefusedInv ==
    ASSUME IInv, NEW h \in Handlers, Busy(h), Writes(h), Answers(h, FALSE),
           UNCHANGED <<linked, overtaken, wanted>>,
           told \subseteq told', unheard \subseteq unheard', commented \subseteq commented'
    PROVE  IInv'
<1>1. /\ EventsStay /\ Idle \in Requests /\ GoesOn(h, Idle)
      /\ handler' = [handler EXCEPT ![h] = Idle]
      /\ \A e \in Events : ~(events'[e].accepted /\ ~events[e].accepted)
  BY Answering DEF IInv
<1>2. AcceptedBy(h) /\ BecomesWanted(h, Idle)
  BY <1>1 DEF AcceptedBy, BecomesWanted
<1> QED
  BY <1>1, <1>2, Moves

LEMMA ReadsSecretInv ==
    ASSUME IInv, NEW h \in Handlers, ReadsSecret(h)
    PROVE  IInv'
<1>1. /\ Busy(h) /\ Writes(h) /\ Typed
      /\ UNCHANGED <<row, told, unheard, commented, linked, newest, wanted, overtaken>>
  BY DEF ReadsSecret, Busy, At, Writes, IInv
<1>2. CASE Answers(h, FALSE)
  BY <1>1, <1>2, RefusedInv
<1>3. CASE Goes(h, "find") /\ UNCHANGED events
  <2>1. PICK x \in Requests :
            handler' = [handler EXCEPT ![h] = x] /\ GoesOn(h, x) /\ EventsStay /\ AcceptedBy(h)
    BY <1>1, <1>3, GoingOn
  <2>2. BecomesWanted(h, x)
    BY <1>1 DEF BecomesWanted
  <2> QED
    BY <1>1, <2>1, <2>2, Moves
<1> QED
  BY <1>2, <1>3 DEF ReadsSecret

LEMMA FindInv ==
    ASSUME IInv, NEW h \in Handlers, Find(h)
    PROVE  IInv'
<1> DEFINE x == [handler[h] EXCEPT !.pc = "upsert", !.found = row[Doc(h)].issue]
<1>1. /\ Busy(h) /\ Writes(h) /\ Typed /\ At(h, "find")
      /\ UNCHANGED <<events, row, told, unheard, commented, linked, newest, overtaken>>
  BY DEF Find, Busy, At, Writes, IInv
<1>2. handler[h] \in Requests /\ row[Doc(h)].issue \in Issues
  BY <1>1, AtWork DEF Typed, Rows
<1>3. /\ x \in Requests /\ x.pc = "upsert" /\ x.event = handler[h].event /\ x.found = row[Doc(h)].issue
  BY <1>2 DEF Requests
<1>4. handler' = [handler EXCEPT ![h] = x]
  BY <1>1 DEF Find, Typed
<1>5. wanted' = IF /\ row[Doc(h)].issue = "issue"
                   /\ ~EventOf(h).accepted
                   /\ \A g \in Handlers \ {h} : handler[g].event # handler[h].event
                THEN wanted \cup {handler[h].event} ELSE wanted
  BY DEF Find
<1> HIDE DEF x
<1>6. GoesOn(h, x)
  BY <1>1, <1>3 DEF GoesOn
<1>7. BecomesWanted(h, x)
  BY <1>3, <1>5 DEF BecomesWanted, EventOf
<1>8. EventsStay /\ AcceptedBy(h)
  BY <1>1 DEF EventsStay, AcceptedBy, Typed
<1> QED
  BY <1>1, <1>3, <1>4, <1>6, <1>7, <1>8, Moves

LEMMA UpsertInv ==
    ASSUME IInv, NEW h \in Handlers, Upsert(h)
    PROVE  IInv'
<1>1. /\ Busy(h) /\ Typed /\ At(h, "upsert") /\ Upserted(h) /\ Goes(h, "notify")
      /\ UNCHANGED <<events, told, unheard, commented, linked, wanted, overtaken>>
  BY DEF Upsert, Busy, At, IInv
<1>2. Writes(h)
  BY <1>1 DEF Writes
<1>3. PICK x \in Requests :
          handler' = [handler EXCEPT ![h] = x] /\ GoesOn(h, x) /\ EventsStay /\ AcceptedBy(h)
  BY <1>1, GoingOn
<1>4. BecomesWanted(h, x)
  BY <1>1 DEF BecomesWanted
<1> QED
  BY <1>1, <1>2, <1>3, <1>4, Moves

\* Telling the room may be the last step of a request, unless it has a comment to
\* make.
LEMMA NotifyInv ==
    ASSUME IInv, NEW h \in Handlers, NEW bot, Notify(h, bot)
    PROVE  IInv'
<1>1. /\ Busy(h) /\ Writes(h) /\ Typed /\ At(h, "notify")
      /\ UNCHANGED <<row, commented, linked, newest, wanted, overtaken>>
  BY DEF Notify, Busy, At, Writes, IInv
<1>2. told \subseteq told' /\ unheard \subseteq unheard' /\ handler[h].event \in told' \cup unheard'
  BY DEF Notify
<1>3. CASE Comments(h)
  <2>1. Goes(h, "comment") /\ UNCHANGED events
    BY <1>3 DEF Notify, Told
  <2>2. PICK x \in Requests :
            handler' = [handler EXCEPT ![h] = x] /\ GoesOn(h, x) /\ EventsStay /\ AcceptedBy(h)
    BY <1>1, <1>2, <2>1, GoingOn
  <2>3. BecomesWanted(h, x)
    BY <1>1 DEF BecomesWanted
  <2> QED
    BY <1>1, <1>2, <2>2, <2>3, Moves
<1>4. CASE ~Comments(h)
  <2>1. Answers(h, TRUE)
    BY <1>4 DEF Notify, Told
  <2>2. /\ EventsStay /\ Idle \in Requests /\ GoesOn(h, Idle)
        /\ handler' = [handler EXCEPT ![h] = Idle]
        /\ \A e \in Events : events'[e].accepted /\ ~events[e].accepted => e = handler[h].event
    BY <1>1, <2>1, Answering
  <2>3. ~(EventOf(h).kind = "rejected" /\ handler[h].event \in wanted)
    BY <1>1, <1>4, AtWork DEF Comments, IInv, WantedIsSeen, Seen, At
  <2>4. AcceptedBy(h) /\ BecomesWanted(h, Idle)
    BY <1>1, <1>2, <2>2, <2>3 DEF AcceptedBy, BecomesWanted, At, EventOf
  <2> QED
    BY <1>1, <1>2, <2>2, <2>4, Moves
<1> QED
  BY <1>3, <1>4

LEMMA CommentInv ==
    ASSUME IInv, NEW h \in Handlers, NEW client, Comment(h, client)
    PROVE  IInv'
<1>1. /\ Busy(h) /\ Writes(h) /\ Typed /\ At(h, "comment") /\ Answers(h, TRUE)
      /\ UNCHANGED <<row, told, unheard, linked, newest, wanted, overtaken>>
      /\ commented' = commented \cup {handler[h].event}
  BY DEF Comment, Busy, At, Writes, IInv
<1>2. /\ EventsStay /\ Idle \in Requests /\ GoesOn(h, Idle)
      /\ handler' = [handler EXCEPT ![h] = Idle]
      /\ \A e \in Events : events'[e].accepted /\ ~events[e].accepted => e = handler[h].event
  BY <1>1, Answering
<1>3. handler[h].event \in told \cup unheard
  BY <1>1 DEF IInv, HasTold
<1>4. AcceptedBy(h) /\ BecomesWanted(h, Idle)
  BY <1>1, <1>2, <1>3 DEF AcceptedBy, BecomesWanted, At
<1> QED
  BY <1>1, <1>2, <1>4, Moves

LEMMA CommentRefusedInv ==
    ASSUME IInv, NEW h \in Handlers, NEW client, CommentRefused(h, client)
    PROVE  IInv'
<1>1. /\ Busy(h) /\ Writes(h) /\ Answers(h, FALSE)
      /\ UNCHANGED <<row, told, unheard, commented, linked, newest, wanted, overtaken>>
  BY DEF CommentRefused, Busy, At, Writes
<1> QED
  BY <1>1, RefusedInv

LEMMA StepFailsInv ==
    ASSUME IInv, NEW h \in Handlers, NEW bot, NEW client, StepFails(h, bot, client)
    PROVE  IInv'
<1>1. Answers(h, FALSE) /\ UNCHANGED <<unheard, linked, wanted, overtaken>>
  BY DEF StepFails
<1>2. Busy(h) /\ Writes(h) /\ told \subseteq told' /\ commented \subseteq commented'
  BY DEF StepFails, Busy, At, Writes
<1> QED
  BY <1>1, <1>2, RefusedInv

\* Somebody sets an issue.  Requests about to write the row of that document were
\* overtaken by that.
LEMMA LinkInv ==
    ASSUME IInv, Link
    PROVE  IInv'
<1>1. /\ Typed /\ WrittenWasTried /\ NoneNewer /\ IssueCarried /\ HasWritten /\ HasTold /\ WantedIsSeen
      /\ ContractIsKept /\ AcceptedIsDone
  BY DEF IInv
<1>2. PICK d \in Documents :
        /\ row' = [row EXCEPT ![d].issue = "issue"]
        /\ linked' = linked \cup {d}
        /\ overtaken' = IF \E h \in Handlers : At(h, "upsert") /\ Doc(h) = d
                        THEN overtaken \cup {d} ELSE overtaken
  BY DEF Link
<1>3. UNCHANGED <<events, handler, told, unheard, commented, newest, wanted>>
  BY DEF Link
<1>4. /\ \A c \in Documents : row'[c] \in Rows /\ row'[c].status = row[c].status
      /\ \A c \in Documents \ {d} : row'[c] = row[c]
      /\ row'[d].issue = "issue"
      /\ row' \in [Documents -> Rows]
  BY <1>1, <1>2 DEF Typed, Rows, Issues
<1>5. overtaken \subseteq overtaken'
  BY <1>2
<1>6. Typed'
  BY <1>1, <1>3, <1>4 DEF Typed, Seen, Busy, At
<1>7. WrittenWasTried' /\ NoneNewer' /\ HasWritten' /\ HasTold'
  BY <1>1, <1>3, <1>5 DEF WrittenWasTried, NoneNewer, HasWritten, HasTold, Busy, At, EventOf, Doc
<1>8. IssueCarried'
  BY <1>1, <1>2, <1>3, <1>5 DEF IssueCarried, At, EventOf, Doc
<1>9. WantedIsSeen'
  <2>1. \A e \in Events : events[e].doc \in Documents
    BY <1>1 DEF Typed, EventRecords
  <2>2. \A c \in Documents : row[c].issue \in Seen => row'[c].issue \in Seen
    BY <1>4 DEF Seen
  <2> QED
    BY <1>1, <1>3, <2>1, <2>2 DEF WantedIsSeen
<1>10. ContractIsKept'
  BY <1>1, <1>2, <1>3, <1>4, <1>5 DEF ContractIsKept
<1>11. AcceptedIsDone'
  BY <1>1, <1>3 DEF AcceptedIsDone
<1> QED
  BY <1>6, <1>7, <1>8, <1>9, <1>10, <1>11 DEF IInv

\* A webhook reaches a free request.
LEMMA DeliverInv ==
    ASSUME IInv, NEW h \in Handlers, NEW e \in Events, Deliver(h, e)
    PROVE  IInv'
<1>1. /\ Typed /\ WrittenWasTried /\ NoneNewer /\ IssueCarried /\ HasWritten /\ HasTold /\ WantedIsSeen
      /\ ContractIsKept /\ AcceptedIsDone
  BY DEF IInv
<1> DEFINE d == events[e].doc
           x == [pc |-> "config", event |-> e, found |-> "no row"]
           Same(n) == events[n].doc = d /\ n # e
<1>2. /\ handler' = [handler EXCEPT ![h] = x] /\ ~Busy(h)
      /\ events' = [events EXCEPT ![e].tried = TRUE]
      /\ UNCHANGED <<row, told, unheard, commented, linked, newest, wanted>>
  BY DEF Deliver
<1>3. overtaken' = IF \/ \E g \in Handlers : Busy(g) /\ Same(handler[g].event)
                      \/ \E n \in e + 1 .. NumEvents : Same(n) /\ events[n].tried
                   THEN overtaken \cup {d} ELSE overtaken
  BY DEF Deliver
<1>4. e \in Nat /\ e # 0 /\ d \in Documents /\ NumEvents \in Nat /\ e \in 0 .. NumEvents
  BY <1>1, ContractBounds DEF Events, Typed, EventRecords
<1>5. x \in Requests /\ x.pc = "config" /\ x.event = e
  BY <1>4 DEF Requests, Issues
<1>6. /\ handler'[h] = x /\ \A g \in Handlers \ {h} : handler'[g] = handler[g]
      /\ handler' \in [Handlers -> Requests]
  BY <1>1, <1>2, <1>5 DEF Typed
<1>7. /\ events' \in [Events -> EventRecords]
      /\ \A n \in Events : /\ events'[n].doc = events[n].doc /\ events'[n].kind = events[n].kind
                           /\ events'[n].accepted <=> events[n].accepted
                           /\ events[n].tried => events'[n].tried
      /\ \A n \in Events : events'[n].tried => events[n].tried \/ n = e
      /\ events'[e].tried
  <2>1. [events[e] EXCEPT !.tried = TRUE] \in EventRecords
    <3>1. events[e] \in EventRecords
      BY <1>1 DEF Typed
    <3> QED
      BY <3>1, Zenon DEF EventRecords
  <2>2. events' = [events EXCEPT ![e] = [events[e] EXCEPT !.tried = TRUE]] /\ events \in [Events -> EventRecords]
    BY <1>1, <1>2 DEF Typed
  <2> QED
    BY <2>1, <2>2 DEF EventRecords
<1> HIDE DEF x
<1>8. \A g \in Handlers : Busy(g) => handler[g].event \in Events
  BY <1>1, AtWork
<1>9. \A g \in Handlers :
        /\ Busy(g)' <=> (Busy(g) \/ g = h)
        /\ Doc(h)' = d
        /\ Busy(g) => g # h /\ handler'[g] = handler[g] /\ Doc(g)' = Doc(g)
        /\ handler'[g].pc \in {"upsert", "notify", "comment"} => Busy(g)
  BY <1>2, <1>4, <1>5, <1>6, <1>7, <1>8 DEF Busy, At, Doc, EventOf
<1>10. overtaken \subseteq overtaken' /\ Events' = Events
  BY <1>3 DEF Events
<1>11. Typed'
  <2>1. \A g \in Handlers : Busy(g)' <=> handler'[g].event # 0
    BY <1>1, <1>4, <1>5, <1>6 DEF Typed, Busy, At
  <2> QED
    BY <1>1, <1>2, <1>6, <1>7, <1>10, <2>1 DEF Typed
<1>12. WrittenWasTried'
  <2>1. \A g \in Handlers : Busy(g)' => EventOf(g)'.tried
    BY <1>1, <1>5, <1>6, <1>7, <1>8, <1>9 DEF WrittenWasTried, EventOf
  <2>2. \A c \in Documents : newest[c] # 0 => newest[c] \in Events
    BY <1>1, <1>4 DEF Typed, Events
  <2>3. \A c \in Documents : newest'[c] # 0 => events'[newest'[c]].doc = c /\ events'[newest'[c]].tried
    BY <1>1, <1>2, <1>7, <2>2 DEF WrittenWasTried
  <2> QED
    BY <2>1, <2>3 DEF WrittenWasTried
<1>13. NoneNewer'
  <2> SUFFICES ASSUME NEW g \in Handlers, Busy(g)', Doc(g)' \notin overtaken',
                      NEW n \in Events, events'[n].doc = Doc(g)', events'[n].tried
               PROVE  n <= handler'[g].event
    BY <1>10 DEF NoneNewer
  <2>1. n \in Nat /\ n <= NumEvents /\ events[n].doc = Doc(g)' /\ (events[n].tried \/ n = e)
    BY <1>4, <1>7 DEF Events
  <2>2. CASE g = h
    <3>1. d \notin overtaken' /\ events[n].doc = d
      BY <1>9, <2>1, <2>2
    <3>2. ~(\E m \in e + 1 .. NumEvents : Same(m) /\ events[m].tried)
      BY <1>3, <3>1
    <3>3. CASE n <= e
      BY <1>5, <1>6, <2>2, <3>3
    <3>4. CASE ~(n <= e)
      <4>1. n \in e + 1 .. NumEvents /\ n # e
        BY <1>4, <2>1, <3>4
      <4>2. events[n].tried
        BY <2>1, <4>1
      <4> QED
        BY <3>1, <3>2, <4>1, <4>2
    <3> QED
      BY <3>3, <3>4
  <2>3. CASE g # h
    <3>1. Busy(g) /\ handler'[g] = handler[g] /\ Doc(g)' = Doc(g) /\ Doc(g) \notin overtaken
      BY <1>9, <1>10, <2>3
    <3>2. CASE events[n].tried
      BY <1>1, <2>1, <3>1, <3>2 DEF NoneNewer
    <3>3. CASE n = e
      <4>1. d = Doc(g) /\ d \notin overtaken'
        BY <2>1, <3>1, <3>3
      <4>2. ~Same(handler[g].event)
        BY <1>3, <3>1, <4>1
      <4>3. handler[g].event = e
        BY <4>1, <4>2 DEF Doc, EventOf
      <4> QED
        BY <1>4, <3>1, <3>3, <4>3
    <3> QED
      BY <2>1, <3>2, <3>3
  <2> QED
    BY <2>2, <2>3
<1>14. IssueCarried' /\ HasWritten' /\ HasTold'
  BY <1>1, <1>2, <1>9, <1>10 DEF IssueCarried, HasWritten, HasTold, At, Busy
<1>15. WantedIsSeen'
  BY <1>1, <1>2, <1>7, <1>9, <1>10 DEF WantedIsSeen
<1>16. ContractIsKept'
  <2>1. \A c \in Documents : newest[c] # 0 => newest[c] \in Events
    BY <1>1, <1>4 DEF Typed, Events
  <2> QED
    BY <1>1, <1>2, <1>7, <1>10, <2>1 DEF ContractIsKept
<1>17. AcceptedIsDone'
  BY <1>1, <1>2, <1>7, <1>10 DEF AcceptedIsDone
<1> QED
  BY <1>11, <1>12, <1>13, <1>14, <1>15, <1>16, <1>17 DEF IInv

\* The daemon is gone, and its requests with it.
LEMMA CutInv ==
    ASSUME IInv, Cut
    PROVE  IInv'
<1>1. /\ Typed /\ WrittenWasTried /\ WantedIsSeen /\ ContractIsKept /\ AcceptedIsDone
  BY DEF IInv
<1>2. /\ handler' = [h \in Handlers |-> Idle]
      /\ UNCHANGED <<events, row, told, unheard, commented, linked, newest, wanted, overtaken>>
  BY DEF Cut
<1>3. Idle \in Requests /\ Idle.pc = "idle" /\ Idle.event = 0
  BY ContractBounds DEF Idle, Requests, Issues
<1>4. /\ handler' \in [Handlers -> Requests]
      /\ \A h \in Handlers : handler'[h].pc = "idle" /\ handler'[h].event = 0
  BY <1>2, <1>3
<1>5. Typed'
  BY <1>1, <1>2, <1>4 DEF Typed, Busy, At
<1>6. WrittenWasTried' /\ NoneNewer' /\ IssueCarried' /\ HasWritten' /\ HasTold' /\ WantedIsSeen'
  BY <1>1, <1>2, <1>4 DEF WrittenWasTried, NoneNewer, IssueCarried, HasWritten, HasTold, WantedIsSeen, Busy, At
<1>7. ContractIsKept' /\ AcceptedIsDone'
  BY <1>1, <1>2 DEF ContractIsKept, AcceptedIsDone
<1> QED
  BY <1>5, <1>6, <1>7 DEF IInv

\* What the daemon does besides, which no contract notices.
LEMMA ElsewhereInv ==
    ASSUME IInv, UNCHANGED ledger
    PROVE  IInv'
<1>1. UNCHANGED <<events, row, handler, told, unheard, commented, linked, newest, wanted, overtaken>>
  BY DEF ledger
<1>2. Typed' /\ WrittenWasTried' /\ NoneNewer'
  BY <1>1 DEF IInv, Typed, WrittenWasTried, NoneNewer, Busy, At, EventOf, Doc
<1>3. IssueCarried' /\ HasWritten' /\ HasTold' /\ WantedIsSeen'
  BY <1>1 DEF IInv, IssueCarried, HasWritten, HasTold, WantedIsSeen, At, EventOf, Doc
<1>4. ContractIsKept' /\ AcceptedIsDone'
  BY <1>1 DEF IInv, ContractIsKept, AcceptedIsDone
<1> QED
  BY <1>2, <1>3, <1>4 DEF IInv

\* The invariant is inductive.
LEMMA Invariance == Spec => []IInv
<1>1. IInv /\ [Next]_vars => IInv'
  <2> SUFFICES ASSUME IInv, [Next]_vars PROVE IInv'
    OBVIOUS
  <2>1. CASE SetsIssue
    BY <2>1, LinkInv DEF SetsIssue
  <2>2. ASSUME NEW e \in Events, Receive(e) PROVE IInv'
    <3> DEFINE h == CHOOSE s \in FreeSlots : TRUE
    <3>1. h \in Handlers /\ Deliver(h, e)
      BY <2>2 DEF Receive, FreeSlots
    <3> QED
      BY <3>1, DeliverInv
  <2>3. ASSUME NEW h \in Handlers, Serves(h) PROVE IInv'
    BY <2>3, ReadsSecretInv, FindInv, UpsertInv, NotifyInv, CommentInv, CommentRefusedInv, StepFailsInv
    DEF Serves, HandlerStep
  <2>4. ASSUME NEW p \in Publishers, Publish(p) \/ PublisherStep(p) PROVE IInv'
    BY <2>4, ElsewhereInv DEF Publish, PublisherStep, Authorize, TakesConfig, Published, MovesTo
  <2>5. ASSUME NEW r \in Reloaders, Reload(r) \/ ReloadStep(r) PROVE IInv'
    BY <2>5, ElsewhereInv DEF Reload, ReloadStep, AuthorizeReload, CloneOld, Changed, Swap, ReloadTo
  <2>6. CASE CtrlC \/ StopAll \/ CleanUp \/ Restart
    BY <2>6, ElsewhereInv DEF CtrlC, StopAll, CleanUp, Restart, contracts
  <2>7. CASE Drained \/ Dies
    BY <2>7, CutInv DEF Drained, Dies, Ends
  <2>8. CASE UNCHANGED vars
    BY <2>8, ElsewhereInv DEF vars, contracts
  <2> QED
    BY <2>1, <2>2, <2>3, <2>4, <2>5, <2>6, <2>7, <2>8 DEF Next, ShutdownStep
<1> QED
  BY InitInv, <1>1, PTL DEF Spec

\* The row of a contract has the status of the newest event that was written to it
\* and the issue somebody gave it, whatever fails, comes again or restarts, unless
\* its events overlapped, came out of order, or the issue was set under a request
\* about to write.
THEOREM ContractsAreKept == Spec => []ContractIsKept
<1>1. IInv => ContractIsKept
  BY DEF IInv
<1> QED
  BY Invariance, <1>1, PTL

\* An event that was answered with 200 has been dealt with: its row is written, the
\* room was told of it if there was a bot, and the issue its request found has the
\* comment, though connectors stop before requests do.
THEOREM NothingIsForgotten == Spec => []AcceptedIsDone
<1>1. IInv => AcceptedIsDone
  BY DEF IInv
<1> QED
  BY Invariance, <1>1, PTL

(***************************************************************************)
(* The daemon around the contracts.                                        *)
(*                                                                         *)
(* Whoever is in line for the config is at a step that waits for it        *)
(* (Entitled), so whoever asks at another step is not in line yet.         *)
(***************************************************************************)
Tickets == [by : Lockers, mode : {"read", "write"}]

InLine(q) == {q[n] : n \in DOMAIN q}

\* Nobody is in line twice.
Orderly(q) == q \in Seq(Tickets) /\ \A m, n \in DOMAIN q : q[m].by = q[n].by => m = n

\* Who asked and is where it waits for the answer.
Entitled(t) ==
    \/ t.by \in Handlers /\ t.mode = "read" /\ handler[t.by].pc = "config"
    \/ t.by \in Publishers /\ t.mode = "read" /\ publisher[t.by] \in {"auth", "asking"}
    \/ t.by \in Reloaders /\ t.mode = "read" /\ reload[t.by] \in {"auth", "old"}
    \/ t.by \in Reloaders /\ t.mode = "write" /\ reload[t.by] = "swap"
    \/ t.by = Main /\ t.mode = "read" /\ phase = "cleanup"

Lined == Orderly(queue) /\ \A t \in InLine(queue) : Entitled(t)

Around ==
    /\ guards = {p \in Publishers : publisher[p] = "publishing"}
    /\ phase \in {"up", "stopping", "cleanup", "draining", "exited"}
    /\ running \subseteq Services
    /\ phase \in {"cleanup", "draining"} => running = {}
    /\ configured \in BOOLEAN
    /\ publisher \in [Publishers -> {"idle", "auth", "asking", "publishing"}]
    /\ reload \in [Reloaders -> {"idle", "auth", "old", "work", "swap"}]
    /\ \A r \in Reloaders \ Admins : reload[r] # "auth"

Listed ==
    /\ told \cup unheard \cup commented \cup wanted \subseteq Events
    /\ used \in [Trouble -> Nat]
    /\ linked \cup overtaken \subseteq Documents

\* Whoever gets the lock leaves the line, and the others stay.
LEMMA Leaves ==
    ASSUME NEW q, Orderly(q), q # <<>>
    PROVE  /\ Orderly(Tail(q))
           /\ Head(q) \in InLine(q)
           /\ \A t \in InLine(Tail(q)) : t \in InLine(q) /\ t.by # Head(q).by
<1>1. q \in Seq(Tickets) /\ Len(q) \in Nat /\ Len(q) > 0 /\ DOMAIN q = 1 .. Len(q) /\ Head(q) = q[1]
  BY DEF Orderly
<1>2. /\ Tail(q) \in Seq(Tickets) /\ DOMAIN Tail(q) = 1 .. (Len(q) - 1)
      /\ \A n \in 1 .. (Len(q) - 1) : Tail(q)[n] = q[n + 1]
  BY <1>1
<1>3. \A n \in 1 .. (Len(q) - 1) : n + 1 \in DOMAIN q /\ n + 1 # 1
  BY <1>1
<1>4. 1 \in DOMAIN q
  BY <1>1
<1>5. Orderly(Tail(q))
  <2>1. ASSUME NEW m \in DOMAIN Tail(q), NEW n \in DOMAIN Tail(q), Tail(q)[m].by = Tail(q)[n].by PROVE m = n
    <3>1. m + 1 = n + 1
      BY <1>2, <1>3, <2>1 DEF Orderly
    <3> QED
      BY <1>1, <1>2, <3>1
  <2> QED
    BY <1>2, <2>1 DEF Orderly
<1>6. ASSUME NEW t \in InLine(Tail(q)) PROVE t \in InLine(q) /\ t.by # Head(q).by
  <2>1. PICK n \in 1 .. (Len(q) - 1) : t = q[n + 1]
    BY <1>2 DEF InLine
  <2> QED
    BY <1>1, <1>3, <1>4, <2>1 DEF InLine, Orderly
<1> QED
  BY <1>1, <1>4, <1>5, <1>6 DEF InLine

\* Whoever is not in line may join it.
LEMMA Joins ==
    ASSUME NEW q, Orderly(q), NEW a \in Lockers, NEW mode \in {"read", "write"},
           \A t \in InLine(q) : t.by # a
    PROVE  /\ Orderly(Append(q, Asked(a, mode)))
           /\ \A t \in InLine(Append(q, Asked(a, mode))) : t \in InLine(q) \/ t = Asked(a, mode)
<1> DEFINE x == Asked(a, mode)
<1>1. x \in Tickets /\ x.by = a
  BY DEF Asked, Tickets
<1> HIDE DEF x
<1>2. q \in Seq(Tickets) /\ Len(q) \in Nat /\ DOMAIN q = 1 .. Len(q)
  BY DEF Orderly
<1>3. /\ Append(q, x) \in Seq(Tickets) /\ DOMAIN Append(q, x) = 1 .. (Len(q) + 1)
      /\ \A n \in 1 .. Len(q) : Append(q, x)[n] = q[n]
      /\ Append(q, x)[Len(q) + 1] = x
  BY <1>1, <1>2
<1>4. \A n \in 1 .. Len(q) : q[n].by # a
  BY <1>2 DEF InLine
<1>5. \A n \in 1 .. (Len(q) + 1) : n \in 1 .. Len(q) \/ n = Len(q) + 1
  BY <1>2
<1>6. Orderly(Append(q, x))
  BY <1>1, <1>2, <1>3, <1>4, <1>5 DEF Orderly
<1>7. \A t \in InLine(Append(q, x)) : t \in InLine(q) \/ t = x
  BY <1>2, <1>3, <1>5 DEF InLine
<1> QED
  BY <1>6, <1>7 DEF x

\* Everybody is one locker only, and so is entitled to one ticket at most.
LEMMA OnesOwn ==
    ASSUME NEW t, Entitled(t)
    PROVE  /\ t.by \in Handlers => t.mode = "read" /\ handler[t.by].pc = "config"
           /\ t.by \in Publishers => t.mode = "read" /\ publisher[t.by] \in {"auth", "asking"}
           /\ t.by \in Reloaders => \/ t.mode = "read" /\ reload[t.by] \in {"auth", "old"}
                                    \/ t.mode = "write" /\ reload[t.by] = "swap"
           /\ t.by = Main => t.mode = "read" /\ phase = "cleanup"
BY LockersDiffer DEF Entitled

\* Locker a does something; the others are where they were, or have come to wait.
OthersStay(a) ==
    /\ \A h \in Handlers : h # a /\ handler[h].pc = "config" => handler'[h].pc = "config"
    /\ \A p \in Publishers : p # a => publisher'[p] = publisher[p]
    /\ \A r \in Reloaders : r # a => reload'[r] = reload[r]
    /\ Main # a /\ phase = "cleanup" => phase' = "cleanup"

\* They keep their tickets.
LEMMA OthersEntitled ==
    ASSUME NEW a, OthersStay(a), NEW t, Entitled(t), t.by # a
    PROVE  Entitled(t)'
BY DEF OthersStay, Entitled

\* The ways to change the line: to leave it, to join it, and to do so at once.
LEMMA LineMoves ==
    ASSUME Lined, NEW a \in Lockers, OthersStay(a),
           \/ /\ queue' = queue
              /\ \A t \in InLine(queue) : t.by # a
           \/ /\ queue # <<>> /\ Head(queue).by = a
              /\ queue' = Tail(queue)
           \/ \E mode \in {"read", "write"} :
                /\ Entitled(Asked(a, mode))'
                /\ \/ queue' = Append(queue, Asked(a, mode)) /\ \A t \in InLine(queue) : t.by # a
                   \/ queue # <<>> /\ Head(queue).by = a /\ queue' = Append(Tail(queue), Asked(a, mode))
    PROVE  Lined'
<1>1. Orderly(queue) /\ \A t \in InLine(queue) : Entitled(t)
  BY DEF Lined
<1>2. CASE queue' = queue /\ \A t \in InLine(queue) : t.by # a
  BY <1>1, <1>2, OthersEntitled DEF Lined
<1>3. CASE queue # <<>> /\ Head(queue).by = a
  <2>1. Orderly(Tail(queue)) /\ \A t \in InLine(Tail(queue)) : t \in InLine(queue) /\ t.by # a
    BY <1>1, <1>3, Leaves
  <2>2. \A t \in InLine(Tail(queue)) : Entitled(t)'
    BY <1>1, <2>1, OthersEntitled
  <2>3. CASE queue' = Tail(queue)
    BY <2>1, <2>2, <2>3 DEF Lined
  <2>4. ASSUME NEW mode \in {"read", "write"}, Entitled(Asked(a, mode))',
               queue' = Append(Tail(queue), Asked(a, mode))
        PROVE  Lined'
    <3>1. /\ Orderly(queue')
          /\ \A t \in InLine(queue') : t \in InLine(Tail(queue)) \/ t = Asked(a, mode)
      BY <2>1, <2>4, Joins
    <3> QED
      BY <2>2, <2>4, <3>1 DEF Lined
  <2>5. CASE queue' = queue /\ \A t \in InLine(queue) : t.by # a
    BY <1>2, <2>5
  <2>6. CASE \E mode \in {"read", "write"} :
                /\ Entitled(Asked(a, mode))'
                /\ queue' = Append(queue, Asked(a, mode)) /\ \A t \in InLine(queue) : t.by # a
    BY <1>1, <1>3, <2>6, Leaves
  <2> QED
    BY <2>3, <2>4, <2>5, <2>6
<1>4. ASSUME NEW mode \in {"read", "write"}, Entitled(Asked(a, mode))',
             queue' = Append(queue, Asked(a, mode)), \A t \in InLine(queue) : t.by # a
      PROVE  Lined'
  <2>1. /\ Orderly(queue')
        /\ \A t \in InLine(queue') : t \in InLine(queue) \/ t = Asked(a, mode)
    BY <1>1, <1>4, Joins
  <2> QED
    BY <1>1, <1>4, <2>1, OthersEntitled DEF Lined
<1> QED
  BY <1>2, <1>3, <1>4

\* The ways of a webhook's request to change the line.
LEMMA HandlerMoves ==
    ASSUME IInv, Lined, NEW h \in Handlers, NEW x, handler' = [handler EXCEPT ![h] = x],
           UNCHANGED <<phase, publisher, reload>>,
           \/ queue' = queue /\ handler[h].pc # "config"
           \/ queue' = queue /\ x.pc = "config" /\ handler[h].pc = "config"
           \/ queue # <<>> /\ Head(queue).by = h /\ queue' = Tail(queue)
           \/ queue' = Append(queue, Asked(h, "read")) /\ handler[h].pc # "config" /\ x.pc = "config"
    PROVE  Lined'
<1>1. handler \in [Handlers -> Requests]
  BY DEF IInv, Typed
<1>2. /\ handler'[h] = x /\ \A g \in Handlers \ {h} : handler'[g] = handler[g]
      /\ h \in Lockers
  BY <1>1 DEF Lockers
<1>3. OthersStay(h)
  BY <1>2 DEF OthersStay
<1>4. \A t \in InLine(queue) : t.by = h => handler[h].pc = "config"
  BY OnesOwn DEF Lined
<1>5. x.pc = "config" => Entitled(Asked(h, "read"))'
  BY <1>2 DEF Entitled, Asked
<1>6. CASE queue' = queue /\ x.pc = "config" /\ handler[h].pc = "config"
  <2>1. \A g \in Handlers : handler[g].pc = "config" => handler'[g].pc = "config"
    BY <1>2, <1>6
  <2> QED
    BY <1>6, <2>1 DEF Lined, Entitled
<1> QED
  BY <1>2, <1>3, <1>4, <1>5, <1>6, LineMoves

\* A request reads the config once, and its handler does not ask again.
LEMMA LineServes == ASSUME IInv, Lined, NEW h \in Handlers, Serves(h) PROVE Lined'
<1>1. handler \in [Handlers -> Requests]
  BY DEF IInv, Typed
<1>2. CASE ReadsSecret(h)
  <2>1. handler' = [handler EXCEPT ![h].pc = "find"] \/ handler' = [handler EXCEPT ![h] = Idle]
    BY <1>2 DEF ReadsSecret, Goes, Answers
  <2>2. \E x : handler' = [handler EXCEPT ![h] = x]
    BY <1>1, <2>1
  <2>3. queue # <<>> /\ Head(queue).by = h /\ queue' = Tail(queue) /\ UNCHANGED <<phase, publisher, reload>>
    BY <1>2 DEF ReadsSecret, Turn, Passes, Asked, server
  <2> QED
    BY <2>2, <2>3, HandlerMoves
<1>3. CASE \E bot, client \in BOOLEAN : HandlerStep(h, bot, client) /\ UNCHANGED <<lock, server>>
  <2>1. /\ \E x : handler' = [handler EXCEPT ![h] = x]
        /\ handler[h].pc # "config"
        /\ queue' = queue /\ UNCHANGED <<phase, publisher, reload>>
    <3>1. UNCHANGED <<queue, phase, publisher, reload>>
      BY <1>3 DEF lock, server
    <3>2. PICK bot \in BOOLEAN, client \in BOOLEAN : HandlerStep(h, bot, client)
      BY <1>3
    <3>3. CASE Find(h)
      BY <3>1, <3>3 DEF Find, At
    <3>4. CASE Upsert(h)
      BY <3>1, <3>4 DEF Upsert, At, Goes
    <3>5. CASE Notify(h, bot)
      BY <3>1, <3>5 DEF Notify, Told, At, Goes, Answers
    <3>6. CASE Comment(h, client) \/ CommentRefused(h, client)
      BY <3>1, <3>6 DEF Comment, CommentRefused, At, Answers
    <3>7. CASE StepFails(h, bot, client)
      BY <3>1, <3>7 DEF StepFails, At, Answers
    <3> QED
      BY <3>2, <3>3, <3>4, <3>5, <3>6, <3>7 DEF HandlerStep
  <2> QED
    BY <2>1, HandlerMoves
<1>4. ("matrix" \in running) \in BOOLEAN /\ ("linear" \in running) \in BOOLEAN
  OBVIOUS
<1> QED
  BY <1>2, <1>3, <1>4 DEF Serves

\* The slot a webhook takes is free, and so not in line.
LEMMA LineReceives == ASSUME IInv, Lined, NEW e \in Events, Receive(e) PROVE Lined'
<1> DEFINE h == CHOOSE s \in FreeSlots : TRUE
<1>1. /\ h \in Handlers /\ Deliver(h, e) /\ Asks(h, "read") /\ UNCHANGED server
  BY DEF Receive, FreeSlots
<1> HIDE DEF h
<1>2. handler[h].pc # "config"
  BY <1>1 DEF Deliver, Busy, At
<1>3. /\ handler' = [handler EXCEPT ![h] = [pc |-> "config", event |-> e, found |-> "no row"]]
      /\ queue' = Append(queue, Asked(h, "read"))
      /\ UNCHANGED <<phase, publisher, reload>>
  BY <1>1 DEF Deliver, Asks, server
<1> QED
  BY <1>1, <1>2, <1>3, HandlerMoves

\* A publisher asks twice, the second time when it has left the line.
LEMMA LinePublishes ==
    ASSUME Lined, Around, NEW p \in Publishers, Publish(p) \/ PublisherStep(p)
    PROVE  Lined'
<1>1. /\ p \in Lockers /\ publisher \in [Publishers -> {"idle", "auth", "asking", "publishing"}]
      /\ \A t \in InLine(queue) : t.by = p => publisher[p] \in {"auth", "asking"}
  BY OnesOwn DEF Lockers, Around, Lined
<1>2. PICK pc : MovesTo(p, pc)
  BY DEF Publish, PublisherStep, Authorize, TakesConfig, Published
<1>3. UNCHANGED <<handler, phase, reload>> /\ publisher'[p] = pc /\ \A o \in Publishers \ {p} : publisher'[o] = publisher[o]
  BY <1>1, <1>2 DEF MovesTo, ledger
<1>4. OthersStay(p)
  BY <1>3 DEF OthersStay
<1>5. pc \in {"auth", "asking"} => Entitled(Asked(p, "read"))'
  BY <1>3 DEF Entitled, Asked
<1>6. CASE Publish(p)
  <2>1. publisher[p] = "idle" /\ publisher'[p] = "auth" /\ queue' = Append(queue, Asked(p, "read"))
    BY <1>1, <1>6 DEF Publish, Asks, MovesTo
  <2> QED
    BY <1>1, <1>3, <1>4, <1>5, <2>1, LineMoves
<1>7. CASE Authorize(p) \/ TakesConfig(p)
  <2>1. /\ queue # <<>> /\ Head(queue).by = p
        /\ queue' = Tail(queue) \/ (publisher'[p] = "asking" /\ queue' = Append(Tail(queue), Asked(p, "read")))
    BY <1>1, <1>7 DEF Authorize, TakesConfig, Turn, Asked, Passes, PassesAndAsks, Keeps, MovesTo
  <2> QED
    BY <1>1, <1>3, <1>4, <1>5, <2>1, LineMoves
<1>8. CASE Published(p)
  <2>1. queue' = queue /\ publisher[p] = "publishing"
    BY <1>8 DEF Published, Drops
  <2> QED
    BY <1>1, <1>4, <2>1, LineMoves
<1> QED
  BY <1>6, <1>7, <1>8 DEF PublisherStep

\* A reload asks to read, and to write when it has changed the connectors.
LEMMA LineReloads ==
    ASSUME Lined, Around, NEW r \in Reloaders, Reload(r) \/ ReloadStep(r)
    PROVE  Lined'
<1>1. /\ r \in Lockers /\ reload \in [Reloaders -> {"idle", "auth", "old", "work", "swap"}]
      /\ \A t \in InLine(queue) : t.by = r => reload[r] \in {"auth", "old", "swap"}
  BY OnesOwn DEF Lockers, Around, Lined
<1>2. PICK pc : ReloadTo(r, pc)
  BY DEF Reload, ReloadStep, AuthorizeReload, CloneOld, Changed, Swap
<1>3. UNCHANGED <<handler, phase, publisher>> /\ reload'[r] = pc /\ \A o \in Reloaders \ {r} : reload'[o] = reload[o]
  BY <1>1, <1>2 DEF ReloadTo, ledger
<1>4. OthersStay(r)
  BY <1>3 DEF OthersStay
<1>5. /\ reload'[r] \in {"auth", "old"} => Entitled(Asked(r, "read"))'
      /\ reload'[r] = "swap" => Entitled(Asked(r, "write"))'
  BY <1>3 DEF Entitled, Asked
<1>6. CASE Reload(r)
  <2>1. reload[r] = "idle" /\ reload'[r] \in {"auth", "old"} /\ queue' = Append(queue, Asked(r, "read"))
    BY <1>1, <1>6 DEF Reload, Asks, ReloadTo
  <2> QED
    BY <1>1, <1>4, <1>5, <2>1, LineMoves
<1>7. CASE AuthorizeReload(r) \/ CloneOld(r) \/ Swap(r)
  <2>1. /\ queue # <<>> /\ Head(queue).by = r
        /\ queue' = Tail(queue) \/ (reload'[r] = "old" /\ queue' = Append(Tail(queue), Asked(r, "read")))
    BY <1>1, <1>7 DEF AuthorizeReload, CloneOld, Swap, Turn, Asked, Passes, PassesAndAsks, ReloadTo
  <2> QED
    BY <1>1, <1>4, <1>5, <2>1, LineMoves
<1>8. CASE Changed(r)
  <2>1. /\ reload[r] = "work"
        /\ queue' = queue \/ (reload'[r] = "swap" /\ queue' = Append(queue, Asked(r, "write")))
    BY <1>1, <1>8 DEF Changed, Asks, ReloadTo, lock
  <2> QED
    BY <1>1, <1>4, <1>5, <2>1, LineMoves
<1> QED
  BY <1>6, <1>7, <1>8 DEF ReloadStep

\* The shutdown asks once, and whoever is in line when the daemon ends is forgotten.
LEMMA LineEnds ==
    ASSUME Lined, CtrlC \/ ShutdownStep \/ Dies \/ Restart \/ UNCHANGED vars \/ SetsIssue
    PROVE  Lined'
<1>1. /\ Main \in Lockers
      /\ \A t \in InLine(queue) : Entitled(t)
      /\ \A t \in InLine(queue) : t.by = Main => phase = "cleanup"
  BY OnesOwn DEF Lockers, Lined
<1>2. CASE StopAll
  <2>1. UNCHANGED <<handler, publisher, reload>> /\ phase = "stopping"
    BY <1>2 DEF StopAll, contracts, ledger
  <2>2. OthersStay(Main)
    BY <2>1 DEF OthersStay
  <2>3. queue' = queue \/ (phase' = "cleanup" /\ queue' = Append(queue, Asked(Main, "read")))
    BY <1>2 DEF StopAll, Asks, lock
  <2>4. phase' = "cleanup" => Entitled(Asked(Main, "read"))'
    BY DEF Entitled, Asked
  <2> QED
    BY <1>1, <2>1, <2>2, <2>3, <2>4, LineMoves
<1>3. CASE CleanUp
  <2>1. UNCHANGED <<handler, publisher, reload>>
    BY <1>3 DEF CleanUp, PhaseTo, contracts, ledger
  <2>2. OthersStay(Main)
    BY <2>1 DEF OthersStay
  <2>3. queue # <<>> /\ Head(queue).by = Main /\ queue' = Tail(queue)
    BY <1>3 DEF CleanUp, Turn, Passes, Asked
  <2> QED
    BY <1>1, <2>2, <2>3, LineMoves
<1>4. CASE Drained \/ Dies
  <2>1. queue' = <<>>
    BY <1>4 DEF Drained, Dies, Ends, Forgotten
  <2> QED
    BY <2>1 DEF Lined, Orderly, InLine
<1>5. CASE CtrlC \/ Restart \/ UNCHANGED vars \/ SetsIssue
  <2>1. UNCHANGED <<queue, handler, publisher, reload>> /\ (phase = "cleanup" => phase' = phase)
    BY <1>5 DEF CtrlC, Restart, SetsIssue, Link, PhaseTo, vars, contracts, ledger, lock, server
  <2>2. \A t \in InLine(queue) : Entitled(t)'
    BY <1>1, <2>1 DEF Entitled
  <2> QED
    BY <2>1, <2>2 DEF Lined
<1> QED
  BY <1>2, <1>3, <1>4, <1>5 DEF ShutdownStep

\* A guard is kept by those who publish, and connectors are stopped before requests.
LEMMA AroundNext == ASSUME Around, [Next]_vars PROVE Around'
<1>1. /\ guards = {p \in Publishers : publisher[p] = "publishing"}
      /\ publisher \in [Publishers -> {"idle", "auth", "asking", "publishing"}]
      /\ reload \in [Reloaders -> {"idle", "auth", "old", "work", "swap"}]
  BY DEF Around
<1>2. ASSUME UNCHANGED <<guards, server>> PROVE Around'
  BY <1>2 DEF Around, server
<1>3. CASE \/ SetsIssue \/ UNCHANGED vars
           \/ \E e \in Events : Receive(e)
           \/ \E h \in Handlers : Serves(h)
  BY <1>2, <1>3 DEF SetsIssue, Receive, Serves, ReadsSecret, Asks, Passes, vars, lock
<1>4. ASSUME NEW p \in Publishers, Publish(p) \/ PublisherStep(p) PROVE Around'
  <2>1. PICK pc \in {"idle", "auth", "asking", "publishing"} :
            /\ MovesTo(p, pc)
            /\ \/ guards' = guards /\ pc # "publishing" /\ publisher[p] # "publishing"
               \/ guards' = guards \cup {p} /\ pc = "publishing"
               \/ guards' = guards \ {p} /\ pc = "idle"
    BY <1>4 DEF Publish, PublisherStep, Authorize, TakesConfig, Published,
                Asks, Passes, PassesAndAsks, Keeps, Drops
  <2>2. publisher' = [publisher EXCEPT ![p] = pc] /\ UNCHANGED <<phase, running, configured, reload>>
    BY <2>1 DEF MovesTo
  <2>3. /\ publisher' \in [Publishers -> {"idle", "auth", "asking", "publishing"}]
        /\ publisher'[p] = pc /\ \A o \in Publishers \ {p} : publisher'[o] = publisher[o]
    BY <1>1, <2>2
  <2>4. guards' = {o \in Publishers : publisher'[o] = "publishing"}
    BY <1>1, <2>1, <2>3
  <2> QED
    BY <2>2, <2>3, <2>4 DEF Around
<1>5. ASSUME NEW r \in Reloaders, Reload(r) \/ ReloadStep(r) PROVE Around'
  <2>1. PICK pc \in {"idle", "auth", "old", "work", "swap"} :
            /\ ReloadTo(r, pc) /\ guards' = guards /\ configured' \in BOOLEAN
            /\ pc = "auth" => r \in Admins
    BY <1>5 DEF Reload, ReloadStep, AuthorizeReload, CloneOld, Changed, Swap, Asks, Passes, PassesAndAsks, lock, Around
  <2>2. reload' = [reload EXCEPT ![r] = pc] /\ UNCHANGED <<phase, running, publisher>>
    BY <2>1 DEF ReloadTo
  <2>3. /\ reload' \in [Reloaders -> {"idle", "auth", "old", "work", "swap"}]
        /\ \A o \in Reloaders \ Admins : reload'[o] # "auth"
    BY <1>1, <2>1, <2>2 DEF Around
  <2> QED
    BY <2>1, <2>2, <2>3 DEF Around
<1>6. CASE CtrlC \/ CleanUp \/ Restart
  BY <1>6 DEF CtrlC, CleanUp, Restart, PhaseTo, Passes, lock, Around
<1>7. CASE StopAll
  <2>1. UNCHANGED <<guards, configured, publisher, reload>>
    BY <1>7 DEF StopAll, Asks, lock
  <2>2. /\ phase = "stopping"
        /\ \/ phase' = "stopping" /\ running' \subseteq running
           \/ phase' = "cleanup" /\ running' = {}
    BY <1>7 DEF StopAll
  <2> QED
    BY <2>1, <2>2 DEF Around
<1>8. CASE Drained \/ Dies
  <2>1. Ends
    BY <1>8 DEF Drained, Dies
  <2>2. /\ phase' = "exited" /\ guards' = {} /\ UNCHANGED <<running, configured>>
        /\ publisher' = [p \in Publishers |-> "idle"] /\ reload' = [r \in Reloaders |-> "idle"]
    BY <2>1 DEF Ends, Forgotten
  <2> QED
    BY <2>2 DEF Around
<1> QED
  BY <1>3, <1>4, <1>5, <1>6, <1>7, <1>8 DEF Next, ShutdownStep

\* Trouble is counted.
LEMMA Spent ==
    ASSUME NEW w \in Trouble, used \in [Trouble -> Nat], Spend(w)
    PROVE  used' \in [Trouble -> Nat]
BY DEF Spend

\* What is listed is an event or a document, and trouble is counted.
LEMMA ListedNext == ASSUME IInv, Listed, [Next]_vars PROVE Listed'
<1>1. /\ used \in [Trouble -> Nat]
      /\ told \subseteq Events /\ unheard \subseteq Events /\ commented \subseteq Events /\ wanted \subseteq Events
      /\ linked \subseteq Documents /\ overtaken \subseteq Documents
  BY DEF Listed
<1>2. SUFFICES /\ UNCHANGED used \/ \E w \in Trouble : Spend(w)
               /\ told' \cup unheard' \cup commented' \cup wanted' \subseteq Events
               /\ linked' \cup overtaken' \subseteq Documents
  BY <1>1, Spent DEF Listed, Events
<1>3. ASSUME UNCHANGED <<told, unheard, commented, wanted, linked, overtaken>>
      PROVE  told' \cup unheard' \cup commented' \cup wanted' \subseteq Events /\ linked' \cup overtaken' \subseteq Documents
  BY <1>1, <1>3
<1>4. CASE SetsIssue
  <2>1. Spend("link") /\ "link" \in Trouble
    BY <1>4 DEF SetsIssue, Link, Trouble
  <2>2. PICK d \in Documents : linked' = linked \cup {d} /\ overtaken' \subseteq overtaken \cup {d}
    BY <1>4 DEF SetsIssue, Link
  <2>3. UNCHANGED <<told, unheard, commented, wanted>>
    BY <1>4 DEF SetsIssue, Link
  <2> QED
    BY <1>1, <2>1, <2>2, <2>3
<1>5. ASSUME NEW e \in Events, Receive(e)
      PROVE /\ UNCHANGED used \/ \E w \in Trouble : Spend(w)
            /\ told' \cup unheard' \cup commented' \cup wanted' \subseteq Events
            /\ linked' \cup overtaken' \subseteq Documents
  <2>1. PICK h : Deliver(h, e)
    BY <1>5 DEF Receive
  <2>2. UNCHANGED used \/ \E w \in Trouble : Spend(w)
    BY <2>1 DEF Deliver, Trouble
  <2>3. UNCHANGED <<told, unheard, commented, wanted, linked>> /\ overtaken' \subseteq overtaken \cup {events[e].doc}
    BY <2>1 DEF Deliver
  <2>4. events[e].doc \in Documents
    BY DEF IInv, Typed, EventRecords
  <2> QED
    BY <1>1, <2>2, <2>3, <2>4
<1>6. ASSUME NEW h \in Handlers, Serves(h)
      PROVE /\ UNCHANGED used \/ \E w \in Trouble : Spend(w)
            /\ told' \cup unheard' \cup commented' \cup wanted' \subseteq Events
            /\ linked' \cup overtaken' \subseteq Documents
  <2> DEFINE e == handler[h].event
  <2>1. CASE ReadsSecret(h)
    BY <1>3, <2>1 DEF ReadsSecret
  <2>2. CASE \E bot, client \in BOOLEAN : HandlerStep(h, bot, client)
    <3>1. Busy(h)
      BY <2>2 DEF HandlerStep, Find, Upsert, Notify, Comment, CommentRefused, StepFails, Busy, At
    <3>2. e \in Events
      BY <3>1, AtWork DEF IInv
    <3> HIDE DEF e
    <3>3. PICK bot \in BOOLEAN, client \in BOOLEAN : HandlerStep(h, bot, client)
      BY <2>2
    <3>4. CASE Find(h) \/ Upsert(h) \/ Notify(h, bot)
      BY <1>1, <3>2, <3>4 DEF Find, Upsert, Notify, e
    <3>5. CASE Comment(h, client) \/ CommentRefused(h, client)
      BY <1>1, <3>2, <3>5 DEF Comment, CommentRefused, e
    <3>6. CASE StepFails(h, bot, client)
      <4>1. Spend("fault") /\ "fault" \in Trouble
        BY <3>6 DEF StepFails, Trouble
      <4>2. /\ told' \subseteq told \cup {e} /\ commented' \subseteq commented \cup {e}
            /\ UNCHANGED <<unheard, wanted, linked, overtaken>>
        BY <3>6 DEF StepFails, e
      <4> QED
        BY <1>1, <3>2, <4>1, <4>2
    <3> QED
      BY <3>3, <3>4, <3>5, <3>6 DEF HandlerStep
  <2>3. ("matrix" \in running) \in BOOLEAN /\ ("linear" \in running) \in BOOLEAN
    OBVIOUS
  <2> QED
    BY <1>6, <2>1, <2>2, <2>3 DEF Serves
<1>7. ASSUME NEW p \in Publishers, Publish(p) \/ PublisherStep(p)
      PROVE  UNCHANGED ledger /\ (UNCHANGED used \/ \E w \in Trouble : Spend(w))
  BY <1>7 DEF Publish, PublisherStep, Authorize, TakesConfig, Published, MovesTo, Trouble
<1>8. ASSUME NEW r \in Reloaders, Reload(r) \/ ReloadStep(r)
      PROVE  UNCHANGED ledger /\ (UNCHANGED used \/ \E w \in Trouble : Spend(w))
  BY <1>8 DEF Reload, ReloadStep, AuthorizeReload, CloneOld, Changed, Swap, ReloadTo, Trouble
<1>9. CASE CtrlC \/ StopAll \/ CleanUp \/ Restart \/ UNCHANGED vars
  <2>1. UNCHANGED ledger /\ (UNCHANGED used \/ \E w \in Trouble : Spend(w))
    BY <1>9 DEF CtrlC, StopAll, CleanUp, Restart, vars, contracts, Trouble
  <2> QED
    BY <1>3, <2>1 DEF ledger
<1>10. CASE Drained \/ Dies
  <2>1. Cut /\ (UNCHANGED used \/ \E w \in Trouble : Spend(w))
    BY <1>10 DEF Drained, Dies, Ends, Trouble
  <2> QED
    BY <1>3, <2>1 DEF Cut
<1> QED
  BY <1>3, <1>4, <1>5, <1>6, <1>7, <1>8, <1>9, <1>10 DEF Next, ShutdownStep, ledger

\* At first nobody waits, and nothing is listed.
LEMMA TypingInit == Init => Lined /\ Around /\ Listed
<1> SUFFICES ASSUME Init PROVE Lined /\ Around /\ Listed
  OBVIOUS
<1>1. Lined
  BY DEF Init, Free, Lined, Orderly, InLine
<1>2. Around
  BY DEF Init, Free, Around
<1>3. Listed
  <2>1. used = [w \in Trouble |-> 0]
    BY DEF Init, ContractsInit
  <2> QED
    BY <2>1 DEF Init, ContractsInit, Listed
<1> QED
  BY <1>1, <1>2, <1>3

\* Nobody waits twice for the config, none but those who publish keep it, and requests
\* are waited for when no connector is left.
THEOREM TypeCorrect == Spec => []TypeOK
<1>1. Lined /\ Around /\ Listed /\ IInv /\ IInv' /\ [Next]_vars => (Lined /\ Around /\ Listed)'
  <2> SUFFICES ASSUME Lined, Around, Listed, IInv, [Next]_vars PROVE Lined'
    BY AroundNext, ListedNext
  <2> QED
    BY LineServes, LineReceives, LinePublishes, LineReloads, LineEnds DEF Next
<1>2. IInv /\ Lined /\ Around /\ Listed => TypeOK
  <2> SUFFICES ASSUME IInv, Lined, Around, Listed PROVE TypeOK
    OBVIOUS
  <2>1. ContractsTypeOK
    BY DEF IInv, Typed, Listed, ContractsTypeOK, EventRecords, Rows, Requests, Seen
  <2> QED
    BY <2>1 DEF Lined, Orderly, Tickets, Around, TypeOK
<1> QED
  BY TypingInit, Invariance, <1>1, <1>2, PTL DEF Spec

=============================================================================
