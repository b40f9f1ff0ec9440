---------------------------- MODULE PostingProofs ----------------------------
(***************************************************************************)
(* What goes out stays spaced, whoever posts it.                           *)
(*                                                                         *)
(* Of Publishing: no ticker is posted twice in 24 hours, no 24 hours see   *)
(* more posts than the cap and its overlaps allow, and no week sees two    *)
(* digests, for any number of tickers and requests, any cap and any clock, *)
(* as long as the table can be read and written.  Of PostingLoop: no       *)
(* announcement is posted twice while the loop keeps track of it, for any  *)
(* announcements, platforms, settings, limits and number of new loops.     *)
(*                                                                         *)
(* Every check of Publishing looks at rows, every promise is about posts,  *)
(* and a row is younger than its post.  So the first invariant says that a *)
(* post has a row as young, or its request has yet to write one            *)
(* (Recorded), and what the check has found stays true until the post is   *)
(* out (Cooled).                                                           *)
(***************************************************************************)
EXTENDS Publishing, PostingLoop, FiniteSetTheorems, TLAPS

Records == [pc : {"idle", "cooldown", "publish", "record"}, ticker : Tickers \cup {None}]

Past(r) == request[r].pc \in {"cooldown", "publish", "record"}

\* Requests past the cap have a ticker, and nothing was posted in the future.
Sound ==
    /\ \A r \in Requests : Past(r) => request[r].ticker \in Tickers
    /\ \A k \in Kinds, t \in Times : posts[k][t] > 0 => t <= now

Alone(k) ==
    \A r, s \in Requests :
        Past(r) /\ Past(s) /\ request[r].ticker = k /\ request[s].ticker = k => r = s

Recorded(k) ==
    \A t \in Times : posts[k][t] > 0 =>
        \/ \E u \in Times : t <= u /\ rows[k][u] > 0
        \/ \E r \in Requests : request[r].pc = "record" /\ request[r].ticker = k

Cooled(k) ==
    \A r \in Requests : request[r].pc = "publish" /\ request[r].ticker = k =>
        \A t \in Times : posts[k][t] > 0 => now - t >= Day

\* CooldownHolds of one ticker.
Spaced(k) ==
    \A t, u \in Times :
        posts[k][t] > 0 /\ posts[k][u] > 0 /\ t <= u =>
            IF t = u THEN posts[k][t] = 1 ELSE u - t >= Day

Calm(k) == Alone(k) /\ Recorded(k) /\ Cooled(k) /\ Spaced(k)

IInv == TypeOK /\ Sound /\ (clean => \A k \in Tickers \ raced : Calm(k))

\* At first nothing is posted.
LEMMA InitInv == Init => IInv
<1> SUFFICES ASSUME Init PROVE IInv
  OBVIOUS
<1>1. TypeOK
  <2>1. now \in Times
    BY ClockAssumption DEF Init, Times
  <2>2. [t \in Times |-> 0] \in [Times -> Nat]
    OBVIOUS
  <2>3. rows \in [Kinds -> [Times -> Nat]] /\ posts \in [Kinds -> [Times -> Nat]]
    BY <2>2 DEF Init
  <2> QED
    BY <2>1, <2>3 DEF Init, TypeOK, Waiting
<1>2. \A k \in Kinds, t \in Times : posts[k][t] = 0
  BY DEF Init
<1>3. \A r \in Requests : request[r].pc = "idle"
  BY DEF Init, Waiting
<1>4. Sound
  BY <1>2, <1>3 DEF Sound, Past
<1>5. \A k \in Tickers : Calm(k)
  BY <1>2, <1>3 DEF Calm, Alone, Recorded, Cooled, Spaced, Past, Kinds
<1> QED
  BY <1>1, <1>4, <1>5 DEF IInv

\* The clock and the kinds, in numbers.
LEMMA Numbers ==
    ASSUME TypeOK
    PROVE  /\ now \in Times /\ Times \subseteq Nat /\ Day \in Nat /\ Day > 0
           /\ request \in [Requests -> Records]
           /\ Tickers \subseteq Kinds /\ "digest" \in Kinds /\ "digest" \notin Tickers
           /\ \A k \in Kinds, t \in Times : posts[k][t] \in Nat /\ rows[k][t] \in Nat
BY ClockAssumption, DigestAssumption DEF TypeOK, Times, Kinds, Records

\* Time passes, the digest is at work, requests go on or end, others are let past the
\* cap: nothing is posted, no row is lost, and no request is forgotten that has one
\* to write.
LEMMA CalmStays ==
    ASSUME TypeOK, TypeOK', Sound, NEW k \in Tickers, Calm(k),
           posts'[k] = posts[k], now' >= now,
           \A t \in Times : rows[k][t] > 0 => rows'[k][t] > 0,
           \A r \in Requests :
               \/ request'[r] = request[r]
               \/ request'[r].pc = "idle" /\ request[r].pc # "record"
               \/ request'[r].pc = "cooldown" /\ request'[r].ticker # k /\ ~Past(r)
               \/ request'[r].pc = "idle" /\ request[r].ticker # k
    PROVE  Calm(k)'
<1>1. /\ now \in Nat /\ now' \in Nat /\ Day \in Nat /\ Times \subseteq Nat
      /\ k \in Kinds
  BY Numbers DEF TypeOK, Times
<1>2. Alone(k)'
  BY DEF Calm, Alone, Past
<1>3. Recorded(k)'
  <2>1. \A r \in Requests : request[r].pc = "record" /\ request[r].ticker = k => request'[r] = request[r]
    BY DEF Past
  <2> QED
    BY <2>1 DEF Calm, Recorded
<1>4. Cooled(k)'
  BY <1>1 DEF Calm, Cooled
<1>5. Spaced(k)'
  BY DEF Calm, Spaced
<1> QED
  BY <1>2, <1>3, <1>4, <1>5 DEF Calm

\* Mishaps are counted.
LEMMA MishapTyped == ASSUME TypeOK, Mishap PROVE mishaps' \in Nat
<1>1. mishaps \in Nat
  BY DEF TypeOK
<1> QED
  BY <1>1 DEF Mishap

\* A table one row longer.
LEMMA OneMore ==
    ASSUME NEW table \in [Kinds -> [Times -> Nat]], NEW k \in Kinds, NEW t \in Times,
           NEW longer, longer = [table EXCEPT ![k][t] = @ + 1]
    PROVE  /\ longer \in [Kinds -> [Times -> Nat]]
           /\ longer[k][t] = table[k][t] + 1
           /\ \A j \in Kinds, u \in Times : j # k \/ u # t => longer[j][u] = table[j][u]
<1> DEFINE row == [table[k] EXCEPT ![t] = @ + 1]
<1>1. table[k] \in [Times -> Nat] /\ table[k][t] \in Nat
  OBVIOUS
<1>2. row \in [Times -> Nat] /\ row[t] = table[k][t] + 1 /\ \A u \in Times \ {t} : row[u] = table[k][u]
  BY <1>1
<1>3. longer = [table EXCEPT ![k] = row]
  OBVIOUS
<1>4. longer \in [Kinds -> [Times -> Nat]] /\ longer[k] = row /\ \A j \in Kinds \ {k} : longer[j] = table[j]
  BY <1>2, <1>3
<1> QED
  BY <1>2, <1>4

\* A request that goes on or ends is a request, and moves no other.
LEMMA OneRequest ==
    ASSUME TypeOK, NEW r \in Requests, NEW to \in {"idle", "cooldown", "publish", "record"}, Goes(r, to)
    PROVE  /\ request' \in [Requests -> Records]
           /\ request'[r].pc = to /\ request'[r].ticker = request[r].ticker
           /\ \A s \in Requests \ {r} : request'[s] = request[s]
<1>1. request \in [Requests -> Records]
  BY Numbers
<1>2. request' = [request EXCEPT ![r].pc = to]
  BY DEF Goes
<1>3. request[r] \in Records
  BY <1>1
<1>4. [request[r] EXCEPT !.pc = to] \in Records
  BY <1>3 DEF Records
<1>5. request' = [request EXCEPT ![r] = [request[r] EXCEPT !.pc = to]]
  BY <1>2
<1> QED
  BY <1>1, <1>3, <1>4, <1>5 DEF Records

\* A request that ends waits for the next, and the others go on.
LEMMA OneEnds ==
    ASSUME TypeOK, NEW r \in Requests, Ends(r)
    PROVE  /\ request' \in [Requests -> Records]
           /\ request'[r].pc = "idle"
           /\ \A s \in Requests \ {r} : request'[s] = request[s]
BY Numbers DEF Ends, Waiting, Records

\* Time, the digest and a restart.
LEMMA ElsewhereInv ==
    ASSUME IInv, Pass \/ DigestStep \/ Restart \/ UNCHANGED vars
    PROVE  IInv'
<1> USE DEF IInv
<1>1. CASE Pass
  <2>1. now' \in Times /\ now' >= now
    BY <1>1, ClockAssumption, Numbers DEF Pass, Times
  <2>2. TypeOK'
    BY <1>1, <2>1 DEF Pass, TypeOK
  <2>3. Sound'
    BY <1>1, <2>1, Numbers DEF Pass, Sound, Past, Times
  <2>4. ASSUME clean, NEW k \in Tickers \ raced PROVE Calm(k)'
    BY <1>1, <2>1, <2>2, <2>4, CalmStays DEF Pass
  <2> QED
    BY <1>1, <2>2, <2>3, <2>4 DEF Pass
<1>2. CASE DigestBegins \/ DigestGivesUp \/ UNCHANGED vars
  <2>1. /\ now' = now /\ rows' = rows /\ posts' = posts /\ request' = request
        /\ raced' = raced /\ clean' = clean
    BY <1>2 DEF DigestBegins, DigestGivesUp, vars
  <2>2. TypeOK'
    BY <1>2 DEF DigestBegins, DigestGivesUp, vars, TypeOK
  <2>3. Sound'
    BY <2>1 DEF Sound, Past
  <2>4. \A k \in Tickers : Calm(k)' <=> Calm(k)
    BY <2>1 DEF Calm, Alone, Recorded, Cooled, Spaced, Past
  <2> QED
    BY <2>1, <2>2, <2>3, <2>4
<1>3. CASE DigestPublishes
  <2>1. /\ posts' \in [Kinds -> [Times -> Nat]]
        /\ \A j \in Kinds, u \in Times : j # "digest" \/ u # now => posts'[j][u] = posts[j][u]
    BY <1>3, Numbers, OneMore DEF DigestPublishes, TypeOK
  <2>2. TypeOK'
    BY <1>3, <2>1 DEF DigestPublishes, TypeOK
  <2>3. Sound'
    BY <1>3, <2>1, Numbers DEF DigestPublishes, Sound, Past
  <2>4. ASSUME clean, NEW k \in Tickers \ raced PROVE Calm(k)'
    <3>1. posts'[k] = posts[k]
      BY <1>3, DigestAssumption DEF DigestPublishes, TypeOK, Kinds
    <3> QED
      BY <1>3, <2>2, <2>4, <3>1, Numbers, CalmStays DEF DigestPublishes
  <2> QED
    BY <1>3, <2>2, <2>3, <2>4 DEF DigestPublishes
<1>4. CASE DigestRecords
  <2>1. /\ rows' \in [Kinds -> [Times -> Nat]]
        /\ \A j \in Kinds, u \in Times : j # "digest" \/ u # now => rows'[j][u] = rows[j][u]
    BY <1>4, Numbers, OneMore DEF DigestRecords, TypeOK
  <2>2. TypeOK'
    BY <1>4, <2>1 DEF DigestRecords, TypeOK
  <2>3. Sound'
    BY <1>4 DEF DigestRecords, Sound, Past
  <2>4. ASSUME clean, NEW k \in Tickers \ raced PROVE Calm(k)'
    <3>1. \A t \in Times : rows'[k][t] = rows[k][t]
      BY <2>1, Numbers
    <3> QED
      BY <1>4, <2>2, <2>4, <3>1, Numbers, CalmStays DEF DigestRecords, Times
  <2> QED
    BY <1>4, <2>2, <2>3, <2>4 DEF DigestRecords
<1>5. CASE DigestRecordFails
  <2>1. TypeOK'
    BY <1>5, MishapTyped DEF DigestRecordFails, TypeOK
  <2> QED
    BY <1>5, <2>1 DEF DigestRecordFails, Sound, Past
<1>6. CASE Restart
  <2>1. TypeOK'
    BY <1>6, MishapTyped DEF Restart, TypeOK, Waiting
  <2>2. \A r \in Requests : request'[r].pc = "idle"
    BY <1>6 DEF Restart, Waiting
  <2>3. Sound'
    BY <1>6, <2>2 DEF Restart, Sound, Past
  <2>4. ASSUME clean', NEW k \in Tickers \ raced PROVE Calm(k)'
    <3>1. clean /\ \A r \in Requests : request[r].pc # "record"
      BY <1>6, <2>4 DEF Restart
    <3> QED
      BY <1>6, <2>1, <2>2, <2>4, <3>1, Numbers, CalmStays DEF Restart, Times
  <2> QED
    BY <1>6, <2>1, <2>3, <2>4 DEF Restart
<1> QED
  BY <1>1, <1>2, <1>3, <1>4, <1>5, <1>6 DEF DigestStep

\* A request is let past the cap: if another one for its ticker is, both are counted.
LEMMA PassesCapInv ==
    ASSUME IInv, NEW r \in Requests, NEW k \in Tickers, BelowCap(r, k) \/ CapUnread(r, k)
    PROVE  IInv'
<1> USE DEF IInv
<1>1. /\ now' = now /\ rows' = rows /\ posts' = posts /\ digest' = digest
      /\ request[r].pc = "idle" /\ PassesCap(r, k) /\ mishaps' \in Nat
      /\ clean' \in BOOLEAN /\ (clean' => clean)
  <2>1. CASE BelowCap(r, k)
    BY <2>1 DEF BelowCap, TypeOK
  <2>2. CASE CapUnread(r, k)
    BY <2>2, MishapTyped DEF CapUnread, TypeOK
  <2> QED
    BY <2>1, <2>2
<1>2. [pc |-> "cooldown", ticker |-> k] \in Records
  BY DEF Records
<1>3. /\ request' \in [Requests -> Records]
      /\ request'[r] = [pc |-> "cooldown", ticker |-> k]
      /\ \A s \in Requests \ {r} : request'[s] = request[s]
  BY <1>1, <1>2, Numbers DEF PassesCap
<1>4. raced' \subseteq Tickers /\ raced \subseteq raced' /\ crowded' \in BOOLEAN
  BY <1>1 DEF PassesCap, TypeOK
<1>5. TypeOK'
  BY <1>1, <1>3, <1>4 DEF TypeOK, Records
<1>6. Sound'
  BY <1>1, <1>3 DEF Sound, Past
<1>7. ASSUME clean', NEW j \in Tickers \ raced' PROVE Calm(j)'
  <2>1. Calm(j)
    BY <1>1, <1>4, <1>7
  <2>2. CASE j # k
    BY <1>1, <1>3, <1>5, <2>1, <2>2, Numbers, CalmStays DEF Past, Times
  <2>3. CASE j = k
    <3>1. \A s \in Requests : Past(s) => request[s].ticker # k
      BY <1>1, <1>7, <2>3 DEF PassesCap, PastTheCap, Past
    <3>2. Alone(j)'
      BY <1>3, <2>3, <3>1 DEF Alone, Past
    <3>3. Recorded(j)'
      BY <1>1, <2>1, <2>3, <3>1 DEF Calm, Recorded, Past
    <3>4. Cooled(j)'
      BY <1>3, <2>3, <3>1 DEF Cooled, Past
    <3>5. Spaced(j)'
      BY <1>1, <2>1 DEF Calm, Spaced
    <3> QED
      BY <3>2, <3>3, <3>4, <3>5 DEF Calm
  <2> QED
    BY <2>2, <2>3
<1> QED
  BY <1>5, <1>6, <1>7

\* The check of the cooldown, and the ways to end without a post.
LEMMA ChecksInv ==
    ASSUME IInv, NEW r \in Requests, CooledDown(r) \/ CooldownUnread(r) \/ GiveUp(r) \/ RecordFails(r)
    PROVE  IInv'
<1> USE DEF IInv
<1>1. CASE CooledDown(r)
  <2>1. /\ request' \in [Requests -> Records]
        /\ request'[r].pc = "publish" /\ request'[r].ticker = request[r].ticker
        /\ \A s \in Requests \ {r} : request'[s] = request[s]
    BY <1>1, OneRequest DEF CooledDown
  <2>2. /\ request[r].pc = "cooldown" /\ ~Cooling(request[r].ticker)
        /\ now' = now /\ rows' = rows /\ posts' = posts /\ raced' = raced /\ clean' = clean
    BY <1>1 DEF CooledDown
  <2>3. TypeOK'
    BY <1>1, <2>1 DEF CooledDown, TypeOK, Records
  <2>4. Sound'
    BY <2>1, <2>2 DEF Sound, Past
  <2>5. ASSUME clean, NEW k \in Tickers \ raced PROVE Calm(k)'
    <3>1. Calm(k)
      BY <2>5
    <3>2. Alone(k)'
      BY <2>1, <2>2, <3>1 DEF Calm, Alone, Past
    <3>3. Recorded(k)'
      <4>1. \A s \in Requests : request[s].pc = "record" => request'[s] = request[s]
        BY <2>1, <2>2
      <4> QED
        BY <2>2, <3>1, <4>1 DEF Calm, Recorded
    <3>4. Cooled(k)'
      <4>1. ASSUME request[r].ticker = k, NEW t \in Times, posts[k][t] > 0 PROVE now - t >= Day
        <5>1. ~\E s \in Requests : request[s].pc = "record" /\ request[s].ticker = k
          BY <2>2, <3>1, <4>1 DEF Calm, Alone, Past
        <5>2. PICK u \in Times : t <= u /\ rows[k][u] > 0
          BY <3>1, <4>1, <5>1 DEF Calm, Recorded
        <5>3. ~(now - u < Day)
          BY <2>2, <4>1, <5>2 DEF Cooling
        <5> QED
          BY <5>2, <5>3, Numbers
      <4>2. \A s \in Requests \ {r} : request[s].pc = "publish" /\ request[s].ticker = k =>
                \A t \in Times : posts[k][t] > 0 => now - t >= Day
        BY <3>1 DEF Calm, Cooled
      <4> QED
        BY <2>1, <2>2, <4>1, <4>2 DEF Cooled
    <3>5. Spaced(k)'
      BY <2>2, <3>1 DEF Calm, Spaced
    <3> QED
      BY <3>2, <3>3, <3>4, <3>5 DEF Calm
  <2> QED
    BY <2>2, <2>3, <2>4, <2>5
<1>2. CASE CooldownUnread(r)
  <2>1. /\ request' \in [Requests -> Records]
        /\ request'[r].pc = "publish" /\ request'[r].ticker = request[r].ticker
        /\ \A s \in Requests \ {r} : request'[s] = request[s]
    BY <1>2, OneRequest DEF CooldownUnread
  <2>2. TypeOK'
    BY <1>2, <2>1, MishapTyped DEF CooldownUnread, TypeOK, Records
  <2>3. Sound'
    BY <1>2, <2>1 DEF CooldownUnread, Sound, Past
  <2> QED
    BY <1>2, <2>2, <2>3 DEF CooldownUnread
<1>3. CASE GiveUp(r)
  <2>1. /\ request' \in [Requests -> Records]
        /\ request'[r].pc = "idle"
        /\ \A s \in Requests \ {r} : request'[s] = request[s]
    BY <1>3, OneEnds DEF GiveUp
  <2>2. /\ request[r].pc # "record"
        /\ now' = now /\ rows' = rows /\ posts' = posts /\ raced' = raced /\ clean' = clean
    BY <1>3 DEF GiveUp
  <2>3. TypeOK'
    BY <1>3, <2>1 DEF GiveUp, TypeOK, Records
  <2>4. Sound'
    BY <2>1, <2>2 DEF Sound, Past
  <2>5. ASSUME clean, NEW k \in Tickers \ raced PROVE Calm(k)'
    BY <2>1, <2>2, <2>3, <2>5, Numbers, CalmStays DEF Times
  <2> QED
    BY <2>2, <2>3, <2>4, <2>5
<1>4. CASE RecordFails(r)
  <2>1. /\ request' \in [Requests -> Records]
        /\ request'[r].pc = "idle"
        /\ \A s \in Requests \ {r} : request'[s] = request[s]
    BY <1>4, OneEnds DEF RecordFails
  <2>2. TypeOK'
    BY <1>4, <2>1, MishapTyped DEF RecordFails, TypeOK, Records
  <2>3. Sound'
    BY <1>4, <2>1 DEF RecordFails, Sound, Past
  <2> QED
    BY <1>4, <2>2, <2>3 DEF RecordFails
<1> QED
  BY <1>1, <1>2, <1>3, <1>4

\* The post: what the check found is still true of it, since nobody else is at work
\* for the ticker.
LEMMA PublishInv == ASSUME IInv, NEW r \in Requests, Publish(r) PROVE IInv'
<1> USE DEF IInv
<1> DEFINE k == request[r].ticker
<1>1. /\ request' \in [Requests -> Records]
      /\ request'[r].pc = "record" /\ request'[r].ticker = k
      /\ \A s \in Requests \ {r} : request'[s] = request[s]
  BY OneRequest DEF Publish
<1>2. /\ request[r].pc = "publish" /\ k \in Tickers
      /\ now' = now /\ rows' = rows /\ raced' = raced /\ clean' = clean
      /\ posts' = [posts EXCEPT ![k][now] = @ + 1]
  BY DEF Publish, Sound, Past
<1>3. /\ posts' \in [Kinds -> [Times -> Nat]]
      /\ posts'[k][now] = posts[k][now] + 1
      /\ \A j \in Kinds, u \in Times : j # k \/ u # now => posts'[j][u] = posts[j][u]
  BY <1>2, Numbers, OneMore DEF TypeOK
<1>4. TypeOK'
  BY <1>1, <1>3 DEF Publish, TypeOK, Records
<1>5. Sound'
  BY <1>1, <1>2, <1>3, Numbers DEF Sound, Past
<1>6. ASSUME clean, NEW j \in Tickers \ raced PROVE Calm(j)'
  <2>1. Calm(j) /\ j \in Kinds
    BY <1>6, Numbers
  <2>2. Alone(j)'
    BY <1>1, <1>2, <2>1 DEF Calm, Alone, Past
  <2>3. CASE j # k
    <3>1. \A t \in Times : posts'[j][t] = posts[j][t]
      BY <1>3, <2>1, <2>3
    <3>2. \A s \in Requests : request[s].ticker = j => request'[s] = request[s]
      BY <1>1, <2>3
    <3>3. \A s \in Requests : request'[s].ticker = j => request'[s] = request[s]
      BY <1>1, <2>3
    <3>4. Recorded(j)'
      BY <1>2, <2>1, <3>1, <3>2 DEF Calm, Recorded
    <3>5. Cooled(j)'
      BY <1>2, <2>1, <3>1, <3>3 DEF Calm, Cooled
    <3>6. Spaced(j)'
      BY <2>1, <3>1 DEF Calm, Spaced
    <3> QED
      BY <2>2, <3>4, <3>5, <3>6 DEF Calm
  <2>4. CASE j = k
    <3>1. \A s \in Requests \ {r} : Past(s) => request[s].ticker # j
      BY <1>2, <2>1, <2>4 DEF Calm, Alone, Past
    <3>2. Recorded(j)'
      BY <1>1, <2>4 DEF Recorded
    <3>3. Cooled(j)'
      BY <1>1, <3>1 DEF Cooled, Past
    <3>4. \A t \in Times : posts[j][t] > 0 => now - t >= Day
      BY <1>2, <2>1, <2>4 DEF Calm, Cooled
    <3>5. Spaced(j)'
      <4> SUFFICES ASSUME NEW t \in Times, NEW u \in Times, posts'[j][t] > 0, posts'[j][u] > 0, t <= u
                   PROVE  IF t = u THEN posts'[j][t] = 1 ELSE u - t >= Day
        BY DEF Spaced
      <4>1. posts[j][now] = 0
        BY <2>1, <3>4, Numbers
      <4>2. t <= now /\ u <= now
        BY <1>2, <1>5, <2>1 DEF Sound
      <4>3. CASE u = now
        BY <1>3, <2>1, <2>4, <3>4, <4>1, <4>3, Numbers
      <4>4. CASE u # now
        <5>1. t # now
          BY <4>2, <4>4, Numbers
        <5>2. posts'[j][t] = posts[j][t] /\ posts'[j][u] = posts[j][u]
          BY <1>3, <2>1, <4>4, <5>1
        <5> QED
          BY <2>1, <5>2 DEF Calm, Spaced
      <4> QED
        BY <4>3, <4>4
    <3> QED
      BY <2>2, <3>2, <3>3, <3>5 DEF Calm
  <2> QED
    BY <2>3, <2>4
<1> QED
  BY <1>2, <1>4, <1>5, <1>6

\* The row is at least as young as the post.
LEMMA RecordInv == ASSUME IInv, NEW r \in Requests, Record(r) PROVE IInv'
<1> USE DEF IInv
<1> DEFINE k == request[r].ticker
<1>1. /\ request' \in [Requests -> Records]
      /\ request'[r].pc = "idle"
      /\ \A s \in Requests \ {r} : request'[s] = request[s]
  BY OneEnds DEF Record
<1>2. /\ request[r].pc = "record" /\ k \in Tickers
      /\ now' = now /\ posts' = posts /\ raced' = raced /\ clean' = clean
      /\ rows' = [rows EXCEPT ![k][now] = @ + 1]
  BY DEF Record, Sound, Past
<1>3. /\ rows' \in [Kinds -> [Times -> Nat]]
      /\ rows'[k][now] = rows[k][now] + 1
      /\ \A j \in Kinds, u \in Times : j # k \/ u # now => rows'[j][u] = rows[j][u]
  BY <1>2, Numbers, OneMore DEF TypeOK
<1>4. TypeOK'
  BY <1>1, <1>3 DEF Record, TypeOK, Records
<1>5. Sound'
  BY <1>1, <1>2 DEF Sound, Past
<1>6. \A j \in Kinds, u \in Times : rows[j][u] > 0 => rows'[j][u] > 0
  BY <1>2, <1>3, Numbers
<1>7. ASSUME clean, NEW j \in Tickers \ raced PROVE Calm(j)'
  <2>1. Calm(j) /\ j \in Kinds
    BY <1>7, Numbers
  <2>2. CASE j # k
    BY <1>1, <1>2, <1>4, <1>6, <2>1, <2>2, Numbers, CalmStays DEF Times
  <2>3. CASE j = k
    <3>1. Alone(j)'
      BY <1>1, <2>1 DEF Calm, Alone, Past
    <3>2. Recorded(j)'
      <4>1. now \in Times /\ rows'[j][now] > 0
        BY <1>2, <1>3, <2>3, Numbers
      <4>2. \A t \in Times : posts[j][t] > 0 => t <= now
        BY <2>1 DEF Sound
      <4> QED
        BY <1>2, <4>1, <4>2 DEF Recorded
    <3>3. Cooled(j)'
      BY <1>1, <1>2, <2>1 DEF Calm, Cooled
    <3>4. Spaced(j)'
      BY <1>2, <2>1 DEF Calm, Spaced
    <3> QED
      BY <3>1, <3>2, <3>3, <3>4 DEF Calm
  <2> QED
    BY <2>2, <2>3
<1> QED
  BY <1>2, <1>4, <1>5, <1>7

\* No step breaks the cooldown.
LEMMA NextInv == IInv /\ [Next]_vars => IInv'
BY ElsewhereInv, PassesCapInv, ChecksInv, PublishInv, RecordInv DEF Next, Trending

\* The table never has fewer than no rows of a kind, and requests have tickers.
THEOREM TypeCorrect == Spec => []TypeOK
<1>1. IInv => TypeOK
  BY DEF IInv
<1> QED
  BY InitInv, NextInv, <1>1, PTL DEF Spec

\* A ticker is posted at most once in any 24 hours, though the row that says so is
\* written long after it was looked for, unless its requests overlap or the table
\* cannot be used.
THEOREM CooldownIsKept == Spec => []CooldownHolds
<1>1. IInv => CooldownHolds
  BY DEF IInv, Calm, Spaced, CooldownHolds
<1> QED
  BY InitInv, NextInv, <1>1, PTL DEF Spec

(***************************************************************************)
(* The cap.                                                                *)
(*                                                                         *)
(* Behind: the table is behind what was published by the requests that     *)
(* have yet to write their row, at most, whatever the window.  So a count  *)
(* below the cap leaves room for one post and for all that may still come  *)
(* of the requests that are past the cap (Headroom).                       *)
(***************************************************************************)
Recording == {r \in Requests : request[r].pc = "record"}
Deciding == {r \in Requests : request[r].pc \in {"cooldown", "publish"}}

Excess == IF crowded THEN Cardinality(Requests) - 1 ELSE 0

\* Only finitely many rows and posts were made.
Counted == IsFiniteSet(Entries(rows, Kinds, 0)) /\ IsFiniteSet(Entries(posts, Kinds, 0))

Behind ==
    \A t \in Nat : CountSince(posts, Tickers, t) <= CountSince(rows, Tickers, t) + Cardinality(Recording)

Headroom == PostsToday + Cardinality(Deciding) <= DailyCap + Excess

CapInv == IInv /\ Counted /\ (clean => Behind /\ Headroom)

\* An entry is a kind, a time from t on, and a number up to that of the rows there.
LEMMA Member ==
    ASSUME NEW table, NEW kinds, NEW t
    PROVE  \A x : x \in Entries(table, kinds, t) <=>
               \E k \in kinds, u \in Times : u >= t /\ \E n \in 1 .. table[k][u] : x = <<<<k, u>>, n>>
BY DEF Entries

\* Of fewer kinds, or of a shorter time, there is less.
LEMMA FewerEntries ==
    ASSUME NEW table, NEW kinds, NEW some \in SUBSET kinds, NEW t \in Nat, NEW later \in Nat, t <= later,
           IsFiniteSet(Entries(table, kinds, t))
    PROVE  /\ IsFiniteSet(Entries(table, some, later))
           /\ CountSince(table, some, later) \in Nat
           /\ CountSince(table, some, later) <= CountSince(table, kinds, t)
<1>1. Entries(table, some, later) \subseteq Entries(table, kinds, t)
  BY Member DEF Times
<1> QED
  BY <1>1, FS_Subset, FS_CardinalityType DEF CountSince

\* longer is table with one row more of kind k, of time u.
Longer(table, longer, k, u) ==
    /\ table[k][u] \in Nat
    /\ longer[k][u] = table[k][u] + 1
    /\ \A j \in Kinds, v \in Times : j # k \/ v # u => longer[j][v] = table[j][v]

\* What adds a row makes a table longer by one.
LEMMA IsLonger ==
    ASSUME NEW table \in [Kinds -> [Times -> Nat]], NEW k \in Kinds, NEW u \in Times,
           NEW longer, longer = [table EXCEPT ![k][u] = @ + 1]
    PROVE  Longer(table, longer, k, u)
BY OneMore DEF Longer

\* One row more is one more in every count that covers it.
LEMMA OneEntryMore ==
    ASSUME NEW table, NEW longer, NEW k \in Kinds, NEW u \in Times, Longer(table, longer, k, u),
           NEW kinds \in SUBSET Kinds, NEW t \in Nat, IsFiniteSet(Entries(table, kinds, t))
    PROVE  /\ IsFiniteSet(Entries(longer, kinds, t))
           /\ CountSince(longer, kinds, t) =
                  IF k \in kinds /\ u >= t THEN CountSince(table, kinds, t) + 1
                  ELSE CountSince(table, kinds, t)
<1> PICK m \in Nat : m = table[k][u]
  BY DEF Longer
<1> DEFINE e == <<<<k, u>>, m + 1>>
<1>1. 1 .. (m + 1) = (1 .. m) \cup {m + 1}
  OBVIOUS
<1>2. e = <<<<k, u>>, m + 1>>
  OBVIOUS
<1> HIDE DEF e
<1>3. CASE k \in kinds /\ u >= t
  <2>1. e \notin Entries(table, kinds, t)
    <3>1. \A n \in 1 .. table[k][u] : n # m + 1
      OBVIOUS
    <3> QED
      BY <1>2, <3>1, Member
  <2>2. ASSUME NEW x PROVE x \in Entries(longer, kinds, t) <=> x \in Entries(table, kinds, t) \cup {e}
    <3>1. ASSUME NEW j \in kinds, NEW v \in Times, v >= t
          PROVE  (\E n \in 1 .. longer[j][v] : x = <<<<j, v>>, n>>) <=>
                     \/ \E n \in 1 .. table[j][v] : x = <<<<j, v>>, n>>
                     \/ j = k /\ v = u /\ x = e
      <4>1. CASE j = k /\ v = u
        <5>1. longer[j][v] = m + 1 /\ table[j][v] = m
          BY <4>1 DEF Longer
        <5> QED
          BY <1>1, <1>2, <4>1, <5>1
      <4>2. CASE j # k \/ v # u
        <5>1. longer[j][v] = table[j][v]
          BY <4>2 DEF Longer
        <5> QED
          BY <4>2, <5>1
      <4> QED
        BY <4>1, <4>2
    <3>2. x \in Entries(longer, kinds, t) <=>
              \E j \in kinds, v \in Times : v >= t /\ \E n \in 1 .. longer[j][v] : x = <<<<j, v>>, n>>
      BY Member
    <3>3. x \in Entries(table, kinds, t) <=>
              \E j \in kinds, v \in Times : v >= t /\ \E n \in 1 .. table[j][v] : x = <<<<j, v>>, n>>
      BY Member
    <3> QED
      BY <1>3, <3>1, <3>2, <3>3
  <2>3. Entries(longer, kinds, t) = Entries(table, kinds, t) \cup {e}
    BY <2>2
  <2>4. /\ IsFiniteSet(Entries(longer, kinds, t))
        /\ Cardinality(Entries(longer, kinds, t)) = Cardinality(Entries(table, kinds, t)) + 1
    BY <2>1, <2>3, FS_AddElement
  <2> QED
    BY <1>3, <2>4 DEF CountSince
<1>4. CASE ~(k \in kinds /\ u >= t)
  <2>1. \A j \in kinds, v \in Times : v >= t => longer[j][v] = table[j][v]
    BY <1>4 DEF Longer
  <2>2. ASSUME NEW x PROVE x \in Entries(longer, kinds, t) <=> x \in Entries(table, kinds, t)
    <3>1. x \in Entries(longer, kinds, t) <=>
              \E j \in kinds, v \in Times : v >= t /\ \E n \in 1 .. longer[j][v] : x = <<<<j, v>>, n>>
      BY Member
    <3>2. x \in Entries(table, kinds, t) <=>
              \E j \in kinds, v \in Times : v >= t /\ \E n \in 1 .. table[j][v] : x = <<<<j, v>>, n>>
      BY Member
    <3> QED
      BY <2>1, <3>1, <3>2
  <2>3. Entries(longer, kinds, t) = Entries(table, kinds, t)
    BY <2>2
  <2> QED
    BY <1>4, <2>3 DEF CountSince
<1> QED
  BY <1>3, <1>4

\* At first there is nothing to count.
LEMMA CapInit == Init => CapInv
<1> SUFFICES ASSUME Init PROVE CapInv
  OBVIOUS
<1>1. ASSUME NEW kinds \in SUBSET Kinds, NEW t \in Nat
      PROVE  /\ IsFiniteSet(Entries(rows, kinds, t)) /\ CountSince(rows, kinds, t) = 0
             /\ IsFiniteSet(Entries(posts, kinds, t)) /\ CountSince(posts, kinds, t) = 0
  <2>1. \A k \in Kinds, u \in Times : rows[k][u] = 0 /\ posts[k][u] = 0
    BY DEF Init
  <2>2. Entries(rows, kinds, t) = {} /\ Entries(posts, kinds, t) = {}
    BY <2>1, Member
  <2> QED
    BY <2>2, FS_EmptySet DEF CountSince
<1>2. Recording = {} /\ Deciding = {} /\ now = 0 /\ crowded = FALSE
  BY DEF Init, Waiting, Recording, Deciding
<1>3. Cardinality(Recording) = 0 /\ Cardinality(Deciding) = 0
  BY <1>2, FS_EmptySet
<1>4. Since(Day) \in Nat
  BY <1>2, ClockAssumption DEF Since
<1>5. Tickers \subseteq Kinds
  BY DEF Kinds
<1>6. Counted
  BY <1>1 DEF Counted
<1>7. Behind
  BY <1>1, <1>3, <1>5 DEF Behind
<1>8. Headroom
  BY <1>1, <1>2, <1>3, <1>4, <1>5, ClockAssumption DEF Headroom, PostsToday, Excess
<1> QED
  BY <1>6, <1>7, <1>8, InitInv DEF CapInv

\* The counts are numbers.
LEMMA Counts ==
    ASSUME TypeOK, Counted
    PROVE  /\ \A kinds \in SUBSET Kinds, t \in Nat :
                  /\ IsFiniteSet(Entries(rows, kinds, t)) /\ CountSince(rows, kinds, t) \in Nat
                  /\ IsFiniteSet(Entries(posts, kinds, t)) /\ CountSince(posts, kinds, t) \in Nat
           /\ IsFiniteSet(Recording) /\ Cardinality(Recording) \in Nat
           /\ IsFiniteSet(Deciding) /\ Cardinality(Deciding) \in Nat
           /\ Cardinality(Requests) \in Nat
           /\ Since(Day) \in Nat /\ DailyCap \in Nat
<1>1. \A kinds \in SUBSET Kinds, t \in Nat :
          /\ IsFiniteSet(Entries(rows, kinds, t)) /\ CountSince(rows, kinds, t) \in Nat
          /\ IsFiniteSet(Entries(posts, kinds, t)) /\ CountSince(posts, kinds, t) \in Nat
  BY FewerEntries DEF Counted
<1>2. Recording \subseteq Requests /\ Deciding \subseteq Requests
  BY DEF Recording, Deciding
<1>3. Since(Day) \in Nat
  BY Numbers DEF Since
<1> QED
  BY <1>1, <1>2, <1>3, RequestsAssumption, ClockAssumption, FS_Subset, FS_CardinalityType

\* Nobody posts, no row is lost, and who leaves the cap behind has nothing to write.
LEMMA CapStays ==
    ASSUME IInv, Counted, clean => Behind /\ Headroom, IInv', Counted', clean' => clean,
           crowded' = crowded, Since(Day)' >= Since(Day),
           \A t \in Nat : /\ CountSince(posts, Tickers, t)' = CountSince(posts, Tickers, t)
                          /\ CountSince(rows, Tickers, t)' = CountSince(rows, Tickers, t),
           clean' => Recording' = Recording, Deciding' \subseteq Deciding
    PROVE  CapInv'
<1>1. SUFFICES ASSUME clean' PROVE Behind' /\ Headroom'
  BY DEF CapInv
<1>2. TypeOK /\ TypeOK' /\ Tickers \in SUBSET Kinds
  BY DEF IInv, Kinds
<1>3. Behind'
  BY <1>1 DEF Behind
<1>4. /\ PostsToday \in Nat /\ PostsToday' \in Nat
      /\ PostsToday' <= PostsToday
  <2>1. Since(Day) \in Nat /\ Since(Day)' \in Nat
    <3>1. now \in Nat /\ now' \in Nat /\ Day \in Nat
      BY <1>2, ClockAssumption DEF TypeOK, Times
    <3>2. Since(Day)' = IF now' >= Day THEN now' - Day ELSE 0
      BY DEF Since
    <3>3. Since(Day) = IF now >= Day THEN now - Day ELSE 0
      BY DEF Since
    <3>4. \A n \in Nat : (IF n >= Day THEN n - Day ELSE 0) \in Nat
      BY <3>1
    <3> QED
      BY <3>1, <3>2, <3>3, <3>4
  <2>2. PostsToday' = CountSince(posts, Tickers, Since(Day)')
    BY <2>1 DEF PostsToday
  <2>3. IsFiniteSet(Entries(posts, Tickers, Since(Day)))
    BY <1>2, <2>1, Counts
  <2> QED
    BY <2>1, <2>2, <2>3, FewerEntries DEF PostsToday
<1>5. Cardinality(Deciding') <= Cardinality(Deciding) /\ Cardinality(Deciding') \in Nat
  BY <1>2, Counts, FS_Subset, FS_CardinalityType
<1>6. Excess \in Int /\ Excess' = Excess
  BY <1>2, Counts DEF Excess
<1>7. Headroom'
  BY <1>1, <1>2, <1>4, <1>5, <1>6, Counts DEF Headroom
<1> QED
  BY <1>3, <1>7

\* Time, the digest, a restart, and the ways to go on or to end without a post.
LEMMA CapElsewhere ==
    ASSUME CapInv, IInv',
           \/ Pass \/ DigestStep \/ Restart \/ UNCHANGED vars
           \/ \E r \in Requests : CooledDown(r) \/ CooldownUnread(r) \/ GiveUp(r) \/ RecordFails(r)
    PROVE  CapInv'
<1>1. /\ IInv /\ TypeOK /\ TypeOK' /\ Counted /\ (clean => Behind /\ Headroom)
      /\ Tickers \in SUBSET Kinds /\ "digest" \in Kinds \ Tickers /\ Kinds \in SUBSET Kinds
  BY DigestAssumption DEF CapInv, IInv, Kinds
<1>2. CASE Pass
  <2>1. Since(Day)' >= Since(Day)
    BY <1>1, <1>2, Numbers DEF Pass, Since, Times
  <2> QED
    BY <1>1, <1>2, <2>1, CapStays DEF Pass, Counted, Recording, Deciding
<1>3. CASE DigestPublishes \/ DigestRecords
  <2>1. now \in Times /\ now' = now /\ Since(Day)' = Since(Day)
    BY <1>1, <1>3 DEF DigestPublishes, DigestRecords, Since, TypeOK
  <2>2. \/ rows' = rows /\ posts' = [posts EXCEPT !["digest"][now] = @ + 1]
        \/ posts' = posts /\ rows' = [rows EXCEPT !["digest"][now] = @ + 1]
    BY <1>3 DEF DigestPublishes, DigestRecords
  <2>3. \/ rows' = rows /\ Longer(posts, posts', "digest", now)
        \/ posts' = posts /\ Longer(rows, rows', "digest", now)
    BY <1>1, <2>1, <2>2, IsLonger DEF TypeOK
  <2>4. \A t \in Nat : /\ CountSince(posts', Tickers, t) = CountSince(posts, Tickers, t)
                       /\ CountSince(rows', Tickers, t) = CountSince(rows, Tickers, t)
    <3> SUFFICES ASSUME NEW t \in Nat
                 PROVE  /\ CountSince(posts', Tickers, t) = CountSince(posts, Tickers, t)
                        /\ CountSince(rows', Tickers, t) = CountSince(rows, Tickers, t)
      OBVIOUS
    <3>1. IsFiniteSet(Entries(rows, Tickers, t)) /\ IsFiniteSet(Entries(posts, Tickers, t))
      BY <1>1, Counts
    <3> QED
      BY <1>1, <2>1, <2>3, <3>1, OneEntryMore
  <2>5. IsFiniteSet(Entries(rows', Kinds, 0)) /\ IsFiniteSet(Entries(posts', Kinds, 0))
    <3>1. IsFiniteSet(Entries(rows, Kinds, 0)) /\ IsFiniteSet(Entries(posts, Kinds, 0)) /\ 0 \in Nat
      BY <1>1 DEF Counted
    <3> QED
      BY <1>1, <2>1, <2>3, <3>1, OneEntryMore
  <2>6. Recording' = Recording /\ Deciding' = Deciding /\ crowded' = crowded /\ clean' = clean
    BY <1>3 DEF DigestPublishes, DigestRecords, Recording, Deciding
  <2>7. Since(Day)' >= Since(Day)
    BY <1>1, <2>1, Counts
  <2> QED
    BY <1>1, <2>4, <2>5, <2>6, <2>7, CapStays DEF Counted
<1>4. CASE \/ DigestBegins \/ DigestGivesUp \/ DigestRecordFails \/ Restart \/ UNCHANGED vars
           \/ \E r \in Requests : CooledDown(r) \/ CooldownUnread(r) \/ GiveUp(r) \/ RecordFails(r)
  <2>1. now' = now /\ rows' = rows /\ posts' = posts /\ crowded' = crowded /\ (clean' => clean)
    BY <1>1, <1>4 DEF DigestBegins, DigestGivesUp, DigestRecordFails, Restart, vars, CooledDown,
                      CooldownUnread, GiveUp, RecordFails, TypeOK
  <2>2. Since(Day)' >= Since(Day)
    <3>1. Since(Day)' = Since(Day)
      BY <2>1 DEF Since
    <3> QED
      BY <1>1, <3>1, Counts
  <2>3. clean' => Recording' = Recording
    <3>1. CASE DigestBegins \/ DigestGivesUp \/ UNCHANGED vars
      BY <3>1 DEF DigestBegins, DigestGivesUp, vars, Recording
    <3>2. CASE Restart
      BY <1>1, <3>2 DEF Restart, Recording, Waiting
    <3>3. ASSUME NEW r \in Requests, CooledDown(r) \/ GiveUp(r) PROVE Recording' = Recording
      <4>1. CASE CooledDown(r)
        BY <1>1, <4>1, OneRequest DEF CooledDown, Recording
      <4>2. CASE GiveUp(r)
        BY <1>1, <4>2, OneEnds DEF GiveUp, Recording
      <4> QED
        BY <3>3, <4>1, <4>2
    <3> QED
      BY <1>4, <3>1, <3>2, <3>3 DEF CooldownUnread, RecordFails, DigestRecordFails
  <2>4. Deciding' \subseteq Deciding
    <3>1. CASE DigestBegins \/ DigestGivesUp \/ DigestRecordFails \/ UNCHANGED vars
      BY <3>1 DEF DigestBegins, DigestGivesUp, DigestRecordFails, vars, Deciding
    <3>2. CASE Restart
      BY <1>1, <3>2 DEF Restart, Deciding, Waiting
    <3>3. ASSUME NEW r \in Requests, CooledDown(r) \/ CooldownUnread(r) \/ GiveUp(r) \/ RecordFails(r)
          PROVE  Deciding' \subseteq Deciding
      <4>1. CASE CooledDown(r) \/ CooldownUnread(r)
        BY <1>1, <4>1, OneRequest DEF CooledDown, CooldownUnread, Deciding
      <4>2. CASE GiveUp(r) \/ RecordFails(r)
        BY <1>1, <4>2, OneEnds DEF GiveUp, RecordFails, Deciding
      <4> QED
        BY <3>3, <4>1, <4>2
    <3> QED
      BY <1>4, <3>1, <3>2, <3>3
  <2> QED
    BY <1>1, <2>1, <2>2, <2>3, <2>4, CapStays DEF Counted
<1> QED
  BY <1>2, <1>3, <1>4 DEF DigestStep

\* A request is let past the cap.  The table may lack the posts of those that are
\* recording, and all that are deciding may post: these are the others past the cap.
LEMMA CapPassesCap ==
    ASSUME CapInv, IInv', NEW r \in Requests, NEW k \in Tickers, BelowCap(r, k) \/ CapUnread(r, k)
    PROVE  CapInv'
<1>1. /\ IInv /\ TypeOK /\ TypeOK' /\ Counted /\ (clean => Behind /\ Headroom)
      /\ Tickers \in SUBSET Kinds /\ Kinds \in SUBSET Kinds
  BY DEF CapInv, IInv, Kinds
<1>2. /\ now' = now /\ rows' = rows /\ posts' = posts /\ request[r].pc = "idle" /\ PassesCap(r, k)
      /\ (clean' => clean /\ BelowCap(r, k))
  BY DEF BelowCap, CapUnread
<1>3. Counted'
  BY <1>1, <1>2 DEF Counted
<1>4. SUFFICES ASSUME clean' PROVE Behind' /\ Headroom'
  BY <1>3 DEF CapInv
<1>5. /\ \A s \in Requests \ {r} : request'[s] = request[s]
      /\ request'[r].pc = "cooldown"
  BY <1>1, <1>2, Numbers DEF PassesCap
<1>6. Recording' = Recording /\ Deciding' = Deciding \cup {r} /\ r \notin Deciding
  BY <1>2, <1>5 DEF Recording, Deciding
<1>7. Behind'
  BY <1>1, <1>2, <1>4, <1>6 DEF Behind
<1>8. Cardinality(Deciding') = Cardinality(Deciding) + 1
  BY <1>1, <1>6, Counts, FS_AddElement
<1>9. PostsToday' = PostsToday /\ PostsToday \in Nat
  BY <1>1, <1>2, Counts DEF PostsToday, Since
<1>10. PostsToday <= DailyCap - 1 + Cardinality(Recording)
  <2>1. CountSince(rows, Kinds, Since(Day)) < DailyCap
    BY <1>2, <1>4 DEF BelowCap
  <2>2. CountSince(rows, Tickers, Since(Day)) <= CountSince(rows, Kinds, Since(Day))
    BY <1>1, Counts, FewerEntries
  <2>3. PostsToday <= CountSince(rows, Tickers, Since(Day)) + Cardinality(Recording)
    BY <1>1, <1>2, <1>4, Counts DEF Behind, PostsToday
  <2> QED
    BY <1>1, <1>9, <2>1, <2>2, <2>3, Counts
<1>11. /\ PastTheCap = Recording \cup Deciding /\ Recording \cap Deciding = {}
       /\ PastTheCap \subseteq Requests \ {r}
  BY <1>2 DEF PastTheCap, Recording, Deciding
<1>12. /\ Cardinality(PastTheCap) = Cardinality(Recording) + Cardinality(Deciding)
       /\ Cardinality(PastTheCap) <= Cardinality(Requests) - 1
  <2>1. Cardinality(PastTheCap) = Cardinality(Recording) + Cardinality(Deciding)
    BY <1>1, <1>11, Counts, FS_Union, FS_EmptySet
  <2>2. /\ IsFiniteSet(Requests \ {r}) /\ Cardinality(Requests \ {r}) = Cardinality(Requests) - 1
    BY RequestsAssumption, FS_RemoveElement
  <2>3. Cardinality(PastTheCap) <= Cardinality(Requests \ {r})
    BY <1>11, <2>2, FS_Subset
  <2> QED
    BY <2>1, <2>2, <2>3
<1>13. Cardinality(PastTheCap) <= Excess'
  <2>1. CASE PastTheCap = {}
    <3>1. Cardinality(PastTheCap) = 0
      BY <2>1, FS_EmptySet
    <3> QED
      BY <1>1, <1>12, <3>1, Counts DEF Excess
  <2>2. CASE PastTheCap # {}
    BY <1>2, <1>12, <2>2 DEF PassesCap, Excess
  <2> QED
    BY <2>1, <2>2
<1>14. Excess' \in Int
  BY <1>1, Counts DEF Excess
<1>15. Headroom'
  BY <1>1, <1>8, <1>9, <1>10, <1>12, <1>13, <1>14, Counts DEF Headroom
<1> QED
  BY <1>7, <1>15

\* The post takes the room its request was given.
LEMMA CapPublish == ASSUME CapInv, IInv', NEW r \in Requests, Publish(r) PROVE CapInv'
<1> DEFINE k == request[r].ticker
<1>1. /\ IInv /\ TypeOK /\ TypeOK' /\ Counted /\ (clean => Behind /\ Headroom)
      /\ Tickers \in SUBSET Kinds /\ Kinds \in SUBSET Kinds
  BY DEF CapInv, IInv, Kinds
<1>2. /\ request[r].pc = "publish" /\ k \in Tickers /\ now \in Times /\ Times \subseteq Nat
      /\ posts \in [Kinds -> [Times -> Nat]]
      /\ now' = now /\ rows' = rows /\ crowded' = crowded /\ clean' = clean
      /\ posts' = [posts EXCEPT ![k][now] = @ + 1]
  BY <1>1, Numbers DEF Publish, IInv, Sound, Past, TypeOK
<1>3. /\ request'[r].pc = "record"
      /\ \A s \in Requests \ {r} : request'[s] = request[s]
  BY <1>1, OneRequest DEF Publish
<1>4. /\ Recording' = Recording \cup {r} /\ r \notin Recording
      /\ Deciding' = Deciding \ {r} /\ r \in Deciding
  BY <1>2, <1>3 DEF Recording, Deciding
<1>5. /\ Cardinality(Recording') = Cardinality(Recording) + 1
      /\ Cardinality(Deciding') = Cardinality(Deciding) - 1
  BY <1>1, <1>4, Counts, FS_AddElement, FS_RemoveElement
<1>6. ASSUME NEW t \in Nat
      PROVE  CountSince(posts', Tickers, t) =
                 IF now >= t THEN CountSince(posts, Tickers, t) + 1 ELSE CountSince(posts, Tickers, t)
  <2>1. IsFiniteSet(Entries(posts, Tickers, t)) /\ k \in Kinds /\ k \in Tickers
    BY <1>1, <1>2, Counts
  <2>2. Longer(posts, posts', k, now) /\ now \in Times
    BY <1>2, <2>1, IsLonger
  <2> HIDE DEF k
  <2> QED
    BY <1>1, <2>1, <2>2, OneEntryMore
<1>7. Counted'
  <2>1. IsFiniteSet(Entries(posts, Kinds, 0)) /\ 0 \in Nat /\ k \in Kinds
    BY <1>1, <1>2 DEF Counted
  <2>2. Longer(posts, posts', k, now) /\ now \in Times
    BY <1>2, <2>1, IsLonger
  <2>3. IsFiniteSet(Entries(posts', Kinds, 0))
    <3> HIDE DEF k
    <3> QED
      BY <1>1, <2>1, <2>2, OneEntryMore
  <2> QED
    BY <1>1, <1>2, <2>3 DEF Counted
<1>8. ASSUME clean PROVE Behind'
  <2> SUFFICES ASSUME NEW t \in Nat
               PROVE  CountSince(posts', Tickers, t) <= CountSince(rows', Tickers, t) + Cardinality(Recording')
    BY DEF Behind
  <2>1. CountSince(posts, Tickers, t) <= CountSince(rows, Tickers, t) + Cardinality(Recording)
    BY <1>1, <1>8 DEF Behind
  <2>2. /\ CountSince(posts, Tickers, t) \in Nat /\ CountSince(rows, Tickers, t) \in Nat
        /\ Cardinality(Recording) \in Nat
    BY <1>1, Counts
  <2>3. CountSince(rows', Tickers, t) = CountSince(rows, Tickers, t)
    BY <1>2
  <2> QED
    BY <1>5, <1>6, <2>1, <2>2, <2>3
<1>9. ASSUME clean PROVE Headroom'
  <2>1. Since(Day)' = Since(Day) /\ Since(Day) <= now
    BY <1>1, <1>2, Numbers DEF Since
  <2>2. PostsToday' = PostsToday + 1 /\ PostsToday \in Nat
    BY <1>1, <1>2, <1>6, <2>1, Counts DEF PostsToday
  <2>3. Excess' = Excess /\ Excess \in Int
    BY <1>1, <1>2, Counts DEF Excess
  <2> QED
    BY <1>1, <1>5, <1>9, <2>2, <2>3, Counts DEF Headroom
<1> QED
  BY <1>1, <1>2, <1>7, <1>8, <1>9 DEF CapInv

\* The row makes up for the request that no longer owes it.
LEMMA CapRecord == ASSUME CapInv, IInv', NEW r \in Requests, Record(r) PROVE CapInv'
<1> DEFINE k == request[r].ticker
<1>1. /\ IInv /\ TypeOK /\ TypeOK' /\ Counted /\ (clean => Behind /\ Headroom)
      /\ Tickers \in SUBSET Kinds /\ Kinds \in SUBSET Kinds
  BY DEF CapInv, IInv, Kinds
<1>2. /\ request[r].pc = "record" /\ k \in Tickers /\ now \in Times /\ Times \subseteq Nat
      /\ rows \in [Kinds -> [Times -> Nat]]
      /\ now' = now /\ posts' = posts /\ crowded' = crowded /\ clean' = clean
      /\ rows' = [rows EXCEPT ![k][now] = @ + 1]
  BY <1>1, Numbers DEF Record, IInv, Sound, Past, TypeOK
<1>3. /\ request'[r].pc = "idle"
      /\ \A s \in Requests \ {r} : request'[s] = request[s]
  BY <1>1, OneEnds DEF Record
<1>4. Recording' = Recording \ {r} /\ r \in Recording /\ Deciding' = Deciding
  BY <1>2, <1>3 DEF Recording, Deciding
<1>5. Cardinality(Recording') = Cardinality(Recording) - 1
  BY <1>1, <1>4, Counts, FS_RemoveElement
<1>6. ASSUME NEW t \in Nat
      PROVE  CountSince(rows', Tickers, t) =
                 IF now >= t THEN CountSince(rows, Tickers, t) + 1 ELSE CountSince(rows, Tickers, t)
  <2>1. IsFiniteSet(Entries(rows, Tickers, t)) /\ k \in Kinds /\ k \in Tickers
    BY <1>1, <1>2, Counts
  <2>2. Longer(rows, rows', k, now) /\ now \in Times
    BY <1>2, <2>1, IsLonger
  <2> HIDE DEF k
  <2> QED
    BY <1>1, <2>1, <2>2, OneEntryMore
<1>7. Counted'
  <2>1. IsFiniteSet(Entries(rows, Kinds, 0)) /\ 0 \in Nat /\ k \in Kinds
    BY <1>1, <1>2 DEF Counted
  <2>2. Longer(rows, rows', k, now) /\ now \in Times
    BY <1>2, <2>1, IsLonger
  <2>3. IsFiniteSet(Entries(rows', Kinds, 0))
    <3> HIDE DEF k
    <3> QED
      BY <1>1, <2>1, <2>2, OneEntryMore
  <2> QED
    BY <1>1, <1>2, <2>3 DEF Counted
<1>8. ASSUME clean PROVE Behind'
  <2> SUFFICES ASSUME NEW t \in Nat
               PROVE  CountSince(posts', Tickers, t) <= CountSince(rows', Tickers, t) + Cardinality(Recording')
    BY DEF Behind
  <2>1. CountSince(posts, Tickers, t) <= CountSince(rows, Tickers, t) + Cardinality(Recording)
    BY <1>1, <1>8 DEF Behind
  <2>2. CASE now >= t
    <3>1. /\ CountSince(posts, Tickers, t) \in Nat /\ CountSince(rows, Tickers, t) \in Nat
          /\ Cardinality(Recording) \in Nat
      BY <1>1, Counts
    <3>2. CountSince(posts', Tickers, t) = CountSince(posts, Tickers, t)
      BY <1>2
    <3> QED
      BY <1>5, <1>6, <2>1, <2>2, <3>1, <3>2
  <2>3. CASE t > now
    <3>1. ASSUME NEW j \in Tickers, NEW u \in Times, u >= t PROVE posts[j][u] = 0
      BY <1>1, <1>2, <2>3, <3>1, Numbers DEF IInv, Sound
    <3>2. Entries(posts, Tickers, t) = {}
      BY <3>1, Member
    <3>3. CountSince(posts, Tickers, t) = 0
      BY <3>2, FS_EmptySet DEF CountSince
    <3>4. CountSince(rows, Tickers, t) \in Nat /\ Cardinality(Recording') \in Nat
      BY <1>1, <1>4, Counts, FS_Subset, FS_CardinalityType
    <3>5. CountSince(posts', Tickers, t) = 0 /\ CountSince(rows', Tickers, t) = CountSince(rows, Tickers, t)
      <4>1. now \in Nat /\ ~(now >= t) /\ posts' = posts
        BY <1>2, <2>3
      <4> QED
        BY <1>6, <3>3, <4>1
    <3> QED
      BY <3>4, <3>5
  <2> QED
    BY <1>2, <2>2, <2>3
<1>9. ASSUME clean PROVE Headroom'
  BY <1>1, <1>2, <1>4, <1>9 DEF Headroom, PostsToday, Since, Excess
<1> QED
  BY <1>1, <1>2, <1>7, <1>8, <1>9 DEF CapInv

\* No step takes more room than there is.
LEMMA CapNext == CapInv /\ [Next]_vars => CapInv'
<1> SUFFICES ASSUME CapInv, [Next]_vars PROVE CapInv'
  OBVIOUS
<1>1. IInv'
  BY NextInv DEF CapInv
<1> QED
  BY <1>1, CapElsewhere, CapPassesCap, CapPublish, CapRecord DEF Next, Trending

\* In any 24 hours there are at most as many posts as the cap allows, and one more for
\* every other request that may have been past the check at the same time.
THEOREM ExcessStaysBounded == Spec => []ExcessIsBounded
<1>1. CapInv => ExcessIsBounded
  <2> SUFFICES ASSUME CapInv, clean PROVE PostsToday <= DailyCap + Excess
    BY DEF ExcessIsBounded, Excess
  <2>1. TypeOK /\ Counted /\ Headroom /\ Tickers \in SUBSET Kinds
    BY DEF CapInv, IInv, Kinds
  <2>2. PostsToday \in Nat /\ Excess \in Int
    BY <2>1, Counts DEF PostsToday, Excess
  <2> QED
    BY <2>1, <2>2, Counts DEF Headroom
<1> QED
  BY CapInit, CapNext, <1>1, PTL DEF Spec

(***************************************************************************)
(* The week.                                                               *)
(*                                                                         *)
(* The task looks once, then renders for as long as it takes.  A digest    *)
(* has a row as young (DigestRecorded), so finding none of this week means *)
(* that none was posted this week, and none is while it renders            *)
(* (DigestDue): it is the only one to publish.                             *)
(***************************************************************************)
Digests == {t \in Times : posts["digest"][t] > 0}

\* A digest that was posted has a row as young, unless the task is about to write it.
DigestRecorded == \A t \in Digests : digest = "record" \/ \E u \in Times : t <= u /\ rows["digest"][u] > 0

\* While one is made, there is none of this week.
DigestDue == digest = "render" => \A t \in Digests : t < Monday

WeekInv == IInv /\ (clean => DigestRecorded /\ DigestDue /\ DigestOncePerWeek)

\* The week of a moment begins no later than the moment, and weeks begin in order.
LEMMA Mondays ==
    ASSUME NEW t \in Nat, NEW n \in Nat
    PROVE  /\ (n \div Week) * Week \in Nat
           /\ t \div Week = n \div Week => t >= (n \div Week) * Week
           /\ t <= n => (t \div Week) * Week <= (n \div Week) * Week
<1>1. Week \in Nat /\ Week > 0
  BY ClockAssumption
<1>2. \A m \in Nat : m \div Week \in Nat /\ (m \div Week) * Week <= m /\ m < (m \div Week + 1) * Week
  BY <1>1
<1>3. ASSUME NEW p \in Nat, NEW q \in Nat, p <= q PROVE p * Week <= q * Week /\ p * Week \in Nat
  BY <1>1, <1>3
<1>4. ASSUME t <= n PROVE t \div Week <= n \div Week
  <2>1. SUFFICES ASSUME n \div Week + 1 <= t \div Week PROVE FALSE
    BY <1>2
  <2>2. (n \div Week + 1) * Week <= (t \div Week) * Week
    BY <1>2, <1>3, <2>1
  <2> QED
    BY <1>1, <1>2, <1>4, <2>2
<1> QED
  BY <1>2, <1>3, <1>4

\* The clock and the start of its week, in numbers.
LEMMA Calendar ==
    ASSUME TypeOK
    PROVE  now \in Times /\ now \in Nat /\ Times \subseteq Nat /\ Monday \in Nat
<1>1. now \in Times /\ now \in Nat /\ Times \subseteq Nat
  BY Numbers
<1> QED
  BY <1>1, Mondays DEF Monday

\* At first no digest is posted.
LEMMA WeekInit == Init => WeekInv
<1> SUFFICES ASSUME Init PROVE WeekInv
  OBVIOUS
<1>1. \A t \in Times : posts["digest"][t] = 0
  BY DEF Init, Kinds
<1> QED
  BY <1>1, InitInv DEF Init, WeekInv, DigestRecorded, DigestDue, DigestOncePerWeek, Digests

\* Everything but what the digest publishes and records: it is not at work, or goes on
\* with what it was at, and time passes at most.
LEMMA WeekStays ==
    ASSUME IInv, IInv', clean => DigestRecorded /\ DigestDue /\ DigestOncePerWeek, clean' => clean,
           posts'["digest"] = posts["digest"], now' >= now,
           \A u \in Times : rows["digest"][u] > 0 => rows'["digest"][u] > 0,
           clean' => digest' = digest \/ (digest' = "idle" /\ digest # "record")
    PROVE  WeekInv'
<1>1. SUFFICES ASSUME clean' PROVE DigestRecorded' /\ DigestDue' /\ DigestOncePerWeek'
  BY DEF WeekInv
<1>2. TypeOK /\ TypeOK' /\ DigestRecorded /\ DigestDue /\ DigestOncePerWeek
  BY <1>1 DEF IInv
<1>3. Digests' = Digests
  BY DEF Digests
<1>4. DigestRecorded'
  BY <1>1, <1>2, <1>3 DEF DigestRecorded
<1>5. DigestDue'
  <2>1. now \in Nat /\ now' \in Nat /\ Monday \in Nat /\ Monday' \in Nat /\ Monday <= Monday'
    <3>1. now \in Nat /\ now' \in Nat
      BY <1>2, ClockAssumption DEF TypeOK, Times
    <3>2. Monday' = (now' \div Week) * Week
      BY DEF Monday
    <3> QED
      BY <3>1, <3>2, Mondays DEF Monday
  <2>2. Digests \subseteq Nat
    BY ClockAssumption DEF Digests, Times
  <2> QED
    BY <1>1, <1>2, <1>3, <2>1, <2>2 DEF DigestDue
<1>6. DigestOncePerWeek'
  BY <1>1, <1>2 DEF DigestOncePerWeek
<1> QED
  BY <1>4, <1>5, <1>6

\* Time, a digest that is given up or not recorded, a restart, and what is posted of tickers.
LEMMA WeekElsewhere ==
    ASSUME WeekInv, IInv',
           \/ Pass \/ DigestGivesUp \/ DigestRecordFails \/ Restart \/ UNCHANGED vars
           \/ \E r \in Requests : Trending(r)
    PROVE  WeekInv'
<1>1. /\ IInv /\ TypeOK /\ TypeOK' /\ (clean => DigestRecorded /\ DigestDue /\ DigestOncePerWeek)
      /\ now \in Nat /\ Times \subseteq Nat
  BY Calendar DEF WeekInv, IInv
<1>2. CASE Pass \/ DigestGivesUp \/ DigestRecordFails \/ Restart \/ UNCHANGED vars
  <2>1. /\ rows' = rows /\ posts' = posts /\ now' >= now /\ (clean' => clean)
        /\ clean' => digest' = digest \/ (digest' = "idle" /\ digest # "record")
    BY <1>1, <1>2 DEF Pass, DigestGivesUp, DigestRecordFails, Restart, vars, TypeOK
  <2> QED
    BY <1>1, <2>1, WeekStays
<1>3. ASSUME NEW r \in Requests, Trending(r) PROVE WeekInv'
  <2>1. PICK k \in Tickers \cup {None} :
            /\ posts' = posts \/ (k \in Tickers /\ posts' = [posts EXCEPT ![k][now] = @ + 1])
            /\ rows' = rows \/ (k \in Tickers /\ rows' = [rows EXCEPT ![k][now] = @ + 1])
            /\ now' = now /\ digest' = digest /\ (clean' => clean)
    <3>1. CASE \E k \in Tickers : BelowCap(r, k) \/ CapUnread(r, k)
      BY <3>1 DEF BelowCap, CapUnread
    <3>2. CASE CooledDown(r) \/ CooldownUnread(r) \/ GiveUp(r) \/ RecordFails(r)
      BY <3>2 DEF CooledDown, CooldownUnread, GiveUp, RecordFails
    <3>3. CASE Publish(r)
      BY <1>1, <3>3 DEF Publish, IInv, Sound, Past
    <3>4. CASE Record(r)
      BY <1>1, <3>4 DEF Record, IInv, Sound, Past
    <3> QED
      BY <1>3, <3>1, <3>2, <3>3, <3>4 DEF Trending
  <2>2. posts'["digest"] = posts["digest"] /\ rows'["digest"] = rows["digest"]
    <3>1. rows \in [Kinds -> [Times -> Nat]] /\ posts \in [Kinds -> [Times -> Nat]]
      BY <1>1 DEF TypeOK
    <3> QED
      BY <2>1, <3>1, DigestAssumption DEF Kinds
  <2> QED
    BY <1>1, <2>1, <2>2, WeekStays
<1> QED
  BY <1>2, <1>3

\* The task finds no row of this week, and rows are as young as their posts.
LEMMA WeekBegins == ASSUME WeekInv, IInv', DigestBegins PROVE WeekInv'
<1>1. /\ TypeOK /\ (clean => DigestRecorded /\ DigestDue /\ DigestOncePerWeek)
      /\ now \in Nat /\ Times \subseteq Nat /\ Monday \in Nat
  BY Calendar DEF WeekInv, IInv
<1>2. /\ digest = "idle" /\ digest' = "render" /\ ~PostedThisWeek
      /\ now' = now /\ rows' = rows /\ posts' = posts /\ clean' = clean
  BY DEF DigestBegins
<1>3. SUFFICES ASSUME clean PROVE DigestRecorded' /\ DigestDue' /\ DigestOncePerWeek'
  BY <1>2 DEF WeekInv
<1>4. DigestRecorded' /\ DigestOncePerWeek'
  BY <1>1, <1>2, <1>3 DEF DigestRecorded, DigestOncePerWeek, Digests
<1>5. DigestDue'
  <2> SUFFICES ASSUME NEW t \in Digests PROVE t < Monday
    BY <1>2 DEF DigestDue, Digests, Monday
  <2>1. PICK u \in Times : t <= u /\ rows["digest"][u] > 0
    BY <1>1, <1>2, <1>3 DEF DigestRecorded
  <2>2. ~(u >= Monday)
    BY <1>2, <2>1 DEF PostedThisWeek
  <2> QED
    BY <1>1, <2>1, <2>2 DEF Digests
<1> QED
  BY <1>4, <1>5

\* What goes out is the only one of its week.
LEMMA WeekPublishes == ASSUME WeekInv, IInv', DigestPublishes PROVE WeekInv'
<1>1. /\ TypeOK /\ Sound /\ (clean => DigestRecorded /\ DigestDue /\ DigestOncePerWeek)
      /\ now \in Nat /\ now \in Times /\ Times \subseteq Nat /\ Monday \in Nat /\ "digest" \in Kinds
      /\ posts \in [Kinds -> [Times -> Nat]]
  <2>1. TypeOK
    BY DEF WeekInv, IInv
  <2> QED
    BY <2>1, Calendar DEF WeekInv, IInv, TypeOK, Kinds
<1>2. /\ digest = "render" /\ digest' = "record"
      /\ posts' = [posts EXCEPT !["digest"][now] = @ + 1]
      /\ now' = now /\ rows' = rows /\ clean' = clean
  BY DEF DigestPublishes
<1>3. SUFFICES ASSUME clean PROVE DigestRecorded' /\ DigestDue' /\ DigestOncePerWeek'
  BY <1>2 DEF WeekInv
<1>4. Longer(posts, posts', "digest", now)
  BY <1>1, <1>2, IsLonger
<1>5. /\ posts'["digest"][now] = posts["digest"][now] + 1
      /\ \A t \in Times : t # now => posts'["digest"][t] = posts["digest"][t]
  BY <1>1, <1>4 DEF Longer
<1>6. \A t \in Times : posts["digest"][t] > 0 => t < Monday
  BY <1>1, <1>2, <1>3 DEF DigestDue, Digests
<1>7. \A t \in Times : t < Monday => t \div Week # now \div Week
  BY <1>1, Mondays DEF Monday
<1>8. posts["digest"][now] = 0
  <2>1. posts["digest"][now] \in Nat
    BY <1>1
  <2> QED
    BY <1>1, <1>6, <1>7, <2>1
<1>9. DigestRecorded' /\ DigestDue'
  BY <1>2 DEF DigestRecorded, DigestDue
<1>10. DigestOncePerWeek'
  <2> SUFFICES ASSUME NEW t \in Times, NEW u \in Times, posts'["digest"][t] > 0, posts'["digest"][u] > 0,
                      t \div Week = u \div Week
               PROVE  t = u /\ posts'["digest"][t] = 1
    BY DEF DigestOncePerWeek
  <2>1. CASE t = now \/ u = now
    <3>1. t = now /\ u = now
      BY <1>5, <1>6, <1>7, <2>1
    <3> QED
      BY <1>5, <1>8, <3>1
  <2>2. CASE t # now /\ u # now
    BY <1>1, <1>3, <1>5, <2>2 DEF DigestOncePerWeek
  <2> QED
    BY <2>1, <2>2
<1> QED
  BY <1>9, <1>10

\* The row is as young as any digest.
LEMMA WeekRecords == ASSUME WeekInv, IInv', DigestRecords PROVE WeekInv'
<1>1. /\ TypeOK /\ Sound /\ (clean => DigestRecorded /\ DigestDue /\ DigestOncePerWeek)
      /\ now \in Times /\ "digest" \in Kinds /\ rows \in [Kinds -> [Times -> Nat]]
  BY DEF WeekInv, IInv, TypeOK, Kinds
<1>2. /\ digest' = "idle"
      /\ rows' = [rows EXCEPT !["digest"][now] = @ + 1]
      /\ now' = now /\ posts' = posts /\ clean' = clean
  BY DEF DigestRecords
<1>3. Longer(rows, rows', "digest", now)
  BY <1>1, <1>2, IsLonger
<1>4. rows'["digest"][now] > 0
  BY <1>3 DEF Longer
<1>5. \A t \in Digests : t <= now
  BY <1>1 DEF Digests, Sound
<1>6. DigestRecorded'
  BY <1>1, <1>2, <1>4, <1>5 DEF DigestRecorded, Digests
<1>7. clean => DigestOncePerWeek'
  BY <1>1, <1>2 DEF DigestOncePerWeek
<1> QED
  BY <1>2, <1>6, <1>7 DEF WeekInv, DigestDue

\* No step breaks the week.
LEMMA WeekNext == WeekInv /\ [Next]_vars => WeekInv'
<1> SUFFICES ASSUME WeekInv, [Next]_vars PROVE WeekInv'
  OBVIOUS
<1>1. IInv'
  BY NextInv DEF WeekInv
<1> QED
  BY <1>1, WeekElsewhere, WeekBegins, WeekPublishes, WeekRecords DEF Next, DigestStep

\* However often its task looks, and whenever the daemon is restarted, the digest goes
\* out once a week at most, unless a row is lost.
THEOREM DigestStaysWeekly == Spec => []DigestOncePerWeek
<1>1. WeekInv => DigestOncePerWeek
  BY DEF WeekInv, DigestOncePerWeek
<1> QED
  BY WeekInit, WeekNext, <1>1, PTL DEF Spec

(***************************************************************************)
(* The posting loop.                                                       *)
(*                                                                         *)
(* An announcement the loop does not remember has been posted nowhere,     *)
(* except the one in hand, and that only where the cycle has been with it  *)
(* (KeepsTrack).  The list of a cycle has nothing that is remembered or    *)
(* was posted in the cycle (NotYetPosted), and no target comes twice.      *)
(***************************************************************************)
\* A cycle has a list, a place in it and posts of its own while it is at work; a loop
\* that panicked has those of its last cycle.
CycleIsTidy ==
    /\ pc \in {"sleep", "open"} => at = 1 /\ newly = {}
    /\ pc \in {"sleep", "open", "promo"} => todo = {}
    /\ pc = "dead" => at = 1
    /\ pc = "post" /\ todo = {} => at = 1
    /\ IsFiniteSet(memory) /\ IsFiniteSet(newly) /\ IsFiniteSet(todo)

\* What is still to be posted is neither remembered nor posted in this cycle.
NotYetPosted == todo \cap (memory \cup newly) = {}

\* Of what is neither, only the one in hand has been anywhere, and that is where
\* the cycle has been with it.
Elsewhere(a) == {p \in Places : fate[a][p] # "none"}
Visited(a) == IF InHand(a) THEN {Targets[n] : n \in 1 .. (at - 1)} ELSE {}
KeepsTrack == \A a \in Announcements : a \notin memory \cup newly => Elsewhere(a) \subseteq Visited(a)

LoopInv == LoopTypeOK /\ CycleIsTidy /\ NotYetPosted /\ KeepsTrack /\ NoRepost

\* For each of S, those of S that are ahead of it, in an order of S in which none
\* has infinitely many ahead.
Ranks(S, ahead) ==
    /\ \A a \in S : IsFiniteSet(ahead[a]) /\ a \notin ahead[a]
    /\ \A a, b \in S : a # b => a \in ahead[b] \/ b \in ahead[a]
    /\ \A a, b \in S : a \in ahead[b] => ahead[a] \subseteq ahead[b]

\* The first few of a set, by what is ahead of each, are no more than that.
LEMMA FirstFew ==
    ASSUME NEW S, NEW N \in Nat, NEW ahead, Ranks(S, ahead)
    PROVE  /\ IsFiniteSet({a \in S : Cardinality(ahead[a]) < N})
           /\ Cardinality({a \in S : Cardinality(ahead[a]) < N}) <= N
<1> DEFINE F == {a \in S : Cardinality(ahead[a]) < N}
           rank == [a \in F |-> Cardinality(ahead[a])]
<1>1. \A a \in S : Cardinality(ahead[a]) \in Nat
  BY FS_CardinalityType DEF Ranks
<1>2. \A a, b \in S : a \in ahead[b] => Cardinality(ahead[a]) # Cardinality(ahead[b])
  <2> SUFFICES ASSUME NEW a \in S, NEW b \in S, a \in ahead[b] PROVE Cardinality(ahead[a]) # Cardinality(ahead[b])
    OBVIOUS
  <2>1. ahead[a] \subseteq ahead[b] /\ ahead[a] # ahead[b] /\ IsFiniteSet(ahead[b])
    BY DEF Ranks
  <2> QED
    BY <2>1, FS_Subset
<1>3. \A a, b \in S : a # b => Cardinality(ahead[a]) # Cardinality(ahead[b])
  BY <1>2 DEF Ranks
<1>4. rank \in [F -> 0 .. (N - 1)]
  BY <1>1
<1>5. rank \in Injection(F, 0 .. (N - 1))
  <2>1. \A a, b \in F : rank[a] = rank[b] => a = b
    BY <1>3
  <2> QED
    BY <1>4, <2>1 DEF Injection, IsInjective
<1> HIDE DEF rank
<1>6. IsFiniteSet(0 .. (N - 1)) /\ Cardinality(0 .. (N - 1)) = N
  <2>1. 0 \in Int /\ N - 1 \in Int /\ (0 > N - 1 <=> N = 0) /\ (N - 1) - 0 + 1 = N
    OBVIOUS
  <2> QED
    BY <2>1, FS_Interval
<1> HIDE DEF F
<1>7. IsFiniteSet(F) /\ Cardinality(F) <= N
  BY <1>5, <1>6, FS_Injection
<1> QED
  BY <1>7 DEF F

\* The query returns no more than its limit.
LEMMA RowsAreFew ==
    ASSUME feed \subseteq Announcements
    PROVE  Rows \subseteq Announcements /\ IsFiniteSet(Rows)
<1> DEFINE ahead == [a \in feed |-> {b \in feed : b < a}]
<1>1. feed \subseteq Nat
  BY RankAssumption
<1>2. \A a \in feed : ahead[a] \subseteq feed /\ \A b \in feed : b \in ahead[a] <=> b < a
  OBVIOUS
<1>3. Rows = {a \in feed : Cardinality(ahead[a]) < Window}
  BY DEF Rows
<1> HIDE DEF ahead
<1>4. \A a \in feed : IsFiniteSet(ahead[a]) /\ a \notin ahead[a]
  <2> SUFFICES ASSUME NEW a \in feed PROVE IsFiniteSet(ahead[a]) /\ a \notin ahead[a]
    OBVIOUS
  <2>1. a \in Nat /\ ahead[a] \in SUBSET Nat /\ \A b \in ahead[a] : b < a
    BY <1>1, <1>2
  <2>2. \A b \in ahead[a] : b <= a
    BY <2>1
  <2>3. IsFiniteSet(ahead[a])
    BY <2>1, <2>2, FS_BoundedSetOfNaturals
  <2> QED
    BY <2>1, <2>3
<1>5. \A a, b \in feed : a # b => a \in ahead[b] \/ b \in ahead[a]
  <2> SUFFICES ASSUME NEW a \in feed, NEW b \in feed, a # b PROVE a \in ahead[b] \/ b \in ahead[a]
    OBVIOUS
  <2>1. a < b \/ b < a
    BY <1>1
  <2> QED
    BY <1>2, <2>1
<1>6. \A a, b \in feed : a \in ahead[b] => ahead[a] \subseteq ahead[b]
  <2> SUFFICES ASSUME NEW a \in feed, NEW b \in feed, a \in ahead[b], NEW c \in ahead[a] PROVE c \in ahead[b]
    OBVIOUS
  <2>1. c \in feed /\ c < a /\ a < b
    BY <1>2
  <2>2. c < b
    BY <1>1, <2>1
  <2> QED
    BY <1>2, <2>1, <2>2
<1>7. Window \in Nat
  BY SizeAssumption
<1>8. IsFiniteSet({a \in feed : Cardinality(ahead[a]) < Window})
  <2>1. Ranks(feed, ahead)
    BY <1>4, <1>5, <1>6 DEF Ranks
  <2> QED
    BY <1>7, <2>1, FirstFew
<1>9. Rows \subseteq feed
  BY DEF Rows
<1> QED
  BY <1>3, <1>8, <1>9

\* Before is an order.
LEMMA BeforeOrders ==
    ASSUME NEW a \in Announcements, NEW b \in Announcements
    PROVE  /\ ~Before(a, a)
           /\ a # b => Before(a, b) \/ Before(b, a)
           /\ ~(Before(a, b) /\ Before(b, a))
           /\ \A c \in Announcements : Before(c, a) /\ Before(a, b) => Before(c, b)
BY RankAssumption DEF Before

\* At most one announcement is in hand.
LEMMA OneInHand ==
    ASSUME LoopTypeOK, NEW a, NEW b, InHand(a), InHand(b)
    PROVE  a = b
BY BeforeOrders DEF LoopTypeOK, InHand

\* A cycle takes no more than it may.
LEMMA TakeIsBounded ==
    ASSUME NEW S, IsFiniteSet(S), S \subseteq Announcements
    PROVE  Take(S) \subseteq S /\ Cardinality(Take(S)) <= MaxPerCycle
<1> DEFINE ahead == [a \in S |-> {b \in S : Before(b, a)}]
<1>1. \A a \in S : IsFiniteSet(ahead[a]) /\ a \notin ahead[a]
  <2> SUFFICES ASSUME NEW a \in S PROVE IsFiniteSet(ahead[a]) /\ a \notin ahead[a]
    OBVIOUS
  <2>1. ahead[a] \in SUBSET S /\ a \notin ahead[a]
    BY BeforeOrders
  <2> QED
    BY <2>1, FS_Subset
<1>2. \A a, b \in S : a # b => a \in ahead[b] \/ b \in ahead[a]
  BY BeforeOrders
<1>3. \A a, b \in S : a \in ahead[b] => ahead[a] \subseteq ahead[b]
  BY BeforeOrders
<1>4. MaxPerCycle \in Nat
  BY SizeAssumption
<1>5. Take(S) = {a \in S : Cardinality(ahead[a]) < MaxPerCycle}
  BY DEF Take
<1> HIDE DEF ahead
<1>6. Cardinality({a \in S : Cardinality(ahead[a]) < MaxPerCycle}) <= MaxPerCycle
  <2>1. Ranks(S, ahead)
    BY <1>1, <1>2, <1>3 DEF Ranks
  <2> QED
    BY <1>4, <2>1, FirstFew
<1> QED
  BY <1>5, <1>6

\* What a cycle is going to post is new.
LEMMA CandidatesAreNew ==
    ASSUME feed \subseteq Announcements
    PROVE  /\ Candidates \subseteq Announcements \ memory
           /\ IsFiniteSet(Candidates) /\ Cardinality(Candidates) <= MaxPerCycle
<1> DEFINE S == Wanted(Rows \ memory)
<1>1. S \subseteq Rows \ memory
  BY DEF Wanted
<1>2. IsFiniteSet(S) /\ S \subseteq Announcements
  BY <1>1, RowsAreFew, FS_Subset
<1> HIDE DEF S
<1>3. Take(S) \subseteq S /\ Cardinality(Take(S)) <= MaxPerCycle
  BY <1>2, TakeIsBounded
<1>4. IsFiniteSet(Take(S))
  BY <1>2, <1>3, FS_Subset
<1> QED
  BY <1>1, <1>2, <1>3, <1>4 DEF Candidates, S

Fates == {"none", "refused", "posted", "reposted"}

\* Where a cycle may be with what is in hand.
LEMMA TargetsTyped ==
    ASSUME LoopTypeOK
    PROVE  /\ Len(Platforms) \in Nat /\ DOMAIN Platforms = 1 .. Len(Platforms)
           /\ Len(Targets) \in Nat /\ DOMAIN Targets = 1 .. Len(Targets)
           /\ \A n \in 1 .. Len(Targets) : Targets[n] \in Places /\ (AutoPost => Targets[n] \in PlatformSet)
           /\ \A m, n \in 1 .. Len(Targets) : Targets[m] = Targets[n] => m = n
<1>1. /\ Len(Platforms) \in Nat /\ DOMAIN Platforms = 1 .. Len(Platforms)
      /\ \A n \in 1 .. Len(Platforms) : Platforms[n] \in PlatformSet
  BY PlatformsAssumption DEF PlatformSet
<1>2. CASE AutoPost
  <2>1. Targets = Platforms
    BY <1>2 DEF Targets
  <2>2. \A m, n \in 1 .. Len(Platforms) : Platforms[m] = Platforms[n] => m = n
    BY <1>1, PlatformsAssumption
  <2> HIDE DEF Targets
  <2> QED
    BY <1>1, <2>1, <2>2 DEF Places
<1>3. CASE ~AutoPost
  <2>1. Targets = <<Room>>
    BY <1>3 DEF Targets
  <2>2. Len(Targets) = 1 /\ DOMAIN Targets = 1 .. 1 /\ Targets[1] = Room
    BY <2>1
  <2> QED
    BY <1>1, <1>3, <2>2 DEF Places
<1> QED
  BY <1>2, <1>3

\* At first nothing is remembered and nothing was posted.
LEMMA LoopStarts == LoopInit => LoopInv
<1> SUFFICES ASSUME LoopInit PROVE LoopInv
  OBVIOUS
<1>1. LoopTypeOK
  <2>1. Untouched \in [Places -> Fates]
    BY DEF Untouched, Fates
  <2>2. fate \in [Announcements -> [Places -> Fates]]
    BY <2>1 DEF LoopInit
  <2>3. IsFiniteSet({}) /\ Cardinality({}) = 0
    BY FS_EmptySet
  <2>4. Len(Targets) \in Nat
    <3>1. Len(Platforms) \in Nat /\ Len(<<Room>>) = 1
      BY PlatformsAssumption
    <3> QED
      BY <3>1 DEF Targets
  <2>5. heartbeat \in [PlatformSet -> {"never", "fresh", "stale"}] /\ used \in [respawns : Nat, others : Nat]
    BY DEF LoopInit
  <2>6. at \in 1 .. (IF pc = "promo" THEN Len(Platforms) ELSE Len(Targets)) + 1
    BY <2>4 DEF LoopInit
  <2>7. Cardinality(todo) <= MaxPerCycle /\ Cardinality(memory) <= Forget
    BY <2>3, SizeAssumption DEF LoopInit
  <2> QED
    BY <2>2, <2>5, <2>6, <2>7 DEF LoopInit, LoopTypeOK, Fates
<1>2. CycleIsTidy
  BY FS_EmptySet DEF LoopInit, CycleIsTidy
<1>3. NotYetPosted
  BY DEF LoopInit, NotYetPosted
<1>4. \A a \in Announcements, p \in Places : fate[a][p] = "none"
  BY DEF LoopInit, Untouched
<1>5. KeepsTrack
  BY <1>4 DEF KeepsTrack, Elsewhere
<1>6. NoRepost
  BY <1>4 DEF NoRepost
<1> QED
  BY <1>1, <1>2, <1>3, <1>5, <1>6 DEF LoopInv

\* A cycle ends with as much in memory as it may, and has lost track of the rest.
LEMMA CycleEndsTidily ==
    ASSUME LoopInv, NEW mem, mem \in SUBSET Announcements, IsFiniteSet(mem), EndCycle(mem)
    PROVE  LoopInv'
<1>1. /\ setting' = setting /\ feed' = feed /\ expired' = expired /\ heartbeat' = heartbeat /\ told' = told
      /\ used' = used /\ pc' = "sleep" /\ promo' = FALSE /\ todo' = {} /\ at' = 1 /\ newly' = {}
      /\ memory' = IF Cardinality(mem) > Forget THEN {} ELSE mem
      /\ fate' = [a \in Announcements |-> IF a \in memory' THEN fate[a] ELSE Untouched]
  BY DEF EndCycle, world, monitor
<1>2. LoopTypeOK /\ NoRepost
  BY DEF LoopInv
<1>3. /\ memory' \subseteq Announcements /\ IsFiniteSet(memory') /\ Cardinality(memory') <= Forget
  <2>1. Cardinality(mem) \in Nat /\ IsFiniteSet({}) /\ Cardinality({}) = 0 /\ Forget \in Nat
    BY FS_CardinalityType, FS_EmptySet, SizeAssumption
  <2> QED
    BY <1>1, <2>1
<1>4. Untouched \in [Places -> Fates] /\ \A p \in Places : Untouched[p] = "none"
  BY DEF Untouched, Fates
<1>5. fate \in [Announcements -> [Places -> Fates]]
  BY <1>2 DEF LoopTypeOK, Fates
<1>6. /\ \A a \in Announcements : fate'[a] = IF a \in memory' THEN fate[a] ELSE Untouched
      /\ fate' \in [Announcements -> [Places -> Fates]]
  BY <1>1, <1>4, <1>5
<1>7. LoopTypeOK'
  <2>1. IsFiniteSet({}) /\ Cardinality({}) = 0
    BY FS_EmptySet
  <2>2. Len(Targets)' \in Nat
    BY <1>1, <1>2, TargetsTyped DEF Targets, AutoPost
  <2>3. at' \in 1 .. (IF pc' = "promo" THEN Len(Platforms) ELSE Len(Targets)') + 1
    BY <1>1, <2>2
  <2>4. Cardinality(todo') <= MaxPerCycle
    BY <1>1, <2>1, SizeAssumption
  <2>5. /\ setting' \in Settings /\ feed' \subseteq Announcements /\ expired' \subseteq Announcements
        /\ heartbeat' \in [PlatformSet -> {"never", "fresh", "stale"}] /\ told' \subseteq PlatformSet
        /\ used' \in [respawns : Nat, others : Nat]
    BY <1>1, <1>2 DEF LoopTypeOK
  <2> QED
    BY <1>1, <1>3, <1>6, <2>3, <2>4, <2>5 DEF LoopTypeOK, Fates
<1>8. CycleIsTidy' /\ NotYetPosted'
  BY <1>1, <1>3, FS_EmptySet DEF CycleIsTidy, NotYetPosted
<1>9. KeepsTrack'
  BY <1>1, <1>4, <1>6 DEF KeepsTrack, Elsewhere
<1>10. NoRepost'
  BY <1>2, <1>4, <1>6 DEF NoRepost
<1> QED
  BY <1>7, <1>8, <1>9, <1>10 DEF LoopInv

Pcs == {"sleep", "open", "post", "promo", "dead"}
Beats == {"never", "fresh", "stale"}

\* What is around the cycle is what it should be.
Around ==
    /\ feed \subseteq Announcements /\ expired \subseteq Announcements
    /\ heartbeat \in [PlatformSet -> Beats] /\ told \subseteq PlatformSet
    /\ used \in [respawns : Nat, others : Nat]

\* A step that leaves the list, the memory and what was posted alone.
LEMMA CycleGoesOn ==
    ASSUME LoopInv, Around', UNCHANGED <<setting, todo, at, newly, memory, fate>>, promo' \in BOOLEAN, pc' \in Pcs,
           \/ pc' = pc
           \/ at = 1 /\ pc' = "dead"
           \/ at = 1 /\ todo = {} /\ (newly = {} \/ pc' = "promo")
    PROVE  LoopInv'
<1>1. LoopTypeOK /\ CycleIsTidy /\ NotYetPosted /\ KeepsTrack /\ NoRepost
  BY DEF LoopInv
<1>2. LoopTypeOK'
  <2>1. Len(Platforms) \in Nat /\ Len(Targets) \in Nat /\ Targets' = Targets
    BY <1>1, TargetsTyped DEF Targets, AutoPost
  <2>2. at' \in 1 .. (IF pc' = "promo" THEN Len(Platforms) ELSE Len(Targets)') + 1
    <3>1. CASE pc' = pc
      BY <1>1, <2>1, <3>1 DEF LoopTypeOK
    <3>2. CASE at = 1
      BY <2>1, <3>2
    <3> QED
      BY <3>1, <3>2
  <2>3. /\ setting' \in Settings /\ todo' \subseteq Announcements /\ newly' \subseteq Announcements
        /\ memory' \subseteq Announcements /\ fate' \in [Announcements -> [Places -> Fates]]
        /\ Cardinality(todo') <= MaxPerCycle /\ Cardinality(memory') <= Forget
    BY <1>1 DEF LoopTypeOK, Fates
  <2> QED
    BY <2>2, <2>3 DEF LoopTypeOK, Fates, Around, Pcs, Beats
<1>3. CycleIsTidy'
  BY <1>1 DEF CycleIsTidy
<1>4. NotYetPosted' /\ NoRepost'
  BY <1>1 DEF NotYetPosted, NoRepost
<1>5. KeepsTrack'
  <2>1. \A a : Visited(a)' = Visited(a)
    BY DEF Visited, InHand, Targets, AutoPost
  <2>2. \A a : Elsewhere(a)' = Elsewhere(a)
    BY DEF Elsewhere
  <2> QED
    BY <1>1, <2>1, <2>2 DEF KeepsTrack
<1> QED
  BY <1>2, <1>3, <1>4, <1>5 DEF LoopInv

\* What is around the cycle, as long as nothing happens there.
LEMMA AroundStays ==
    ASSUME LoopInv
    PROVE  /\ Around
           /\ UNCHANGED <<world, monitor, used>> => Around'
           /\ LoopTypeOK /\ CycleIsTidy /\ NotYetPosted /\ KeepsTrack /\ NoRepost
           /\ pc \in Pcs /\ promo \in BOOLEAN
<1>1. LoopTypeOK /\ CycleIsTidy /\ NotYetPosted /\ KeepsTrack /\ NoRepost
  BY DEF LoopInv
<1>2. Around /\ pc \in Pcs /\ promo \in BOOLEAN
  BY <1>1 DEF LoopTypeOK, Around, Beats, Pcs
<1> QED
  BY <1>1, <1>2 DEF Around, world, monitor

\* Steps of a cycle that post nothing and end nothing.
LEMMA PlainSteps ==
    ASSUME LoopInv, Wake \/ FetchPanics \/ FetchFails \/ PostPanics \/ BeginPromo
    PROVE  LoopInv'
<1>1. /\ UNCHANGED <<world, monitor, used>> /\ UNCHANGED <<setting, todo, at, newly, memory, fate>>
      /\ pc' \in Pcs /\ (promo' = promo \/ promo' \in BOOLEAN)
  BY DEF Wake, FetchPanics, FetchFails, PostPanics, BeginPromo, Pcs, world, monitor
<1>2. \/ at = 1 /\ pc' = "dead"
      \/ at = 1 /\ todo = {} /\ (newly = {} \/ pc' = "promo")
  BY AroundStays DEF Wake, FetchPanics, FetchFails, PostPanics, BeginPromo, CycleIsTidy
<1> QED
  BY <1>1, <1>2, AroundStays, CycleGoesOn

\* A platform that took something is on record.
LEMMA SucceedsTyped ==
    ASSUME Around, NEW p \in PlatformSet, Succeeds(p)
    PROVE  heartbeat' \in [PlatformSet -> Beats] /\ told' \subseteq PlatformSet
BY DEF Around, Succeeds, Beats

\* What others do.
LEMMA AroundSteps ==
    ASSUME LoopInv,
           \/ Watchdog
           \/ \E a \in Announcements : Appears(a) \/ Expires(a)
           \/ \E p \in PlatformSet : OtherTrigger(p) \/ GoesStale(p)
    PROVE  LoopInv'
<1>1. Around /\ pc \in Pcs /\ promo \in BOOLEAN
  BY AroundStays
<1>2. UNCHANGED <<setting, todo, at, newly, memory, fate>> /\ pc' = pc /\ promo' = promo
  BY DEF Watchdog, Appears, Expires, OtherTrigger, GoesStale, cycle
<1>3. Around'
  <2>1. CASE Watchdog
    BY <1>1, <2>1 DEF Watchdog, Around, world, Expected
  <2>2. CASE \E a \in Announcements : Appears(a) \/ Expires(a)
    BY <1>1, <2>2 DEF Appears, Expires, Around, monitor
  <2>3. ASSUME NEW p \in PlatformSet, OtherTrigger(p) PROVE Around'
    <3>1. heartbeat' \in [PlatformSet -> Beats] /\ told' \subseteq PlatformSet
      BY <1>1, <2>3, SucceedsTyped DEF OtherTrigger
    <3>2. used' \in [respawns : Nat, others : Nat]
      BY <1>1, <2>3 DEF OtherTrigger, Around
    <3> QED
      BY <1>1, <2>3, <3>1, <3>2 DEF OtherTrigger, Around, world
  <2>4. ASSUME NEW p \in PlatformSet, GoesStale(p) PROVE Around'
    BY <1>1, <2>4 DEF GoesStale, Around, world, Beats
  <2> QED
    BY <2>1, <2>2, <2>3, <2>4
<1> QED
  BY <1>1, <1>2, <1>3, CycleGoesOn

\* The list of a cycle is new, and nothing of it has been anywhere.
LEMMA FetchKeeps == ASSUME LoopInv, Fetch PROVE LoopInv'
<1>1. /\ LoopTypeOK /\ CycleIsTidy /\ NotYetPosted /\ KeepsTrack /\ NoRepost
      /\ Around /\ Around'
  BY AroundStays DEF Fetch, world, monitor
<1>2. /\ pc = "open" /\ pc' = "post" /\ setting' = setting /\ promo' = promo /\ at' = at /\ newly' = newly
      /\ memory' = memory /\ fate' = fate /\ (todo' = {} \/ todo' = Candidates)
  BY DEF Fetch
<1>3. at = 1 /\ newly = {} /\ todo = {}
  BY <1>1, <1>2 DEF CycleIsTidy
<1>4. todo' \subseteq Announcements \ memory /\ IsFiniteSet(todo') /\ Cardinality(todo') <= MaxPerCycle
  <2>1. IsFiniteSet({}) /\ Cardinality({}) = 0 /\ MaxPerCycle \in Nat /\ 0 <= MaxPerCycle
    BY FS_EmptySet, SizeAssumption
  <2>2. Candidates \subseteq Announcements \ memory /\ IsFiniteSet(Candidates) /\ Cardinality(Candidates) <= MaxPerCycle
    BY <1>1, CandidatesAreNew DEF Around
  <2> QED
    BY <1>2, <2>1, <2>2
<1>5. LoopTypeOK'
  <2>1. Len(Targets) \in Nat /\ Targets' = Targets
    BY <1>1, <1>2, TargetsTyped DEF Targets, AutoPost
  <2>2. at' \in 1 .. (IF pc' = "promo" THEN Len(Platforms) ELSE Len(Targets)') + 1
    BY <1>2, <1>3, <2>1
  <2>3. /\ setting' \in Settings /\ newly' \subseteq Announcements /\ promo' \in BOOLEAN
        /\ memory' \subseteq Announcements /\ fate' \in [Announcements -> [Places -> Fates]]
        /\ Cardinality(memory') <= Forget
    BY <1>1, <1>2 DEF LoopTypeOK, Fates
  <2> QED
    BY <1>1, <1>2, <1>4, <2>2, <2>3 DEF LoopTypeOK, Fates, Around, Beats
<1>6. CycleIsTidy' /\ NotYetPosted' /\ NoRepost'
  BY <1>1, <1>2, <1>3, <1>4 DEF CycleIsTidy, NotYetPosted, NoRepost
<1>7. KeepsTrack'
  <2>1. \A a : Elsewhere(a)' = Elsewhere(a)
    BY <1>2 DEF Elsewhere
  <2>2. \A a : Visited(a) = {}
    BY <1>3 DEF Visited, InHand
  <2> QED
    BY <1>1, <1>2, <2>1, <2>2 DEF KeepsTrack
<1> QED
  BY <1>5, <1>6, <1>7 DEF LoopInv

\* Another loop has everything before it.
LEMMA RespawnKeeps == ASSUME LoopInv, NEW reboot \in BOOLEAN, Respawn(reboot) PROVE LoopInv'
<1>1. Around /\ LoopTypeOK
  BY AroundStays
<1>2. /\ setting' \in Settings /\ pc' = "sleep" /\ promo' = FALSE /\ todo' = {} /\ at' = 1 /\ newly' = {}
      /\ memory' = {} /\ fate' = [a \in Announcements |-> Untouched] /\ feed' = feed /\ expired' = expired
  BY DEF Respawn, world
<1>3. IsFiniteSet({}) /\ Cardinality({}) = 0 /\ 0 <= MaxPerCycle /\ 0 <= Forget
  BY FS_EmptySet, SizeAssumption
<1>4. Around'
  <2>1. used' \in [respawns : Nat, others : Nat]
    BY <1>1 DEF Respawn, Around
  <2>2. heartbeat' \in [PlatformSet -> Beats] /\ told' \subseteq PlatformSet
    BY <1>1 DEF Respawn, Around, Beats
  <2> QED
    BY <1>1, <1>2, <2>1, <2>2 DEF Around
<1>5. \A a \in Announcements, p \in Places : fate'[a][p] = "none"
  BY <1>2 DEF Untouched
<1>6. LoopTypeOK'
  <2>1. Untouched \in [Places -> Fates]
    BY DEF Untouched, Fates
  <2>2. fate' \in [Announcements -> [Places -> Fates]]
    BY <1>2, <2>1
  <2>3. Len(Targets)' \in Nat
    <3>1. Len(Platforms) \in Nat /\ Len(<<Room>>) = 1
      BY PlatformsAssumption
    <3>2. Targets' = Platforms \/ Targets' = <<Room>>
      BY DEF Targets
    <3> QED
      BY <3>1, <3>2
  <2>4. at' \in 1 .. (IF pc' = "promo" THEN Len(Platforms) ELSE Len(Targets)') + 1
    BY <1>2, <2>3
  <2> QED
    BY <1>2, <1>3, <1>4, <2>2, <2>4 DEF LoopTypeOK, Fates, Around, Beats
<1>7. CycleIsTidy' /\ NotYetPosted'
  BY <1>2, <1>3 DEF CycleIsTidy, NotYetPosted
<1>8. KeepsTrack' /\ NoRepost'
  BY <1>5 DEF KeepsTrack, Elsewhere, NoRepost
<1> QED
  BY <1>6, <1>7, <1>8 DEF LoopInv

\* No target has an announcement twice: where the cycle goes with the one in hand,
\* it has not been with it.
LEMMA TargetAnswersKeeps ==
    ASSUME LoopInv, NEW a \in todo, NEW took \in BOOLEAN, TargetAnswers(a, took)
    PROVE  LoopInv'
<1> DEFINE p == Targets[at]
<1>1. /\ LoopTypeOK /\ CycleIsTidy /\ NotYetPosted /\ KeepsTrack /\ NoRepost /\ Around
      /\ pc \in Pcs /\ promo \in BOOLEAN
  BY AroundStays
<1>2. /\ pc = "post" /\ InHand(a) /\ at <= Len(Targets) /\ at' = at + 1
      /\ fate' = [fate EXCEPT ![a][p] = After(fate[a][p], took)]
      /\ setting' = setting /\ feed' = feed /\ expired' = expired /\ pc' = pc /\ promo' = promo /\ todo' = todo
      /\ newly' = newly /\ memory' = memory /\ used' = used
  BY DEF TargetAnswers, world
<1>3. /\ at \in 1 .. Len(Targets) /\ Len(Targets) \in Nat /\ p \in Places /\ (AutoPost => p \in PlatformSet)
      /\ \A n \in 1 .. (at - 1) : Targets[n] # p
  <2>1. Len(Targets) \in Nat /\ at \in 1 .. Len(Targets)
    BY <1>1, <1>2, TargetsTyped DEF LoopTypeOK
  <2>2. \A n \in 1 .. (at - 1) : n \in 1 .. Len(Targets) /\ n # at
    BY <2>1
  <2> QED
    BY <1>1, <2>1, <2>2, TargetsTyped
<1> HIDE DEF p
<1>4. a \in Announcements /\ a \notin memory \cup newly
  BY <1>1 DEF LoopTypeOK, NotYetPosted
<1>5. fate[a][p] = "none"
  <2>1. p \notin Visited(a)
    BY <1>2, <1>3 DEF Visited
  <2> QED
    BY <1>1, <1>3, <1>4, <2>1 DEF KeepsTrack, Elsewhere
<1>6. After(fate[a][p], took) \in {"refused", "posted"}
  BY <1>5 DEF After
<1>7. /\ fate' \in [Announcements -> [Places -> Fates]]
      /\ fate'[a][p] \in {"refused", "posted"}
      /\ \A b \in Announcements, q \in Places : b # a \/ q # p => fate'[b][q] = fate[b][q]
  <2>1. fate \in [Announcements -> [Places -> Fates]]
    BY <1>1 DEF LoopTypeOK, Fates
  <2>2. \A x \in {"refused", "posted"} : fate' = [fate EXCEPT ![a][p] = x] =>
            /\ fate' \in [Announcements -> [Places -> Fates]]
            /\ fate'[a][p] = x
            /\ \A b \in Announcements, q \in Places : b # a \/ q # p => fate'[b][q] = fate[b][q]
    BY <1>3, <1>4, <2>1 DEF Fates
  <2> QED
    BY <1>2, <1>6, <2>2
<1>8. Around'
  <2>1. heartbeat' \in [PlatformSet -> Beats] /\ told' \subseteq PlatformSet
    <3>1. CASE took /\ AutoPost
      <4>1. Succeeds(p)
        BY <3>1 DEF TargetAnswers, p
      <4> QED
        BY <1>1, <1>3, <3>1, <4>1, SucceedsTyped
    <3>2. CASE ~(took /\ AutoPost)
      BY <1>1, <3>2 DEF TargetAnswers, monitor, Around
    <3> QED
      BY <3>1, <3>2
  <2> QED
    BY <1>1, <1>2, <2>1 DEF Around
<1>9. LoopTypeOK'
  <2>1. Targets' = Targets
    BY <1>2 DEF Targets, AutoPost
  <2>2. at' \in 1 .. (IF pc' = "promo" THEN Len(Platforms) ELSE Len(Targets)') + 1
    BY <1>2, <1>3, <2>1
  <2>3. /\ setting' \in Settings /\ newly' \subseteq Announcements /\ todo' \subseteq Announcements
        /\ memory' \subseteq Announcements /\ Cardinality(memory') <= Forget /\ Cardinality(todo') <= MaxPerCycle
    BY <1>1, <1>2 DEF LoopTypeOK
  <2> QED
    BY <1>1, <1>2, <1>7, <1>8, <2>2, <2>3 DEF LoopTypeOK, Fates, Around, Beats, Pcs
<1>10. CycleIsTidy' /\ NotYetPosted'
  BY <1>1, <1>2 DEF CycleIsTidy, NotYetPosted
<1>11. NoRepost'
  BY <1>1, <1>7 DEF NoRepost
<1>12. KeepsTrack'
  <2> SUFFICES ASSUME NEW b \in Announcements, b \notin memory \cup newly, NEW q \in Places, fate'[b][q] # "none"
               PROVE  q \in Visited(b)'
    BY <1>2 DEF KeepsTrack, Elsewhere
  <2>1. \A c : InHand(c)' <=> InHand(c)
    BY <1>2 DEF InHand
  <2>2. Targets' = Targets
    BY <1>2 DEF Targets, AutoPost
  <2>3. CASE b = a /\ q = p
    <3>1. at \in 1 .. (at' - 1)
      BY <1>2, <1>3
    <3>2. q = Targets'[at]
      BY <2>2, <2>3 DEF p
    <3> QED
      BY <1>2, <2>1, <2>3, <3>1, <3>2 DEF Visited
  <2>4. CASE b # a \/ q # p
    <3>1. q \in Visited(b)
      BY <1>1, <1>7, <2>4 DEF KeepsTrack, Elsewhere
    <3>2. 1 .. (at - 1) \subseteq 1 .. (at' - 1)
      BY <1>2, <1>3
    <3> QED
      BY <2>1, <2>2, <3>1, <3>2 DEF Visited
  <2> QED
    BY <2>3, <2>4
<1> QED
  BY <1>9, <1>10, <1>11, <1>12 DEF LoopInv

\* What was in hand has been everywhere and is posted in this cycle.
LEMMA PostedKeeps == ASSUME LoopInv, NEW a \in todo, Posted(a) PROVE LoopInv'
<1>1. /\ LoopTypeOK /\ CycleIsTidy /\ NotYetPosted /\ KeepsTrack /\ NoRepost /\ Around /\ Around'
      /\ pc \in Pcs /\ promo \in BOOLEAN
  BY AroundStays DEF Posted, world, monitor
<1>2. /\ pc = "post" /\ InHand(a) /\ at' = 1 /\ todo' = todo \ {a} /\ newly' = newly \cup {a}
      /\ setting' = setting /\ pc' = pc /\ promo' = promo /\ memory' = memory /\ fate' = fate
  BY DEF Posted
<1>3. a \in Announcements
  BY <1>1 DEF LoopTypeOK
<1>4. IsFiniteSet(todo') /\ Cardinality(todo') <= MaxPerCycle
  <2>1. IsFiniteSet(todo) /\ todo' \in SUBSET todo
    BY <1>1, <1>2 DEF CycleIsTidy
  <2>2. IsFiniteSet(todo') /\ Cardinality(todo') <= Cardinality(todo)
        /\ Cardinality(todo') \in Nat /\ Cardinality(todo) \in Nat
    BY <2>1, FS_Subset, FS_CardinalityType
  <2> QED
    BY <1>1, <2>2, SizeAssumption DEF LoopTypeOK
<1>5. LoopTypeOK'
  <2>1. Len(Targets) \in Nat /\ Targets' = Targets
    BY <1>1, <1>2, TargetsTyped DEF Targets, AutoPost
  <2>2. at' \in 1 .. (IF pc' = "promo" THEN Len(Platforms) ELSE Len(Targets)') + 1
    BY <1>2, <2>1
  <2>3. /\ setting' \in Settings /\ newly' \subseteq Announcements /\ todo' \subseteq Announcements
        /\ memory' \subseteq Announcements /\ Cardinality(memory') <= Forget
        /\ fate' \in [Announcements -> [Places -> Fates]]
    BY <1>1, <1>2, <1>3 DEF LoopTypeOK, Fates
  <2> QED
    BY <1>1, <1>2, <1>4, <2>2, <2>3 DEF LoopTypeOK, Fates, Around, Beats, Pcs
<1>6. CycleIsTidy' /\ NotYetPosted' /\ NoRepost'
  <2>1. IsFiniteSet(newly')
    BY <1>1, <1>2, FS_AddElement DEF CycleIsTidy
  <2> QED
    BY <1>1, <1>2, <1>4, <2>1 DEF CycleIsTidy, NotYetPosted, NoRepost
<1>7. KeepsTrack'
  <2> SUFFICES ASSUME NEW b \in Announcements, b \notin memory \cup newly, b # a
               PROVE  Elsewhere(b)' = {}
    BY <1>2 DEF KeepsTrack
  <2>1. ~InHand(b)
    BY <1>1, <1>2, OneInHand
  <2>2. Elsewhere(b) = {}
    BY <1>1, <2>1 DEF KeepsTrack, Visited
  <2> QED
    BY <1>2, <2>2 DEF Elsewhere
<1> QED
  BY <1>5, <1>6, <1>7 DEF LoopInv

\* A promo is no announcement.
LEMMA PromoAnswersKeeps == ASSUME LoopInv, NEW took \in BOOLEAN, PromoAnswers(took) PROVE LoopInv'
<1>1. /\ LoopTypeOK /\ CycleIsTidy /\ NotYetPosted /\ KeepsTrack /\ NoRepost /\ Around
      /\ pc \in Pcs /\ promo \in BOOLEAN
  BY AroundStays
<1>2. /\ pc = "promo" /\ at <= Len(Platforms) /\ at' = at + 1
      /\ setting' = setting /\ feed' = feed /\ expired' = expired /\ pc' = pc /\ promo' = promo /\ todo' = todo
      /\ newly' = newly /\ memory' = memory /\ used' = used /\ fate' = fate
  BY DEF PromoAnswers, world
<1>3. Len(Platforms) \in Nat /\ at \in 1 .. Len(Platforms) /\ Platforms[at] \in PlatformSet
  <2>1. Len(Platforms) \in Nat /\ DOMAIN Platforms = 1 .. Len(Platforms)
    BY <1>1, TargetsTyped
  <2>2. at \in 1 .. Len(Platforms)
    BY <1>1, <1>2, <2>1 DEF LoopTypeOK
  <2> QED
    BY <2>1, <2>2 DEF PlatformSet
<1>4. Around'
  <2>1. heartbeat' \in [PlatformSet -> Beats] /\ told' \subseteq PlatformSet
    <3>1. CASE took
      <4>1. Succeeds(Platforms[at])
        BY <3>1 DEF PromoAnswers
      <4> QED
        BY <1>1, <1>3, <4>1, SucceedsTyped
    <3>2. CASE ~took
      BY <1>1, <3>2 DEF PromoAnswers, monitor, Around
    <3> QED
      BY <3>1, <3>2
  <2> QED
    BY <1>1, <1>2, <2>1 DEF Around
<1>5. LoopTypeOK'
  <2>1. at' \in 1 .. (IF pc' = "promo" THEN Len(Platforms) ELSE Len(Targets)') + 1
    BY <1>2, <1>3
  <2>2. /\ setting' \in Settings /\ newly' \subseteq Announcements /\ todo' \subseteq Announcements
        /\ memory' \subseteq Announcements /\ Cardinality(memory') <= Forget /\ Cardinality(todo') <= MaxPerCycle
        /\ fate' \in [Announcements -> [Places -> Fates]]
    BY <1>1, <1>2 DEF LoopTypeOK, Fates
  <2> QED
    BY <1>1, <1>2, <1>4, <2>1, <2>2 DEF LoopTypeOK, Fates, Around, Beats, Pcs
<1>6. CycleIsTidy' /\ NotYetPosted' /\ NoRepost'
  BY <1>1, <1>2 DEF CycleIsTidy, NotYetPosted, NoRepost
<1>7. KeepsTrack'
  <2>1. \A a : Elsewhere(a)' = Elsewhere(a)
    BY <1>2 DEF Elsewhere
  <2>2. \A a : Visited(a) = {}
    BY <1>1, <1>2 DEF Visited, InHand, CycleIsTidy
  <2> QED
    BY <1>1, <1>2, <2>1, <2>2 DEF KeepsTrack
<1> QED
  BY <1>5, <1>6, <1>7 DEF LoopInv

\* However a cycle ends.
LEMMA EndKeeps == ASSUME LoopInv, OpenFails \/ Finish \/ Timeout PROVE LoopInv'
<1>1. LoopTypeOK /\ CycleIsTidy
  BY AroundStays
<1>2. PICK mem \in {memory, memory \cup newly} : EndCycle(mem)
  BY DEF OpenFails, Finish, Timeout
<1>3. IsFiniteSet(memory \cup newly)
  BY <1>1, FS_Union DEF CycleIsTidy
<1>4. mem \in SUBSET Announcements /\ IsFiniteSet(mem)
  BY <1>1, <1>3 DEF LoopTypeOK, CycleIsTidy
<1> QED
  BY <1>2, <1>4, CycleEndsTidily

\* Every step keeps the invariant of the loop.
LEMMA LoopGoesOn == LoopInv /\ [LoopNext]_loopVars => LoopInv'
<1> SUFFICES ASSUME LoopInv, [LoopNext]_loopVars PROVE LoopInv'
  OBVIOUS
<1>1. CASE Wake \/ Work \/ Timeout
  BY <1>1, PlainSteps, FetchKeeps, EndKeeps DEF Work
<1>2. CASE Answer
  BY <1>2, TargetAnswersKeeps, PostedKeeps, PromoAnswersKeeps DEF Answer
<1>3. CASE \/ Watchdog
           \/ \E a \in Announcements : Appears(a) \/ Expires(a)
           \/ \E p \in PlatformSet : OtherTrigger(p) \/ GoesStale(p)
  BY <1>3, AroundSteps
<1>4. CASE \E reboot \in BOOLEAN : Respawn(reboot)
  BY <1>4, RespawnKeeps
<1>5. CASE UNCHANGED loopVars
  <2>1. /\ UNCHANGED <<setting, todo, at, newly, memory, fate>> /\ UNCHANGED <<world, monitor, used>>
        /\ pc' = pc /\ promo' = promo
    BY <1>5 DEF loopVars, cycle
  <2> QED
    BY <2>1, AroundStays, CycleGoesOn
<1> QED
  BY <1>1, <1>2, <1>3, <1>4, <1>5 DEF LoopNext

\* The invariant of the loop holds in every behaviour.
THEOREM LoopInvariance == LoopSpec => []LoopInv
BY LoopStarts, LoopGoesOn, PTL DEF LoopSpec

\* The loop remembers no more ids than it is allowed to and posts no more in a
\* cycle than its section says.
THEOREM LoopTypeCorrect == LoopSpec => []LoopTypeOK
<1>1. LoopInv => LoopTypeOK
  BY DEF LoopInv
<1> QED
  BY <1>1, LoopInvariance, PTL

\* While the loop keeps track of an announcement, no platform and no room has it
\* from the loop twice.
THEOREM NothingIsReposted == LoopSpec => []NoRepost
<1>1. LoopInv => NoRepost
  BY DEF LoopInv
<1> QED
  BY <1>1, LoopInvariance, PTL

=============================================================================
