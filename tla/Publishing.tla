----------------------------- MODULE Publishing -----------------------------
(***************************************************************************)
(* How often the daemon posts: the trending webhook, whose requests check  *)
(* a daily cap and a cooldown per ticker against the table trending_posts, *)
(* publish, and record the post in the table afterwards; and the Friday    *)
(* digest, a task that looks the week up in the same table.                *)
(*                                                                         *)
(* The check, the publishing (an LLM, images, several platforms) and the   *)
(* record are apart by awaits, and webhook requests run concurrently.  A   *)
(* check whose query fails lets the post pass.  The table survives a       *)
(* restart of the daemon, requests do not.                                 *)
(*                                                                         *)
(* Time is discrete.  A post is published somewhere or nowhere: which of   *)
(* the platforms took it is left out.                                      *)
(***************************************************************************)
EXTENDS Naturals, FiniteSets

CONSTANTS
    Tickers,       \* what the webhook reports as trending
    Requests,      \* webhook requests being served at a time
    None,          \* no ticker
    DailyCap,      \* DAILY_POST_CAP
    Day,           \* the window of the cap and the cooldown, 86400 seconds
    Week,          \* length of a week
    Friday,        \* offset in the week at which the digest may run
    MaxTime, MaxPosts, MaxMishaps  \* bounds of the model

ASSUME DigestAssumption == None \notin Tickers /\ "digest" \notin Tickers
ASSUME RequestsAssumption == IsFiniteSet(Requests)
ASSUME ClockAssumption ==
    /\ {DailyCap, Day, Week} \subseteq Nat \ {0}
    /\ Friday \in 0 .. (Week - 1)
    /\ MaxTime \in Nat

VARIABLES
    now,        \* the clock
    rows,       \* the table: rows per ticker (or "digest") and time of posted_at
    posts,      \* history: what was published, per ticker and time
    request,    \* per request: where it is and the ticker it is about
    digest,     \* where the digest task is
    mishaps,    \* database calls that failed and restarts so far
    raced,      \* history: tickers of requests that were past the cap together
    crowded,    \* history: two requests were past the cap together
    clean       \* history: no database call failed, no record was lost

vars == <<now, rows, posts, request, digest, mishaps, raced, crowded, clean>>

Times == 0 .. MaxTime
Kinds == Tickers \cup {"digest"}
Waiting == [pc |-> "idle", ticker |-> None]

Init ==
    /\ now = 0
    /\ rows = [k \in Kinds |-> [t \in Times |-> 0]]
    /\ posts = [k \in Kinds |-> [t \in Times |-> 0]]
    /\ request = [r \in Requests |-> Waiting]
    /\ digest = "idle"
    /\ mishaps = 0
    /\ raced = {}
    /\ crowded = FALSE
    /\ clean = TRUE

Mishap ==
    /\ mishaps < MaxMishaps
    /\ mishaps' = mishaps + 1

\* What there is in table of kinds since time t, and how much that is.
Entries(table, kinds, t) ==
    UNION {{x} \X (1 .. table[x[1]][x[2]]) : x \in kinds \X {u \in Times : u >= t}}

CountSince(table, kinds, t) == Cardinality(Entries(table, kinds, t))

Since(span) == IF now >= span THEN now - span ELSE 0

MorePosts == CountSince(posts, Kinds, 0) < MaxPosts

Pass ==
    /\ now < MaxTime
    /\ now' = now + 1
    /\ UNCHANGED <<rows, posts, request, digest, mishaps, raced, crowded, clean>>

(***************************************************************************)
(* handle_trending_entity.                                                 *)
(***************************************************************************)
Goes(r, pc) == request' = [request EXCEPT ![r].pc = pc]
Ends(r) == request' = [request EXCEPT ![r] = Waiting]

PastTheCap == {r \in Requests : request[r].pc \in {"cooldown", "publish", "record"}}

\* Request r for ticker k has been let past the cap.
PassesCap(r, k) ==
    /\ request' = [request EXCEPT ![r] = [pc |-> "cooldown", ticker |-> k]]
    /\ crowded' = (crowded \/ PastTheCap # {})
    /\ raced' = IF \E s \in PastTheCap : request[s].ticker = k THEN raced \cup {k} ELSE raced

\* A bug to compare with: the cap is off by one.
BelowCapOrAtIt(r, k) ==
    /\ request[r].pc = "idle"
    /\ CountSince(rows, Kinds, Since(Day)) <= DailyCap
    /\ PassesCap(r, k)
    /\ UNCHANGED <<now, rows, posts, digest, mishaps, clean>>

\* Digests count against the cap as well.
BelowCap(r, k) ==
    /\ request[r].pc = "idle"
    /\ CountSince(rows, Kinds, Since(Day)) < DailyCap
    /\ PassesCap(r, k)
    /\ UNCHANGED <<now, rows, posts, digest, mishaps, clean>>

\* unwrap_or(0): a count that cannot be read is no reason not to post.
CapUnread(r, k) ==
    /\ request[r].pc = "idle"
    /\ PassesCap(r, k)
    /\ Mishap
    /\ clean' = FALSE
    /\ UNCHANGED <<now, rows, posts, digest>>

Cooling(k) == \E t \in Times : rows[k][t] > 0 /\ now - t < Day

CooledDown(r) ==
    /\ request[r].pc = "cooldown"
    /\ ~Cooling(request[r].ticker)
    /\ Goes(r, "publish")
    /\ UNCHANGED <<now, rows, posts, digest, mishaps, raced, crowded, clean>>

CooldownUnread(r) ==
    /\ request[r].pc = "cooldown"
    /\ Goes(r, "publish")
    /\ Mishap
    /\ clean' = FALSE
    /\ UNCHANGED <<now, rows, posts, digest, raced, crowded>>

\* The ticker is cooling down, it has no recent announcement, or no platform is
\* configured or took the post.
GiveUp(r) ==
    /\ \/ request[r].pc = "cooldown" /\ Cooling(request[r].ticker)
       \/ request[r].pc = "publish"
    /\ Ends(r)
    /\ UNCHANGED <<now, rows, posts, digest, mishaps, raced, crowded, clean>>

Publish(r) ==
    /\ request[r].pc = "publish"
    /\ MorePosts
    /\ posts' = [posts EXCEPT ![request[r].ticker][now] = @ + 1]
    /\ Goes(r, "record")
    /\ UNCHANGED <<now, rows, digest, mishaps, raced, crowded, clean>>

\* A bug to compare with: posted_at is when the webhook's day began.
RecordStartOfDay(r) ==
    /\ request[r].pc = "record"
    /\ rows' = [rows EXCEPT ![request[r].ticker][(now \div Day) * Day] = @ + 1]
    /\ Ends(r)
    /\ UNCHANGED <<now, posts, digest, mishaps, raced, crowded, clean>>

Record(r) ==
    /\ request[r].pc = "record"
    /\ rows' = [rows EXCEPT ![request[r].ticker][now] = @ + 1]
    /\ Ends(r)
    /\ UNCHANGED <<now, posts, digest, mishaps, raced, crowded, clean>>

\* A post that cannot be recorded is reported as posted.
RecordFails(r) ==
    /\ request[r].pc = "record"
    /\ Ends(r)
    /\ Mishap
    /\ clean' = FALSE
    /\ UNCHANGED <<now, rows, posts, digest, raced, crowded>>

Trending(r) ==
    \/ \E k \in Tickers : BelowCap(r, k) \/ CapUnread(r, k)
    \/ CooledDown(r) \/ CooldownUnread(r) \/ GiveUp(r)
    \/ Publish(r) \/ Record(r) \/ RecordFails(r)

(***************************************************************************)
(* run_if_scheduled, called by one task every five minutes.                *)
(***************************************************************************)
Monday == (now \div Week) * Week

InTheWindow == now % Week = Friday

PostedThisWeek == \E t \in Times : t >= Monday /\ rows["digest"][t] > 0

\* A bug to compare with: the week is not looked up.
DigestRuns ==
    /\ digest = "idle"
    /\ InTheWindow
    /\ digest' = "render"
    /\ UNCHANGED <<now, rows, posts, request, mishaps, raced, crowded, clean>>

DigestBegins ==
    /\ digest = "idle"
    /\ InTheWindow
    /\ ~PostedThisWeek
    /\ digest' = "render"
    /\ UNCHANGED <<now, rows, posts, request, mishaps, raced, crowded, clean>>

\* Nothing to show, nothing rendered, or no platform took it: the next tick tries
\* again while the window lasts.
DigestGivesUp ==
    /\ digest = "render"
    /\ digest' = "idle"
    /\ UNCHANGED <<now, rows, posts, request, mishaps, raced, crowded, clean>>

DigestPublishes ==
    /\ digest = "render"
    /\ MorePosts
    /\ posts' = [posts EXCEPT !["digest"][now] = @ + 1]
    /\ digest' = "record"
    /\ UNCHANGED <<now, rows, request, mishaps, raced, crowded, clean>>

DigestRecords ==
    /\ digest = "record"
    /\ rows' = [rows EXCEPT !["digest"][now] = @ + 1]
    /\ digest' = "idle"
    /\ UNCHANGED <<now, posts, request, mishaps, raced, crowded, clean>>

\* A bug to compare with: a failed insert takes a row back.
DigestRowTakenBack ==
    /\ digest = "record"
    /\ digest' = "idle"
    /\ rows' = [rows EXCEPT !["digest"][now] = @ - 1]
    /\ Mishap
    /\ clean' = FALSE
    /\ UNCHANGED <<now, posts, request, raced, crowded>>

DigestRecordFails ==
    /\ digest = "record"
    /\ digest' = "idle"
    /\ Mishap
    /\ clean' = FALSE
    /\ UNCHANGED <<now, rows, posts, request, raced, crowded>>

DigestStep ==
    \/ DigestBegins \/ DigestGivesUp \/ DigestPublishes
    \/ DigestRecords \/ DigestRecordFails

\* The daemon is restarted: what was published and not recorded is forgotten.
Restart ==
    /\ request' = [r \in Requests |-> Waiting]
    /\ digest' = "idle"
    /\ clean' = (clean /\ digest # "record" /\ \A r \in Requests : request[r].pc # "record")
    /\ Mishap
    /\ UNCHANGED <<now, rows, posts, raced, crowded>>

Next == Pass \/ DigestStep \/ Restart \/ \E r \in Requests : Trending(r)

Spec == Init /\ [][Next]_vars

(***************************************************************************)
(* Properties.                                                             *)
(***************************************************************************)

\* Types, and what they exclude: a table with fewer than no rows of a kind.
TypeOK ==
    /\ now \in Times
    /\ rows \in [Kinds -> [Times -> Nat]]
    /\ posts \in [Kinds -> [Times -> Nat]]
    /\ request \in [Requests -> [pc : {"idle", "cooldown", "publish", "record"},
                                 ticker : Tickers \cup {None}]]
    /\ digest \in {"idle", "render", "record"}
    /\ mishaps \in Nat
    /\ raced \subseteq Tickers
    /\ crowded \in BOOLEAN /\ clean \in BOOLEAN

PostsToday == CountSince(posts, Tickers, Since(Day))

\* The cap is checked against a table that is written after the post: one request
\* at a time never exceeds it in any 24 hours, and with several the excess is at
\* most the requests that were past the check together.
ExcessIsBounded ==
    clean => PostsToday <= DailyCap + (IF crowded THEN Cardinality(Requests) - 1 ELSE 0)

\* A ticker whose requests did not overlap is posted at most once in any 24 hours.
CooldownHolds ==
    clean =>
        \A k \in Tickers \ raced : \A t, u \in Times :
            posts[k][t] > 0 /\ posts[k][u] > 0 /\ t <= u =>
                IF t = u THEN posts[k][t] = 1 ELSE u - t >= Day

\* The digest goes out at most once a week, although its task looks several times
\* and the daemon may be restarted in between, unless a record is lost.
DigestOncePerWeek ==
    clean =>
        \A t, u \in Times :
            posts["digest"][t] > 0 /\ posts["digest"][u] > 0 /\ t \div Week = u \div Week =>
                t = u /\ posts["digest"][t] = 1

=============================================================================
