----------------------------- MODULE TokenStore -----------------------------
(***************************************************************************)
(* The OAuth tokens of X and TikTok.  Whoever posts builds a client of its *)
(* own: the posting loop one that lives as long as the loop, the trending  *)
(* webhook, the digest and the admin endpoints one per post.  A client     *)
(* starts from the token file, or from the config if the file is missing   *)
(* or does not parse, and refreshes its tokens when the platform answers   *)
(* 401.  The file is replaced by writing a temporary one, which all        *)
(* clients share, and renaming it; both are jobs of another thread, which  *)
(* go on when the future waiting for them is dropped (X; TikTok's block    *)
(* the thread they are called on).  Each client has a mutex of its own.    *)
(*                                                                         *)
(* The platform is external.  It numbers what it gives out: access token   *)
(* and refresh token n come from its n-th answer.                          *)
(***************************************************************************)
EXTENDS Naturals, FiniteSets

CONSTANTS
    Clients,      \* XPlatform or TikTokPlatform objects at a time
    Empty,        \* content of a file that has been truncated
    Torn,         \* content of a file two have written to
    Missing,      \* there is no file
    MaxIssued,    \* bound: answers of the platform that carry tokens
    MaxMishaps    \* bound: lost answers, failed writes, dropped futures, restarts

ASSUME ClientsAssumption == Clients # {}
ASSUME BoundAssumption == MaxIssued \in Nat \ {0} /\ MaxMishaps \in Nat

NoToken == 0
Tokens == NoToken .. MaxIssued
Pairs == [access : Tokens, refresh : Tokens]

ASSUME FileAssumption ==
    /\ Empty # Torn /\ Missing \notin {Empty, Torn}
    /\ Pairs \cap {Empty, Torn, Missing} = {}

VARIABLES
    rotating,    \* the platform gives a new refresh token and forgets the old one
    issued,      \* how many answers it has given
    valid,       \* access tokens it accepts
    live,        \* refresh tokens it honours
    configured,  \* the tokens in the config
    store,       \* the token file
    tmp,         \* the temporary file
    client,      \* per client: where it is, its tokens, the file it has open
    left,        \* jobs at the files that nobody waits for any more, as the clients that left them were
    mishaps,     \* how many there have been
    overlapped,  \* history: two clients refreshed at the same time
    crossed,     \* history: a client came to the files while a job was left at them
    clean        \* history: no refreshed tokens were lost on the way to the file

platform == <<rotating, issued, valid, live>>
files == <<store, tmp>>
history == <<overlapped, crossed, clean>>
vars == <<platform, configured, files, client, left, mishaps, history>>

NoClient == [pc |-> "off", tokens |-> [access |-> NoToken, refresh |-> NoToken], writes |-> "none"]

Init ==
    /\ rotating \in BOOLEAN
    /\ issued = 1
    /\ valid = {1} /\ live = {1}
    /\ configured \in {[access |-> 1, refresh |-> 1], [access |-> 1, refresh |-> NoToken]}
    /\ store = Missing
    /\ tmp = Missing
    /\ client = [c \in Clients |-> NoClient]
    /\ left = {}
    /\ mishaps = 0
    /\ overlapped = FALSE
    /\ crossed = FALSE
    /\ clean = TRUE

Mishap ==
    /\ mishaps < MaxMishaps
    /\ mishaps' = mishaps + 1

Goes(c, pc) == client' = [client EXCEPT ![c].pc = pc]
At(c, pc) == client[c].pc = pc

\* What a client that is built now starts from.
Loaded == IF store \in Pairs THEN store ELSE configured

Refreshing(c) == client[c].pc \in {"refresh", "open", "write", "rename"}
\* It has tokens the file lacks.
Owing(c) == client[c].pc \in {"open", "write", "rename"}

(***************************************************************************)
(* The platform.                                                           *)
(***************************************************************************)
Expire ==
    /\ \E a \in valid : valid' = valid \ {a}
    /\ UNCHANGED <<rotating, issued, live, configured, files, client, left, mishaps, history>>

\* A refresh with token r is granted with number issued + 1.
Grant(r) ==
    /\ r \in live
    /\ issued < MaxIssued
    /\ issued' = issued + 1
    /\ valid' = valid \cup {issued'}
    /\ live' = IF rotating THEN (live \ {r}) \cup {issued'} ELSE live
    /\ UNCHANGED rotating

(***************************************************************************)
(* The files.  w is a client, or a job that one has left.                  *)
(***************************************************************************)
\* What may be in a file that held f after w has written to it: two that have it
\* open write over each other, and the longer one shows.
Filling(f, w) == IF f = Empty THEN {w.tokens} ELSE {w.tokens, Torn}

\* What w has open gets its tokens: in the meantime another may have moved the
\* temporary file into place, or replaced it there.
Filled(w) ==
    /\ tmp' \in IF w.writes = "tmp" THEN Filling(tmp, w) ELSE {tmp}
    /\ store' \in IF w.writes = "store" THEN Filling(store, w) ELSE {store}

\* The temporary file is renamed, if it is there.
Replaced ==
    /\ store' = IF tmp = Missing THEN store ELSE tmp
    /\ tmp' = Missing

\* The files others have open move with it.
Moved(w) ==
    IF tmp = Missing \/ w.writes = "none" THEN w
    ELSE [w EXCEPT !.writes = IF @ = "tmp" THEN "store" ELSE "gone"]

(***************************************************************************)
(* A client.                                                               *)
(***************************************************************************)
\* A bug to compare with: whatever the file holds is used.
BuildUnparsed(c) ==
    /\ At(c, "off")
    /\ client' = [client EXCEPT ![c].pc = "idle", ![c].tokens = IF store = Missing THEN configured ELSE store]
    /\ UNCHANGED <<platform, configured, files, left, mishaps, history>>

Build(c) ==
    /\ At(c, "off")
    /\ client' = [client EXCEPT ![c].pc = "idle", ![c].tokens = Loaded]
    /\ UNCHANGED <<platform, configured, files, left, mishaps, history>>

\* 401, and there is a refresh token.  A post the platform takes changes nothing
\* here, and one that it refuses for good neither.
Unauthorized(c) ==
    /\ At(c, "idle")
    /\ client[c].tokens.access \notin valid
    /\ client[c].tokens.refresh # NoToken
    /\ Goes(c, "refresh")
    /\ overlapped' = (overlapped \/ \E d \in Clients \ {c} : Refreshing(d))
    /\ UNCHANGED <<platform, configured, files, left, mishaps, crossed, clean>>

\* A bug to compare with: the refresh token of the answer is not kept.
RefreshKeepsOld(c) ==
    /\ At(c, "refresh")
    /\ Grant(client[c].tokens.refresh)
    /\ client' = [client EXCEPT ![c].pc = "open", ![c].tokens.access = issued']
    /\ crossed' = (crossed \/ left # {})
    /\ UNCHANGED <<configured, files, left, mishaps, overlapped, clean>>

\* The answer has arrived and its tokens are in memory; without a refresh token
\* in it the old one stays.  What is next are the files.
Refresh(c) ==
    /\ At(c, "refresh")
    /\ Grant(client[c].tokens.refresh)
    /\ client' = [client EXCEPT ![c].pc = "open", ![c].tokens.access = issued',
                                ![c].tokens.refresh = IF rotating THEN issued' ELSE @]
    /\ crossed' = (crossed \/ left # {})
    /\ UNCHANGED <<configured, files, left, mishaps, overlapped, clean>>

\* The platform granted the refresh, and nobody was there for the answer.
RefreshUnanswered(c) ==
    /\ At(c, "refresh")
    /\ Grant(client[c].tokens.refresh)
    /\ Goes(c, "idle")
    /\ Mishap
    /\ clean' = FALSE
    /\ UNCHANGED <<configured, files, left, overlapped, crossed>>

\* A bug to compare with: a refusal is taken for an answer without tokens.
RefusalIsKept(c) ==
    /\ At(c, "refresh")
    /\ client[c].tokens.refresh \notin live
    /\ Goes(c, "open")
    /\ UNCHANGED <<platform, configured, files, left, mishaps, history>>

\* Another client has used the refresh token: the post fails.
RefreshRefused(c) ==
    /\ At(c, "refresh")
    /\ client[c].tokens.refresh \notin live
    /\ Goes(c, "idle")
    /\ UNCHANGED <<platform, configured, files, left, mishaps, history>>

\* A bug to compare with: the file is truncated and written in place.
WriteInPlace(c) ==
    /\ At(c, "open")
    /\ store' = Empty
    /\ client' = [client EXCEPT ![c].pc = "write", ![c].writes = "store"]
    /\ UNCHANGED <<platform, configured, tmp, left, mishaps, history>>

\* persist_tokens: the temporary file is opened and truncated, ...
OpenTmp(c) ==
    /\ At(c, "open")
    /\ tmp' = Empty
    /\ client' = [client EXCEPT ![c].pc = "write", ![c].writes = "tmp"]
    /\ UNCHANGED <<platform, configured, store, left, mishaps, history>>

\* ... written, ...
WriteTmp(c) ==
    /\ At(c, "write")
    /\ Filled(client[c])
    /\ client' = [client EXCEPT ![c].pc = "rename", ![c].writes = "none"]
    /\ UNCHANGED <<platform, configured, left, mishaps, history>>

\* ... and renamed.  If it is gone, that is a warning.
Rename(c) ==
    /\ At(c, "rename")
    /\ Replaced
    /\ client' = [d \in Clients |-> IF d = c THEN [client[c] EXCEPT !.pc = "idle"] ELSE Moved(client[d])]
    /\ left' = {Moved(j) : j \in left}
    /\ UNCHANGED <<platform, configured, mishaps, history>>

\* The disk is full, say: the new tokens are in memory only, and what was truncated
\* stays so.
PersistFails(c) ==
    /\ Owing(c)
    /\ client' = [client EXCEPT ![c].pc = "idle", ![c].writes = "none"]
    /\ Mishap
    /\ clean' = FALSE
    /\ UNCHANGED <<platform, configured, files, left, overlapped, crossed>>

(***************************************************************************)
(* The future that posts is dropped: its loop ran out of time and keeps    *)
(* the client, or its request or its loop is gone and so is the client.    *)
(* The write or the rename it waits for is another thread's and is left to *)
(* it, unless it had not been handed over.                                 *)
(***************************************************************************)
Drop(c, pc) ==
    /\ Refreshing(c)
    /\ \/ Owing(c) /\ left' = left \cup {client[c]}
       \/ ~At(c, "write") /\ UNCHANGED left
    /\ client' = [client EXCEPT ![c] = IF pc = "off" THEN NoClient
                                       ELSE [@ EXCEPT !.pc = "idle", !.writes = "none"]]
    /\ Mishap
    /\ clean' = (clean /\ ~Owing(c))
    /\ UNCHANGED <<platform, configured, files, overlapped, crossed>>

\* Between two posts a client may go with its loop or its request.
Discard(c) ==
    /\ At(c, "idle")
    /\ client' = [client EXCEPT ![c] = NoClient]
    /\ UNCHANGED <<platform, configured, files, left, mishaps, history>>

(***************************************************************************)
(* A job that was left.  Nobody renames what it writes.                    *)
(***************************************************************************)
LeftOpens(j) ==
    /\ j.pc = "open"
    /\ tmp' = Empty
    /\ left' = (left \ {j}) \cup {[j EXCEPT !.pc = "write", !.writes = "tmp"]}
    /\ UNCHANGED <<platform, configured, store, client, mishaps, history>>

LeftWrites(j) ==
    /\ j.pc = "write"
    /\ Filled(j)
    /\ left' = left \ {j}
    /\ UNCHANGED <<platform, configured, client, mishaps, history>>

LeftRenames(j) ==
    /\ j.pc = "rename"
    /\ Replaced
    /\ left' = {Moved(i) : i \in left \ {j}}
    /\ client' = [c \in Clients |-> Moved(client[c])]
    /\ UNCHANGED <<platform, configured, mishaps, history>>

(***************************************************************************)
(* The daemon.                                                             *)
(***************************************************************************)
\* It is killed, or stops, and is started again, wherever its clients and its
\* threads are.
Restart ==
    /\ client' = [c \in Clients |-> NoClient]
    /\ left' = {}
    /\ Mishap
    /\ clean' = (clean /\ \A c \in Clients : ~Owing(c))
    /\ UNCHANGED <<platform, configured, files, overlapped, crossed>>

\* scripts/set-x-credentials.nu: the operator authorizes the app again, puts the
\* tokens into the config and restarts the daemon.
Reauthorize ==
    /\ issued < MaxIssued
    /\ issued' = issued + 1
    /\ valid' = valid \cup {issued'}
    /\ live' = live \cup {issued'}
    /\ configured' = [access |-> issued', refresh |-> issued']
    /\ client' = [c \in Clients |-> NoClient]
    /\ left' = {}
    /\ Mishap
    /\ clean' = (clean /\ \A c \in Clients : ~Owing(c))
    /\ UNCHANGED <<rotating, files, overlapped, crossed>>

Step(c) ==
    \/ Build(c) \/ Unauthorized(c)
    \/ Refresh(c) \/ RefreshUnanswered(c) \/ RefreshRefused(c)
    \/ OpenTmp(c) \/ WriteTmp(c) \/ Rename(c) \/ PersistFails(c)
    \/ Drop(c, "idle") \/ Drop(c, "off") \/ Discard(c)

GoesOn(j) == LeftOpens(j) \/ LeftWrites(j) \/ LeftRenames(j)

Next ==
    \/ Expire \/ Restart \/ Reauthorize
    \/ \E c \in Clients : Step(c)
    \/ \E j \in left : GoesOn(j)

Spec == Init /\ [][Next]_vars

(***************************************************************************)
(* Properties.                                                             *)
(***************************************************************************)

\* Types, and what they exclude: a client that took a broken file for tokens.
TypeOK ==
    /\ rotating \in BOOLEAN
    /\ issued \in 1 .. MaxIssued
    /\ valid \subseteq 1 .. issued /\ live \subseteq 1 .. issued
    /\ configured \in Pairs
    /\ store \in Pairs \cup {Empty, Torn, Missing} /\ tmp \in Pairs \cup {Empty, Torn, Missing}
    /\ client \in [Clients ->
            [pc : {"off", "idle", "refresh", "open", "write", "rename"}, tokens : Pairs,
             writes : {"none", "tmp", "store", "gone"}]]
    /\ left \subseteq [pc : {"open", "write", "rename"}, tokens : Pairs,
                      writes : {"none", "tmp", "store", "gone"}]
    /\ mishaps \in 0 .. MaxMishaps
    /\ overlapped \in BOOLEAN /\ crossed \in BOOLEAN /\ clean \in BOOLEAN

\* The platform forgets a refresh token once it has been used, and several
\* clients have copies of it.  The daemon is not locked out all the same: what a
\* client that is built now loads is honoured, or one is about to put tokens that
\* are into the file, unless refreshed tokens were lost on the way there.
TokensSurvive ==
    clean =>
        \/ Loaded.refresh \in live \cup {NoToken}
        \/ \E c \in Clients : Owing(c) /\ client[c].tokens.refresh \in live

\* Clients may be at the files one after the other: the platform refuses all but
\* one of those that refresh at the same time, or there were no such, and what one
\* had left to a thread was done when the next one came.
InTurn == (rotating \/ ~overlapped) /\ ~crossed

\* Wherever the daemon is killed, a future dropped and its write or rename done
\* late, the token file parses as long as clients come to the files in turn.
StoreIsWhole == InTurn => store \notin {Empty, Torn}

\* On the same terms the file never goes back to older tokens: a client that has
\* been overtaken is refused before it can write, and a rename that was left
\* moves no others' tokens.
NeverOlder ==
    [][ InTurn' /\ {store, store'} \subseteq Pairs =>
            store'.access >= store.access /\ store'.refresh >= store.refresh ]_vars

=============================================================================
