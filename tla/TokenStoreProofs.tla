--------------------------- MODULE TokenStoreProofs ---------------------------
(***************************************************************************)
(* The token file keeps working tokens, parses, and never goes back, for   *)
(* any number of clients, refreshes and mishaps.                           *)
(*                                                                         *)
(* If the platform rotates refresh tokens, all copies that are honoured    *)
(* are copies of one token: who uses it makes the others' worthless, so    *)
(* that at most one client is on its way to the file, and the file is its. *)
(* If it does not, only one client at a time has the temporary file as     *)
(* long as refreshes have not overlapped.  A job that a client has left at *)
(* the files owns them as the client did until the next one comes.         *)
(***************************************************************************)
EXTENDS TokenStore, TLAPS

\* Tokens that were given out.
Given == [access : 0 .. issued, refresh : 0 .. issued]

NothingElse ==
    /\ configured \in Given
    /\ store \in Given \cup {Empty, Torn, Missing} /\ tmp \in Given \cup {Empty, Torn, Missing}
    /\ \A c \in Clients : client[c].tokens \in Given
    /\ \A j \in left : j.tokens \in Given

\* Who leaves a job at the files may have lost tokens.
LossesAreSeen == crossed \/ left # {} => ~clean

OneRefreshes == ~overlapped => \A c, d \in Clients : Refreshing(c) /\ Refreshing(d) => c = d

\* The owner of the temporary file, and what it knows of the file.
FilesAreOwned ==
    InTurn =>
        /\ store \notin {Empty, Torn}
        /\ \A c \in Clients : At(c, "write") => client[c].writes = "tmp" /\ tmp = Empty
        /\ \A c \in Clients : At(c, "rename") => tmp = client[c].tokens

Newer(w) == store \in Pairs => w.tokens.access >= store.access /\ w.tokens.refresh >= store.refresh

OwnersAreNewer == InTurn => \A c \in Clients : Owing(c) => Newer(client[c])

Honoured(c) == client[c].tokens.refresh \in live

OneIsHonoured ==
    rotating /\ ~crossed =>
        /\ \A c, d \in Clients :
            Honoured(c) /\ Honoured(d) => client[c].tokens.refresh = client[d].tokens.refresh
        /\ \A c \in Clients :
            Honoured(c) /\ Loaded.refresh \in live => client[c].tokens.refresh = Loaded.refresh
        /\ \A c \in Clients : Owing(c) =>
            Honoured(c) /\ Loaded.refresh \notin live /\ \A d \in Clients \ {c} : ~Honoured(d)

AllAreHonoured ==
    ~rotating =>
        /\ configured.refresh \in live \cup {NoToken}
        /\ store \in Pairs => store.refresh \in live \cup {NoToken}
        /\ tmp \in Pairs => tmp.refresh \in live \cup {NoToken}
        /\ \A c \in Clients : client[c].tokens.refresh \in live \cup {NoToken}
        /\ \A j \in left : j.tokens.refresh \in live \cup {NoToken}

\* Without rotation and overlap everybody has the refresh token of the file.
SameAsFile ==
    ~rotating /\ InTurn =>
        \A c \in Clients : ~At(c, "off") => client[c].tokens.refresh = Loaded.refresh

\* A job that was left owns the files as its client did, ...
JobOwns(j) ==
    /\ j.pc = "write" => j.writes = "tmp" /\ tmp = Empty
    /\ j.pc = "rename" => tmp = j.tokens
    /\ Newer(j)

\* ... and nobody has a token that would be another one and honoured.
JobIsHonoured(j) ==
    /\ rotating /\ j.tokens.refresh \in live =>
        /\ Loaded.refresh \notin live
        /\ \A c \in Clients : Honoured(c) => client[c].tokens.refresh = j.tokens.refresh
    /\ ~rotating => j.tokens.refresh = Loaded.refresh

LeftInTurn ==
    InTurn =>
        /\ left # {} => \A c \in Clients : ~Owing(c)
        /\ \A i, j \in left : i = j
        /\ \A j \in left : JobOwns(j) /\ JobIsHonoured(j)

IInv ==
    /\ TypeOK
    /\ NothingElse
    /\ LossesAreSeen
    /\ OneRefreshes
    /\ FilesAreOwned
    /\ OwnersAreNewer
    /\ OneIsHonoured
    /\ AllAreHonoured
    /\ SameAsFile
    /\ LeftInTurn
    /\ TokensSurvive

ClientStates == [pc : {"off", "idle", "refresh", "open", "write", "rename"}, tokens : Pairs,
                 writes : {"none", "tmp", "store", "gone"}]
JobStates == [pc : {"open", "write", "rename"}, tokens : Pairs, writes : {"none", "tmp", "store", "gone"}]
Files == Pairs \cup {Empty, Torn, Missing}

\* What TypeOK and NothingElse say of tokens.
LEMMA TokensAreNumbers ==
    ASSUME TypeOK, NothingElse
    PROVE  /\ issued \in Nat /\ issued >= 1 /\ issued <= MaxIssued /\ MaxIssued \in Nat
           /\ Given \subseteq Pairs
           /\ live \subseteq 1 .. issued /\ NoToken \notin live
           /\ Loaded \in Given /\ (store \in Pairs => store \in Given)
           /\ client \in [Clients -> ClientStates]
           /\ \A c \in Clients : client[c] \in ClientStates /\ client[c].tokens \in Given
           /\ \A j \in left : j \in JobStates /\ j.tokens \in Given
<1>1. issued \in Nat /\ issued >= 1 /\ issued <= MaxIssued /\ MaxIssued \in Nat
  BY BoundAssumption DEF TypeOK
<1>2. Given \subseteq Pairs
  BY <1>1 DEF Given, Pairs, Tokens, NoToken
<1>3. store \in Pairs => store \in Given
  BY FileAssumption DEF NothingElse
<1>4. Loaded \in Given
  BY <1>3 DEF NothingElse, Loaded
<1>5. live \subseteq 1 .. issued /\ NoToken \notin live
  BY <1>1 DEF TypeOK, NoToken
<1>6. /\ client \in [Clients -> ClientStates]
      /\ \A c \in Clients : client[c] \in ClientStates /\ client[c].tokens \in Given
      /\ \A j \in left : j \in JobStates /\ j.tokens \in Given
  BY DEF TypeOK, NothingElse, ClientStates, JobStates
<1> QED
  BY <1>1, <1>2, <1>3, <1>4, <1>5, <1>6

\* Without the fear of being overtaken there is one owner of the temporary file.
LEMMA OneOwes ==
    ASSUME OneRefreshes, OneIsHonoured, InTurn, NEW c \in Clients, NEW d \in Clients, Owing(c), Owing(d)
    PROVE  c = d
BY DEF OneRefreshes, OneIsHonoured, InTurn, Owing, Refreshing, Honoured

\* Nobody has a client that is built now start from tokens that are refused, if
\* the platform does not rotate them.
LEMMA LoadedIsHonoured ==
    ASSUME AllAreHonoured, ~rotating
    PROVE  Loaded.refresh \in live \cup {NoToken}
BY DEF Loaded, AllAreHonoured

\* TokensSurvive is for the platform that rotates, and for when nobody owes.
LEMMA Survival ==
    /\ LossesAreSeen /\ OneIsHonoured /\ AllAreHonoured
    /\ rotating /\ clean /\ (\A c \in Clients : ~Owing(c)) => Loaded.refresh \in live \cup {NoToken}
    => TokensSurvive
<1> SUFFICES ASSUME LossesAreSeen, OneIsHonoured, AllAreHonoured,
                    rotating /\ clean /\ (\A c \in Clients : ~Owing(c)) => Loaded.refresh \in live \cup {NoToken}
             PROVE  TokensSurvive
  OBVIOUS
<1>1. CASE ~rotating
  BY <1>1, LoadedIsHonoured DEF TokensSurvive
<1>2. CASE rotating
  BY <1>2 DEF TokensSurvive, OneIsHonoured, Honoured, LossesAreSeen
<1> QED
  BY <1>1, <1>2

LEMMA SurvivalNext ==
    /\ LossesAreSeen' /\ OneIsHonoured' /\ AllAreHonoured'
    /\ rotating' /\ clean' /\ (\A c \in Clients : ~Owing(c)') => Loaded'.refresh \in live' \cup {NoToken}
    => TokensSurvive'
<1> DEFINE Safe ==
        /\ LossesAreSeen /\ OneIsHonoured /\ AllAreHonoured
        /\ rotating /\ clean /\ (\A c \in Clients : ~Owing(c)) => Loaded.refresh \in live \cup {NoToken}
<1>1. Safe => TokensSurvive
  BY Survival
<1> HIDE DEF Safe
<1>2. Safe' => TokensSurvive'
  BY <1>1, PTL
<1> QED
  BY <1>2 DEF Safe

LEMMA InitInv == Init => IInv
<1> SUFFICES ASSUME Init PROVE IInv
  OBVIOUS
<1>1. /\ issued = 1 /\ live = {1} /\ valid = {1} /\ store = Missing /\ tmp = Missing /\ left = {}
      /\ configured.access \in 0 .. 1 /\ configured.refresh \in 0 .. 1
      /\ configured \in [access : 0 .. 1, refresh : 0 .. 1]
      /\ \A c \in Clients : client[c] = NoClient
      /\ client = [c \in Clients |-> NoClient]
      /\ mishaps = 0 /\ MaxIssued \in Nat /\ MaxIssued >= 1 /\ MaxMishaps \in Nat
  BY BoundAssumption DEF Init, NoToken
<1>2. rotating \in BOOLEAN /\ overlapped \in BOOLEAN /\ crossed \in BOOLEAN /\ clean \in BOOLEAN /\ ~crossed
  BY Zenon DEF Init
<1>3. NoClient \in ClientStates /\ NoClient.tokens = [access |-> 0, refresh |-> 0] /\ NoClient.pc = "off"
  BY <1>1 DEF NoClient, ClientStates, Pairs, Tokens, NoToken
<1>4. TypeOK
  <2>1. configured \in Pairs
    BY <1>1 DEF Pairs, Tokens, NoToken
  <2>2. client \in [Clients -> ClientStates]
    BY <1>1, <1>3
  <2> QED
    BY <1>1, <1>2, <2>1, <2>2 DEF TypeOK, ClientStates
<1>5. NothingElse
  BY <1>1, <1>3 DEF NothingElse, Given
<1>6. \A c \in Clients : ~Owing(c) /\ ~Refreshing(c) /\ At(c, "off") /\ ~Honoured(c)
  BY <1>1, <1>3 DEF Owing, Refreshing, At, Honoured
<1>7. OneRefreshes /\ OneIsHonoured /\ SameAsFile
  BY <1>6 DEF OneRefreshes, OneIsHonoured, SameAsFile
<1>8. FilesAreOwned /\ OwnersAreNewer
  BY <1>1, <1>6, FileAssumption DEF FilesAreOwned, OwnersAreNewer, At, Owing
<1>9. configured.refresh \in live \cup {NoToken} /\ Loaded = configured
  BY <1>1, FileAssumption DEF NoToken, Loaded
<1>10. AllAreHonoured
  BY <1>1, <1>3, <1>9, FileAssumption DEF AllAreHonoured, NoToken
<1>11. TokensSurvive
  BY <1>9 DEF TokensSurvive
<1>12. LossesAreSeen /\ LeftInTurn
  BY <1>1, <1>2 DEF LossesAreSeen, LeftInTurn
<1> QED
  BY <1>4, <1>5, <1>7, <1>8, <1>10, <1>11, <1>12 DEF IInv


\* A client goes on, or gives up, without getting new tokens.  What it does to the
\* files is to truncate the temporary one or to write its tokens; what it was at it
\* may leave to a thread.
LEMMA Onwards ==
    ASSUME IInv, TypeOK', OneRefreshes', NEW c \in Clients,
           UNCHANGED <<rotating, issued, live, configured, crossed>>, overlapped => overlapped',
           \A d \in Clients \ {c} : client'[d] = client[d],
           (client'[c].tokens = client[c].tokens /\ ~At(c, "off")) \/ client'[c] = NoClient,
           client'[c].pc \in {"open", "write", "rename"} => Owing(c),
           clean' => clean /\ (Owing(c) => client'[c].pc \in {"open", "write", "rename"}),
           left' = left \/ (left' = left \cup {client[c]} /\ tmp' = tmp /\ Owing(c)
                            /\ client'[c].pc \notin {"open", "write", "rename"}),
           tmp' \in {tmp, Empty, Torn, client[c].tokens}, store' \in {store, Torn, client[c].tokens},
           tmp' # tmp => Owing(c),
           InTurn => store' = store,
           InTurn /\ client'[c].pc = "write" => client'[c].writes = "tmp" /\ tmp' = Empty,
           InTurn /\ client'[c].pc = "rename" => tmp' = client[c].tokens
    PROVE  IInv'
<1>1. /\ TypeOK /\ NothingElse /\ LossesAreSeen /\ OneRefreshes /\ FilesAreOwned /\ OwnersAreNewer
      /\ OneIsHonoured /\ AllAreHonoured /\ SameAsFile /\ LeftInTurn /\ TokensSurvive
  BY DEF IInv
<1>2. InTurn' => InTurn
  BY DEF InTurn
<1>3. /\ issued \in Nat /\ Given \subseteq Pairs /\ NoToken \notin live
      /\ \A d \in Clients : client[d] \in ClientStates /\ client[d].tokens \in Given /\ client'[d] \in ClientStates
  BY <1>1, TokensAreNumbers DEF TypeOK, ClientStates
<1>4. NoClient.tokens \in Given /\ NoClient.tokens.refresh = NoToken /\ NoClient.pc = "off"
  BY <1>3 DEF NoClient, Given, NoToken
<1>5. InTurn => Loaded' = Loaded
  BY DEF Loaded
<1>6. \A d \in Clients :
        /\ client'[d].tokens.refresh = client[d].tokens.refresh \/ client'[d].tokens.refresh = NoToken
        /\ client'[d].tokens \in Given
        /\ Owing(d)' => Owing(d) /\ client'[d].tokens = client[d].tokens
        /\ ~At(d, "off")' => ~At(d, "off") /\ client'[d].tokens = client[d].tokens
        /\ Honoured(d)' => Honoured(d) /\ client'[d].tokens.refresh = client[d].tokens.refresh
  BY <1>3, <1>4 DEF Owing, At, Honoured
<1>7. NothingElse'
  <2>1. Given' = Given
    BY DEF Given
  <2>2. \A j \in left' : j.tokens \in Given
    BY <1>1, <1>3 DEF NothingElse
  <2> QED
    BY <1>1, <1>3, <1>6, <2>1, <2>2 DEF NothingElse
<1>8. LossesAreSeen'
  BY <1>1 DEF LossesAreSeen
<1>9. FilesAreOwned'
  <2> SUFFICES ASSUME InTurn'
               PROVE  /\ store' \notin {Empty, Torn}
                      /\ \A d \in Clients : At(d, "write")' => client'[d].writes = "tmp" /\ tmp' = Empty
                      /\ \A d \in Clients : At(d, "rename")' => tmp' = client'[d].tokens
    BY DEF FilesAreOwned
  <2>1. \A d \in Clients \ {c} : Owing(d) => tmp' = tmp
    BY <1>1, <1>2, OneOwes
  <2>2. ASSUME NEW d \in Clients \ {c}
        PROVE  /\ At(d, "write")' => client'[d].writes = "tmp" /\ tmp' = Empty
               /\ At(d, "rename")' => tmp' = client'[d].tokens
    BY <1>1, <1>2, <2>1 DEF FilesAreOwned, At, Owing
  <2>3. /\ At(c, "write")' => client'[c].writes = "tmp" /\ tmp' = Empty
        /\ At(c, "rename")' => tmp' = client'[c].tokens
    BY <1>2, <1>4 DEF At
  <2>4. store' \notin {Empty, Torn}
    BY <1>1, <1>2 DEF FilesAreOwned
  <2> QED
    BY <2>2, <2>3, <2>4
<1>10. OwnersAreNewer'
  BY <1>1, <1>2, <1>6 DEF OwnersAreNewer, Newer
<1>11. OneIsHonoured'
  <2> SUFFICES ASSUME rotating, ~crossed PROVE OneIsHonoured'
    BY DEF OneIsHonoured
  <2>1. Loaded' = Loaded /\ live' = live
    BY <1>5 DEF InTurn
  <2>2. \A d \in Clients : Owing(d)' => Honoured(d)'
    BY <1>1, <1>6, <2>1 DEF OneIsHonoured, Honoured
  <2>3. \A d, e \in Clients : Honoured(d)' /\ Honoured(e)' => client'[d].tokens.refresh = client'[e].tokens.refresh
    BY <1>1, <1>6 DEF OneIsHonoured
  <2>4. \A d \in Clients : Honoured(d)' /\ Loaded.refresh \in live => client'[d].tokens.refresh = Loaded.refresh
    BY <1>1, <1>6 DEF OneIsHonoured
  <2>5. \A d \in Clients : Owing(d)' => Loaded.refresh \notin live /\ \A e \in Clients \ {d} : ~Honoured(e)'
    BY <1>1, <1>6 DEF OneIsHonoured
  <2> QED
    BY <2>1, <2>2, <2>3, <2>4, <2>5 DEF OneIsHonoured
<1>12. AllAreHonoured'
  <2> SUFFICES ASSUME ~rotating PROVE AllAreHonoured'
    BY DEF AllAreHonoured
  <2>1. \A d \in Clients : client'[d].tokens.refresh \in live \cup {NoToken}
    BY <1>1, <1>6 DEF AllAreHonoured
  <2>2. /\ store' \in Pairs => store'.refresh \in live \cup {NoToken}
        /\ tmp' \in Pairs => tmp'.refresh \in live \cup {NoToken}
    BY <1>1, FileAssumption DEF AllAreHonoured
  <2>3. \A j \in left' : j.tokens.refresh \in live \cup {NoToken}
    BY <1>1 DEF AllAreHonoured
  <2> QED
    BY <1>1, <2>1, <2>2, <2>3 DEF AllAreHonoured
<1>13. SameAsFile'
  BY <1>1, <1>2, <1>5, <1>6 DEF SameAsFile
<1>14. LeftInTurn'
  <2> SUFFICES ASSUME InTurn'
               PROVE  /\ left' # {} => \A d \in Clients : ~Owing(d)'
                      /\ \A i, j \in left' : i = j
                      /\ \A j \in left' : JobOwns(j)' /\ JobIsHonoured(j)'
    BY DEF LeftInTurn
  <2>1. InTurn /\ store' = store /\ Loaded' = Loaded /\ live' = live
    BY <1>2, <1>5
  <2>2. CASE left' = left
    <3>1. left # {} => tmp' = tmp /\ \A d \in Clients : ~Owing(d)
      BY <1>1, <2>1 DEF LeftInTurn
    <3>2. \A j \in left : JobOwns(j) /\ JobIsHonoured(j)
      BY <1>1, <2>1 DEF LeftInTurn
    <3>3. \A j \in left : JobOwns(j)'
      BY <2>1, <3>1, <3>2 DEF JobOwns, Newer
    <3>4. \A j \in left : JobIsHonoured(j)'
      BY <1>6, <2>1, <3>2 DEF JobIsHonoured
    <3> QED
      BY <1>1, <1>6, <2>1, <2>2, <3>1, <3>3, <3>4 DEF LeftInTurn
  <2>3. CASE left' # left
    <3>1. /\ left' = left \cup {client[c]} /\ tmp' = tmp /\ Owing(c)
          /\ client'[c].pc \notin {"open", "write", "rename"}
      BY <2>3
    <3>2. PICK j : j = client[c] /\ left' = {j}
      BY <1>1, <2>1, <3>1 DEF LeftInTurn
    <3>3. \A d \in Clients : ~Owing(d)'
      BY <1>1, <1>6, <2>1, <3>1, OneOwes DEF Owing
    <3>4. JobOwns(j)'
      BY <1>1, <2>1, <3>1, <3>2 DEF FilesAreOwned, OwnersAreNewer, Newer, JobOwns, At
    <3>5. JobIsHonoured(j)'
      <4>1. ASSUME rotating
            PROVE  /\ Loaded.refresh \notin live
                   /\ \A d \in Clients : Honoured(d)' => client'[d].tokens.refresh = j.tokens.refresh
        BY <1>1, <1>6, <2>1, <3>1, <3>2, <4>1 DEF OneIsHonoured, InTurn
      <4>2. ASSUME ~rotating PROVE j.tokens.refresh = Loaded.refresh
        BY <1>1, <2>1, <3>1, <3>2, <4>2 DEF SameAsFile, Owing, At
      <4> QED
        BY <2>1, <4>1, <4>2 DEF JobIsHonoured
    <3> QED
      BY <3>2, <3>3, <3>4, <3>5
  <2> QED
    BY <2>2, <2>3
<1>15. TokensSurvive'
  <2> SUFFICES ASSUME rotating, clean', \A d \in Clients : ~Owing(d)'
               PROVE  Loaded'.refresh \in live' \cup {NoToken}
    BY <1>8, <1>11, <1>12, SurvivalNext
  <2>1. InTurn
    BY <1>1 DEF LossesAreSeen, InTurn
  <2>2. \A d \in Clients : ~Owing(d)
    BY DEF Owing
  <2> QED
    BY <1>1, <1>5, <2>1, <2>2 DEF TokensSurvive
<1> QED
  BY <1>7, <1>8, <1>9, <1>10, <1>11, <1>12, <1>13, <1>14, <1>15 DEF IInv


\* A step that replaces the state of one client.
LEMMA OneMoves ==
    ASSUME TypeOK, NEW c \in Clients, NEW x, client' = [client EXCEPT ![c] = x]
    PROVE  /\ client'[c] = x
           /\ \A d \in Clients \ {c} : client'[d] = client[d]
           /\ x \in ClientStates => client' \in [Clients -> ClientStates]
BY DEF TypeOK, ClientStates

\* Types of a step that leaves the platform and the config alone.
LEMMA TypesKept ==
    ASSUME TypeOK, UNCHANGED <<rotating, issued, live, configured>>, valid' \subseteq valid,
           client' \in [Clients -> ClientStates], left' \subseteq JobStates,
           store' \in Files, tmp' \in Files, mishaps' \in 0 .. MaxMishaps,
           overlapped' \in BOOLEAN, crossed' \in BOOLEAN, clean' \in BOOLEAN
    PROVE  TypeOK'
BY DEF TypeOK, ClientStates, JobStates, Files

\* A mishap is within its bound.
LEMMA MishapsAreBounded ==
    ASSUME TypeOK, Mishap
    PROVE  mishaps' \in 0 .. MaxMishaps
BY BoundAssumption DEF TypeOK, Mishap

LEMMA UnauthorizedInv ==
    ASSUME IInv, NEW c \in Clients, Unauthorized(c)
    PROVE  IInv'
<1>1. TypeOK /\ NothingElse /\ OneRefreshes /\ client[c] \in ClientStates /\ left \subseteq JobStates
  BY TokensAreNumbers DEF IInv
<1>2. /\ client' = [client EXCEPT ![c] = [client[c] EXCEPT !.pc = "refresh"]]
      /\ UNCHANGED <<rotating, issued, valid, live, configured, store, tmp, left, mishaps, crossed, clean>>
      /\ overlapped' = (overlapped \/ \E d \in Clients \ {c} : Refreshing(d))
      /\ client[c].pc = "idle"
  BY <1>1 DEF Unauthorized, Goes, At, platform, files, TypeOK
<1>3. /\ client'[c] = [client[c] EXCEPT !.pc = "refresh"]
      /\ \A d \in Clients \ {c} : client'[d] = client[d]
      /\ client' \in [Clients -> ClientStates]
  BY <1>1, <1>2, OneMoves DEF ClientStates
<1>4. client'[c].pc = "refresh" /\ client'[c].tokens = client[c].tokens
  BY <1>1, <1>3 DEF ClientStates
<1>5. overlapped' \in BOOLEAN /\ crossed' \in BOOLEAN /\ clean' \in BOOLEAN
  BY <1>1, <1>2, Zenon DEF TypeOK
<1>6. TypeOK'
  BY <1>1, <1>2, <1>3, <1>5, TypesKept DEF TypeOK, Files
<1>7. OneRefreshes'
  <2>1. \A d \in Clients \ {c} : Refreshing(d)' <=> Refreshing(d)
    BY <1>3 DEF Refreshing
  <2> QED
    BY <1>1, <1>2, <2>1 DEF OneRefreshes
<1> QED
  BY <1>2, <1>3, <1>4, <1>6, <1>7, Onwards DEF At, Owing

LEMMA OpenInv ==
    ASSUME IInv, NEW c \in Clients, OpenTmp(c)
    PROVE  IInv'
<1>1. TypeOK /\ NothingElse /\ OneRefreshes /\ client[c] \in ClientStates /\ left \subseteq JobStates
  BY TokensAreNumbers DEF IInv
<1>2. /\ client' = [client EXCEPT ![c] = [client[c] EXCEPT !.pc = "write", !.writes = "tmp"]]
      /\ UNCHANGED <<rotating, issued, valid, live, configured, store, left, mishaps, overlapped, crossed, clean>>
      /\ tmp' = Empty /\ client[c].pc = "open"
  BY <1>1 DEF OpenTmp, At, platform, history, TypeOK
<1>3. /\ client'[c] = [client[c] EXCEPT !.pc = "write", !.writes = "tmp"]
      /\ \A d \in Clients \ {c} : client'[d] = client[d]
      /\ client' \in [Clients -> ClientStates]
  BY <1>1, <1>2, OneMoves DEF ClientStates
<1>4. client'[c].pc = "write" /\ client'[c].tokens = client[c].tokens /\ client'[c].writes = "tmp"
  BY <1>1, <1>3 DEF ClientStates
<1>5. overlapped' \in BOOLEAN /\ crossed' \in BOOLEAN /\ clean' \in BOOLEAN
  BY <1>1, <1>2, Zenon DEF TypeOK
<1>6. TypeOK'
  BY <1>1, <1>2, <1>3, <1>5, TypesKept DEF TypeOK, Files
<1>7. OneRefreshes'
  BY <1>1, <1>2, <1>3, <1>4 DEF OneRefreshes, Refreshing
<1> QED
  BY <1>2, <1>3, <1>4, <1>6, <1>7, Onwards DEF At, Owing

\* What is in the files once w has written, and what it is if w has the temporary
\* file to itself.
LEMMA WhatIsFilled ==
    ASSUME TypeOK, NEW w, w.tokens \in Pairs, Filled(w)
    PROVE  /\ tmp' \in {tmp, Torn, w.tokens} /\ store' \in {store, Torn, w.tokens}
           /\ tmp' \in Files /\ store' \in Files
           /\ w.writes = "tmp" => store' = store
           /\ w.writes = "tmp" /\ tmp = Empty => tmp' = w.tokens
BY DEF Filled, Filling, TypeOK, Files

LEMMA WriteInv ==
    ASSUME IInv, NEW c \in Clients, WriteTmp(c)
    PROVE  IInv'
<1>1. /\ TypeOK /\ NothingElse /\ OneRefreshes /\ FilesAreOwned
      /\ client[c] \in ClientStates /\ left \subseteq JobStates
  BY TokensAreNumbers DEF IInv
<1>2. /\ client' = [client EXCEPT ![c] = [client[c] EXCEPT !.pc = "rename", !.writes = "none"]]
      /\ UNCHANGED <<rotating, issued, valid, live, configured, left, mishaps, overlapped, crossed, clean>>
      /\ client[c].pc = "write"
  BY <1>1 DEF WriteTmp, At, platform, history, TypeOK
<1>3. /\ tmp' \in {tmp, Torn, client[c].tokens} /\ store' \in {store, Torn, client[c].tokens}
      /\ tmp' \in Files /\ store' \in Files
      /\ client[c].writes = "tmp" => store' = store
      /\ client[c].writes = "tmp" /\ tmp = Empty => tmp' = client[c].tokens
  BY <1>1, WhatIsFilled DEF WriteTmp, ClientStates
<1>4. /\ client'[c] = [client[c] EXCEPT !.pc = "rename", !.writes = "none"]
      /\ \A d \in Clients \ {c} : client'[d] = client[d]
      /\ client' \in [Clients -> ClientStates]
  BY <1>1, <1>2, OneMoves DEF ClientStates
<1>5. client'[c].pc = "rename" /\ client'[c].tokens = client[c].tokens
  BY <1>1, <1>4 DEF ClientStates
<1>6. overlapped' \in BOOLEAN /\ crossed' \in BOOLEAN /\ clean' \in BOOLEAN
  BY <1>1, <1>2, Zenon DEF TypeOK
<1>7. TypeOK'
  BY <1>1, <1>2, <1>3, <1>4, <1>6, TypesKept DEF TypeOK
<1>8. OneRefreshes'
  BY <1>1, <1>2, <1>4, <1>5 DEF OneRefreshes, Refreshing
<1>9. InTurn => client[c].writes = "tmp" /\ tmp = Empty
  BY <1>1, <1>2 DEF FilesAreOwned, At
<1> QED
  BY <1>2, <1>3, <1>4, <1>5, <1>7, <1>8, <1>9, Onwards DEF At, Owing

\* A client stops on its way, or after it, for whatever reason.
LEMMA StopInv ==
    ASSUME IInv, NEW c \in Clients,
           RefreshRefused(c) \/ PersistFails(c) \/ Drop(c, "idle") \/ Drop(c, "off") \/ Discard(c)
    PROVE  IInv'
<1>1. TypeOK /\ NothingElse /\ OneRefreshes /\ client[c] \in ClientStates /\ left \subseteq JobStates
  BY TokensAreNumbers DEF IInv
<1>2. NoClient \in ClientStates /\ NoClient.pc = "off"
  BY BoundAssumption DEF NoClient, ClientStates, Pairs, Tokens, NoToken
<1>3. PICK x \in {[client[c] EXCEPT !.pc = "idle"], [client[c] EXCEPT !.pc = "idle", !.writes = "none"], NoClient} :
        client' = [client EXCEPT ![c] = x]
  <2>1. CASE RefreshRefused(c)
    BY <2>1, <1>1 DEF RefreshRefused, Goes, TypeOK
  <2>2. CASE PersistFails(c)
    BY <2>2, <1>1 DEF PersistFails, TypeOK
  <2>3. CASE Drop(c, "idle")
    BY <2>3 DEF Drop
  <2>4. CASE Drop(c, "off")
    BY <2>4 DEF Drop
  <2>5. CASE Discard(c)
    BY <2>5 DEF Discard
  <2> QED
    BY <2>1, <2>2, <2>3, <2>4, <2>5
<1>4. /\ client'[c] = x
      /\ \A d \in Clients \ {c} : client'[d] = client[d]
      /\ client' \in [Clients -> ClientStates]
  <2>1. [client[c] EXCEPT !.pc = "idle"] \in ClientStates
    BY <1>1 DEF ClientStates
  <2>2. [client[c] EXCEPT !.pc = "idle", !.writes = "none"] \in ClientStates
    BY <1>1 DEF ClientStates
  <2>3. x \in ClientStates
    BY <1>2, <2>1, <2>2
  <2> QED
    BY <1>1, <1>3, <2>3, OneMoves
<1>5. client'[c].pc \in {"idle", "off"} /\ (client'[c].tokens = client[c].tokens \/ client'[c] = NoClient)
  <2>1. CASE x = NoClient
    BY <1>2, <1>4, <2>1
  <2>2. CASE x = [client[c] EXCEPT !.pc = "idle"]
    BY <1>1, <1>4, <2>2 DEF ClientStates
  <2>3. CASE x = [client[c] EXCEPT !.pc = "idle", !.writes = "none"]
    BY <1>1, <1>4, <2>3 DEF ClientStates
  <2> QED
    BY <2>1, <2>2, <2>3
<1>6. ~At(c, "off")
  BY <1>1 DEF RefreshRefused, PersistFails, Drop, Discard, At, Owing, Refreshing
<1>7. /\ UNCHANGED <<rotating, issued, valid, live, configured, store, tmp, overlapped, crossed>>
      /\ clean' => clean /\ ~Owing(c)
  <2>1. UNCHANGED <<rotating, issued, valid, live, configured, store, tmp, overlapped, crossed>>
    BY DEF RefreshRefused, PersistFails, Drop, Discard, platform, files, history
  <2>2. CASE RefreshRefused(c) \/ Discard(c)
    <3>1. clean' = clean
      BY <2>2, Zenon DEF RefreshRefused, Discard, history
    <3>2. ~Owing(c)
      BY <2>2 DEF RefreshRefused, Discard, At, Owing
    <3> QED
      BY <2>1, <3>1, <3>2
  <2>3. CASE PersistFails(c)
    <3>1. ~clean'
      BY <2>3, Zenon DEF PersistFails
    <3> QED
      BY <2>1, <3>1
  <2>4. CASE Drop(c, "idle") \/ Drop(c, "off")
    <3>1. clean' = (clean /\ ~Owing(c))
      BY <2>4, Zenon DEF Drop
    <3> QED
      BY <2>1, <3>1
  <2> QED
    BY <2>1, <2>2, <2>3, <2>4
<1>8. mishaps' \in 0 .. MaxMishaps
  BY <1>1, MishapsAreBounded DEF RefreshRefused, PersistFails, Drop, Discard, TypeOK
<1>9. left' = left \/ (left' = left \cup {client[c]} /\ Owing(c))
  BY DEF RefreshRefused, PersistFails, Drop, Discard
<1>10. left' \subseteq JobStates
  BY <1>1, <1>9 DEF Owing, ClientStates, JobStates
<1>11. overlapped' \in BOOLEAN /\ crossed' \in BOOLEAN
  BY <1>1, <1>7 DEF TypeOK
<1>12. clean' \in BOOLEAN
  BY <1>1, Zenon DEF TypeOK, RefreshRefused, PersistFails, Drop, Discard, history
<1>13. TypeOK'
  BY <1>1, <1>4, <1>7, <1>8, <1>10, <1>11, <1>12, TypesKept DEF TypeOK, Files
<1>14. OneRefreshes'
  BY <1>1, <1>4, <1>5, <1>7 DEF OneRefreshes, Refreshing
<1> QED
  BY <1>4, <1>5, <1>6, <1>7, <1>9, <1>13, <1>14, Onwards


LEMMA BuildInv ==
    ASSUME IInv, NEW c \in Clients, Build(c)
    PROVE  IInv'
<1>1. /\ TypeOK /\ NothingElse /\ LossesAreSeen /\ OneRefreshes /\ FilesAreOwned /\ OwnersAreNewer
      /\ OneIsHonoured /\ AllAreHonoured /\ SameAsFile /\ LeftInTurn /\ TokensSurvive
  BY DEF IInv
<1>2. client[c] \in ClientStates /\ Loaded \in Given /\ Loaded \in Pairs /\ left \subseteq JobStates
  BY <1>1, TokensAreNumbers
<1>3. /\ client' = [client EXCEPT ![c] = [client[c] EXCEPT !.pc = "idle", !.tokens = Loaded]]
      /\ UNCHANGED <<rotating, issued, valid, live, configured, store, tmp, left, mishaps, overlapped, crossed, clean>>
      /\ client[c].pc = "off"
  BY <1>1 DEF Build, At, platform, files, history, TypeOK
<1>4. /\ client'[c] = [client[c] EXCEPT !.pc = "idle", !.tokens = Loaded]
      /\ \A d \in Clients \ {c} : client'[d] = client[d]
      /\ client' \in [Clients -> ClientStates]
  BY <1>1, <1>2, <1>3, OneMoves DEF ClientStates
<1>5. client'[c].pc = "idle" /\ client'[c].tokens = Loaded
  BY <1>2, <1>4 DEF ClientStates
<1>6. overlapped' \in BOOLEAN /\ crossed' \in BOOLEAN /\ clean' \in BOOLEAN
  BY <1>1, <1>3, Zenon DEF TypeOK
<1>7. TypeOK'
  BY <1>1, <1>2, <1>3, <1>4, <1>6, TypesKept DEF TypeOK, Files
<1>8. Loaded' = Loaded /\ Given' = Given /\ InTurn' = InTurn
  BY <1>3 DEF Loaded, Given, InTurn
<1>9. NothingElse' /\ LossesAreSeen'
  BY <1>1, <1>2, <1>3, <1>4, <1>5, <1>8 DEF NothingElse, LossesAreSeen
<1>10. OneRefreshes' /\ FilesAreOwned' /\ OwnersAreNewer'
  BY <1>1, <1>3, <1>4, <1>5, <1>8 DEF OneRefreshes, FilesAreOwned, OwnersAreNewer, Newer, Owing, Refreshing, At
<1>11. OneIsHonoured'
  BY <1>1, <1>3, <1>4, <1>5, <1>8 DEF OneIsHonoured, Honoured, Owing
<1>12. AllAreHonoured'
  BY <1>1, <1>3, <1>4, <1>5, LoadedIsHonoured DEF AllAreHonoured
<1>13. SameAsFile'
  BY <1>1, <1>3, <1>4, <1>5, <1>8 DEF SameAsFile, At
<1>14. LeftInTurn'
  <2> SUFFICES ASSUME InTurn
               PROVE  /\ left # {} => \A d \in Clients : ~Owing(d)'
                      /\ \A i, j \in left : i = j
                      /\ \A j \in left : JobOwns(j)' /\ JobIsHonoured(j)'
    BY <1>3, <1>8 DEF LeftInTurn
  <2>1. left # {} => \A d \in Clients : ~Owing(d)'
    BY <1>1, <1>4, <1>5 DEF LeftInTurn, Owing
  <2>2. \A j \in left : JobOwns(j)'
    BY <1>1, <1>3 DEF LeftInTurn, JobOwns, Newer
  <2>3. \A j \in left : JobIsHonoured(j)'
    BY <1>1, <1>3, <1>4, <1>5, <1>8 DEF LeftInTurn, JobIsHonoured, Honoured
  <2> QED
    BY <1>1, <2>1, <2>2, <2>3 DEF LeftInTurn
<1>15. TokensSurvive'
  <2>1. \A d \in Clients : Owing(d)' <=> Owing(d)
    BY <1>3, <1>4, <1>5 DEF Owing
  <2>2. rotating' /\ clean' /\ (\A d \in Clients : ~Owing(d)') => Loaded'.refresh \in live' \cup {NoToken}
    BY <1>1, <1>3, <1>8, <2>1 DEF TokensSurvive
  <2> QED
    BY <1>9, <1>11, <1>12, <2>2, SurvivalNext
<1> QED
  BY <1>7, <1>9, <1>10, <1>11, <1>12, <1>13, <1>14, <1>15 DEF IInv

\* A platform that rotates gives out tokens nobody has, and nobody's are honoured
\* any more but those.
LEMMA GrantSpends ==
    ASSUME IInv, NEW c \in Clients, At(c, "refresh"), Grant(client[c].tokens.refresh), rotating, ~crossed
    PROVE  /\ \A d \in Clients : client[d].tokens.refresh \notin live'
           /\ \A j \in left : j.tokens.refresh \notin live'
           /\ Loaded.refresh \notin live'
           /\ issued' \in live'
           /\ \A d \in Clients : ~Owing(d)
<1>1. TypeOK /\ NothingElse /\ OneIsHonoured /\ LeftInTurn /\ InTurn
  BY DEF IInv, InTurn
<1>2. issued' = issued + 1 /\ live' = (live \ {client[c].tokens.refresh}) \cup {issued'} /\ Honoured(c)
  BY DEF Grant, Honoured
<1>3. /\ issued \in Nat /\ Loaded.refresh \in 0 .. issued
      /\ \A d \in Clients : client[d].tokens.refresh \in 0 .. issued
      /\ \A j \in left : j.tokens.refresh \in 0 .. issued
  BY <1>1, TokensAreNumbers DEF Given
<1>4. /\ Loaded.refresh # issued' /\ \A d \in Clients : client[d].tokens.refresh # issued'
      /\ \A j \in left : j.tokens.refresh # issued'
  BY <1>2, <1>3
<1>5. \A d \in Clients : Honoured(d) => client[d].tokens.refresh = client[c].tokens.refresh
  BY <1>1, <1>2 DEF OneIsHonoured
<1>6. Loaded.refresh \in live => Loaded.refresh = client[c].tokens.refresh
  BY <1>1, <1>2 DEF OneIsHonoured
<1>7. \A j \in left : j.tokens.refresh \in live => j.tokens.refresh = client[c].tokens.refresh
  BY <1>1, <1>2 DEF LeftInTurn, JobIsHonoured
<1>8. \A d \in Clients : ~Owing(d)
  BY <1>1, <1>2 DEF OneIsHonoured, At, Owing
<1> QED
  BY <1>2, <1>4, <1>5, <1>6, <1>7, <1>8 DEF Honoured


\* Types of a step in which the platform gives out tokens.
LEMMA GrantTypes ==
    ASSUME IInv, NEW r, Grant(r)
    PROVE  /\ issued' = issued + 1 /\ issued' \in 1 .. MaxIssued /\ rotating' = rotating
           /\ valid' \subseteq 1 .. issued' /\ live' \subseteq 1 .. issued'
           /\ ~rotating => live' = live
           /\ Given \subseteq Given' /\ Given' \subseteq Pairs
<1>1. TypeOK /\ issued \in Nat /\ MaxIssued \in Nat
  BY TokensAreNumbers DEF IInv
<1>2. issued' = issued + 1 /\ issued' <= MaxIssued /\ rotating' = rotating /\ valid' = valid \cup {issued'}
      /\ live' = IF rotating THEN (live \ {r}) \cup {issued'} ELSE live
  BY <1>1 DEF Grant
<1>3. \A n \in 1 .. issued : n \in 1 .. issued'
  BY <1>1, <1>2
<1>4. issued' \in 1 .. issued'
  BY <1>1, <1>2
<1>5. valid \subseteq 1 .. issued /\ live \subseteq 1 .. issued
  BY <1>1 DEF TypeOK
<1>6. valid' \subseteq 1 .. issued' /\ live' \subseteq 1 .. issued'
  BY <1>2, <1>3, <1>4, <1>5
<1>7. Given \subseteq Given' /\ Given' \subseteq Pairs
  BY <1>1, <1>2 DEF Given, Pairs, Tokens, NoToken
<1> QED
  BY <1>1, <1>2, <1>4, <1>6, <1>7

\* Tokens both of which are replaced.
LEMMA BothReplaced ==
    ASSUME NEW S, NEW y \in [access : S, refresh : S], NEW a \in S, NEW r \in S
    PROVE  [y EXCEPT !.access = a, !.refresh = r] = [access |-> a, refresh |-> r]
<1> DEFINE z == [y EXCEPT !.access = a, !.refresh = r]
<1>1. z \in [access : S, refresh : S] /\ z.access = a /\ z.refresh = r
  OBVIOUS
<1> HIDE DEF z
<1>2. \A u \in [access : S, refresh : S] : u = [access |-> u.access, refresh |-> u.refresh]
  OBVIOUS
<1>3. z = [access |-> a, refresh |-> r]
  BY <1>1, <1>2
<1> QED
  BY <1>3 DEF z

LEMMA RefreshInv ==
    ASSUME IInv, NEW c \in Clients, Refresh(c)
    PROVE  IInv'
<1>1. /\ TypeOK /\ NothingElse /\ LossesAreSeen /\ OneRefreshes /\ FilesAreOwned /\ OwnersAreNewer
      /\ OneIsHonoured /\ AllAreHonoured /\ SameAsFile /\ LeftInTurn /\ TokensSurvive
  BY DEF IInv
<1>2. /\ client[c] \in ClientStates /\ client[c].tokens \in Given /\ issued \in Nat /\ Loaded \in Given
      /\ store \in Pairs => store \in Given
  BY <1>1, TokensAreNumbers
<1> DEFINE n == issued'
           t == [access |-> n, refresh |-> IF rotating THEN n ELSE client[c].tokens.refresh]
<1>3. /\ issued' = issued + 1 /\ issued' \in 1 .. MaxIssued /\ rotating' = rotating
      /\ valid' \subseteq 1 .. issued' /\ live' \subseteq 1 .. issued'
      /\ ~rotating => live' = live
      /\ Given \subseteq Given' /\ Given' \subseteq Pairs
  BY GrantTypes DEF Refresh
<1>4. t \in Given' /\ t \in Pairs
  BY <1>2, <1>3 DEF Given
<1>5. /\ client' = [client EXCEPT ![c] = [client[c] EXCEPT !.pc = "open", !.tokens = t]]
      /\ UNCHANGED <<configured, store, tmp, left, mishaps, overlapped, clean>>
      /\ crossed' = (crossed \/ left # {})
      /\ client[c].pc = "refresh"
  <2>1. client[c].tokens \in [access : Tokens, refresh : Tokens] /\ n \in Tokens /\ client[c].tokens \in Pairs
    BY <1>2, <1>3 DEF ClientStates, Pairs, Tokens, NoToken
  <2>2. [client[c].tokens EXCEPT !.access = n, !.refresh = IF rotating THEN n ELSE @] = t
    <3> DEFINE x == client[c].tokens
    <3>1. \A y \in [access : Tokens, refresh : Tokens], a, r \in Tokens :
            [y EXCEPT !.access = a, !.refresh = r] = [access |-> a, refresh |-> r]
      BY BothReplaced
    <3>2. CASE rotating
      BY <2>1, <3>1, <3>2
    <3>3. CASE ~rotating
      BY <2>1, <3>1, <3>3
    <3> QED
      BY <3>2, <3>3
  <2>3. /\ client[c].pc = "refresh" /\ UNCHANGED <<configured, store, tmp, left, mishaps, overlapped, clean>>
        /\ crossed' = (crossed \/ left # {})
    BY DEF Refresh, At, files
  <2>4. client' = [client EXCEPT ![c].pc = "open", ![c].tokens.access = n,
                                 ![c].tokens.refresh = IF rotating THEN n ELSE @]
    BY DEF Refresh
  <2>5. client' = [client EXCEPT ![c] =
            [client[c] EXCEPT !.pc = "open",
                              !.tokens = [client[c].tokens EXCEPT !.access = n, !.refresh = IF rotating THEN n ELSE @]]]
    <3>1. client \in [Clients -> ClientStates]
      BY <1>1 DEF TypeOK, ClientStates
    <3> HIDE DEF n
    <3> QED
      BY <2>1, <2>4, <3>1, ZenonT(60) DEF ClientStates, Pairs
  <2> QED
    BY <2>2, <2>3, <2>5
<1> HIDE DEF t
<1>6. /\ client'[c] = [client[c] EXCEPT !.pc = "open", !.tokens = t]
      /\ \A d \in Clients \ {c} : client'[d] = client[d]
      /\ client' \in [Clients -> ClientStates]
  BY <1>1, <1>2, <1>4, <1>5, OneMoves DEF ClientStates
<1>7. client'[c].pc = "open" /\ client'[c].tokens = t
  BY <1>2, <1>6 DEF ClientStates
<1>8. /\ t.access = n
      /\ rotating => t.refresh = n
      /\ ~rotating => t.refresh = client[c].tokens.refresh
  BY DEF t
<1>9. overlapped' \in BOOLEAN /\ crossed' \in BOOLEAN /\ clean' \in BOOLEAN
  BY <1>1, <1>5, Zenon DEF TypeOK
<1>10. TypeOK'
  BY <1>1, <1>3, <1>5, <1>6, <1>9 DEF TypeOK, ClientStates
<1>11. Loaded' = Loaded
  BY <1>5 DEF Loaded
<1>12. NothingElse'
  BY <1>1, <1>3, <1>4, <1>5, <1>6, <1>7 DEF NothingElse
<1>13. InTurn' => InTurn /\ left = {}
  BY <1>3, <1>5 DEF InTurn
<1>14. OneRefreshes' /\ FilesAreOwned' /\ LossesAreSeen' /\ LeftInTurn'
  <2>1. OneRefreshes'
    BY <1>1, <1>5, <1>6, <1>7 DEF OneRefreshes, Refreshing
  <2>2. FilesAreOwned'
    BY <1>1, <1>5, <1>6, <1>7, <1>13 DEF FilesAreOwned, At
  <2>3. LossesAreSeen'
    BY <1>1, <1>5 DEF LossesAreSeen
  <2>4. LeftInTurn'
    BY <1>5, <1>13 DEF LeftInTurn
  <2> QED
    BY <2>1, <2>2, <2>3, <2>4
<1>15. OwnersAreNewer'
  <2> SUFFICES ASSUME InTurn', store \in Pairs, NEW d \in Clients, Owing(d)'
               PROVE  client'[d].tokens.access >= store.access /\ client'[d].tokens.refresh >= store.refresh
    BY <1>5 DEF OwnersAreNewer, Newer
  <2>1. CASE d # c
    BY <1>1, <1>6, <1>13, <2>1 DEF OwnersAreNewer, Newer, Owing
  <2>2. CASE d = c
    <3>1. store \in Given /\ Loaded = store
      BY <1>2 DEF Loaded
    <3>2. store.access \in 0 .. issued /\ store.refresh \in 0 .. issued
      BY <3>1 DEF Given
    <3>3. ~rotating => client[c].tokens.refresh = store.refresh
      BY <1>1, <1>5, <1>13, <3>1 DEF SameAsFile, At
    <3>4. t.access >= store.access /\ t.refresh >= store.refresh
      BY <1>2, <1>3, <1>8, <3>2, <3>3
    <3> QED
      BY <1>7, <2>2, <3>4
  <2> QED
    BY <2>1, <2>2
<1>16. OneIsHonoured'
  <2> SUFFICES ASSUME rotating, ~crossed' PROVE OneIsHonoured'
    BY <1>3 DEF OneIsHonoured
  <2>1. /\ \A d \in Clients : client[d].tokens.refresh \notin live'
        /\ Loaded.refresh \notin live' /\ n \in live'
        /\ \A d \in Clients : ~Owing(d)
    BY <1>5, GrantSpends DEF Refresh
  <2>2. Honoured(c)' /\ \A d \in Clients \ {c} : ~Honoured(d)'
    BY <1>6, <1>7, <1>8, <2>1 DEF Honoured
  <2>3. \A d \in Clients \ {c} : ~Owing(d)'
    BY <1>6, <2>1 DEF Owing
  <2> QED
    BY <1>11, <2>1, <2>2, <2>3 DEF OneIsHonoured
<1>17. AllAreHonoured'
  BY <1>1, <1>3, <1>5, <1>6, <1>7, <1>8 DEF AllAreHonoured
<1>18. SameAsFile'
  BY <1>1, <1>3, <1>5, <1>6, <1>7, <1>8, <1>11, <1>13 DEF SameAsFile, At
<1>19. TokensSurvive'
  <2>1. Owing(c)'
    BY <1>7 DEF Owing
  <2> QED
    BY <1>14, <1>16, <1>17, <2>1, SurvivalNext
<1> QED
  BY <1>10, <1>12, <1>14, <1>15, <1>16, <1>17, <1>18, <1>19 DEF IInv

LEMMA UnansweredInv ==
    ASSUME IInv, NEW c \in Clients, RefreshUnanswered(c)
    PROVE  IInv'
<1>1. /\ TypeOK /\ NothingElse /\ LossesAreSeen /\ OneRefreshes /\ FilesAreOwned /\ OwnersAreNewer
      /\ OneIsHonoured /\ AllAreHonoured /\ SameAsFile /\ LeftInTurn /\ TokensSurvive
  BY DEF IInv
<1>2. client[c] \in ClientStates
  BY <1>1, TokensAreNumbers
<1>3. /\ issued' = issued + 1 /\ issued' \in 1 .. MaxIssued /\ rotating' = rotating
      /\ valid' \subseteq 1 .. issued' /\ live' \subseteq 1 .. issued'
      /\ ~rotating => live' = live
      /\ Given \subseteq Given' /\ Given' \subseteq Pairs
  BY GrantTypes DEF RefreshUnanswered
<1>4. /\ client' = [client EXCEPT ![c] = [client[c] EXCEPT !.pc = "idle"]]
      /\ UNCHANGED <<configured, store, tmp, left, overlapped, crossed>>
      /\ client[c].pc = "refresh"
  BY <1>1, <1>2 DEF RefreshUnanswered, Goes, At, files, TypeOK
<1>5. /\ client'[c] = [client[c] EXCEPT !.pc = "idle"]
      /\ \A d \in Clients \ {c} : client'[d] = client[d]
      /\ client' \in [Clients -> ClientStates]
  BY <1>1, <1>2, <1>4, OneMoves DEF ClientStates
<1>6. client'[c].pc = "idle" /\ client'[c].tokens = client[c].tokens
  BY <1>2, <1>5 DEF ClientStates
<1>7. ~clean' /\ clean' \in BOOLEAN
  BY Zenon DEF RefreshUnanswered
<1>8. mishaps' \in 0 .. MaxMishaps
  BY <1>1, MishapsAreBounded DEF RefreshUnanswered
<1>9. overlapped' \in BOOLEAN /\ crossed' \in BOOLEAN
  BY <1>1, <1>4, Zenon DEF TypeOK
<1>10. TypeOK'
  BY <1>1, <1>3, <1>4, <1>5, <1>7, <1>8, <1>9 DEF TypeOK, ClientStates
<1>11. Loaded' = Loaded /\ InTurn' = InTurn
  BY <1>3, <1>4 DEF Loaded, InTurn
<1>12. NothingElse' /\ LossesAreSeen'
  BY <1>1, <1>3, <1>4, <1>5, <1>6, <1>7 DEF NothingElse, LossesAreSeen
<1>13. OneRefreshes' /\ FilesAreOwned' /\ OwnersAreNewer'
  BY <1>1, <1>4, <1>5, <1>6, <1>11
  DEF OneRefreshes, FilesAreOwned, OwnersAreNewer, Newer, Refreshing, At, Owing
<1>14. ASSUME rotating, ~crossed
       PROVE  /\ \A d \in Clients : ~Honoured(d)' /\ ~Owing(d)'
              /\ \A j \in left : j.tokens.refresh \notin live'
  <2>1. /\ \A d \in Clients : client[d].tokens.refresh \notin live' /\ ~Owing(d)
        /\ \A j \in left : j.tokens.refresh \notin live'
    BY <1>14, GrantSpends DEF RefreshUnanswered
  <2> QED
    BY <1>5, <1>6, <2>1 DEF Honoured, Owing
<1>15. OneIsHonoured'
  BY <1>3, <1>4, <1>14 DEF OneIsHonoured
<1>16. AllAreHonoured'
  BY <1>1, <1>3, <1>4, <1>5, <1>6 DEF AllAreHonoured
<1>17. SameAsFile'
  BY <1>1, <1>3, <1>4, <1>5, <1>6, <1>11 DEF SameAsFile, At
<1>18. LeftInTurn'
  <2> SUFFICES ASSUME InTurn
               PROVE  /\ left # {} => \A d \in Clients : ~Owing(d)'
                      /\ \A i, j \in left : i = j
                      /\ \A j \in left : JobOwns(j)' /\ JobIsHonoured(j)'
    BY <1>4, <1>11 DEF LeftInTurn
  <2>1. left # {} => \A d \in Clients : ~Owing(d)'
    BY <1>1, <1>5, <1>6 DEF LeftInTurn, Owing
  <2>2. \A j \in left : JobOwns(j)'
    BY <1>1, <1>4 DEF LeftInTurn, JobOwns, Newer
  <2>3. \A j \in left : JobIsHonoured(j)'
    BY <1>1, <1>3, <1>11, <1>14 DEF LeftInTurn, JobIsHonoured, InTurn
  <2> QED
    BY <1>1, <2>1, <2>2, <2>3 DEF LeftInTurn
<1>19. TokensSurvive'
  BY <1>7 DEF TokensSurvive
<1> QED
  BY <1>10, <1>12, <1>13, <1>15, <1>16, <1>17, <1>18, <1>19 DEF IInv

\* A rename moves the files others have open, and nothing else of theirs.
LEMMA OnlyFilesMove ==
    /\ \A w \in ClientStates : Moved(w) \in ClientStates /\ Moved(w).pc = w.pc /\ Moved(w).tokens = w.tokens
    /\ \A w \in JobStates : Moved(w) \in JobStates /\ Moved(w).pc = w.pc /\ Moved(w).tokens = w.tokens
<1>1. ASSUME NEW w \in ClientStates
      PROVE  Moved(w) \in ClientStates /\ Moved(w).pc = w.pc /\ Moved(w).tokens = w.tokens
  <2>1. CASE tmp = Missing \/ w.writes = "none"
    BY <2>1 DEF Moved
  <2>2. CASE ~(tmp = Missing \/ w.writes = "none")
    <3>1. \E f \in {"store", "gone"} : Moved(w) = [w EXCEPT !.writes = f]
      BY <2>2 DEF Moved, ClientStates
    <3> QED
      BY <3>1 DEF ClientStates
  <2> QED
    BY <2>1, <2>2
<1>2. ASSUME NEW w \in JobStates
      PROVE  Moved(w) \in JobStates /\ Moved(w).pc = w.pc /\ Moved(w).tokens = w.tokens
  <2>1. CASE tmp = Missing \/ w.writes = "none"
    BY <2>1 DEF Moved
  <2>2. CASE ~(tmp = Missing \/ w.writes = "none")
    <3>1. \E f \in {"store", "gone"} : Moved(w) = [w EXCEPT !.writes = f]
      BY <2>2 DEF Moved, JobStates
    <3> QED
      BY <3>1 DEF JobStates
  <2> QED
    BY <2>1, <2>2
<1> QED
  BY <1>1, <1>2

\* Tokens t are moved into place, by the client that got them or by the job it left.
LEMMA Renamed ==
    ASSUME IInv, TypeOK', NEW t, Replaced,
           UNCHANGED <<rotating, issued, live, configured, overlapped, crossed, clean>>,
           \A d \in Clients :
                /\ client'[d].tokens = client[d].tokens
                /\ client'[d].pc = client[d].pc \/ (~At(d, "off") /\ client'[d].pc = "idle"),
           \A j \in left' : \E i \in left : j.tokens = i.tokens,
           InTurn => /\ tmp = t /\ t \in Pairs /\ left' = {}
                     /\ \A d \in Clients : ~Owing(d)'
                     /\ rotating => \A d \in Clients :
                            Honoured(d) /\ t.refresh \in live => client[d].tokens.refresh = t.refresh
                     /\ ~rotating => t.refresh = Loaded.refresh,
           rotating /\ clean => t.refresh \in live
    PROVE  IInv'
<1>1. /\ TypeOK /\ NothingElse /\ LossesAreSeen /\ OneRefreshes /\ FilesAreOwned /\ OwnersAreNewer
      /\ OneIsHonoured /\ AllAreHonoured /\ SameAsFile /\ LeftInTurn /\ TokensSurvive
  BY DEF IInv
<1>2. tmp' = Missing /\ store' \in {store, tmp} /\ (tmp # Missing => store' = tmp)
  BY DEF Replaced
<1>3. Given' = Given /\ InTurn' = InTurn
  BY DEF Given, InTurn
<1>4. ASSUME InTurn
      PROVE  store' = t /\ Loaded' = t /\ t \in Pairs /\ left' = {} /\ \A d \in Clients : ~Owing(d)'
  BY <1>2, <1>4, FileAssumption DEF Loaded
<1>5. NothingElse'
  BY <1>1, <1>2, <1>3 DEF NothingElse
<1>6. LossesAreSeen'
  BY <1>1 DEF LossesAreSeen
<1>7. OneRefreshes'
  <2>1. \A d \in Clients : Refreshing(d)' => Refreshing(d)
    BY DEF Refreshing
  <2> QED
    BY <1>1, <2>1 DEF OneRefreshes
<1>8. FilesAreOwned' /\ OwnersAreNewer' /\ LeftInTurn'
  BY <1>3, <1>4, FileAssumption DEF FilesAreOwned, OwnersAreNewer, LeftInTurn, Owing, At
<1>9. OneIsHonoured'
  <2> SUFFICES ASSUME rotating, ~crossed PROVE OneIsHonoured'
    BY DEF OneIsHonoured
  <2>1. InTurn
    BY DEF InTurn
  <2>2. \A d \in Clients : Honoured(d)' <=> Honoured(d)
    BY DEF Honoured
  <2> QED
    BY <1>1, <1>4, <2>1, <2>2 DEF OneIsHonoured
<1>10. AllAreHonoured'
  BY <1>1, <1>2, FileAssumption DEF AllAreHonoured
<1>11. SameAsFile'
  <2> SUFFICES ASSUME ~rotating, InTurn PROVE SameAsFile'
    BY <1>3 DEF SameAsFile
  <2>1. \A d \in Clients : ~At(d, "off")' => ~At(d, "off")
    BY DEF At
  <2> QED
    BY <1>1, <1>4, <2>1 DEF SameAsFile
<1>12. TokensSurvive'
  <2> SUFFICES ASSUME rotating, clean PROVE Loaded'.refresh \in live'
    BY <1>6, <1>9, <1>10, SurvivalNext
  <2> QED
    BY <1>1, <1>4 DEF LossesAreSeen, InTurn
<1> QED
  BY <1>5, <1>6, <1>7, <1>8, <1>9, <1>10, <1>11, <1>12 DEF IInv

LEMMA RenameInv ==
    ASSUME IInv, NEW c \in Clients, Rename(c)
    PROVE  IInv'
<1>1. /\ TypeOK /\ NothingElse /\ LossesAreSeen /\ OneRefreshes /\ FilesAreOwned
      /\ OneIsHonoured /\ SameAsFile /\ LeftInTurn
  BY DEF IInv
<1>2. /\ \A d \in Clients : client[d] \in ClientStates /\ client[d].tokens \in Pairs
      /\ left \subseteq JobStates
  BY <1>1, TokensAreNumbers
<1>3. /\ UNCHANGED <<rotating, issued, valid, live, configured, mishaps, overlapped, crossed, clean>>
      /\ client[c].pc = "rename" /\ Replaced
      /\ left' = {Moved(j) : j \in left}
  BY DEF Rename, At, platform, history
<1>4. /\ \A d \in Clients : client'[d] = IF d = c THEN [client[c] EXCEPT !.pc = "idle"] ELSE Moved(client[d])
      /\ client' = [d \in Clients |-> client'[d]]
  BY DEF Rename
<1>5. client'[c] \in ClientStates /\ client'[c].pc = "idle" /\ client'[c].tokens = client[c].tokens
  BY <1>2, <1>4 DEF ClientStates
<1>6. \A d \in Clients \ {c} :
        client'[d] \in ClientStates /\ client'[d].pc = client[d].pc /\ client'[d].tokens = client[d].tokens
  BY <1>2, <1>4, OnlyFilesMove
<1>7. client' \in [Clients -> ClientStates] /\ left' \subseteq JobStates
  BY <1>2, <1>3, <1>4, <1>5, <1>6, OnlyFilesMove
<1>8. overlapped' \in BOOLEAN /\ crossed' \in BOOLEAN /\ clean' \in BOOLEAN
  BY <1>1, <1>3, Zenon DEF TypeOK
<1>9. store' \in Files /\ tmp' \in Files
  BY <1>1, <1>3 DEF Replaced, TypeOK, Files
<1>10. TypeOK'
  BY <1>1, <1>3, <1>7, <1>8, <1>9, TypesKept DEF TypeOK
<1>11. \A j \in left' : \E i \in left : j.tokens = i.tokens
  BY <1>2, <1>3, OnlyFilesMove
<1>12. Owing(c) /\ ~At(c, "off")
  BY <1>3 DEF Owing, At
<1>13. ASSUME InTurn
       PROVE  /\ tmp = client[c].tokens /\ left' = {}
              /\ \A d \in Clients : ~Owing(d)'
              /\ rotating => \A d \in Clients :
                    Honoured(d) /\ client[c].tokens.refresh \in live
                    => client[d].tokens.refresh = client[c].tokens.refresh
              /\ ~rotating => client[c].tokens.refresh = Loaded.refresh
  <2>1. tmp = client[c].tokens
    BY <1>1, <1>3, <1>13 DEF FilesAreOwned, At
  <2>2. left' = {}
    BY <1>1, <1>3, <1>12, <1>13 DEF LeftInTurn
  <2>3. \A d \in Clients \ {c} : ~Owing(d)
    BY <1>1, <1>12, <1>13, OneOwes
  <2>4. \A d \in Clients : ~Owing(d)'
    BY <1>5, <1>6, <2>3 DEF Owing
  <2>5. rotating => \A d \in Clients :
            Honoured(d) /\ client[c].tokens.refresh \in live
            => client[d].tokens.refresh = client[c].tokens.refresh
    BY <1>1, <1>13 DEF OneIsHonoured, Honoured, InTurn
  <2>6. ~rotating => client[c].tokens.refresh = Loaded.refresh
    BY <1>1, <1>12, <1>13 DEF SameAsFile
  <2> QED
    BY <2>1, <2>2, <2>4, <2>5, <2>6
<1>14. rotating /\ clean => client[c].tokens.refresh \in live
  BY <1>1, <1>12 DEF LossesAreSeen, OneIsHonoured, Honoured
<1> QED
  BY <1>2, <1>3, <1>5, <1>6, <1>10, <1>11, <1>12, <1>13, <1>14, Renamed

LEMMA LeftRenamesInv ==
    ASSUME IInv, NEW j \in left, LeftRenames(j)
    PROVE  IInv'
<1>1. TypeOK /\ NothingElse /\ LossesAreSeen /\ LeftInTurn
  BY DEF IInv
<1>2. /\ \A d \in Clients : client[d] \in ClientStates
      /\ left \subseteq JobStates /\ j.tokens \in Pairs
  BY <1>1, TokensAreNumbers
<1>3. /\ UNCHANGED <<rotating, issued, valid, live, configured, mishaps, overlapped, crossed, clean>>
      /\ j.pc = "rename" /\ Replaced
      /\ left' = {Moved(i) : i \in left \ {j}}
  BY DEF LeftRenames, platform, history
<1>4. /\ \A d \in Clients : client'[d] = Moved(client[d])
      /\ client' = [d \in Clients |-> client'[d]]
  BY DEF LeftRenames
<1>5. \A d \in Clients :
        client'[d] \in ClientStates /\ client'[d].pc = client[d].pc /\ client'[d].tokens = client[d].tokens
  BY <1>2, <1>4, OnlyFilesMove
<1>6. client' \in [Clients -> ClientStates] /\ left' \subseteq JobStates
  BY <1>2, <1>3, <1>4, <1>5, OnlyFilesMove
<1>7. overlapped' \in BOOLEAN /\ crossed' \in BOOLEAN /\ clean' \in BOOLEAN
  BY <1>1, <1>3, Zenon DEF TypeOK
<1>8. store' \in Files /\ tmp' \in Files
  BY <1>1, <1>3 DEF Replaced, TypeOK, Files
<1>9. TypeOK'
  BY <1>1, <1>3, <1>6, <1>7, <1>8, TypesKept DEF TypeOK
<1>10. \A i \in left' : \E h \in left : i.tokens = h.tokens
  BY <1>2, <1>3, OnlyFilesMove
<1>11. ASSUME InTurn
       PROVE  /\ tmp = j.tokens /\ left' = {}
              /\ \A d \in Clients : ~Owing(d)'
              /\ rotating => \A d \in Clients :
                    Honoured(d) /\ j.tokens.refresh \in live => client[d].tokens.refresh = j.tokens.refresh
              /\ ~rotating => j.tokens.refresh = Loaded.refresh
  <2>1. JobOwns(j) /\ JobIsHonoured(j) /\ left = {j} /\ \A d \in Clients : ~Owing(d)
    BY <1>1, <1>11 DEF LeftInTurn
  <2>2. tmp = j.tokens /\ left' = {} /\ \A d \in Clients : ~Owing(d)'
    BY <1>3, <1>5, <2>1 DEF JobOwns, Owing
  <2> QED
    BY <2>1, <2>2 DEF JobIsHonoured
<1>12. ~clean
  BY <1>1 DEF LossesAreSeen
<1> QED
  BY <1>2, <1>3, <1>5, <1>9, <1>10, <1>11, <1>12, Renamed

\* A job that was left is done with a part of its work.
LEMMA LeftGoesOn ==
    ASSUME IInv, TypeOK', NEW j \in left,
           UNCHANGED <<rotating, issued, live, configured, client, overlapped, crossed, clean>>,
           tmp' \in {tmp, Empty, Torn, j.tokens}, store' \in {store, Torn, j.tokens},
           InTurn => store' = store,
           \A i \in left' : \E h \in left : i.tokens = h.tokens,
           InTurn => /\ \A i, h \in left' : i = h
                     /\ \A i \in left' : /\ i.tokens = j.tokens /\ i.pc = "write"
                                         /\ i.writes = "tmp" /\ tmp' = Empty
    PROVE  IInv'
<1>1. /\ TypeOK /\ NothingElse /\ LossesAreSeen /\ OneRefreshes /\ FilesAreOwned /\ OwnersAreNewer
      /\ OneIsHonoured /\ AllAreHonoured /\ SameAsFile /\ LeftInTurn /\ TokensSurvive
  BY DEF IInv
<1>2. Given' = Given /\ InTurn' = InTurn
  BY DEF Given, InTurn
<1>3. ~clean
  BY <1>1 DEF LossesAreSeen
<1>4. InTurn => Loaded' = Loaded /\ \A d \in Clients : ~Owing(d)
  BY <1>1 DEF Loaded, LeftInTurn
<1>5. NothingElse' /\ LossesAreSeen' /\ OneRefreshes'
  BY <1>1, <1>2, <1>3 DEF NothingElse, LossesAreSeen, OneRefreshes, Refreshing
<1>6. FilesAreOwned' /\ OwnersAreNewer'
  BY <1>1, <1>2, <1>4 DEF FilesAreOwned, OwnersAreNewer, Owing, At
<1>7. OneIsHonoured' /\ SameAsFile'
  BY <1>1, <1>2, <1>4 DEF OneIsHonoured, SameAsFile, InTurn, Honoured, Owing, At
<1>8. AllAreHonoured'
  BY <1>1, FileAssumption DEF AllAreHonoured
<1>9. LeftInTurn'
  <2> SUFFICES ASSUME InTurn, NEW i \in left' PROVE JobOwns(i)' /\ JobIsHonoured(i)'
    BY <1>2, <1>4 DEF LeftInTurn, Owing
  <2>1. JobOwns(j) /\ JobIsHonoured(j)
    BY <1>1 DEF LeftInTurn
  <2>2. i.tokens = j.tokens /\ i.pc = "write" /\ i.writes = "tmp" /\ tmp' = Empty
    OBVIOUS
  <2>3. JobOwns(i)'
    BY <2>1, <2>2 DEF JobOwns, Newer
  <2>4. JobIsHonoured(i)'
    BY <1>4, <2>1, <2>2 DEF JobIsHonoured, Honoured
  <2> QED
    BY <2>3, <2>4
<1>10. TokensSurvive'
  BY <1>3 DEF TokensSurvive
<1> QED
  BY <1>5, <1>6, <1>7, <1>8, <1>9, <1>10 DEF IInv

LEMMA LeftOpensInv ==
    ASSUME IInv, NEW j \in left, LeftOpens(j)
    PROVE  IInv'
<1>1. TypeOK /\ NothingElse /\ LeftInTurn
  BY DEF IInv
<1>2. left \subseteq JobStates /\ client \in [Clients -> ClientStates]
  BY <1>1, TokensAreNumbers
<1>3. /\ UNCHANGED <<rotating, issued, valid, live, configured, store, client, mishaps, overlapped, crossed, clean>>
      /\ tmp' = Empty
  BY DEF LeftOpens, platform, history
<1>4. PICK x \in JobStates : /\ left' = (left \ {j}) \cup {x}
                             /\ x.tokens = j.tokens /\ x.pc = "write" /\ x.writes = "tmp"
  <2> DEFINE y == [j EXCEPT !.pc = "write", !.writes = "tmp"]
  <2>1. y \in JobStates /\ y.tokens = j.tokens /\ y.pc = "write" /\ y.writes = "tmp"
    BY <1>2 DEF JobStates
  <2>2. left' = (left \ {j}) \cup {y}
    BY DEF LeftOpens
  <2> HIDE DEF y
  <2> QED
    BY <2>1, <2>2
<1>5. overlapped' \in BOOLEAN /\ crossed' \in BOOLEAN /\ clean' \in BOOLEAN
  BY <1>1, <1>3, Zenon DEF TypeOK
<1>6. TypeOK'
  BY <1>1, <1>2, <1>3, <1>4, <1>5, TypesKept DEF TypeOK, Files
<1>7. InTurn => left' = {x}
  BY <1>1, <1>4 DEF LeftInTurn
<1>8. \A i \in left' : \E h \in left : i.tokens = h.tokens
  BY <1>4
<1> QED
  BY <1>3, <1>4, <1>6, <1>7, <1>8, LeftGoesOn

LEMMA LeftWritesInv ==
    ASSUME IInv, NEW j \in left, LeftWrites(j)
    PROVE  IInv'
<1>1. TypeOK /\ NothingElse /\ LeftInTurn
  BY DEF IInv
<1>2. left \subseteq JobStates /\ j.tokens \in Pairs /\ client \in [Clients -> ClientStates]
  BY <1>1, TokensAreNumbers
<1>3. /\ UNCHANGED <<rotating, issued, valid, live, configured, client, mishaps, overlapped, crossed, clean>>
      /\ left' = left \ {j} /\ j.pc = "write" /\ Filled(j)
  BY DEF LeftWrites, platform, history
<1>4. /\ tmp' \in {tmp, Torn, j.tokens} /\ store' \in {store, Torn, j.tokens}
      /\ tmp' \in Files /\ store' \in Files
      /\ j.writes = "tmp" => store' = store
  BY <1>1, <1>2, <1>3, WhatIsFilled
<1>5. overlapped' \in BOOLEAN /\ crossed' \in BOOLEAN /\ clean' \in BOOLEAN
  BY <1>1, <1>3, Zenon DEF TypeOK
<1>6. TypeOK'
  BY <1>1, <1>2, <1>3, <1>4, <1>5, TypesKept DEF TypeOK
<1>7. InTurn => left' = {} /\ j.writes = "tmp"
  BY <1>1, <1>3 DEF LeftInTurn, JobOwns
<1>8. \A i \in left' : \E h \in left : i.tokens = h.tokens
  BY <1>3
<1> QED
  BY <1>3, <1>4, <1>6, <1>7, <1>8, LeftGoesOn

LEMMA ExpireInv ==
    ASSUME IInv, Expire
    PROVE  IInv'
<1>1. /\ TypeOK /\ NothingElse /\ LossesAreSeen /\ OneRefreshes /\ FilesAreOwned /\ OwnersAreNewer
      /\ OneIsHonoured /\ AllAreHonoured /\ SameAsFile /\ LeftInTurn /\ TokensSurvive
  BY DEF IInv
<1>2. /\ UNCHANGED <<rotating, issued, live, configured, store, tmp, client, left, mishaps, overlapped, crossed, clean>>
      /\ valid' \subseteq valid
  BY DEF Expire, files, history
<1>3. overlapped' \in BOOLEAN /\ crossed' \in BOOLEAN /\ clean' \in BOOLEAN
  BY <1>1, <1>2, Zenon DEF TypeOK
<1>4. TypeOK'
  BY <1>1, <1>2, <1>3, TypesKept DEF TypeOK, ClientStates, JobStates, Files
<1>5. /\ Loaded' = Loaded /\ Given' = Given /\ InTurn' = InTurn
      /\ \A c \in Clients : (Owing(c)' <=> Owing(c)) /\ (Honoured(c)' <=> Honoured(c))
  BY <1>2 DEF Loaded, Given, InTurn, Owing, Honoured
<1>6. NothingElse' /\ LossesAreSeen' /\ OneRefreshes' /\ FilesAreOwned' /\ OwnersAreNewer'
  BY <1>1, <1>2, <1>5
  DEF NothingElse, LossesAreSeen, OneRefreshes, FilesAreOwned, OwnersAreNewer, Newer, Refreshing, At
<1>7. OneIsHonoured'
  BY <1>1, <1>2, <1>5 DEF OneIsHonoured
<1>8. AllAreHonoured' /\ SameAsFile'
  BY <1>1, <1>2, <1>5 DEF AllAreHonoured, SameAsFile, At
<1>9. LeftInTurn'
  BY <1>1, <1>2, <1>5 DEF LeftInTurn, JobOwns, JobIsHonoured, Newer
<1>10. TokensSurvive'
  BY <1>1, <1>2, <1>5 DEF TokensSurvive
<1> QED
  BY <1>4, <1>6, <1>7, <1>8, <1>9, <1>10 DEF IInv

\* The daemon comes up again: all of its clients are gone.
LEMMA AllGone ==
    ASSUME IInv, client' = [c \in Clients |-> NoClient]
    PROVE  /\ client' \in [Clients -> ClientStates]
           /\ \A c \in Clients :
                 /\ At(c, "off")' /\ ~Owing(c)' /\ ~Refreshing(c)'
                 /\ client'[c].tokens.refresh = NoToken /\ client'[c].tokens = NoClient.tokens
           /\ NoClient.tokens \in Given
<1>1. issued \in Nat /\ MaxIssued \in Nat
  BY TokensAreNumbers DEF IInv
<1>2. /\ NoClient \in ClientStates /\ NoClient.pc = "off"
      /\ NoClient.tokens \in Given /\ NoClient.tokens.refresh = NoToken
  BY <1>1 DEF NoClient, ClientStates, Pairs, Tokens, NoToken, Given
<1> QED
  BY <1>2 DEF At, Owing, Refreshing

LEMMA RestartInv ==
    ASSUME IInv, Restart
    PROVE  IInv'
<1>1. /\ TypeOK /\ NothingElse /\ LossesAreSeen /\ FilesAreOwned /\ AllAreHonoured /\ TokensSurvive
      /\ NoToken \notin live
  BY TokensAreNumbers DEF IInv
<1>2. UNCHANGED <<rotating, issued, valid, live, configured, store, tmp, overlapped, crossed>> /\ left' = {}
  BY DEF Restart, platform, files
<1>3. clean' => clean /\ \A c \in Clients : ~Owing(c)
  BY Zenon DEF Restart
<1>4. overlapped' \in BOOLEAN /\ crossed' \in BOOLEAN /\ clean' \in BOOLEAN
  <2>1. overlapped' \in BOOLEAN /\ crossed' \in BOOLEAN
    BY <1>1, <1>2, Zenon DEF TypeOK
  <2>2. clean' \in BOOLEAN
    BY Zenon DEF Restart
  <2> QED
    BY <2>1, <2>2
<1>5. mishaps' \in 0 .. MaxMishaps
  BY <1>1, MishapsAreBounded DEF Restart
<1>6. /\ client' \in [Clients -> ClientStates]
      /\ \A c \in Clients :
            /\ At(c, "off")' /\ ~Owing(c)' /\ ~Refreshing(c)'
            /\ client'[c].tokens.refresh = NoToken /\ client'[c].tokens = NoClient.tokens
      /\ NoClient.tokens \in Given
  BY AllGone DEF Restart
<1>7. TypeOK'
  BY <1>1, <1>2, <1>4, <1>5, <1>6, TypesKept DEF TypeOK, Files
<1>8. Loaded' = Loaded /\ Given' = Given
  BY <1>2 DEF Loaded, Given
<1>9. NothingElse'
  BY <1>1, <1>2, <1>6, <1>8 DEF NothingElse
<1>10. OneRefreshes' /\ OwnersAreNewer' /\ SameAsFile' /\ LossesAreSeen' /\ LeftInTurn'
  BY <1>1, <1>2, <1>3, <1>6 DEF OneRefreshes, OwnersAreNewer, SameAsFile, LossesAreSeen, LeftInTurn
<1>11. FilesAreOwned'
  BY <1>1, <1>2, <1>6 DEF FilesAreOwned, InTurn, At
<1>12. OneIsHonoured'
  BY <1>1, <1>2, <1>6 DEF OneIsHonoured, Honoured
<1>13. AllAreHonoured'
  BY <1>1, <1>2, <1>6 DEF AllAreHonoured
<1>14. clean' => Loaded'.refresh \in live' \cup {NoToken}
  BY <1>1, <1>2, <1>3, <1>8 DEF TokensSurvive
<1> QED
  BY <1>7, <1>9, <1>10, <1>11, <1>12, <1>13, <1>14 DEF IInv, TokensSurvive

LEMMA ReauthorizeInv ==
    ASSUME IInv, Reauthorize
    PROVE  IInv'
<1>1. /\ TypeOK /\ NothingElse /\ LossesAreSeen /\ FilesAreOwned /\ AllAreHonoured /\ TokensSurvive
      /\ NoToken \notin live /\ issued \in Nat /\ MaxIssued \in Nat /\ Loaded \in Given
  BY TokensAreNumbers DEF IInv
<1>2. /\ UNCHANGED <<rotating, store, tmp, overlapped, crossed>> /\ left' = {}
      /\ issued' = issued + 1 /\ issued' \in 1 .. MaxIssued
      /\ valid' = valid \cup {issued'} /\ live' = live \cup {issued'}
      /\ configured' = [access |-> issued', refresh |-> issued']
  BY <1>1 DEF Reauthorize, files
<1>3. clean' => clean /\ \A c \in Clients : ~Owing(c)
  BY Zenon DEF Reauthorize
<1>4. overlapped' \in BOOLEAN /\ crossed' \in BOOLEAN /\ clean' \in BOOLEAN
  <2>1. overlapped' \in BOOLEAN /\ crossed' \in BOOLEAN
    BY <1>1, <1>2, Zenon DEF TypeOK
  <2>2. clean' \in BOOLEAN
    BY Zenon DEF Reauthorize
  <2> QED
    BY <2>1, <2>2
<1>5. mishaps' \in 0 .. MaxMishaps
  BY <1>1, MishapsAreBounded DEF Reauthorize
<1>6. /\ client' \in [Clients -> ClientStates]
      /\ \A c \in Clients :
            /\ At(c, "off")' /\ ~Owing(c)' /\ ~Refreshing(c)'
            /\ client'[c].tokens.refresh = NoToken /\ client'[c].tokens = NoClient.tokens
      /\ NoClient.tokens \in Given
  BY AllGone DEF Reauthorize
<1>7. /\ Given \subseteq Given' /\ Given' \subseteq Pairs /\ configured' \in Given'
      /\ valid' \subseteq 1 .. issued' /\ live' \subseteq 1 .. issued'
  <2>1. \A m \in 1 .. issued : m \in 1 .. issued'
    BY <1>1, <1>2
  <2>2. issued' \in 1 .. issued' /\ issued' \in 0 .. issued'
    BY <1>1, <1>2
  <2>3. valid \subseteq 1 .. issued /\ live \subseteq 1 .. issued
    BY <1>1 DEF TypeOK
  <2>4. valid' \subseteq 1 .. issued' /\ live' \subseteq 1 .. issued'
    BY <1>2, <2>1, <2>2, <2>3
  <2>5. Given \subseteq Given' /\ Given' \subseteq Pairs
    BY <1>1, <1>2 DEF Given, Pairs, Tokens, NoToken
  <2>6. configured' \in Given'
    BY <1>2, <2>2 DEF Given
  <2> QED
    BY <2>4, <2>5, <2>6
<1>8. TypeOK'
  BY <1>1, <1>2, <1>4, <1>5, <1>6, <1>7 DEF TypeOK, ClientStates
<1>9. NothingElse'
  BY <1>1, <1>2, <1>6, <1>7 DEF NothingElse
<1>10. OneRefreshes' /\ OwnersAreNewer' /\ SameAsFile' /\ LossesAreSeen' /\ LeftInTurn'
  BY <1>1, <1>2, <1>3, <1>6 DEF OneRefreshes, OwnersAreNewer, SameAsFile, LossesAreSeen, LeftInTurn
<1>11. FilesAreOwned'
  BY <1>1, <1>2, <1>6 DEF FilesAreOwned, InTurn, At
<1>12. NoToken \notin live'
  BY <1>7, <1>2 DEF NoToken
<1>13. OneIsHonoured'
  BY <1>6, <1>12 DEF OneIsHonoured, Honoured
<1>14. configured'.refresh \in live'
  BY <1>2
<1>15. AllAreHonoured'
  BY <1>1, <1>2, <1>6, <1>14 DEF AllAreHonoured
<1>16. clean' => Loaded'.refresh \in live' \cup {NoToken}
  BY <1>1, <1>2, <1>3, <1>14 DEF TokensSurvive, Loaded
<1> QED
  BY <1>8, <1>9, <1>10, <1>11, <1>13, <1>15, <1>16 DEF IInv, TokensSurvive

LEMMA Invariance == Spec => []IInv
<1>1. Init => IInv
  BY InitInv
<1>2. IInv /\ [Next]_vars => IInv'
  <2> SUFFICES ASSUME IInv, [Next]_vars PROVE IInv'
    OBVIOUS
  <2>1. ASSUME NEW c \in Clients, Step(c) PROVE IInv'
    BY <2>1, BuildInv, UnauthorizedInv, RefreshInv, UnansweredInv, OpenInv, WriteInv, RenameInv, StopInv
    DEF Step
  <2>2. ASSUME NEW j \in left, GoesOn(j) PROVE IInv'
    BY <2>2, LeftOpensInv, LeftWritesInv, LeftRenamesInv DEF GoesOn
  <2>3. CASE UNCHANGED vars
    <3>1. UNCHANGED <<rotating, issued, valid, live, configured, store, tmp, client, left, mishaps,
                      overlapped, crossed, clean>>
      BY <2>3 DEF vars, platform, files, history
    <3> QED
      BY <3>1 DEF IInv, TypeOK, NothingElse, Given, LossesAreSeen, OneRefreshes, Refreshing, FilesAreOwned, InTurn, At,
                  OwnersAreNewer, Newer, Owing, OneIsHonoured, Honoured, Loaded, AllAreHonoured, SameAsFile,
                  LeftInTurn, JobOwns, JobIsHonoured, TokensSurvive
  <2> QED
    BY <2>1, <2>2, <2>3, ExpireInv, RestartInv, ReauthorizeInv DEF Next
<1> QED
  BY <1>1, <1>2, PTL DEF Spec

\* Types, and what they exclude: a client that took a broken file for tokens.
THEOREM TypeCorrect == Spec => []TypeOK
<1>1. IInv => TypeOK
  BY DEF IInv
<1> QED
  BY <1>1, Invariance, PTL

\* The daemon is not locked out: what a client that is built now loads is honoured,
\* or one is about to put tokens that are into the file, unless refreshed tokens
\* were lost on the way there.
THEOREM NobodyIsLockedOut == Spec => []TokensSurvive
<1>1. IInv => TokensSurvive
  BY DEF IInv
<1> QED
  BY <1>1, Invariance, PTL

\* The token file parses, although clients share the temporary one and a write or
\* a rename goes on when its future has been dropped, as long as clients come to
\* the files in turn.
THEOREM FileParses == Spec => []StoreIsWhole
<1>1. IInv => StoreIsWhole
  BY DEF IInv, FilesAreOwned, StoreIsWhole
<1> QED
  BY <1>1, Invariance, PTL

\* Who writes the file, itself or by the job it left, is its owner.
LEMMA OwnersWrite ==
    ASSUME IInv, Next, InTurn
    PROVE  \/ store' = store
           \/ \E c \in Clients : Owing(c) /\ store' = client[c].tokens
           \/ \E j \in left : store' = j.tokens
<1>1. TypeOK /\ FilesAreOwned /\ LeftInTurn /\ Missing \notin Pairs
  BY FileAssumption DEF IInv
<1>2. CASE Expire \/ Restart \/ Reauthorize
  BY <1>2 DEF Expire, Restart, Reauthorize, files
<1>3. ASSUME NEW c \in Clients, Rename(c) PROVE store' = store \/ (Owing(c) /\ store' = client[c].tokens)
  BY <1>1, <1>3 DEF Rename, Replaced, FilesAreOwned, At, Owing
<1>4. ASSUME NEW c \in Clients, WriteTmp(c) PROVE store' = store
  <2>1. client[c].writes = "tmp"
    BY <1>1, <1>4 DEF WriteTmp, FilesAreOwned
  <2> QED
    BY <1>4, <2>1 DEF WriteTmp, Filled
<1>5. ASSUME NEW c \in Clients,
             Build(c) \/ Unauthorized(c) \/ Refresh(c) \/ RefreshUnanswered(c) \/ RefreshRefused(c)
             \/ OpenTmp(c) \/ PersistFails(c) \/ Drop(c, "idle") \/ Drop(c, "off") \/ Discard(c)
      PROVE  store' = store
  BY <1>5 DEF Build, Unauthorized, Refresh, RefreshUnanswered, RefreshRefused, OpenTmp, PersistFails, Drop, Discard, files
<1>6. ASSUME NEW j \in left, GoesOn(j) PROVE store' = store \/ store' = j.tokens
  <2>1. JobOwns(j)
    BY <1>1 DEF LeftInTurn
  <2>2. CASE LeftOpens(j)
    BY <2>2 DEF LeftOpens
  <2>3. CASE LeftWrites(j)
    BY <2>1, <2>3 DEF LeftWrites, Filled, JobOwns
  <2>4. CASE LeftRenames(j)
    BY <2>1, <2>4 DEF LeftRenames, Replaced, JobOwns
  <2> QED
    BY <1>6, <2>2, <2>3, <2>4 DEF GoesOn
<1> QED
  BY <1>2, <1>3, <1>4, <1>5, <1>6 DEF Next, Step

\* On the same terms the file never goes back to older tokens.
THEOREM FileNeverGoesBack == Spec => NeverOlder
<1>1. IInv /\ [Next]_vars =>
        (InTurn' /\ {store, store'} \subseteq Pairs =>
            store'.access >= store.access /\ store'.refresh >= store.refresh)
  <2> SUFFICES ASSUME IInv, [Next]_vars, InTurn', store \in Pairs, store' \in Pairs
               PROVE  store'.access >= store.access /\ store'.refresh >= store.refresh
    OBVIOUS
  <2>1. store.access \in Nat /\ store.refresh \in Nat
    BY BoundAssumption DEF Pairs, Tokens, NoToken
  <2>2. CASE store' = store
    BY <2>1, <2>2
  <2>3. CASE store' # store
    <3>1. Next
      BY <2>3 DEF vars, files
    <3>2. (overlapped => overlapped') /\ (crossed => crossed') /\ rotating' = rotating
      <4>1. CASE Expire \/ Restart \/ Reauthorize
        BY <4>1 DEF Expire, Restart, Reauthorize, platform, history
      <4>2. ASSUME NEW c \in Clients, Step(c)
            PROVE  (overlapped => overlapped') /\ (crossed => crossed') /\ rotating' = rotating
        <5>1. CASE Refresh(c) \/ RefreshUnanswered(c)
          <6>1. rotating' = rotating
            BY <5>1 DEF Refresh, RefreshUnanswered, Grant
          <6>2. overlapped => overlapped'
            BY <5>1 DEF Refresh, RefreshUnanswered
          <6>3. crossed' = crossed \/ crossed' = (crossed \/ left # {})
            BY <5>1, Zenon DEF Refresh, RefreshUnanswered
          <6>4. crossed => crossed'
            BY <6>3, Zenon
          <6> QED
            BY <6>1, <6>2, <6>4
        <5>2. CASE Drop(c, "idle") \/ Drop(c, "off")
          BY <5>2 DEF Drop, platform
        <5>3. CASE Unauthorized(c)
          BY <5>3, Zenon DEF Unauthorized, platform
        <5>4. CASE Build(c) \/ RefreshRefused(c) \/ OpenTmp(c) \/ WriteTmp(c) \/ Rename(c) \/ PersistFails(c) \/ Discard(c)
          BY <5>4 DEF Build, RefreshRefused, OpenTmp, WriteTmp, Rename, PersistFails, Discard, platform, history
        <5> QED
          BY <4>2, <5>1, <5>2, <5>3, <5>4 DEF Step
      <4>3. ASSUME NEW j \in left, GoesOn(j)
            PROVE  (overlapped => overlapped') /\ (crossed => crossed') /\ rotating' = rotating
        BY <4>3 DEF GoesOn, LeftOpens, LeftWrites, LeftRenames, platform, history
      <4> QED
        BY <3>1, <4>1, <4>2, <4>3 DEF Next
    <3>3. InTurn
      BY <3>2 DEF InTurn
    <3>4. CASE \E c \in Clients : Owing(c) /\ store' = client[c].tokens
      BY <3>3, <3>4 DEF IInv, OwnersAreNewer, Newer
    <3>5. CASE \E j \in left : store' = j.tokens
      BY <3>3, <3>5 DEF IInv, LeftInTurn, JobOwns, Newer
    <3> QED
      BY <2>3, <3>1, <3>3, <3>4, <3>5, OwnersWrite
  <2> QED
    BY <2>2, <2>3
<1> QED
  BY <1>1, Invariance, PTL DEF Spec, NeverOlder

=============================================================================
