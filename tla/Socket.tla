-------------------------------- MODULE Socket --------------------------------
(***************************************************************************)
(* One connection to the daemon's Unix socket, from connect to close, and  *)
(* the client at its other end.  A message travels as a frame of two       *)
(* pieces, its length and its body, which are written and read one after   *)
(* the other.                                                              *)
(*                                                                         *)
(* The daemon reads a command, executes it and writes the answer.  While   *)
(* it executes it looks at nothing else, however long it takes: a shell    *)
(* may run for ever, and so may a connector that starts or a reload.  Once *)
(* the client has subscribed it waits for a command and for the next       *)
(* snapshot at the same time, and a snapshot that is due drops the read:   *)
(* a length that had been taken is forgotten.  What is read as a length    *)
(* after that is the head of a body, which begins with four zero bytes     *)
(* (the count of segments less one), so it says "empty", and an empty body *)
(* does not parse.                                                         *)
(*                                                                         *)
(* The gateway's socket is served by the same loop without subscriptions.  *)
(* The TUI is the client that subscribes.  It waits for the first answer   *)
(* and then never waits again: what is not there yet is an error it takes  *)
(* for "nothing there", also between the two pieces of a frame.            *)
(***************************************************************************)
EXTENDS Naturals, Sequences

CONSTANTS
    Commands,     \* what a client asks for, besides "subscribe"
    MayBeRefused, \* those that can be answered with an error
    Room,         \* pieces the kernel holds in each direction
    MaxCommands   \* bound of the model: commands sent

Kinds == Commands \cup {"subscribe"}

ASSUME CommandsAssumption ==
    /\ {"spike", "toggle", "reload"} \subseteq Commands /\ "subscribe" \notin Commands
    /\ MayBeRefused \subseteq Commands
ASSUME RoomAssumption == Room \in Nat /\ Room >= 2
ASSUME BoundAssumption == MaxCommands \in Nat

VARIABLES
    link,      \* who talks to whom: a client and a server, which stay
    toDaemon,  \* pieces on their way, in either direction
    toClient,
    daemon,    \* of the connection's task: where it is, whether its client has
               \* subscribed, the length it holds, the pieces it has to write
    client,    \* where it is, and the pieces it has to write
    sent,      \* commands in the order they were sent
    done,      \* commands in the order their execution was started
    over,      \* how many of them have come to an end
    answered,  \* answers that were written
    astray,    \* the TUI takes for lengths what are none
    shown,     \* the snapshot the TUI shows: 0 for none, then 1 and 2 in turn
    cause      \* history: what may have made the daemon hang up

wire == <<toDaemon, toClient>>
log == <<sent, done, over, answered>>
vars == <<link, wire, daemon, client, log, astray, shown, cause>>

Links == [client : {"tui", "plain"}, server : {"daemon"}]
         \cup [client : {"plain"}, server : {"gateway"}]

NoCommand == [id |-> 0, kind |-> "subscribe"]

\* A message from the daemon: the command it answers (0 for none), whether it is
\* a snapshot of the state, and whether it says that all went well.
Messages == [to : 0 .. MaxCommands, state : BOOLEAN, ok : BOOLEAN]
Snapshot == [to |-> 0, state |-> TRUE, ok |-> TRUE]

Piece(part, m) == [part |-> part, of |-> m]
Frame(m) == <<Piece("length", m), Piece("body", m)>>

Init ==
    /\ link \in Links
    /\ toDaemon = <<>>
    /\ toClient = <<>>
    /\ daemon = [pc |-> "accept", subscribed |-> FALSE, holds |-> NoCommand, out |-> <<>>]
    /\ client = [pc |-> "start", out |-> <<>>]
    /\ sent = <<>>
    /\ done = <<>>
    /\ over = 0
    /\ answered = 0
    /\ astray = FALSE
    /\ shown = 0
    /\ cause = "none"

Gone == client.pc = "ended"
Closed == daemon.pc = "closed"

(***************************************************************************)
(* The daemon's task.                                                      *)
(***************************************************************************)
Accept ==
    /\ daemon.pc = "accept"
    /\ daemon' = [daemon EXCEPT !.pc = "read"]
    /\ UNCHANGED <<link, wire, client, log, astray, shown, cause>>

Reading == daemon.pc = "read"
Holding == daemon.holds # NoCommand
Comes(part) == toDaemon # <<>> /\ Head(toDaemon).part = part

\* The connection's task returns and its stream is dropped.
HangsUp == daemon' = [daemon EXCEPT !.pc = "closed", !.holds = NoCommand, !.out = <<>>]

ReadLength ==
    /\ Reading /\ ~Holding /\ Comes("length")
    /\ daemon' = [daemon EXCEPT !.holds = Head(toDaemon).of]
    /\ toDaemon' = Tail(toDaemon)
    /\ UNCHANGED <<link, toClient, client, log, astray, shown, cause>>

Outcomes(c) == IF c.kind \in MayBeRefused THEN BOOLEAN ELSE {TRUE}

\* A bug to compare with: a command is acknowledged and then answered.
RespondTwice(c, ok) ==
    LET m == [to |-> c.id, state |-> c.kind = "status", ok |-> ok] IN
    daemon' = [daemon EXCEPT !.pc = "write", !.subscribed = @ \/ c.kind = "subscribe",
                             !.out = Frame([m EXCEPT !.ok = TRUE]) \o Frame(m)]

\* A bug to compare with: dispatch gets a copy of the flag.
RespondToCopy(c, ok) ==
    LET m == [to |-> c.id, state |-> c.kind = "status", ok |-> ok] IN
    daemon' = [daemon EXCEPT !.pc = "write", !.out = Frame(m)]

\* The answer to a command: a snapshot for a status, a response for the others,
\* which says so if the command failed.
Respond(c, ok) ==
    LET m == [to |-> c.id, state |-> c.kind = "status", ok |-> ok] IN
    daemon' = [daemon EXCEPT !.pc = "write", !.subscribed = @ \/ c.kind = "subscribe", !.out = Frame(m)]

\* The body is there, and the command is executed.
Execute ==
    /\ Reading /\ Holding /\ Comes("body")
    /\ daemon' = [daemon EXCEPT !.pc = "work", !.holds = NoCommand]
    /\ done' = Append(done, daemon.holds)
    /\ toDaemon' = Tail(toDaemon)
    /\ UNCHANGED <<link, toClient, client, sent, over, answered, astray, shown, cause>>

Working == daemon.pc = "work"
Executing == over < Len(done)

\* A bug to compare with: the error of a command ends the connection.
ReturnsOrHangsUp ==
    /\ Working /\ Executing
    /\ LET c == done[Len(done)] IN \E ok \in Outcomes(c) : IF ok THEN Respond(c, ok) ELSE HangsUp
    /\ over' = over + 1
    /\ UNCHANGED <<link, wire, client, sent, done, answered, astray, shown, cause>>

\* The command is over and its answer is built.
Returns ==
    /\ Working /\ Executing
    /\ LET c == done[Len(done)] IN \E ok \in Outcomes(c) : Respond(c, ok)
    /\ over' = over + 1
    /\ UNCHANGED <<link, wire, client, sent, done, answered, astray, shown, cause>>

\* The gateway cannot start its shell, or has lost what it says: the ? ends the
\* connection.
RunFails ==
    /\ link.server = "gateway"
    /\ Working \/ (Reading /\ Holding /\ Comes("body"))
    /\ HangsUp
    /\ cause' = "shell"
    /\ UNCHANGED <<link, wire, client, log, astray, shown>>

\* A bug to compare with: a message that does not parse is skipped.
MisreadSkips ==
    /\ Reading /\ ~Holding /\ Comes("body")
    /\ toDaemon' = Tail(toDaemon)
    /\ UNCHANGED <<link, toClient, daemon, client, log, astray, shown, cause>>

\* The head of a body read as a length says zero, and nothing parses as nothing.
Misread ==
    /\ Reading /\ ~Holding /\ Comes("body")
    /\ HangsUp
    /\ UNCHANGED <<link, wire, client, log, astray, shown, cause>>

ReadsEnd ==
    /\ Reading
    /\ toDaemon = <<>>
    /\ Gone
    /\ HangsUp
    /\ UNCHANGED <<link, wire, client, log, astray, shown, cause>>

\* The sleep is over and the read, which is polled first, has nothing to go on
\* with.  Dropping it forgets the length it holds.
Tick ==
    /\ Reading
    /\ daemon.subscribed
    /\ toDaemon = <<>>
    /\ ~Gone
    /\ daemon' = [daemon EXCEPT !.pc = "work", !.holds = NoCommand]
    /\ cause' = IF Holding THEN "torn" ELSE cause
    /\ UNCHANGED <<link, wire, client, log, astray, shown>>

\* build_state_message has had its turn at the registry.
Builds ==
    /\ Working /\ ~Executing
    /\ daemon' = [daemon EXCEPT !.pc = "write", !.out = Frame(Snapshot)]
    /\ UNCHANGED <<link, wire, client, log, astray, shown, cause>>

WritePiece ==
    LET p == Head(daemon.out) IN
    /\ daemon.pc = "write"
    /\ ~Gone
    /\ Len(toClient) < Room
    /\ toClient' = Append(toClient, p)
    /\ daemon' = [daemon EXCEPT !.out = Tail(@),
                                !.pc = IF Len(daemon.out) = 1 THEN "read" ELSE "write"]
    /\ answered' = IF p.part = "body" /\ p.of.to # 0 THEN answered + 1 ELSE answered
    /\ UNCHANGED <<link, toDaemon, client, sent, done, over, astray, shown, cause>>

WriteFails ==
    /\ daemon.pc = "write"
    /\ Gone
    /\ HangsUp
    /\ UNCHANGED <<link, wire, client, log, astray, shown, cause>>

\* What the task does as soon as it is polled; and what it may await for ever.
DaemonStep ==
    \/ Accept \/ ReadLength \/ Execute \/ Misread \/ ReadsEnd
    \/ Tick \/ WritePiece \/ WriteFails

WorkEnds == Returns \/ Builds \/ RunFails

(***************************************************************************)
(* The client.                                                             *)
(***************************************************************************)
\* These commands are to be written, one frame after the other.
Sends(kinds, pc) ==
    LET c == [n \in DOMAIN kinds |-> [id |-> Len(sent) + n, kind |-> kinds[n]]] IN
    /\ Len(sent) + Len(kinds) <= MaxCommands
    /\ sent' = sent \o c
    /\ client' = [pc |-> pc, out |-> IF Len(c) = 1 THEN Frame(c[1]) ELSE Frame(c[1]) \o Frame(c[2])]

\* Its process or its stream is gone, and what was on the way to it with it.
Ends ==
    /\ client' = [pc |-> "ended", out |-> <<>>]
    /\ toClient' = <<>>

Idle(pc) == client.pc = pc /\ client.out = <<>>

Subscribe ==
    /\ link.client = "tui"
    /\ Idle("start")
    /\ Sends(<<"subscribe">>, "waiting")
    /\ UNCHANGED <<link, wire, daemon, done, over, answered, astray, shown, cause>>

\* Any other client asks and waits for the answer.
Ask ==
    /\ link.client = "plain"
    /\ Idle("start")
    /\ \E k \in Commands : Sends(<<k>>, "waiting")
    /\ UNCHANGED <<link, wire, daemon, done, over, answered, astray, shown, cause>>

PutPiece ==
    /\ client.out # <<>>
    /\ ~Closed
    /\ Len(toDaemon) < Room
    /\ toDaemon' = Append(toDaemon, Head(client.out))
    /\ client' = [client EXCEPT !.out = Tail(@)]
    /\ UNCHANGED <<link, toClient, daemon, log, astray, shown, cause>>

\* The daemon has hung up; or there is no room, and the TUI does not wait.
PutFails ==
    /\ client.out # <<>>
    /\ Closed \/ (Len(toDaemon) = Room /\ client.pc \in {"loop", "leaving"})
    /\ Ends
    /\ UNCHANGED <<link, toDaemon, daemon, log, astray, shown, cause>>

\* The TUI validates the answer to its subscription and stops waiting for input.
GetAnswer ==
    /\ Idle("waiting")
    /\ Len(toClient) >= 2
    /\ toClient' = SubSeq(toClient, 3, Len(toClient))
    /\ client' = [client EXCEPT !.pc = IF link.client = "tui" THEN "loop" ELSE "start"]
    /\ UNCHANGED <<link, toDaemon, daemon, log, astray, shown, cause>>

GetsEnd ==
    /\ Idle("waiting")
    /\ Len(toClient) < 2
    /\ Closed
    /\ Ends
    /\ UNCHANGED <<link, toDaemon, daemon, log, astray, shown, cause>>

\* Every key is a spike; some ask for more.  There is something to toggle once a
\* snapshot has told what there is.
Key ==
    /\ Idle("loop")
    /\ \/ Sends(<<"spike">>, "loop")
       \/ Sends(<<"spike", "reload">>, "loop")
       \/ shown # 0 /\ Sends(<<"spike", "toggle">>, "loop")
       \/ Sends(<<"spike">>, "leaving")
    /\ UNCHANGED <<link, wire, daemon, done, over, answered, astray, shown, cause>>

Leave ==
    /\ Idle("leaving")
    /\ Ends
    /\ UNCHANGED <<link, toDaemon, daemon, log, astray, shown, cause>>

\* It is done, or it is killed, also between the two pieces of a frame.
Dies ==
    /\ ~Gone
    /\ Ends
    /\ UNCHANGED <<link, toDaemon, daemon, log, astray, shown, cause>>

\* drain_daemon_messages, one message at a time.
Applies(m) == shown' = IF m.state THEN (shown % 2) + 1 ELSE shown

DrainFrame ==
    /\ Idle("loop")
    /\ ~astray
    /\ Len(toClient) >= 2
    /\ Applies(Head(toClient).of)
    /\ toClient' = SubSeq(toClient, 3, Len(toClient))
    /\ UNCHANGED <<link, toDaemon, daemon, client, log, astray, cause>>

\* The length is there and the body is not: the error drops the length.
DrainHalf ==
    /\ Idle("loop")
    /\ ~astray
    /\ Len(toClient) = 1
    /\ toClient' = <<>>
    /\ astray' = TRUE
    /\ UNCHANGED <<link, toDaemon, daemon, client, log, shown, cause>>

\* From then on it reads words of bodies as lengths.  A zero is an empty message
\* and is ignored, a large one is refused, one in between swallows what there is;
\* so it drops any number of pieces, and finds the next frame by luck.
DrainAstray ==
    /\ Idle("loop")
    /\ astray
    /\ \E k \in 1 .. Len(toClient) :
        /\ toClient' = SubSeq(toClient, k + 1, Len(toClient))
        /\ astray' \in IF toClient[k].part = "body" THEN BOOLEAN ELSE {TRUE}
    /\ UNCHANGED <<link, toDaemon, daemon, client, log, shown, cause>>

\* What the client does without being asked to.
ClientStep ==
    \/ PutPiece \/ PutFails \/ GetAnswer \/ GetsEnd \/ Leave
    \/ DrainFrame \/ DrainHalf \/ DrainAstray

Next == DaemonStep \/ WorkEnds \/ ClientStep \/ Subscribe \/ Ask \/ Key \/ Dies

(***************************************************************************)
(* The connection's task is polled until it ends, and its timer goes off;  *)
(* but a command need not end.  A client goes on with what it is at, and   *)
(* the TUI's loop comes around to its drain every hundred milliseconds.    *)
(* Nobody has to press a key.                                              *)
(***************************************************************************)
Spec == Init /\ [][Next]_vars /\ WF_vars(DaemonStep) /\ WF_vars(ClientStep)

(***************************************************************************)
(* Properties.                                                             *)
(***************************************************************************)

Sent == [id : 0 .. MaxCommands, kind : Kinds]

\* Types, and what they exclude: more answers than commands that are over, more of
\* these than were executed, a length held by a task that is not reading.
TypeOK ==
    /\ link \in Links
    /\ toDaemon \in Seq([part : {"length", "body"}, of : Sent]) /\ Len(toDaemon) <= Room
    /\ toClient \in Seq([part : {"length", "body"}, of : Messages]) /\ Len(toClient) <= Room
    /\ daemon \in [pc : {"accept", "read", "work", "write", "closed"}, subscribed : BOOLEAN,
                   holds : Sent, out : Seq([part : {"length", "body"}, of : Messages])]
    /\ Holding => Reading
    /\ client \in [pc : {"start", "waiting", "loop", "leaving", "ended"},
                   out : Seq([part : {"length", "body"}, of : Sent])]
    /\ sent \in Seq(Sent) /\ done \in Seq(Sent)
    /\ over \in 0 .. Len(done) /\ answered \in 0 .. over
    /\ astray \in BOOLEAN
    /\ shown \in 0 .. 2
    /\ cause \in {"none", "torn", "shell"}

Channel == INSTANCE CommandChannel WITH closed <- Closed

\* No look at the registry, which a snapshot takes, goes on for ever.
SnapshotsAreBuilt == []<>~(Working /\ ~Executing)

\* However frames are cut, whoever leaves and whatever is dropped, the connection
\* is a command channel: commands run in order, one at a time, none twice, none
\* that was not sent, none after one that was skipped and none while another goes
\* on.  And unless the daemon hangs up or a snapshot is never built, each is begun
\* in the end, if the one before it was over, and answered, if it is over itself.
ImplementsChannel == Channel!Safety /\ (SnapshotsAreBuilt => Channel!Live)

\* The daemon does not hang up on a client that is there, refused commands and
\* all.  The causes are named: a snapshot cut a command in two, or the gateway
\* could not run its shell.
ClosedForACause ==
    Closed /\ ~Gone =>
        \/ cause = "torn" /\ link.client = "tui" /\ daemon.subscribed
        \/ cause = "shell" /\ link.server = "gateway"

\* From some time on no key is pressed: every command starts the sleep before a
\* snapshot anew, and a key that is held keeps snapshots away.
KeysStop == <>[][sent' = sent]_vars

\* No command goes on for ever either; while one does, nothing else is served.
WorkEndsAlways == []<>~Working

\* If so, the TUI goes on showing newer snapshots for as long as it is there, the
\* daemon has not hung up and the TUI has not lost its place in the stream.
SnapshotsArrive ==
    KeysStop /\ WorkEndsAlways =>
        \A n \in 0 .. 2 : (shown = n /\ client.pc = "loop")
                           ~> (shown # n \/ client.pc # "loop" \/ Closed \/ astray)

=============================================================================
