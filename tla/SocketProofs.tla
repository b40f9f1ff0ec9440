----------------------------- MODULE SocketProofs -----------------------------
(***************************************************************************)
(* A connection to the daemon is a command channel, for every set of       *)
(* commands, every size of the buffers and every number of commands, and   *)
(* it is closed only for a cause.                                          *)
(*                                                                         *)
(* The pieces between the client's pen and the daemon's eye are the frames *)
(* of the commands that were not executed, in order (Stream).  What is     *)
(* missing of the first one is the length the daemon holds, or, once a     *)
(* snapshot has torn a frame, the length it has forgotten: it cannot take  *)
(* another one, for all it finds is a body.                                *)
(***************************************************************************)
EXTENDS Socket, SequenceTheorems, TLAPS

CommandPieces == [part : {"length", "body"}, of : Sent]
MessagePieces == [part : {"length", "body"}, of : Messages]

DaemonTasks == [pc : {"accept", "read", "work", "write", "closed"}, subscribed : BOOLEAN,
                holds : Sent, out : Seq(MessagePieces)]
ClientTasks == [pc : {"start", "waiting", "loop", "leaving", "ended"}, out : Seq(CommandPieces)]

\* How many pieces there are on the way, and the n-th of those that were written
\* and those that were not.
Rest == Len(toDaemon) + Len(client.out)
Nth(written, out, n) == IF n <= Len(written) THEN written[n] ELSE out[n - Len(written)]

\* Whether the length of the next command is off the stream.
Taken == IF Holding \/ cause = "torn" THEN 1 ELSE 0

\* The commands that were not executed.
Left == Len(sent) - Len(done)

Stream ==
    /\ Rest + Taken <= 2 * Left
    /\ ~Gone => Rest + Taken = 2 * Left
    /\ \A k \in 1 .. Left :
        /\ 2 * k - 1 - Taken \in 1 .. Rest =>
              Nth(toDaemon, client.out, 2 * k - 1 - Taken) = Piece("length", sent[Len(done) + k])
        /\ 2 * k - Taken \in 1 .. Rest =>
              Nth(toDaemon, client.out, 2 * k - Taken) = Piece("body", sent[Len(done) + k])
    /\ Holding => daemon.holds = sent[Len(done) + 1]

\* Commands are numbered as they are sent, and only the TUI subscribes.
SentInOrder ==
    \A n \in DOMAIN sent :
        /\ sent[n].id = n
        /\ sent[n].kind = "subscribe" => link.client = "tui"

\* What is known of the one who hangs up, before it does.
Causes ==
    /\ daemon.subscribed => link.client = "tui"
    /\ cause = "torn" => daemon.subscribed /\ ~Holding
    /\ cause = "shell" => link.server = "gateway"

\* A message that is being written is one answer, or none.
Owed(m) == IF m.to # 0 THEN 1 ELSE 0

\* The command that is executed is the last that was begun.
Begun(c) == c.id = Len(done) /\ (c.kind = "subscribe" => link.client = "tui")

Answering ==
    /\ daemon.pc \in {"accept", "read"} => answered = over /\ over = Len(done) /\ daemon.out = <<>>
    /\ Working => /\ answered = over
                  /\ daemon.out = <<>>
                  /\ ~Executing \/ (over + 1 = Len(done) /\ Begun(done[Len(done)]))
    /\ daemon.pc = "write" =>
        /\ over = Len(done)
        /\ \E m \in Messages :
            /\ daemon.out = Frame(m) \/ daemon.out = <<Piece("body", m)>>
            /\ answered + Owed(m) = over

IInv ==
    /\ TypeOK
    /\ SentInOrder
    /\ Causes
    /\ Answering
    /\ ~Closed => Stream
    /\ ClosedForACause

\* What Sends does: the commands are appended, numbered, and their frames are to
\* be written.
LEMMA SendsFrames ==
    ASSUME TypeOK, NEW kinds \in Seq(Kinds), Len(kinds) \in 1 .. 2, NEW pc, Sends(kinds, pc)
    PROVE  /\ sent' \in Seq(Sent)
           /\ Len(sent') = Len(sent) + Len(kinds)
           /\ \A n \in 1 .. Len(sent) : sent'[n] = sent[n]
           /\ \A n \in 1 .. Len(kinds) :
                sent'[Len(sent) + n] = [id |-> Len(sent) + n, kind |-> kinds[n]]
           /\ client'.pc = pc
           /\ client' = [pc |-> pc, out |-> client'.out]
           /\ client'.out \in Seq(CommandPieces)
           /\ Len(client'.out) = 2 * Len(kinds)
           /\ \A n \in 1 .. Len(kinds) :
                /\ client'.out[2 * n - 1] = Piece("length", sent'[Len(sent) + n])
                /\ client'.out[2 * n] = Piece("body", sent'[Len(sent) + n])
<1> DEFINE c == [n \in DOMAIN kinds |-> [id |-> Len(sent) + n, kind |-> kinds[n]]]
<1>1. /\ Len(sent) + Len(kinds) <= MaxCommands
      /\ sent' = sent \o c
      /\ client' = [pc |-> pc, out |-> IF Len(c) = 1 THEN Frame(c[1]) ELSE Frame(c[1]) \o Frame(c[2])]
  BY DEF Sends
<1>2. sent \in Seq(Sent) /\ Len(sent) \in Nat /\ DOMAIN kinds = 1 .. Len(kinds) /\ Len(kinds) \in Nat
  BY LenProperties DEF TypeOK
<1>3. \A n \in 1 .. Len(kinds) : c[n] = [id |-> Len(sent) + n, kind |-> kinds[n]] /\ c[n] \in Sent
  BY <1>1, <1>2, BoundAssumption, ElementOfSeq DEF Sent
<1>4. c \in [1 .. Len(kinds) -> Sent]
  BY <1>2, <1>3
<1>5. c \in Seq(Sent) /\ Len(c) = Len(kinds)
  BY <1>2, <1>4
<1> HIDE DEF c
<1>6. /\ sent' \in Seq(Sent)
      /\ Len(sent') = Len(sent) + Len(kinds)
      /\ \A n \in 1 .. Len(sent) : sent'[n] = sent[n]
      /\ \A n \in 1 .. Len(kinds) : sent'[Len(sent) + n] = c[n]
  <2>1. /\ sent \o c \in Seq(Sent)
        /\ Len(sent \o c) = Len(sent) + Len(c)
        /\ \A i \in 1 .. Len(sent) + Len(c) :
              (sent \o c)[i] = IF i <= Len(sent) THEN sent[i] ELSE c[i - Len(sent)]
    BY <1>2, <1>5, ConcatProperties
  <2> QED
    BY <2>1, <1>1, <1>2, <1>5, SMTT(30)
<1>7. ASSUME NEW m \in Sent
      PROVE  Frame(m) \in Seq(CommandPieces) /\ Len(Frame(m)) = 2
             /\ Frame(m)[1] = Piece("length", m) /\ Frame(m)[2] = Piece("body", m)
  BY DEF Frame, Piece, CommandPieces
<1>8. CASE Len(kinds) = 1
  <2>1. client'.out = Frame(c[1]) /\ client' = [pc |-> pc, out |-> client'.out]
    BY <1>1, <1>5, <1>8
  <2>2. c[1] \in Sent
    BY <1>3, <1>8
  <2> QED
    BY <2>1, <2>2, <1>1, <1>3, <1>6, <1>7, <1>8
<1>9. CASE Len(kinds) = 2
  <2>1. client'.out = Frame(c[1]) \o Frame(c[2]) /\ client' = [pc |-> pc, out |-> client'.out]
    BY <1>1, <1>5, <1>9
  <2>2. c[1] \in Sent /\ c[2] \in Sent
    BY <1>3, <1>9
  <2> DEFINE f == Frame(c[1])
             g == Frame(c[2])
  <2>3. f \in Seq(CommandPieces) /\ g \in Seq(CommandPieces) /\ Len(f) = 2 /\ Len(g) = 2
    BY <2>2, <1>7
  <2>4. /\ f[1] = Piece("length", c[1]) /\ f[2] = Piece("body", c[1])
        /\ g[1] = Piece("length", c[2]) /\ g[2] = Piece("body", c[2])
    BY <2>2, <1>7
  <2> HIDE DEF f, g
  <2>5. /\ f \o g \in Seq(CommandPieces) /\ Len(f \o g) = 4
        /\ (f \o g)[1] = f[1] /\ (f \o g)[2] = f[2]
        /\ (f \o g)[3] = g[1] /\ (f \o g)[4] = g[2]
    <3>1. /\ f \o g \in Seq(CommandPieces)
          /\ Len(f \o g) = Len(f) + Len(g)
          /\ \A i \in 1 .. Len(f) + Len(g) : (f \o g)[i] = IF i <= Len(f) THEN f[i] ELSE g[i - Len(f)]
      BY <2>3, ConcatProperties
    <3>2. \A i \in 1 .. 4 : (f \o g)[i] = IF i <= 2 THEN f[i] ELSE g[i - 2]
      BY <2>3, <3>1
    <3> QED
      BY <2>3, <3>1, <3>2
  <2>6. client'.out = f \o g
    BY <2>1 DEF f, g
  <2>7. /\ sent'[Len(sent) + 1] = c[1] /\ sent'[Len(sent) + 2] = c[2]
        /\ \A n \in 1 .. Len(kinds) : n = 1 \/ n = 2
    BY <1>6, <1>9
  <2>8. \A n \in 1 .. Len(kinds) :
            /\ client'.out[2 * n - 1] = Piece("length", sent'[Len(sent) + n])
            /\ client'.out[2 * n] = Piece("body", sent'[Len(sent) + n])
    <3> SUFFICES ASSUME NEW n \in 1 .. Len(kinds)
                 PROVE  /\ client'.out[2 * n - 1] = Piece("length", sent'[Len(sent) + n])
                        /\ client'.out[2 * n] = Piece("body", sent'[Len(sent) + n])
      OBVIOUS
    <3>1. /\ client'.out[1] = Piece("length", sent'[Len(sent) + 1])
          /\ client'.out[2] = Piece("body", sent'[Len(sent) + 1])
          /\ client'.out[3] = Piece("length", sent'[Len(sent) + 2])
          /\ client'.out[4] = Piece("body", sent'[Len(sent) + 2])
      BY <2>4, <2>5, <2>6, <2>7, Zenon
    <3>2. n = 1 \/ n = 2
      BY <2>7
    <3>3. (n = 1 => 2 * n - 1 = 1 /\ 2 * n = 2) /\ (n = 2 => 2 * n - 1 = 3 /\ 2 * n = 4)
      OBVIOUS
    <3> QED
      BY <3>1, <3>2, <3>3, Zenon
  <2>9. \A n \in 1 .. Len(kinds) : sent'[Len(sent) + n] = [id |-> Len(sent) + n, kind |-> kinds[n]]
    BY <1>3, <1>6
  <2>10. client'.pc = pc
    BY <2>1
  <2>11. client'.out \in Seq(CommandPieces) /\ Len(client'.out) = 2 * Len(kinds)
    BY <2>5, <2>6, <1>9
  <2> QED
    BY <2>1, <2>8, <2>9, <2>10, <2>11, <1>6, Zenon
<1> QED
  BY <1>2, <1>8, <1>9

\* Initially nothing is on the way, and nobody has asked for anything.
LEMMA InitInv == Init => IInv
<1> SUFFICES ASSUME Init PROVE IInv
  OBVIOUS
<1>1. TypeOK
  <2>1. NoCommand \in Sent
    BY BoundAssumption DEF NoCommand, Sent, Kinds
  <2>2. ~Holding
    BY DEF Init, Holding
  <2>3. \A S : <<>> \in Seq(S)
    OBVIOUS
  <2>4. /\ daemon \in [pc : {"accept", "read", "work", "write", "closed"}, subscribed : BOOLEAN,
                      holds : Sent, out : Seq(MessagePieces)]
        /\ client \in [pc : {"start", "waiting", "loop", "leaving", "ended"}, out : Seq(CommandPieces)]
    BY <2>1, <2>3 DEF Init
  <2>5. Len(toDaemon) <= Room /\ Len(toClient) <= Room /\ over \in 0 .. Len(done) /\ answered \in 0 .. over
    BY RoomAssumption DEF Init
  <2>6. /\ toDaemon \in Seq(CommandPieces) /\ toClient \in Seq(MessagePieces)
        /\ sent \in Seq(Sent) /\ done \in Seq(Sent)
    BY <2>3 DEF Init
  <2>7. link \in Links /\ astray \in BOOLEAN
    BY Zenon DEF Init
  <2>8. shown \in 0 .. 2 /\ cause \in {"none", "torn", "shell"}
    BY DEF Init
  <2> QED
    BY <2>2, <2>4, <2>5, <2>6, <2>7, <2>8 DEF TypeOK, MessagePieces, CommandPieces
<1>2. SentInOrder /\ Causes /\ Answering /\ ClosedForACause
  BY DEF Init, SentInOrder, Causes, Answering, Working, ClosedForACause, Closed
<1>3. Stream
  BY DEF Init, Stream, Rest, Taken, Left, Holding, Gone, NoCommand
<1> QED
  BY <1>1, <1>2, <1>3 DEF IInv

\* The pieces at the head of the stream, as far as they are there.
LEMMA HeadOfStream ==
    ASSUME IInv, ~Closed, toDaemon # <<>>
    PROVE  /\ Left \in Nat \ {0}
           /\ sent[Len(done) + 1] \in Sent
           /\ sent[Len(done) + 1] # NoCommand
           /\ Taken = 0 => Head(toDaemon) = Piece("length", sent[Len(done) + 1])
           /\ Taken = 1 => Head(toDaemon) = Piece("body", sent[Len(done) + 1])
<1>1. /\ Len(toDaemon) \in Nat \ {0} /\ Len(client.out) \in Nat
      /\ Len(sent) \in Nat /\ Len(done) \in Nat
  BY DEF IInv, TypeOK
<1>2. Rest \in Nat \ {0} /\ Taken \in 0 .. 1 /\ Left \in Int
  BY <1>1 DEF Rest, Taken, Left
<1>3. Rest + Taken <= 2 * Left
  BY DEF IInv, Stream
<1>4. Left >= 1
  BY <1>2, <1>3
<1>5. sent[Len(done) + 1] \in Sent /\ sent[Len(done) + 1].id = Len(done) + 1
  BY <1>1, <1>4 DEF Left, IInv, TypeOK, SentInOrder
<1>6. sent[Len(done) + 1] # NoCommand
  BY <1>1, <1>5 DEF NoCommand
<1>7. Head(toDaemon) = Nth(toDaemon, client.out, 1)
  BY <1>1 DEF Nth, IInv, TypeOK
<1>8. /\ 2 * 1 - 1 - Taken \in 1 .. Rest => Nth(toDaemon, client.out, 2 * 1 - 1 - Taken) = Piece("length", sent[Len(done) + 1])
      /\ 2 * 1 - Taken \in 1 .. Rest => Nth(toDaemon, client.out, 2 * 1 - Taken) = Piece("body", sent[Len(done) + 1])
  BY <1>2, <1>4 DEF IInv, Stream
<1>9. Taken = 0 => Nth(toDaemon, client.out, 1) = Piece("length", sent[Len(done) + 1])
  BY <1>2, <1>8
<1>10. Taken = 1 => Nth(toDaemon, client.out, 1) = Piece("body", sent[Len(done) + 1])
  BY <1>2, <1>8
<1> QED
  BY <1>2, <1>4, <1>5, <1>6, <1>7, <1>9, <1>10

\* A message can be written as a frame, and an answer is a message.
LEMMA FramesAreMessages ==
    ASSUME NEW m \in Messages
    PROVE  /\ Frame(m) \in Seq(MessagePieces)
           /\ Len(Frame(m)) = 2 /\ Frame(m) # <<>>
           /\ Head(Frame(m)) = Piece("length", m) /\ Tail(Frame(m)) = <<Piece("body", m)>>
BY DEF Frame, Piece, MessagePieces

LEMMA SnapshotIsMessage == Snapshot \in Messages /\ Owed(Snapshot) = 0
BY BoundAssumption DEF Snapshot, Messages, Owed

LEMMA NoCommandIsSent == NoCommand \in Sent
BY BoundAssumption DEF NoCommand, Sent, Kinds

\* TypeOK by its parts.
LEMMA Types ==
    ASSUME TypeOK
    PROVE  /\ toDaemon \in Seq(CommandPieces) /\ toClient \in Seq(MessagePieces)
           /\ Len(toDaemon) \in 0 .. Room /\ Len(toClient) \in 0 .. Room
           /\ daemon \in DaemonTasks /\ client \in ClientTasks
           /\ sent \in Seq(Sent) /\ done \in Seq(Sent)
           /\ Len(sent) \in Nat /\ Len(done) \in Nat /\ over \in 0 .. Len(done) /\ answered \in 0 .. over
           /\ Room \in Nat /\ Room >= 2
<1>1. Len(toDaemon) \in Nat /\ Len(toClient) \in Nat /\ Len(sent) \in Nat /\ Len(done) \in Nat
  BY DEF TypeOK
<1> QED
  BY <1>1, RoomAssumption DEF TypeOK, CommandPieces, MessagePieces, DaemonTasks, ClientTasks

\* The daemon's own steps keep the types.
LEMMA DaemonTypes ==
    ASSUME IInv, DaemonStep \/ WorkEnds
    PROVE  TypeOK'
<1> USE DEF IInv, wire, log
<1>1. CASE Accept
  BY <1>1 DEF Accept, TypeOK, Holding, Reading
<1>2. CASE ReadLength
  <2>1. Head(toDaemon) \in CommandPieces /\ Tail(toDaemon) \in Seq(CommandPieces)
        /\ Len(Tail(toDaemon)) <= Room
    BY <1>2, Types, HeadTailProperties DEF ReadLength, Comes
  <2>2. daemon' \in DaemonTasks /\ Reading'
    BY <1>2, <2>1, Types DEF ReadLength, CommandPieces, DaemonTasks, Reading
  <2> QED
    BY <1>2, <2>1, <2>2 DEF ReadLength, TypeOK, DaemonTasks, CommandPieces, MessagePieces
<1>3. CASE Execute
  <2>1. Tail(toDaemon) \in Seq(CommandPieces) /\ Len(Tail(toDaemon)) <= Room
    BY <1>3, Types, HeadTailProperties DEF Execute, Comes
  <2>2. daemon' \in DaemonTasks /\ ~Holding'
    BY <1>3, Types, NoCommandIsSent DEF Execute, DaemonTasks, Holding
  <2>3. /\ done' \in Seq(Sent) /\ over' \in 0 .. Len(done') /\ answered' \in 0 .. over'
        /\ sent' = sent
    BY <1>3, Types DEF Execute, DaemonTasks
  <2> QED
    BY <1>3, <2>1, <2>2, <2>3 DEF Execute, TypeOK, DaemonTasks, CommandPieces, MessagePieces
<1>12. CASE Returns
  <2> DEFINE c == done[Len(done)]
             m(ok) == [to |-> c.id, state |-> c.kind = "status", ok |-> ok]
  <2>1. PICK ok \in Outcomes(c) : Respond(c, ok)
    BY <1>12 DEF Returns
  <2>2. /\ over \in Nat /\ Len(done) \in Nat /\ over < Len(done) /\ done \in Seq(Sent)
        /\ answered \in 0 .. over
    BY <1>12, Types DEF Returns, Executing
  <2>3. c \in Sent /\ ok \in BOOLEAN
    <3>1. Len(done) \in 1 .. Len(done)
      BY <2>2
    <3> QED
      BY <2>2, <3>1, ElementOfSeq DEF Outcomes
  <2>4. m(ok) \in Messages
    BY <2>3 DEF Sent, Messages
  <2>5. daemon' \in DaemonTasks /\ daemon'.holds = daemon.holds
    <3>1. Frame(m(ok)) \in Seq(MessagePieces)
      BY <2>4, FramesAreMessages
    <3>2. /\ daemon \in DaemonTasks
          /\ (daemon.subscribed \/ c.kind = "subscribe") \in BOOLEAN
      BY Types DEF DaemonTasks
    <3>3. daemon' = [daemon EXCEPT !.pc = "write", !.subscribed = @ \/ c.kind = "subscribe",
                                   !.out = Frame(m(ok))]
      BY <2>1 DEF Respond
    <3> HIDE DEF c, m
    <3> QED
      BY <3>1, <3>2, <3>3 DEF DaemonTasks
  <2>6. ~Holding'
    BY <1>12, <2>5 DEF Returns, Working, Holding, Reading, TypeOK
  <2>7. over' = over + 1 /\ over' \in 0 .. Len(done) /\ answered \in 0 .. over'
    BY <1>12, <2>2 DEF Returns
  <2> QED
    BY <1>12, <2>5, <2>6, <2>7 DEF Returns, TypeOK, DaemonTasks, CommandPieces, MessagePieces
<1>13. CASE Builds
  <2>1. Frame(Snapshot) \in Seq(MessagePieces)
    BY FramesAreMessages, SnapshotIsMessage
  <2>2. daemon' \in DaemonTasks /\ ~Holding'
    BY <1>13, <2>1, Types DEF Builds, Working, Reading, Holding, DaemonTasks, TypeOK
  <2> QED
    BY <1>13, <2>2 DEF Builds, TypeOK, DaemonTasks, MessagePieces
<1>4. ASSUME HangsUp PROVE
        /\ daemon' \in DaemonTasks
        /\ ~Holding'
  <2>1. daemon \in DaemonTasks /\ <<>> \in Seq(MessagePieces)
    BY Types
  <2>2. daemon' = [daemon EXCEPT !.pc = "closed", !.holds = NoCommand, !.out = <<>>]
    BY <1>4 DEF HangsUp
  <2>3. daemon' \in DaemonTasks
    BY <2>1, <2>2, NoCommandIsSent DEF DaemonTasks
  <2>4. daemon'.holds = NoCommand
    BY <2>1, <2>2 DEF DaemonTasks
  <2> QED
    BY <2>3, <2>4 DEF Holding, NoCommand
<1>5. CASE RunFails
  BY <1>4, <1>5 DEF RunFails, TypeOK, DaemonTasks, MessagePieces
<1>6. CASE Misread
  BY <1>4, <1>6 DEF Misread, TypeOK, DaemonTasks, MessagePieces
<1>7. CASE ReadsEnd
  BY <1>4, <1>7 DEF ReadsEnd, TypeOK, DaemonTasks, MessagePieces
<1>8. CASE Tick
  <2>1. daemon' \in DaemonTasks /\ ~Holding'
    BY <1>8, Types, NoCommandIsSent DEF Tick, Holding, DaemonTasks
  <2>2. cause' \in {"none", "torn", "shell"}
    BY <1>8 DEF Tick, TypeOK
  <2> QED
    BY <1>8, <2>1, <2>2 DEF Tick, TypeOK, DaemonTasks, MessagePieces
<1>9. CASE WritePiece
  <2>1. daemon.out # <<>> /\ Head(daemon.out) \in MessagePieces /\ Tail(daemon.out) \in Seq(MessagePieces)
    <3>1. daemon.out # <<>>
      BY <1>9, FramesAreMessages DEF WritePiece, Answering
    <3>2. daemon.out \in Seq(MessagePieces)
      BY Types DEF DaemonTasks
    <3> QED
      BY <3>1, <3>2, HeadTailProperties
  <2>2. Append(toClient, Head(daemon.out)) \in Seq(MessagePieces)
        /\ Len(Append(toClient, Head(daemon.out))) <= Room
    BY <1>9, <2>1, Types, AppendProperties DEF WritePiece
  <2>3. daemon' \in DaemonTasks /\ ~Holding'
    BY <1>9, <2>1, Types DEF WritePiece, TypeOK, DaemonTasks, Holding, Reading
  <2>4. answered' \in 0 .. over
    BY <1>9, SMTT(30) DEF WritePiece, Answering, TypeOK, Owed, Frame, Piece, Messages
  <2> QED
    BY <1>9, <2>2, <2>3, <2>4 DEF WritePiece, TypeOK, DaemonTasks, MessagePieces
<1>10. CASE WriteFails
  BY <1>4, <1>10 DEF WriteFails, TypeOK, DaemonTasks, MessagePieces
<1> QED
  BY <1>1, <1>2, <1>3, <1>5, <1>6, <1>7, <1>8, <1>9, <1>10, <1>12, <1>13 DEF DaemonStep, WorkEnds

\* What is left of a sequence when k of its pieces are taken off.
LEMMA Rests ==
    ASSUME NEW S, NEW s \in Seq(S), NEW k \in 1 .. Len(s) + 1
    PROVE  /\ SubSeq(s, k, Len(s)) \in Seq(S)
           /\ Len(SubSeq(s, k, Len(s))) \in Nat
           /\ Len(SubSeq(s, k, Len(s))) = Len(s) - k + 1
<1>1. Len(s) \in Nat /\ \A i \in k .. Len(s) : s[i] \in S
  BY LenProperties, ElementOfSeq
<1>2. /\ SubSeq(s, k, Len(s)) \in Seq(S)
      /\ Len(SubSeq(s, k, Len(s))) = IF k <= Len(s) THEN Len(s) - k + 1 ELSE 0
  BY <1>1, SubSeqProperties
<1> QED
  BY <1>1, <1>2

\* Nobody but the daemon's task touches its state, so the types that speak of it
\* are kept by a step that leaves it alone.
LEMMA ClientTypes ==
    ASSUME TypeOK, ClientStep \/ Subscribe \/ Ask \/ Key \/ Dies
    PROVE  TypeOK'
<1> USE DEF wire, log
<1>1. client.out \in Seq(CommandPieces) /\ client \in ClientTasks
  BY Types DEF ClientTasks
<1>2. ASSUME Ends PROVE client' \in ClientTasks /\ toClient' = <<>>
  <2>1. \A S : <<>> \in Seq(S)
    OBVIOUS
  <2> QED
    BY <1>2, <2>1 DEF Ends, ClientTasks
<1>3. <<>> \in Seq(MessagePieces) /\ Len(<<>>) = 0
  OBVIOUS
<1>4. ASSUME NEW kinds \in Seq(Kinds), Len(kinds) \in 1 .. 2,
             NEW pc \in {"waiting", "loop", "leaving"}, Sends(kinds, pc),
             UNCHANGED <<link, wire, daemon, done, over, answered, astray, shown, cause>>
      PROVE  TypeOK'
  <2>1. sent' \in Seq(Sent) /\ client' \in ClientTasks
    BY <1>4, SendsFrames DEF ClientTasks
  <2> QED
    BY <1>4, <2>1 DEF TypeOK, ClientTasks, CommandPieces, Holding, Reading
<1>5. CASE PutPiece
  <2>1. Head(client.out) \in CommandPieces /\ Tail(client.out) \in Seq(CommandPieces)
    BY <1>1, <1>5, HeadTailProperties DEF PutPiece
  <2>2. toDaemon' \in Seq(CommandPieces) /\ Len(toDaemon') <= Room
    BY <1>5, <2>1, Types, AppendProperties DEF PutPiece
  <2>3. client' \in ClientTasks
    BY <1>1, <1>5, <2>1 DEF PutPiece, ClientTasks
  <2> QED
    BY <1>5, <2>2, <2>3 DEF PutPiece, TypeOK, ClientTasks, CommandPieces, Holding, Reading
<1>6. CASE PutFails \/ GetsEnd \/ Leave \/ Dies
  <2>1. Ends /\ UNCHANGED <<link, toDaemon, daemon, log, astray, shown, cause>>
    BY <1>6 DEF PutFails, GetsEnd, Leave, Dies
  <2>2. client' \in ClientTasks /\ toClient' = <<>>
    BY <1>2, <2>1
  <2>3. Len(toClient') <= Room /\ toClient' \in Seq(MessagePieces)
    BY <2>2, <1>3, RoomAssumption
  <2> QED
    BY <2>1, <2>2, <2>3 DEF TypeOK, ClientTasks, CommandPieces, MessagePieces, Holding, Reading
<1>7. CASE GetAnswer
  <2>1. toClient' \in Seq(MessagePieces) /\ Len(toClient') <= Room
    BY <1>7, Types, Rests DEF GetAnswer
  <2>2. client' \in ClientTasks
    BY <1>1, <1>7 DEF GetAnswer, ClientTasks
  <2> QED
    BY <1>7, <2>1, <2>2 DEF GetAnswer, TypeOK, ClientTasks, CommandPieces, MessagePieces, Holding, Reading
<1>8. CASE DrainFrame
  <2>1. toClient' \in Seq(MessagePieces) /\ Len(toClient') <= Room
    BY <1>8, Types, Rests DEF DrainFrame
  <2>2. shown' \in 0 .. 2
    BY <1>8 DEF DrainFrame, Applies, TypeOK
  <2> QED
    BY <1>8, <2>1, <2>2 DEF DrainFrame, TypeOK, MessagePieces, Holding, Reading
<1>9. CASE DrainHalf
  <2>1. Len(toClient') <= Room /\ toClient' \in Seq(MessagePieces)
    BY <1>9, <1>3, RoomAssumption DEF DrainHalf
  <2>2. astray' \in BOOLEAN
    BY <1>9, Zenon DEF DrainHalf
  <2> QED
    BY <1>9, <2>1, <2>2 DEF DrainHalf, TypeOK, MessagePieces, Holding, Reading
<1>10. CASE DrainAstray
  <2>1. PICK k \in 1 .. Len(toClient) :
            /\ toClient' = SubSeq(toClient, k + 1, Len(toClient))
            /\ astray' \in IF toClient[k].part = "body" THEN BOOLEAN ELSE {TRUE}
    BY <1>10 DEF DrainAstray
  <2>2. toClient \in Seq(MessagePieces) /\ Len(toClient) \in Nat /\ Len(toClient) <= Room /\ Room \in Nat
    BY Types
  <2>3. k + 1 \in 1 .. Len(toClient) + 1
    BY <2>2
  <2>4. toClient' \in Seq(MessagePieces) /\ Len(toClient') = Len(toClient) - (k + 1) + 1
    BY <2>1, <2>2, <2>3, Rests
  <2>5. Len(toClient') <= Room
    BY <2>2, <2>4
  <2>6. astray' \in BOOLEAN
    BY <2>1, Zenon
  <2>7. UNCHANGED <<link, toDaemon, daemon, client, log, shown, cause>>
    BY <1>10 DEF DrainAstray
  <2> QED
    BY <2>4, <2>5, <2>6, <2>7 DEF TypeOK, MessagePieces, Holding, Reading
<1>11. CASE Subscribe
  <2>1. /\ <<"subscribe">> \in Seq(Kinds) /\ Len(<<"subscribe">>) \in 1 .. 2
        /\ "waiting" \in {"waiting", "loop", "leaving"}
    BY DEF Kinds
  <2> QED
    BY <1>4, <1>11, <2>1, Zenon DEF Subscribe
<1>12. CASE Ask
  <2>1. PICK k \in Commands : Sends(<<k>>, "waiting")
    BY <1>12 DEF Ask
  <2>2. /\ <<k>> \in Seq(Kinds) /\ Len(<<k>>) \in 1 .. 2
        /\ "waiting" \in {"waiting", "loop", "leaving"}
    BY DEF Kinds
  <2> QED
    BY <1>4, <1>12, <2>1, <2>2, Zenon DEF Ask
<1>13. CASE Key
  <2>1. /\ <<"spike">> \in Seq(Kinds) /\ Len(<<"spike">>) \in 1 .. 2
        /\ <<"spike", "reload">> \in Seq(Kinds) /\ Len(<<"spike", "reload">>) \in 1 .. 2
        /\ <<"spike", "toggle">> \in Seq(Kinds) /\ Len(<<"spike", "toggle">>) \in 1 .. 2
        /\ "loop" \in {"waiting", "loop", "leaving"} /\ "leaving" \in {"waiting", "loop", "leaving"}
    BY CommandsAssumption DEF Kinds
  <2> QED
    BY <1>4, <1>13, <2>1, Zenon DEF Key
<1> QED
  BY <1>5, <1>6, <1>7, <1>8, <1>9, <1>10, <1>11, <1>12, <1>13 DEF ClientStep

\* The stream is where it was if nobody writes, reads, leaves or drops a length.
LEMMA StreamStays ==
    ASSUME Stream, UNCHANGED <<toDaemon, sent, done, cause>>,
           client'.out = client.out, Gone' = Gone, daemon'.holds = daemon.holds
    PROVE  Stream'
<1>1. Rest' = Rest /\ Taken' = Taken /\ Left' = Left /\ (Holding' <=> Holding)
  BY DEF Rest, Taken, Left, Holding
<1>2. \A n \in 1 .. Rest : Nth(toDaemon', client'.out, n) = Nth(toDaemon, client.out, n)
  BY DEF Nth
<1> QED
  BY <1>1, <1>2, SMTT(30) DEF Stream

\* A client that is gone leaves the pieces it has written.
LEMMA StreamCut ==
    ASSUME TypeOK, Stream, Ends, UNCHANGED <<toDaemon, daemon, sent, done, cause>>
    PROVE  Stream'
<1>1. /\ Gone' /\ client'.out = <<>> /\ Len(client'.out) = 0
      /\ Len(toDaemon) \in Nat /\ Len(client.out) \in Nat
  BY DEF Ends, Gone, TypeOK
<1>2. Rest' = Len(toDaemon) /\ Rest = Len(toDaemon) + Len(client.out) /\ Taken' = Taken /\ Taken \in 0 .. 1
      /\ Left' = Left
  BY <1>1 DEF Rest, Taken, Holding, Left
<1>3. \A n \in 1 .. Rest' : Nth(toDaemon', client'.out, n) = Nth(toDaemon, client.out, n)
  BY <1>1, <1>2 DEF Nth
<1>4. ASSUME NEW k \in 1 .. Left
      PROVE  /\ 2 * k - 1 - Taken \in 1 .. Rest' =>
                  Nth(toDaemon', client'.out, 2 * k - 1 - Taken) = Piece("length", sent[Len(done) + k])
             /\ 2 * k - Taken \in 1 .. Rest' =>
                  Nth(toDaemon', client'.out, 2 * k - Taken) = Piece("body", sent[Len(done) + k])
  <2>1. /\ 2 * k - 1 - Taken \in 1 .. Rest =>
              Nth(toDaemon, client.out, 2 * k - 1 - Taken) = Piece("length", sent[Len(done) + k])
        /\ 2 * k - Taken \in 1 .. Rest =>
              Nth(toDaemon, client.out, 2 * k - Taken) = Piece("body", sent[Len(done) + k])
    BY DEF Stream
  <2>2. \A n \in 1 .. Rest' : n \in 1 .. Rest
    BY <1>1, <1>2
  <2> QED
    BY <2>1, <2>2, <1>3
<1>5. Rest' + Taken' <= 2 * Left' /\ Left \in Int
  BY <1>1, <1>2 DEF Stream, Left, TypeOK
<1>6. Holding' => daemon'.holds = sent'[Len(done') + 1]
  BY DEF Stream, Holding
<1> QED
  BY <1>1, <1>2, <1>4, <1>5, <1>6, ZenonT(60) DEF Stream

\* A piece that is written stays where it is in the stream.
LEMMA StreamPut ==
    ASSUME TypeOK, Stream, PutPiece
    PROVE  Stream'
<1> USE DEF log
<1>1. client.out \in Seq(CommandPieces) /\ client.out # <<>> /\ client \in ClientTasks
      /\ toDaemon \in Seq(CommandPieces)
  BY Types DEF PutPiece, ClientTasks
<1>2. /\ Head(client.out) \in CommandPieces /\ Head(client.out) = client.out[1]
      /\ Len(Tail(client.out)) = Len(client.out) - 1
      /\ \A i \in 1 .. Len(client.out) - 1 : Tail(client.out)[i] = client.out[i + 1]
      /\ Len(client.out) \in Nat \ {0} /\ Len(toDaemon) \in Nat
  BY <1>1, HeadTailProperties, EmptySeq
<1>3. /\ Len(toDaemon') = Len(toDaemon) + 1 /\ toDaemon'[Len(toDaemon) + 1] = client.out[1]
      /\ \A i \in 1 .. Len(toDaemon) : toDaemon'[i] = toDaemon[i]
  BY <1>1, <1>2, AppendProperties DEF PutPiece
<1>4. client'.out = Tail(client.out) /\ client'.pc = client.pc
  BY <1>1 DEF PutPiece, ClientTasks
<1>5. /\ Rest' = Rest /\ Rest = Len(toDaemon) + Len(client.out)
      /\ Taken' = Taken /\ Left' = Left /\ Gone' = Gone
      /\ UNCHANGED <<sent, done, daemon>>
  <2>1. UNCHANGED <<sent, done, daemon, cause>>
    BY DEF PutPiece
  <2>2. Rest' = Rest /\ Rest = Len(toDaemon) + Len(client.out)
    <3>1. Len(toDaemon') = Len(toDaemon) + 1 /\ Len(client'.out) = Len(client.out) - 1
      BY <1>2, <1>3, <1>4
    <3>2. Rest' = Len(toDaemon') + Len(client'.out) /\ Rest = Len(toDaemon) + Len(client.out)
      BY DEF Rest
    <3>3. Rest' = (Len(toDaemon) + 1) + (Len(client.out) - 1)
      BY <3>1, <3>2
    <3>4. \A i, j \in Int : (i + 1) + (j - 1) = i + j
      OBVIOUS
    <3>5. Len(toDaemon) \in Int /\ Len(client.out) \in Int
      BY <1>2
    <3> QED
      BY <3>2, <3>3, <3>4, <3>5, Zenon
  <2>3. Taken' = Taken /\ Left' = Left /\ Gone' = Gone
    BY <2>1, <1>4 DEF Taken, Left, Gone, Holding
  <2> QED
    BY <2>1, <2>2, <2>3
<1>6. \A n \in 1 .. Rest : Nth(toDaemon', client'.out, n) = Nth(toDaemon, client.out, n)
  <2> SUFFICES ASSUME NEW n \in 1 .. Rest
               PROVE  Nth(toDaemon', client'.out, n) = Nth(toDaemon, client.out, n)
    OBVIOUS
  <2>1. CASE n <= Len(toDaemon)
    BY <2>1, <1>2, <1>3 DEF Nth
  <2>2. CASE n = Len(toDaemon) + 1
    BY <2>2, <1>2, <1>3 DEF Nth
  <2>3. CASE n > Len(toDaemon) + 1
    <3>1. n - (Len(toDaemon) + 1) \in 1 .. Len(client.out) - 1
      BY <2>3, <1>2, <1>5
    <3>2. client'.out[n - (Len(toDaemon) + 1)] = client.out[n - Len(toDaemon)]
      BY <3>1, <1>2, <1>4
    <3> QED
      BY <2>3, <3>2, <1>2, <1>3 DEF Nth
  <2> QED
    BY <2>1, <2>2, <2>3, <1>2, <1>5
<1> QED
  BY <1>5, <1>6 DEF Stream, Holding

\* The frames of new commands are written behind what is there.
LEMMA StreamGrows ==
    ASSUME TypeOK, Stream, NEW kinds \in Seq(Kinds), Len(kinds) \in 1 .. 2, NEW pc, pc # "ended",
           Sends(kinds, pc), ~Gone, client.out = <<>>, UNCHANGED <<toDaemon, daemon, done, cause>>
    PROVE  Stream'
<1>1. /\ toDaemon \in Seq(CommandPieces) /\ Len(toDaemon) \in Nat /\ Len(client.out) = 0
      /\ Len(sent) \in Nat /\ Len(done) \in Nat /\ Len(kinds) \in Nat
  BY Types
<1>2. /\ Len(sent') = Len(sent) + Len(kinds)
      /\ \A n \in 1 .. Len(sent) : sent'[n] = sent[n]
      /\ Len(client'.out) = 2 * Len(kinds)
      /\ client'.pc = pc
      /\ \A n \in 1 .. Len(kinds) :
            /\ client'.out[2 * n - 1] = Piece("length", sent'[Len(sent) + n])
            /\ client'.out[2 * n] = Piece("body", sent'[Len(sent) + n])
  BY SendsFrames
<1>3. /\ Rest = Len(toDaemon) /\ Rest' = Rest + 2 * Len(kinds)
      /\ Left \in Int /\ Left' = Left + Len(kinds) /\ Left = Len(sent) - Len(done)
      /\ Taken' = Taken /\ Taken \in 0 .. 1
      /\ Rest + Taken = 2 * Left
      /\ ~Gone'
  BY <1>1, <1>2 DEF Rest, Left, Taken, Holding, Stream, Gone
<1>4. ASSUME NEW k \in 1 .. Left'
      PROVE  /\ 2 * k - 1 - Taken \in 1 .. Rest' =>
                  Nth(toDaemon', client'.out, 2 * k - 1 - Taken) = Piece("length", sent'[Len(done) + k])
             /\ 2 * k - Taken \in 1 .. Rest' =>
                  Nth(toDaemon', client'.out, 2 * k - Taken) = Piece("body", sent'[Len(done) + k])
  <2>1. CASE k <= Left
    <3>1. k \in 1 .. Left /\ Len(done) + k \in 1 .. Len(sent)
      BY <2>1, <1>1, <1>3
    <3>2. /\ 2 * k - 1 - Taken \in 1 .. Rest =>
                Nth(toDaemon, client.out, 2 * k - 1 - Taken) = Piece("length", sent[Len(done) + k])
          /\ 2 * k - Taken \in 1 .. Rest =>
                Nth(toDaemon, client.out, 2 * k - Taken) = Piece("body", sent[Len(done) + k])
      BY <3>1 DEF Stream
    <3>3. sent'[Len(done) + k] = sent[Len(done) + k]
      BY <3>1, <1>2
    <3>4. \A n \in 1 .. Rest : Nth(toDaemon', client'.out, n) = Nth(toDaemon, client.out, n)
      BY <1>1, <1>3 DEF Nth
    <3>5. /\ 2 * k - 1 - Taken <= Rest /\ 2 * k - Taken <= Rest
      BY <2>1, <1>3
    <3>6. /\ 2 * k - 1 - Taken \in 1 .. Rest' => 2 * k - 1 - Taken \in 1 .. Rest
          /\ 2 * k - Taken \in 1 .. Rest' => 2 * k - Taken \in 1 .. Rest
      BY <3>5, <1>1, <1>3
    <3> QED
      BY <3>2, <3>3, <3>4, <3>6
  <2>2. CASE k > Left
    <3> DEFINE n == k - Left
    <3>1. /\ n \in 1 .. Len(kinds) /\ Len(done) + k = Len(sent) + n
          /\ 2 * k - 1 - Taken = Len(toDaemon) + (2 * n - 1)
          /\ 2 * k - Taken = Len(toDaemon) + 2 * n
      <4>1. k \in Int /\ k <= Left + Len(kinds)
        BY <1>1, <1>3
      <4>2. n \in 1 .. Len(kinds)
        BY <4>1, <2>2, <1>1, <1>3
      <4>3. Len(done) + k = Len(sent) + n
        BY <4>1, <1>1, <1>3
      <4>4. k = Left + n /\ n \in Int
        BY <4>1, <1>3
      <4>5. Len(toDaemon) + Taken = 2 * Left /\ Len(toDaemon) \in Int /\ Taken \in Int /\ Left \in Int
        BY <1>1, <1>3
      <4> HIDE DEF n
      <4>6. 2 * k - Taken = Len(toDaemon) + 2 * n
        BY <4>4, <4>5
      <4>7. 2 * k - 1 - Taken = Len(toDaemon) + (2 * n - 1)
        BY <4>4, <4>5
      <4> QED
        BY <4>2, <4>3, <4>6, <4>7
    <3> HIDE DEF n
    <3>2. /\ Nth(toDaemon', client'.out, Len(toDaemon) + (2 * n - 1)) = client'.out[2 * n - 1]
          /\ Nth(toDaemon', client'.out, Len(toDaemon) + 2 * n) = client'.out[2 * n]
      BY <3>1, <1>1 DEF Nth
    <3> QED
      BY <3>1, <3>2, <1>2
  <2> QED
    BY <2>1, <2>2, <1>3, <1>1
<1>5. Holding' => daemon'.holds = sent'[Len(done') + 1]
  <2> SUFFICES ASSUME Holding' PROVE daemon'.holds = sent'[Len(done') + 1]
    OBVIOUS
  <2>1. Holding /\ Taken = 1 /\ daemon.holds = sent[Len(done) + 1]
    BY DEF Holding, Taken, Stream
  <2>2. Len(done) + 1 \in 1 .. Len(sent)
    BY <2>1, <1>1, <1>3
  <2> QED
    BY <2>1, <2>2, <1>2
<1>6. Rest' + Taken' = 2 * Left' /\ Rest' + Taken' <= 2 * Left'
  BY <1>1, <1>3
<1>7. Taken' = Taken /\ done' = done
  BY <1>3
<1> QED
  BY <1>4, <1>5, <1>6, <1>7 DEF Stream

\* What the daemon's read leaves of the stream.
LEMMA PieceRead ==
    ASSUME TypeOK, toDaemon # <<>>, toDaemon' = Tail(toDaemon), client' = client
    PROVE  /\ Rest' = Rest - 1 /\ Rest \in Nat \ {0}
           /\ \A n \in 1 .. Rest' :
                Nth(toDaemon', client'.out, n) = Nth(toDaemon, client.out, n + 1)
<1>1. toDaemon \in Seq(CommandPieces) /\ Len(client.out) \in Nat
  BY Types DEF TypeOK
<1>2. /\ Len(toDaemon') = Len(toDaemon) - 1 /\ Len(toDaemon) \in Nat \ {0}
      /\ \A i \in 1 .. Len(toDaemon) - 1 : toDaemon'[i] = toDaemon[i + 1]
  BY <1>1, HeadTailProperties, EmptySeq
<1>3. Rest' = Len(toDaemon) - 1 + Len(client.out) /\ Rest = Len(toDaemon) + Len(client.out)
  BY <1>2 DEF Rest
<1>4. ASSUME NEW n \in 1 .. Rest'
      PROVE  Nth(toDaemon', client'.out, n) = Nth(toDaemon, client.out, n + 1)
  <2>1. CASE n <= Len(toDaemon) - 1
    BY <2>1, <1>1, <1>2, <1>3 DEF Nth
  <2>2. CASE n > Len(toDaemon) - 1
    <3>1. n - (Len(toDaemon) - 1) = n + 1 - Len(toDaemon)
      BY <1>1, <1>2, <1>3
    <3> QED
      BY <2>2, <3>1, <1>1, <1>2, <1>3 DEF Nth
  <2> QED
    BY <2>1, <2>2, <1>1, <1>2, <1>3
<1> QED
  BY <1>1, <1>2, <1>3, <1>4


\* A length that is read is that of the next command, and it is held.
LEMMA StreamRead ==
    ASSUME IInv, ReadLength
    PROVE  Stream'
<1> USE DEF log
<1>1. TypeOK /\ Stream /\ ~Closed /\ toDaemon # <<>> /\ Head(toDaemon).part = "length"
  BY DEF IInv, ReadLength, Comes, Reading, Closed
<1>2. /\ UNCHANGED <<client, sent, done, cause>> /\ toDaemon' = Tail(toDaemon)
      /\ daemon' = [daemon EXCEPT !.holds = Head(toDaemon).of]
  BY DEF ReadLength
<1>3. Taken = 0
  BY <1>1, HeadOfStream DEF Taken, Piece
<1>4. Head(toDaemon) = Piece("length", sent[Len(done) + 1]) /\ sent[Len(done) + 1] # NoCommand
  BY <1>1, <1>3, HeadOfStream
<1>5. daemon'.holds = sent[Len(done) + 1] /\ Holding'
  <2>1. daemon \in DaemonTasks
    BY <1>1, Types
  <2>2. daemon'.holds = Head(toDaemon).of
    BY <2>1, <1>2 DEF DaemonTasks
  <2> QED
    BY <2>2, <1>4 DEF Piece, Holding, NoCommand
<1>6. Taken' = 1
  BY <1>5 DEF Taken
<1>7. /\ Rest' = Rest - 1 /\ Rest \in Nat \ {0}
      /\ \A n \in 1 .. Rest' : Nth(toDaemon', client'.out, n) = Nth(toDaemon, client.out, n + 1)
  BY <1>1, <1>2, PieceRead
<1>8. Left' = Left /\ Gone' = Gone /\ Left \in Int
  BY <1>1, <1>2 DEF Left, Gone, TypeOK
<1>9. ASSUME NEW k \in 1 .. Left
      PROVE  /\ 2 * k - 1 - 1 \in 1 .. Rest' =>
                  Nth(toDaemon', client'.out, 2 * k - 1 - 1) = Piece("length", sent[Len(done) + k])
             /\ 2 * k - 1 \in 1 .. Rest' =>
                  Nth(toDaemon', client'.out, 2 * k - 1) = Piece("body", sent[Len(done) + k])
  <2>1. /\ 2 * k - 1 \in 1 .. Rest =>
              Nth(toDaemon, client.out, 2 * k - 1) = Piece("length", sent[Len(done) + k])
        /\ 2 * k \in 1 .. Rest =>
              Nth(toDaemon, client.out, 2 * k) = Piece("body", sent[Len(done) + k])
    BY <1>1, <1>3, <1>8 DEF Stream
  <2>2. /\ 2 * k - 1 - 1 \in 1 .. Rest' => 2 * k - 1 \in 1 .. Rest /\ (2 * k - 1 - 1) + 1 = 2 * k - 1
        /\ 2 * k - 1 \in 1 .. Rest' => 2 * k \in 1 .. Rest /\ (2 * k - 1) + 1 = 2 * k
    BY <1>7, <1>8
  <2> QED
    BY <2>1, <2>2, <1>7
<1>10. Rest' + Taken' = Rest + Taken
  BY <1>3, <1>6, <1>7
<1> QED
  BY <1>1, <1>2, <1>5, <1>6, <1>8, <1>9, <1>10 DEF Stream

\* The body that is read is that of the command whose length is held.
LEMMA StreamExecute ==
    ASSUME IInv, Execute
    PROVE  /\ daemon.holds = sent[Len(done) + 1]
           /\ Left \in Nat \ {0}
           /\ Stream'
<1> USE DEF log
<1>1. TypeOK /\ Stream /\ ~Closed /\ toDaemon # <<>> /\ Holding /\ cause # "torn"
  BY DEF IInv, Execute, Comes, Reading, Closed, Causes
<1>2. UNCHANGED <<client, sent, cause>> /\ toDaemon' = Tail(toDaemon) /\ done' = Append(done, daemon.holds)
  BY DEF Execute
<1>3. Taken = 1
  BY <1>1 DEF Taken
<1>4. daemon.holds = sent[Len(done) + 1] /\ Left \in Nat \ {0}
  BY <1>1, HeadOfStream DEF Stream
<1>5. ~Holding' /\ Taken' = 0
  <2>1. ~Holding'
    BY <1>1 DEF Execute, Holding, TypeOK
  <2> QED
    BY <2>1, <1>1, <1>2 DEF Taken
<1>6. /\ Rest' = Rest - 1 /\ Rest \in Nat \ {0}
      /\ \A n \in 1 .. Rest' : Nth(toDaemon', client'.out, n) = Nth(toDaemon, client.out, n + 1)
  BY <1>1, <1>2, PieceRead
<1>7. Len(done') = Len(done) + 1 /\ Len(done) \in Nat /\ Len(sent) \in Nat
  BY <1>1, <1>2, Types, AppendProperties DEF DaemonTasks
<1>8. Left' = Left - 1 /\ Gone' = Gone
  BY <1>2, <1>7 DEF Left, Gone
<1>9. ASSUME NEW k \in 1 .. Left - 1
      PROVE  /\ 2 * k - 1 \in 1 .. Rest' =>
                  Nth(toDaemon', client'.out, 2 * k - 1) = Piece("length", sent[Len(done) + 1 + k])
             /\ 2 * k \in 1 .. Rest' =>
                  Nth(toDaemon', client'.out, 2 * k) = Piece("body", sent[Len(done) + 1 + k])
  <2>1. k + 1 \in 1 .. Left /\ Len(done) + (k + 1) = Len(done) + 1 + k
    BY <1>4, <1>7
  <2>2. /\ 2 * (k + 1) - 1 - 1 \in 1 .. Rest =>
              Nth(toDaemon, client.out, 2 * (k + 1) - 1 - 1) = Piece("length", sent[Len(done) + (k + 1)])
        /\ 2 * (k + 1) - 1 \in 1 .. Rest =>
              Nth(toDaemon, client.out, 2 * (k + 1) - 1) = Piece("body", sent[Len(done) + (k + 1)])
    BY <2>1, <1>1, <1>3 DEF Stream
  <2>3. 2 * (k + 1) - 1 - 1 = (2 * k - 1) + 1 /\ 2 * (k + 1) - 1 = 2 * k + 1
    BY <1>4
  <2>4. /\ 2 * k - 1 \in 1 .. Rest' => (2 * k - 1) + 1 \in 1 .. Rest
        /\ 2 * k \in 1 .. Rest' => 2 * k + 1 \in 1 .. Rest
    BY <1>4, <1>6
  <2> QED
    BY <2>1, <2>2, <2>3, <2>4, <1>6
<1>10. /\ Rest + Taken <= 2 * Left => Rest' + Taken' <= 2 * Left'
       /\ Rest + Taken = 2 * Left => Rest' + Taken' = 2 * Left'
  BY <1>3, <1>4, <1>5, <1>6, <1>8
<1>11. \A k \in 1 .. Left' :
          /\ 2 * k - 1 - Taken' \in 1 .. Rest' =>
                Nth(toDaemon', client'.out, 2 * k - 1 - Taken') = Piece("length", sent'[Len(done') + k])
          /\ 2 * k - Taken' \in 1 .. Rest' =>
                Nth(toDaemon', client'.out, 2 * k - Taken') = Piece("body", sent'[Len(done') + k])
  <2>1. \A k \in 1 .. Left' : 2 * k - 1 - Taken' = 2 * k - 1 /\ 2 * k - Taken' = 2 * k
    BY <1>4, <1>5, <1>8
  <2> QED
    BY <2>1, <1>2, <1>7, <1>8, <1>9
<1> QED
  BY <1>1, <1>4, <1>5, <1>8, <1>10, <1>11 DEF Stream

\* A length that is dropped is off the stream all the same.
LEMMA StreamTick ==
    ASSUME IInv, Tick
    PROVE  Stream'
<1> USE DEF log, wire
<1>1. TypeOK /\ Stream
  BY DEF IInv, Tick, Reading, Closed
<1>2. UNCHANGED <<toDaemon, client, sent, done>> /\ cause' = IF Holding THEN "torn" ELSE cause
  BY DEF Tick
<1>3. ~Holding'
  BY <1>1 DEF Tick, Holding, TypeOK
<1>4. Taken' = Taken /\ Rest' = Rest /\ Left' = Left /\ Gone' = Gone
  BY <1>2, <1>3 DEF Taken, Rest, Left, Gone
<1> QED
  BY <1>1, <1>2, <1>3, <1>4 DEF Stream


\* The client and the daemon's task go on as they were: what is said of the one
\* is not touched by a step of the other.
LEMMA ClientInv ==
    ASSUME IInv, ClientStep \/ Subscribe \/ Ask \/ Key \/ Dies
    PROVE  IInv'
<1> USE DEF wire, log
<1>1. TypeOK /\ TypeOK' /\ client \in ClientTasks /\ Len(sent) \in Nat
  BY ClientTypes, Types DEF IInv
<1>2. ASSUME UNCHANGED <<link, daemon, sent, done, over, answered, cause>>, Gone => Gone', ~Closed => Stream'
      PROVE  IInv'
  BY <1>1, <1>2
  DEF IInv, SentInOrder, Causes, Answering, Working, Executing, Begun, ClosedForACause, Closed, Holding
<1>3. ASSUME Ends, UNCHANGED <<link, toDaemon, daemon, log, astray, shown, cause>>
      PROVE  IInv'
  <2>1. ~Closed => Stream'
    BY <1>1, <1>3, StreamCut DEF IInv
  <2>2. Gone'
    BY <1>3 DEF Ends, Gone
  <2> QED
    BY <1>2, <1>3, <2>1, <2>2
<1>4. ASSUME NEW kinds \in Seq(Kinds), Len(kinds) \in 1 .. 2, NEW pc \in {"waiting", "loop", "leaving"},
             Sends(kinds, pc), ~Gone, client.out = <<>>,
             \A n \in 1 .. Len(kinds) : kinds[n] = "subscribe" => link.client = "tui",
             UNCHANGED <<link, wire, daemon, done, over, answered, astray, shown, cause>>
      PROVE  IInv'
  <2>1. ~Closed => Stream'
    BY <1>1, <1>4, StreamGrows DEF IInv
  <2>2. /\ sent' \in Seq(Sent)
        /\ Len(sent') = Len(sent) + Len(kinds)
        /\ \A n \in 1 .. Len(sent) : sent'[n] = sent[n]
        /\ \A n \in 1 .. Len(kinds) :
                sent'[Len(sent) + n] = [id |-> Len(sent) + n, kind |-> kinds[n]]
        /\ client'.pc = pc
    BY <1>1, <1>4, SendsFrames
  <2>3. SentInOrder'
    <3> SUFFICES ASSUME NEW n \in DOMAIN sent'
                 PROVE  sent'[n].id = n /\ (sent'[n].kind = "subscribe" => link.client = "tui")
      BY <1>4 DEF SentInOrder
    <3>1. n \in 1 .. Len(sent) + Len(kinds) /\ Len(kinds) \in Nat /\ DOMAIN sent = 1 .. Len(sent)
      BY <1>1, <2>2, LenProperties, Types
    <3>2. CASE n \in 1 .. Len(sent)
      BY <3>1, <3>2, <2>2 DEF IInv, SentInOrder
    <3>3. CASE n \notin 1 .. Len(sent)
      <4>1. n - Len(sent) \in 1 .. Len(kinds) /\ Len(sent) + (n - Len(sent)) = n
        BY <3>1, <3>3, <1>1
      <4>2. sent'[n] = [id |-> n, kind |-> kinds[n - Len(sent)]]
        BY <4>1, <2>2
      <4> QED
        BY <4>1, <4>2, <1>4
    <3> QED
      BY <3>2, <3>3
  <2>4. Causes' /\ Answering' /\ ClosedForACause' /\ Closed' = Closed
    BY <1>4 DEF IInv, Causes, Answering, Working, Executing, Begun, ClosedForACause, Closed, Holding, Gone
  <2> QED
    BY <1>1, <2>1, <2>3, <2>4 DEF IInv
<1>5. CASE PutPiece
  <2>1. ~Closed => Stream'
    BY <1>1, <1>5, StreamPut DEF IInv
  <2>2. Gone' = Gone
    BY <1>1, <1>5 DEF PutPiece, Gone, ClientTasks
  <2> QED
    BY <1>2, <1>5, <2>1, <2>2 DEF PutPiece
<1>6. CASE PutFails \/ GetsEnd \/ Leave \/ Dies
  BY <1>3, <1>6 DEF PutFails, GetsEnd, Leave, Dies
<1>7. CASE GetAnswer \/ DrainFrame \/ DrainHalf \/ DrainAstray
  <2>1. /\ UNCHANGED <<link, toDaemon, daemon, sent, done, over, answered, cause>>
        /\ client'.out = client.out /\ Gone' = Gone
    BY <1>1, <1>7 DEF GetAnswer, DrainFrame, DrainHalf, DrainAstray, Idle, Gone, ClientTasks
  <2>2. ~Closed => Stream'
    BY <2>1, StreamStays DEF IInv
  <2> QED
    BY <1>2, <2>1, <2>2
<1>8. CASE Subscribe
  <2>1. /\ <<"subscribe">> \in Seq(Kinds) /\ Len(<<"subscribe">>) \in 1 .. 2
        /\ "waiting" \in {"waiting", "loop", "leaving"}
    BY DEF Kinds
  <2>2. ~Gone /\ client.out = <<>> /\ link.client = "tui"
    BY <1>8 DEF Subscribe, Idle, Gone
  <2> QED
    BY <1>4, <1>8, <2>1, <2>2, Zenon DEF Subscribe
<1>9. CASE Ask
  <2>1. PICK k \in Commands : Sends(<<k>>, "waiting")
    BY <1>9 DEF Ask
  <2>2. /\ <<k>> \in Seq(Kinds) /\ Len(<<k>>) \in 1 .. 2
        /\ "waiting" \in {"waiting", "loop", "leaving"}
        /\ \A n \in 1 .. Len(<<k>>) : <<k>>[n] # "subscribe"
    BY CommandsAssumption DEF Kinds
  <2>3. ~Gone /\ client.out = <<>>
    BY <1>9 DEF Ask, Idle, Gone
  <2> QED
    BY <1>4, <1>9, <2>1, <2>2, <2>3, Zenon DEF Ask
<1>10. CASE Key
  <2>1. /\ <<"spike">> \in Seq(Kinds) /\ Len(<<"spike">>) \in 1 .. 2
        /\ <<"spike", "reload">> \in Seq(Kinds) /\ Len(<<"spike", "reload">>) \in 1 .. 2
        /\ <<"spike", "toggle">> \in Seq(Kinds) /\ Len(<<"spike", "toggle">>) \in 1 .. 2
        /\ "loop" \in {"waiting", "loop", "leaving"} /\ "leaving" \in {"waiting", "loop", "leaving"}
    BY CommandsAssumption DEF Kinds
  <2>2. /\ \A n \in 1 .. Len(<<"spike">>) : <<"spike">>[n] # "subscribe"
        /\ \A n \in 1 .. Len(<<"spike", "reload">>) : <<"spike", "reload">>[n] # "subscribe"
        /\ \A n \in 1 .. Len(<<"spike", "toggle">>) : <<"spike", "toggle">>[n] # "subscribe"
    OBVIOUS
  <2>3. ~Gone /\ client.out = <<>>
    BY <1>10 DEF Key, Idle, Gone
  <2> QED
    BY <1>4, <1>10, <2>1, <2>2, <2>3, Zenon DEF Key
<1> QED
  BY <1>5, <1>6, <1>7, <1>8, <1>9, <1>10 DEF ClientStep


\* When the daemon hangs up there is nothing to be said of the stream any more.
LEMMA HangUpInv ==
    ASSUME IInv, DaemonStep \/ WorkEnds, HangsUp, UNCHANGED <<link, wire, client, log>>,
           cause' = cause \/ (cause' = "shell" /\ link.server = "gateway"),
           \/ Gone
           \/ cause' = "torn" /\ cause = "torn"
           \/ cause' = "shell" /\ link.server = "gateway"
    PROVE  IInv'
<1> USE DEF log, wire
<1>1. TypeOK /\ TypeOK' /\ daemon \in DaemonTasks /\ Causes
  BY DaemonTypes, Types DEF IInv
<1>2. /\ daemon'.pc = "closed" /\ daemon'.subscribed = daemon.subscribed
      /\ daemon'.holds = NoCommand /\ daemon'.out = <<>>
  BY <1>1 DEF HangsUp, DaemonTasks
<1>3. SentInOrder'
  BY DEF IInv, SentInOrder
<1>4. Causes'
  BY <1>1, <1>2 DEF Causes, Holding
<1>5. Answering' /\ Closed'
  BY <1>2 DEF Answering, Working, Closed
<1>6. ClosedForACause'
  BY <1>1, <1>2 DEF ClosedForACause, Causes, Gone
<1> QED
  BY <1>1, <1>3, <1>4, <1>5, <1>6 DEF IInv

LEMMA DaemonInv ==
    ASSUME IInv, DaemonStep \/ WorkEnds
    PROVE  IInv'
<1> USE DEF log, wire
<1>1. TypeOK /\ TypeOK' /\ daemon \in DaemonTasks /\ Causes /\ Answering
  BY DaemonTypes, Types DEF IInv
<1>2. ASSUME Stream', SentInOrder', Causes', Answering', ~Closed'
      PROVE  IInv'
  BY <1>1, <1>2 DEF IInv, ClosedForACause
<1>3. CASE Accept
  <2>1. /\ daemon'.pc = "read" /\ daemon'.subscribed = daemon.subscribed
        /\ daemon'.holds = daemon.holds /\ daemon'.out = daemon.out
    BY <1>1, <1>3 DEF Accept, DaemonTasks
  <2>2. Stream'
    BY <1>3, <2>1, StreamStays DEF Accept, IInv, Closed, Gone
  <2>3. Causes' /\ Answering' /\ SentInOrder' /\ ~Closed'
    BY <1>1, <1>3, <2>1 DEF Accept, Causes, Answering, Working, SentInOrder, IInv, Closed, Holding
  <2> QED
    BY <1>2, <2>2, <2>3
<1>4. CASE ReadLength
  <2>1. /\ daemon'.pc = "read" /\ daemon'.subscribed = daemon.subscribed /\ daemon'.out = daemon.out
    BY <1>1, <1>4 DEF ReadLength, Reading, DaemonTasks
  <2>2. cause # "torn"
    BY <1>4, HeadOfStream DEF ReadLength, Comes, Reading, Closed, Taken, Piece
  <2>3. Causes' /\ Answering' /\ SentInOrder' /\ ~Closed'
    BY <1>1, <1>4, <2>1, <2>2 DEF ReadLength, Reading, Causes, Answering, Working, SentInOrder, IInv, Closed
  <2> QED
    BY <1>2, <1>4, <2>3, StreamRead
<1>5. CASE Execute
  <2> DEFINE c == daemon.holds
  <2>1. /\ daemon'.pc = "work" /\ daemon'.holds = NoCommand /\ daemon'.out = daemon.out
        /\ daemon'.subscribed = daemon.subscribed
    BY <1>1, <1>5 DEF Execute, DaemonTasks
  <2>2. c = sent[Len(done) + 1] /\ Left \in Nat \ {0} /\ c \in Sent
    BY <1>1, <1>5, StreamExecute DEF DaemonTasks
  <2>3. Len(done) \in Nat /\ Len(sent) \in Nat /\ sent \in Seq(Sent) /\ done \in Seq(Sent)
    BY <1>1, Types
  <2>4. Len(done) + 1 \in DOMAIN sent
    BY <2>2, <2>3, LenProperties DEF Left
  <2>5. c.id = Len(done) + 1 /\ (c.kind = "subscribe" => link.client = "tui")
    BY <2>2, <2>4 DEF IInv, SentInOrder
  <2>6. /\ done' = Append(done, c) /\ UNCHANGED <<link, sent, over, answered, cause>>
        /\ answered = over /\ over = Len(done) /\ daemon.out = <<>>
    BY <1>1, <1>5 DEF Execute, Answering, Reading
  <2>7. Len(done') = Len(done) + 1 /\ done'[Len(done')] = c
    BY <2>2, <2>3, <2>6, AppendProperties
  <2> HIDE DEF c
  <2>8. Answering'
    BY <2>1, <2>5, <2>6, <2>7 DEF Answering, Working, Begun
  <2>9. Causes' /\ SentInOrder' /\ ~Closed'
    BY <1>1, <1>5, <2>1, <2>6 DEF Execute, Causes, SentInOrder, IInv, Closed, Holding
  <2> QED
    BY <1>2, <1>5, <2>8, <2>9, StreamExecute
<1>11. CASE Returns
  <2> DEFINE c == done[Len(done)]
             m(ok) == [to |-> c.id, state |-> c.kind = "status", ok |-> ok]
  <2>1. PICK ok \in Outcomes(c) :
            daemon' = [daemon EXCEPT !.pc = "write", !.subscribed = @ \/ c.kind = "subscribe",
                                     !.out = Frame(m(ok))]
    BY <1>11 DEF Returns, Respond
  <2>2. /\ daemon'.pc = "write" /\ daemon'.holds = daemon.holds /\ daemon'.out = Frame(m(ok))
        /\ daemon'.subscribed <=> daemon.subscribed \/ c.kind = "subscribe"
    BY <1>1, <2>1 DEF DaemonTasks
  <2>3. /\ over \in Nat /\ Len(done) \in Nat /\ over < Len(done) /\ done \in Seq(Sent)
        /\ answered = over /\ over + 1 = Len(done) /\ Begun(c)
    BY <1>1, <1>11, Types DEF Returns, Executing, Answering
  <2>4. c \in Sent /\ ok \in BOOLEAN
    <3>1. Len(done) \in 1 .. Len(done)
      BY <2>3
    <3> QED
      BY <2>3, <3>1, ElementOfSeq DEF Outcomes
  <2>5. m(ok) \in Messages /\ Owed(m(ok)) = 1
    BY <2>3, <2>4 DEF Sent, Messages, Owed, Begun
  <2>6. UNCHANGED <<link, wire, client, sent, done, answered, cause>> /\ over' = Len(done)
    BY <1>11, <2>3 DEF Returns
  <2>7. c.kind = "subscribe" => link.client = "tui"
    BY <2>3 DEF Begun
  <2> HIDE DEF c, m
  <2>8. Answering'
    BY <2>2, <2>3, <2>5, <2>6 DEF Answering, Working
  <2>9. Stream'
    BY <1>11, <2>2, <2>6, StreamStays DEF Returns, Working, IInv, Closed, Gone
  <2>10. Causes' /\ SentInOrder' /\ ~Closed'
    BY <1>1, <2>2, <2>6, <2>7 DEF Causes, SentInOrder, IInv, Closed, Holding
  <2> QED
    BY <1>2, <2>8, <2>9, <2>10
<1>12. CASE Builds
  <2>1. /\ daemon'.pc = "write" /\ daemon'.holds = daemon.holds /\ daemon'.out = Frame(Snapshot)
        /\ daemon'.subscribed = daemon.subscribed
        /\ UNCHANGED <<link, wire, client, log, cause>>
    BY <1>1, <1>12 DEF Builds, DaemonTasks
  <2>2. answered = over /\ over = Len(done) /\ over \in Nat
    BY <1>1, <1>12, Types DEF Builds, Executing, Answering
  <2>3. Snapshot \in Messages /\ answered + Owed(Snapshot) = over
    BY <2>2, SnapshotIsMessage
  <2>4. Answering'
    BY <2>1, <2>2, <2>3 DEF Answering, Working
  <2>5. Stream'
    BY <1>12, <2>1, StreamStays DEF Builds, Working, IInv, Closed, Gone
  <2>6. Causes' /\ SentInOrder' /\ ~Closed'
    BY <1>1, <2>1 DEF Causes, SentInOrder, IInv, Closed, Holding
  <2> QED
    BY <1>2, <2>4, <2>5, <2>6
<1>6. CASE RunFails
  BY <1>6, HangUpInv DEF RunFails
<1>7. CASE Misread
  <2>1. cause = "torn"
    BY <1>7, HeadOfStream DEF Misread, Comes, Reading, Closed, Taken, Piece
  <2> QED
    BY <1>7, <2>1, HangUpInv DEF Misread
<1>8. CASE ReadsEnd \/ WriteFails
  BY <1>8, HangUpInv DEF ReadsEnd, WriteFails
<1>9. CASE Tick
  <2>1. /\ daemon'.pc = "work" /\ daemon'.holds = NoCommand /\ daemon'.out = daemon.out
        /\ daemon'.subscribed = daemon.subscribed
    BY <1>1, <1>9 DEF Tick, DaemonTasks
  <2>2. /\ answered = over /\ over = Len(done) /\ daemon.out = <<>>
        /\ UNCHANGED <<done, over, answered>> /\ Len(done) \in Nat
    BY <1>1, <1>9, Types DEF Tick, Answering, Reading
  <2>3. Answering'
    BY <2>1, <2>2 DEF Answering, Working, Executing
  <2>4. Causes' /\ SentInOrder' /\ ~Closed'
    BY <1>1, <1>9, <2>1 DEF Tick, Causes, SentInOrder, IInv, Closed, Holding
  <2> QED
    BY <1>2, <1>9, <2>3, <2>4, StreamTick
<1>10. CASE WritePiece
  <2>1. PICK m \in Messages :
            /\ daemon.out = Frame(m) \/ daemon.out = <<Piece("body", m)>>
            /\ answered + Owed(m) = over
            /\ over = Len(done)
    BY <1>1, <1>10 DEF WritePiece, Answering
  <2>2. /\ daemon' = [daemon EXCEPT !.out = Tail(@),
                                    !.pc = IF Len(daemon.out) = 1 THEN "read" ELSE "write"]
        /\ answered' = IF Head(daemon.out).part = "body" /\ Head(daemon.out).of.to # 0
                       THEN answered + 1 ELSE answered
        /\ UNCHANGED <<link, toDaemon, client, sent, done, over, cause>>
        /\ daemon.pc = "write"
    BY <1>10 DEF WritePiece
  <2>3. /\ daemon'.pc = IF Len(daemon.out) = 1 THEN "read" ELSE "write"
        /\ daemon'.out = Tail(daemon.out) /\ daemon'.holds = daemon.holds
        /\ daemon'.subscribed = daemon.subscribed
    BY <1>1, <2>2 DEF DaemonTasks
  <2>4. Answering'
    <3>1. CASE daemon.out = Frame(m)
      <4>1. /\ Len(daemon.out) = 2 /\ Head(daemon.out) = Piece("length", m)
            /\ Tail(daemon.out) = <<Piece("body", m)>>
        BY <3>1, FramesAreMessages
      <4>2. daemon'.pc = "write" /\ daemon'.out = <<Piece("body", m)>> /\ answered' = answered
        BY <4>1, <2>2, <2>3 DEF Piece
      <4> QED
        BY <4>2, <2>1, <2>2 DEF Answering, Working
    <3>2. CASE daemon.out = <<Piece("body", m)>>
      <4>1. Len(daemon.out) = 1 /\ Head(daemon.out) = Piece("body", m) /\ Tail(daemon.out) = <<>>
        BY <3>2
      <4>2. daemon'.pc = "read" /\ daemon'.out = <<>>
        BY <4>1, <2>3
      <4>3. answered \in Int
        BY <1>1, Types
      <4>4. answered' = answered + Owed(m)
        BY <4>1, <4>3, <2>2 DEF Piece, Owed
      <4> QED
        BY <4>2, <4>4, <2>1, <2>2 DEF Answering, Working
    <3> QED
      BY <3>1, <3>2, <2>1
  <2>5. Stream'
    BY <2>2, <2>3, StreamStays DEF IInv, Closed, Gone
  <2>6. Causes' /\ SentInOrder' /\ ~Closed'
    BY <1>1, <2>2, <2>3 DEF Causes, SentInOrder, IInv, Closed, Holding
  <2> QED
    BY <1>2, <2>4, <2>5, <2>6
<1> QED
  BY <1>3, <1>4, <1>5, <1>6, <1>7, <1>8, <1>9, <1>10, <1>11, <1>12 DEF DaemonStep, WorkEnds

\* The invariant is inductive.
LEMMA Invariance == Spec => []IInv
<1>1. IInv /\ [Next]_vars => IInv'
  <2> SUFFICES ASSUME IInv, [Next]_vars PROVE IInv'
    OBVIOUS
  <2>1. CASE DaemonStep \/ WorkEnds
    BY <2>1, DaemonInv
  <2>2. CASE ClientStep \/ Subscribe \/ Ask \/ Key \/ Dies
    BY <2>2, ClientInv
  <2>3. CASE UNCHANGED vars
    BY <2>3 DEF vars, wire, log, IInv, TypeOK, SentInOrder, Causes, Answering, Working, Executing, Begun, Closed, Stream,
                ClosedForACause, Holding, Reading, Rest, Taken, Left, Gone
  <2> QED
    BY <2>1, <2>2, <2>3 DEF Next
<1> QED
  BY InitInv, <1>1, PTL DEF Spec

\* The types, and that a task holds no length when it is not reading and has given
\* no more answers than there are commands that are over.
THEOREM TypeCorrect == Spec => []TypeOK
<1>1. IInv => TypeOK
  BY DEF IInv
<1> QED
  BY Invariance, <1>1, PTL

\* The daemon hangs up on a client that is there only when a snapshot has cut a
\* command in two, or when the gateway could not run its shell; in particular not
\* because a command was refused.
THEOREM ClosedOnlyForACause == Spec => []ClosedForACause
<1>1. IInv => ClosedForACause
  BY DEF IInv
<1> QED
  BY Invariance, <1>1, PTL


\* What the channel sees of a step of the daemon's task: nothing, a command that
\* is begun, or over, an answer, or the end.
LEMMA DaemonRefines ==
    ASSUME IInv, DaemonStep \/ WorkEnds
    PROVE  \/ Channel!Serve \/ Channel!Finish \/ Channel!Answer \/ Channel!Close
           \/ UNCHANGED Channel!vars
<1> USE DEF log, wire, Channel!vars
<1>1. TypeOK /\ daemon \in DaemonTasks /\ Answering /\ Len(done) \in Nat /\ Len(sent) \in Nat
      /\ over \in Nat /\ answered \in Nat
  BY Types DEF IInv
<1>2. CASE Accept \/ ReadLength \/ Tick \/ Builds
  <2>1. UNCHANGED <<sent, done, over, answered>>
    BY <1>2 DEF Accept, ReadLength, Tick, Builds
  <2>2. Closed' = Closed
    BY <1>1, <1>2 DEF Accept, ReadLength, Tick, Builds, Reading, Working, Closed, DaemonTasks
  <2> QED
    BY <2>1, <2>2
<1>3. CASE Execute
  <2>1. /\ ~Closed /\ answered = Len(done) /\ done' = Append(done, daemon.holds)
        /\ UNCHANGED <<sent, over, answered>>
    BY <1>1, <1>3 DEF Execute, Answering, Reading, Closed
  <2>2. daemon.holds = sent[Len(done) + 1] /\ Len(done) < Len(sent)
    BY <1>1, <1>3, StreamExecute DEF Left
  <2>3. Closed' = Closed
    BY <1>1, <1>3 DEF Execute, Reading, Closed, DaemonTasks
  <2> QED
    BY <2>1, <2>2, <2>3 DEF Channel!Serve
<1>6. CASE Returns
  <2>1. over < Len(done) /\ over' = over + 1 /\ UNCHANGED <<sent, done, answered>>
    BY <1>6 DEF Returns, Executing
  <2>2. ~Closed /\ Closed' = Closed
    <3> DEFINE c == done[Len(done)]
    <3>1. PICK ok \in Outcomes(c) : Respond(c, ok)
      BY <1>6 DEF Returns
    <3> HIDE DEF c
    <3> QED
      BY <1>1, <1>6, <3>1 DEF Returns, Working, Respond, Closed, DaemonTasks
  <2> QED
    BY <2>1, <2>2 DEF Channel!Finish
<1>4. CASE RunFails \/ Misread \/ ReadsEnd \/ WriteFails
  <2>1. UNCHANGED <<sent, done, over, answered>>
    BY <1>4 DEF RunFails, Misread, ReadsEnd, WriteFails
  <2>2. ~Closed /\ Closed'
    BY <1>1, <1>4 DEF RunFails, Misread, ReadsEnd, WriteFails, HangsUp, Reading, Working, Closed, DaemonTasks
  <2> QED
    BY <2>1, <2>2 DEF Channel!Close
<1>5. CASE WritePiece
  <2>1. PICK m \in Messages :
            /\ daemon.out = Frame(m) \/ daemon.out = <<Piece("body", m)>>
            /\ answered + Owed(m) = over
    BY <1>1, <1>5 DEF WritePiece, Answering
  <2>2. Head(daemon.out).of = m
    BY <2>1, FramesAreMessages DEF Piece
  <2>3. UNCHANGED <<sent, done, over>> /\ ~Closed /\ Closed' = Closed
    BY <1>1, <1>5 DEF WritePiece, Closed, DaemonTasks
  <2>4. CASE Head(daemon.out).part = "body" /\ m.to # 0
    <3>1. answered' = answered + 1
      BY <1>5, <2>2, <2>4 DEF WritePiece
    <3>2. answered < over
      BY <1>1, <2>1, <2>4 DEF Owed
    <3> QED
      BY <2>3, <3>1, <3>2 DEF Channel!Answer
  <2>5. CASE ~(Head(daemon.out).part = "body" /\ m.to # 0)
    <3>1. answered' = answered
      BY <1>5, <2>2, <2>5 DEF WritePiece
    <3> QED
      BY <2>3, <3>1
  <2> QED
    BY <2>4, <2>5
<1> QED
  BY <1>2, <1>3, <1>4, <1>5, <1>6 DEF DaemonStep, WorkEnds

\* And of a step of the client: nothing, or commands that are submitted.
LEMMA ClientRefines ==
    ASSUME IInv, ClientStep \/ Subscribe \/ Ask \/ Key \/ Dies
    PROVE  Channel!Submit \/ UNCHANGED Channel!vars
<1> USE DEF log, wire, Channel!vars
<1>1. TypeOK /\ sent \in Seq(Sent) /\ Len(sent) \in Nat
  BY Types DEF IInv
<1>2. ASSUME NEW kinds \in Seq(Kinds), Len(kinds) \in 1 .. 2, NEW pc, Sends(kinds, pc),
             UNCHANGED <<link, wire, daemon, done, over, answered, astray, shown, cause>>
      PROVE  Channel!Submit
  <2>1. /\ sent' \in Seq(Sent)
        /\ Len(sent') = Len(sent) + Len(kinds)
        /\ \A n \in 1 .. Len(sent) : sent'[n] = sent[n]
        /\ \A n \in 1 .. Len(kinds) :
                sent'[Len(sent) + n] = [id |-> Len(sent) + n, kind |-> kinds[n]]
    BY <1>1, <1>2, SendsFrames
  <2>2. Len(kinds) \in Nat
    BY <1>2, LenProperties
  <2>3. SubSeq(sent', 1, Len(sent)) = sent
    <3> DEFINE s == SubSeq(sent', 1, Len(sent))
    <3>1. \A i \in 1 .. Len(sent) : sent'[i] \in Sent
      BY <1>1, <2>1, ElementOfSeq
    <3>2. /\ s \in Seq(Sent)
          /\ Len(s) = IF 1 <= Len(sent) THEN Len(sent) - 1 + 1 ELSE 0
          /\ \A i \in 1 .. Len(sent) - 1 + 1 : s[i] = sent'[1 + i - 1]
      BY <3>1, <1>1, SubSeqProperties
    <3> HIDE DEF s
    <3>3. Len(s) = Len(sent) /\ \A i \in 1 .. Len(sent) : s[i] = sent[i]
      BY <3>2, <1>1, <2>1
    <3>4. s = sent
      BY <3>2, <3>3, <1>1, SeqEqual
    <3> QED
      BY <3>4 DEF s
  <2>4. Len(sent) < Len(sent')
    BY <1>1, <1>2, <2>1, <2>2
  <2>5. \A n \in DOMAIN sent' : sent'[n].id = n /\ sent'[n].kind \in Kinds
    <3> SUFFICES ASSUME NEW n \in DOMAIN sent' PROVE sent'[n].id = n /\ sent'[n].kind \in Kinds
      OBVIOUS
    <3>1. n \in 1 .. Len(sent) + Len(kinds) /\ DOMAIN sent = 1 .. Len(sent)
      BY <1>1, <2>1, <2>2, LenProperties
    <3>2. sent'[n].kind \in Kinds
      <4>1. n \in 1 .. Len(sent')
        BY <2>1, <3>1
      <4>2. sent'[n] \in Sent
        BY <2>1, <4>1, ElementOfSeq
      <4> QED
        BY <4>2 DEF Sent
    <3>3. CASE n \in 1 .. Len(sent)
      BY <3>1, <3>2, <3>3, <2>1 DEF IInv, SentInOrder
    <3>4. CASE n \notin 1 .. Len(sent)
      <4>1. n - Len(sent) \in 1 .. Len(kinds) /\ Len(sent) + (n - Len(sent)) = n
        BY <3>1, <3>4, <1>1, <2>2
      <4>2. sent'[n] = [id |-> n, kind |-> kinds[n - Len(sent)]]
        BY <4>1, <2>1
      <4> QED
        BY <4>2, <3>2
    <3> QED
      BY <3>3, <3>4
  <2>6. UNCHANGED <<done, over, answered>> /\ Closed' = Closed
    BY <1>2 DEF Closed
  <2> QED
    BY <2>3, <2>4, <2>5, <2>6 DEF Channel!Submit
<1>3. CASE ClientStep \/ Dies
  <2>1. UNCHANGED <<sent, done, over, answered, daemon>>
    BY <1>3 DEF ClientStep, Dies, PutPiece, PutFails, GetAnswer, GetsEnd, Leave, DrainFrame, DrainHalf,
                DrainAstray
  <2> QED
    BY <2>1 DEF Closed
<1>4. CASE Subscribe
  <2>1. <<"subscribe">> \in Seq(Kinds) /\ Len(<<"subscribe">>) \in 1 .. 2
    BY DEF Kinds
  <2> QED
    BY <1>2, <1>4, <2>1, Zenon DEF Subscribe
<1>5. CASE Ask
  <2>1. PICK k \in Commands : Sends(<<k>>, "waiting")
    BY <1>5 DEF Ask
  <2>2. <<k>> \in Seq(Kinds) /\ Len(<<k>>) \in 1 .. 2
    BY DEF Kinds
  <2> QED
    BY <1>2, <1>5, <2>1, <2>2, Zenon DEF Ask
<1>6. CASE Key
  <2>1. /\ <<"spike">> \in Seq(Kinds) /\ Len(<<"spike">>) \in 1 .. 2
        /\ <<"spike", "reload">> \in Seq(Kinds) /\ Len(<<"spike", "reload">>) \in 1 .. 2
        /\ <<"spike", "toggle">> \in Seq(Kinds) /\ Len(<<"spike", "toggle">>) \in 1 .. 2
    BY CommandsAssumption DEF Kinds
  <2> QED
    BY <1>2, <1>6, <2>1, Zenon DEF Key
<1> QED
  BY <1>3, <1>4, <1>5, <1>6

\* Whatever is on the wire, a connection does what a command channel may do: it
\* executes the commands in the order they were sent, none twice and none that was
\* not sent, and one is over and answered before it looks at the next.
THEOREM IsCommandChannel == Spec => Channel!Safety
<1>1. Init => Channel!Init
  BY DEF Init, Channel!Init, Closed
<1>2. IInv /\ [Next]_vars => [Channel!Next]_Channel!vars
  <2> SUFFICES ASSUME IInv, [Next]_vars PROVE [Channel!Next]_Channel!vars
    OBVIOUS
  <2>1. CASE DaemonStep \/ WorkEnds
    BY <2>1, DaemonRefines DEF Channel!Next
  <2>2. CASE ClientStep \/ Subscribe \/ Ask \/ Key \/ Dies
    BY <2>2, ClientRefines DEF Channel!Next
  <2>3. CASE UNCHANGED vars
    BY <2>3 DEF vars, log, Channel!vars, Closed
  <2> QED
    BY <2>1, <2>2, <2>3 DEF Next
<1> QED
  BY Invariance, <1>1, <1>2, PTL DEF Spec, Channel!Safety

=============================================================================
