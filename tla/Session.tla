------------------------------ MODULE Session ------------------------------
(***************************************************************************)
(* One WebSocket connection (internal/wsapi/session.go): the reader, the   *)
(* writer, the keepalive, the teardown watcher and the hello timer, which  *)
(* are five goroutines around one socket, one outbox and two contexts, and *)
(* the room goroutine that queues frames into the outbox.                  *)
(*                                                                         *)
(* A frame is what the properties tell apart: a numbered game frame, a     *)
(* chat line, or the refusal that explains why the server is closing.      *)
(* Dispatching a request is one step (Hub.tla has what it does); time is   *)
(* abstracted so that a timeout fires only on a peer that is not reading.  *)
(***************************************************************************)
EXTENDS Integers, SequencesExt

CONSTANTS
    OutboxCap,  \* outboxCap
    PingMisses, \* pingMisses
    MaxFrames   \* bound: frames rooms offer to one connection

ASSUME SessionBounds ==
    OutboxCap \in Nat \ {0} /\ PingMisses \in Nat \ {0} /\ MaxFrames \in Nat

VARIABLES
    ctx,      \* "live", or "done" once cancelled
    reader,   \* "reading", "returned" from readLoop, "waiting" (wg.Wait), "over"
    writer,   \* "select", "writing", "drain", "draining" a frame, "done"
    held,     \* the frame the writer has dequeued
    out,      \* the outbox
    watcher,  \* "watching", or "done" once it has cancelled the read context
    keeper,   \* pings the keepalive has seen missed in a row
    timer,    \* helloTimer: "armed", "fired" (before its close), "off"
    greeted,  \* session.greeted
    socket,   \* "open" or "closed"
    peer,     \* "reading", "stalled", "back" (reads again), "gone"
    got,      \* the last game frame the peer has received
    games,    \* how many game frames rooms have sent it
    chats,    \* how many chat lines
    closing,  \* a send that met a full outbox has not called s.close() yet
    owed      \* history: frames queued while the context was live that have
              \* not arrived, as long as the peer has never stopped reading

sessionVars == <<ctx, reader, writer, held, out, watcher, keeper, timer, greeted,
                 socket, peer, got, games, chats, closing, owed>>

game(n) == <<"game", n>>
chat == <<"chat", 0>>
refusal == <<"refusal", 0>>

reads == peer \in {"reading", "back"}

\* newSession, and run up to the first read.
fresh ==
    /\ ctx' = "live" /\ reader' = "reading" /\ writer' = "select" /\ held' = <<>>
    /\ out' = <<>> /\ watcher' = "watching" /\ keeper' = 0 /\ timer' = "armed"
    /\ greeted' = FALSE /\ socket' = "open" /\ peer' = "reading" /\ got' = 0
    /\ games' = 0 /\ chats' = 0 /\ closing' = FALSE /\ owed' = <<>>

SessionInit ==
    /\ ctx = "done" /\ reader = "over" /\ writer = "done" /\ held = <<>>
    /\ out = <<>> /\ watcher = "done" /\ keeper = 0 /\ timer = "off"
    /\ greeted = FALSE /\ socket = "closed" /\ peer = "gone" /\ got = 0
    /\ games = 0 /\ chats = 0 /\ closing = FALSE /\ owed = <<>>

\* No session: before the upgrade, and after run has returned.
forgotten ==
    /\ ctx' = "done" /\ reader' = "over" /\ writer' = "done" /\ held' = <<>>
    /\ out' = <<>> /\ watcher' = "done" /\ keeper' = 0 /\ timer' = "off"
    /\ greeted' = FALSE /\ socket' = "closed" /\ peer' = "gone" /\ got' = 0
    /\ games' = 0 /\ chats' = 0 /\ closing' = FALSE /\ owed' = <<>>

-----------------------------------------------------------------------------
(* Queueing.  enqueue's select has a default: with room in the outbox and   *)
(* the context done at once Go picks either, and only when neither is ready *)
(* is the outbox reported full.                                             *)

room == Len(out) < OutboxCap

outcomes ==
    LET ready == (IF room THEN {"queued"} ELSE {})
                   \cup (IF ctx = "done" THEN {"closed"} ELSE {})
    IN IF ready = {} THEN {"full"} ELSE ready

take(f, outcome) ==
    /\ out' = IF outcome = "queued" THEN Append(out, f) ELSE out
    /\ owed' = IF outcome = "queued" /\ ctx = "live" /\ peer = "reading"
               THEN Append(owed, f) ELSE owed

\* trySend, and so much of send as comes before its s.close().
queue(f) ==
    \E outcome \in outcomes : take(f, outcome) /\ UNCHANGED <<ctx, closing>>

\* Mutant of send: a full outbox drops the frame, as it does for chat.
sendAnyway(f) == queue(f)

\* send: a full outbox closes the session, in a step of its own (sendCloses).
send(f) ==
    \E outcome \in outcomes :
        /\ take(f, outcome)
        /\ closing' = (closing \/ outcome = "full")
        /\ UNCHANGED ctx

\* A room goroutine, or the hub, has something for this connection: a frame of a game,
\* or a chat line, which a full outbox drops.  They are several, so one may queue a
\* frame while another is about to close; and each may still hold the session while it
\* is being torn down.
offer ==
    /\ greeted /\ reader # "over" /\ games + chats < MaxFrames
    /\ \/ send(game(games + 1)) /\ games' = games + 1 /\ UNCHANGED chats
       \/ queue(chat) /\ chats' = chats + 1 /\ UNCHANGED games
    /\ UNCHANGED <<reader, writer, held, watcher, keeper, timer, greeted, socket, peer, got>>

\* What send does after the refusal.  Cancelling twice is cancelling once, so
\* `closing` stands for all the senders that have come to this.
sendCloses ==
    /\ closing
    /\ closing' = FALSE /\ ctx' = "done"
    /\ UNCHANGED <<reader, writer, held, out, watcher, keeper, timer, greeted, socket, peer,
                   got, games, chats, owed>>

-----------------------------------------------------------------------------
(* The reader: readLoop, and run around it.                                 *)

\* A Hello that is accepted: the timer is stopped and the session greeted.
hello ==
    /\ reader = "reading" /\ socket = "open" /\ reads /\ ~greeted
    /\ greeted' = TRUE
    /\ timer' = IF timer = "armed" THEN "off" ELSE timer
    /\ UNCHANGED <<ctx, reader, writer, held, out, watcher, keeper, socket, peer, got,
                   games, chats, closing, owed>>

\* A frame the server will not take (a flood, a frame that does not decode, a
\* bad handshake): the reason is queued and the loop returns.  Should the outbox be
\* full, this send's s.close() is the one readerCloses makes in any case.
refuse ==
    /\ reader = "reading" /\ socket = "open" /\ reads
    /\ queue(refusal)
    /\ reader' = "returned"
    /\ UNCHANGED <<writer, held, watcher, keeper, timer, greeted, socket, peer, got, games, chats>>

\* Read returns an error: the socket is closed, by the peer, by a failed
\* write, or by the cancelled read context.
readFails ==
    /\ reader = "reading" /\ socket = "closed"
    /\ reader' = "returned"
    /\ UNCHANGED <<ctx, writer, held, out, watcher, keeper, timer, greeted, socket, peer,
                   got, games, chats, closing, owed>>

\* s.close(), then wg.Wait.
readerCloses ==
    /\ reader = "returned"
    /\ reader' = "waiting" /\ ctx' = "done"
    /\ UNCHANGED <<writer, held, out, watcher, keeper, timer, greeted, socket, peer, got,
                   games, chats, closing, owed>>

\* All three goroutines are done: conn.Close, and run's deferred calls.
runReturns ==
    /\ reader = "waiting" /\ writer = "done" /\ watcher = "done"
    /\ reader' = "over" /\ socket' = "closed"
    /\ timer' = IF timer = "armed" THEN "off" ELSE timer
    /\ UNCHANGED <<ctx, writer, held, out, watcher, keeper, greeted, peer, got, games, chats,
                   closing, owed>>

-----------------------------------------------------------------------------
(* The writer: writeLoop, write and drain.                                  *)

\* A frame is ready: when the context is done too, the select may take either.
dequeue ==
    /\ writer \in {"select", "drain"} /\ out # <<>>
    /\ held' = Head(out) /\ out' = Tail(out)
    /\ writer' = IF writer = "select" THEN "writing" ELSE "draining"
    /\ UNCHANGED <<ctx, reader, watcher, keeper, timer, greeted, socket, peer, got, games, chats,
                   closing, owed>>

seesCancel ==
    /\ writer = "select" /\ ctx = "done"
    /\ writer' = "drain"
    /\ UNCHANGED <<ctx, reader, held, out, watcher, keeper, timer, greeted, socket, peer,
                   got, games, chats, closing, owed>>

written ==
    /\ writer \in {"writing", "draining"} /\ socket = "open" /\ reads
    /\ got' = IF held[1] = "game" THEN held[2] ELSE got
    /\ owed' = IF owed = <<>> THEN owed ELSE Tail(owed)
    /\ held' = <<>>
    /\ writer' = IF writer = "writing" THEN "select" ELSE "drain"
    /\ UNCHANGED <<ctx, reader, out, watcher, keeper, timer, greeted, socket, peer, games, chats,
                   closing>>

\* Mutant of writeFails: a write without a deadline fails only on a socket that is closed.
writeFailsLate ==
    /\ writer \in {"writing", "draining"} /\ socket = "closed"
    /\ ctx' = IF writer = "writing" THEN "done" ELSE ctx
    /\ writer' = "done" /\ held' = <<>> /\ socket' = "closed"
    /\ UNCHANGED <<reader, out, watcher, keeper, timer, greeted, peer, got, games, chats,
                   closing, owed>>

\* The write's own deadline passes on a peer that is not reading (the library
\* then closes the connection), or the socket is closed already.  write also
\* closes the session; drain has no need to.
writeFails ==
    /\ writer \in {"writing", "draining"} /\ (~reads \/ socket = "closed")
    /\ ctx' = IF writer = "writing" THEN "done" ELSE ctx
    /\ writer' = "done" /\ held' = <<>> /\ socket' = "closed"
    /\ UNCHANGED <<reader, out, watcher, keeper, timer, greeted, peer, got, games, chats,
                   closing, owed>>

drained ==
    /\ writer = "drain" /\ out = <<>>
    /\ writer' = "done"
    /\ UNCHANGED <<ctx, reader, held, out, watcher, keeper, timer, greeted, socket, peer,
                   got, games, chats, closing, owed>>

-----------------------------------------------------------------------------
(* The watcher that orders teardown, the keepalive and the hello timer.     *)

\* Mutant of cancelRead: the read context is a child of the session's and goes at
\* the same instant.
cancelReadAtOnce ==
    /\ watcher = "watching" /\ ctx = "done"
    /\ watcher' = "done"
    /\ socket' = IF reader = "reading" THEN "closed" ELSE socket
    /\ UNCHANGED <<ctx, reader, writer, held, out, keeper, timer, greeted, peer, got, games, chats,
                   closing, owed>>

\* Once the context is done and the writer has flushed, or drainTimeout has
\* passed on a peer that is not reading, the read context is cancelled.  That
\* destroys the socket when a Read is under way, and does nothing when the
\* reader has left readLoop.
cancelRead ==
    /\ watcher = "watching" /\ ctx = "done" /\ (writer = "done" \/ ~reads)
    /\ watcher' = "done"
    /\ socket' = IF reader = "reading" THEN "closed" ELSE socket
    /\ UNCHANGED <<ctx, reader, writer, held, out, keeper, timer, greeted, peer, got, games, chats,
                   closing, owed>>

answersPing == reads /\ socket = "open" /\ reader = "reading"

\* It returns as soon as the context is done, which its ping is derived from.
ping ==
    /\ ctx = "live" /\ reader # "over"
    /\ IF answersPing THEN keeper' = 0 /\ UNCHANGED ctx
       ELSE IF keeper + 1 < PingMisses THEN keeper' = keeper + 1 /\ UNCHANGED ctx
       ELSE keeper' = 0 /\ ctx' = "done"
    /\ UNCHANGED <<reader, writer, held, out, watcher, timer, greeted, socket, peer, got,
                   games, chats, closing, owed>>

\* helloTimeout: the refusal is queued first, and the session closed after, whether or
\* not there was room.
helloTimeout ==
    /\ timer = "armed"
    /\ queue(refusal)
    /\ timer' = "fired"
    /\ UNCHANGED <<reader, writer, held, watcher, keeper, greeted, socket, peer, got, games, chats>>

timerCloses ==
    /\ timer = "fired"
    /\ timer' = "off" /\ ctx' = "done"
    /\ UNCHANGED <<reader, writer, held, out, watcher, keeper, greeted, socket, peer, got,
                   games, chats, closing, owed>>

-----------------------------------------------------------------------------
(* What the server and the peer do around the session.                      *)

\* Server.Shutdown cancels the hub's context, the parent of this one.
serverStops ==
    /\ reader # "over" /\ ctx = "live"
    /\ ctx' = "done"
    /\ UNCHANGED <<reader, writer, held, out, watcher, keeper, timer, greeted, socket, peer,
                   got, games, chats, closing, owed>>

\* The peer stops reading (and answering pings), or reads again.
peerStalls ==
    /\ reader # "over" /\ reads
    /\ peer' = "stalled" /\ owed' = <<>>
    /\ UNCHANGED <<ctx, reader, writer, held, out, watcher, keeper, timer, greeted, socket,
                   got, games, chats, closing>>

peerReadsAgain ==
    /\ reader # "over" /\ peer = "stalled"
    /\ peer' = "back"
    /\ UNCHANGED <<ctx, reader, writer, held, out, watcher, keeper, timer, greeted, socket,
                   got, games, chats, closing, owed>>

peerCloses ==
    /\ reader # "over" /\ peer # "gone"
    /\ peer' = "gone" /\ socket' = "closed" /\ owed' = <<>>
    /\ UNCHANGED <<ctx, reader, writer, held, out, watcher, keeper, timer, greeted, got,
                   games, chats, closing>>

readerStep == refuse \/ readFails \/ readerCloses \/ runReturns
writerStep == dequeue \/ seesCancel \/ written \/ writeFails \/ drained
timerStep == helloTimeout \/ timerCloses

SessionNext ==
    \/ offer \/ hello
    \/ readerStep \/ writerStep \/ cancelRead \/ ping \/ timerStep \/ sendCloses
    \/ serverStops \/ peerStalls \/ peerReadsAgain \/ peerCloses

-----------------------------------------------------------------------------

\* What the server still has for the peer: the frame being written, then the queue.
pending == (IF held = <<>> THEN <<>> ELSE <<held>>) \o out

\* Frames reach a peer in the order they were sent, each once; and until the end it
\* has missed none of its games' but when a sender that met a full outbox is about to
\* close the connection: whatever it does not have yet is held or queued for it.
\* Between that refusal and the close another sender's frame may still be queued and
\* arrive with one missing before it.  Only chat is dropped without a close to come.
MissedMeansClosing ==
    /\ \A i \in DOMAIN pending : pending[i][1] = "game" =>
          /\ pending[i][2] \in got + 1 .. games
          /\ \A j \in DOMAIN pending :
                i < j /\ pending[j][1] = "game" => pending[i][2] < pending[j][2]
    /\ ctx = "live" /\ ~closing =>
          \A n \in got + 1 .. games : \E i \in DOMAIN pending : pending[i] = game(n)

\* A peer that reads is told why it is being disconnected, if there was room in the
\* outbox for the reason: when the server has ended a connection whose peer never
\* stopped reading, every frame queued before the cancel, the refusal or the notice
\* above all, has arrived before the socket was destroyed.
LastWordsArrive ==
    reader = "over" /\ peer = "reading" => owed = <<>>
=============================================================================
