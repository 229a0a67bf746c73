-------------------------------- MODULE Room --------------------------------
(***************************************************************************)
(* One PvP room and the connections round it: server/internal/wsapi/room*. *)
(* The room is one goroutine that handles one input at a time; what runs   *)
(* beside it is the end of each connection (ctx cancelled, then leaveRoom),*)
(* the notices sendReliably is still trying to deliver, and whatever other *)
(* rooms do with a connection seated here.                                 *)
(*                                                                         *)
(* Inputs in flight.  Seating, resuming and disconnect inputs carry what   *)
(* their sender saw, so they are kept in `inputs` until they are handled.  *)
(* It is a set: they come from different goroutines, some of them blocked  *)
(* on a full inbox, and the order among them is not the room's to choose.  *)
(* What a seated connection asks for (lobby actions, words, resignations)  *)
(* names nothing but its own seat: it is one action, taken when the room   *)
(* gets to it, whether or not the sender is still alive by then.           *)
(*                                                                         *)
(* The game is what Table.tla promises of an engine, with the seats of the *)
(* room for turn order: rotating a list does not change who follows whom.  *)
(* A room in its lobby has no game.                                        *)
(***************************************************************************)
EXTENDS TurnOrder, Integers, FiniteSetsExt

CONSTANTS
    MaxPlayers,
    Session,        \* connections, each used once
    Person,
    Holder,         \* [Session -> Person]: whose connection it is
    Creator,        \* the connection the room is opened for
    None,           \* no connection
    MaxSeq,         \* bound on turnSeq: no game starts and no word is played at it
    Roaming,        \* bound: the connections other rooms may seat
    MayDrain,       \* bound: whether the server may be shut down
    JoinsAtOnce     \* bound: the joins by code that wait at a time

ASSUME RoomAssumption ==
    /\ MaxPlayers \in Nat /\ MaxPlayers >= 2
    /\ Holder \in [Session -> Person]
    /\ Creator \in Session
    /\ None \notin Session \cup Person
    /\ MaxSeq \in Nat

VARIABLES
    running,        \* the room goroutine has not returned
    seats,
    owner,          \* 0 while nobody is seated
    autoStart,      \* opened by a quick match that has not been paired yet
    game,
    turnSeq,
    liveCounted,
    liveGames,      \* this room's share of hub.liveGames
    inputs,         \* seating, resume and disconnect inputs not handled yet
    conn,           \* new, up, down (ctx cancelled), gone (leaveRoom has run)
    at,             \* the seat a connection believes it holds here, 0 for none
    tokens,         \* connections whose resume token the hub still knows
    draining,
    pairing         \* whose quickMatch has sent the create and not the join, or None

play == <<game, turnSeq, liveCounted, liveGames>>
sockets == <<conn, at, tokens>>
beyond == <<draining, pairing>>
vars == <<running, seats, owner, autoStart, play, inputs, sockets, beyond>>

minPlayers == 2
Seats == 1 .. MaxPlayers

FreeSeat == [sess |-> None, heldFor |-> None, ready |-> FALSE, missed |-> FALSE,
             who |-> None, quick |-> FALSE]
NoGame == [alive |-> {}, turn |-> 0, dead |-> FALSE, late |-> FALSE]

Create(s, auto) == [type |-> "create", sess |-> s, player |-> 0, prior |-> None, quick |-> auto]
Join(s, auto) == [type |-> "join", sess |-> s, player |-> 0, prior |-> None, quick |-> auto]
Resume(s, i, p) == [type |-> "resume", sess |-> s, player |-> i, prior |-> p, quick |-> FALSE]
Disconnect(s, i) ==
    [type |-> "disconnect", sess |-> s, player |-> i, prior |-> None, quick |-> FALSE]

Taken(ss) == {i \in Seats : ss[i].who # None}
Live(g) == g.alive # {}
inLobby == ~Live(game)
allConnected(ss) == \A i \in Taken(ss) : ss[i].sess # None
occupies(s, i) == s # None /\ seats[i].sess = s

----------------------------------------------------------------------------
\* Mutant of takeSeat: whether the connection is still alive is not asked.
takeSeatBlind(s, auto) ==
    [sess |-> s, heldFor |-> None, ready |-> FALSE, missed |-> FALSE,
     who |-> Holder[s], quick |-> auto]

\* takeSeat, and holdSeat at once for a connection that has died on the way.
takeSeat(s, auto) ==
    [sess |-> IF conn[s] = "up" THEN s ELSE None,
     heldFor |-> IF conn[s] = "up" THEN None ELSE s,
     ready |-> FALSE, missed |-> FALSE, who |-> Holder[s], quick |-> auto]

holdSeat(seat) == [seat EXCEPT !.sess = None, !.heldFor = seat.sess]

\* The rest of the seats after those of `out` are freed.  An owner among them
\* hands the room to the first player left, whose readiness is then StartGame.
nextOwner(ss) ==
    IF owner \in Taken(ss) THEN owner
    ELSE IF Taken(ss) = {} THEN 0 ELSE Min(Taken(ss))

\* Mutant of vacate: the new owner stays ready.
vacateKeepsReady(ss, out) == [i \in Seats |-> IF i \in out THEN FreeSeat ELSE ss[i]]

vacate(ss, out) ==
    LET rest == [i \in Seats |-> IF i \in out THEN FreeSeat ELSE ss[i]]
    IN  [i \in Seats |-> IF i = nextOwner(rest) /\ i # owner
                         THEN [rest[i] EXCEPT !.ready = FALSE] ELSE rest[i]]

\* Mutant of released: the connections are not told.
releasedLater(out) == at

\* release() of the connections in those seats: only from this room.
released(out) ==
    [s \in Session |-> IF \E i \in out : occupies(s, i) THEN 0 ELSE at[s]]

----------------------------------------------------------------------------
\* Mutant of Without: the next player inherits what is left of the clock.
WithoutFreshClock(g, out) ==
    LET rest == g.alive \ out
    IN  IF Cardinality(rest) <= 1 \/ (g.dead /\ g.turn \in out) THEN NoGame
        ELSE IF g.turn \in out
        THEN [g EXCEPT !.alive = rest, !.turn = NextAlive(MaxPlayers, g.turn, rest)]
        ELSE [g EXCEPT !.alive = rest]

\* The game after the seats of `out` have gone out of it one after the other.
\* Whoever is on turn at a dead end takes everybody but the last with them.
Without(g, out) ==
    LET rest == g.alive \ out
    IN  IF Cardinality(rest) <= 1 \/ (g.dead /\ g.turn \in out) THEN NoGame
        ELSE IF g.turn \in out
        THEN [g EXCEPT !.alive = rest, !.turn = NextAlive(MaxPlayers, g.turn, rest),
                       !.late = FALSE]
        ELSE [g EXCEPT !.alive = rest]

\* Mutant of stopCountingLive: no compare-and-swap.
stopCountingTwice == liveCounted' = FALSE /\ liveGames' = liveGames - 1

stopCountingLive ==
    /\ liveCounted' = FALSE
    /\ liveGames' = IF liveCounted THEN liveGames - 1 ELSE liveGames

\* Mutant of applyEliminations: the sequence stays when an elimination moves the turn.
applyEliminationsSilently(g) ==
    /\ game' = g
    /\ IF Live(game) /\ ~Live(g) THEN stopCountingLive
                                 ELSE UNCHANGED <<liveCounted, liveGames>>
    /\ UNCHANGED turnSeq

\* applyEliminations: the game becomes g, which is over or one turn further on.
applyEliminations(g) ==
    /\ game' = g
    /\ turnSeq' = IF Live(g) /\ g.turn # game.turn THEN turnSeq + 1 ELSE turnSeq
    /\ IF Live(game) /\ ~Live(g) THEN stopCountingLive
                                 ELSE UNCHANGED <<liveCounted, liveGames>>

\* broadcastGameOver: the seats away when the game becomes g are owed its result.
owed(g) ==
    [i \in Seats |-> IF Live(game) /\ ~Live(g) /\ i \in Taken(seats)
                     THEN [seats[i] EXCEPT !.missed = (seats[i].sess = None)]
                     ELSE seats[i]]

beginGame(ss) ==
    /\ turnSeq < MaxSeq
    /\ \E lead \in Taken(ss) :
          game' = [alive |-> Taken(ss), turn |-> lead, dead |-> FALSE, late |-> FALSE]
    /\ turnSeq' = turnSeq + 1
    /\ liveCounted' = TRUE
    /\ liveGames' = liveGames + 1
    /\ seats' = [i \in Seats |-> [ss[i] EXCEPT !.ready = FALSE, !.missed = FALSE]]

\* The end of one turn of run(): a room nobody holds a seat in returns, and
\* refusePending answers what was still queued.
loop(rest) ==
    IF Taken(seats') = {} THEN running' = FALSE /\ inputs' = {}
                          ELSE running' = TRUE /\ inputs' = rest

----------------------------------------------------------------------------
(***************************************************************************)
(* Seating and presence                                                    *)
(***************************************************************************)

handleCreate(m) ==
    /\ m.type = "create"
    /\ seats' = [seats EXCEPT ![1] = takeSeat(m.sess, m.quick)]
    /\ owner' = 1
    /\ autoStart' = m.quick
    /\ at' = [at EXCEPT ![m.sess] = 1]
    /\ loop(inputs \ {m})
    /\ UNCHANGED <<play, conn, tokens, beyond>>

joinRefused(s) ==
    \/ Taken(seats) = Seats
    \/ Taken(seats) = {}
    \/ ~inLobby
    \/ \E i \in Seats : occupies(s, i)

\* Mutant of handleJoin: only a pairing that starts a game uses the flag up.
handleJoinStaysArmed(m) ==
    LET i == Min(Seats \ Taken(seats))
        ss == [seats EXCEPT ![i] = takeSeat(m.sess, m.quick)]
        paired == autoStart /\ Cardinality(Taken(ss)) >= minPlayers /\ allConnected(ss)
    IN  /\ m.type = "join"
        /\ \A r \in inputs : r.sess = m.sess => r.type # "resume"
        /\ \A c \in inputs : c.type # "create"
        /\ IF joinRefused(m.sess)
           THEN UNCHANGED <<seats, at, play, autoStart>>
           ELSE /\ at' = [at EXCEPT ![m.sess] = i]
                /\ \/ paired /\ ~draining /\ beginGame(ss) /\ autoStart' = FALSE
                   \/ seats' = ss /\ UNCHANGED <<play, autoStart>>
        /\ loop(inputs \ {m})
        /\ UNCHANGED <<owner, conn, tokens, beyond>>

\* A quick match starts its own game once both seats are filled and connected,
\* and the first join consumes the flag, whatever comes of it.  What one goroutine
\* sent first is handled first: its own resume, and the create of its pairing.
handleJoin(m) ==
    LET i == Min(Seats \ Taken(seats))
        ss == [seats EXCEPT ![i] = takeSeat(m.sess, m.quick)]
        paired == autoStart /\ Cardinality(Taken(ss)) >= minPlayers /\ allConnected(ss)
    IN  /\ m.type = "join"
        /\ \A r \in inputs : r.sess = m.sess => r.type # "resume"
        /\ \A c \in inputs : c.type # "create"
        /\ autoStart' = FALSE
        /\ IF joinRefused(m.sess)
           THEN UNCHANGED <<seats, at, play>>
           ELSE /\ at' = [at EXCEPT ![m.sess] = i]
                /\ \/ paired /\ ~draining /\ beginGame(ss)
                   \/ seats' = ss /\ UNCHANGED play
        /\ loop(inputs \ {m})
        /\ UNCHANGED <<owner, conn, tokens, beyond>>

\* A notice about a connection the seat is no longer bound to is stale.  The one
\* leaveRoom sends is behind any join of the same connection; attach's is not.
handleDisconnect(m) ==
    /\ m.type = "disconnect"
    /\ ~ /\ conn[m.sess] = "gone" /\ at[m.sess] = m.player
         /\ \E j \in inputs : j.sess = m.sess /\ j.type = "join"
    /\ seats' = IF occupies(m.sess, m.player)
                THEN [seats EXCEPT ![m.player] = holdSeat(@)] ELSE seats
    /\ loop(inputs \ {m})
    /\ UNCHANGED <<owner, autoStart, play, sockets, beyond>>

\* Mutant of resumable: any earlier connection of the seat id opens a held seat.
resumableByAnyone(m) == seats[m.player].sess \in {m.prior, None} /\ m.player \in Taken(seats)

resumable(m) ==
    LET seat == seats[m.player]
    IN  seat.sess = m.prior \/ (seat.sess = None /\ seat.heldFor = m.prior)

\* Mutant of handleResume: the result that was owed is kept after it is sent.
handleResumeKeepsResult(m) ==
    LET bound == [seats[m.player] EXCEPT !.sess = m.sess, !.heldFor = None]
    IN  /\ m.type = "resume"
        /\ IF resumable(m)
           THEN /\ at' = [at EXCEPT ![m.sess] = m.player]
                /\ tokens' = tokens \ {m.prior}
                /\ conn' = [conn EXCEPT ![m.prior] = IF @ = "up" THEN "down" ELSE @]
                /\ seats' = [seats EXCEPT ![m.player] =
                                IF conn[m.sess] = "up" THEN bound ELSE holdSeat(bound)]
           ELSE UNCHANGED <<seats, sockets>>
        /\ loop(inputs \ {m})
        /\ UNCHANGED <<owner, autoStart, play, beyond>>

\* An accepted resume retires the connection it replaces, and in the lobby it
\* hands over the result the seat was owed.
handleResume(m) ==
    LET bound == [seats[m.player] EXCEPT !.sess = m.sess, !.heldFor = None]
    IN  /\ m.type = "resume"
        /\ IF resumable(m)
           THEN /\ at' = [at EXCEPT ![m.sess] = m.player]
                /\ tokens' = tokens \ {m.prior}
                /\ conn' = [conn EXCEPT ![m.prior] = IF @ = "up" THEN "down" ELSE @]
                /\ seats' = [seats EXCEPT ![m.player] =
                                IF conn[m.sess] = "up"
                                THEN [bound EXCEPT !.missed = FALSE] ELSE holdSeat(bound)]
           ELSE UNCHANGED <<seats, sockets>>
        /\ loop(inputs \ {m})
        /\ UNCHANGED <<owner, autoStart, play, beyond>>

\* graceC: every seat whose window has run out, taken out of the game and freed.
handleGraceExpiry(out) ==
    LET g == IF Live(game) THEN Without(game, out) ELSE game
    IN  /\ out # {}
        /\ \A i \in out : i \in Taken(seats) /\ seats[i].sess = None
        /\ seats' = vacate(owed(g), out)
        /\ owner' = nextOwner(seats')
        /\ applyEliminations(g)
        /\ loop(inputs)
        /\ UNCHANGED <<autoStart, sockets, beyond>>

----------------------------------------------------------------------------
(***************************************************************************)
(* The lobby                                                               *)
(***************************************************************************)

lobbyReady(i, ready) ==
    /\ seats[i].sess # None
    /\ inLobby
    /\ i # owner
    /\ seats' = [seats EXCEPT ![i].ready = ready]
    /\ UNCHANGED <<running, owner, autoStart, play, inputs, sockets, beyond>>

lobbyStart(i) ==
    /\ seats[i].sess # None
    /\ inLobby
    /\ i = owner
    /\ ~draining
    /\ Cardinality(Taken(seats)) >= minPlayers
    /\ allConnected(seats)
    /\ \A j \in Taken(seats) : j = owner \/ seats[j].ready
    /\ beginGame(seats)
    /\ UNCHANGED <<running, owner, autoStart, inputs, sockets, beyond>>

lobbyKick(i, target) ==
    /\ seats[i].sess # None
    /\ inLobby
    /\ i = owner
    /\ target \in Taken(seats) \ {i}
    /\ ~seats[target].ready
    /\ seats' = vacate(seats, {target})
    /\ owner' = nextOwner(seats')
    /\ at' = released({target})
    /\ loop(inputs)
    /\ UNCHANGED <<autoStart, play, conn, tokens, beyond>>

\* Mutant of lobbyLeave: the seat is freed and the engine is not told.
lobbyLeaveQuietly(i) ==
    /\ seats[i].sess # None
    /\ inLobby => ~seats[i].ready
    /\ seats' = vacate(seats, {i})
    /\ owner' = nextOwner(seats')
    /\ at' = released({i})
    /\ applyEliminations(game)
    /\ loop(inputs)
    /\ UNCHANGED <<autoStart, conn, tokens, beyond>>

\* In the lobby a ready player must take it back first; out of a running game
\* the engine goes first, while the seat is still there.
lobbyLeave(i) ==
    LET g == IF Live(game) THEN Without(game, {i}) ELSE game
    IN  /\ seats[i].sess # None
        /\ inLobby => ~seats[i].ready
        /\ seats' = vacate(owed(g), {i})
        /\ owner' = nextOwner(seats')
        /\ at' = released({i})
        /\ applyEliminations(g)
        /\ loop(inputs)
        /\ UNCHANGED <<autoStart, conn, tokens, beyond>>

----------------------------------------------------------------------------
(***************************************************************************)
(* The game                                                                *)
(***************************************************************************)

\* A word for the turn in play, accepted: the next player may be stuck.
handleSubmit(i, seq) ==
    /\ seats[i].sess # None
    /\ Live(game) /\ game.turn = i
    /\ seq = turnSeq
    /\ ~game.dead /\ ~game.late
    /\ turnSeq < MaxSeq
    /\ \E dead \in BOOLEAN :
          game' = [game EXCEPT !.turn = NextAlive(MaxPlayers, i, game.alive), !.dead = dead]
    /\ turnSeq' = turnSeq + 1
    /\ UNCHANGED <<running, seats, owner, autoStart, liveCounted, liveGames, inputs,
                   sockets, beyond>>

\* The player to act loses the turn: a word sent too late, giving up, a true
\* claim that nothing is left, or the turn timer.
turnLost ==
    /\ applyEliminations(Without(game, {game.turn}))
    /\ seats' = owed(game')
    /\ UNCHANGED <<running, owner, autoStart, inputs, sockets, beyond>>

handleSubmitLate(i, seq) ==
    /\ seats[i].sess # None
    /\ Live(game) /\ game.turn = i
    /\ seq = turnSeq
    /\ game.late
    /\ turnLost

handleResign(i) ==
    /\ seats[i].sess # None
    /\ Live(game) /\ game.turn = i
    /\ turnLost

handleClaimDeadEnd(i) ==
    /\ seats[i].sess # None
    /\ Live(game) /\ game.turn = i
    /\ game.dead
    /\ turnLost

turnTimer ==
    /\ Live(game)
    /\ game.late
    /\ turnLost

----------------------------------------------------------------------------
(***************************************************************************)
(* Ways a room ends other than by emptying                                 *)
(***************************************************************************)

\* detachAll, stopCountingLive and refusePending; the room itself is garbage.
exit ==
    /\ running' = FALSE
    /\ inputs' = {}
    /\ at' = released(Seats)
    /\ stopCountingLive
    /\ seats' = [i \in Seats |-> FreeSeat]
    /\ owner' = 0
    /\ autoStart' = FALSE
    /\ game' = NoGame
    /\ UNCHANGED <<turnSeq, conn, tokens, beyond>>

idleTimer == Taken(seats) # {} /\ inLobby /\ exit

\* hub.shutdown cancels every room once draining has waited long enough.
shutdown == running /\ draining /\ exit

----------------------------------------------------------------------------
(***************************************************************************)
(* Beside the room, while it runs: the clock, the drain, the connections   *)
(***************************************************************************)

clock ==
    /\ Live(game) /\ ~game.late
    /\ game' = [game EXCEPT !.late = TRUE]
    /\ UNCHANGED <<running, seats, owner, autoStart, turnSeq, liveCounted, liveGames,
                   inputs, sockets, beyond>>

startDraining ==
    /\ running
    /\ MayDrain
    /\ ~draining
    /\ draining' = TRUE
    /\ UNCHANGED <<running, seats, owner, autoStart, play, inputs, sockets, pairing>>

\* A Hello, with or without the token of an earlier connection of the same
\* person.  prior.currentRoom() is read here; the room decides later.
handleHello(s) ==
    /\ running
    /\ conn[s] = "new"
    /\ conn' = [conn EXCEPT ![s] = "up"]
    /\ tokens' = tokens \cup {s}
    /\ \/ UNCHANGED inputs
       \/ \E prior \in tokens :
             /\ Holder[prior] = Holder[s]
             /\ at[prior] # 0
             /\ inputs' = inputs \cup {Resume(s, at[prior], prior)}
    /\ UNCHANGED <<running, seats, owner, autoStart, play, at, beyond>>

\* quickMatch's second send.  The waiter's create was its first, to a room that runs
\* already; a room that has ended since refuses this one.
pairingJoins ==
    /\ running
    /\ pairing # None
    /\ inputs' = inputs \cup {Join(pairing, TRUE)}
    /\ pairing' = None
    /\ UNCHANGED <<running, seats, owner, autoStart, play, sockets, draining>>

\* JoinRoom by anybody with the code, which is made known once the creator is seated.
\* A connection in a running game is refused, and one whose quickMatch has a join to
\* send yet asks for nothing.
joinRoom(s) ==
    /\ conn[s] = "up"
    /\ Taken(seats) # {}
    /\ pairing # s
    /\ LET joins == {m \in inputs : m.type = "join"}
       IN  Cardinality(joins) < JoinsAtOnce /\ \A m \in joins : m.sess # s
    /\ at[s] # 0 => ~liveCounted
    /\ inputs' = inputs \cup {Join(s, FALSE)}
    /\ UNCHANGED <<running, seats, owner, autoStart, play, sockets, beyond>>

\* Another room seats this connection.  Its attach() tells this room from a
\* goroutine of its own.
attachElsewhere(s) ==
    /\ running
    /\ s \in Roaming
    /\ conn[s] = "up"
    /\ at[s] # 0
    /\ at' = [at EXCEPT ![s] = 0]
    /\ inputs' = inputs \cup {Disconnect(s, at[s])}
    /\ UNCHANGED <<running, seats, owner, autoStart, play, conn, tokens, beyond>>

close(s) ==
    /\ running
    /\ conn[s] = "up"
    /\ conn' = [conn EXCEPT ![s] = "down"]
    /\ UNCHANGED <<running, seats, owner, autoStart, play, inputs, at, tokens, beyond>>

\* Mutant of leaveRoom: only a room with a game running hears of it.
leaveRoomMidGame(s) ==
    /\ running
    /\ conn[s] = "down"
    /\ pairing # s
    /\ conn' = [conn EXCEPT ![s] = "gone"]
    /\ inputs' = IF at[s] # 0 /\ liveCounted THEN inputs \cup {Disconnect(s, at[s])} ELSE inputs
    /\ UNCHANGED <<running, seats, owner, autoStart, play, at, tokens, beyond>>

leaveRoom(s) ==
    /\ running
    /\ conn[s] = "down"
    /\ pairing # s
    /\ conn' = [conn EXCEPT ![s] = "gone"]
    /\ inputs' = IF at[s] # 0 THEN inputs \cup {Disconnect(s, at[s])} ELSE inputs
    /\ UNCHANGED <<running, seats, owner, autoStart, play, at, tokens, beyond>>

\* Followed only while somebody is left to present the token.
expireToken(s) ==
    /\ running
    /\ conn[s] = "gone"
    /\ s \in tokens
    /\ \E t \in Session : conn[t] = "new" /\ Holder[t] = Holder[s]
    /\ tokens' = tokens \ {s}
    /\ UNCHANGED <<running, seats, owner, autoStart, play, inputs, conn, at, beyond>>
----------------------------------------------------------------------------
Init ==
    /\ running = TRUE
    /\ seats = [i \in Seats |-> FreeSeat]
    /\ owner = 0
    /\ autoStart = FALSE
    /\ game = NoGame
    /\ turnSeq = 0
    /\ liveCounted = FALSE
    /\ liveGames = 0
    /\ at = [s \in Session |-> 0]
    /\ draining = FALSE
    /\ \/ /\ inputs = {Create(Creator, FALSE)}
          /\ pairing = None
          /\ tokens = {Creator}
       \/ /\ inputs = {Create(Creator, TRUE)}
          /\ pairing \in Session \ {Creator}
          /\ tokens = {Creator, pairing}
    /\ conn = [s \in Session |-> IF s \in tokens THEN "up" ELSE "new"]

handleInput ==
    \E m \in inputs :
        handleCreate(m) \/ handleJoin(m) \/ handleDisconnect(m) \/ handleResume(m)

handleLobby ==
    \E i \in Seats :
        \/ \E ready \in BOOLEAN : lobbyReady(i, ready)
        \/ lobbyStart(i)
        \/ \E target \in Seats : lobbyKick(i, target)
        \/ lobbyLeave(i)

handleGame ==
    \E i \in Seats :
        \/ \E seq \in 0 .. turnSeq : handleSubmit(i, seq) \/ handleSubmitLate(i, seq)
        \/ handleResign(i)
        \/ handleClaimDeadEnd(i)

run ==
    \/ handleInput \/ handleLobby \/ handleGame
    \/ turnTimer
    \/ \E out \in SUBSET Seats : handleGraceExpiry(out)
    \/ idleTimer
    \/ shutdown

environment ==
    \/ clock
    \/ startDraining
    \/ pairingJoins
    \/ \E s \in Session :
          handleHello(s) \/ joinRoom(s) \/ attachElsewhere(s) \/ close(s) \/ leaveRoom(s)
             \/ expireToken(s)

returned == ~running /\ UNCHANGED vars

Next == run \/ environment \/ returned

Spec == Init /\ [][Next]_vars

\* The run loop takes every input in the end (select picks at random among what
\* is ready), its grace timer fires, and a connection that has ended runs its
\* deferred leaveRoom once it is out of its dispatch, which goes on.  The idle timer
\* is not counted on: anything that changes the lobby restarts it.
FairSpec ==
    /\ Spec
    /\ WF_vars(pairingJoins)
    /\ \A s \in Session, i \in Seats :
          /\ WF_vars(Disconnect(s, i) \in inputs /\ handleDisconnect(Disconnect(s, i)))
          /\ WF_vars(leaveRoom(s))
    /\ \A s \in Session, auto \in BOOLEAN :
          /\ WF_vars(Create(s, auto) \in inputs /\ handleCreate(Create(s, auto)))
          /\ WF_vars(Join(s, auto) \in inputs /\ handleJoin(Join(s, auto)))
    /\ \A s, p \in Session, i \in Seats :
          WF_vars(Resume(s, i, p) \in inputs /\ handleResume(Resume(s, i, p)))
    /\ \A i \in Seats :
          WF_vars(\E out \in SUBSET Seats : i \in out /\ handleGraceExpiry(out))

----------------------------------------------------------------------------
(***************************************************************************)
(* Properties                                                              *)
(***************************************************************************)
\* No seat is ever bound to a dead socket that nobody will report: while a seat
\* names a connection, that connection either still points at the seat and has
\* its leaveRoom to come, or its notice is on the way.  (takeSeat, attach,
\* holdSeat, leaveRoom and the resume path race for this.)
SeatIsWatched ==
    \A i \in Seats, s \in Session :
        occupies(s, i) =>
            \/ at[s] = i /\ conn[s] # "gone"
            \/ Disconnect(s, i) \in inputs

\* Seat ids are reused, and a token can outlive the seat it was for: still, the
\* connection in a seat, and the one it is held for, are always the seated
\* person's own.
SeatStaysWithItsPlayer ==
    \A i \in Taken(seats) :
        \A s \in {seats[i].sess, seats[i].heldFor} \ {None} : Holder[s] = seats[i].who

\* A room with anybody in it has an owner who is seated and not ready.  (An owner
\* who is ready could neither leave, which must_unready_first refuses, nor take
\* it back, which owner_needs_no_ready refuses.)
OwnerCanAlwaysLeave ==
    \/ owner \in Taken(seats) /\ ~seats[owner].ready
    \/ owner = 0 /\ Taken(seats) = {}

\* While a game runs, whoever is still in it has their seat, the turn is one of
\* theirs, and there are two of them: no way of leaving, alone or together, frees
\* a seat the engine goes on giving turns to.
PlayersAreSeated ==
    Live(game) => /\ game.alive \subseteq Taken(seats)
                  /\ game.turn \in game.alive
                  /\ Cardinality(game.alive) >= 2

\* A result is owed only to a seat that is away, in a room back in its lobby: it
\* is handed over when the player resumes, once, and never into a later game.
ResultsAwaitAResume ==
    \A i \in Seats : seats[i].missed =>
        i \in Taken(seats) /\ seats[i].sess = None /\ inLobby

\* What the drain waits for is the truth: the room counts as one live game from
\* the start of its game to the end of it, however it ends, and never twice.
DrainCountsTheGame == liveGames = IF Live(game) THEN 1 ELSE 0

\* A submission is matched to its turn by turnSeq alone, so the sequence must
\* move exactly when the turn does: with every new turn and every new game, and
\* not when somebody goes out behind the player to act.
SequenceNamesTheTurn ==
    [][ /\ turnSeq' >= turnSeq
        /\ turnSeq' # turnSeq <=>
             Live(game') /\ (~Live(game) \/ game'.turn # game.turn) ]_vars

\* The game of a room is played at a table: while it goes on, whatever reaches the
\* room (a word, a timer, somebody leaving) moves it by one step of Table or not at
\* all.  Seats whose windows run out together are several of its steps.
Board ==
    INSTANCE Table WITH
        Player <- Seats, Tables <- {}, TurnLimit <- 0,
        players <- [i \in Seats |-> i], alive <- game.alive, turn <- game.turn,
        dead <- game.dead, left <- IF game.late THEN -1 ELSE 0

PlaysAtATable ==
    [][ Live(game) /\ Live(game') /\ Cardinality(game.alive \ game'.alive) <= 1 =>
            Board!Next ]_game

\* What handleJoin says of a quick match: "the first join a quick-matched room handles
\* is the pairing itself", and the game it starts is for "two strangers who both already
\* asked to be matched".  A game is dealt only to players who asked for it: the owner who
\* started it, the guests who readied, or the two that were paired.  The code does not
\* keep this: somebody who has the code may join between quickMatch's two sends.
NobodyIsDealtInUnasked ==
    [][ inLobby /\ Live(game') =>
          \A i \in game'.alive : i = owner \/ seats[i].ready \/ seats'[i].quick ]_vars

\* A game nobody readied for is dealt at most once, by the first join a quick-matched
\* room handles: that one uses the flag up, whatever becomes of it, so a room that is
\* still armed has nobody in it but its creator, and in any other a game is dealt to its
\* owner and to guests who are ready.  (A flag left armed after a pairing that never
\* started would deal in whoever filled a seat next.)
OnlyTheFirstJoinDeals ==
    /\ [](autoStart => Taken(seats) \subseteq {1})
    /\ [][ inLobby /\ Live(game') /\ ~autoStart =>
             \A i \in game'.alive : i = owner \/ seats[i].ready ]_vars

\* A live connection that believes it is seated here is seated here; otherwise
\* everything it sends is refused as somebody else's seat, and a quick match as
\* already in a room.
NoGhostSeat ==
    running => \A s \in Session : conn[s] = "up" /\ at[s] # 0 => seats[at[s]].sess = s

\* Once every connection has ended for good, the room gives its seats up and
\* returns, without the idle timer's help.
AbandonedRoomCloses ==
    <>[](\A s \in Session : conn[s] \in {"new", "gone"}) => <>~running

\* What room.go says of a seat's connection: "nil for the bot, or while a human is
\* disconnected".  A held seat is not held for a connection that is alive and
\* still points at it.
HeldMeansDisconnected ==
    \A i \in Taken(seats) :
        seats[i].sess = None => ~(conn[seats[i].heldFor] = "up" /\ at[seats[i].heldFor] = i)

\* What handleResume says of a resume whose connection is already dead: it "leaves
\* the seat exactly as reachable as it was before this resume was ever attempted".
\* The tokens that open the seat are the same afterwards.
opens(i) == {s \in tokens : at[s] = i /\ s \in {seats[i].sess, seats[i].heldFor}}

DeadResumeChangesNothing ==
    [][ \A m \in inputs : handleResume(m) /\ conn[m.sess] # "up" =>
            opens(m.player)' = opens(m.player) ]_vars
=============================================================================
