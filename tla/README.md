# Noi tu: a TLA+ model of the game server

Noi tu is a word-chain game: each word must start with the syllable the last one
ended on. A Go server keeps the rules, the rooms and the connections; a Svelte
page is the client; they talk protobuf over a WebSocket. This directory models
the server and the builder of its dictionary in TLA+, checks them with TLC and
proves theorems about them with TLAPS. `PROJECT.json` lists components, runs, mutants, the map from definitions
to source lines, findings, hazards and theorems.

    tlasany Room.tla                                # parse
    tlc -workers 2 -config MCRoomGame.cfg MCRoom    # model-check
    tlapm EngineProofs.tla                          # prove

## 1. The system

Paths are under `src/server/internal/` unless they say otherwise.

| component | state | operations | what makes it correct |
|---|---|---|---|
| game engine, `game/engine.go` | players in turn order, who is in, turn, syllable in play, words used, history, scores, deadline, order of going out | `New`, `Submit`, `Timeout`, `NoMove`, `Resign` | the turn is always with somebody in the game; the chain is legal; a dead end takes everybody but the player who closed it; placings complete and final; the clock cannot be extended; the clock alone ends a game |
| room, `wsapi/room*.go` | seats (connection, window, readiness, owed result), owner, engine, `turnSeq`, chat, timers | one goroutine: 12 inputs, three timers, cancellation | seats and engine agree; no seat is bound to a dead socket nobody reports; a seat opens only for its player; the sequence names the turn; the room closes in the end |
| connection slots, `wsapi/server.go` | connections counted, in all and by address | count, reserve, upgrade, give back | no slot is lost or given over a ceiling; every slot comes back |
| session, `wsapi/session.go` | room and seat it believes in, outbox, two contexts | `attach`, `release`, `send`, `trySend`, `close`, reader, writer, keepalive | points at a room only while seated there; its end reaches the room; what it was sent before its end is flushed before the socket closes |
| dispatch, `wsapi/dispatch.go` | `greeted`, limiters, reported words | `Hello` and resume, room requests, moves, `leaveRoom` | one handshake; every request answered (but see finding 3); no quiet way out of a running game |
| hub, `wsapi/hub.go` | rooms by code, sessions by token, quick-match queue, `draining`, `liveGames` | create, join, quick match, register and expire tokens, shutdown | a code is one room; the room cap holds; nobody is paired with a dead or busy connection; the count of live games is exact |
| drain, `src/server/cmd/noitu-server/main.go` | none of its own | start draining, wait for games, shut down, flush | games in play are waited for; players are told why |
| chat, `wsapi/room_chat.go` | last 20 lines, each seat's `chatFrom` | say, replay, scrub a departed author | a seat sees only what was said while it sat there; nobody inherits a name |
| bot, `bot/`, `wsapi/bot_board.go` | frozen board | choose a word off the room's goroutine | the word is legal, and no worse than the search says; a stale answer is dropped |
| limiters, `wsapi/ratelimit.go` | token buckets | allow, sweep | burst and rate hold; sweeping never refills a busy key early |
| dictionary, `dictionary/store.go` | words by first syllable, aliases, meanings | lookups, opening word | canonical forms resolve to themselves; opening never a dead end |
| builder, `src/server/cmd/build-dictionary` | files: database, corpus, temp files | dump, corpus or list to database; dump to corpus; offline | the same words give the same aliases; the database's name never holds a broken one; the corpus rebuilds it |
| client socket, `src/web/src/lib/ws/client.js` | socket, backoff, stored token, resume latch | open, close, reconnect, intercept | one socket; the token stored is the one that resumes |
| client stores, `src/web/src/lib/stores` | what the screen shows | apply a server message | the screen follows the room it is in |

How they interact. A session's reader decodes a frame and dispatches it: to the
hub (create, join, quick match) or, as an input on a buffered channel, to its
room. A room handles one input at a time, drives its engine, and sends to the
outboxes of the connections seated in it. Rooms reach sessions through
`attach`, `release` and `close`, which take the session's mutex; a session's
end reaches its room as a disconnect notice; a session seated in another room
is reported to the old one by a goroutine spawned for that. Resume tokens tie
connections of one player together through the hub's map. The drain only reads
an atomic counter and sets an atomic flag; the shutdown cancels one context, from
which every room's and connection's derive. The builder runs by itself and leaves a
database file that the server opens read-only at its start.

Behaviours that are hard. A connection dies between any two steps of being
seated, resumed or told something. Notices are delivered late and in any
order. Several windows run out at once, in a running game, the owner's among
them. Seat ids are reused. A turn is ended by a timer, a late word, a
resignation and a true claim at once. A word in flight meets a rematch. A
quick match pairs somebody who is gone, or is overtaken by a join between its
two sends. An input is offered to a room that has
just answered its last one. The server drains while lobbies start games, and
stops while a room is being registered. A reader stalls with its outbox full, while
others go on sending to it, and its connection has to end and give its slot back. A chat
line is dropped on its way to one client. A build is killed between two files.
`PROJECT.json` lists these at their lines under `hazards`.

## 2. The modules

    TurnOrder <- Table (what a game promises)
        ^            ^
        |            | implements (Promise, in Engine; Board, in Room)
        +-- Engine --+-- Room <- MCRoom
        |     ^  ^
        |     |  +-- MCEngine
    SeatWalk  Scoring <- TrimLoop
        ^                   ^
        +------ MCAlgorithms -+-- BotSearch

    Hub <- MCHub                        Chat <- MCChat
    Slots <- Conn <- MCConn
    Session <-+
    AliasTable, Senses, Store <- Build <- WikiBuild <- MCBuild
                Senses <- Wikitext <------+      Spelling <-+

    RulesProofs <- EngineProofs, RoomProofs, LoopProofs
    HubProofs   ConnProofs   ChatProofs   BuildProofs

Each proof module extends the modules it is about: RulesProofs TurnOrder and
Scoring, LoopProofs SeatWalk, TrimLoop and BotSearch, ConnProofs Conn (and with it Slots and
Session), the others the module of their name.

- **TurnOrder** says where the engine's walks round the table stop:
  `NextAlive` (advance), `LastAlive` (settle), `Place` (position in outOrder).
  They are closed forms so that a step of the game is one formula that can be
  proved about. **SeatWalk** runs the two loops themselves, one iteration at a
  time; they are checked and proved to stop there.
- **Scoring** is `pointsFor` in closed form; **TrimLoop** runs its trimming loop,
  and the two are checked and proved to agree.
- **Table** is the abstract specification of a game: who is in, whose turn, how
  much clock, whether the position is a dead end. No words.
- **Engine** is `engine.go`. One action per exported method that changes it;
  `Submit` is three disjuncts (`Play`, `PlayLate`, `Refuse`) over the rules in
  their order (`Judge`). Seats are indices into `players`; `alive` is a set,
  `outOrder` is kept as each seat's position in it (`outAt`); the deadline is
  the number of ticks left, -1 once it has passed, and `Tick` is time in the
  caller. `verdict` is the answer of the last call. Resignation from behind and
  the dead end it leaves pending are as in the code.
- **Room** is one PvP room with the connections round it. One action per input,
  timer and way of ending, each the whole handler; and one per thing that runs
  beside it: a connection opening (`handleHello`, which reads the prior
  connection's seat there and then), asking to join, being seated elsewhere,
  ending (`close`, then `leaveRoom`), a token expiring, the server draining.
  A seat is its connection, the one it is held for, readiness, the owed result,
  whose it is and whether a pairing took it there. The last two are history the
  code does not keep; the properties need them. The room's game is the state
  of Table for the seats of the room, and `PlaysAtATable` checks that while it
  goes on the room moves it only by Table's steps, which Engine is proved to
  implement. Windows that run out together are several of those steps at once, which it
  leaves aside; `PlayersAreSeated` and `OwnerCanAlwaysLeave` speak of them.

  Inputs that carry what their sender saw (create, join, resume, disconnect)
  are kept in the set `inputs` until they are handled. It is a set because
  their senders are different goroutines, some of them blocked on a full
  channel; the orders one goroutine does fix (a room's create before all,
  a connection's resume before its join, its joins before its leaveRoom) are
  guards. `quickMatch` sends the create and the join apart, to a room that is registered
  already: `pairing` is who has the join still to send, `pairingJoins` its second send, and
  anybody who has learnt the code may join in between. Inputs that name only their own
  seat (words, lobby actions) are one action, taken when the room gets to it.

- **Hub** is what connections and rooms share: the registry, the queue, the
  drain and the shutdown, with the mailbox between a connection and a room. Where Room
  has one room and takes its mailbox for granted, Hub has several and cuts every
  request where another goroutine can come between: at each lock of the hub, at
  the read of `draining`, and inside `send` between the look at the room's context
  and the offer to its inbox (`checkRoom`, `offer`). A room's `select` picks at
  random, so a cancelled context may be noticed before or after waiting inputs;
  its deferred calls (`evict`, then `refusePending`, `returned`) are steps of their
  own. What a room does with its seats is reduced to who is seated, who is
  away and whether its game is counted. A disconnect notice is a member of
  `notices` until `sendReliably`, a goroutine of its own when it comes from
  `attach`, has delivered it or given it up. The operator drains, waits for live
  games or not, shuts down and cancels.
- **Slots** is `handleWS`: where each request stands between being counted and
  being uncounted, and the two counters.
- **Session** is the five goroutines round one socket: reader, writer, the watcher that
  cancels the reader once the writer has drained, keepalive, and the handshake timer;
  with the two ways to put a frame in the outbox. `send` into a full one is two steps,
  the refusal and the `s.close()` of its caller (`sendCloses`): until then `closing` stands, and
  the writer may drain and other goroutines queue. `owed` and `games` are history.
- **Conn** composes them: requests share the slots, and one of them (`focus`) serves
  a Session; Slots is its abstract specification, which `ConnProofs` proves it to
  implement.
- **Chat** is a room's conversation and the panel each client makes of it.
  `said` remembers who said a line, `lossless` whether a panel has missed any.
- **BotSearch** is the three strategies over the frozen board. The draws are
  sets of words they may answer. A mobility leaf is the count of replies instead of
  its logarithm, which orders positions the same. Hard's search is a function of the plies left
  and of what it is asked (position, window, budget); its loops are folds. Beside it stands
  plain minimax, and `uncapped` says when the two must agree: no syllable
  starts more words than are tried, and the search ends with nodes to spare.
- **AliasTable** is the loop of `buildAliases`, a word at a time in any order.
  **Spelling** is where its variants come from (`aliases.go`): clusters of
  letters with tone and vowel marks. **Store** is the database and what the server
  makes of it when it opens it. **Senses** says what a meaning is, a label and a gloss.
  **Build** composes them: three kinds of build, each a sequence of steps over
  four file names, each of which may fail or be the last before the process is
  killed. What a page says is its parameter: any texts, of which some have a
  Vietnamese section with senses in it. **Wikitext** reads such a text, a sequence of lines of
  six kinds whose definitions are sequences of tokens: the section, the
  headings, what is left of a definition. **WikiBuild** is the builder of such pages.

Each module keeps the mutants of its definitions beside them (a comment says
which): one way a plausible bug would change the definition above which it
stands. No specification uses them.

## 3. What the runs check

| run | configuration | states | shows |
|---|---|---|---|
| `engine` | 2, 3 and 4 players, 4 words over 3 syllables, one alias, 2 ticks | 492,998 | rules, placings, scores, clock; implements Table; every game ends |
| `algorithms` | tables of 2 to 5; scoring inputs either side of every limit; every dictionary over 3 syllables | 20,964 | the loops stop where the closed forms say; better is never worth less; bots answer legally and as well as their search should |
| `room_game` | 3 seats, 3 connections, 2 turns | 2,070,537 | seats, engine and sequence stay in step |
| `room_presence` | 2 seats, 3 connections of 2 players, one of them roaming | 2,754,800 | seating, resume, disconnect and pairing race safely; only the first join of a quick-matched room deals unasked |
| `room_closes` | 2 seats, 3 connections, no roaming, server may drain and shut down | 587,638 | exact count of live games; an abandoned room closes |
| `server` | 2 connections, 2 rooms, 2 codes, inboxes of one | 880,742 | codes and rooms match; nobody queued or seated is forgotten; shutdown ends everything |
| `conn` | 2 requests from one address, outbox of one, 2 frames | 138,662 | slots add up and come back; a connection that has missed a game frame is being closed; what was queued before the close arrives |
| `chat` | 3 seats, window of 2, 3 lines | 266,512 | panels show what they may, under the right names |
| `build` | 2 builds, wikis of up to 6 words, pages of up to 5 lines | 22,882 | order-free aliases; the database is always servable; the corpus rebuilds it; labels follow headings |
| `room_notice` | 2 seats, 2 connections, one roaming | violation | finding 1 |
| `room_pairing` | 2 seats, 3 connections, 1 turn | violation | finding 2 |
| `server_late` | 2 connections, 1 room, an inbox of one | violation | finding 3 |

Bounds, and why they are enough.

- `MCEngine`: the dictionary has a word after which nothing starts, words that
  can be used up, and a spelling whose own first syllable differs from its
  canonical form's, so dead ends come about at once, later, and by reuse; with four
  players a sweep takes out several, and resignations from behind leave gaps in
  the order. Two ticks let a word come early, at the deadline and late.
- `MCAlgorithms`: five seats is one more than the server ever seats. The search
  runs at the server's depth, branch and node caps, on all 511 dictionaries of
  the nine pairs of three syllables that are not empty, with up to one word played; neither cap
  is reached there, so what the search does when its budget is spent is not judged.
- `Room`: `MaxSeq` bounds the turns (no game starts and no word is played at
  it; eliminations go on). Two turns of a three-seat game reach every handler,
  simultaneous windows, promotion and a rematch. `Session` bounds how often a
  player reconnects: twice a connection for one player is what it takes to race
  an old token, an old notice and a reused seat. `Roaming` says whom other rooms
  may seat, `MayDrain` whether the server goes down, `JoinsAtOnce` how many
  joins by code wait at a time, beside a pairing's own: with one, a third party's can already be
  handled before the pairing's. The theorems put no bound on either.
  The runs divide these dimensions among them: all at once is out of TLC's
  reach. `room_game` uses that two guests are interchangeable (symmetry).
- `MCHub`: `Asks` says what each connection may ask for, `Mortal` which may end
  before the server does. One asks to be paired or for a room of its own and
  then for something else; the other asks once: enough to be paired, to be
  moved from one room to another, to cancel while being paired, and to meet a
  full inbox or a room that has just ended. Two rooms never meet the ceiling of two with a
  third creator waiting; that no creation exceeds it is `RegistryIsExactAlways`.
- `MCConn`: the second request meets the server's ceiling when that is one and
  its address's when it is two. Two frames and an outbox of one make a game frame, a
  chat line and a refusal each meet a full outbox.
- `MCChat`: three lines over a window of two push one line out; three seats
  are one that leaves, one that missed a line and one that talks.
- `MCBuild`: "hoa li" has four spellings, any of which may have a page, so a
  spelling is claimed by none, one, two or three words; a page is any three lines out of
  twelve of every kind, and longer ones where three cannot tell two readings apart.
  A second build may start from what any ending of the first has left.

`CHECK_DEADLOCK FALSE` stands where the system stops: `algorithms` (a run is
done), `build` (no build is left), `conn` (the only request followed has ended
and the bounds are used up) and `chat` (the room closes with its last seat).
An engine whose game is over still refuses words, a room that has returned
is over (`returned`), and a server that has ended stays so (`ended`).

Fairness. `Engine.FairSpec` has the clock go on and the owner call `Timeout`
when a turn has run out: the room arms a timer for every deadline and rearms it
after every input. Nothing makes a player move. `Room.FairSpec` has the run
loop take each input in the end (`select` picks at random among what is
ready), each reconnect window run out (the timer is rearmed after every input), and
each ended connection run its deferred `leaveRoom`, and a
`quickMatch` that has sent its create send its join. The idle timer and the
players are not counted on, nor is the shutdown. `Hub.FairSpec` has a connection come out
of its dispatch and, its context cancelled, run its teardown, and a room notice that its
context is cancelled and take itself apart: goroutines that are ready run. `Conn.FairSpec` is
the same of the goroutines of a session and the deferred calls of its handler, with
the timeouts on a write, a ping and the handshake passing; the peer need do nothing.

## 4. What is proved

All safety properties the passing runs check are theorems. Each holds for every
value of the constants that satisfies the module's ASSUMEs, which TLC evaluates in the runs.

**The engine** (EngineProofs). For every dictionary, every set of tables of at least two
distinct players and every turn length:

- `EngineInvariant`: `Spec => []Inv`, with `Inv` the conjunction of `TypeOK`,
  `TurnIsAlive`, `ChainIsLegal`, `CloserIsNeverStuck` and two strengthenings:
  `ReasonsMatch` (a seat has a reason for being out exactly when it is out) and
  `CloserIsLast`: while the position is a dead end and its closer is in the
  game, nobody in the game comes after the closer in turn order. That is what
  makes `CloserIsNeverStuck` inductive. Passing the turn makes the player the
  last in order (`PasserIsLast`), eliminations keep the last one last
  (`LastStaysLast`), so a sweep, which leaves the last in order, leaves the closer.
- The parts of it that runs check, each by name: `EngineTypeOK`,
  `EngineTurnIsAlive`, `EngineChainIsLegal`, `EngineCloserIsNeverStuck`.
- `EngineFreshTurnIsPlayable` and `EngineClockIsNotExtended`, action properties, from `Inv`.
- A layer of its own for the placings. Every step takes out a set of seats, and
  `PlacesFillUp` says that those who go out together fill the next places, one
  each: `EnginePlacingsAreComplete`, `EngineLaterOutStandsHigher`.
- Another for the scores. `EngineScoresMatchMoves` needs that the sum of a player's moves is
  the old sum and the new move, in whatever order a sum over a set of moves takes
  them (`SumTakesAny`).
- `EngineImplementsTable`: the initial states map to Table's, and every step
  to a step of it or a stutter.

**The rules and their loops** (RulesProofs, LoopProofs). The engine's steps use closed
forms for four loops of the code; that the loops compute them is proved for tables of
any length and words of any kind.

- RulesProofs: the walks' closed forms are well defined and what they pick
  (`NextAliveFacts`, `LastAliveFacts`, `PlacesDiffer`); points lie between the base and the cap
  and are the sum of the terms cut to the cap (`PointsRange`); a better answer scores
  no less, term by term and after the cut (`PointsGrow`).
- `WalksStopWhereSaid`: `advance` and `settle` stop where TurnOrder says, and `advance` before
  it has gone all round. The invariant is that the seats the walk has been past are
  exactly those of the table that wait less than the one it has come to, and that those taken out
  are among them, in that order.
- `TrimsAsSaidAlways`: the trimming loop leaves what Scoring says and never comes to the base or
  the chain term. The invariant: the terms behind the loop have what they keep,
  and `overflow` is what of the excess they could not give. `BetterIsNeverWorthLessAlways`
  follows from `PointsGrow`.

**The bot** (LoopProofs). `BotsChooseWellAlways`, for every dictionary and position, every
node cap, and the limits of `SearchLimits`: a loss is worth no less than `loseScore` to the
loop that looks for the best reply, which from the fifth ply on would merge losses that differ,
and a mobility leaf has to be worth less than a win, so no more than 999 words may be tried.

- Sorting by what a move hands over, ties in the order they came, gives every move one place
  (`EveryMoveHasAPlace`), so what is tried first is no looser than the rest: this is
  why medium sees a win when there is one.
- `IsRight` is what alpha-beta keeps: a search that ended within its budget is exact inside its
  window and on the right side of it outside. The invariant of the loop over the replies
  (`NodeIsRight`) is weaker than "best is the maximum so far": once nothing can reach the
  window's end it holds only of the lines that could matter. `SearchIsRight` goes up the
  plies; `RootIsRight` says that the root's answer is worth what was found for it and
  nothing beats it.
- The search does not compute minimax but `floored` minimax, as its loop starts at
  `loseScore`. What minimax can be at each ply is a small set (`ValuesAre`), so the floor
  is felt at one value only, with three plies left, which it moves next to itself without passing
  another (`FlooredIs`). No comparison changes (`WorthAsFound`).
- Where the caps do cut, only legality and the taking of wins are claimed: the code
  then keeps the best word found so far.

**The room** (RoomProofs). For every number of seats, connections and people, whatever
other rooms and the operator do. Three layers, each proved on those before it.

1. `SeatInv`: a seat is free, bound to one connection or held for one, never both; that
   connection is the seated person's; an input in flight names a seat of the room and, when it is a
   resume, a prior of the same person; an owner is seated and not ready; a room that has
   returned is empty. It is inductive by itself (`SeatInvariance`), and says
   `SeatStaysAlways` and `OwnerCanAlwaysLeaveAlways`. Windows running out together are one step
   (`VacateFacts`).
2. `GameInv`: a running game has two seated players or more, one of them on turn, and the
   room is counted exactly while it runs. It needs the first layer for who is
   seated, and gives `PlayersAreSeatedAlways`, `DrainCountsTheGameAlways` and
   `SequenceNamesTheTurnAlways`; with the rules of elimination, `PlaysAtATableAlways` (the room
   moves its game only by steps of Table) and `ResultsAwaitAResumeAlways`.
3. `ConnInv`: where connections and inputs stand to each other. `SeatIsWatched` alone is
   not inductive. A seat's dead connection is watched because a notice is on its way or its teardown is
   to come; a step that seats somebody could break that, unless no connection has two
   seats (`OneSeatEach`), one that has not said Hello is nowhere (`NewIsNowhere`), a resume is
   handled before anything else its connection sends (`ResumesAreFirst`) and a create before
   everything (`CreateIsFirst`). `ArmedIsAlone` is needed for
   `OnlyTheFirstJoinDealsAlways`: while the flag of a quick match is up nobody but the
   creator has been seated, so whichever join is handled first finds it and takes it down. That this
   need not be the pairing's own is finding 2. From the layer also `SeatIsWatchedAlways`. Any
   number of joins may wait at a time, a pairing's among them or not sent yet.

`NoGhostSeatAlways` adds that only connections that are gone have a notice on its way
(`NoticesOfTheGone`). It assumes `Roaming = {}`, as its run does: where other rooms may take
a connection, a late notice makes a ghost seat. That is finding 1, and `room_notice` shows it.

**The hub** (HubProofs). For any sets of connections, rooms and codes, any inbox and any
ceiling no higher than the number of codes (`HubAssumption`). Four layers.

1. The registry. `HubInv` adds to `RegistryIsExact` only the shape of the variables. All steps but
   two are quiet (`mayBecome`: a running room may be cancelled, an evicted one return, and the
   registry stays); `newRegisteredRoom` draws a free code, which exists because the
   ceiling has been looked at under the same lock, and `evict` frees the code only of
   the room that is under it. `RegistryIsExactAlways`.
2. The queue. `QueueInv`: it never holds two, and whoever is in it has not run its teardown, which
   takes them out; a connection that has is in no dispatch. `QueueHoldsTheLivingAlways`.
3. The mailbox. `MailInv`: wherever a dispatch stands, what it has still to send fits, and
   every inbox, notice and letter is well formed. From it, a step does one of three things to
   an inbox: leaves it, takes its head or puts one input behind it (`InboxStep`).
   The fourth layer rests on it. That every input is answered cannot be had: what is sent
   across the end of a room stays in its inbox (finding 3).
4. The seats. A seat is followed by its session, by a notice on its way or by a disconnect in
   the inbox; what follows it is replaced by the next before it is gone, through every
   move from one room to another. `SeatsAreFollowedAlways`.

**Slots and session** (ConnProofs). For any finite set of requests, any addresses, caps,
outbox, frames and missed pings.

- `SlotsAddUpAlways`. The strengthening is that the handlers *past* the
  server's ceiling are within it (`Passed`): a request that is refused is counted
  until it takes itself back, so the counter may exceed the ceiling and does not
  bound those served. `ConnImplementsSlots` proves that Conn, where one of them
  runs a whole session, implements Slots, and `ConnSlotsAddUp` carries the property over.
- `MissedMeansClosingAlways` and `LastWordsArriveAlways`, from `SessionInv`: how the five goroutines
  may stand to each other (`Workings`); what the server still has for the peer, the frame
  being written in front, is in the order it was sent (`InOrder`) and, while the context is live and
  no sender is about to cancel it, lacks none the peer lacks (`Whole`); and what was queued
  before the context was cancelled leads what is still to be written (`NothingIsOwed`). A
  frame can be missed, and later ones arrive, between a sender's meeting the full outbox and
  its closing the session; nothing brings the lost one back, so the property is that
  the close is then to come. A peer whose outbox is full may get no reason at all: the
  refusal finds no room either.

**The chat** (ChatProofs). For any number of seats and any window: `PanelsAreTrueAlways`.
`ChatInv` says that the window is numbered without a gap, so a replay to a seat is the window's last
lines (`HistoryIs`); that a line names its sayer as long as they have not left and nobody
else ever (`Attributed`); and that a panel that has missed nothing is the replay its seat would get
now (`PanelsShow`). The client trims its panel by its own count and the room its window by
its own, and `SaidToBoth` proves that a next line leaves the two the same.

**The builder** (BuildProofs). For any words, any spellings, any `variantsFor` that
never gives a word back (`VariantsAssumption`), any dumps and lists, any texts whose senses
have a gloss and no bar in their label (`BuildAssumption`), and any number of builds:

- `TableIsOrderFreeAlways` of the loop alone, `BuildTableIsOrderFree` of whole builds.
  `AliasInv` says what `poisoned` holds besides: exactly the spellings, no words themselves,
  that two of the words gone through claim. Without it a spelling claimed a third time would
  come back.
- `OutIsAlwaysServableAlways`. `BuildInv` says what each stage has made so far: from
  the end of the loop on, a complete database of the words read; after the
  rename, that one under `out`. A complete database opens (`CompleteOpens`),
  and the prefix of the sorted openers that a game draws from is all of the words with
  the continuations asked for (`OpenersAreSorted`, `PickIs`): a stable sort gives every
  place to one word (`EveryPlaceIsTaken`), more continuations first.
- `CorpusRebuildsTheSameAlways`. A sense is cut at the first bar of its cell, which is the one
  its writer put there, as no label holds one (`SenseReadBack`); the cap on the senses of
  a word cuts nothing, as what was written had passed it (`CellsReadBack`); and a word that
  stands on one line is read from that line (`CorpusReadsBack`). `BuildInv` adds that
  only what `verify` passed is exported, and that a build from the corpus works on
  the words and meanings the corpus was exported from.
- `SensesStandInTheSectionAlways`, of pages of any length with templates nested to any
  depth (`WikiAssumption`): a page's section is the one its markers cut out
  (`MarkerCutKeeps`), the senses are the definitions of the section in their order
  (`SensesInTurn`), and each bears the nearest heading above it (`LabelIsNearest`, the
  invariant of the walk down the lines). What is left of a definition is found by
  stripping the outermost templates as long as there are any: each level exists and
  is a text again (`LayersExist`, `StrippedAreTexts`), and none loses what stands before the
  first opener (`OutermostKeeps`). `PagesAreRead` ties a build's meanings to the pages it read.
  The attempt found a fault of the model: the arms of a CASE in `dialectOf` overlapped for a
  page with neither marker, which TLC never notices as it takes the first.
- `PagesGiveSenses`: Build takes what a page says as a parameter and assumes that it is a
  sequence of senses (`BuildAssumption`); what Wikitext reads on any page is one. A
  definition stays a text through templates and links, and a walk over headings only
  ever makes labels (`HeadingsAreLabels`).

Loops that are folds (the sum of a player's moves, the replay of the chat, the readers of the
builder, the search of the bot) take an argument by induction, and the induction theorems of
the library take an operator, which the provers cannot instantiate. Where one is needed it is done by
contradiction instead: of the lengths for which the claim fails there would be a least one
(`LeastNatural`, from the well-foundedness of the naturals).

Only model-checked is liveness (`GameEnds`, `AbandonedRoomCloses`, `ShutdownEndsEverything`,
`SlotsComeBack`), which is out of the prover's reach. `LabelsAssumption`, that the labels
Wikitext writes down are texts without a bar, is left to TLC: for the provers no particular
string is known to be in STRING.

## 5. Findings

1. `room_notice`. A seat's `sess` is documented as nil only while its player is
   disconnected (`wsapi/room.go:97`). A notice that another room's `attach`
   sent late names the same connection and the same seat id after the
   connection was kicked and seated again, and `handleDisconnect` holds the
   seat of a connection that is alive in it.
2. `room_pairing`. "The first join a quick-matched room handles is the pairing itself"
   (`wsapi/room_lobby.go:42-43`). The create and the join of a pairing are two sends to a
   room that is registered (`wsapi/hub.go:231-232`). Handling the create tells the waiter's
   client the code; a join by that code that is handled before the second send takes the seat,
   uses the flag up and is dealt a game.
3. `server_late`. What is queued behind a room's last input is said to be answered, and
   `send` to refuse from the cancel on (`wsapi/room.go:292-293`, `306-307`, `481-485`).
   `send` looks at the context first; if the room ends and drains its inbox before the second
   `select`, that finds both the context done and room in the inbox and may pick the inbox.
   It returns true, so the caller says nothing, and the request stays where nobody reads it.

None breaks the properties the other runs check: after 1 the seat still runs out or is
resumed by its own player's connection; in 2 only the first join deals, once; 3 loses
requests, never a seat, as a notice is lost only with the room it was for.

Two smaller disagreements, of a comment each, have a configuration to run by hand.

- `tlc -config MCRoomDeadResume.cfg MCRoom`: `handleResume` says that a resume whose connection is
  already dead leaves the seat exactly as reachable as before
  (`wsapi/room_presence.go:155-158`). The token that opened it has been
  spent, and only the dead connection's opens it now.
- `tlc -config MCChatDrift.cfg MCChat`: the client's panel is said to be "the same window the server
  keeps, so the two can never disagree" (`src/web/src/lib/stores/game-apply.js:15-17`),
  and a departure is said to correct what the others show
  (`wsapi/room_lobby.go:286-290`). A panel that missed a line is bounded by count and so
  reaches further back than the room's window; a departure replays the history only if
  the window still holds a line of the one who left, so that panel keeps
  showing the name.

## 6. Not modelled

- Wire format, error codes, metrics, logging, static files, configuration, nicknames,
  Unicode normalization and the page's components: text or I/O without the concurrency or
  the state this project is about. The rate limiters: arithmetic on times behind one lock.
- The client's socket (backoff, stored token, resume latch) and what its stores
  show besides chat.
- Of the room: the tally of wins, suggestions, word reports, who is told what in which
  words, and a bot's table: its worker's answer is dropped unless its `turnSeq` is the
  room's.
- Of the session: time. A drain or a write times out only on a peer that is not
  reading, and a ping that is waiting when the session is cancelled returns at once.
- Of the shutdown: a listener that fails, which ends the process without a drain.
- Of the builder: which titles make a word (filter and syllable tables), comments,
  references and entities in a definition, the cap on a definition's length, a
  database that cannot be read back in `verify`, and a rename on a file system that does
  not replace at once.

## 7. Plan

Done: TurnOrder, Table, Scoring, Engine, SeatWalk, TrimLoop; Room; Hub, with the
mailbox and the drain; Slots, Session, Conn; Chat; BotSearch; AliasTable, Spelling,
Senses, Wikitext, Store, Build, WikiBuild; and the proofs of section 4. Next, in this order:

1. **Client**: socket, stored token, resume latch, against a server that
   accepts or refuses; properties: at most one socket, the stored token is the
   one that resumes the seat the player holds, a client that wants to be connected gets there.
2. A bot's table in Room: worker, frozen board, stale answers; a bot's game ends.
