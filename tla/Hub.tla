--------------------------------- MODULE Hub ---------------------------------
(***************************************************************************)
(* What every connection and every room of the process share: the registry *)
(* of rooms, the quick-match queue, the drain and the shutdown             *)
(* (wsapi/hub.go, server.go, noitu-server/main.go), with the mailbox       *)
(* between a connection and a room (room.send, sendReliably,               *)
(* refusePending) and the order in which a room goroutine takes itself     *)
(* apart (the defers of room.run).                                         *)
(*                                                                         *)
(* Each dispatch is cut where another goroutine can come between: at every *)
(* lock of the hub, at the read of `draining`, and inside send between the *)
(* look at the room's context and the offer to its inbox.  What a room     *)
(* does with its seats is Room.tla's business; here a room keeps who is    *)
(* seated, who of them is away, and whether its game is counted live.      *)
(***************************************************************************)
EXTENDS Integers, SequencesExt

CONSTANTS
    Session,        \* connections, each used once
    Room,           \* room goroutines, numbered in the order they start
    Code,           \* room codes; the lowest that is free is drawn
    None,
    MaxRooms,
    InboxCap,
    Asks,           \* bound: what each connection may ask for first, second, ...
    Mortal          \* bound: the connections that may end before the server does

ASSUME HubAssumption ==
    /\ None \notin Session \cup Room
    /\ Room \subseteq Nat
    /\ Code \subseteq Nat /\ IsFiniteSet(Code) /\ MaxRooms <= Cardinality(Code)
    /\ {MaxRooms, InboxCap} \subseteq Nat \ {0}
    /\ DOMAIN Asks = Session
    /\ Mortal \subseteq Session

VARIABLES
    conn,           \* up, down (ctx cancelled), left (run() has come to leaveRoom)
    at,             \* session.room
    asked,          \* the requests each connection has sent
    step,           \* [at, want, with]: where its dispatch is; "idle" between two
    post,           \* the inputs its dispatch still has to send
    checked,        \* send has found the room's context live, and has not offered yet
    waiting,        \* hub.waiting
    registry,       \* hub.rooms, the room under each code
    rooms,          \* the rooms themselves
    notices,        \* disconnect inputs sendReliably is waiting to deliver
    draining,       \* hub.draining
    operator        \* serving, told (hub.shutdown has run), stopped (hub.ctx cancelled)

dispatching == <<asked, step, post, checked>>
server == <<draining, operator>>
vars == <<conn, at, dispatching, waiting, registry, rooms, notices, server>>

Idle == [at |-> "idle", want |-> "none", with |-> None]
Unborn == [phase |-> "unborn", code |-> None, seats |-> {}, away |-> {}, live |-> FALSE,
           auto |-> FALSE, bot |-> FALSE, inbox |-> <<>>, dealing |-> FALSE, cut |-> FALSE]
Input(type, s, auto) == [type |-> type, sess |-> s, auto |-> auto]

stopped == operator = "stopped"
Registered == {k \in Code : registry[k] # None}
Unused == {r \in Room : rooms[r] = Unborn}
Seated(r) == rooms[r].seats \ rooms[r].away

\* Mutant of over: a room's context is its own, not a child of the hub's.
overAlone(r) == rooms[r].phase # "running" \/ rooms[r].cut

\* ctx.Err() of a connection and of a room: both contexts are children of hub.ctx.
dead(s) == conn[s] # "up" \/ stopped
over(r) == rooms[r].phase # "running" \/ rooms[r].cut \/ stopped

occurrences(seq, x) == Cardinality({i \in DOMAIN seq : seq[i] = x})

\* The queue without the first x in it, if there is one.
without(seq, x) ==
    IF x \in ToSet(seq) THEN RemoveAt(seq, Min({i \in DOMAIN seq : seq[i] = x})) ELSE seq

----------------------------------------------------------------------------
(***************************************************************************)
(* A connection comes and goes                                             *)
(***************************************************************************)

close(s) ==
    /\ conn[s] = "up"
    /\ s \in Mortal \/ stopped
    /\ conn' = [conn EXCEPT ![s] = "down"]
    /\ UNCHANGED <<at, dispatching, waiting, registry, rooms, notices, server>>

notify(s) == IF at[s] = None THEN {} ELSE {[to |-> at[s], sess |-> s, by |-> "session"]}

\* Mutant of teardown: run() does not leave the queue.
teardownQueued(s) ==
    /\ conn[s] = "down"
    /\ step[s] = Idle
    /\ conn' = [conn EXCEPT ![s] = "left"]
    /\ notices' = notices \cup notify(s)
    /\ UNCHANGED <<at, dispatching, waiting, registry, rooms, server>>

\* The deferred calls of run(), once the read loop is out of its dispatch:
\* cancelQuickMatch and leaveRoom.
teardown(s) ==
    /\ conn[s] = "down"
    /\ step[s] = Idle
    /\ conn' = [conn EXCEPT ![s] = "left"]
    /\ waiting' = without(waiting, s)
    /\ notices' = notices \cup notify(s)
    /\ UNCHANGED <<at, dispatching, registry, rooms, server>>

----------------------------------------------------------------------------
(***************************************************************************)
(* dispatch.  A request that is refused at once changes nothing here and   *)
(* is left out: the limits, the mid-game refusal, a code nobody holds.     *)
(***************************************************************************)
refuseMidGame(s) == at[s] # None /\ rooms[at[s]].live

begin(s, kind) ==
    /\ conn[s] = "up"
    /\ step[s] = Idle
    /\ asked[s] < Len(Asks[s])
    /\ kind \in Asks[s][asked[s] + 1]
    /\ asked' = [asked EXCEPT ![s] = @ + 1]

goTo(s, where, want, with) == step' = [step EXCEPT ![s] = [at |-> where, want |-> want, with |-> with]]

\* createRoom, startBotRoom: "create" or "bot".
createRoom(s, want) ==
    /\ begin(s, want)
    /\ ~refuseMidGame(s)
    /\ goTo(s, "open", want, None)
    /\ UNCHANGED <<conn, at, post, checked, waiting, registry, rooms, notices, server>>

\* QuickMatch: the seat, the game and the drain are looked at before the lock.
askQuickMatch(s) ==
    /\ begin(s, "quick")
    /\ at[s] = None
    /\ ~draining
    /\ goTo(s, "queue", "quick", None)
    /\ UNCHANGED <<conn, at, post, checked, waiting, registry, rooms, notices, server>>

cancelQuickMatch(s) ==
    /\ begin(s, "cancel")
    /\ waiting' = without(waiting, s)
    /\ UNCHANGED <<conn, at, step, post, checked, registry, rooms, notices, server>>

\* joinRoom, and toRoom for whoever is seated.
sendOne(s, r, kind) ==
    /\ goTo(s, "send", kind, None)
    /\ post' = [post EXCEPT ![s] = <<[to |-> r, input |-> Input(kind, s, FALSE)]>>]
    /\ UNCHANGED <<conn, at, checked, waiting, registry, rooms, notices, server>>

joinRoom(s) ==
    /\ begin(s, "join")
    /\ ~refuseMidGame(s)
    /\ \E k \in Registered : sendOne(s, registry[k], "join")

toRoom(s, kind) ==
    /\ begin(s, kind)
    /\ at[s] # None
    /\ sendOne(s, at[s], kind)

\* The first of the queue whose connection has not ended, 0 if there is none.
takeWaiter ==
    LET living == {i \in DOMAIN waiting : ~dead(waiting[i])}
    IN  IF living = {} THEN 0 ELSE CHOOSE i \in living : \A j \in living : i <= j

\* quickMatch inside its lock.  Dead waiters in front of the one taken go with it.
quickMatch(s) ==
    /\ step[s].at = "queue"
    /\ \/ /\ s \in ToSet(waiting)
          /\ step' = [step EXCEPT ![s] = Idle]
          /\ UNCHANGED waiting
       \/ /\ s \notin ToSet(waiting)
          /\ takeWaiter = 0
          /\ waiting' = <<s>>
          /\ step' = [step EXCEPT ![s] = Idle]
       \/ /\ s \notin ToSet(waiting)
          /\ takeWaiter # 0
          /\ waiting' = SubSeq(waiting, takeWaiter + 1, Len(waiting))
          /\ goTo(s, "open", "quick", waiting[takeWaiter])
    /\ UNCHANGED <<conn, at, asked, post, checked, registry, rooms, notices, server>>

\* newRegisteredRoom: the drain is asked about first, outside the lock.
askDraining(s) ==
    /\ step[s].at = "open"
    /\ step' = [step EXCEPT ![s] = IF draining THEN Idle ELSE [@ EXCEPT !.at = "register"]]
    /\ UNCHANGED <<conn, at, asked, post, checked, waiting, registry, rooms, notices, server>>

\* What a new room is sent first, and for a quick match second.
firstInputs(s, r) ==
    CASE step[s].want = "quick" ->
            <<[to |-> r, input |-> Input("create", step[s].with, TRUE)],
              [to |-> r, input |-> Input("join", s, FALSE)]>>
      [] OTHER -> <<[to |-> r, input |-> Input(step[s].want, s, FALSE)]>>

\* Mutant of unusedCode: the registry is not asked.
anyCode == Min(Code)

unusedCode == Min(Code \ Registered)

\* newRegisteredRoom inside its lock.  It may fail to draw a free code.
newRegisteredRoom(s) ==
    /\ step[s].at = "register"
    /\ \/ /\ Cardinality(Registered) < MaxRooms /\ Unused # {}
          /\ \E k \in {unusedCode}, r \in {Min(Unused)} :
                /\ registry' = [registry EXCEPT ![k] = r]
                /\ rooms' = [rooms EXCEPT ![r] =
                                [Unborn EXCEPT !.phase = "running", !.code = k,
                                               !.bot = (step[s].want = "bot")]]
                /\ post' = [post EXCEPT ![s] = firstInputs(s, r)]
                /\ step' = [step EXCEPT ![s].at = "send"]
       \/ /\ Registered # {}
          /\ step' = [step EXCEPT ![s] = Idle]
          /\ UNCHANGED <<registry, rooms, post>>
    /\ UNCHANGED <<conn, at, asked, checked, waiting, notices, server>>

----------------------------------------------------------------------------
(***************************************************************************)
(* The mailbox                                                             *)
(***************************************************************************)
Target(s) == Head(post[s]).to

sent(s) ==
    /\ post' = [post EXCEPT ![s] = Tail(@)]
    /\ step' = [step EXCEPT ![s] = IF Len(post[s]) = 1 THEN Idle ELSE @]

\* send looks at the context first ...
checkRoom(s) ==
    /\ step[s].at = "send"
    /\ ~checked[s]
    /\ \/ over(Target(s)) /\ sent(s) /\ UNCHANGED checked
       \/ ~over(Target(s)) /\ checked' = [checked EXCEPT ![s] = TRUE] /\ UNCHANGED <<post, step>>
    /\ UNCHANGED <<conn, at, asked, waiting, registry, rooms, notices, server>>

put(r, m) == rooms' = [rooms EXCEPT ![r].inbox = Append(@, m)]
full(r) == Len(rooms[r].inbox) = InboxCap

\* ... and then offers: if the room has ended meanwhile, select may still choose the
\* inbox, and send returns true.  Where it returns false, for a full inbox or a room
\* that is over, the caller answers.
offer(s) ==
    /\ step[s].at = "send"
    /\ checked[s]
    /\ sent(s)
    /\ checked' = [checked EXCEPT ![s] = FALSE]
    /\ \/ ~full(Target(s)) /\ put(Target(s), Head(post[s]).input)
       \/ (over(Target(s)) \/ full(Target(s))) /\ UNCHANGED rooms
    /\ UNCHANGED <<conn, at, asked, waiting, registry, notices, server>>

\* Mutant of sendReliably: it does not wait.
sendOnce(n) ==
    /\ notices' = notices \ {n}
    /\ \/ ~full(n.to) /\ put(n.to, Input("disconnect", n.sess, FALSE))
       \/ (over(n.to) \/ full(n.to)) /\ UNCHANGED rooms
    /\ UNCHANGED <<conn, at, dispatching, waiting, registry, server>>

sendReliably(n) ==
    /\ \/ ~full(n.to) /\ put(n.to, Input("disconnect", n.sess, FALSE))
       \/ over(n.to) /\ UNCHANGED rooms
    /\ notices' = notices \ {n}
    /\ UNCHANGED <<conn, at, dispatching, waiting, registry, server>>

----------------------------------------------------------------------------
(***************************************************************************)
(* The rooms.  A room handles the head of its inbox; whatever it does ends *)
(* with the check that somebody is still seated (settled).                 *)
(***************************************************************************)
settled(room) == [room EXCEPT !.phase = IF @ = "running" /\ room.seats = {} THEN "cancelled" ELSE @]

\* handled(r, room): the room becomes `room` after its first input, which is taken.
handled(r, room) ==
    rooms' = [rooms EXCEPT ![r] = settled([room EXCEPT !.inbox = Tail(rooms[r].inbox)])]

\* A cancelled context does not stop the room at once: select may take an input first.
running(r) == rooms[r].phase = "running" /\ ~rooms[r].dealing
first(r, type) ==
    running(r) /\ rooms[r].inbox # <<>> /\ Head(rooms[r].inbox).type = type
from(r) == Head(rooms[r].inbox).sess

\* attach: the room left behind is told from a goroutine of its own.
attach(r, s) ==
    /\ at' = [at EXCEPT ![s] = r]
    /\ notices' = IF at[s] \in {None, r} THEN notices
                  ELSE notices \cup {[to |-> at[s], sess |-> s, by |-> "attach"]}

\* takeSeat, with holdSeat for a connection that has ended on the way.
takeSeat(r, s) == attach(r, s) /\ waiting' = without(waiting, s)
seatedIn(room, s) ==
    [room EXCEPT !.seats = @ \cup {s}, !.away = IF dead(s) THEN @ \cup {s} ELSE @ \ {s}]

handleCreate(r) ==
    /\ first(r, "create")
    /\ takeSeat(r, from(r))
    /\ handled(r, [seatedIn(rooms[r], from(r)) EXCEPT !.auto = Head(rooms[r].inbox).auto])
    /\ UNCHANGED <<conn, dispatching, registry, server>>

\* A bot game begins at once; one nobody is there to play ends at once.
handleStartBot(r) ==
    /\ first(r, "bot")
    /\ takeSeat(r, from(r))
    /\ handled(r, IF dead(from(r)) THEN [seatedIn(rooms[r], from(r)) EXCEPT !.cut = TRUE]
                  ELSE [seatedIn(rooms[r], from(r)) EXCEPT !.live = TRUE])
    /\ UNCHANGED <<conn, dispatching, registry, server>>

\* handleJoin.  The pairing of a quick match asks about the drain and then deals.
handleJoin(r) ==
    /\ first(r, "join")
    /\ LET s == from(r)
           room == [rooms[r] EXCEPT !.auto = FALSE]
           refused == room.seats = {} \/ room.live \/ s \in Seated(r)
           joined == seatedIn(room, s)
       IN  IF refused
           THEN handled(r, room) /\ UNCHANGED <<at, waiting, notices>>
           ELSE /\ takeSeat(r, s)
                /\ handled(r, [joined EXCEPT !.dealing =
                                  rooms[r].auto /\ joined.away = {} /\ ~draining])
    /\ UNCHANGED <<conn, dispatching, registry, server>>

\* lobbyStart by an owner whose guests are ready.
lobbyStart(r) ==
    /\ first(r, "start")
    /\ \/ /\ from(r) \in Seated(r) /\ ~rooms[r].live /\ ~rooms[r].bot
          /\ ~draining
          /\ Cardinality(rooms[r].seats) >= 2 /\ rooms[r].away = {}
          /\ handled(r, [rooms[r] EXCEPT !.dealing = TRUE])
       \/ handled(r, rooms[r])
    /\ UNCHANGED <<conn, at, dispatching, waiting, registry, notices, server>>

\* beginGame: the engine is built and the game counted.
beginGame(r) ==
    /\ rooms[r].dealing
    /\ rooms[r].phase = "running"
    /\ rooms' = [rooms EXCEPT ![r].dealing = FALSE, ![r].live = TRUE]
    /\ UNCHANGED <<conn, at, dispatching, waiting, registry, notices, server>>

lobbyLeave(r) ==
    /\ first(r, "leave")
    /\ LET s == from(r)
           rest == rooms[r].seats \ {s}
       IN  IF s \in Seated(r) /\ ~rooms[r].bot
           THEN /\ handled(r, [rooms[r] EXCEPT !.seats = rest,
                                   !.live = @ /\ Cardinality(rest) >= 2])
                /\ at' = [at EXCEPT ![s] = IF @ = r THEN None ELSE @]
           ELSE handled(r, rooms[r]) /\ UNCHANGED at
    /\ UNCHANGED <<conn, dispatching, waiting, registry, notices, server>>

\* A word, a claim, a line of chat, a report: what it does is Room.tla's business,
\* except that it may end the game.  A bot room closes with its game.
handlePlay(r) ==
    /\ first(r, "play")
    /\ \/ handled(r, rooms[r])
       \/ /\ rooms[r].live
          /\ handled(r, [rooms[r] EXCEPT !.live = FALSE,
                            !.phase = IF rooms[r].bot THEN "cancelled" ELSE @])
    /\ UNCHANGED <<conn, at, dispatching, waiting, registry, notices, server>>

handleDisconnect(r) ==
    /\ first(r, "disconnect")
    /\ handled(r, IF from(r) \in rooms[r].seats THEN [rooms[r] EXCEPT !.away = @ \cup {from(r)}]
                  ELSE rooms[r])
    /\ UNCHANGED <<conn, at, dispatching, waiting, registry, notices, server>>

\* The turn timer ends the game, the reconnect windows run out, or the lobby's idle
\* window does.
timers(r) ==
    /\ running(r)
    /\ \/ /\ rooms[r].live
          /\ rooms' = [rooms EXCEPT ![r].live = FALSE,
                                    ![r].phase = IF rooms[r].bot THEN "cancelled" ELSE @]
       \/ /\ rooms[r].away # {}
          /\ rooms' = [rooms EXCEPT ![r] =
                          settled([rooms[r] EXCEPT !.seats = Seated(r), !.away = {},
                                                   !.live = @ /\ Cardinality(Seated(r)) >= 2])]
       \/ /\ ~rooms[r].live /\ ~rooms[r].bot
          /\ rooms' = [rooms EXCEPT ![r].phase = "cancelled"]
    /\ UNCHANGED <<conn, at, dispatching, waiting, registry, notices, server>>

----------------------------------------------------------------------------
(***************************************************************************)
(* The end of a room: the deferred calls of run, in their order            *)
(***************************************************************************)
noticeCancel(r) ==
    /\ running(r)
    /\ over(r)
    /\ rooms' = [rooms EXCEPT ![r].phase = "cancelled"]
    /\ UNCHANGED <<conn, at, dispatching, waiting, registry, notices, server>>

\* detachAll, stopCountingLive and evict: with the context cancelled, nobody can tell
\* them apart.
evict(r) ==
    /\ rooms[r].phase = "cancelled"
    /\ rooms' = [rooms EXCEPT ![r].phase = "evicted", ![r].live = FALSE,
                              ![r].seats = {}, ![r].away = {}]
    /\ at' = [s \in Session |-> IF s \in Seated(r) /\ at[s] = r THEN None ELSE at[s]]
    /\ registry' = [registry EXCEPT ![rooms[r].code] = None]
    /\ UNCHANGED <<conn, dispatching, waiting, notices, server>>

refusePending(r) ==
    /\ rooms[r].phase = "evicted"
    /\ rooms' = [rooms EXCEPT ![r].phase = IF rooms[r].inbox = <<>> THEN "returned" ELSE @,
                              ![r].inbox = IF @ = <<>> THEN @ ELSE Tail(@)]
    /\ UNCHANGED <<conn, at, dispatching, waiting, registry, notices, server>>

----------------------------------------------------------------------------
(***************************************************************************)
(* The operator: drainAndShutdown.  The drain may run out of time or be    *)
(* cut short, so once it has begun a shutdown can come at any point.       *)
(***************************************************************************)
startDraining ==
    /\ operator = "serving"
    /\ draining' = TRUE
    /\ UNCHANGED <<conn, at, dispatching, waiting, registry, rooms, notices, operator>>

\* hub.shutdown: the rooms registered now are cancelled, and the queue is dropped.
shutdown ==
    /\ operator = "serving"
    /\ draining
    /\ operator' = "told"
    /\ waiting' = <<>>
    /\ rooms' = [r \in Room |-> IF \E k \in Code : registry[k] = r
                                THEN [rooms[r] EXCEPT !.cut = TRUE] ELSE rooms[r]]
    /\ UNCHANGED <<conn, at, dispatching, registry, notices, draining>>

\* Server.Shutdown cancels hub.ctx last, and every context under it.
cancel ==
    /\ operator = "told"
    /\ operator' = "stopped"
    /\ UNCHANGED <<conn, at, dispatching, waiting, registry, rooms, notices, draining>>

----------------------------------------------------------------------------
Init ==
    /\ conn = [s \in Session |-> "up"]
    /\ at = [s \in Session |-> None]
    /\ asked = [s \in Session |-> 0]
    /\ step = [s \in Session |-> Idle]
    /\ post = [s \in Session |-> <<>>]
    /\ checked = [s \in Session |-> FALSE]
    /\ waiting = <<>>
    /\ registry = [k \in Code |-> None]
    /\ rooms = [r \in Room |-> Unborn]
    /\ notices = {}
    /\ draining = FALSE
    /\ operator = "serving"

connection(s) == close(s) \/ teardown(s)

request(s) ==
    \/ \E want \in {"create", "bot"} : createRoom(s, want)
    \/ askQuickMatch(s) \/ cancelQuickMatch(s) \/ joinRoom(s)
    \/ \E kind \in {"start", "leave", "play"} : toRoom(s, kind)

dispatch(s) ==
    quickMatch(s) \/ askDraining(s) \/ newRegisteredRoom(s) \/ checkRoom(s) \/ offer(s)

handle(r) ==
    \/ handleCreate(r) \/ handleStartBot(r) \/ handleJoin(r) \/ lobbyStart(r)
    \/ lobbyLeave(r) \/ handlePlay(r) \/ handleDisconnect(r) \/ beginGame(r)

unwind(r) == noticeCancel(r) \/ evict(r) \/ refusePending(r)

deliver == \E n \in notices : sendReliably(n)
operate == startDraining \/ shutdown \/ cancel

\* Everything has ended: every connection is gone and every room has returned.
ended ==
    /\ \A s \in Session : conn[s] = "left"
    /\ \A r \in Room : rooms[r].phase \in {"unborn", "returned"}
    /\ UNCHANGED vars

Next ==
    \/ \E s \in Session : connection(s) \/ request(s) \/ dispatch(s)
    \/ \E r \in Room : handle(r) \/ timers(r) \/ unwind(r)
    \/ deliver
    \/ operate
    \/ ended

Spec == Init /\ [][Next]_vars

\* Goroutines that are ready run: a connection's, which comes out of its dispatch and
\* sees its context cancelled, and a room's, which does not pass over a cancelled
\* context forever.  Nothing is assumed of who connects, asks, plays or shuts down.
FairSpec ==
    /\ Spec
    /\ \A s \in Session : WF_vars(dispatch(s) \/ teardown(s) \/ (stopped /\ close(s)))
    /\ \A r \in Room : WF_vars(beginGame(r) \/ unwind(r))

----------------------------------------------------------------------------
(***************************************************************************)
(* Properties                                                              *)
(***************************************************************************)

\* A room is under its code, alone, from its registration until it evicts itself, and
\* never more than MaxRooms are, whatever creators race for the last place.
RegistryIsExact ==
    /\ \A r \in Room :
          rooms[r].phase \in {"running", "cancelled"} <=>
              \E k \in Code : registry[k] = r
    /\ \A k \in Registered : rooms[registry[k]].code = k
    /\ Cardinality(Registered) <= MaxRooms

\* Nobody is in the queue twice, and nobody stays in it whose connection has run its
\* teardown: the next stranger is never paired with an empty chair for good.
QueueHoldsTheLiving ==
    \A s \in Session :
        /\ occurrences(waiting, s) <= 1
        /\ conn[s] = "left" => s \notin ToSet(waiting)


\* A room nobody points at any more does not keep somebody's seat bound to it: a
\* connection seated in a room that has not ended either still has that room for its
\* own or the room is being told otherwise.  (attach, release, leaveRoom.)
SeatsAreFollowed ==
    \A r \in Room, s \in Session :
        (~over(r) /\ s \in Seated(r)) =>
            \/ at[s] = r /\ conn[s] # "left"
            \/ \E n \in notices : n.to = r /\ n.sess = s
            \/ \E i \in DOMAIN rooms[r].inbox :
                  rooms[r].inbox[i].type = "disconnect" /\ rooms[r].inbox[i].sess = s

\* Once the server's context is cancelled everything ends: also a room registered
\* after hub.shutdown took its list, and a connection that arrived after it.
ShutdownEndsEverything ==
    stopped ~> /\ \A r \in Room : rooms[r].phase \in {"unborn", "returned"}
               /\ Registered = {}
               /\ \A s \in Session : conn[s] = "left"
=============================================================================
