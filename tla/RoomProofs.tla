----------------------------- MODULE RoomProofs -----------------------------
(***************************************************************************)
(* Proofs about Room, for every number of seats, every set of connections  *)
(* and people, and whatever the other rooms and the operator do.           *)
(*                                                                         *)
(* The invariant is built in layers, each proved on top of those before:   *)
(* the seats and who they belong to, the game and who is owed its result,  *)
(* the connections and the notices in flight, and the flag of a quick      *)
(* match, which stays up only while its creator is alone.                  *)
(***************************************************************************)
EXTENDS Room, RulesProofs, SequenceTheorems

----------------------------------------------------------------------------
(***************************************************************************)
(* The layers of the invariant.                                            *)
(***************************************************************************)
Seat == [sess : Session \cup {None}, heldFor : Session \cup {None}, ready : BOOLEAN,
         missed : BOOLEAN, who : Person \cup {None}, quick : BOOLEAN]

\* A seat is free, or bound to one connection or held for one, never both; and
\* the connection is its player's.
Sound(r) ==
    /\ r \in Seat
    /\ r.who = None => r.sess = None /\ r.heldFor = None /\ ~r.ready /\ ~r.missed
    /\ r.who # None => (r.sess = None <=> r.heldFor # None)
    /\ r.sess # None => Holder[r.sess] = r.who
    /\ r.heldFor # None => Holder[r.heldFor] = r.who

SeatsSound(ss) == ss \in [Seats -> Seat] /\ \A i \in Seats : Sound(ss[i])

\* What waits to be handled names seats of the room, and a resume the earlier
\* connection of the same person.
Input ==
    {m \in [type : {"create", "join", "resume", "disconnect"}, sess : Session,
            player : 0 .. MaxPlayers, prior : Session \cup {None}, quick : BOOLEAN] :
        /\ m.type \in {"resume", "disconnect"} => m.player \in Seats
        /\ m.type = "resume" => m.prior \in Session /\ Holder[m.prior] = Holder[m.sess]}

RoomTypes ==
    /\ running \in BOOLEAN
    /\ owner \in 0 .. MaxPlayers
    /\ autoStart \in BOOLEAN
    /\ inputs \subseteq Input
    /\ conn \in [Session -> {"new", "up", "down", "gone"}]
    /\ at \in [Session -> 0 .. MaxPlayers]
    /\ tokens \subseteq Session
    /\ draining \in BOOLEAN
    /\ pairing \in Session \cup {None}

\* A room that has returned has nobody in it and nothing left to handle.
Stopped == ~running => Taken(seats) = {} /\ inputs = {}

SeatInv == RoomTypes /\ SeatsSound(seats) /\ OwnerCanAlwaysLeave /\ Stopped

Game == [alive : SUBSET Seats, turn : 0 .. MaxPlayers, dead : BOOLEAN, late : BOOLEAN]

\* Two players or more, one of them on turn; or no game.
Playable(g) == Live(g) => g.turn \in g.alive /\ Cardinality(g.alive) >= 2

GameInv ==
    /\ game \in Game
    /\ Playable(game)
    /\ game.alive \subseteq Taken(seats)
    /\ turnSeq \in Nat
    /\ liveCounted \in BOOLEAN
    /\ liveCounted <=> Live(game)
    /\ DrainCountsTheGame

\* Two connections are never in one seat, nor one in two; and one that has not
\* said Hello is nowhere, and in no quick match either.
OneSeatEach ==
    \A i, j \in Seats : seats[i].sess # None /\ seats[i].sess = seats[j].sess => i = j

NewIsNowhere ==
    \A s \in Session : conn[s] = "new" =>
        /\ s # Creator
        /\ at[s] = 0
        /\ s \notin tokens
        /\ s # pairing
        /\ \A i \in Seats : seats[i].sess # s /\ seats[i].heldFor # s
        /\ \A m \in inputs : m.sess # s

\* A connection sends one resume, before it can be seated; the room's create comes
\* before everything else.
ResumesAreFirst ==
    \A m \in inputs : m.type = "resume" =>
        /\ m.sess # Creator
        /\ m.prior # m.sess
        /\ \A i \in Seats : seats[i].sess # m.sess
        /\ \A r \in inputs : r.type = "resume" /\ r.sess = m.sess => r = m

CreateIsFirst ==
    \A m \in inputs : m.type = "create" =>
        /\ m.sess = Creator
        /\ Taken(seats) = {}
        /\ ~autoStart
        /\ \A c \in inputs : c.type = "create" => c = m

\* While the flag of a quick match is up, nobody has joined the player the room was
\* opened for, who is in its first seat.
ArmedIsAlone == autoStart => Taken(seats) \subseteq {1}

ConnInv ==
    /\ OneSeatEach
    /\ NewIsNowhere
    /\ ResumesAreFirst
    /\ CreateIsFirst
    /\ SeatIsWatched
    /\ ArmedIsAlone

\* Where no other room takes connections away from this one, only a connection that
\* is gone has a notice on its way.
NoticesOfTheGone == \A m \in inputs : m.type = "disconnect" => conn[m.sess] = "gone"

----------------------------------------------------------------------------
(***************************************************************************)
(* Seats.                                                                  *)
(***************************************************************************)
\* A free seat is sound, and so is one just taken, dead connection or not.
LEMMA FreeSeatSound == Sound(FreeSeat) /\ FreeSeat.who = None
BY RoomAssumption DEF Sound, Seat, FreeSeat

\* A seat just taken is sound: bound to its connection, or held for one that has died.
LEMMA TakeSeatSound ==
    ASSUME NEW s \in Session, NEW auto \in BOOLEAN
    PROVE  /\ Sound(takeSeat(s, auto))
           /\ takeSeat(s, auto).who = Holder[s] /\ Holder[s] # None
           /\ takeSeat(s, auto).sess = IF conn[s] = "up" THEN s ELSE None
           /\ takeSeat(s, auto).heldFor = IF conn[s] = "up" THEN None ELSE s
           /\ takeSeat(s, auto).quick = auto
           /\ ~takeSeat(s, auto).ready /\ ~takeSeat(s, auto).missed
BY RoomAssumption DEF Sound, Seat, takeSeat

\* Holding a bound seat for its connection keeps it sound.
LEMMA HoldSeatSound ==
    ASSUME NEW r, Sound(r), r.sess # None
    PROVE  /\ Sound(holdSeat(r))
           /\ holdSeat(r).sess = None /\ holdSeat(r).heldFor = r.sess
           /\ holdSeat(r).who = r.who /\ r.who # None
           /\ holdSeat(r).ready = r.ready /\ holdSeat(r).missed = r.missed
BY RoomAssumption DEF Sound, Seat, holdSeat

\* Binding a taken seat to another connection of its player.
LEMMA BindSound ==
    ASSUME NEW r, Sound(r), r.who # None, NEW s \in Session, Holder[s] = r.who
    PROVE  LET bound == [r EXCEPT !.sess = s, !.heldFor = None]
               paid == [bound EXCEPT !.missed = FALSE]
           IN  /\ Sound(bound) /\ bound.sess = s /\ bound.heldFor = None
               /\ bound.who = r.who /\ bound.ready = r.ready /\ bound.missed = r.missed
               /\ Sound(paid) /\ paid.sess = s /\ paid.heldFor = None
               /\ paid.who = r.who /\ paid.ready = r.ready /\ ~paid.missed
BY RoomAssumption DEF Sound, Seat

\* The readiness and the debts of a taken seat are free to change, and those of any
\* seat to be cleared.
LEMMA MarksSound ==
    ASSUME NEW r, Sound(r), NEW v \in BOOLEAN, r.who # None,
           NEW x, x \in {[r EXCEPT !.ready = v], [r EXCEPT !.missed = v]}
    PROVE  /\ Sound(x)
           /\ x.sess = r.sess /\ x.heldFor = r.heldFor /\ x.who = r.who /\ x.quick = r.quick
           /\ x.ready => r.ready \/ x = [r EXCEPT !.ready = v]
           /\ x = [r EXCEPT !.missed = v] => x.ready = r.ready /\ (x.missed <=> v)
           /\ x = [r EXCEPT !.ready = v] => x.missed = r.missed
BY DEF Sound, Seat

\* Readiness and debts can be cleared in any sound seat.
LEMMA ClearSound ==
    ASSUME NEW r, Sound(r),
           NEW x, x \in {[r EXCEPT !.ready = FALSE],
                         [r EXCEPT !.ready = FALSE, !.missed = FALSE]}
    PROVE  /\ Sound(x)
           /\ x.sess = r.sess /\ x.heldFor = r.heldFor /\ x.who = r.who /\ x.quick = r.quick
           /\ ~x.ready
           /\ x = [r EXCEPT !.ready = FALSE] => x.missed = r.missed
           /\ x = [r EXCEPT !.ready = FALSE, !.missed = FALSE] => ~x.missed
BY DEF Sound, Seat

\* A set of seats that is not empty has a least one.
LEMMA FirstSeat ==
    ASSUME NEW S \in SUBSET Seats, S # {}
    PROVE  Min(S) \in S
<1>1. S \subseteq Nat
  BY RoomAssumption DEF Seats
<1>2. \E i \in S : \A j \in S : i <= j
  BY <1>1, LeastNatural
<1> QED
  BY <1>2 DEF Min

\* vacate frees the seats of `out` and leaves the rest as they were, but for the
\* readiness of an owner who was not one before.
LEMMA VacateFacts ==
    ASSUME NEW ss, SeatsSound(ss), NEW out \in SUBSET Seats
    PROVE  LET rest == vacate(ss, out)
           IN  /\ SeatsSound(rest)
               /\ Taken(rest) = Taken(ss) \ out
               /\ \A i \in out : rest[i] = FreeSeat
               /\ \A i \in Seats \ out :
                    /\ rest[i].sess = ss[i].sess /\ rest[i].heldFor = ss[i].heldFor
                    /\ rest[i].missed = ss[i].missed /\ rest[i].who = ss[i].who
                    /\ rest[i].ready => ss[i].ready /\ (i = owner \/ i # nextOwner(rest))
<1> DEFINE kept == [i \in Seats |-> IF i \in out THEN FreeSeat ELSE ss[i]]
           rest == vacate(ss, out)
<1>1. /\ rest = [i \in Seats |-> IF i = nextOwner(kept) /\ i # owner
                                 THEN [kept[i] EXCEPT !.ready = FALSE] ELSE kept[i]]
  BY DEF vacate
<1>2. \A i \in Seats : Sound(kept[i])
  BY FreeSeatSound DEF SeatsSound
<1>3. Taken(kept) = Taken(ss) \ out
  BY FreeSeatSound DEF Taken
<1>4. ASSUME NEW i \in Seats
      PROVE  /\ Sound(rest[i])
             /\ rest[i].sess = kept[i].sess /\ rest[i].heldFor = kept[i].heldFor
             /\ rest[i].missed = kept[i].missed /\ rest[i].who = kept[i].who
             /\ rest[i].ready => kept[i].ready /\ (i = owner \/ i # nextOwner(kept))
  <2>1. Sound(kept[i])
    BY <1>2
  <2>2. CASE i = nextOwner(kept) /\ i # owner
    <3>1. rest[i] = [kept[i] EXCEPT !.ready = FALSE]
      BY <1>1, <2>2
    <3> HIDE DEF kept, rest
    <3> QED
      BY <2>1, <3>1, ClearSound
  <2>3. CASE ~ (i = nextOwner(kept) /\ i # owner)
    <3>1. rest[i] = kept[i]
      BY <1>1, <2>3
    <3> HIDE DEF kept, rest
    <3> QED
      BY <2>1, <2>3, <3>1
  <2> QED
    BY <2>2, <2>3
<1>5. Taken(rest) = Taken(ss) \ out
  <2> HIDE DEF kept, rest
  <2> QED
    BY <1>3, <1>4 DEF Taken
<1>6. nextOwner(rest) = nextOwner(kept)
  BY <1>3, <1>5 DEF nextOwner
<1>7. ASSUME NEW i \in out
      PROVE  rest[i] = FreeSeat
  <2>1. kept[i] = FreeSeat /\ i \in Seats
    OBVIOUS
  <2>2. i \notin Taken(kept)
    BY <1>3
  <2>3. i = nextOwner(kept) => i = owner
    <3> HIDE DEF kept, rest
    <3>1. Taken(kept) # {} => Min(Taken(kept)) \in Taken(kept)
      BY FirstSeat DEF Taken
    <3>2. 0 \notin Seats
      BY DEF Seats
    <3> QED
      BY <2>1, <2>2, <3>1, <3>2 DEF nextOwner
  <2> QED
    BY <1>1, <2>1, <2>3
<1>8. SeatsSound(rest)
  <2>1. rest = [i \in Seats |-> rest[i]]
    BY <1>1
  <2> HIDE DEF kept, rest
  <2>2. \A i \in Seats : rest[i] \in Seat /\ Sound(rest[i])
    BY <1>4 DEF Sound
  <2> QED
    BY <2>1, <2>2 DEF SeatsSound
<1>9. \A i \in Seats \ out : kept[i] = ss[i]
  OBVIOUS
<1> HIDE DEF kept, rest
<1> QED
  BY <1>4, <1>5, <1>6, <1>7, <1>8, <1>9 DEF rest

\* broadcastGameOver changes nothing of a seat but what it is owed.
LEMMA OwedFacts ==
    ASSUME NEW g, SeatsSound(seats)
    PROVE  /\ SeatsSound(owed(g))
           /\ Taken(owed(g)) = Taken(seats)
           /\ \A i \in Seats :
                /\ owed(g)[i].sess = seats[i].sess /\ owed(g)[i].heldFor = seats[i].heldFor
                /\ owed(g)[i].ready = seats[i].ready /\ owed(g)[i].who = seats[i].who
                /\ owed(g)[i].quick = seats[i].quick
                /\ owed(g)[i].missed =>
                     \/ seats[i].missed
                     \/ Live(game) /\ ~Live(g) /\ i \in Taken(seats) /\ seats[i].sess = None
<1> DEFINE ss == owed(g)
           hit(i) == Live(game) /\ ~Live(g) /\ i \in Taken(seats)
<1>1. ss = [i \in Seats |-> IF hit(i)
                            THEN [seats[i] EXCEPT !.missed = (seats[i].sess = None)]
                            ELSE seats[i]]
  BY DEF owed
<1>2. ASSUME NEW i \in Seats
      PROVE  /\ Sound(ss[i])
             /\ ss[i].sess = seats[i].sess /\ ss[i].heldFor = seats[i].heldFor
             /\ ss[i].ready = seats[i].ready /\ ss[i].who = seats[i].who
             /\ ss[i].quick = seats[i].quick
             /\ ss[i].missed => seats[i].missed \/ (hit(i) /\ seats[i].sess = None)
  <2>1. Sound(seats[i])
    BY DEF SeatsSound
  <2>2. CASE hit(i)
    <3> DEFINE v == (seats[i].sess = None)
    <3>1. ss[i] = [seats[i] EXCEPT !.missed = v]
      BY <1>1, <2>2
    <3>2. v \in BOOLEAN /\ (v <=> seats[i].sess = None) /\ seats[i].who # None
      BY <2>2 DEF Taken
    <3> HIDE DEF v, ss
    <3> QED
      BY <2>1, <2>2, <3>1, <3>2, MarksSound
  <2>3. CASE ~hit(i)
    <3>1. ss[i] = seats[i]
      BY <1>1, <2>3
    <3> HIDE DEF ss, hit
    <3> QED
      BY <2>1, <3>1
  <2> QED
    BY <2>2, <2>3
<1>3. ss = [i \in Seats |-> ss[i]]
  BY <1>1
<1> HIDE DEF ss
<1>4. SeatsSound(ss)
  <2>1. \A i \in Seats : ss[i] \in Seat /\ Sound(ss[i])
    BY <1>2 DEF Sound
  <2> QED
    BY <1>3, <2>1 DEF SeatsSound
<1>5. Taken(ss) = Taken(seats)
  BY <1>2 DEF Taken
<1> QED
  BY <1>2, <1>4, <1>5 DEF ss

\* One seat replaced, by one that is taken.
LEMMA PutFacts ==
    ASSUME NEW ss, SeatsSound(ss), NEW i \in Seats, NEW x, Sound(x), x.who # None,
           NEW put, put \in [Seats -> Seat], put[i] = x,
           \A j \in Seats \ {i} : put[j] = ss[j]
    PROVE  SeatsSound(put) /\ Taken(put) = Taken(ss) \cup {i}
BY DEF SeatsSound, Taken

\* Whoever is left when seats are freed, the room has an owner among them, who is
\* not ready: the one it had, if they are still there.
LEMMA VacateOwner ==
    ASSUME NEW ss, SeatsSound(ss), NEW out \in SUBSET Seats,
           owner \in Taken(ss) => ~ss[owner].ready,
           NEW rest, rest = vacate(ss, out), NEW o, o = nextOwner(rest)
    PROVE  /\ (o \in Taken(rest) /\ ~rest[o].ready) \/ (o = 0 /\ Taken(rest) = {})
           /\ o \in 0 .. MaxPlayers
           /\ owner \in Taken(rest) => o = owner
<1>1. /\ Taken(rest) = Taken(ss) \ out
      /\ \A i \in Seats \ out : rest[i].ready => ss[i].ready /\ (i = owner \/ i # nextOwner(rest))
  BY VacateFacts
<1>2. Taken(rest) \subseteq Seats /\ Taken(ss) \subseteq Seats
  BY DEF Taken
<1>3. CASE owner \in Taken(rest)
  BY <1>1, <1>2, <1>3 DEF nextOwner, Seats
<1>4. CASE owner \notin Taken(rest) /\ Taken(rest) # {}
  <2>1. Min(Taken(rest)) \in Taken(rest) /\ o = Min(Taken(rest))
    BY <1>2, <1>4, FirstSeat DEF nextOwner
  <2> QED
    BY <1>1, <1>2, <1>4, <2>1 DEF Seats
<1>5. CASE Taken(rest) = {}
  BY <1>5, RoomAssumption DEF nextOwner
<1> QED
  BY <1>3, <1>4, <1>5

\* A game that begins leaves everybody in their seat, unready and owed nothing.
LEMMA BeginFacts ==
    ASSUME NEW ss, SeatsSound(ss), beginGame(ss)
    PROVE  /\ SeatsSound(seats')
           /\ Taken(seats') = Taken(ss)
           /\ \A i \in Seats :
                /\ seats'[i].sess = ss[i].sess /\ seats'[i].heldFor = ss[i].heldFor
                /\ seats'[i].who = ss[i].who /\ seats'[i].quick = ss[i].quick
                /\ ~seats'[i].ready /\ ~seats'[i].missed
<1>1. seats' = [i \in Seats |-> [ss[i] EXCEPT !.ready = FALSE, !.missed = FALSE]]
  BY DEF beginGame
<1>2. ASSUME NEW i \in Seats
      PROVE  /\ Sound(seats'[i])
             /\ seats'[i].sess = ss[i].sess /\ seats'[i].heldFor = ss[i].heldFor
             /\ seats'[i].who = ss[i].who /\ seats'[i].quick = ss[i].quick
             /\ ~seats'[i].ready /\ ~seats'[i].missed
  <2>1. seats'[i] = [ss[i] EXCEPT !.ready = FALSE, !.missed = FALSE]
    BY <1>1
  <2>2. Sound(ss[i])
    BY DEF SeatsSound
  <2> QED
    BY <2>1, <2>2, ClearSound
<1>3. SeatsSound(seats')
  <2>1. seats' = [i \in Seats |-> seats'[i]]
    BY <1>1
  <2>2. \A i \in Seats : seats'[i] \in Seat /\ Sound(seats'[i])
    BY <1>2 DEF Sound
  <2> QED
    BY <2>1, <2>2 DEF SeatsSound
<1> QED
  BY <1>2, <1>3 DEF Taken

----------------------------------------------------------------------------
(***************************************************************************)
(* What each input does to the seats.                                      *)
(***************************************************************************)
\* The create takes the first seat.
LEMMA CreateEffect ==
    ASSUME SeatInv, NEW m \in inputs, handleCreate(m)
    PROVE  /\ SeatsSound(seats')
           /\ Taken(seats') = Taken(seats) \cup {1}
           /\ seats'[1] = takeSeat(m.sess, m.quick)
           /\ \A i \in Seats \ {1} : seats'[i] = seats[i]
<1>1. m.sess \in Session /\ m.quick \in BOOLEAN /\ SeatsSound(seats)
  BY DEF SeatInv, RoomTypes, Input
<1>2. 1 \in Seats
  BY RoomAssumption DEF Seats
<1> DEFINE x == takeSeat(m.sess, m.quick)
<1>3. seats' = [seats EXCEPT ![1] = x]
  BY DEF handleCreate
<1>4. Sound(x) /\ x.who # None
  BY <1>1, TakeSeatSound
<1> HIDE DEF x
<1>5. /\ seats' \in [Seats -> Seat] /\ seats'[1] = x
      /\ \A i \in Seats \ {1} : seats'[i] = seats[i]
  BY <1>1, <1>2, <1>3, <1>4 DEF SeatsSound, Sound
<1>6. SeatsSound(seats') /\ Taken(seats') = Taken(seats) \cup {1}
  BY <1>1, <1>2, <1>4, <1>5, PutFacts
<1> QED
  BY <1>5, <1>6 DEF x

\* A join is refused, or takes a free seat; and it may begin the game it was paired for.
LEMMA JoinEffect ==
    ASSUME SeatInv, NEW m \in inputs, handleJoin(m)
    PROVE  \/ seats' = seats /\ at' = at /\ UNCHANGED play
           \/ \E i \in Seats \ Taken(seats) :
                /\ SeatsSound(seats')
                /\ Taken(seats') = Taken(seats) \cup {i}
                /\ ~joinRefused(m.sess)
                /\ at' = [at EXCEPT ![m.sess] = i]
                /\ seats'[i].sess = takeSeat(m.sess, m.quick).sess
                /\ seats'[i].heldFor = takeSeat(m.sess, m.quick).heldFor
                /\ seats'[i].quick = m.quick
                /\ ~seats'[i].ready /\ ~seats'[i].missed
                /\ \A j \in Seats \ {i} :
                     /\ seats'[j].sess = seats[j].sess /\ seats'[j].heldFor = seats[j].heldFor
                     /\ seats'[j].who = seats[j].who
                     /\ seats'[j].ready => seats[j].ready
                     /\ seats'[j].missed => seats[j].missed
                /\ \/ UNCHANGED play
                   \/ \E ss : /\ autoStart /\ SeatsSound(ss)
                              /\ Taken(ss) = Taken(seats')
                              /\ Cardinality(Taken(ss)) >= minPlayers
                              /\ beginGame(ss)
<1> DEFINE i == Min(Seats \ Taken(seats))
           x == takeSeat(m.sess, m.quick)
           ss == [seats EXCEPT ![i] = x]
<1>1. m.sess \in Session /\ m.quick \in BOOLEAN /\ SeatsSound(seats)
  BY DEF SeatInv, RoomTypes, Input
<1>2. CASE joinRefused(m.sess)
  BY <1>2 DEF handleJoin
<1>3. CASE ~joinRefused(m.sess)
  <2>1. Seats \ Taken(seats) # {}
    BY <1>3 DEF joinRefused, Taken
  <2>2. i \in Seats \ Taken(seats)
    BY <2>1, FirstSeat
  <2>3. /\ at' = [at EXCEPT ![m.sess] = i]
        /\ \/ /\ autoStart
              /\ Cardinality(Taken(ss)) >= minPlayers
              /\ beginGame(ss)
           \/ seats' = ss /\ UNCHANGED play
    BY <1>3 DEF handleJoin
  <2>4. /\ Sound(x) /\ x.who # None
        /\ ~x.ready /\ ~x.missed /\ x.quick = m.quick
    BY <1>1, TakeSeatSound
  <2> HIDE DEF i, x
  <2>5. /\ SeatsSound(ss)
        /\ ss[i] = x
        /\ \A j \in Seats \ {i} : ss[j] = seats[j]
        /\ Taken(ss) = Taken(seats) \cup {i}
    <3>1. /\ ss \in [Seats -> Seat] /\ ss[i] = x
          /\ \A j \in Seats \ {i} : ss[j] = seats[j]
      BY <1>1, <2>2, <2>4 DEF SeatsSound, Sound
    <3> HIDE DEF ss
    <3>2. SeatsSound(ss) /\ Taken(ss) = Taken(seats) \cup {i}
      BY <1>1, <2>2, <2>4, <3>1, PutFacts
    <3> QED
      BY <3>1, <3>2
  <2> HIDE DEF ss
  <2>6. CASE seats' = ss /\ UNCHANGED play
    BY <1>3, <2>2, <2>3, <2>4, <2>5, <2>6 DEF x
  <2>7. CASE autoStart /\ Cardinality(Taken(ss)) >= minPlayers /\ beginGame(ss)
    <3>1. /\ SeatsSound(seats')
          /\ Taken(seats') = Taken(ss)
          /\ \A j \in Seats :
                /\ seats'[j].sess = ss[j].sess /\ seats'[j].heldFor = ss[j].heldFor
                /\ seats'[j].who = ss[j].who /\ seats'[j].quick = ss[j].quick
                /\ ~seats'[j].ready /\ ~seats'[j].missed
      BY <2>5, <2>7, BeginFacts
    <3> QED
      <4>1. \E t : autoStart /\ SeatsSound(t) /\ Taken(t) = Taken(seats')
                   /\ Cardinality(Taken(t)) >= minPlayers /\ beginGame(t)
        BY <2>5, <2>7, <3>1
      <4>2. \A j \in Seats \ {i} : seats'[j].sess = seats[j].sess
                /\ seats'[j].heldFor = seats[j].heldFor /\ seats'[j].who = seats[j].who
                /\ ~seats'[j].ready /\ ~seats'[j].missed
        BY <2>5, <3>1
      <4>3. /\ seats'[i].sess = x.sess /\ seats'[i].heldFor = x.heldFor
            /\ seats'[i].quick = m.quick /\ ~seats'[i].ready /\ ~seats'[i].missed
            /\ Taken(seats') = Taken(seats) \cup {i}
        BY <2>2, <2>4, <2>5, <3>1
      <4> QED
        BY <1>3, <2>2, <2>3, <3>1, <4>1, <4>2, <4>3 DEF x
  <2> QED
    BY <2>3, <2>6, <2>7
<1> QED
  BY <1>2, <1>3

\* A notice is stale, or holds the seat for the connection that had it.
LEMMA DisconnectEffect ==
    ASSUME SeatInv, NEW m \in inputs, handleDisconnect(m)
    PROVE  \/ seats' = seats /\ ~occupies(m.sess, m.player)
           \/ /\ m.player \in Taken(seats)
              /\ seats[m.player].sess = m.sess
              /\ SeatsSound(seats')
              /\ Taken(seats') = Taken(seats)
              /\ seats'[m.player].sess = None /\ seats'[m.player].heldFor = m.sess
              /\ seats'[m.player].ready = seats[m.player].ready
              /\ seats'[m.player].missed = seats[m.player].missed
              /\ \A j \in Seats \ {m.player} : seats'[j] = seats[j]
<1>1. m \in Input /\ SeatsSound(seats)
  BY DEF SeatInv, RoomTypes
<1>2. m.player \in Seats /\ m.sess \in Session
  BY <1>1 DEF handleDisconnect, Input
<1>3. CASE ~occupies(m.sess, m.player)
  BY <1>3 DEF handleDisconnect
<1>4. CASE occupies(m.sess, m.player)
  <2> DEFINE r == seats[m.player]
             x == holdSeat(r)
  <2>1. seats' = [seats EXCEPT ![m.player] = x]
    BY <1>4 DEF handleDisconnect
  <2>2. Sound(r) /\ r.sess = m.sess /\ r.sess # None
    BY <1>1, <1>2, <1>4 DEF SeatsSound, occupies
  <2>3. /\ Sound(x) /\ x.sess = None /\ x.heldFor = r.sess /\ x.who = r.who /\ r.who # None
        /\ x.ready = r.ready /\ x.missed = r.missed
    BY <2>2, HoldSeatSound
  <2>4. m.player \in Taken(seats)
    BY <1>2, <2>3 DEF Taken
  <2> HIDE DEF x
  <2>5. /\ SeatsSound(seats')
        /\ seats'[m.player] = x
        /\ \A j \in Seats \ {m.player} : seats'[j] = seats[j]
        /\ Taken(seats') = Taken(seats) \cup {m.player}
    <3>1. /\ seats' \in [Seats -> Seat] /\ seats'[m.player] = x
          /\ \A j \in Seats \ {m.player} : seats'[j] = seats[j]
      BY <1>1, <1>2, <2>1, <2>3 DEF SeatsSound, Sound
    <3>2. SeatsSound(seats') /\ Taken(seats') = Taken(seats) \cup {m.player}
      BY <1>1, <1>2, <2>3, <3>1, PutFacts
    <3> QED
      BY <3>1, <3>2
  <2> QED
    BY <2>2, <2>3, <2>4, <2>5
<1> QED
  BY <1>3, <1>4

\* A resume is refused, or binds the seat to the new connection and retires the old one;
\* if the new one has died on the way, the seat is held for it instead.
LEMMA ResumeEffect ==
    ASSUME SeatInv, NEW m \in inputs, handleResume(m)
    PROVE  \/ UNCHANGED <<seats, sockets>>
           \/ /\ m.player \in Taken(seats)
              /\ m.prior \in Session
              /\ \/ seats[m.player].sess = m.prior
                 \/ seats[m.player].sess = None /\ seats[m.player].heldFor = m.prior
              /\ at' = [at EXCEPT ![m.sess] = m.player]
              /\ tokens' = tokens \ {m.prior}
              /\ conn' = [conn EXCEPT ![m.prior] = IF @ = "up" THEN "down" ELSE @]
              /\ SeatsSound(seats')
              /\ Taken(seats') = Taken(seats)
              /\ seats'[m.player].ready = seats[m.player].ready
              /\ seats'[m.player].missed => seats[m.player].missed
              /\ IF conn[m.sess] = "up"
                 THEN /\ seats'[m.player].sess = m.sess /\ seats'[m.player].heldFor = None
                      /\ ~seats'[m.player].missed
                 ELSE seats'[m.player].sess = None /\ seats'[m.player].heldFor = m.sess
              /\ \A j \in Seats \ {m.player} : seats'[j] = seats[j]
<1>1. m \in Input /\ SeatsSound(seats)
  BY DEF SeatInv, RoomTypes
<1>2. /\ m.player \in Seats /\ m.sess \in Session
      /\ m.prior \in Session /\ Holder[m.prior] = Holder[m.sess]
  BY <1>1 DEF handleResume, Input
<1>3. CASE ~resumable(m)
  BY <1>3 DEF handleResume
<1>4. CASE resumable(m)
  <2> DEFINE r == seats[m.player]
             bound == [r EXCEPT !.sess = m.sess, !.heldFor = None]
             paid == [bound EXCEPT !.missed = FALSE]
             x == IF conn[m.sess] = "up" THEN paid ELSE holdSeat(bound)
  <2>1. /\ seats' = [seats EXCEPT ![m.player] = x]
        /\ at' = [at EXCEPT ![m.sess] = m.player]
        /\ tokens' = tokens \ {m.prior}
        /\ conn' = [conn EXCEPT ![m.prior] = IF @ = "up" THEN "down" ELSE @]
    BY <1>4 DEF handleResume
  <2>2. Sound(r) /\ (r.sess = m.prior \/ (r.sess = None /\ r.heldFor = m.prior))
    BY <1>1, <1>2, <1>4 DEF SeatsSound, resumable
  <2>3. r.who # None /\ Holder[m.sess] = r.who /\ m.sess # None
    BY <1>2, <2>2, RoomAssumption DEF Sound
  <2> HIDE DEF r
  <2>4. /\ Sound(bound) /\ bound.sess = m.sess /\ bound.who = r.who /\ bound.ready = r.ready
        /\ bound.missed = r.missed
        /\ Sound(paid) /\ paid.sess = m.sess /\ paid.heldFor = None /\ paid.who = r.who
        /\ paid.ready = r.ready /\ ~paid.missed
    BY <1>2, <2>2, <2>3, BindSound
  <2> HIDE DEF bound, paid
  <2>5. /\ Sound(holdSeat(bound)) /\ holdSeat(bound).sess = None
        /\ holdSeat(bound).heldFor = m.sess /\ holdSeat(bound).who = r.who
        /\ holdSeat(bound).ready = r.ready /\ holdSeat(bound).missed = r.missed
    BY <2>3, <2>4, HoldSeatSound
  <2>6. /\ Sound(x) /\ x.who = r.who /\ x.ready = r.ready /\ (x.missed => r.missed)
        /\ IF conn[m.sess] = "up" THEN x.sess = m.sess /\ x.heldFor = None /\ ~x.missed
                                  ELSE x.sess = None /\ x.heldFor = m.sess
    BY <2>4, <2>5
  <2> HIDE DEF x
  <2>7. /\ SeatsSound(seats')
        /\ seats'[m.player] = x
        /\ \A j \in Seats \ {m.player} : seats'[j] = seats[j]
        /\ Taken(seats') = Taken(seats) \cup {m.player}
    <3>1. /\ seats' \in [Seats -> Seat] /\ seats'[m.player] = x
          /\ \A j \in Seats \ {m.player} : seats'[j] = seats[j]
      BY <1>1, <1>2, <2>1, <2>3, <2>6 DEF SeatsSound, Sound
    <3>2. SeatsSound(seats') /\ Taken(seats') = Taken(seats) \cup {m.player}
      BY <1>1, <1>2, <2>3, <2>6, <3>1, PutFacts
    <3> QED
      BY <3>1, <3>2
  <2>8. m.player \in Taken(seats)
    BY <1>2, <2>3 DEF Taken, r
  <2> QED
    BY <1>2, <2>1, <2>2, <2>6, <2>7, <2>8 DEF r
<1> QED
  BY <1>3, <1>4

\* A player who readies, or takes it back, changes nothing else of the seat.
LEMMA ReadyEffect ==
    ASSUME SeatInv, NEW i \in Seats, NEW ready \in BOOLEAN, lobbyReady(i, ready)
    PROVE  /\ SeatsSound(seats')
           /\ Taken(seats') = Taken(seats)
           /\ seats'[i].sess = seats[i].sess /\ seats'[i].heldFor = seats[i].heldFor
           /\ seats'[i].missed = seats[i].missed
           /\ \A j \in Seats \ {i} : seats'[j] = seats[j]
<1> DEFINE x == [seats[i] EXCEPT !.ready = ready]
<1>1. seats[i].sess # None /\ seats' = [seats EXCEPT ![i] = x] /\ SeatsSound(seats)
  BY DEF lobbyReady, SeatInv
<1>2. Sound(seats[i]) /\ seats[i].who # None /\ i \in Taken(seats)
  BY <1>1 DEF SeatsSound, Sound, Taken
<1>3. /\ Sound(x) /\ x.who = seats[i].who /\ x.sess = seats[i].sess
      /\ x.heldFor = seats[i].heldFor /\ x.missed = seats[i].missed
  BY <1>2, MarksSound
<1> HIDE DEF x
<1>4. /\ seats' \in [Seats -> Seat] /\ seats'[i] = x
      /\ \A j \in Seats \ {i} : seats'[j] = seats[j]
  BY <1>1, <1>3 DEF SeatsSound, Sound
<1>5. x.who # None
  BY <1>2, <1>3
<1>6. SeatsSound(seats)
  BY <1>1
<1>7. SeatsSound(seats') /\ Taken(seats') = Taken(seats) \cup {i}
  BY <1>3, <1>4, <1>5, <1>6, PutFacts
<1> QED
  BY <1>2, <1>3, <1>4, <1>7

----------------------------------------------------------------------------
(***************************************************************************)
(* The first layer: seats, and whose they are.                             *)
(***************************************************************************)
\* Handling an input keeps the seats sound and the room owned.
LEMMA InputSeatInv ==
    ASSUME SeatInv, NEW m \in inputs,
           handleCreate(m) \/ handleJoin(m) \/ handleDisconnect(m) \/ handleResume(m)
    PROVE  SeatInv'
<1>1. /\ m \in Input /\ inputs \subseteq Input
      /\ m.sess \in Session /\ m.player \in 0 .. MaxPlayers /\ m.quick \in BOOLEAN
      /\ 1 \in Seats /\ 1 \in 0 .. MaxPlayers
      /\ SeatsSound(seats) /\ RoomTypes /\ OwnerCanAlwaysLeave
  BY RoomAssumption DEF SeatInv, RoomTypes, Input, Seats
<1>2. CASE handleCreate(m)
  <2>1. /\ SeatsSound(seats') /\ Taken(seats') = Taken(seats) \cup {1} /\ ~seats'[1].ready
    BY <1>1, <1>2, CreateEffect, TakeSeatSound
  <2>2. loop(inputs \ {m})
    BY <1>2 DEF handleCreate
  <2>3. Stopped' /\ running' \in BOOLEAN /\ inputs' \subseteq Input
    BY <1>1, <2>2 DEF loop, Stopped
  <2>4. RoomTypes'
    BY <1>1, <1>2, <2>3 DEF RoomTypes, beyond, handleCreate
  <2>5. OwnerCanAlwaysLeave'
    BY <1>2, <2>1 DEF OwnerCanAlwaysLeave, handleCreate
  <2> QED
    BY <2>1, <2>3, <2>4, <2>5 DEF SeatInv
<1>3. CASE handleJoin(m)
  <2>1. loop(inputs \ {m}) /\ owner' = owner
    BY <1>3 DEF handleJoin
  <2>2. Stopped' /\ running' \in BOOLEAN /\ inputs' \subseteq Input
    BY <1>1, <2>1 DEF loop, Stopped
  <2>3. CASE seats' = seats /\ at' = at
    <3>1. RoomTypes'
      BY <1>1, <1>3, <2>2, <2>3 DEF RoomTypes, beyond, handleJoin
    <3> QED
      BY <1>1, <2>1, <2>2, <2>3, <3>1 DEF SeatInv, OwnerCanAlwaysLeave
  <2>4. ASSUME NEW i \in Seats \ Taken(seats),
               /\ SeatsSound(seats')
               /\ Taken(seats') = Taken(seats) \cup {i}
               /\ ~joinRefused(m.sess)
               /\ at' = [at EXCEPT ![m.sess] = i]
               /\ \A j \in Seats \ {i} : seats'[j].ready => seats[j].ready
        PROVE  SeatInv'
    <3>1. i \in 0 .. MaxPlayers /\ Taken(seats) # {} /\ Taken(seats) \subseteq Seats
      BY <2>4 DEF Seats, joinRefused, Taken
    <3>2. RoomTypes'
      BY <1>1, <1>3, <2>2, <2>4, <3>1 DEF RoomTypes, beyond, handleJoin
    <3>3. OwnerCanAlwaysLeave'
      BY <1>1, <2>1, <2>4, <3>1 DEF OwnerCanAlwaysLeave
    <3> QED
      BY <2>2, <2>4, <3>2, <3>3 DEF SeatInv
  <2> QED
    BY <1>3, <2>3, <2>4, JoinEffect
<1>4. CASE handleDisconnect(m)
  <2>1. loop(inputs \ {m}) /\ owner' = owner
    BY <1>4 DEF handleDisconnect
  <2>2. Stopped' /\ running' \in BOOLEAN /\ inputs' \subseteq Input
    BY <1>1, <2>1 DEF loop, Stopped
  <2>3. RoomTypes'
    BY <1>1, <1>4, <2>2 DEF RoomTypes, beyond, handleDisconnect, sockets
  <2>4. /\ SeatsSound(seats') /\ Taken(seats') = Taken(seats)
        /\ \A j \in Seats : seats'[j].ready = seats[j].ready
    BY <1>1, <1>4, DisconnectEffect
  <2>5. OwnerCanAlwaysLeave'
    BY <1>1, <2>1, <2>4 DEF OwnerCanAlwaysLeave, Taken
  <2> QED
    BY <2>2, <2>3, <2>4, <2>5 DEF SeatInv
<1>5. CASE handleResume(m)
  <2>1. loop(inputs \ {m}) /\ owner' = owner
    BY <1>5 DEF handleResume
  <2>2. Stopped' /\ running' \in BOOLEAN /\ inputs' \subseteq Input
    BY <1>1, <2>1 DEF loop, Stopped
  <2>3. /\ SeatsSound(seats') /\ Taken(seats') = Taken(seats)
        /\ \A j \in Seats : seats'[j].ready = seats[j].ready
        /\ at' \in [Session -> 0 .. MaxPlayers]
        /\ conn' \in [Session -> {"new", "up", "down", "gone"}]
        /\ tokens' \subseteq Session
    BY <1>1, <1>5, ResumeEffect DEF RoomTypes, sockets
  <2>4. RoomTypes'
    BY <1>1, <1>5, <2>2, <2>3 DEF RoomTypes, beyond, handleResume
  <2>5. OwnerCanAlwaysLeave'
    BY <1>1, <2>1, <2>3 DEF OwnerCanAlwaysLeave, Taken
  <2> QED
    BY <2>2, <2>3, <2>4, <2>5 DEF SeatInv
<1> QED
  BY <1>2, <1>3, <1>4, <1>5

\* So does freeing seats, whatever the seats left are owed.
LEMMA FreeingSeatInv ==
    ASSUME SeatInv, NEW ss, SeatsSound(ss), Taken(ss) = Taken(seats),
           \A i \in Seats : ss[i].ready = seats[i].ready,
           NEW out \in SUBSET Seats,
           seats' = vacate(ss, out), owner' = nextOwner(seats'),
           loop(inputs),
           at' \in [Session -> 0 .. MaxPlayers],
           UNCHANGED <<autoStart, conn, tokens, beyond>>
    PROVE  SeatInv'
<1>1. SeatsSound(seats')
  BY VacateFacts
<1>2. owner \in Taken(ss) => ~ss[owner].ready
  BY DEF SeatInv, OwnerCanAlwaysLeave, Taken
<1>3. OwnerCanAlwaysLeave' /\ owner' \in 0 .. MaxPlayers
  BY <1>2, VacateOwner DEF OwnerCanAlwaysLeave
<1>4. Stopped' /\ running' \in BOOLEAN /\ inputs' \subseteq Input
  BY DEF SeatInv, RoomTypes, loop, Stopped
<1>5. RoomTypes'
  BY <1>3, <1>4 DEF SeatInv, RoomTypes, beyond
<1> QED
  BY <1>1, <1>3, <1>4, <1>5 DEF SeatInv

\* Released connections point nowhere, the others where they did.
LEMMA ReleasedType ==
    ASSUME RoomTypes, NEW out
    PROVE  released(out) \in [Session -> 0 .. MaxPlayers]
<1>1. 0 \in 0 .. MaxPlayers
  BY RoomAssumption
<1> QED
  BY <1>1 DEF RoomTypes, released

\* Windows that run out together leave the seats sound and the room owned.
LEMMA GraceSeatInv ==
    ASSUME SeatInv, NEW out \in SUBSET Seats, handleGraceExpiry(out)
    PROVE  SeatInv'
<1> DEFINE g == IF Live(game) THEN Without(game, out) ELSE game
<1>1. /\ seats' = vacate(owed(g), out) /\ owner' = nextOwner(seats') /\ loop(inputs)
      /\ UNCHANGED <<autoStart, sockets, beyond>>
  BY DEF handleGraceExpiry
<1> HIDE DEF g
<1>2. /\ SeatsSound(owed(g)) /\ Taken(owed(g)) = Taken(seats)
      /\ \A i \in Seats : owed(g)[i].ready = seats[i].ready
  BY OwedFacts DEF SeatInv
<1>3. at' \in [Session -> 0 .. MaxPlayers] /\ UNCHANGED <<conn, tokens>>
  BY <1>1 DEF SeatInv, RoomTypes, sockets
<1> QED
  BY <1>1, <1>2, <1>3, FreeingSeatInv

\* So does whatever is asked for in the lobby, and a player who leaves a game.
LEMMA LobbySeatInv ==
    ASSUME SeatInv, NEW i \in Seats,
           \/ \E ready \in BOOLEAN : lobbyReady(i, ready)
           \/ lobbyStart(i)
           \/ \E target \in Seats : lobbyKick(i, target)
           \/ lobbyLeave(i)
    PROVE  SeatInv'
<1>1. SeatsSound(seats) /\ RoomTypes /\ OwnerCanAlwaysLeave /\ Stopped
  BY DEF SeatInv
<1>2. ASSUME NEW ready \in BOOLEAN, lobbyReady(i, ready)
      PROVE  SeatInv'
  <2>1. /\ i # owner
        /\ UNCHANGED <<running, owner, autoStart, play, inputs, sockets, beyond>>
    BY <1>2 DEF lobbyReady
  <2>2. /\ SeatsSound(seats') /\ Taken(seats') = Taken(seats)
        /\ \A j \in Seats \ {i} : seats'[j] = seats[j]
    BY <1>2, ReadyEffect
  <2>3. OwnerCanAlwaysLeave'
    BY <1>1, <2>1, <2>2 DEF OwnerCanAlwaysLeave, Taken
  <2>4. RoomTypes' /\ Stopped'
    BY <1>1, <2>1, <2>2 DEF RoomTypes, beyond, Stopped, sockets
  <2> QED
    BY <2>2, <2>3, <2>4 DEF SeatInv
<1>3. CASE lobbyStart(i)
  <2>1. /\ beginGame(seats)
        /\ UNCHANGED <<running, owner, autoStart, inputs, sockets, beyond>>
    BY <1>3 DEF lobbyStart
  <2>2. /\ SeatsSound(seats') /\ Taken(seats') = Taken(seats)
        /\ \A j \in Seats : ~seats'[j].ready
    BY <1>1, <2>1, BeginFacts
  <2>3. OwnerCanAlwaysLeave'
    BY <1>1, <2>1, <2>2 DEF OwnerCanAlwaysLeave, Taken
  <2>4. RoomTypes' /\ Stopped'
    BY <1>1, <2>1, <2>2 DEF RoomTypes, beyond, Stopped, sockets
  <2> QED
    BY <2>2, <2>3, <2>4 DEF SeatInv
<1>4. ASSUME NEW target \in Seats, lobbyKick(i, target)
      PROVE  SeatInv'
  <2>1. /\ seats' = vacate(seats, {target}) /\ owner' = nextOwner(seats') /\ loop(inputs)
        /\ at' = released({target})
        /\ UNCHANGED <<autoStart, conn, tokens, beyond>>
    BY <1>4 DEF lobbyKick
  <2>2. at' \in [Session -> 0 .. MaxPlayers]
    BY <1>1, <2>1, ReleasedType
  <2> QED
    BY <1>1, <2>1, <2>2, FreeingSeatInv
<1>5. CASE lobbyLeave(i)
  <2> DEFINE g == IF Live(game) THEN Without(game, {i}) ELSE game
  <2>1. /\ seats' = vacate(owed(g), {i}) /\ owner' = nextOwner(seats') /\ loop(inputs)
        /\ at' = released({i})
        /\ UNCHANGED <<autoStart, conn, tokens, beyond>>
    BY <1>5 DEF lobbyLeave
  <2> HIDE DEF g
  <2>2. /\ SeatsSound(owed(g)) /\ Taken(owed(g)) = Taken(seats)
        /\ \A j \in Seats : owed(g)[j].ready = seats[j].ready
    BY <1>1, OwedFacts
  <2>3. at' \in [Session -> 0 .. MaxPlayers]
    BY <1>1, <2>1, ReleasedType
  <2> QED
    BY <2>1, <2>2, <2>3, FreeingSeatInv
<1> QED
  BY <1>2, <1>3, <1>4, <1>5

\* The game moves the seats only by what a seat away is owed at its end, and the
\* clock, the drain and the connections do not move them at all.
LEMMA GameSeatInv ==
    ASSUME SeatInv, handleGame \/ turnTimer
    PROVE  SeatInv'
<1>1. SeatsSound(seats) /\ RoomTypes /\ OwnerCanAlwaysLeave /\ Stopped
  BY DEF SeatInv
<1>2. UNCHANGED <<running, owner, autoStart, inputs, sockets, beyond>>
  BY DEF handleGame, turnTimer, handleSubmit, handleSubmitLate, handleResign,
         handleClaimDeadEnd, turnLost
<1>3. seats' = seats \/ seats' = owed(game')
  BY DEF handleGame, turnTimer, handleSubmit, handleSubmitLate, handleResign,
         handleClaimDeadEnd, turnLost
<1>4. /\ SeatsSound(seats') /\ Taken(seats') = Taken(seats)
      /\ \A j \in Seats : seats'[j].ready = seats[j].ready
  BY <1>1, <1>3, OwedFacts
<1>5. OwnerCanAlwaysLeave'
  BY <1>1, <1>2, <1>4 DEF OwnerCanAlwaysLeave, Taken
<1>6. RoomTypes' /\ Stopped'
  BY <1>1, <1>2, <1>4 DEF RoomTypes, beyond, Stopped, sockets
<1> QED
  BY <1>4, <1>5, <1>6 DEF SeatInv

\* A room that is closed has freed its seats and refused what waited.
LEMMA ExitSeatInv ==
    ASSUME SeatInv, exit
    PROVE  SeatInv'
<1>1. /\ running' = FALSE /\ inputs' = {} /\ owner' = 0 /\ autoStart' = FALSE
      /\ seats' = [i \in Seats |-> FreeSeat]
      /\ at' \in [Session -> 0 .. MaxPlayers]
      /\ UNCHANGED <<conn, tokens, beyond>>
  BY ReleasedType DEF exit, SeatInv
<1>2. \A i \in Seats : Sound(seats'[i]) /\ seats'[i] \in Seat /\ seats'[i].who = None
  BY <1>1, FreeSeatSound DEF Sound
<1>3. SeatsSound(seats') /\ Taken(seats') = {}
  BY <1>1, <1>2 DEF SeatsSound, Taken
<1>4. running' \in BOOLEAN /\ autoStart' \in BOOLEAN
  BY <1>1
<1>5. RoomTypes'
  <2>1. owner' \in 0 .. MaxPlayers
    BY <1>1, RoomAssumption
  <2> QED
    BY <1>1, <1>4, <2>1 DEF SeatInv, RoomTypes, beyond
<1> QED
  BY <1>1, <1>3, <1>5 DEF SeatInv, OwnerCanAlwaysLeave, Stopped

\* What happens beside the room sends inputs that name its seats, and no others.
LEMMA EnvironmentSeatInv ==
    ASSUME SeatInv, environment
    PROVE  SeatInv'
<1>1. RoomTypes /\ Stopped
  BY DEF SeatInv
<1>2. UNCHANGED <<running, seats, owner, autoStart>>
  BY DEF environment, clock, startDraining, pairingJoins, handleHello, joinRoom,
         attachElsewhere, close, leaveRoom, expireToken
<1>3. Stopped'
  <2>1. inputs' = inputs \/ running \/ Taken(seats) # {}
    BY DEF environment, clock, startDraining, pairingJoins, handleHello, joinRoom,
           attachElsewhere, close, leaveRoom, expireToken
  <2> QED
    BY <1>1, <1>2, <2>1 DEF Stopped, Taken
<1>4. ASSUME NEW s \in Session, NEW i \in 0 .. MaxPlayers, i # 0
      PROVE  Disconnect(s, i) \in Input
  BY <1>4, RoomAssumption DEF Disconnect, Input, Seats
<1>5. RoomTypes'
  <2>1. CASE clock \/ startDraining
    BY <1>1, <2>1 DEF clock, startDraining, RoomTypes, sockets, beyond
  <2>6. CASE pairingJoins
    <3>1. pairing \in Session /\ None \in Session \cup {None}
      BY <1>1, <2>6 DEF pairingJoins, RoomTypes
    <3>2. Join(pairing, TRUE) \in Input
      BY <3>1, RoomAssumption DEF Join, Input
    <3> QED
      BY <1>1, <2>6, <3>1, <3>2 DEF pairingJoins, RoomTypes, sockets
  <2>2. ASSUME NEW s \in Session, handleHello(s)
        PROVE  RoomTypes'
    <3>1. inputs' \subseteq Input
      <4>1. CASE inputs' = inputs
        BY <1>1, <4>1 DEF RoomTypes
      <4>2. ASSUME NEW prior \in tokens,
                   Holder[prior] = Holder[s], at[prior] # 0,
                   inputs' = inputs \cup {Resume(s, at[prior], prior)}
            PROVE  inputs' \subseteq Input
        <5>1. prior \in Session /\ at[prior] \in 0 .. MaxPlayers /\ at[prior] \in Seats
          BY <1>1, <4>2 DEF RoomTypes, Seats
        <5>2. Resume(s, at[prior], prior) \in Input
          BY <4>2, <5>1 DEF Resume, Input
        <5> QED
          BY <1>1, <4>2, <5>2 DEF RoomTypes
      <4> QED
        BY <2>2, <4>1, <4>2 DEF handleHello
    <3> QED
      BY <1>1, <2>2, <3>1 DEF handleHello, RoomTypes, beyond
  <2>3. ASSUME NEW s \in Session, joinRoom(s)
        PROVE  RoomTypes'
    <3>1. Join(s, FALSE) \in Input
      BY RoomAssumption DEF Join, Input
    <3> QED
      BY <1>1, <2>3, <3>1 DEF joinRoom, RoomTypes, sockets, beyond
  <2>4. ASSUME NEW s \in Session, attachElsewhere(s) \/ leaveRoom(s)
        PROVE  RoomTypes'
    <3>1. at[s] \in 0 .. MaxPlayers /\ 0 \in 0 .. MaxPlayers
      BY <1>1, RoomAssumption DEF RoomTypes
    <3>2. inputs' \subseteq Input
      BY <1>1, <1>4, <2>4, <3>1 DEF attachElsewhere, leaveRoom, RoomTypes
    <3> QED
      BY <1>1, <2>4, <3>1, <3>2 DEF attachElsewhere, leaveRoom, RoomTypes, beyond
  <2>5. ASSUME NEW s \in Session, close(s) \/ expireToken(s)
        PROVE  RoomTypes'
    BY <1>1, <2>5 DEF close, expireToken, RoomTypes, beyond
  <2> QED
    BY <2>1, <2>2, <2>3, <2>4, <2>5, <2>6 DEF environment
<1> QED
  BY <1>2, <1>3, <1>5 DEF SeatInv, SeatsSound, OwnerCanAlwaysLeave, Taken

\* The seats are sound, owned and the players' own, for as long as the room runs.
THEOREM SeatInvariance == Spec => []SeatInv
<1>1. Init => SeatInv
  <2> SUFFICES ASSUME Init PROVE SeatInv
    OBVIOUS
  <2>1. /\ running = TRUE /\ seats = [i \in Seats |-> FreeSeat] /\ owner = 0
        /\ autoStart = FALSE /\ at = [s \in Session |-> 0] /\ draining = FALSE
        /\ conn = [s \in Session |-> IF s \in tokens THEN "up" ELSE "new"]
    BY DEF Init
  <2>2. \A i \in Seats : Sound(seats[i]) /\ seats[i] \in Seat /\ seats[i].who = None
    BY <2>1, FreeSeatSound DEF Sound
  <2>3. SeatsSound(seats) /\ Taken(seats) = {}
    BY <2>1, <2>2 DEF SeatsSound, Taken
  <2>4. \A s \in Session, auto \in BOOLEAN : Create(s, auto) \in Input /\ Join(s, auto) \in Input
    BY RoomAssumption DEF Create, Join, Input
  <2>5. inputs \subseteq Input /\ tokens \subseteq Session /\ pairing \in Session \cup {None}
    BY <2>4, RoomAssumption DEF Init
  <2>6. running \in BOOLEAN /\ autoStart \in BOOLEAN /\ draining \in BOOLEAN
    BY <2>1
  <2>7. /\ owner \in 0 .. MaxPlayers
        /\ at \in [Session -> 0 .. MaxPlayers]
        /\ conn \in [Session -> {"new", "up", "down", "gone"}]
    BY <2>1, RoomAssumption
  <2>8. RoomTypes
    BY <2>5, <2>6, <2>7 DEF RoomTypes
  <2> QED
    BY <2>1, <2>3, <2>8 DEF SeatInv, OwnerCanAlwaysLeave, Stopped
<1>2. SeatInv /\ [Next]_vars => SeatInv'
  <2> SUFFICES ASSUME SeatInv, [Next]_vars PROVE SeatInv'
    OBVIOUS
  <2>1. CASE run
    <3>1. CASE handleInput
      BY <3>1, InputSeatInv DEF handleInput
    <3>2. CASE handleLobby
      BY <3>2, LobbySeatInv DEF handleLobby
    <3>3. CASE handleGame \/ turnTimer
      BY <3>3, GameSeatInv
    <3>4. CASE \E out \in SUBSET Seats : handleGraceExpiry(out)
      BY <3>4, GraceSeatInv
    <3>5. CASE idleTimer \/ shutdown
      BY <3>5, ExitSeatInv DEF idleTimer, shutdown
    <3> QED
      BY <2>1, <3>1, <3>2, <3>3, <3>4, <3>5 DEF run
  <2>2. CASE environment
    BY <2>2, EnvironmentSeatInv
  <2>3. CASE UNCHANGED vars
    BY <2>3 DEF vars, play, sockets, beyond, SeatInv, RoomTypes, SeatsSound,
                OwnerCanAlwaysLeave, Stopped, Taken
  <2> QED
    BY <2>1, <2>2, <2>3 DEF Next, returned
<1> QED
  BY <1>1, <1>2, PTL DEF Spec

\* Seat ids are reused, and a token can outlive the seat it was for: still, the
\* connection in a seat, and the one it is held for, are always the seated person's
\* own.
THEOREM SeatStaysAlways == Spec => []SeatStaysWithItsPlayer
<1>1. SeatInv => SeatStaysWithItsPlayer
  BY DEF SeatInv, SeatsSound, Sound, Taken, SeatStaysWithItsPlayer
<1> QED
  BY <1>1, SeatInvariance, PTL

\* However seats are freed, alone or together, the room is left with an owner who is
\* seated and not ready, or with nobody.
THEOREM OwnerCanAlwaysLeaveAlways == Spec => []OwnerCanAlwaysLeave
<1>1. SeatInv => OwnerCanAlwaysLeave
  BY DEF SeatInv
<1> QED
  BY <1>1, SeatInvariance, PTL

----------------------------------------------------------------------------
(***************************************************************************)
(* The second layer: the game.                                             *)
(***************************************************************************)
\* What SequenceNamesTheTurn asks of a step.
SequenceStep ==
    /\ turnSeq' >= turnSeq
    /\ turnSeq' # turnSeq <=> Live(game') /\ (~Live(game) \/ game'.turn # game.turn)

\* Seats going out of a game leave one that can go on, with the turn where it was or
\* with the next seat left, or no game.
LEMMA WithoutFacts ==
    ASSUME NEW g \in Game, Live(g), Playable(g), NEW out \in SUBSET Seats
    PROVE  LET h == Without(g, out)
           IN  /\ h \in Game
               /\ Playable(h)
               /\ h.alive \subseteq g.alive \ out
               /\ Live(h) =>
                    /\ h.alive = g.alive \ out
                    /\ h.dead = g.dead
                    /\ IF g.turn \in out
                       THEN /\ ~g.dead
                            /\ h.turn = NextAlive(MaxPlayers, g.turn, h.alive)
                            /\ h.turn # g.turn
                            /\ ~h.late
                       ELSE h.turn = g.turn /\ h.late = g.late
<1> DEFINE rest == g.alive \ out
           next == NextAlive(MaxPlayers, g.turn, rest)
<1>1. /\ MaxPlayers \in Nat /\ g.turn \in g.alive /\ g.turn \in 1 .. MaxPlayers
      /\ g.alive \in SUBSET (1 .. MaxPlayers) /\ rest \in SUBSET (1 .. MaxPlayers)
      /\ NoGame \in Game /\ ~Live(NoGame) /\ NoGame.alive = {}
  BY RoomAssumption DEF Game, Playable, Live, NoGame, Seats
<1>2. CASE Cardinality(rest) <= 1 \/ (g.dead /\ g.turn \in out)
  <2>1. Without(g, out) = NoGame
    BY <1>2 DEF Without
  <2> QED
    BY <1>1, <2>1 DEF Playable
<1>3. CASE ~ (Cardinality(rest) <= 1) /\ ~ (g.dead /\ g.turn \in out)
  <2>1. Cardinality(rest) \in 0 .. MaxPlayers /\ Cardinality(rest) >= 2
    <3>1. Cardinality(rest) \in 0 .. MaxPlayers
      BY <1>1, SeatSets
    <3> QED
      BY <1>1, <1>3, <3>1
  <2>2. CASE g.turn \in out
    <3>1. Without(g, out) = [g EXCEPT !.alive = rest, !.turn = next, !.late = FALSE]
      BY <1>3, <2>2 DEF Without
    <3>2. rest \ {g.turn} # {}
      <4>1. rest # {}
        BY <2>1, FS_EmptySet, <1>1
      <4> QED
        BY <2>2, <4>1
    <3>3. next \in rest /\ next # g.turn
      BY <1>1, <3>2, NextAliveFacts
    <3> HIDE DEF next, rest
    <3>4. next \in 0 .. MaxPlayers /\ rest \subseteq Seats /\ rest # {}
      BY <1>1, <3>3 DEF Seats
    <3> DEFINE h == Without(g, out)
    <3>5. /\ h \in Game /\ h.alive = rest /\ h.turn = next /\ h.dead = g.dead
          /\ h.late = FALSE
      BY <3>1, <3>4 DEF Game
    <3> HIDE DEF h
    <3> QED
      BY <1>3, <2>1, <2>2, <3>3, <3>5 DEF Playable, h, rest, next
  <2>3. CASE g.turn \notin out
    <3>1. Without(g, out) = [g EXCEPT !.alive = rest]
      BY <1>3, <2>3 DEF Without
    <3> DEFINE h == Without(g, out)
    <3>2. /\ h \in Game /\ h.alive = rest /\ h.turn = g.turn /\ h.dead = g.dead
          /\ h.late = g.late
      BY <1>1, <3>1 DEF Game, Seats
    <3> HIDE DEF h
    <3> QED
      BY <1>1, <2>1, <2>3, <3>2 DEF Playable, h
  <2> QED
    BY <2>2, <2>3
<1> QED
  BY <1>2, <1>3

\* A step that leaves the game alone, and whoever is in it in their seat.
LEMMA QuietGame ==
    ASSUME GameInv, UNCHANGED play, game.alive \subseteq Taken(seats')
    PROVE  GameInv' /\ SequenceStep
<1>1. game' = game /\ turnSeq' = turnSeq /\ liveCounted' = liveCounted /\ liveGames' = liveGames
  BY DEF play
<1>2. SequenceStep
  BY <1>1 DEF SequenceStep, GameInv
<1> QED
  BY <1>1, <1>2 DEF GameInv, DrainCountsTheGame

\* A game that begins, in a lobby with two players or more.
LEMMA BeginGame ==
    ASSUME GameInv, ~Live(game), NEW ss, SeatsSound(ss), Cardinality(Taken(ss)) >= minPlayers,
           beginGame(ss)
    PROVE  GameInv' /\ SequenceStep
<1>1. /\ turnSeq' = turnSeq + 1 /\ liveCounted' = TRUE /\ liveGames' = liveGames + 1
      /\ Taken(seats') = Taken(ss) /\ Taken(ss) \subseteq Seats
  BY BeginFacts DEF beginGame, Taken
<1>2. PICK lead \in Taken(ss) :
         game' = [alive |-> Taken(ss), turn |-> lead, dead |-> FALSE, late |-> FALSE]
  BY DEF beginGame
<1>3. lead \in 0 .. MaxPlayers
  BY <1>1 DEF Seats
<1>4. game' \in Game /\ game'.alive = Taken(ss) /\ game'.turn = lead
  BY <1>1, <1>2, <1>3 DEF Game
<1>5. Live(game') /\ Playable(game')
  BY <1>4 DEF Live, Playable, minPlayers
<1>6. turnSeq \in Nat /\ liveGames = 0
  BY DEF GameInv, DrainCountsTheGame
<1>7. liveCounted' \in BOOLEAN /\ liveCounted'
  BY <1>1
<1>8. DrainCountsTheGame'
  BY <1>1, <1>5, <1>6 DEF DrainCountsTheGame
<1>9. SequenceStep
  BY <1>1, <1>5, <1>6 DEF SequenceStep
<1> QED
  BY <1>1, <1>4, <1>5, <1>6, <1>7, <1>8, <1>9 DEF GameInv

\* Eliminations, of some, of all or of none of those in the game.
LEMMA EliminationsGame ==
    ASSUME GameInv, NEW g \in Game, Playable(g), g.alive \subseteq game.alive,
           g.alive \subseteq Taken(seats'), applyEliminations(g)
    PROVE  GameInv' /\ SequenceStep
<1>1. /\ game' = g
      /\ turnSeq' = IF Live(g) /\ g.turn # game.turn THEN turnSeq + 1 ELSE turnSeq
      /\ Live(g) => Live(game)
  BY DEF applyEliminations, Live
<1>2. turnSeq \in Nat /\ (liveCounted <=> Live(game)) /\ liveCounted \in BOOLEAN
  BY DEF GameInv
<1>3. CASE Live(game) /\ ~Live(g)
  <2>1. liveCounted' = FALSE /\ liveGames' = liveGames - 1
    BY <1>2, <1>3 DEF applyEliminations, stopCountingLive
  <2>2. liveGames' = 0
    BY <1>3, <2>1 DEF GameInv, DrainCountsTheGame
  <2>3. liveCounted' \in BOOLEAN /\ ~liveCounted'
    BY <2>1
  <2> QED
    BY <1>1, <1>2, <1>3, <2>2, <2>3 DEF GameInv, SequenceStep, DrainCountsTheGame
<1>4. CASE ~ (Live(game) /\ ~Live(g))
  <2>1. liveCounted' = liveCounted /\ liveGames' = liveGames /\ (Live(g) <=> Live(game))
    BY <1>1, <1>4 DEF applyEliminations
  <2> QED
    BY <1>1, <1>2, <2>1 DEF GameInv, SequenceStep, DrainCountsTheGame
<1> QED
  BY <1>3, <1>4

\* Inputs leave a running game alone, or begin one in a lobby.
LEMMA InputGame ==
    ASSUME SeatInv, GameInv, NEW m \in inputs,
           handleCreate(m) \/ handleJoin(m) \/ handleDisconnect(m) \/ handleResume(m)
    PROVE  GameInv' /\ SequenceStep
<1>1. game.alive \subseteq Taken(seats)
  BY DEF GameInv
<1>2. CASE handleCreate(m)
  BY <1>1, <1>2, CreateEffect, QuietGame DEF handleCreate
<1>3. CASE handleJoin(m)
  <2>1. CASE seats' = seats /\ UNCHANGED play
    BY <1>1, <2>1, QuietGame
  <2>2. ASSUME NEW i \in Seats, Taken(seats') = Taken(seats) \cup {i}, UNCHANGED play
        PROVE  GameInv' /\ SequenceStep
    BY <1>1, <2>2, QuietGame
  <2>3. ASSUME ~joinRefused(m.sess), NEW ss, SeatsSound(ss),
               Cardinality(Taken(ss)) >= minPlayers, beginGame(ss)
        PROVE  GameInv' /\ SequenceStep
    BY <2>3, BeginGame DEF joinRefused, inLobby
  <2> QED
    BY <1>3, <2>1, <2>2, <2>3, JoinEffect
<1>4. CASE handleDisconnect(m)
  BY <1>1, <1>4, DisconnectEffect, QuietGame DEF handleDisconnect
<1>5. CASE handleResume(m)
  BY <1>1, <1>5, ResumeEffect, QuietGame DEF handleResume
<1> QED
  BY <1>2, <1>3, <1>4, <1>5

\* Seats freed while a game may be running: the engine has heard of them first.
LEMMA FreeingGame ==
    ASSUME SeatInv, GameInv, NEW out \in SUBSET Seats,
           NEW g, g = IF Live(game) THEN Without(game, out) ELSE game,
           seats' = vacate(owed(g), out), applyEliminations(g)
    PROVE  GameInv' /\ SequenceStep
<1>1. Taken(seats') = Taken(seats) \ out
  BY OwedFacts, VacateFacts DEF SeatInv
<1>2. CASE Live(game)
  <2>1. g \in Game /\ Playable(g) /\ g.alive \subseteq game.alive \ out
    BY <1>2, WithoutFacts DEF GameInv
  <2> QED
    BY <1>1, <2>1, EliminationsGame DEF GameInv
<1>3. CASE ~Live(game)
  <2>1. g = game /\ g \in Game /\ Playable(g) /\ g.alive = {}
    BY <1>3 DEF GameInv, Live
  <2> QED
    BY <1>1, <2>1, EliminationsGame
<1> QED
  BY <1>2, <1>3

\* A start begins a game; a leave or a kick takes nobody out of one who keeps a seat.
LEMMA LobbyGame ==
    ASSUME SeatInv, GameInv, NEW i \in Seats,
           \/ \E ready \in BOOLEAN : lobbyReady(i, ready)
           \/ lobbyStart(i)
           \/ \E target \in Seats : lobbyKick(i, target)
           \/ lobbyLeave(i)
    PROVE  GameInv' /\ SequenceStep
<1>1. game.alive \subseteq Taken(seats) /\ SeatsSound(seats)
  BY DEF GameInv, SeatInv
<1>2. ASSUME NEW ready \in BOOLEAN, lobbyReady(i, ready)
      PROVE  GameInv' /\ SequenceStep
  BY <1>1, <1>2, ReadyEffect, QuietGame DEF lobbyReady
<1>3. CASE lobbyStart(i)
  BY <1>1, <1>3, BeginGame DEF lobbyStart, inLobby
<1>4. ASSUME NEW target \in Seats, lobbyKick(i, target)
      PROVE  GameInv' /\ SequenceStep
  <2>1. UNCHANGED play /\ game.alive = {}
    BY <1>4 DEF lobbyKick, Live, inLobby
  <2> QED
    BY <2>1, QuietGame
<1>5. CASE lobbyLeave(i)
  BY <1>5, FreeingGame DEF lobbyLeave
<1> QED
  BY <1>2, <1>3, <1>4, <1>5

\* The player to act loses the turn.
LEMMA TurnLostGame ==
    ASSUME SeatInv, GameInv, Live(game), turnLost
    PROVE  GameInv' /\ SequenceStep
<1> DEFINE g == Without(game, {game.turn})
<1>1. game.turn \in Seats /\ game.alive \subseteq Taken(seats)
  BY DEF GameInv, Playable, Game
<1>2. g \in Game /\ Playable(g) /\ g.alive \subseteq game.alive
  BY <1>1, WithoutFacts DEF GameInv
<1> HIDE DEF g
<1>3. applyEliminations(g) /\ seats' = owed(game')
  BY DEF turnLost, g
<1>4. Taken(seats') = Taken(seats)
  BY <1>3, OwedFacts DEF SeatInv
<1> QED
  BY <1>1, <1>2, <1>3, <1>4, EliminationsGame

\* A word moves the turn, and a lost turn takes its player out.
LEMMA GameGame ==
    ASSUME SeatInv, GameInv, handleGame \/ turnTimer
    PROVE  GameInv' /\ SequenceStep
<1>1. CASE turnTimer
  BY <1>1, TurnLostGame DEF turnTimer
<1>2. ASSUME NEW i \in Seats, NEW seq \in 0 .. turnSeq,
             handleSubmitLate(i, seq)
      PROVE  GameInv' /\ SequenceStep
  BY <1>2, TurnLostGame DEF handleSubmitLate
<1>3. ASSUME NEW i \in Seats, NEW seq \in 0 .. turnSeq, handleSubmit(i, seq)
      PROVE  GameInv' /\ SequenceStep
  <2> DEFINE next == NextAlive(MaxPlayers, i, game.alive)
  <2>1. /\ Live(game) /\ game.turn = i
        /\ turnSeq' = turnSeq + 1
        /\ UNCHANGED <<seats, liveCounted, liveGames>>
        /\ \E dead \in BOOLEAN : game' = [game EXCEPT !.turn = next, !.dead = dead]
    BY <1>3 DEF handleSubmit
  <2>2. /\ MaxPlayers \in Nat /\ i \in 1 .. MaxPlayers /\ i \in game.alive
        /\ game.alive \in SUBSET (1 .. MaxPlayers)
        /\ Cardinality(game.alive) >= 2
        /\ turnSeq \in Nat
    BY <2>1, RoomAssumption DEF GameInv, Playable, Game, Seats
  <2>3. game.alive \ {i} # {}
    <3>1. game.alive # {i}
      <4>1. Cardinality({i}) = 1
        BY FS_Singleton
      <4> QED
        BY <2>2, <4>1
    <3> QED
      BY <2>2, <3>1
  <2>4. next \in game.alive /\ next # i
    BY <2>2, <2>3, NextAliveFacts
  <2> HIDE DEF next
  <2>5. next \in 0 .. MaxPlayers
    BY <2>2, <2>4
  <2>6. /\ game' \in Game /\ game'.alive = game.alive /\ game'.turn = next
    BY <2>1, <2>5 DEF Game, GameInv
  <2>7. Playable(game') /\ Live(game')
    BY <2>1, <2>2, <2>4, <2>6 DEF Playable, Live
  <2>8. SequenceStep
    BY <2>1, <2>2, <2>4, <2>6, <2>7 DEF SequenceStep
  <2>9. DrainCountsTheGame'
    BY <2>1, <2>7 DEF GameInv, DrainCountsTheGame
  <2>10. turnSeq' \in Nat
    BY <2>1, <2>2
  <2> QED
    BY <2>1, <2>6, <2>7, <2>8, <2>9, <2>10 DEF GameInv, Taken
<1>4. ASSUME NEW i \in Seats, handleResign(i) \/ handleClaimDeadEnd(i)
      PROVE  GameInv' /\ SequenceStep
  BY <1>4, TurnLostGame DEF handleResign, handleClaimDeadEnd
<1> QED
  BY <1>1, <1>2, <1>3, <1>4 DEF handleGame

\* A room that is closed has no game and is not counted.
LEMMA ExitGame ==
    ASSUME GameInv, exit
    PROVE  GameInv' /\ SequenceStep
<1>1. game' = NoGame /\ turnSeq' = turnSeq /\ stopCountingLive
  BY DEF exit
<1>2. NoGame \in Game /\ NoGame.alive = {} /\ ~Live(NoGame) /\ Playable(NoGame)
  BY RoomAssumption DEF NoGame, Game, Live, Playable
<1>3. liveCounted' \in BOOLEAN /\ ~liveCounted'
  BY <1>1 DEF stopCountingLive
<1>4. liveGames' = 0
  BY <1>1 DEF stopCountingLive, GameInv, DrainCountsTheGame
<1>5. turnSeq \in Nat
  BY DEF GameInv
<1> QED
  BY <1>1, <1>2, <1>3, <1>4, <1>5 DEF GameInv, SequenceStep, DrainCountsTheGame

\* Beside the room, only the clock touches the game: the turn is late.
LEMMA EnvironmentGame ==
    ASSUME GameInv, environment
    PROVE  GameInv' /\ SequenceStep
<1>1. CASE clock
  <2>1. /\ Live(game) /\ game' = [game EXCEPT !.late = TRUE]
        /\ UNCHANGED <<seats, turnSeq, liveCounted, liveGames>>
    BY <1>1 DEF clock
  <2>2. /\ game' \in Game /\ game'.alive = game.alive /\ game'.turn = game.turn
    BY <2>1 DEF GameInv, Game
  <2>3. Live(game') /\ Playable(game') /\ turnSeq \in Nat
    BY <2>1, <2>2 DEF Live, Playable, GameInv
  <2> QED
    BY <2>1, <2>2, <2>3 DEF GameInv, SequenceStep, DrainCountsTheGame, Taken
<1>2. CASE ~clock
  <2>1. UNCHANGED play /\ seats' = seats
    BY <1>2 DEF environment, startDraining, pairingJoins, handleHello, joinRoom,
                attachElsewhere, close, leaveRoom, expireToken
  <2> QED
    BY <2>1, QuietGame DEF GameInv
<1> QED
  BY <1>1, <1>2

\* Every step keeps the game played by the seated, and the sequence in step with it.
LEMMA StepGame == SeatInv /\ GameInv /\ [Next]_vars => GameInv' /\ SequenceStep
<1> SUFFICES ASSUME SeatInv, GameInv, [Next]_vars PROVE GameInv' /\ SequenceStep
  OBVIOUS
<1>1. CASE run
  <2>1. CASE handleInput
    BY <2>1, InputGame DEF handleInput
  <2>2. CASE handleLobby
    BY <2>2, LobbyGame DEF handleLobby
  <2>3. CASE handleGame \/ turnTimer
    BY <2>3, GameGame
  <2>4. CASE \E out \in SUBSET Seats : handleGraceExpiry(out)
    BY <2>4, FreeingGame DEF handleGraceExpiry
  <2>5. CASE idleTimer \/ shutdown
    BY <2>5, ExitGame DEF idleTimer, shutdown
  <2> QED
    BY <1>1, <2>1, <2>2, <2>3, <2>4, <2>5 DEF run
<1>2. CASE environment
  BY <1>2, EnvironmentGame
<1>3. CASE UNCHANGED vars
  <2>1. UNCHANGED play /\ seats' = seats
    BY <1>3 DEF vars
  <2> QED
    BY <2>1, QuietGame DEF GameInv
<1> QED
  BY <1>1, <1>2, <1>3 DEF Next, returned

\* Whoever is in a game is seated, and the room is counted exactly while it has one.
THEOREM GameInvariance == Spec => []GameInv
<1>1. Init => GameInv
  <2> SUFFICES ASSUME Init PROVE GameInv
    OBVIOUS
  <2>1. game = NoGame /\ turnSeq = 0 /\ liveCounted = FALSE /\ liveGames = 0
    BY DEF Init
  <2>2. NoGame \in Game /\ NoGame.alive = {} /\ ~Live(NoGame) /\ Playable(NoGame)
    BY RoomAssumption DEF NoGame, Game, Live, Playable
  <2>3. liveCounted \in BOOLEAN /\ ~liveCounted
    BY <2>1
  <2> QED
    BY <2>1, <2>2, <2>3 DEF GameInv, DrainCountsTheGame
<1> QED
  BY <1>1, SeatInvariance, StepGame, PTL DEF Spec

\* However many leave, alone or together, a running game has two players or more,
\* all of them seated, one of them on turn.
THEOREM PlayersAreSeatedAlways == Spec => []PlayersAreSeated
<1>1. GameInv => PlayersAreSeated
  BY DEF GameInv, Playable, PlayersAreSeated
<1> QED
  BY <1>1, GameInvariance, PTL

\* The room counts as one live game exactly while it runs one, however it ends.
THEOREM DrainCountsTheGameAlways == Spec => []DrainCountsTheGame
<1>1. GameInv => DrainCountsTheGame
  BY DEF GameInv
<1> QED
  BY <1>1, GameInvariance, PTL

\* The sequence moves with every new turn and every new game, and with nothing else.
THEOREM SequenceNamesTheTurnAlways == Spec => SequenceNamesTheTurn
<1>1. SeatInv /\ GameInv /\ [Next]_vars =>
        [ /\ turnSeq' >= turnSeq
          /\ turnSeq' # turnSeq <=>
               Live(game') /\ (~Live(game) \/ game'.turn # game.turn) ]_vars
  BY StepGame DEF SequenceStep
<1> QED
  BY <1>1, SeatInvariance, GameInvariance, PTL DEF Spec, SequenceNamesTheTurn

----------------------------------------------------------------------------
(***************************************************************************)
(* What a seat is owed.                                                    *)
(***************************************************************************)
\* What has to be shown of a step: a sound seat that is owed something is taken.
LEMMA OwedSeats ==
    ASSUME SeatsSound(seats'),
           \A i \in Seats : seats'[i].missed => seats'[i].sess = None /\ ~Live(game')
    PROVE  ResultsAwaitAResume'
<1>1. \A i \in Seats : seats'[i].missed => i \in Taken(seats')
  BY DEF SeatsSound, Sound, Taken
<1> QED
  BY <1>1 DEF ResultsAwaitAResume, inLobby

\* Inputs make no debt: a resume settles one, and a start clears them all.
LEMMA InputOwes ==
    ASSUME SeatInv, SeatInv', ResultsAwaitAResume, NEW m \in inputs,
           handleCreate(m) \/ handleJoin(m) \/ handleDisconnect(m) \/ handleResume(m)
    PROVE  ResultsAwaitAResume'
<1>1. /\ m.sess \in Session /\ m.quick \in BOOLEAN
      /\ \A i \in Seats : seats[i].missed => seats[i].sess = None /\ ~Live(game)
  BY DEF SeatInv, RoomTypes, Input, ResultsAwaitAResume, inLobby
<1>2. SeatsSound(seats')
  BY DEF SeatInv
<1>3. CASE handleCreate(m)
  <2>1. game' = game
    BY <1>3 DEF handleCreate, play
  <2>2. ~seats'[1].missed /\ \A i \in Seats \ {1} : seats'[i] = seats[i]
    BY <1>1, <1>3, CreateEffect, TakeSeatSound
  <2> QED
    BY <1>1, <1>2, <2>1, <2>2, OwedSeats
<1>4. CASE handleJoin(m)
  <2>1. CASE seats' = seats /\ UNCHANGED play
    BY <1>1, <1>2, <2>1, OwedSeats DEF play
  <2>2. ASSUME NEW i \in Seats, ~seats'[i].missed, UNCHANGED play,
               \A j \in Seats \ {i} : /\ seats'[j].sess = seats[j].sess
                                      /\ seats'[j].missed => seats[j].missed
        PROVE  ResultsAwaitAResume'
    BY <1>1, <1>2, <2>2, OwedSeats DEF play
  <2>3. ASSUME NEW ss, SeatsSound(ss), beginGame(ss)
        PROVE  ResultsAwaitAResume'
    BY <1>2, <2>3, BeginFacts, OwedSeats
  <2> QED
    BY <1>4, <2>1, <2>2, <2>3, JoinEffect
<1>5. CASE handleDisconnect(m)
  <2>1. game' = game
    BY <1>5 DEF handleDisconnect, play
  <2>2. \A i \in Seats : /\ seats'[i].missed => seats[i].missed
                         /\ seats'[i].sess \in {seats[i].sess, None}
    BY <1>5, DisconnectEffect
  <2> QED
    BY <1>1, <1>2, <2>1, <2>2, OwedSeats
<1>6. CASE handleResume(m)
  <2>1. game' = game
    BY <1>6 DEF handleResume, play
  <2>2. CASE seats' = seats
    BY <1>1, <1>2, <2>1, <2>2, OwedSeats
  <2>3. CASE seats' # seats
    <3>1. /\ m.player \in Seats
          /\ seats'[m.player].missed => seats'[m.player].sess = None
          /\ seats[m.player].missed \/ ~seats[m.player].missed
          /\ \A j \in Seats \ {m.player} : seats'[j] = seats[j]
      BY <1>6, <2>3, ResumeEffect DEF Taken
    <3>2. seats'[m.player].missed => seats[m.player].missed
      BY <1>6, <2>3, ResumeEffect
    <3> QED
      BY <1>1, <1>2, <2>1, <3>1, <3>2, OwedSeats
  <2> QED
    BY <2>2, <2>3
<1> QED
  BY <1>3, <1>4, <1>5, <1>6

\* A game that ends as seats are freed is owed to the seats that are away and stay.
LEMMA FreeingOwes ==
    ASSUME SeatInv, SeatInv', ResultsAwaitAResume, NEW out \in SUBSET Seats,
           NEW g, Live(g) => Live(game), game' = g, seats' = vacate(owed(g), out)
    PROVE  ResultsAwaitAResume'
<1>1. \A i \in Seats : owed(g)[i].missed => owed(g)[i].sess = None /\ ~Live(g)
  BY OwedFacts DEF SeatInv, ResultsAwaitAResume, inLobby
<1>2. SeatsSound(owed(g)) /\ SeatsSound(seats')
  BY OwedFacts DEF SeatInv
<1>3. /\ \A i \in out : seats'[i] = FreeSeat
      /\ \A i \in Seats \ out : /\ seats'[i].sess = owed(g)[i].sess
                                /\ seats'[i].missed = owed(g)[i].missed
  BY <1>2, VacateFacts
<1>4. ~FreeSeat.missed
  BY DEF FreeSeat
<1> QED
  BY <1>1, <1>2, <1>3, <1>4, OwedSeats

\* In the lobby debts are only cleared; a leave that ends a game makes new ones.
LEMMA LobbyOwes ==
    ASSUME SeatInv, SeatInv', GameInv, ResultsAwaitAResume, NEW i \in Seats,
           \/ \E ready \in BOOLEAN : lobbyReady(i, ready)
           \/ lobbyStart(i)
           \/ \E target \in Seats : lobbyKick(i, target)
           \/ lobbyLeave(i)
    PROVE  ResultsAwaitAResume'
<1>1. /\ SeatsSound(seats) /\ SeatsSound(seats')
      /\ \A j \in Seats : seats[j].missed => seats[j].sess = None /\ ~Live(game)
  BY DEF SeatInv, ResultsAwaitAResume, inLobby
<1>2. ASSUME NEW ready \in BOOLEAN, lobbyReady(i, ready)
      PROVE  ResultsAwaitAResume'
  <2>1. game' = game
    BY <1>2 DEF lobbyReady, play
  <2>2. \A j \in Seats : seats'[j].sess = seats[j].sess /\ seats'[j].missed = seats[j].missed
    BY <1>2, ReadyEffect
  <2> QED
    BY <1>1, <2>1, <2>2, OwedSeats
<1>3. CASE lobbyStart(i)
  BY <1>1, <1>3, BeginFacts, OwedSeats DEF lobbyStart
<1>4. ASSUME NEW target \in Seats, lobbyKick(i, target)
      PROVE  ResultsAwaitAResume'
  <2>1. game' = game /\ seats' = vacate(seats, {target})
    BY <1>4 DEF lobbyKick, play
  <2>2. /\ \A j \in {target} : seats'[j] = FreeSeat
        /\ \A j \in Seats \ {target} : /\ seats'[j].sess = seats[j].sess
                                       /\ seats'[j].missed = seats[j].missed
    BY <1>1, <2>1, VacateFacts
  <2>3. ~FreeSeat.missed
    BY DEF FreeSeat
  <2> QED
    BY <1>1, <2>1, <2>2, <2>3, OwedSeats
<1>5. CASE lobbyLeave(i)
  <2> DEFINE g == IF Live(game) THEN Without(game, {i}) ELSE game
  <2>1. game' = g /\ seats' = vacate(owed(g), {i})
    BY <1>5 DEF lobbyLeave, applyEliminations
  <2>2. Live(g) => Live(game)
    OBVIOUS
  <2> HIDE DEF g
  <2> QED
    BY <2>1, <2>2, FreeingOwes
<1> QED
  BY <1>2, <1>3, <1>4, <1>5

\* A game that ends by a lost turn is owed to the seats that are away.
LEMMA GameOwes ==
    ASSUME SeatInv, SeatInv', GameInv, ResultsAwaitAResume, handleGame \/ turnTimer
    PROVE  ResultsAwaitAResume'
<1>1. Live(game) /\ (seats' = seats \/ seats' = owed(game'))
  BY DEF handleGame, turnTimer, handleSubmit, handleSubmitLate, handleResign,
         handleClaimDeadEnd, turnLost
<1>2. \A i \in Seats : ~seats[i].missed
  BY <1>1 DEF ResultsAwaitAResume, inLobby
<1>3. \A i \in Seats : seats'[i].missed => seats'[i].sess = None /\ ~Live(game')
  BY <1>1, <1>2, OwedFacts DEF SeatInv
<1> QED
  BY <1>3, OwedSeats DEF SeatInv

\* A result is owed only to a seat that is away, in a room back in its lobby: whatever
\* order games end, players come back and seats are freed and taken again in.
THEOREM ResultsAwaitAResumeAlways == Spec => []ResultsAwaitAResume
<1>1. Init => ResultsAwaitAResume
  <2> SUFFICES ASSUME Init PROVE ResultsAwaitAResume
    OBVIOUS
  <2>1. \A i \in Seats : seats[i] = FreeSeat
    BY DEF Init
  <2> QED
    BY <2>1 DEF ResultsAwaitAResume, FreeSeat
<1>2. SeatInv /\ SeatInv' /\ GameInv /\ ResultsAwaitAResume /\ [Next]_vars => ResultsAwaitAResume'
  <2> SUFFICES ASSUME SeatInv, SeatInv', GameInv, ResultsAwaitAResume, [Next]_vars
               PROVE  ResultsAwaitAResume'
    OBVIOUS
  <2>1. CASE handleInput
    BY <2>1, InputOwes DEF handleInput
  <2>2. CASE handleLobby
    BY <2>2, LobbyOwes DEF handleLobby
  <2>3. CASE handleGame \/ turnTimer
    BY <2>3, GameOwes
  <2>4. ASSUME NEW out \in SUBSET Seats, handleGraceExpiry(out)
        PROVE  ResultsAwaitAResume'
    <3> DEFINE g == IF Live(game) THEN Without(game, out) ELSE game
    <3>1. game' = g /\ seats' = vacate(owed(g), out)
      BY <2>4 DEF handleGraceExpiry, applyEliminations
    <3>2. Live(g) => Live(game)
      OBVIOUS
    <3> HIDE DEF g
    <3> QED
      BY <3>1, <3>2, FreeingOwes
  <2>5. CASE idleTimer \/ shutdown
    <3>1. \A i \in Seats : seats'[i] = FreeSeat
      BY <2>5 DEF idleTimer, shutdown, exit
    <3> QED
      BY <3>1 DEF ResultsAwaitAResume, FreeSeat
  <2>6. CASE environment \/ UNCHANGED vars
    <3>1. seats' = seats /\ (Live(game') => Live(game))
      BY <2>6 DEF environment, clock, startDraining, pairingJoins, handleHello, joinRoom,
                  attachElsewhere, close, leaveRoom, expireToken, vars, play
    <3> QED
      BY <3>1 DEF ResultsAwaitAResume, inLobby, Taken
  <2> QED
    BY <2>1, <2>2, <2>3, <2>4, <2>5, <2>6 DEF Next, run, returned
<1> QED
  BY <1>1, <1>2, SeatInvariance, GameInvariance, PTL DEF Spec

----------------------------------------------------------------------------
(***************************************************************************)
(* The game of a room is one of Table's.                                   *)
(***************************************************************************)
\* The order of play of the board is the seats', and a game of two players or more
\* is not over.
LEMMA BoardFacts ==
    /\ Len([i \in Seats |-> i]) = MaxPlayers
    /\ DOMAIN [i \in Seats |-> i] = Seats
    /\ \A n, from, in : Board!NextAlive(n, from, in) = NextAlive(n, from, in)
    /\ \A g \in Game : Live(g) /\ Playable(g) => \A i \in g.alive : g.alive # {i}
<1>1. [i \in Seats |-> i] \in Seq(Seats)
  BY RoomAssumption DEF Seats
<1>2. MaxPlayers \in Nat
  BY RoomAssumption
<1> DEFINE order == [i \in Seats |-> i]
<1>3. DOMAIN order = 1 .. MaxPlayers
  BY DEF Seats
<1> HIDE DEF order
<1>4. Len(order) \in Nat /\ DOMAIN order = 1 .. Len(order)
  BY <1>1, LenProperties DEF order
<1>5. Len(order) = MaxPlayers
  BY <1>2, <1>3, <1>4
<1>6. ASSUME NEW g \in Game, Live(g), Playable(g), NEW i \in g.alive
      PROVE  g.alive # {i}
  <2>1. Cardinality({i}) = 1
    BY FS_Singleton
  <2> QED
    BY <1>6, <2>1 DEF Playable
<1>7. \A n, from, in : Board!NextAlive(n, from, in) = NextAlive(n, from, in)
  BY DEF Board!NextAlive, NextAlive, Board!Waits, Waits
<1> QED
  BY <1>3, <1>5, <1>6, <1>7 DEF order, Seats

\* Seats going out: nothing happens on the board, or one player resigns.
LEMMA OutIsOnTheBoard ==
    ASSUME GameInv, Live(game), NEW out \in SUBSET Seats, game' = Without(game, out),
           Live(game'), GameInv', Cardinality(game.alive \ game'.alive) <= 1
    PROVE  game' = game \/ Board!Next
<1>1. /\ game \in Game /\ game' \in Game /\ Playable(game) /\ Playable(game')
      /\ game.turn \in game.alive /\ game.alive \subseteq Seats
  BY DEF GameInv, Playable, Game
<1>2. /\ game'.alive = game.alive \ out
      /\ game'.dead = game.dead
      /\ IF game.turn \in out
         THEN /\ ~game.dead
              /\ game'.turn = NextAlive(MaxPlayers, game.turn, game'.alive)
              /\ ~game'.late
         ELSE game'.turn = game.turn /\ game'.late = game.late
  BY <1>1, WithoutFacts
<1>3. CASE game.alive \ game'.alive = {}
  <2>1. /\ game'.alive = game.alive /\ game'.turn = game.turn
        /\ game'.dead = game.dead /\ game'.late = game.late
    BY <1>1, <1>2, <1>3
  <2> QED
    BY <1>1, <2>1 DEF Game
<1>4. CASE game.alive \ game'.alive # {}
  <2>1. PICK i \in game.alive : game.alive \ game'.alive = {i}
    <3>1. IsFiniteSet(game.alive \ game'.alive)
      <4>1. (game.alive \ game'.alive) \in SUBSET (1 .. MaxPlayers) /\ MaxPlayers \in Nat
        BY <1>1, RoomAssumption DEF Seats
      <4> QED
        BY <4>1, SeatSets
    <3>2. PICK i \in game.alive \ game'.alive : TRUE
      BY <1>4
    <3>3. game.alive \ game'.alive = {i}
      <4>1. (game.alive \ game'.alive) \in SUBSET (1 .. MaxPlayers) /\ MaxPlayers \in Nat
        BY <1>1, RoomAssumption DEF Seats
      <4> QED
        BY <3>2, <4>1, SeatSets
    <3> QED
      BY <3>2, <3>3
  <2>2. game'.alive = game.alive \ {i} /\ i \in Seats /\ (game.turn \in out <=> i = game.turn)
    BY <1>1, <1>2, <2>1
  <2>3. ~Board!Over /\ ~Board!Over'
    BY <1>1, BoardFacts DEF Board!Over
  <2>4. CASE i = game.turn
    <3>1. Board!Fallen = {game.turn}
      BY <1>2, <2>2, <2>4 DEF Board!Fallen
    <3>2. /\ game'.alive = game.alive \ Board!Fallen
          /\ game'.turn = NextAlive(MaxPlayers, game.turn, game'.alive)
          /\ game'.dead = game.dead /\ ~game'.late
      BY <1>2, <2>2, <2>4, <3>1
    <3>3. Board!LoseTurn
      <4>1. game'.turn = Board!NextAlive(Len([j \in Seats |-> j]), game.turn, game'.alive)
        BY <3>2, BoardFacts
      <4>2. (IF game'.late THEN -1 ELSE 0)
              = IF Board!Over' THEN (IF game.late THEN -1 ELSE 0) ELSE 0
        BY <2>3, <3>2
      <4>3. [j \in Seats |-> j]' = [j \in Seats |-> j] /\ (game.dead)' = game.dead
        BY <3>2
      <4> QED
        BY <3>2, <4>1, <4>2, <4>3 DEF Board!LoseTurn
    <3> QED
      BY <2>1, <2>2, <2>3, <2>4, <3>3, BoardFacts DEF Board!Next, Board!Resign, Board!Seats
  <2>5. CASE i # game.turn
    <3>1. Board!Resign(i)
      BY <1>2, <2>1, <2>2, <2>3, <2>5 DEF Board!Resign
    <3> QED
      BY <2>2, <3>1, BoardFacts DEF Board!Next, Board!Seats
  <2> QED
    BY <2>4, <2>5
<1> QED
  BY <1>3, <1>4

\* What PlaysAtATable asks of a step that changes the game.
BoardStep ==
    Live(game) /\ Live(game') /\ Cardinality(game.alive \ game'.alive) <= 1 =>
        game' = game \/ Board!Next

\* Every step of the room is one of the board, a stutter, or takes out several at once.
LEMMA StepOnTheBoard ==
    ASSUME GameInv, GameInv', [Next]_vars
    PROVE  BoardStep
<1> SUFFICES ASSUME Live(game), Live(game'), game' # game,
                    Cardinality(game.alive \ game'.alive) <= 1
             PROVE  Board!Next
  BY DEF BoardStep
<1>1. game \in Game /\ Playable(game) /\ game.turn \in Seats
  BY DEF GameInv, Playable, Game
<1>2. ~Board!Over
  BY <1>1, BoardFacts DEF Board!Over
<1>3. CASE handleInput
  <2>1. PICK m \in inputs : handleJoin(m)
    BY <1>3 DEF handleInput, handleCreate, handleDisconnect, handleResume, play
  <2>2. CASE joinRefused(m.sess)
    BY <2>1, <2>2 DEF handleJoin, play
  <2>3. CASE ~joinRefused(m.sess)
    BY <2>3 DEF joinRefused, inLobby
  <2> QED
    BY <2>2, <2>3
<1>4. CASE handleLobby
  <2>1. PICK i \in Seats : lobbyLeave(i)
    BY <1>4 DEF handleLobby, lobbyReady, lobbyStart, lobbyKick, play, inLobby
  <2>2. game' = Without(game, {i})
    BY <2>1 DEF lobbyLeave, applyEliminations
  <2> QED
    BY <2>2, OutIsOnTheBoard
<1>5. ASSUME turnLost
      PROVE  Board!Next
  <2>1. game' = Without(game, {game.turn})
    BY <1>5 DEF turnLost, applyEliminations
  <2> QED
    BY <1>1, <2>1, OutIsOnTheBoard
<1>6. ASSUME NEW i \in Seats, NEW seq \in 0 .. turnSeq, handleSubmit(i, seq)
      PROVE  Board!Next
  <2> DEFINE next == NextAlive(MaxPlayers, game.turn, game.alive)
  <2>1. ~game.dead /\ ~game.late
    BY <1>6 DEF handleSubmit
  <2>2. PICK dead \in BOOLEAN : game' = [game EXCEPT !.turn = next, !.dead = dead]
    BY <1>6 DEF handleSubmit
  <2> HIDE DEF next
  <2>3. /\ game'.alive = game.alive /\ game'.turn = next
        /\ game'.dead \in BOOLEAN /\ game'.late = game.late
    BY <1>1, <2>2 DEF Game
  <2> QED
    <3>1. (IF game.late THEN -1 ELSE 0) >= 0 /\ ~game'.late
      BY <2>1, <2>3
    <3>2. Board!Accept
      <4>1. game'.turn = Board!NextAlive(Len([j \in Seats |-> j]), game.turn, game.alive)
        BY <2>3, BoardFacts DEF next
      <4>2. [j \in Seats |-> j]' = [j \in Seats |-> j]
        OBVIOUS
      <4> QED
        BY <1>2, <2>1, <2>3, <3>1, <4>1, <4>2 DEF Board!Accept
    <3> QED
      BY <3>2 DEF Board!Next
<1>7. CASE handleGame \/ turnTimer
  BY <1>5, <1>6, <1>7 DEF handleGame, turnTimer, handleSubmitLate, handleResign,
                          handleClaimDeadEnd
<1>8. ASSUME NEW out \in SUBSET Seats, handleGraceExpiry(out)
      PROVE  Board!Next
  <2>1. game' = Without(game, out)
    BY <1>8 DEF handleGraceExpiry, applyEliminations
  <2> QED
    BY <2>1, OutIsOnTheBoard
<1>9. CASE idleTimer \/ shutdown
  BY <1>9 DEF idleTimer, shutdown, exit, NoGame, Live
<1>10. CASE environment
  <2>1. clock
    BY <1>10 DEF environment, startDraining, pairingJoins, handleHello, joinRoom,
                 attachElsewhere, close, leaveRoom, expireToken, play
  <2>2. ~game.late /\ game' = [game EXCEPT !.late = TRUE]
    BY <2>1 DEF clock
  <2>3. /\ game'.alive = game.alive /\ game'.turn = game.turn /\ game'.dead = game.dead
        /\ game'.late
    BY <1>1, <2>2 DEF Game
  <2> QED
    BY <2>2, <2>3 DEF Board!Next, Board!Tick
<1>11. CASE returned \/ UNCHANGED vars
  BY <1>11 DEF returned, vars, play
<1> QED
  BY <1>3, <1>4, <1>7, <1>8, <1>9, <1>10, <1>11 DEF Next, run

\* While a room's game goes on, whatever reaches the room moves it by one step of
\* Table or not at all, for every number of seats.
THEOREM PlaysAtATableAlways == Spec => PlaysAtATable
<1>1. GameInv /\ GameInv' /\ [Next]_vars =>
        [ Live(game) /\ Live(game') /\ Cardinality(game.alive \ game'.alive) <= 1 =>
            Board!Next ]_game
  BY StepOnTheBoard DEF BoardStep
<1> QED
  BY <1>1, GameInvariance, PTL DEF Spec, PlaysAtATable

----------------------------------------------------------------------------
(***************************************************************************)
(* The third layer: connections, and the notices on their way.             *)
(***************************************************************************)
\* A step that at most empties seats, and releases the connections that were in them.
Thinning ==
    /\ UNCHANGED <<conn, tokens, pairing>>
    /\ inputs' = inputs \/ (inputs' = {} /\ Taken(seats') = {})
    /\ \A i \in Seats :
          \/ seats'[i].sess = seats[i].sess /\ seats'[i].heldFor = seats[i].heldFor
          \/ seats'[i].sess = None /\ seats'[i].heldFor = None
    /\ \A s \in Session :
          \/ at'[s] = at[s]
          \/ at'[s] = 0 /\ \E i \in Seats : seats[i].sess = s /\ seats'[i].sess = None
    /\ \A i \in Seats :
          seats[i].sess # None /\ seats'[i].sess = None => at'[seats[i].sess] = 0
    /\ Taken(seats') \subseteq Taken(seats)
    /\ autoStart' => autoStart

\* Nobody sits in a seat that is free.
LEMMA NobodyInFreeSeats ==
    ASSUME NEW ss, SeatsSound(ss), NEW i \in Seats
    PROVE  /\ ss[i].sess \in Session \cup {None} /\ ss[i].heldFor \in Session \cup {None}
           /\ i \notin Taken(ss) => ss[i].sess = None /\ ss[i].heldFor = None
BY DEF SeatsSound, Sound, Seat, Taken

\* Emptying seats, and releasing whoever was in them, keeps every connection accounted for.
LEMMA ThinningConn ==
    ASSUME SeatInv, SeatInv', ConnInv, Thinning
    PROVE  ConnInv'
<1>1. /\ inputs' \subseteq inputs /\ conn' = conn /\ tokens' = tokens /\ pairing' = pairing
      /\ \A i \in Seats : /\ seats'[i].sess \in {seats[i].sess, None}
                          /\ seats'[i].heldFor \in {seats[i].heldFor, None}
      /\ \A s \in Session : at'[s] \in {at[s], 0}
  BY DEF Thinning
<1>2. None \notin Session /\ inputs \subseteq Input /\ \A m \in inputs : m.sess \in Session
  BY RoomAssumption DEF SeatInv, RoomTypes, Input
<1>3. OneSeatEach'
  BY <1>1 DEF ConnInv, OneSeatEach
<1>4. NewIsNowhere'
  BY <1>1, <1>2 DEF ConnInv, NewIsNowhere
<1>5. ResumesAreFirst'
  BY <1>1, <1>2 DEF ConnInv, ResumesAreFirst
<1>6. CreateIsFirst'
  <2>1. Taken(seats') \subseteq Taken(seats) /\ (autoStart' => autoStart)
    BY DEF Thinning
  <2>2. inputs' = inputs \/ inputs' = {}
    BY DEF Thinning
  <2> QED
    BY <2>1, <2>2 DEF ConnInv, CreateIsFirst
<1>7. SeatIsWatched'
  <2> SUFFICES ASSUME NEW i \in Seats, NEW s \in Session, s # None, seats'[i].sess = s
               PROVE  \/ at'[s] = i /\ conn'[s] # "gone"
                      \/ Disconnect(s, i) \in inputs'
    BY DEF SeatIsWatched, occupies
  <2>1. seats[i].sess = s
    BY <1>1
  <2>2. at'[s] = at[s]
    <3>1. \A j \in Seats : seats[j].sess = s => j = i
      BY <2>1 DEF ConnInv, OneSeatEach
    <3> QED
      BY <3>1 DEF Thinning
  <2>3. inputs' = inputs
    <3>1. Taken(seats') # {}
      BY NobodyInFreeSeats DEF SeatInv
    <3> QED
      BY <3>1 DEF Thinning
  <2>4. conn' = conn
    BY <1>1
  <2> QED
    BY <2>1, <2>2, <2>3, <2>4 DEF ConnInv, SeatIsWatched, occupies
<1>8. ArmedIsAlone'
  BY DEF Thinning, ConnInv, ArmedIsAlone
<1> QED
  BY <1>3, <1>4, <1>5, <1>6, <1>7, <1>8 DEF ConnInv

\* Freeing seats is thinning, whether their connections are released or were gone.
LEMMA FreeingThins ==
    ASSUME SeatInv, SeatInv', NEW ss, SeatsSound(ss), Taken(ss) = Taken(seats),
           \A i \in Seats : ss[i].sess = seats[i].sess /\ ss[i].heldFor = seats[i].heldFor,
           NEW out \in SUBSET Seats, seats' = vacate(ss, out), owner' = nextOwner(seats'),
           loop(inputs), UNCHANGED <<autoStart, conn, tokens, pairing>>,
           at' = released(out) \/ (at' = at /\ \A i \in out : seats[i].sess = None)
    PROVE  Thinning
<1>1. /\ Taken(seats') = Taken(seats) \ out
      /\ \A i \in out : seats'[i] = FreeSeat
      /\ \A i \in Seats \ out : /\ seats'[i].sess = seats[i].sess
                                /\ seats'[i].heldFor = seats[i].heldFor
  BY VacateFacts
<1>2. FreeSeat.sess = None /\ FreeSeat.heldFor = None
  BY DEF FreeSeat
<1>3. \A i \in Seats : seats[i].sess \in Session \cup {None}
  BY NobodyInFreeSeats DEF SeatInv
<1>4. \A s \in Session :
         \/ at'[s] = at[s]
         \/ at'[s] = 0 /\ \E i \in Seats : seats[i].sess = s /\ seats'[i].sess = None
  BY <1>1, <1>2 DEF released, occupies
<1>5. \A i \in Seats : seats[i].sess # None /\ seats'[i].sess = None => at'[seats[i].sess] = 0
  BY <1>1, <1>3 DEF released, occupies
<1>6. inputs' = inputs \/ (inputs' = {} /\ Taken(seats') = {})
  BY DEF loop
<1> QED
  BY <1>1, <1>2, <1>4, <1>5, <1>6 DEF Thinning

\* A step that leaves every connection where it was.
LEMMA KeepingThins ==
    ASSUME SeatInv, UNCHANGED <<conn, at, tokens, inputs, autoStart, pairing>>,
           Taken(seats') = Taken(seats),
           \A i \in Seats : /\ seats'[i].sess = seats[i].sess
                            /\ seats'[i].heldFor = seats[i].heldFor
    PROVE  Thinning
BY DEF Thinning

\* What is asked for in the lobby at most empties seats.
LEMMA LobbyThins ==
    ASSUME SeatInv, SeatInv', NEW i \in Seats,
           \/ \E ready \in BOOLEAN : lobbyReady(i, ready)
           \/ lobbyStart(i)
           \/ \E target \in Seats : lobbyKick(i, target)
           \/ lobbyLeave(i)
    PROVE  Thinning
<1>1. SeatsSound(seats)
  BY DEF SeatInv
<1>2. ASSUME NEW ready \in BOOLEAN, lobbyReady(i, ready)
      PROVE  Thinning
  BY <1>2, ReadyEffect, KeepingThins DEF lobbyReady, sockets, beyond
<1>3. CASE lobbyStart(i)
  BY <1>1, <1>3, BeginFacts, KeepingThins DEF lobbyStart, sockets, beyond
<1>4. ASSUME NEW target \in Seats, lobbyKick(i, target)
      PROVE  Thinning
  BY <1>1, <1>4, FreeingThins DEF lobbyKick, beyond
<1>5. CASE lobbyLeave(i)
  <2> DEFINE g == IF Live(game) THEN Without(game, {i}) ELSE game
  <2>1. /\ seats' = vacate(owed(g), {i}) /\ owner' = nextOwner(seats') /\ loop(inputs)
        /\ at' = released({i})
        /\ UNCHANGED <<autoStart, conn, tokens, pairing>>
    BY <1>5 DEF lobbyLeave, beyond
  <2> HIDE DEF g
  <2> QED
    BY <1>1, <2>1, OwedFacts, FreeingThins
<1> QED
  BY <1>2, <1>3, <1>4, <1>5

\* So do windows that run out,
LEMMA GraceThins ==
    ASSUME SeatInv, SeatInv', NEW out \in SUBSET Seats, handleGraceExpiry(out)
    PROVE  Thinning
<1> DEFINE g == IF Live(game) THEN Without(game, out) ELSE game
<1>1. /\ seats' = vacate(owed(g), out) /\ owner' = nextOwner(seats') /\ loop(inputs)
      /\ at' = at /\ \A i \in out : seats[i].sess = None
      /\ UNCHANGED <<autoStart, conn, tokens, pairing>>
  BY DEF handleGraceExpiry, sockets, beyond
<1> HIDE DEF g
<1> QED
  BY <1>1, OwedFacts, FreeingThins DEF SeatInv

\* words, resignations and turns lost,
LEMMA GameThins ==
    ASSUME SeatInv, handleGame \/ turnTimer
    PROVE  Thinning
<1>1. UNCHANGED <<autoStart, inputs, conn, at, tokens, pairing>>
  BY DEF handleGame, turnTimer, handleSubmit, handleSubmitLate, handleResign,
         handleClaimDeadEnd, turnLost, sockets, beyond
<1>2. seats' = seats \/ seats' = owed(game')
  BY DEF handleGame, turnTimer, handleSubmit, handleSubmitLate, handleResign,
         handleClaimDeadEnd, turnLost
<1> QED
  BY <1>1, <1>2, OwedFacts, KeepingThins DEF SeatInv

\* and the closing of the room.
LEMMA ExitThins ==
    ASSUME SeatInv, SeatInv', exit
    PROVE  Thinning
<1>1. \A i \in Seats : seats'[i].sess = None /\ seats'[i].heldFor = None /\ seats'[i].who = None
  BY DEF exit, FreeSeat
<1>2. Taken(seats') = {}
  BY <1>1 DEF Taken
<1>3. \A i \in Seats : seats[i].sess \in Session \cup {None}
  BY NobodyInFreeSeats DEF SeatInv
<1>4. \A s \in Session : at'[s] = IF \E i \in Seats : occupies(s, i) THEN 0 ELSE at[s]
  BY DEF exit, released
<1>5. inputs' = {} /\ (autoStart' => autoStart) /\ UNCHANGED <<conn, tokens, pairing>>
  BY DEF exit, beyond
<1> QED
  BY <1>1, <1>2, <1>3, <1>4, <1>5 DEF Thinning, occupies

\* The inputs a handler leaves: all but the one handled, or none with nobody seated.
LEMMA LoopLeaves ==
    ASSUME SeatInv, NEW m \in inputs, loop(inputs \ {m})
    PROVE  /\ inputs' \subseteq inputs
           /\ Taken(seats') # {} => inputs' = inputs \ {m}
BY DEF loop

\* A notice names its connection and its seat.
LEMMA DisconnectFields ==
    \A s, i : /\ Disconnect(s, i).type = "disconnect" /\ Disconnect(s, i).sess = s
              /\ Disconnect(s, i).player = i
BY DEF Disconnect

\* The creator is the first connection of the room, in its first seat.
LEMMA CreateConn ==
    ASSUME SeatInv, SeatInv', ConnInv, NEW m \in inputs, handleCreate(m)
    PROVE  ConnInv'
<1> DEFINE x == takeSeat(m.sess, m.quick)
<1>1. /\ m.type = "create" /\ m.sess = Creator /\ Taken(seats) = {} /\ Creator \in Session
      /\ \A c \in inputs : c.type = "create" => c = m
      /\ m.quick \in BOOLEAN /\ 1 \in Seats /\ None \notin Session
      /\ \A r \in inputs : r.sess \in Session
  BY RoomAssumption DEF handleCreate, ConnInv, CreateIsFirst, SeatInv, RoomTypes, Input, Seats
<1>2. /\ at' = [at EXCEPT ![Creator] = 1] /\ owner' = 1 /\ autoStart' = m.quick
      /\ conn' = conn /\ tokens' = tokens /\ pairing' = pairing
      /\ loop(inputs \ {m})
  BY <1>1 DEF handleCreate, beyond
<1>3. /\ Taken(seats') = {1} /\ seats'[1] = x
      /\ \A i \in Seats \ {1} : seats'[i] = seats[i]
  BY <1>1, CreateEffect
<1>4. /\ x.sess = IF conn[Creator] = "up" THEN Creator ELSE None
      /\ x.heldFor = IF conn[Creator] = "up" THEN None ELSE Creator
  BY <1>1, TakeSeatSound
<1> HIDE DEF x
<1>5. inputs' = inputs \ {m}
  BY <1>2, <1>3, LoopLeaves
<1>6. \A i \in Seats : /\ seats'[i].sess = IF i = 1 THEN x.sess ELSE None
                       /\ seats'[i].heldFor = IF i = 1 THEN x.heldFor ELSE None
  BY <1>1, <1>3, NobodyInFreeSeats DEF SeatInv
<1>7. OneSeatEach'
  BY <1>6 DEF OneSeatEach
<1>8. NewIsNowhere'
  <2>1. \A s \in Session : s # Creator => at'[s] = at[s]
    BY <1>2 DEF SeatInv, RoomTypes
  <2> QED
    BY <1>1, <1>2, <1>4, <1>5, <1>6, <2>1 DEF ConnInv, NewIsNowhere
<1>9. ResumesAreFirst'
  BY <1>1, <1>4, <1>5, <1>6 DEF ConnInv, ResumesAreFirst
<1>10. CreateIsFirst'
  BY <1>1, <1>5 DEF CreateIsFirst
<1>11. SeatIsWatched'
  <2>1. at'[Creator] = 1
    BY <1>1, <1>2 DEF SeatInv, RoomTypes
  <2> QED
    BY <1>2, <1>4, <1>6, <2>1 DEF SeatIsWatched, occupies
<1>12. ArmedIsAlone'
  BY <1>3 DEF ArmedIsAlone
<1> QED
  BY <1>7, <1>8, <1>9, <1>10, <1>11, <1>12 DEF ConnInv

\* A connection that joins was in no seat and has no resume on its way.
LEMMA JoinConn ==
    ASSUME SeatInv, SeatInv', ConnInv, NEW m \in inputs, handleJoin(m)
    PROVE  ConnInv'
<1>1. /\ m.type = "join" /\ m.sess \in Session /\ m.quick \in BOOLEAN /\ None \notin Session
      /\ \A r \in inputs : r.sess = m.sess => r.type # "resume"
      /\ \A c \in inputs : c.type # "create"
      /\ ~autoStart'
      /\ conn' = conn /\ tokens' = tokens /\ pairing' = pairing /\ loop(inputs \ {m})
      /\ \A r \in inputs : r.sess \in Session
      /\ conn[m.sess] # "new"
  BY RoomAssumption DEF handleJoin, beyond, SeatInv, RoomTypes, Input, ConnInv, NewIsNowhere
<1>2. inputs' \subseteq inputs /\ (Taken(seats') # {} => inputs' = inputs \ {m})
  BY <1>1, LoopLeaves
<1>3. CreateIsFirst' /\ ArmedIsAlone'
  BY <1>1, <1>2 DEF CreateIsFirst, ArmedIsAlone
<1>4. CASE seats' = seats /\ at' = at
  <2>1. OneSeatEach' /\ NewIsNowhere' /\ ResumesAreFirst'
    BY <1>1, <1>2, <1>4 DEF ConnInv, OneSeatEach, NewIsNowhere, ResumesAreFirst
  <2>2. SeatIsWatched'
    <3> SUFFICES ASSUME NEW i \in Seats, NEW s \in Session, seats[i].sess = s
                 PROVE  \/ at[s] = i /\ conn[s] # "gone"
                        \/ Disconnect(s, i) \in inputs'
      BY <1>1, <1>4 DEF SeatIsWatched, occupies
    <3>1. Taken(seats') # {}
      BY <1>1, <1>4, NobodyInFreeSeats DEF SeatInv
    <3> QED
      BY <1>1, <1>2, <3>1, DisconnectFields DEF ConnInv, SeatIsWatched, occupies
  <2> QED
    BY <1>3, <2>1, <2>2 DEF ConnInv
<1>5. ASSUME NEW i \in Seats \ Taken(seats),
             Taken(seats') = Taken(seats) \cup {i},
             ~joinRefused(m.sess),
             at' = [at EXCEPT ![m.sess] = i],
             seats'[i].sess = takeSeat(m.sess, m.quick).sess,
             seats'[i].heldFor = takeSeat(m.sess, m.quick).heldFor,
             \A j \in Seats \ {i} : /\ seats'[j].sess = seats[j].sess
                                    /\ seats'[j].heldFor = seats[j].heldFor
      PROVE  ConnInv'
  <2>1. /\ seats'[i].sess = IF conn[m.sess] = "up" THEN m.sess ELSE None
        /\ seats'[i].heldFor = IF conn[m.sess] = "up" THEN None ELSE m.sess
    BY <1>1, <1>5, TakeSeatSound
  <2>2. \A j \in Seats : seats[j].sess # m.sess
    BY <1>1, <1>5 DEF joinRefused, occupies
  <2>3. inputs' = inputs \ {m}
    BY <1>2, <1>5
  <2>4. at'[m.sess] = i /\ \A s \in Session : s # m.sess => at'[s] = at[s]
    BY <1>1, <1>5 DEF SeatInv, RoomTypes
  <2>5. OneSeatEach'
    BY <1>1, <1>5, <2>1, <2>2 DEF ConnInv, OneSeatEach
  <2>6. NewIsNowhere'
    BY <1>1, <1>5, <2>1, <2>3, <2>4 DEF ConnInv, NewIsNowhere
  <2>7. ResumesAreFirst'
    BY <1>1, <1>5, <2>1, <2>3 DEF ConnInv, ResumesAreFirst
  <2>8. SeatIsWatched'
    <3> SUFFICES ASSUME NEW j \in Seats, NEW s \in Session, seats'[j].sess = s
                 PROVE  \/ at'[s] = j /\ conn[s] # "gone"
                        \/ Disconnect(s, j) \in inputs'
      BY <1>1 DEF SeatIsWatched, occupies
    <3>1. CASE j = i
      BY <1>1, <2>1, <2>4, <3>1
    <3>2. CASE j # i
      <4>1. seats[j].sess = s /\ s # m.sess
        BY <1>5, <2>2, <3>2
      <4> QED
        BY <1>1, <2>3, <2>4, <4>1, DisconnectFields DEF ConnInv, SeatIsWatched, occupies
    <3> QED
      BY <3>1, <3>2
  <2> QED
    BY <1>3, <2>5, <2>6, <2>7, <2>8 DEF ConnInv
<1> QED
  BY <1>4, <1>5, JoinEffect

\* A notice that finds its connection in the seat is the last thing owed to that seat.
LEMMA DisconnectConn ==
    ASSUME SeatInv, SeatInv', ConnInv, NEW m \in inputs, handleDisconnect(m)
    PROVE  ConnInv'
<1>1. /\ m.type = "disconnect" /\ m.sess \in Session /\ m.player \in Seats
      /\ None \notin Session
      /\ autoStart' = autoStart /\ pairing' = pairing
      /\ conn' = conn /\ tokens' = tokens /\ at' = at /\ loop(inputs \ {m})
      /\ \A r \in inputs : r.sess \in Session
      /\ conn[m.sess] # "new"
  BY RoomAssumption DEF handleDisconnect, sockets, beyond, SeatInv, RoomTypes, Input, ConnInv,
                        NewIsNowhere
<1>2. inputs' \subseteq inputs /\ (Taken(seats') # {} => inputs' = inputs \ {m})
  BY <1>1, LoopLeaves
<1>3. /\ Taken(seats') = Taken(seats)
      /\ \A i \in Seats :
            \/ /\ seats'[i].sess = seats[i].sess /\ seats'[i].heldFor = seats[i].heldFor
               /\ ~ (i = m.player /\ seats[i].sess = m.sess)
            \/ i = m.player /\ seats'[i].sess = None /\ seats'[i].heldFor = m.sess
  BY <1>1, DisconnectEffect DEF occupies
<1>4. OneSeatEach' /\ NewIsNowhere'
  BY <1>1, <1>2, <1>3 DEF ConnInv, OneSeatEach, NewIsNowhere
<1>5. ResumesAreFirst'
  BY <1>1, <1>2, <1>3 DEF ConnInv, ResumesAreFirst
<1>6. SeatIsWatched'
  <2> SUFFICES ASSUME NEW i \in Seats, NEW s \in Session, seats'[i].sess = s
               PROVE  \/ at[s] = i /\ conn[s] # "gone"
                      \/ Disconnect(s, i) \in inputs'
    BY <1>1 DEF SeatIsWatched, occupies
  <2>1. seats[i].sess = s /\ ~ (i = m.player /\ s = m.sess) /\ s # None
    BY <1>1, <1>3
  <2>2. inputs' = inputs \ {m}
    <3>1. Taken(seats') # {}
      BY <1>1, NobodyInFreeSeats DEF SeatInv
    <3> QED
      BY <1>2, <3>1
  <2> QED
    BY <2>1, <2>2, DisconnectFields DEF ConnInv, SeatIsWatched, occupies
<1>7. CreateIsFirst' /\ ArmedIsAlone'
  <2>1. inputs' = inputs \ {m} \/ (inputs' = {} /\ Taken(seats') = {})
    BY <1>1 DEF loop
  <2> QED
    BY <1>1, <1>3, <2>1 DEF ConnInv, CreateIsFirst, ArmedIsAlone
<1> QED
  BY <1>4, <1>5, <1>6, <1>7 DEF ConnInv

\* A connection that resumes was in no seat, and is watched in the one it gets.
LEMMA ResumeConn ==
    ASSUME SeatInv, SeatInv', ConnInv, NEW m \in inputs, handleResume(m)
    PROVE  ConnInv'
<1>1. /\ m.type = "resume" /\ m.sess \in Session /\ m.player \in Seats /\ m.prior \in Session
      /\ None \notin Session
      /\ autoStart' = autoStart /\ pairing' = pairing /\ loop(inputs \ {m})
      /\ \A r \in inputs : r.sess \in Session
      /\ conn[m.sess] # "new"
      /\ m.sess # Creator /\ m.prior # m.sess
      /\ \A i \in Seats : seats[i].sess # m.sess
      /\ \A r \in inputs : r.type = "resume" /\ r.sess = m.sess => r = m
  BY RoomAssumption DEF handleResume, beyond, SeatInv, RoomTypes, Input, ConnInv, NewIsNowhere,
                        ResumesAreFirst
<1>2. inputs' \subseteq inputs /\ (inputs' = inputs \ {m} \/ (inputs' = {} /\ Taken(seats') = {}))
  BY <1>1 DEF loop
<1>3. Taken(seats') = Taken(seats)
  BY ResumeEffect
<1>4. CreateIsFirst' /\ ArmedIsAlone'
  BY <1>1, <1>2, <1>3 DEF ConnInv, CreateIsFirst, ArmedIsAlone
<1>5. ASSUME NEW i \in Seats, NEW s \in Session, seats'[i].sess = s
      PROVE  inputs' = inputs \ {m}
  <2>1. Taken(seats') # {}
    BY <1>1, <1>5, NobodyInFreeSeats DEF SeatInv
  <2> QED
    BY <1>2, <2>1
<1>6. CASE UNCHANGED <<seats, sockets>>
  <2>1. seats' = seats /\ at' = at /\ conn' = conn /\ tokens' = tokens
    BY <1>6 DEF sockets
  <2>2. OneSeatEach' /\ NewIsNowhere' /\ ResumesAreFirst'
    BY <1>1, <1>2, <2>1 DEF ConnInv, OneSeatEach, NewIsNowhere, ResumesAreFirst
  <2>3. SeatIsWatched'
    <3> SUFFICES ASSUME NEW i \in Seats, NEW s \in Session, s # None, seats[i].sess = s
                 PROVE  \/ at[s] = i /\ conn[s] # "gone"
                        \/ Disconnect(s, i) \in inputs'
      BY <2>1 DEF SeatIsWatched, occupies
    <3> QED
      BY <1>1, <1>5, <2>1, DisconnectFields DEF ConnInv, SeatIsWatched, occupies
  <2> QED
    BY <1>4, <2>2, <2>3 DEF ConnInv
<1>7. CASE ~UNCHANGED <<seats, sockets>>
  <2>1. /\ at' = [at EXCEPT ![m.sess] = m.player]
        /\ tokens' = tokens \ {m.prior}
        /\ conn' = [conn EXCEPT ![m.prior] = IF @ = "up" THEN "down" ELSE @]
        /\ IF conn[m.sess] = "up"
           THEN seats'[m.player].sess = m.sess /\ seats'[m.player].heldFor = None
           ELSE seats'[m.player].sess = None /\ seats'[m.player].heldFor = m.sess
        /\ \A j \in Seats \ {m.player} : seats'[j] = seats[j]
    BY <1>7, ResumeEffect
  <2>2. /\ at'[m.sess] = m.player /\ \A s \in Session : s # m.sess => at'[s] = at[s]
        /\ \A s \in Session : conn'[s] = IF s = m.prior /\ conn[s] = "up" THEN "down" ELSE conn[s]
    BY <1>1, <2>1 DEF SeatInv, RoomTypes
  <2>3. OneSeatEach'
    BY <1>1, <2>1 DEF ConnInv, OneSeatEach
  <2>4. NewIsNowhere'
    BY <1>1, <1>2, <2>1, <2>2 DEF ConnInv, NewIsNowhere
  <2>5. ResumesAreFirst'
    <3>1. \A r \in inputs' : r.type = "resume" => r # m
      BY <1>2
    <3>2. \A r \in inputs' : r.type = "resume" => r.sess # m.sess
      BY <1>1, <1>2, <3>1
    <3> QED
      BY <1>1, <1>2, <2>1, <3>2 DEF ConnInv, ResumesAreFirst
  <2>6. SeatIsWatched'
    <3> SUFFICES ASSUME NEW i \in Seats, NEW s \in Session, s # None, seats'[i].sess = s
                 PROVE  \/ at'[s] = i /\ conn'[s] # "gone"
                        \/ Disconnect(s, i) \in inputs'
      BY DEF SeatIsWatched, occupies
    <3>1. CASE i = m.player
      BY <1>1, <2>1, <2>2, <3>1
    <3>2. CASE i # m.player
      <4>1. seats[i].sess = s /\ s # m.sess
        BY <1>1, <2>1, <3>2
      <4>2. Disconnect(s, i) \in inputs => Disconnect(s, i) \in inputs'
        BY <1>1, <1>5, DisconnectFields
      <4> QED
        BY <2>2, <4>1, <4>2 DEF ConnInv, SeatIsWatched, occupies
    <3> QED
      BY <3>1, <3>2
  <2> QED
    BY <1>4, <2>3, <2>4, <2>5, <2>6 DEF ConnInv
<1> QED
  BY <1>6, <1>7

\* A connection that says Hello is nowhere yet, so the resume it may send is the
\* first of its person's new connection.
LEMMA HelloConn ==
    ASSUME SeatInv, ConnInv, NEW s \in Session, handleHello(s)
    PROVE  ConnInv'
<1>1. /\ UNCHANGED <<seats, autoStart, at, pairing>>
      /\ conn[s] = "new" /\ conn' = [conn EXCEPT ![s] = "up"]
      /\ tokens' = tokens \cup {s}
      /\ \/ inputs' = inputs
         \/ \E prior \in tokens : inputs' = inputs \cup {Resume(s, at[prior], prior)}
  BY DEF handleHello, beyond
<1>2. /\ s # Creator /\ at[s] = 0 /\ s \notin tokens
      /\ \A i \in Seats : seats[i].sess # s /\ seats[i].heldFor # s
      /\ \A r \in inputs : r.sess # s
  BY <1>1 DEF ConnInv, NewIsNowhere
<1>3. \A t \in Session : conn'[t] = IF t = s THEN "up" ELSE conn[t]
  BY <1>1 DEF SeatInv, RoomTypes
<1>4. \A t, i, p : LET r == Resume(t, i, p)
                   IN  r.type = "resume" /\ r.sess = t /\ r.prior = p
  BY DEF Resume
<1>5. /\ inputs \subseteq inputs'
      /\ \A r \in inputs' \ inputs : r.type = "resume" /\ r.sess = s /\ r.prior # s
      /\ \A q, r \in inputs' \ inputs : q = r
  BY <1>1, <1>2, <1>4
<1>6. OneSeatEach'
  BY <1>1 DEF ConnInv, OneSeatEach
<1>7. NewIsNowhere'
  BY <1>1, <1>3, <1>5 DEF ConnInv, NewIsNowhere
<1>8. ResumesAreFirst'
  <2> SUFFICES ASSUME NEW m \in inputs', m.type = "resume"
               PROVE  /\ m.sess # Creator
                      /\ m.prior # m.sess
                      /\ \A i \in Seats : seats[i].sess # m.sess
                      /\ \A r \in inputs' : r.type = "resume" /\ r.sess = m.sess => r = m
    BY <1>1 DEF ResumesAreFirst
  <2>1. CASE m \in inputs
    BY <1>2, <1>5, <2>1 DEF ConnInv, ResumesAreFirst
  <2>2. CASE m \notin inputs
    BY <1>2, <1>5, <2>2
  <2> QED
    BY <2>1, <2>2
<1>9. CreateIsFirst' /\ ArmedIsAlone'
  <2>1. \A r \in inputs' : r.type = "create" => r \in inputs
    BY <1>5
  <2> QED
    BY <1>1, <1>5, <2>1 DEF ConnInv, CreateIsFirst, ArmedIsAlone, Taken
<1>10. SeatIsWatched'
  BY <1>1, <1>3, <1>5 DEF ConnInv, SeatIsWatched, occupies
<1> QED
  BY <1>6, <1>7, <1>8, <1>9, <1>10 DEF ConnInv

\* A join on its way changes nothing yet, be it by code or the second half of a quick
\* match.
LEMMA JoinRoomConn ==
    ASSUME SeatInv, ConnInv, pairingJoins \/ \E t \in Session : joinRoom(t)
    PROVE  ConnInv'
<1>1. PICK j : /\ j.type = "join" /\ conn[j.sess] # "new"
               /\ UNCHANGED <<seats, autoStart, at, conn, tokens>>
               /\ inputs' = inputs \cup {j}
               /\ pairing' = pairing \/ pairing' = None
               /\ \A c \in inputs' : c.type = "create" => c \in inputs
  <2>1. CASE pairingJoins
    <3> DEFINE j == Join(pairing, TRUE)
    <3>1. j.type = "join" /\ j.sess = pairing
      BY DEF Join
    <3>2. conn[pairing] # "new"
      BY <2>1 DEF pairingJoins, SeatInv, RoomTypes, ConnInv, NewIsNowhere
    <3>3. /\ UNCHANGED <<seats, autoStart, at, conn, tokens>>
          /\ inputs' = inputs \cup {j} /\ pairing' = None
      BY <2>1 DEF pairingJoins, sockets
    <3> HIDE DEF j
    <3> QED
      BY <3>1, <3>2, <3>3
  <2>2. ASSUME NEW t \in Session, joinRoom(t)
        PROVE  \E j : /\ j.type = "join" /\ conn[j.sess] # "new"
                      /\ UNCHANGED <<seats, autoStart, at, conn, tokens>>
                      /\ inputs' = inputs \cup {j}
                      /\ pairing' = pairing \/ pairing' = None
                      /\ \A c \in inputs' : c.type = "create" => c \in inputs
    <3> DEFINE j == Join(t, FALSE)
    <3>1. j.type = "join" /\ j.sess = t
      BY DEF Join
    <3>2. /\ conn[t] = "up" /\ pairing' = pairing
          /\ UNCHANGED <<seats, autoStart, at, conn, tokens>>
          /\ inputs' = inputs \cup {j}
      BY <2>2 DEF joinRoom, sockets, beyond
    <3> HIDE DEF j
    <3> QED
      BY <3>1, <3>2
  <2> QED
    BY <2>1, <2>2
<1>2. None \notin Session
  BY RoomAssumption
<1>3. OneSeatEach' /\ NewIsNowhere'
  BY <1>1, <1>2 DEF ConnInv, OneSeatEach, NewIsNowhere
<1>4. ResumesAreFirst' /\ SeatIsWatched'
  BY <1>1 DEF ConnInv, ResumesAreFirst, SeatIsWatched, occupies
<1>5. CreateIsFirst' /\ ArmedIsAlone'
  BY <1>1 DEF ConnInv, CreateIsFirst, ArmedIsAlone, Taken
<1> QED
  BY <1>3, <1>4, <1>5 DEF ConnInv

\* A connection taken away or ending sends its notice from the seat it points at.
LEMMA NoticeConn ==
    ASSUME SeatInv, ConnInv, NEW s \in Session, attachElsewhere(s) \/ leaveRoom(s)
    PROVE  ConnInv'
<1> DEFINE n == Disconnect(s, at[s])
<1>1. /\ UNCHANGED <<seats, autoStart, tokens, pairing>>
      /\ conn[s] \in {"up", "down"}
      /\ inputs' = IF at[s] # 0 THEN inputs \cup {n} ELSE inputs
      /\ \/ conn' = conn /\ at' = [at EXCEPT ![s] = 0]
         \/ conn' = [conn EXCEPT ![s] = "gone"] /\ at' = at
  BY DEF attachElsewhere, leaveRoom, beyond
<1>2. n.type = "disconnect" /\ n.sess = s /\ n = Disconnect(s, at[s])
  BY DEF Disconnect
<1> HIDE DEF n
<1>3. /\ \A t \in Session : t # s => at'[t] = at[t] /\ conn'[t] = conn[t]
      /\ conn'[s] # "new"
  BY <1>1 DEF SeatInv, RoomTypes
<1>4. /\ inputs \subseteq inputs'
      /\ \A r \in inputs' : r.type # "disconnect" => r \in inputs
      /\ \A r \in inputs' : r \in inputs \/ r.sess = s
  BY <1>1, <1>2
<1>5. OneSeatEach'
  BY <1>1 DEF ConnInv, OneSeatEach
<1>6. NewIsNowhere'
  BY <1>1, <1>3, <1>4 DEF ConnInv, NewIsNowhere
<1>7. ResumesAreFirst'
  BY <1>1, <1>4 DEF ConnInv, ResumesAreFirst
<1>8. CreateIsFirst' /\ ArmedIsAlone'
  BY <1>1, <1>4 DEF ConnInv, CreateIsFirst, ArmedIsAlone, Taken
<1>9. SeatIsWatched'
  <2> SUFFICES ASSUME NEW i \in Seats, NEW t \in Session, t # None, seats[i].sess = t
               PROVE  \/ at'[t] = i /\ conn'[t] # "gone"
                      \/ Disconnect(t, i) \in inputs'
    BY <1>1 DEF SeatIsWatched, occupies
  <2>1. (at[t] = i /\ conn[t] # "gone") \/ Disconnect(t, i) \in inputs
    BY DEF ConnInv, SeatIsWatched, occupies
  <2>2. CASE t = s /\ at[t] = i
    <3>1. i # 0
      BY DEF Seats
    <3> QED
      BY <1>1, <1>2, <2>2, <3>1
  <2>3. CASE t # s \/ at[t] # i
    BY <1>3, <1>4, <2>1, <2>3
  <2> QED
    BY <2>2, <2>3
<1> QED
  BY <1>5, <1>6, <1>7, <1>8, <1>9 DEF ConnInv

\* A connection that ends still has its leaveRoom to come.
LEMMA CloseConn ==
    ASSUME SeatInv, ConnInv, NEW s \in Session, close(s) \/ expireToken(s)
    PROVE  ConnInv'
<1>1. /\ UNCHANGED <<seats, autoStart, at, inputs, pairing>>
      /\ tokens' \subseteq tokens
      /\ \A t \in Session : conn'[t] = conn[t] \/ (conn[t] = "up" /\ conn'[t] = "down")
  BY DEF close, expireToken, beyond, SeatInv, RoomTypes
<1>2. NewIsNowhere'
  BY <1>1 DEF ConnInv, NewIsNowhere
<1>3. OneSeatEach' /\ ResumesAreFirst' /\ CreateIsFirst'
  BY <1>1 DEF ConnInv, OneSeatEach, ResumesAreFirst, CreateIsFirst, Taken
<1>4. SeatIsWatched' /\ ArmedIsAlone'
  BY <1>1 DEF ConnInv, SeatIsWatched, occupies, ArmedIsAlone, Taken
<1> QED
  BY <1>2, <1>3, <1>4 DEF ConnInv

\* What a step does, for the properties of connections: it thins the seats, or it is
\* one of these.
ConnStep ==
    \/ handleInput
    \/ pairingJoins
    \/ \E s \in Session : handleHello(s) \/ joinRoom(s) \/ attachElsewhere(s) \/ leaveRoom(s)
                            \/ close(s) \/ expireToken(s)

\* Every other step thins the seats.
LEMMA OtherStepsThin ==
    ASSUME SeatInv, SeatInv', [Next]_vars
    PROVE  ConnStep \/ Thinning
<1>1. CASE handleLobby
  BY <1>1, LobbyThins DEF handleLobby
<1>2. CASE handleGame \/ turnTimer
  BY <1>2, GameThins
<1>3. CASE \E out \in SUBSET Seats : handleGraceExpiry(out)
  BY <1>3, GraceThins
<1>4. CASE idleTimer \/ shutdown
  BY <1>4, ExitThins DEF idleTimer, shutdown
<1>5. CASE clock \/ startDraining \/ UNCHANGED vars
  <2>1. UNCHANGED <<conn, at, tokens, inputs, autoStart, pairing, seats>>
    BY <1>5 DEF clock, startDraining, vars, sockets, beyond
  <2> QED
    BY <2>1, KeepingThins
<1> QED
  BY <1>1, <1>2, <1>3, <1>4, <1>5 DEF Next, run, environment, returned, ConnStep

\* One connection per seat and one seat per connection, whatever is on its way.
THEOREM ConnInvariance == Spec => []ConnInv
<1>1. Init => ConnInv
  <2> SUFFICES ASSUME Init PROVE ConnInv
    OBVIOUS
  <2>1. /\ \A i \in Seats : seats[i] = FreeSeat
        /\ ~autoStart
        /\ \A s \in Session : at[s] = 0
        /\ \A s \in Session : conn[s] = (IF s \in tokens THEN "up" ELSE "new")
    BY DEF Init
  <2>2. FreeSeat.sess = None /\ FreeSeat.heldFor = None /\ FreeSeat.who = None
    BY DEF FreeSeat
  <2>3. Taken(seats) = {} /\ None \notin Session /\ Creator \in Session
    BY <2>1, <2>2, RoomAssumption DEF Taken
  <2>5. OneSeatEach /\ SeatIsWatched
    BY <2>1, <2>2, <2>3 DEF OneSeatEach, SeatIsWatched, occupies
  <2>6. \A i \in Seats, s \in Session :
           at[s] = 0 /\ seats[i].sess # s /\ seats[i].heldFor # s
    BY <2>1, <2>2, <2>3
  <2>7. /\ Creator \in tokens /\ (pairing = None \/ pairing \in tokens)
        /\ \E auto \in BOOLEAN : inputs = {Create(Creator, auto)}
    BY DEF Init
  <2>4. \A auto \in BOOLEAN :
           Create(Creator, auto).type = "create" /\ Create(Creator, auto).sess = Creator
    BY DEF Create
  <2>8. /\ \A m \in inputs : m.type = "create" /\ m.sess = Creator
        /\ \A m, c \in inputs : m = c
    BY <2>4, <2>7
  <2>9. NewIsNowhere
    <3> SUFFICES ASSUME NEW s \in Session, conn[s] = "new"
                 PROVE  /\ s # Creator
                        /\ at[s] = 0
                        /\ s \notin tokens
                        /\ s # pairing
                        /\ \A i \in Seats : seats[i].sess # s /\ seats[i].heldFor # s
                        /\ \A m \in inputs : m.sess # s
      BY DEF NewIsNowhere
    <3>1. s \notin tokens
      BY <2>1
    <3> QED
      BY <2>1, <2>3, <2>6, <2>7, <2>8, <3>1
  <2>10. ResumesAreFirst
    BY <2>8 DEF ResumesAreFirst
  <2>13. CreateIsFirst
    BY <2>1, <2>3, <2>8 DEF CreateIsFirst
  <2>14. ArmedIsAlone
    BY <2>1 DEF ArmedIsAlone
  <2> QED
    BY <2>5, <2>9, <2>10, <2>13, <2>14 DEF ConnInv
<1>2. SeatInv /\ SeatInv' /\ ConnInv /\ [Next]_vars => ConnInv'
  <2> SUFFICES ASSUME SeatInv, SeatInv', ConnInv, [Next]_vars PROVE ConnInv'
    OBVIOUS
  <2>1. CASE handleInput
    BY <2>1, CreateConn, JoinConn, DisconnectConn, ResumeConn DEF handleInput
  <2>2. ASSUME NEW s \in Session,
               handleHello(s) \/ attachElsewhere(s) \/ leaveRoom(s)
                 \/ close(s) \/ expireToken(s)
        PROVE  ConnInv'
    BY <2>2, HelloConn, NoticeConn, CloseConn
  <2>3. CASE Thinning
    BY <2>3, ThinningConn
  <2>4. CASE pairingJoins \/ \E s \in Session : joinRoom(s)
    BY <2>4, JoinRoomConn
  <2> QED
    BY <2>1, <2>2, <2>3, <2>4, OtherStepsThin DEF ConnStep
<1> QED
  BY <1>1, <1>2, SeatInvariance, PTL DEF Spec

\* A seat is never bound to a dead socket that nobody will report: its connection
\* still points at it with leaveRoom to come, or the notice is on its way; whatever
\* other rooms do with it, and in whatever order resumes, joins and notices arrive.
THEOREM SeatIsWatchedAlways == Spec => []SeatIsWatched
<1>1. ConnInv => SeatIsWatched
  BY DEF ConnInv
<1> QED
  BY <1>1, ConnInvariance, PTL

----------------------------------------------------------------------------
(***************************************************************************)
(* Who a game is dealt to.                                                 *)
(***************************************************************************)
\* What OnlyTheFirstJoinDeals says of a step.
DealtStep ==
    inLobby /\ Live(game') /\ ~autoStart =>
        \A i \in game'.alive : i = owner \/ seats[i].ready

\* A game begins with a join or with the owner's start, and in no other way.
LEMMA OnlyTwoWaysToBegin ==
    ASSUME SeatInv, [Next]_vars, inLobby, Live(game')
    PROVE  \/ \E m \in inputs : handleJoin(m)
           \/ \E i \in Seats : lobbyStart(i)
<1>1. ASSUME game' = game
      PROVE  FALSE
  BY <1>1 DEF inLobby
<1>2. \A m \in inputs : handleCreate(m) \/ handleDisconnect(m) \/ handleResume(m) => game' = game
  BY DEF handleCreate, handleDisconnect, handleResume, play
<1>3. \A i \in Seats, ready \in BOOLEAN : lobbyReady(i, ready) => game' = game
  BY DEF lobbyReady, play
<1>4. \A i, target \in Seats : lobbyKick(i, target) => game' = game
  BY DEF lobbyKick, play
<1>5. \A i \in Seats : lobbyLeave(i) => game' = game
  BY DEF lobbyLeave, applyEliminations, inLobby
<1>6. \A out \in SUBSET Seats : handleGraceExpiry(out) => game' = game
  BY DEF handleGraceExpiry, applyEliminations, inLobby
<1>7. ~handleGame /\ ~turnTimer /\ ~clock
  BY DEF handleGame, turnTimer, clock, inLobby, handleSubmit, handleSubmitLate, handleResign,
         handleClaimDeadEnd
<1>8. ~idleTimer /\ ~shutdown
  <2>1. ~Live(NoGame)
    BY DEF Live, NoGame
  <2> QED
    BY <2>1 DEF idleTimer, shutdown, exit
<1>9. startDraining \/ pairingJoins \/ UNCHANGED vars => game' = game
  BY DEF startDraining, pairingJoins, vars, play
<1>10. \A s \in Session :
          handleHello(s) \/ joinRoom(s) \/ attachElsewhere(s) \/ close(s) \/ leaveRoom(s)
            \/ expireToken(s) => game' = game
  BY DEF handleHello, joinRoom, attachElsewhere, close, leaveRoom, expireToken, play
<1> QED
  BY <1>1, <1>2, <1>3, <1>4, <1>5, <1>6, <1>7, <1>8, <1>9, <1>10
     DEF Next, run, environment, returned, handleInput, handleLobby

\* A game begins for whoever is seated.
LEMMA BeginDeals ==
    ASSUME NEW ss, beginGame(ss)
    PROVE  game'.alive = Taken(ss)
<1>1. \E lead \in Taken(ss) :
         game' = [alive |-> Taken(ss), turn |-> lead, dead |-> FALSE, late |-> FALSE]
  BY DEF beginGame
<1> QED
  BY <1>1

\* A room whose flag is up has nobody in it but the player it was opened for, and in
\* any other a game is dealt only to its owner and to guests who are ready: whatever
\* joins, leaves and resumes came before, nobody is dealt in after the first join
\* who did not ask for it.  (The first join may be somebody else's than the player who was
\* paired: MCRoomPairing.cfg has TLC find that.)
THEOREM OnlyTheFirstJoinDealsAlways == Spec => OnlyTheFirstJoinDeals
<1>1. SeatInv /\ [Next]_vars => DealtStep
  <2> SUFFICES ASSUME SeatInv, [Next]_vars, inLobby, Live(game'), ~autoStart PROVE DealtStep
    BY DEF DealtStep
  <2>1. ASSUME NEW m \in inputs, handleJoin(m)
        PROVE  FALSE
    <3>1. UNCHANGED play
      BY <2>1, JoinEffect
    <3> QED
      BY <3>1 DEF play, inLobby
  <2>2. ASSUME NEW i \in Seats, lobbyStart(i)
        PROVE  DealtStep
    <3>1. /\ beginGame(seats)
          /\ \A j \in Taken(seats) : j = owner \/ seats[j].ready
      BY <2>2 DEF lobbyStart
    <3>2. game'.alive = Taken(seats)
      BY <3>1, BeginDeals
    <3> QED
      BY <3>1, <3>2 DEF DealtStep
  <2> QED
    BY <2>1, <2>2, OnlyTwoWaysToBegin
<1>2. SeatInv /\ [Next]_vars =>
        [ inLobby /\ Live(game') /\ ~autoStart =>
            \A i \in game'.alive : i = owner \/ seats[i].ready ]_vars
  BY <1>1 DEF DealtStep
<1>3. ConnInv => (autoStart => Taken(seats) \subseteq {1})
  BY DEF ConnInv, ArmedIsAlone
<1> QED
  BY <1>2, <1>3, SeatInvariance, ConnInvariance, PTL DEF Spec, OnlyTheFirstJoinDeals

----------------------------------------------------------------------------
(***************************************************************************)
(* No ghosts: where no other room takes connections away from this one, a  *)
(* live connection that believes it has a seat has it.                     *)
(***************************************************************************)
\* A room that has returned stays returned.
LEMMA ReturnedForGood ==
    ASSUME SeatInv, [Next]_vars, running'
    PROVE  running
<1> SUFFICES ASSUME ~running PROVE FALSE
  OBVIOUS
<1>1. Taken(seats) = {} /\ inputs = {}
  BY DEF SeatInv, Stopped
<1>2. \A i \in Seats : seats[i].sess = None
  BY <1>1, NobodyInFreeSeats DEF SeatInv
<1>3. ~handleInput
  BY <1>1 DEF handleInput
<1>4. ~handleLobby
  BY <1>2 DEF handleLobby, lobbyReady, lobbyStart, lobbyKick, lobbyLeave
<1>5. ~handleGame
  BY <1>2 DEF handleGame, handleSubmit, handleSubmitLate, handleResign, handleClaimDeadEnd
<1>6. \A out \in SUBSET Seats : ~handleGraceExpiry(out)
  BY <1>1 DEF handleGraceExpiry
<1>7. turnTimer \/ environment \/ UNCHANGED vars => running' = running
  BY DEF turnTimer, turnLost, environment, clock, startDraining, pairingJoins, handleHello,
         joinRoom, attachElsewhere, close, leaveRoom, expireToken, vars
<1>8. ~idleTimer /\ ~shutdown
  BY <1>1 DEF idleTimer, shutdown
<1> QED
  BY <1>3, <1>4, <1>5, <1>6, <1>7, <1>8 DEF Next, run, returned

\* A connection that is gone stays gone, and only going sends a notice.
LEMMA NoticesStep ==
    ASSUME Roaming = {}, SeatInv, SeatInv', ConnInv, NoticesOfTheGone, [Next]_vars
    PROVE  NoticesOfTheGone'
<1>1. \A m \in inputs : m.sess \in Session
  BY DEF SeatInv, RoomTypes, Input
<1>2. CASE Thinning
  BY <1>2 DEF Thinning, NoticesOfTheGone
<1>3. CASE handleInput
  <2>1. PICK m \in inputs :
           handleCreate(m) \/ handleJoin(m) \/ handleDisconnect(m) \/ handleResume(m)
    BY <1>3 DEF handleInput
  <2>2. inputs' \subseteq inputs
    BY <2>1 DEF handleCreate, handleJoin, handleDisconnect, handleResume, loop
  <2>3. \A s \in Session : conn[s] = "gone" => conn'[s] = "gone"
    <3>1. CASE handleResume(m)
      <4>1. m.prior \in Session
        BY <3>1 DEF SeatInv, RoomTypes, Input, handleResume
      <4>2. conn' = conn \/ conn' = [conn EXCEPT ![m.prior] = IF @ = "up" THEN "down" ELSE @]
        BY <3>1 DEF handleResume, sockets
      <4> QED
        BY <4>1, <4>2 DEF SeatInv, RoomTypes
    <3>2. CASE ~handleResume(m)
      <4>1. conn' = conn
        BY <2>1, <3>2 DEF handleCreate, handleJoin, handleDisconnect, sockets
      <4> QED
        BY <4>1
    <3> QED
      BY <3>1, <3>2
  <2> QED
    BY <1>1, <2>2, <2>3 DEF NoticesOfTheGone
<1>7. CASE pairingJoins
  BY <1>1, <1>7 DEF pairingJoins, sockets, Join, NoticesOfTheGone
<1>4. ASSUME NEW s \in Session,
             handleHello(s) \/ joinRoom(s) \/ close(s) \/ expireToken(s)
      PROVE  NoticesOfTheGone'
  <2>1. \A t \in Session : conn[t] = "gone" => conn'[t] = "gone"
    BY <1>4 DEF handleHello, joinRoom, close, expireToken, sockets, SeatInv, RoomTypes
  <2>2. \A r \in inputs' : r.type = "disconnect" => r \in inputs
    BY <1>4 DEF handleHello, joinRoom, close, expireToken, Resume, Join
  <2> QED
    BY <1>1, <2>1, <2>2 DEF NoticesOfTheGone
<1>5. ASSUME NEW s \in Session, leaveRoom(s)
      PROVE  NoticesOfTheGone'
  <2>1. conn'[s] = "gone" /\ \A t \in Session : conn[t] = "gone" => conn'[t] = "gone"
    BY <1>5 DEF leaveRoom, SeatInv, RoomTypes
  <2>2. \A r \in inputs' : r \in inputs \/ r.sess = s
    BY <1>5, DisconnectFields DEF leaveRoom
  <2> QED
    BY <1>1, <2>1, <2>2 DEF NoticesOfTheGone
<1>6. \A s \in Session : ~attachElsewhere(s)
  BY DEF attachElsewhere
<1> QED
  BY <1>2, <1>3, <1>4, <1>5, <1>6, <1>7, OtherStepsThin DEF ConnStep

\* What has to be shown of a step, of each connection that points at a seat after it.
LEMMA GhostFree ==
    ASSUME SeatInv',
           ASSUME NEW s \in Session, NEW i \in Seats, at'[s] = i, conn'[s] = "up"
           PROVE  seats'[i].sess = s
    PROVE  NoGhostSeat'
<1>1. \A s \in Session : at'[s] # 0 => at'[s] \in Seats
  BY RoomAssumption DEF SeatInv, RoomTypes, Seats
<1> QED
  BY <1>1 DEF NoGhostSeat

\* Handling an input leaves no ghost: a seat is bound to the connection told of it,
\* and one taken from a connection is taken from one that has ended.
LEMMA InputGhost ==
    ASSUME SeatInv, SeatInv', ConnInv, NoticesOfTheGone, NoGhostSeat, running, NEW m \in inputs,
           handleCreate(m) \/ handleJoin(m) \/ handleDisconnect(m) \/ handleResume(m)
    PROVE  NoGhostSeat'
<1>1. m.sess \in Session /\ m.quick \in BOOLEAN /\ None \notin Session /\ 1 \in Seats
  BY RoomAssumption DEF SeatInv, RoomTypes, Input, Seats
<1>2. \A s \in Session, i \in Seats : at[s] = i /\ conn[s] = "up" => seats[i].sess = s
  BY DEF NoGhostSeat, Seats
<1>3. \A i \in Seats \ Taken(seats) : seats[i].sess = None
  BY NobodyInFreeSeats DEF SeatInv
<1>4. CASE handleCreate(m)
  <2>1. Taken(seats) = {} /\ m.type = "create" /\ conn' = conn
    BY <1>4 DEF handleCreate, ConnInv, CreateIsFirst
  <2>2. /\ at'[m.sess] = 1
        /\ \A s \in Session : s # m.sess => at'[s] = at[s]
    BY <1>1, <1>4 DEF handleCreate, SeatInv, RoomTypes
  <2>3. conn[m.sess] = "up" => seats'[1].sess = m.sess
    BY <1>1, <1>4, CreateEffect, TakeSeatSound
  <2>4. \A s \in Session, i \in Seats : at'[s] = i /\ conn'[s] = "up" => seats'[i].sess = s
    BY <1>1, <1>2, <1>3, <2>1, <2>2, <2>3
  <2> QED
    BY <2>4, GhostFree
<1>5. CASE handleJoin(m)
  <2>1. conn' = conn
    BY <1>5 DEF handleJoin
  <2>2. CASE seats' = seats /\ at' = at
    BY <1>2, <2>1, <2>2 DEF NoGhostSeat
  <2>3. ASSUME NEW i \in Seats \ Taken(seats),
               at' = [at EXCEPT ![m.sess] = i],
               seats'[i].sess = takeSeat(m.sess, m.quick).sess,
               \A j \in Seats \ {i} : seats'[j].sess = seats[j].sess
        PROVE  NoGhostSeat'
    <3>1. /\ at'[m.sess] = i
          /\ \A s \in Session : s # m.sess => at'[s] = at[s]
      BY <1>1, <2>3 DEF SeatInv, RoomTypes
    <3>2. conn[m.sess] = "up" => seats'[i].sess = m.sess
      BY <1>1, <2>3, TakeSeatSound
    <3>3. \A s \in Session, j \in Seats : at'[s] = j /\ conn'[s] = "up" => seats'[j].sess = s
      BY <1>1, <1>2, <1>3, <2>1, <2>3, <3>1, <3>2
    <3> QED
      BY <3>3, GhostFree
  <2> QED
    BY <1>5, <2>2, <2>3, JoinEffect
<1>6. CASE handleDisconnect(m)
  <2>1. conn[m.sess] = "gone" /\ conn' = conn /\ at' = at
    BY <1>6 DEF handleDisconnect, NoticesOfTheGone, sockets
  <2>2. \A j \in Seats : seats'[j].sess = seats[j].sess \/ seats[j].sess = m.sess
    BY <1>6, DisconnectEffect
  <2>3. \A s \in Session, i \in Seats : at'[s] = i /\ conn'[s] = "up" => seats'[i].sess = s
    BY <1>2, <2>1, <2>2
  <2> QED
    BY <2>3, GhostFree
<1>7. CASE handleResume(m)
  <2>1. CASE UNCHANGED <<seats, sockets>>
    <3>1. seats' = seats /\ at' = at /\ conn' = conn
      BY <2>1 DEF sockets
    <3> QED
      BY <1>2, <3>1 DEF NoGhostSeat
  <2>2. CASE ~UNCHANGED <<seats, sockets>>
    <3>1. /\ m.player \in Seats /\ m.prior \in Session /\ m.type = "resume"
          /\ m.prior # m.sess
      BY <1>7 DEF handleResume, SeatInv, RoomTypes, Input, ConnInv, ResumesAreFirst
    <3>2. /\ seats[m.player].sess \in {m.prior, None}
          /\ at' = [at EXCEPT ![m.sess] = m.player]
          /\ conn' = [conn EXCEPT ![m.prior] = IF @ = "up" THEN "down" ELSE @]
          /\ conn[m.sess] = "up" => seats'[m.player].sess = m.sess
          /\ \A j \in Seats \ {m.player} : seats'[j].sess = seats[j].sess
      BY <1>7, <2>2, ResumeEffect
    <3>3. /\ at'[m.sess] = m.player
          /\ \A s \in Session : s # m.sess => at'[s] = at[s]
          /\ \A s \in Session : conn'[s] = "up" => conn[s] = "up" /\ s # m.prior
      BY <1>1, <3>1, <3>2 DEF SeatInv, RoomTypes
    <3>4. \A s \in Session, i \in Seats : at'[s] = i /\ conn'[s] = "up" => seats'[i].sess = s
      BY <1>1, <1>2, <3>1, <3>2, <3>3
    <3> QED
      BY <3>4, GhostFree
  <2> QED
    BY <2>1, <2>2
<1> QED
  BY <1>4, <1>5, <1>6, <1>7

\* Where no other room seats this room's connections, a live one that believes it has
\* a seat has it: neither a resume, a join, a kick, a grace window nor the end of the
\* game leaves it writing to a seat that is somebody else's.  (With other rooms it can:
\* a notice from attach, delayed until the connection sits here again, finds it there.
\* MCRoomNotice.cfg has TLC find that.)
THEOREM NoGhostSeatAlways ==
    ASSUME Roaming = {}
    PROVE  Spec => []NoGhostSeat
<1>1. Init => NoGhostSeat /\ NoticesOfTheGone
  <2> SUFFICES ASSUME Init PROVE NoGhostSeat /\ NoticesOfTheGone
    OBVIOUS
  <2>1. \A s \in Session : at[s] = 0
    BY DEF Init
  <2>2. \A m \in inputs : m.type # "disconnect"
    BY DEF Init, Create, Join
  <2> QED
    BY <2>1, <2>2 DEF NoGhostSeat, NoticesOfTheGone
<1>2. /\ SeatInv /\ SeatInv' /\ ConnInv /\ NoGhostSeat /\ NoticesOfTheGone /\ [Next]_vars
      => NoGhostSeat' /\ NoticesOfTheGone'
  <2> SUFFICES ASSUME SeatInv, SeatInv', ConnInv, NoGhostSeat, NoticesOfTheGone, [Next]_vars
               PROVE  NoGhostSeat'
    BY NoticesStep
  <2>1. CASE ~running
    BY <2>1, ReturnedForGood DEF NoGhostSeat
  <2>2. ASSUME running, handleInput
        PROVE  NoGhostSeat'
    BY <2>2, InputGhost DEF handleInput
  <2>3. \A s \in Session, i \in Seats : running /\ at[s] = i /\ conn[s] = "up" => seats[i].sess = s
    BY DEF NoGhostSeat, Seats
  <2>4. ASSUME running, NEW t \in Session,
               handleHello(t) \/ joinRoom(t) \/ leaveRoom(t) \/ close(t) \/ expireToken(t)
        PROVE  NoGhostSeat'
    <3>1. /\ seats' = seats /\ at' = at
          /\ \A s \in Session : conn'[s] = "up" => conn[s] = "up" \/ conn[s] = "new"
      BY <2>4 DEF handleHello, joinRoom, leaveRoom, close, expireToken, sockets, SeatInv, RoomTypes
    <3>2. \A s \in Session : conn[s] = "new" => at[s] = 0
      BY DEF ConnInv, NewIsNowhere
    <3>3. \A s \in Session, i \in Seats : at'[s] = i /\ conn'[s] = "up" => seats'[i].sess = s
      BY <2>3, <2>4, <3>1, <3>2 DEF Seats
    <3> QED
      BY <3>3, GhostFree
  <2>7. ASSUME running, pairingJoins
        PROVE  NoGhostSeat'
    BY <2>7 DEF pairingJoins, sockets, NoGhostSeat
  <2>5. ASSUME running, Thinning
        PROVE  NoGhostSeat'
    <3>1. \A s \in Session, i \in Seats : at'[s] = i /\ conn'[s] = "up" => seats'[i].sess = s
      <4> SUFFICES ASSUME NEW s \in Session, NEW i \in Seats, at'[s] = i, conn'[s] = "up"
                   PROVE  seats'[i].sess = s
        OBVIOUS
      <4>1. at[s] = i /\ conn[s] = "up" /\ i # 0 /\ s # None
        BY <2>5, RoomAssumption DEF Thinning, Seats
      <4>2. seats[i].sess = s
        BY <2>3, <2>5, <4>1
      <4> QED
        BY <2>5, <4>1, <4>2 DEF Thinning
    <3> QED
      BY <3>1, GhostFree
  <2>6. \A s \in Session : ~attachElsewhere(s)
    BY DEF attachElsewhere
  <2> QED
    BY <2>1, <2>2, <2>4, <2>5, <2>6, <2>7, OtherStepsThin DEF ConnStep
<1> QED
  BY <1>1, <1>2, SeatInvariance, ConnInvariance, PTL DEF Spec
=============================================================================
