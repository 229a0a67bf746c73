----------------------------- MODULE ConnProofs ------------------------------
(***************************************************************************)
(* The connection slots add up for any number of requests, any addresses   *)
(* and any caps.  SlotsInv adds to SlotsAddUp that the handlers past the   *)
(* server's cap are within it: a handler that is refused is counted, so    *)
(* `conns` alone may exceed the cap and does not bound the served ones.    *)
(*                                                                         *)
(* A handler that serves a session is a handler: what Conn does to the     *)
(* counters is what Slots says, so SlotsAddUp holds whatever the session   *)
(* and its peer do.  And the session that is served, for an outbox of any  *)
(* size, any number of frames and of missed pings: MissedMeansClosing and  *)
(* LastWordsArrive, from one invariant about what the server still has for *)
(* the peer.                                                               *)
(***************************************************************************)
EXTENDS Conn, FiniteSetTheorems, SequenceTheorems, TLAPS

\* The handlers that are counted, and those that the server's cap has let pass.
Counted == {h \in Handler : stage[h] # "away"}
Passed == {h \in Handler : stage[h] \in {"counted", "upgrading", "serving", "releasing"}}

SlotTypes ==
    /\ stage \in [Handler -> Stage]
    /\ maxConns \in Nat \ {0}
    /\ conns \in Int
    /\ connsByIP \in [Address -> Int]

AddressesAddUp ==
    MaxPerAddress > 0 =>
        \A a \in Address : /\ connsByIP[a] = Cardinality(holding(a))
                           /\ connsByIP[a] <= MaxPerAddress

SlotsInv ==
    /\ SlotTypes
    /\ conns = Cardinality(Counted)
    /\ Cardinality(Passed) <= maxConns
    /\ AddressesAddUp

\* One handler more or less is one unit more or less.
LEMMA OneMore ==
    ASSUME NEW S \in SUBSET Handler, NEW h \in Handler
    PROVE  /\ Cardinality(S) \in Nat
           /\ h \notin S => Cardinality(S \cup {h}) = Cardinality(S) + 1
           /\ h \in S => Cardinality(S \ {h}) = Cardinality(S) - 1
<1>1. IsFiniteSet(S)
  BY CapsAreCounts, FS_Subset
<1> QED
  BY <1>1, FS_CardinalityType, FS_AddElement, FS_RemoveElement

\* A handler in use holds a unit of the server's, and those past its cap are among
\* the counted.
LEMMA PassedAreCounted ==
    /\ Passed \subseteq Counted
    /\ IsFiniteSet(Counted)
    /\ Cardinality(Passed) <= Cardinality(Counted)
<1>1. Passed \subseteq Counted
  BY DEF Passed, Counted
<1>2. IsFiniteSet(Counted)
  BY CapsAreCounts, FS_Subset DEF Counted
<1> QED
  BY <1>1, <1>2, FS_Subset

\* How the sets of handlers change when one handler moves on.
LEMMA OneMoves ==
    ASSUME SlotTypes, NEW h \in Handler, NEW s \in Stage, moveTo(h, s)
    PROVE  /\ stage' \in [Handler -> Stage]
           /\ stage'[h] = s
           /\ \A g \in Handler \ {h} : stage'[g] = stage[g]
           /\ Counted' = IF s = "away" THEN Counted \ {h} ELSE Counted \cup {h}
           /\ Passed' = IF s \in {"counted", "upgrading", "serving", "releasing"}
                        THEN Passed \cup {h} ELSE Passed \ {h}
           /\ \A a \in Address : holding(a)' =
                 IF addressOf(h) = a /\ s \in {"upgrading", "serving", "releasing"}
                 THEN holding(a) \cup {h} ELSE holding(a) \ {h}
<1>1. /\ stage' \in [Handler -> Stage]
      /\ stage'[h] = s
      /\ \A g \in Handler \ {h} : stage'[g] = stage[g]
  BY DEF SlotTypes, moveTo
<1>2. Counted' = IF s = "away" THEN Counted \ {h} ELSE Counted \cup {h}
  BY <1>1 DEF Counted
<1>3. Passed' = IF s \in {"counted", "upgrading", "serving", "releasing"}
                THEN Passed \cup {h} ELSE Passed \ {h}
  BY <1>1 DEF Passed
<1>4. ASSUME NEW a \in Address
      PROVE  holding(a)' = IF addressOf(h) = a /\ s \in {"upgrading", "serving", "releasing"}
                           THEN holding(a) \cup {h} ELSE holding(a) \ {h}
  BY <1>1 DEF holding
<1> QED
  BY <1>1, <1>2, <1>3, <1>4

\* A handler that stays counted, and does not pass the cap in this step, leaves the
\* server's side in order.
LEMMA ServerSideKept ==
    ASSUME SlotsInv, NEW h \in Handler, NEW s \in Stage \ {"away"}, moveTo(h, s),
           stage[h] # "away",
           s \in {"counted", "upgrading", "serving", "releasing"} => h \in Passed,
           UNCHANGED <<maxConns, conns>>
    PROVE  conns' = Cardinality(Counted') /\ Cardinality(Passed') <= maxConns'
<1>1. Counted' = Counted /\ Passed' \in {Passed, Passed \ {h}}
  BY OneMoves DEF SlotsInv, Counted
<1>2. Passed \in SUBSET Handler /\ IsFiniteSet(Passed) /\ Cardinality(Passed) \in Nat
  BY CapsAreCounts, FS_Subset, FS_CardinalityType DEF Passed
<1>3. Cardinality(Passed \ {h}) <= Cardinality(Passed) /\ Cardinality(Passed \ {h}) \in Nat
  <2>1. Passed \ {h} \in SUBSET Passed
    OBVIOUS
  <2> QED
    BY <1>2, <2>1, FS_Subset, FS_CardinalityType
<1> QED
  BY <1>1, <1>2, <1>3 DEF SlotsInv, SlotTypes

\* A handler that neither takes nor gives back a slot of its address leaves the
\* addresses in order.
LEMMA AddressSideKept ==
    ASSUME SlotsInv, NEW h \in Handler, NEW s \in Stage, moveTo(h, s),
           stage[h] \in {"upgrading", "serving", "releasing"}
              <=> s \in {"upgrading", "serving", "releasing"},
           UNCHANGED connsByIP
    PROVE  AddressesAddUp'
<1>1. ASSUME NEW a \in Address
      PROVE  holding(a)' = holding(a)
  <2>1. holding(a)' = IF addressOf(h) = a /\ s \in {"upgrading", "serving", "releasing"}
                      THEN holding(a) \cup {h} ELSE holding(a) \ {h}
    BY OneMoves DEF SlotsInv
  <2>2. h \in holding(a) <=> addressOf(h) = a /\ s \in {"upgrading", "serving", "releasing"}
    BY DEF holding
  <2> HIDE DEF holding
  <2> QED
    BY <2>1, <2>2
<1> QED
  BY <1>1 DEF SlotsInv, AddressesAddUp

\* count: a handler that exceeds the cap is counted and has not passed.
LEMMA CountKeeps ==
    ASSUME SlotsInv, NEW h \in Handler, count(h)
    PROVE  SlotsInv'
<1> DEFINE s == IF conns + 1 > maxConns THEN "uncounting" ELSE "counted"
<1>1. SlotTypes /\ s \in Stage /\ moveTo(h, s) /\ stage[h] = "away"
  BY DEF SlotsInv, count, Stage
<1>2. h \notin Counted /\ h \notin Passed
  BY <1>1 DEF Counted, Passed
<1>3. Counted \in SUBSET Handler /\ Passed \in SUBSET Handler
  BY DEF Counted, Passed
<1>4. conns' = conns + 1 /\ maxConns' = maxConns /\ connsByIP' = connsByIP
  BY DEF count
<1>5. conns' = Cardinality(Counted')
  BY <1>1, <1>2, <1>3, <1>4, OneMoves, OneMore DEF SlotsInv
<1>6. Cardinality(Passed') <= maxConns'
  <2>1. Cardinality(Passed) \in Nat /\ Cardinality(Passed) <= conns
    BY <1>3, PassedAreCounted, OneMore DEF SlotsInv
  <2>2. CASE conns + 1 > maxConns
    BY <1>1, <1>2, <1>4, <2>2, OneMoves DEF SlotsInv
  <2>3. CASE ~(conns + 1 > maxConns)
    <3>1. Passed' = Passed \cup {h}
      BY <1>1, <2>3, OneMoves
    <3>2. Cardinality(Passed') = Cardinality(Passed) + 1
      BY <1>2, <1>3, <3>1, OneMore
    <3> QED
      BY <1>1, <1>4, <2>1, <2>3, <3>2 DEF SlotTypes
  <2> QED
    BY <2>2, <2>3
<1>7. SlotTypes'
  BY <1>1, <1>4, OneMoves DEF SlotTypes
<1>8. AddressesAddUp'
  <2>1. s \notin {"upgrading", "serving", "releasing"}
    OBVIOUS
  <2> HIDE DEF s
  <2> QED
    BY <1>1, <1>4, <2>1, AddressSideKept
<1> QED
  BY <1>5, <1>6, <1>7, <1>8 DEF SlotsInv

\* reserveIP: taken within the cap of the address, or refused.
LEMMA ReserveKeeps ==
    ASSUME SlotsInv, NEW h \in Handler, reserveIP(h)
    PROVE  SlotsInv'
<1> DEFINE b == addressOf(h)
<1>1. /\ SlotTypes /\ b \in Address /\ stage[h] = "counted" /\ h \in Passed
      /\ UNCHANGED <<maxConns, conns>>
  BY DEF SlotsInv, reserveIP, Address, Passed
<1>2. CASE MaxPerAddress > 0 /\ connsByIP[b] >= MaxPerAddress
  <2>1. moveTo(h, "uncounting") /\ UNCHANGED connsByIP /\ "uncounting" \in Stage
    BY <1>2 DEF reserveIP, Stage
  <2>2. AddressesAddUp'
    BY <1>1, <2>1, AddressSideKept
  <2>3. conns' = Cardinality(Counted') /\ Cardinality(Passed') <= maxConns'
    BY <1>1, <2>1, ServerSideKept
  <2>4. SlotTypes'
    BY <1>1, <2>1, OneMoves DEF SlotTypes
  <2> QED
    BY <2>2, <2>3, <2>4 DEF SlotsInv
<1>3. CASE ~(MaxPerAddress > 0 /\ connsByIP[b] >= MaxPerAddress)
  <2>1. moveTo(h, "upgrading") /\ "upgrading" \in Stage
    BY <1>3 DEF reserveIP, Stage
  <2>2. connsByIP' = IF MaxPerAddress = 0 THEN connsByIP
                     ELSE [connsByIP EXCEPT ![b] = @ + 1]
    BY <1>3 DEF reserveIP
  <2>3. conns' = Cardinality(Counted') /\ Cardinality(Passed') <= maxConns'
    BY <1>1, <2>1, ServerSideKept
  <2>4. SlotTypes'
    BY <1>1, <2>1, <2>2, OneMoves DEF SlotTypes
  <2>5. ASSUME MaxPerAddress > 0, NEW a \in Address
        PROVE  connsByIP'[a] = Cardinality(holding(a)') /\ connsByIP'[a] <= MaxPerAddress
    <3>1. /\ connsByIP[a] = Cardinality(holding(a)) /\ connsByIP[a] <= MaxPerAddress
          /\ connsByIP[a] \in Int
      BY <1>1, <2>5 DEF SlotsInv, AddressesAddUp, SlotTypes
    <3>2. h \notin holding(a) /\ holding(a) \in SUBSET Handler
      BY <1>1 DEF holding
    <3>3. CASE a = b
      <4>1. holding(a)' = holding(a) \cup {h}
        BY <1>1, <2>1, <3>3, OneMoves
      <4>2. Cardinality(holding(a)') = Cardinality(holding(a)) + 1
        BY <3>2, <4>1, OneMore
      <4>3. connsByIP'[a] = connsByIP[a] + 1
        BY <1>1, <2>2, <2>5, <3>3, CapsAreCounts DEF SlotTypes
      <4> QED
        BY <1>3, <2>5, <3>1, <3>3, <4>2, <4>3, CapsAreCounts
    <3>4. CASE a # b
      <4>1. holding(a)' = holding(a)
        BY <1>1, <2>1, <3>2, <3>4, OneMoves
      <4>2. connsByIP'[a] = connsByIP[a]
        BY <1>1, <2>2, <3>4 DEF SlotTypes
      <4> QED
        BY <3>1, <4>1, <4>2
    <3> QED
      BY <3>3, <3>4
  <2> QED
    BY <2>3, <2>4, <2>5 DEF SlotsInv, AddressesAddUp
<1> QED
  BY <1>2, <1>3

\* upgrade, rejected, served: the handler goes on with what it holds.
LEMMA GoingOnKeeps ==
    ASSUME SlotsInv, NEW h \in Handler, upgrade(h) \/ rejected(h) \/ served(h)
    PROVE  SlotsInv'
<1>1. /\ SlotTypes /\ stage[h] \in {"upgrading", "serving"} /\ h \in Passed
      /\ UNCHANGED <<maxConns, conns, connsByIP>>
  BY DEF SlotsInv, upgrade, rejected, served, Passed
<1>2. PICK s \in {"serving", "releasing"} : moveTo(h, s)
  BY DEF upgrade, rejected, served
<1>3. s \in Stage \ {"away"}
  BY DEF Stage
<1>4. AddressesAddUp'
  BY <1>1, <1>2, <1>3, AddressSideKept
<1>5. conns' = Cardinality(Counted') /\ Cardinality(Passed') <= maxConns'
  BY <1>1, <1>2, <1>3, ServerSideKept
<1>6. SlotTypes'
  BY <1>1, <1>2, <1>3, OneMoves DEF SlotTypes
<1> QED
  BY <1>4, <1>5, <1>6 DEF SlotsInv

\* releaseIP: the slot of the address is given back.
LEMMA ReleaseKeeps ==
    ASSUME SlotsInv, NEW h \in Handler, releaseIP(h)
    PROVE  SlotsInv'
<1> DEFINE b == addressOf(h)
<1>1. /\ SlotTypes /\ b \in Address /\ stage[h] = "releasing" /\ h \in Passed
      /\ UNCHANGED <<maxConns, conns>>
      /\ moveTo(h, "uncounting") /\ "uncounting" \in Stage
  BY DEF SlotsInv, releaseIP, Address, Passed, Stage
<1>2. connsByIP' = IF MaxPerAddress = 0 THEN connsByIP
                   ELSE [connsByIP EXCEPT ![b] = @ - 1]
  BY DEF releaseIP
<1>3. conns' = Cardinality(Counted') /\ Cardinality(Passed') <= maxConns'
  BY <1>1, ServerSideKept
<1>4. SlotTypes'
  BY <1>1, <1>2, OneMoves DEF SlotTypes
<1>5. ASSUME MaxPerAddress > 0, NEW a \in Address
      PROVE  connsByIP'[a] = Cardinality(holding(a)') /\ connsByIP'[a] <= MaxPerAddress
  <2>1. /\ connsByIP[a] = Cardinality(holding(a)) /\ connsByIP[a] <= MaxPerAddress
        /\ connsByIP[a] \in Int
    BY <1>1, <1>5 DEF SlotsInv, AddressesAddUp, SlotTypes
  <2>2. holding(a) \in SUBSET Handler /\ holding(a)' = holding(a) \ {h}
    BY <1>1, OneMoves DEF holding
  <2>3. CASE a = b
    <3>1. h \in holding(a)
      BY <1>1, <2>3 DEF holding
    <3>2. Cardinality(holding(a)') = Cardinality(holding(a)) - 1
      BY <2>2, <3>1, OneMore
    <3>3. connsByIP'[a] = connsByIP[a] - 1
      BY <1>1, <1>2, <1>5, <2>3, CapsAreCounts DEF SlotTypes
    <3> QED
      BY <2>1, <3>2, <3>3, CapsAreCounts
  <2>4. CASE a # b
    <3>1. h \notin holding(a)
      BY <2>4 DEF holding
    <3>2. connsByIP'[a] = connsByIP[a]
      BY <1>1, <1>2, <2>4 DEF SlotTypes
    <3> QED
      BY <2>1, <2>2, <3>1, <3>2
  <2> QED
    BY <2>3, <2>4
<1> QED
  BY <1>3, <1>4, <1>5 DEF SlotsInv, AddressesAddUp

\* uncount: the unit of the server is given back, last of all.
LEMMA UncountKeeps ==
    ASSUME SlotsInv, NEW h \in Handler, uncount(h)
    PROVE  SlotsInv'
<1>1. /\ SlotTypes /\ stage[h] = "uncounting" /\ conns' = conns - 1
      /\ UNCHANGED <<maxConns, connsByIP>>
      /\ moveTo(h, "away") /\ "away" \in Stage
  BY DEF SlotsInv, uncount, Stage
<1>2. h \in Counted /\ h \notin Passed /\ Counted \in SUBSET Handler
  BY <1>1 DEF Counted, Passed
<1>3. Counted' = Counted \ {h} /\ Passed' = Passed
  BY <1>1, <1>2, OneMoves
<1>4. conns' = Cardinality(Counted')
  BY <1>1, <1>2, <1>3, OneMore DEF SlotsInv
<1>5. AddressesAddUp'
  BY <1>1, AddressSideKept
<1>6. SlotTypes'
  BY <1>1, OneMoves DEF SlotTypes
<1> QED
  BY <1>1, <1>3, <1>4, <1>5, <1>6 DEF SlotsInv

\* The counters agree with the handlers in every reachable state.
THEOREM SlotsInvariance == SlotsSpec => []SlotsInv
<1>1. SlotsInit => SlotsInv
  <2> SUFFICES ASSUME SlotsInit PROVE SlotsInv
    OBVIOUS
  <2>1. Counted = {} /\ Passed = {} /\ \A a \in Address : holding(a) = {}
    BY DEF SlotsInit, Counted, Passed, holding
  <2>2. SlotTypes
    BY CapsAreCounts DEF SlotsInit, SlotTypes, Stage
  <2>3. AddressesAddUp
    BY <2>1, CapsAreCounts, FS_EmptySet DEF SlotsInit, AddressesAddUp
  <2>4. conns = Cardinality(Counted) /\ Cardinality(Passed) <= maxConns
    BY <2>1, <2>2, FS_EmptySet DEF SlotsInit, SlotTypes
  <2> QED
    BY <2>2, <2>3, <2>4 DEF SlotsInv
<1>2. SlotsInv /\ [SlotsNext]_slotVars => SlotsInv'
  <2>1. SlotsInv /\ UNCHANGED slotVars => SlotsInv'
    BY DEF SlotsInv, SlotTypes, AddressesAddUp, Counted, Passed, holding, slotVars
  <2> QED
    BY <2>1, CountKeeps, ReserveKeeps, GoingOnKeeps, ReleaseKeeps, UncountKeeps DEF SlotsNext
<1> QED
  BY <1>1, <1>2, PTL DEF SlotsSpec

\* Every slot is accounted for, and neither cap is exceeded by sockets being served,
\* whatever requests come and however their counting interleaves.
THEOREM SlotsAddUpAlways == SlotsSpec => []SlotsAddUp
<1>1. SlotsInv => SlotsAddUp
  <2> SUFFICES ASSUME SlotsInv PROVE SlotsAddUp
    OBVIOUS
  <2> DEFINE Serving == {h \in Handler : stage[h] = "serving"}
  <2>1. Serving \in SUBSET Passed /\ IsFiniteSet(Passed)
    BY CapsAreCounts, FS_Subset DEF Passed
  <2>2. Cardinality(Serving) <= Cardinality(Passed)
    BY <2>1, FS_Subset
  <2>3. Cardinality(Serving) \in Nat /\ Cardinality(Passed) \in Nat
    BY <2>1, FS_Subset, FS_CardinalityType
  <2>4. Cardinality(Serving) <= maxConns
    BY <2>2, <2>3 DEF SlotsInv, SlotTypes
  <2> QED
    BY <2>4 DEF SlotsInv, SlotsAddUp, AddressesAddUp, Counted
<1> QED
  BY <1>1, SlotsInvariance, PTL

----------------------------------------------------------------------------
(***************************************************************************)
(* A connection's slots.                                                   *)
(***************************************************************************)

\* Every step of a connection is a step of its slots, or leaves them alone.
LEMMA StepsAreSlotSteps == Next => [SlotsNext]_slotVars
<1> SUFFICES ASSUME Next PROVE [SlotsNext]_slotVars
  OBVIOUS
<1>1. ASSUME NEW h \in Handler, request(h)
      PROVE  SlotsNext
  BY <1>1 DEF request, SlotsNext
<1>2. CASE starts
  BY <1>2, FocusIsAHandler DEF starts, SlotsNext
<1>3. CASE ends
  BY <1>3, FocusIsAHandler DEF ends, SlotsNext
<1>4. CASE serves
  BY <1>4 DEF serves
<1> QED
  BY <1>1, <1>2, <1>3, <1>4 DEF Next

\* handleWS with a session inside it implements the slots alone.
THEOREM ConnImplementsSlots == Spec => SlotsSpec
<1>1. Init => SlotsInit
  BY DEF Init
<1>2. [Next]_vars => [SlotsNext]_slotVars
  <2>1. UNCHANGED vars => UNCHANGED slotVars
    BY DEF vars
  <2> QED
    BY <2>1, StepsAreSlotSteps
<1> QED
  BY <1>1, <1>2, PTL DEF Spec, SlotsSpec

\* The counters are exact and the caps hold, whatever a session, its peer and the
\* rooms do while it is served.
THEOREM ConnSlotsAddUp == Spec => []SlotsAddUp
BY ConnImplementsSlots, SlotsAddUpAlways, PTL

----------------------------------------------------------------------------
(***************************************************************************)
(* The session that is served.  SessionInv is about what the server still  *)
(* has for the peer: it is in order; while the context is live, and no     *)
(* sender is about to cancel it, it is everything the peer does not have;  *)
(* once it is cancelled, at least what was queued before.                  *)
(***************************************************************************)
Frame == [1..2 -> {"game", "chat", "refusal"} \cup Nat]
GameFrame(f) == f[1] = "game"

\* The goroutines and the socket.
Workings ==
    /\ out \in Seq(Frame)
    /\ held = <<>> \/ held \in Frame
    /\ held # <<>> <=> writer \in {"writing", "draining"}
    /\ writer \in {"drain", "draining", "done"} => ctx = "done"
    /\ peer = "reading" /\ writer # "done" => socket = "open"
    /\ reader = "over" => writer = "done"
    /\ games \in Nat
    /\ closing \in BOOLEAN

\* The game frames in box are newer than the one the peer received last, and in order.
InOrder(box, g, sent) ==
    /\ g \in Nat /\ g <= sent
    /\ \A i \in DOMAIN box : GameFrame(box[i]) =>
          /\ box[i][2] \in g + 1 .. sent
          /\ \A j \in DOMAIN box : i < j /\ GameFrame(box[j]) => box[i][2] < box[j][2]

\* And none of those that are newer is missing.
Whole(box, g, sent) == \A n \in g + 1 .. sent : \E i \in DOMAIN box : box[i] = game(n)

\* A prefix.
Leads(x, y) == Len(x) <= Len(y) /\ \A i \in 1..Len(x) : x[i] = y[i]

NothingIsOwed ==
    /\ owed \in Seq(Frame)
    /\ Leads(owed, pending)
    /\ ctx = "live" /\ peer = "reading" => owed = pending
    /\ peer # "reading" \/ writer = "done" => owed = <<>>

SessionInv ==
    /\ Workings
    /\ InOrder(pending, got, games)
    /\ ctx = "live" /\ ~closing => Whole(pending, got, games)
    /\ NothingIsOwed

\* A frame of each kind.
LEMMA FramesAre ==
    /\ chat \in Frame /\ refusal \in Frame /\ ~GameFrame(chat) /\ ~GameFrame(refusal)
    /\ \A n \in Nat : game(n) \in Frame /\ GameFrame(game(n)) /\ game(n)[2] = n
BY DEF Frame, chat, refusal, game, GameFrame

\* What is pending, as the writer holds a frame or none.
LEMMA PendingIs ==
    ASSUME NEW h, NEW q \in Seq(Frame), h = <<>> \/ h \in Frame
    PROVE  LET p == (IF h = <<>> THEN <<>> ELSE <<h>>) \o q
           IN  /\ p \in Seq(Frame)
               /\ h = <<>> => p = q
               /\ h # <<>> => p # <<>> /\ Head(p) = h /\ Tail(p) = q
               /\ \A f \in Frame : (IF h = <<>> THEN <<>> ELSE <<h>>) \o Append(q, f) = Append(p, f)
<1>1. CASE h = <<>>
  <2>1. <<>> \o q = q
    BY ConcatEmptySeq
  <2>2. \A f \in Frame : <<>> \o Append(q, f) = Append(q, f)
    BY ConcatEmptySeq, AppendProperties
  <2> QED
    BY <1>1, <2>1, <2>2
<1>2. CASE h # <<>>
  <2>1. <<h>> \in Seq(Frame) /\ Len(<<h>>) = 1 /\ <<h>>[1] = h
    BY <1>2
  <2> DEFINE p == <<h>> \o q
  <2>2. p \in Seq(Frame) /\ Len(p) = 1 + Len(q)
    BY <2>1
  <2>3. p # <<>> /\ Head(p) = h
    BY <2>1, <2>2
  <2>4. Tail(p) = q
    <3>1. Len(Tail(p)) = Len(q) /\ Tail(p) \in Seq(Frame)
      BY <2>2, <2>3, HeadTailProperties
    <3>2. \A i \in 1..Len(q) : Tail(p)[i] = q[i]
      BY <2>1, <2>2, <2>3
    <3> QED
      BY <3>1, <3>2, SeqEqual
  <2>5. ASSUME NEW f \in Frame
        PROVE  <<h>> \o Append(q, f) = Append(p, f)
    BY <2>1
  <2> HIDE DEF p
  <2>6. QED
    BY <1>2, <2>2, <2>3, <2>4, <2>5 DEF p
<1> QED
  BY <1>1, <1>2

\* What is behind the head of a list.
LEMMA BehindTheHead ==
    ASSUME NEW box \in Seq(Frame), box # <<>>
    PROVE  /\ Tail(box) \in Seq(Frame) /\ Head(box) \in Frame /\ Head(box) = box[1]
           /\ Len(Tail(box)) = Len(box) - 1 /\ Len(box) \in Nat \ {0}
           /\ 1 \in DOMAIN box
           /\ \A i \in DOMAIN Tail(box) : i + 1 \in DOMAIN box /\ Tail(box)[i] = box[i + 1] /\ i \in Nat \ {0}
           /\ \A i \in DOMAIN box : i # 1 => i - 1 \in DOMAIN Tail(box) /\ i \in Nat
<1>1. /\ Tail(box) \in Seq(Frame) /\ Head(box) \in Frame
      /\ Len(Tail(box)) = Len(box) - 1
      /\ \A i \in 1 .. Len(Tail(box)) : Tail(box)[i] = box[i + 1]
  BY HeadTailProperties
<1>2. Head(box) = box[1] /\ Len(box) \in Nat \ {0}
  <2>1. Len(box) = 0 => box = <<>>
    BY EmptySeq
  <2> QED
    BY <2>1
<1>3. DOMAIN box = 1 .. Len(box) /\ DOMAIN Tail(box) = 1 .. Len(box) - 1
  BY <1>1
<1> QED
  BY <1>1, <1>2, <1>3

\* What is put behind a list.
LEMMA BehindTheLast ==
    ASSUME NEW box \in Seq(Frame), NEW f \in Frame
    PROVE  /\ Append(box, f) \in Seq(Frame) /\ Len(box) \in Nat
           /\ Len(box) + 1 \in DOMAIN Append(box, f) /\ Append(box, f)[Len(box) + 1] = f
           /\ \A i \in DOMAIN box : i \in DOMAIN Append(box, f) /\ Append(box, f)[i] = box[i]
           /\ \A i \in DOMAIN Append(box, f) : i \in DOMAIN box \/ i = Len(box) + 1
           /\ \A i \in DOMAIN box : i \in Nat /\ i <= Len(box)
<1>1. /\ Append(box, f) \in Seq(Frame) /\ Len(Append(box, f)) = Len(box) + 1
      /\ \A i \in 1 .. Len(box) : Append(box, f)[i] = box[i]
      /\ Append(box, f)[Len(box) + 1] = f
  BY AppendProperties
<1>2. DOMAIN box = 1 .. Len(box) /\ DOMAIN Append(box, f) = 1 .. Len(box) + 1 /\ Len(box) \in Nat
  BY <1>1
<1> QED
  BY <1>1, <1>2

\* A game frame that is queued is the last of them; anything else changes nothing.
LEMMA OrderGrows ==
    ASSUME NEW box \in Seq(Frame), NEW g \in Nat, NEW sent \in Nat, InOrder(box, g, sent)
    PROVE  /\ InOrder(box, g, sent + 1)
           /\ InOrder(Append(box, game(sent + 1)), g, sent + 1)
           /\ \A f \in Frame : ~GameFrame(f) => InOrder(Append(box, f), g, sent)
<1>1. ASSUME NEW f \in Frame, ~GameFrame(f)
      PROVE  InOrder(Append(box, f), g, sent)
  <2> DEFINE more == Append(box, f)
  <2>1. \A i \in DOMAIN more : GameFrame(more[i]) => i \in DOMAIN box /\ more[i] = box[i]
    BY <1>1, BehindTheLast
  <2> HIDE DEF more
  <2>2. InOrder(more, g, sent)
    BY <2>1 DEF InOrder
  <2> QED
    BY <2>2 DEF more
<1>2. InOrder(Append(box, game(sent + 1)), g, sent + 1)
  <2> DEFINE f == game(sent + 1)
             more == Append(box, f)
             last == Len(box) + 1
  <2>1. f \in Frame /\ GameFrame(f) /\ f[2] = sent + 1
    BY FramesAre
  <2>2. /\ last \in DOMAIN more /\ more[last] = f /\ last \in Nat
        /\ \A i \in DOMAIN box : i \in DOMAIN more /\ more[i] = box[i] /\ i \in Nat /\ i < last
        /\ \A i \in DOMAIN more : i \in DOMAIN box \/ i = last
    BY <2>1, BehindTheLast
  <2> HIDE DEF more, last, f
  <2>4. ASSUME NEW i \in DOMAIN more, GameFrame(more[i])
        PROVE  /\ more[i][2] \in g + 1 .. sent + 1
               /\ \A j \in DOMAIN more : i < j /\ GameFrame(more[j]) => more[i][2] < more[j][2]
    <3>1. CASE i = last
      BY <2>1, <2>2, <3>1 DEF InOrder
    <3>2. CASE i \in DOMAIN box
      <4>1. more[i][2] \in g + 1 .. sent
        BY <2>2, <2>4, <3>2 DEF InOrder
      <4>2. ASSUME NEW j \in DOMAIN more, i < j, GameFrame(more[j])
            PROVE  more[i][2] < more[j][2]
        <5>1. CASE j \in DOMAIN box
          BY <2>2, <2>4, <3>2, <4>2, <5>1 DEF InOrder
        <5>2. CASE j = last
          BY <2>1, <2>2, <4>1, <5>2
        <5> QED
          BY <2>2, <5>1, <5>2
      <4> QED
        BY <4>1, <4>2
    <3> QED
      BY <2>2, <3>1, <3>2
  <2>5. InOrder(more, g, sent + 1)
    BY <2>4 DEF InOrder
  <2> QED
    BY <2>5 DEF more, f
<1>3. InOrder(box, g, sent + 1)
  BY DEF InOrder
<1> QED
  BY <1>1, <1>2, <1>3

\* What was not missing is not when a frame is queued behind, the game frame just sent
\* among them.
LEMMA WholeGrows ==
    ASSUME NEW box \in Seq(Frame), NEW g \in Nat, NEW sent \in Nat, Whole(box, g, sent)
    PROVE  /\ Whole(Append(box, game(sent + 1)), g, sent + 1)
           /\ \A f \in Frame : Whole(Append(box, f), g, sent)
<1>1. ASSUME NEW f \in Frame
      PROVE  Whole(Append(box, f), g, sent)
  BY BehindTheLast DEF Whole
<1>2. ASSUME NEW n \in g + 1 .. sent + 1
      PROVE  \E i \in DOMAIN Append(box, game(sent + 1)) : Append(box, game(sent + 1))[i] = game(n)
  <2>1. game(sent + 1) \in Frame
    BY FramesAre
  <2>2. CASE n \in g + 1 .. sent
    BY <1>1, <2>1, <2>2 DEF Whole
  <2>3. CASE n = sent + 1
    BY <2>1, <2>3, BehindTheLast
  <2> QED
    BY <1>2, <2>2, <2>3
<1> QED
  BY <1>1, <1>2 DEF Whole

\* A frame that leaves the head, whether it arrives or is lost with the socket: what is
\* behind it is newer, and if nothing was missing only it is.
LEMMA HeadLeaves ==
    ASSUME NEW box \in Seq(Frame), NEW g \in Nat, NEW sent \in Nat, InOrder(box, g, sent),
           box # <<>>
    PROVE  LET last == IF GameFrame(Head(box)) THEN Head(box)[2] ELSE g
           IN  /\ InOrder(Tail(box), last, sent)
               /\ InOrder(Tail(box), g, sent)
               /\ Whole(box, g, sent) => Whole(Tail(box), last, sent)
<1> DEFINE rest == Tail(box)
           h == Head(box)
           got2 == IF GameFrame(h) THEN h[2] ELSE g
<1>1. /\ h = box[1] /\ 1 \in DOMAIN box
      /\ \A i \in DOMAIN rest : i + 1 \in DOMAIN box /\ rest[i] = box[i + 1] /\ i \in Nat \ {0}
      /\ \A i \in DOMAIN box : i # 1 => i - 1 \in DOMAIN rest /\ i \in Nat
  BY BehindTheHead
<1> HIDE DEF rest, h
<1>2. ASSUME NEW i \in DOMAIN box, i # 1
      PROVE  \E j \in DOMAIN rest : rest[j] = box[i]
  <2>1. i - 1 \in DOMAIN rest /\ i \in Nat
    BY <1>1, <1>2
  <2>2. rest[i - 1] = box[(i - 1) + 1] /\ (i - 1) + 1 = i
    BY <1>1, <2>1
  <2> QED
    BY <2>1, <2>2
<1>3. GameFrame(h) => h[2] \in g + 1 .. sent
  BY <1>1 DEF InOrder
<1>4. got2 <= sent /\ got2 \in Nat /\ g <= got2
  BY <1>3 DEF InOrder
<1>5. ASSUME Whole(box, g, sent), NEW n \in got2 + 1 .. sent
      PROVE  \E j \in DOMAIN rest : rest[j] = game(n)
  <2>1. n \in g + 1 .. sent /\ n \in Nat
    BY <1>4, <1>5
  <2>2. PICK i \in DOMAIN box : box[i] = game(n)
    BY <1>5, <2>1 DEF Whole
  <2>3. GameFrame(box[i]) /\ box[i][2] = n
    BY <2>1, <2>2, FramesAre
  <2>4. i # 1
    BY <1>1, <1>5, <2>3, <1>4
  <2> QED
    BY <1>2, <2>2, <2>4
<1>6. ASSUME NEW i \in DOMAIN rest, GameFrame(rest[i])
      PROVE  /\ rest[i][2] \in got2 + 1 .. sent
             /\ \A j \in DOMAIN rest : i < j /\ GameFrame(rest[j]) => rest[i][2] < rest[j][2]
  <2>1. i + 1 \in DOMAIN box /\ rest[i] = box[i + 1] /\ 1 < i + 1
    BY <1>1
  <2>2. rest[i][2] \in g + 1 .. sent
    BY <1>6, <2>1 DEF InOrder
  <2>3. GameFrame(h) => h[2] < rest[i][2]
    BY <1>1, <1>6, <2>1 DEF InOrder
  <2>4. rest[i][2] \in got2 + 1 .. sent
    BY <1>3, <2>2, <2>3
  <2>5. ASSUME NEW j \in DOMAIN rest, i < j, GameFrame(rest[j])
        PROVE  rest[i][2] < rest[j][2]
    <3>1. j + 1 \in DOMAIN box /\ rest[j] = box[j + 1] /\ i + 1 < j + 1
      BY <1>1, <2>5
    <3> QED
      BY <1>6, <2>1, <2>5, <3>1 DEF InOrder
  <2> QED
    BY <2>4, <2>5
<1> HIDE DEF got2
<1>7. InOrder(rest, got2, sent)
  BY <1>4, <1>6 DEF InOrder
<1>8. InOrder(rest, g, sent)
  <2>1. g \in Nat /\ g <= sent
    BY DEF InOrder
  <2>2. ASSUME NEW k \in got2 + 1 .. sent
        PROVE  k \in g + 1 .. sent
    BY <1>4, <2>2
  <2> QED
    BY <1>6, <2>1, <2>2 DEF InOrder
<1>9. Whole(box, g, sent) => Whole(rest, got2, sent)
  BY <1>5 DEF Whole
<1> QED
  BY <1>7, <1>8, <1>9 DEF rest, got2, h

\* A prefix stays one.
LEMMA LeadsOn ==
    ASSUME NEW x \in Seq(Frame), NEW y \in Seq(Frame), Leads(x, y)
    PROVE  /\ \A f \in Frame : Leads(x, Append(y, f))
           /\ x # <<>> => y # <<>> /\ Leads(Tail(x), Tail(y))
           /\ y = <<>> => x = <<>>
           /\ x = <<>> => \A z \in Seq(Frame) : Leads(x, z)
<1>1. ASSUME NEW f \in Frame
      PROVE  Leads(x, Append(y, f))
  BY AppendProperties DEF Leads
<1>2. ASSUME x # <<>>
      PROVE  y # <<>> /\ Leads(Tail(x), Tail(y))
  <2>1. Len(x) \in Nat \ {0} /\ Len(y) \in Nat
    BY <1>2, BehindTheHead
  <2>2. y # <<>>
    <3>1. Len(<<>>) = 0
      OBVIOUS
    <3>2. y = <<>> => Len(y) = 0
      BY <3>1, Zenon
    <3> QED
      BY <2>1, <3>2 DEF Leads
  <2>3. /\ Len(Tail(x)) = Len(x) - 1 /\ Len(Tail(y)) = Len(y) - 1
        /\ \A i \in 1 .. Len(Tail(x)) : Tail(x)[i] = x[i + 1]
        /\ \A i \in 1 .. Len(Tail(y)) : Tail(y)[i] = y[i + 1]
    BY <1>2, <2>2, HeadTailProperties
  <2>4. \A i \in 1 .. Len(Tail(x)) : i \in 1 .. Len(Tail(y)) /\ i + 1 \in 1 .. Len(x)
    BY <2>1, <2>3 DEF Leads
  <2>5. \A i \in 1 .. Len(Tail(x)) : Tail(x)[i] = Tail(y)[i]
    BY <2>3, <2>4 DEF Leads
  <2> QED
    BY <2>1, <2>2, <2>3, <2>5 DEF Leads
<1>3. y = <<>> => x = <<>>
  BY <1>2
<1>4. ASSUME x = <<>>, NEW z \in Seq(Frame)
      PROVE  Leads(x, z)
  BY <1>4 DEF Leads
<1> QED
  BY <1>1, <1>2, <1>3, <1>4

\* A frame queued, refused or dropped: what is pending grows by it at most, and what is
\* owed grows with it while the connection is live and its peer reads.
LEMMA TakeFacts ==
    ASSUME Workings, NothingIsOwed, NEW f \in Frame, NEW outcome \in outcomes, take(f, outcome),
           held' = held
    PROVE  /\ out' \in Seq(Frame) /\ owed' \in Seq(Frame) /\ pending \in Seq(Frame)
           /\ outcome = "queued" => pending' = Append(pending, f)
           /\ outcome # "queued" => pending' = pending /\ owed' = owed
           /\ Leads(owed', pending')
           /\ ctx = "live" /\ peer = "reading" => owed' = pending'
           /\ peer # "reading" \/ ctx = "done" => owed' = owed
           /\ ctx = "live" /\ outcome # "queued" => outcome = "full"
<1>1. /\ pending \in Seq(Frame) /\ out \in Seq(Frame) /\ owed \in Seq(Frame)
      /\ (IF held = <<>> THEN <<>> ELSE <<held>>) \o Append(out, f) = Append(pending, f)
  BY PendingIs DEF Workings, NothingIsOwed, pending
<1>2. Append(out, f) \in Seq(Frame) /\ Append(owed, f) \in Seq(Frame)
  BY <1>1, AppendProperties
<1>3. ctx = "live" /\ outcome # "queued" => outcome = "full"
  BY DEF outcomes
<1>4. CASE outcome = "queued"
  <2>1. out' = Append(out, f)
        /\ owed' = IF ctx = "live" /\ peer = "reading" THEN Append(owed, f) ELSE owed
    BY <1>4 DEF take
  <2>2. pending' = Append(pending, f)
    BY <1>1, <2>1 DEF pending
  <2>3. Leads(owed, Append(pending, f))
    BY <1>1, LeadsOn DEF NothingIsOwed
  <2>4. ctx = "live" /\ peer = "reading" => owed' = pending'
    BY <2>1, <2>2 DEF NothingIsOwed
  <2>5. Leads(owed', pending')
    <3>1. CASE ctx = "live" /\ peer = "reading"
      BY <2>4, <3>1 DEF Leads
    <3>2. CASE ~(ctx = "live" /\ peer = "reading")
      BY <2>1, <2>2, <2>3, <3>2
    <3> QED
      BY <3>1, <3>2
  <2> QED
    BY <1>1, <1>2, <1>4, <2>1, <2>2, <2>4, <2>5
<1>5. CASE outcome # "queued"
  <2>1. out' = out /\ owed' = owed
    BY <1>5 DEF take
  <2>2. pending' = pending
    BY <2>1 DEF pending
  <2> QED
    BY <1>1, <1>3, <1>5, <2>1, <2>2 DEF NothingIsOwed
<1> QED
  BY <1>4, <1>5

\* What a step that takes a frame leaves of the rest: enough that the taking decides.
Aside == UNCHANGED <<writer, held, socket, peer, got>> /\ (reader' # "over" \/ reader' = reader)

\* A frame that is not a game frame is sent, whether or not it is queued.
LEMMA OtherFrameKeeps ==
    ASSUME SessionInv, NEW f \in Frame, ~GameFrame(f), NEW outcome \in outcomes, take(f, outcome),
           Aside, games' = games, ctx' = ctx, closing' = closing
    PROVE  SessionInv'
<1>1. Workings /\ NothingIsOwed /\ held' = held /\ writer' = writer /\ peer' = peer /\ got' = got
      /\ socket' = socket
  BY DEF SessionInv, Aside
<1>2. Workings'
  BY <1>1, TakeFacts DEF Workings, Aside
<1>3. /\ InOrder(pending', got', games')
      /\ ctx' = "live" /\ ~closing' => Whole(pending', got', games')
  <2>1. InOrder(pending, got, games) /\ got \in Nat /\ games \in Nat
    BY DEF SessionInv, Workings, InOrder
  <2>2. pending \in Seq(Frame) /\ pending' \in {pending, Append(pending, f)}
    BY <1>1, TakeFacts
  <2>3. InOrder(pending', got, games)
    BY <2>1, <2>2, OrderGrows
  <2>4. Whole(pending, got, games) => Whole(pending', got, games)
    BY <2>1, <2>2, WholeGrows
  <2> QED
    BY <1>1, <2>3, <2>4 DEF SessionInv
<1>4. NothingIsOwed'
  BY <1>1, TakeFacts DEF NothingIsOwed, Workings
<1> QED
  BY <1>2, <1>3, <1>4 DEF SessionInv

\* A game frame is sent: while the connection is live, either it is queued or its
\* sender is about to close.
LEMMA GameFrameKeeps ==
    ASSUME SessionInv, send(game(games + 1)), games' = games + 1, Aside
    PROVE  SessionInv'
<1> DEFINE f == game(games + 1)
<1>1. Workings /\ NothingIsOwed /\ held' = held /\ writer' = writer /\ peer' = peer /\ got' = got
      /\ socket' = socket /\ games \in Nat
  BY DEF SessionInv, Aside, Workings
<1>2. f \in Frame
  BY <1>1, FramesAre
<1>3. PICK outcome \in outcomes : /\ take(f, outcome) /\ ctx' = ctx
                                 /\ closing' = (closing \/ outcome = "full")
  BY DEF send
<1> HIDE DEF f
<1>4. Workings'
  BY <1>1, <1>2, <1>3, TakeFacts DEF Workings, Aside
<1>5. /\ pending \in Seq(Frame) /\ pending' \in {pending, Append(pending, f)}
      /\ outcome = "queued" => pending' = Append(pending, f)
  BY <1>1, <1>2, <1>3, TakeFacts
<1>6. InOrder(pending, got, games) /\ got \in Nat
  BY DEF SessionInv, InOrder
<1>7. InOrder(pending', got', games')
  <2>1. InOrder(Append(pending, f), got, games + 1) /\ InOrder(pending, got, games + 1)
    BY <1>1, <1>5, <1>6, OrderGrows DEF f
  <2> QED
    BY <1>1, <1>5, <2>1
<1>8. ASSUME ctx' = "live", ~closing'
      PROVE  Whole(pending', got', games')
  <2>1. ctx = "live" /\ ~closing /\ outcome = "queued"
    BY <1>1, <1>2, <1>3, <1>8, TakeFacts DEF Workings
  <2>2. Whole(pending, got, games) /\ pending' = Append(pending, f)
    BY <1>5, <2>1 DEF SessionInv
  <2>3. Whole(Append(pending, f), got, games + 1)
    BY <1>1, <1>5, <1>6, <2>2, WholeGrows DEF f
  <2> QED
    BY <1>1, <2>2, <2>3
<1>9. NothingIsOwed'
  BY <1>1, <1>2, <1>3, TakeFacts DEF NothingIsOwed, Workings
<1> QED
  BY <1>4, <1>7, <1>8, <1>9 DEF SessionInv

\* Whatever the room, the reader or the hello timer queues.
LEMMA QueueingKeeps == SessionInv /\ (offer \/ refuse \/ helloTimeout) => SessionInv'
<1> SUFFICES ASSUME SessionInv, offer \/ refuse \/ helloTimeout PROVE SessionInv'
  OBVIOUS
<1>1. ASSUME NEW f \in {chat, refusal}, queue(f), Aside, games' = games
      PROVE  SessionInv'
  <2>1. f \in Frame /\ ~GameFrame(f)
    BY FramesAre
  <2>2. PICK outcome \in outcomes : take(f, outcome) /\ ctx' = ctx /\ closing' = closing
    BY <1>1 DEF queue
  <2> QED
    BY <1>1, <2>1, <2>2, OtherFrameKeeps
<1>2. CASE offer
  <2>1. Aside
    BY <1>2 DEF offer, Aside
  <2> QED
    BY <1>1, <1>2, <2>1, GameFrameKeeps DEF offer
<1>3. CASE refuse \/ helloTimeout
  <2>1. Aside /\ games' = games /\ queue(refusal)
    BY <1>3 DEF refuse, helloTimeout, Aside
  <2> QED
    BY <1>1, <2>1
<1> QED
  BY <1>2, <1>3

\* The writer takes a frame, and it arrives.
LEMMA WritingKeeps == SessionInv /\ (dequeue \/ written) => SessionInv'
<1> SUFFICES ASSUME SessionInv, dequeue \/ written PROVE SessionInv'
  OBVIOUS
<1>0. Workings /\ NothingIsOwed /\ out \in Seq(Frame) /\ owed \in Seq(Frame) /\ pending \in Seq(Frame)
  BY PendingIs DEF SessionInv, Workings, NothingIsOwed, pending
<1>1. CASE dequeue
  <2>1. held = <<>> /\ pending = out /\ out # <<>>
    BY <1>0, <1>1, PendingIs DEF dequeue, Workings, pending
  <2>2. held' = Head(out) /\ out' = Tail(out) /\ Head(out) \in Frame /\ Tail(out) \in Seq(Frame)
    BY <1>0, <1>1, <2>1, BehindTheHead DEF dequeue
  <2>3. held' # <<>>
    <3>1. \A h \in Frame : 1 \in DOMAIN h
      BY DEF Frame
    <3>2. 1 \notin DOMAIN <<>>
      OBVIOUS
    <3>3. \A h \in Frame : h # <<>>
      BY <3>1, <3>2, Zenon
    <3> QED
      BY <2>2, <3>3
  <2>4. pending' = out
    <3>1. pending' = <<Head(out)>> \o Tail(out)
      BY <2>2, <2>3 DEF pending
    <3>2. <<Head(out)>> \o Tail(out) = out
      BY <1>0, <2>1, HeadTailProperties
    <3> QED
      BY <3>1, <3>2
  <2>5. Workings'
    BY <1>0, <1>1, <2>2, <2>3 DEF dequeue, Workings
  <2>6. NothingIsOwed'
    BY <1>0, <1>1, <2>1, <2>4 DEF dequeue, NothingIsOwed
  <2> QED
    BY <1>1, <2>1, <2>4, <2>5, <2>6 DEF dequeue, SessionInv
<1>2. CASE written
  <2>1. /\ held # <<>> /\ held \in Frame /\ held' = <<>> /\ out' = out
        /\ got' = (IF GameFrame(held) THEN held[2] ELSE got)
        /\ owed' = IF owed = <<>> THEN owed ELSE Tail(owed)
        /\ games' = games /\ ctx' = ctx /\ peer' = peer /\ writer' \in {"select", "drain"}
        /\ writer' = "drain" => writer = "draining"
        /\ reader' = reader /\ socket' = socket /\ writer \in {"writing", "draining"}
        /\ closing' = closing
    BY <1>0, <1>2 DEF written, Workings, GameFrame
  <2>2. pending # <<>> /\ Head(pending) = held /\ Tail(pending) = out
    BY <1>0, <2>1, PendingIs DEF pending
  <2>3. pending' = out
    BY <1>0, <2>1, ConcatEmptySeq DEF pending
  <2>4. Workings'
    BY <1>0, <2>1 DEF Workings
  <2>5. /\ InOrder(pending', got', games')
        /\ ctx' = "live" /\ ~closing' => Whole(pending', got', games')
    <3>1. InOrder(pending, got, games) /\ games \in Nat /\ got \in Nat
      BY <1>0 DEF SessionInv, Workings, InOrder
    <3>2. /\ InOrder(out, got', games)
          /\ Whole(pending, got, games) => Whole(out, got', games)
      BY <1>0, <2>1, <2>2, <3>1, HeadLeaves
    <3> QED
      BY <2>1, <2>3, <3>2 DEF SessionInv
  <2>6. Leads(owed', pending') /\ owed' \in Seq(Frame)
    <3>1. CASE owed = <<>>
      BY <1>0, <2>1, <2>3, <3>1, LeadsOn DEF NothingIsOwed
    <3>2. CASE owed # <<>>
      BY <1>0, <2>1, <2>2, <2>3, <3>2, LeadsOn, BehindTheHead DEF NothingIsOwed
    <3> QED
      BY <3>1, <3>2
  <2>7. ctx' = "live" /\ peer' = "reading" => owed' = pending'
    <3> SUFFICES ASSUME ctx' = "live", peer' = "reading" PROVE owed' = pending'
      OBVIOUS
    <3>1. owed = pending
      BY <1>0, <2>1 DEF NothingIsOwed
    <3>2. owed' = Tail(pending)
      BY <2>1, <2>2, <3>1
    <3> QED
      BY <2>2, <2>3, <3>2
  <2>8. peer' # "reading" \/ writer' = "done" => owed' = <<>>
    BY <1>0, <2>1 DEF NothingIsOwed
  <2> QED
    BY <2>4, <2>5, <2>6, <2>7, <2>8 DEF SessionInv, NothingIsOwed
<1> QED
  BY <1>1, <1>2

\* A write fails only under a peer that is owed nothing any more, or drains the last.
LEMMA WriterEndsKeeps == SessionInv /\ (seesCancel \/ writeFails \/ drained) => SessionInv'
<1> SUFFICES ASSUME SessionInv, seesCancel \/ writeFails \/ drained PROVE SessionInv'
  OBVIOUS
<1>0. Workings /\ NothingIsOwed /\ out \in Seq(Frame) /\ owed \in Seq(Frame) /\ pending \in Seq(Frame)
  BY PendingIs DEF SessionInv, Workings, NothingIsOwed, pending
<1>1. CASE seesCancel
  <2>1. pending' = pending /\ ctx = "done" /\ ctx' = ctx /\ got' = got /\ games' = games
    BY <1>1 DEF seesCancel, pending
  <2>2. Workings'
    BY <1>0, <1>1 DEF seesCancel, Workings
  <2>3. NothingIsOwed'
    BY <1>0, <1>1, <2>1 DEF seesCancel, NothingIsOwed
  <2> QED
    BY <2>1, <2>2, <2>3 DEF SessionInv
<1>2. CASE writeFails
  <2>1. ctx' = "done" /\ writer' = "done" /\ peer # "reading" /\ peer' = peer
        /\ held' = <<>> /\ out' = out /\ games' = games /\ owed' = owed /\ got' = got
        /\ closing' = closing
    BY <1>0, <1>2 DEF writeFails, reads, Workings
  <2>2. Workings'
    BY <1>0, <2>1 DEF Workings
  <2>3. owed = <<>> /\ pending' = out
    BY <1>0, <2>1, ConcatEmptySeq DEF NothingIsOwed, pending
  <2>4. Leads(owed', pending')
    BY <1>0, <2>1, <2>3, LeadsOn DEF NothingIsOwed
  <2>5. InOrder(pending', got', games')
    <3>1. InOrder(pending, got, games) /\ games \in Nat /\ got \in Nat
      BY <1>0 DEF SessionInv, Workings, InOrder
    <3>2. pending # <<>> /\ Tail(pending) = out
      BY <1>0, <1>2, PendingIs DEF writeFails, Workings, pending
    <3>3. InOrder(out, got, games)
      BY <1>0, <3>1, <3>2, HeadLeaves
    <3> QED
      BY <2>1, <2>3, <3>3
  <2> QED
    BY <1>0, <2>1, <2>2, <2>3, <2>4, <2>5 DEF SessionInv, NothingIsOwed
<1>3. CASE drained
  <2>1. writer = "drain" /\ out = <<>> /\ held = <<>> /\ ctx = "done" /\ ctx' = ctx
        /\ writer' = "done" /\ owed' = owed /\ peer' = peer /\ pending' = pending
        /\ got' = got /\ games' = games
    BY <1>0, <1>3 DEF drained, Workings, pending
  <2>2. pending = <<>>
    BY <1>0, <2>1, PendingIs DEF pending
  <2>3. owed = <<>>
    BY <1>0, <2>2, LeadsOn DEF NothingIsOwed
  <2>4. Workings'
    BY <1>0, <1>3, <2>1 DEF drained, Workings
  <2> QED
    BY <1>0, <2>1, <2>3, <2>4 DEF SessionInv, NothingIsOwed
<1> QED
  BY <1>1, <1>2, <1>3

\* The rest queue nothing and send nothing; they may close the session, or the socket of
\* a peer that does not read or whose writer is done.
LEMMA OthersKeep ==
    ASSUME SessionInv,
           \/ hello \/ readFails \/ readerCloses \/ runReturns \/ cancelRead \/ ping
           \/ timerCloses \/ serverStops \/ peerStalls \/ peerReadsAgain \/ peerCloses
           \/ sendCloses \/ UNCHANGED sessionVars
    PROVE  SessionInv'
<1>1. /\ UNCHANGED <<writer, held, out, got, games>> /\ ctx' \in {ctx, "done"}
      /\ closing' = closing \/ (closing' = FALSE /\ ctx' = "done")
      /\ \/ owed' = owed /\ peer' = peer
         \/ owed' = <<>> /\ peer' # "reading"
         \/ owed' = owed /\ peer = "stalled" /\ peer' = "back"
  BY DEF hello, readFails, readerCloses, runReturns, cancelRead, ping, timerCloses,
         serverStops, peerStalls, peerReadsAgain, peerCloses, sendCloses, sessionVars
<1>2. peer' = "reading" /\ writer # "done" => socket' = "open"
  BY DEF SessionInv, Workings, reads, hello, readFails, readerCloses, runReturns, cancelRead, ping,
         timerCloses, serverStops, peerStalls, peerReadsAgain, peerCloses, sendCloses, sessionVars
<1>3. reader' = "over" => writer = "done"
  BY DEF SessionInv, Workings, hello, readFails, readerCloses, runReturns, cancelRead, ping,
         timerCloses, serverStops, peerStalls, peerReadsAgain, peerCloses, sendCloses, sessionVars
<1>4. Workings'
  BY <1>1, <1>2, <1>3 DEF SessionInv, Workings
<1>5. pending' = pending /\ pending \in Seq(Frame)
  BY <1>1, PendingIs DEF pending, SessionInv, Workings
<1>6. NothingIsOwed'
  <2>1. Leads(<<>>, pending) /\ <<>> \in Seq(Frame)
    BY <1>5, LeadsOn DEF Leads
  <2> QED
    BY <1>1, <1>5, <2>1 DEF SessionInv, NothingIsOwed
<1> QED
  BY <1>1, <1>4, <1>5, <1>6 DEF SessionInv

\* A session begins with nothing sent and nothing owed.
Empty ==
    /\ held = <<>> /\ out = <<>> /\ owed = <<>> /\ games = 0 /\ got = 0 /\ closing = FALSE
    /\ \/ ctx = "live" /\ writer = "select" /\ socket = "open" /\ reader = "reading"
       \/ ctx = "done" /\ writer = "done"

\* And so the invariant holds where nothing has been sent.
LEMMA EmptyIsFine == Empty => SessionInv
<1> SUFFICES ASSUME Empty PROVE SessionInv
  OBVIOUS
<1>1. <<>> \in Seq(Frame) /\ Len(<<>>) = 0 /\ DOMAIN <<>> = {}
  OBVIOUS
<1>2. pending = <<>>
  BY <1>1, PendingIs DEF Empty, pending
<1>3. Workings
  BY <1>1 DEF Empty, Workings
<1>4. InOrder(pending, got, games) /\ Whole(pending, got, games)
  BY <1>1, <1>2 DEF Empty, InOrder, Whole
<1>5. Leads(<<>>, <<>>)
  BY DEF Leads
<1>6. NothingIsOwed
  BY <1>1, <1>2, <1>5 DEF Empty, NothingIsOwed
<1> QED
  BY <1>3, <1>4, <1>6 DEF SessionInv

\* Every reachable session has what its peer lacks, in order and, while nobody is about
\* to close it, without a gap.
THEOREM SessionInvariance == Spec => []SessionInv
<1>1. Init => SessionInv
  BY EmptyIsFine DEF Init, SessionInit, Empty
<1>2. fresh \/ forgotten => SessionInv'
  <2>1. fresh \/ forgotten => Empty'
    BY DEF fresh, forgotten, Empty
  <2>2. Empty' => SessionInv'
    BY EmptyIsFine, PTL
  <2> QED
    BY <2>1, <2>2
<1>3. SessionInv /\ [Next]_vars => SessionInv'
  <2> SUFFICES ASSUME SessionInv, [Next]_vars PROVE SessionInv'
    OBVIOUS
  <2>1. CASE UNCHANGED vars \/ \E h \in Handler : request(h)
    BY <2>1, OthersKeep DEF vars, request
  <2>2. CASE starts \/ ends
    BY <1>2, <2>2 DEF starts, ends
  <2>3. CASE serves
    BY <2>3, QueueingKeeps, WritingKeeps, WriterEndsKeeps, OthersKeep
    DEF serves, SessionNext, readerStep, writerStep, timerStep
  <2> QED
    BY <2>1, <2>2, <2>3 DEF Next
<1> QED
  BY <1>1, <1>3, PTL DEF Spec

\* A peer has its game frames in order, and while the connection is open it has missed
\* none but when a sender is about to close it for that, whatever rooms send, the peer
\* does and times out, and however full its outbox.
THEOREM MissedMeansClosingAlways == Spec => []MissedMeansClosing
<1>1. SessionInv => MissedMeansClosing
  BY DEF SessionInv, MissedMeansClosing, InOrder, Whole, GameFrame
<1> QED
  BY <1>1, SessionInvariance, PTL

\* A peer that never stopped reading has, when the server has ended its connection,
\* every frame that was queued before the end.
THEOREM LastWordsArriveAlways == Spec => []LastWordsArrive
<1>1. SessionInv => LastWordsArrive
  BY DEF SessionInv, Workings, NothingIsOwed, LastWordsArrive
<1> QED
  BY <1>1, SessionInvariance, PTL
=============================================================================
