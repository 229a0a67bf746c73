------------------------------ MODULE HubProofs ------------------------------
(***************************************************************************)
(* Hub.tla, for any number of connections, rooms, codes and any inbox.     *)
(*                                                                         *)
(* The registry: RegistryIsExact, by an invariant that adds only the shape *)
(* of the variables.  Most steps are quiet: a room may be cancelled or     *)
(* return, and the registry, the codes and the other phases stay.  Two are *)
(* not: newRegisteredRoom and evict, and each has a lemma of its own.      *)
(*                                                                         *)
(* The queue: it never holds two.  The mailbox: what a dispatch has still  *)
(* to send, the notices and the inboxes are well formed, and a step takes  *)
(* an inbox's head or puts one input behind it.  The seats: what follows a *)
(* seat (the session, a notice, a disconnect in the inbox) is replaced by  *)
(* the next before it is gone.  The three layers rest on each other in     *)
(* this order.                                                             *)
(***************************************************************************)
EXTENDS Hub, FiniteSetTheorems, SequenceTheorems, WellFoundedInduction, TLAPS

Fields == DOMAIN Unborn

HubShape ==
    /\ rooms = [r \in Room |-> rooms[r]]
    /\ \A r \in Room : DOMAIN rooms[r] = Fields
    /\ registry \in [Code -> Room \cup {None}]

HubInv == HubShape /\ RegistryIsExact

\* How far a quiet step may take a room.
mayBecome(x, y) ==
    /\ DOMAIN y = Fields
    /\ y.code = x.code
    /\ \/ y.phase = x.phase
       \/ x.phase = "running" /\ y.phase = "cancelled"
       \/ x.phase = "evicted" /\ y.phase = "returned"

Quiet ==
    /\ registry' = registry
    /\ rooms' = [r \in Room |-> rooms'[r]]
    /\ \A r \in Room : mayBecome(rooms[r], rooms'[r])

\* The fields of a room, spelled out.
LEMMA FieldNames ==
    Fields = {"phase", "code", "seats", "away", "live", "auto", "bot", "inbox", "dealing", "cut"}
BY DEF Fields, Unborn

\* A set of natural numbers that is not empty has a least element.
LEMMA MinIsThere ==
    ASSUME NEW S \in SUBSET Nat, S # {}
    PROVE  Min(S) \in S
<1> DEFINE R == {ss \in Nat \X Nat : ss[1] < ss[2]}
<1>1. IsWellFoundedOn(R, Nat)
  BY NatLessThanWellFounded DEF OpToRel
<1>2. PICK x \in S : \A y \in S : <<y, x>> \notin R
  <2> HIDE DEF R
  <2> QED
    BY <1>1, WFMin
<1>3. \A y \in S : x <= y
  <2> SUFFICES ASSUME NEW y \in S PROVE x <= y
    OBVIOUS
  <2>1. x \in Nat /\ y \in Nat /\ <<y, x>> \notin R
    BY <1>2
  <2> QED
    BY <2>1
<1> QED
  BY <1>3 DEF Min

\* A quiet step keeps the registry exact.
LEMMA QuietKeeps == HubInv /\ Quiet => HubInv'
<1> SUFFICES ASSUME HubInv, Quiet PROVE HubInv'
  OBVIOUS
<1>1. HubShape'
  BY DEF HubInv, HubShape, Quiet, mayBecome
<1>2. ASSUME NEW r \in Room
      PROVE  rooms'[r].phase \in {"running", "cancelled"} <=> \E k \in Code : registry'[k] = r
  BY DEF HubInv, RegistryIsExact, Quiet, mayBecome
<1>3. Registered' = Registered
  BY DEF Quiet, Registered
<1>4. ASSUME NEW k \in Registered
      PROVE  rooms'[registry'[k]].code = k
  <2>1. registry[k] \in Room
    BY DEF HubInv, HubShape, Registered
  <2> QED
    BY <2>1 DEF HubInv, RegistryIsExact, Quiet, mayBecome
<1> QED
  BY <1>1, <1>2, <1>3, <1>4 DEF HubInv, RegistryIsExact

\* A step that changes one room, within what a quiet step may, is quiet.
LEMMA OneRoomIsQuiet ==
    ASSUME HubShape, NEW r \in Room, NEW x, mayBecome(rooms[r], x),
           rooms' = [rooms EXCEPT ![r] = x], registry' = registry
    PROVE  Quiet
BY DEF HubShape, Quiet, mayBecome

\* So is handling an input, if what becomes of the room keeps its code and phase.
LEMMA HandledIsQuiet ==
    ASSUME HubShape, NEW r \in Room, NEW x,
           DOMAIN x = Fields, x.code = rooms[r].code,
           \/ x.phase = rooms[r].phase
           \/ rooms[r].phase = "running" /\ x.phase = "cancelled",
           handled(r, x), registry' = registry
    PROVE  Quiet
<1> DEFINE y == settled([x EXCEPT !.inbox = Tail(rooms[r].inbox)])
<1>1. mayBecome(rooms[r], y)
  BY FieldNames DEF mayBecome, settled
<1>2. rooms' = [rooms EXCEPT ![r] = y]
  BY DEF handled
<1> QED
  BY <1>1, <1>2, OneRoomIsQuiet

----------------------------------------------------------------------------
(***************************************************************************)
(* The quiet steps                                                         *)
(***************************************************************************)

\* A connection's own steps touch no room.
LEMMA ConnectionIsQuiet ==
    ASSUME HubInv, NEW s \in Session, connection(s) \/ request(s) \/ quickMatch(s) \/ askDraining(s)
    PROVE  Quiet
<1>1. registry' = registry /\ rooms' = rooms
  BY DEF connection, close, teardown, request, createRoom, askQuickMatch, cancelQuickMatch,
         joinRoom, toRoom, sendOne, quickMatch, askDraining
<1> QED
  BY <1>1 DEF HubInv, HubShape, Quiet, mayBecome

\* What is put into an inbox changes nothing else of its room.
LEMMA PutIsQuiet ==
    ASSUME HubInv, NEW r, NEW m, put(r, m), registry' = registry
    PROVE  Quiet
<1>1. CASE r \in Room
  <2> DEFINE y == [rooms[r] EXCEPT !.inbox = Append(@, m)]
  <2>1. mayBecome(rooms[r], y)
    BY <1>1, FieldNames DEF HubInv, HubShape, mayBecome
  <2>2. rooms' = [rooms EXCEPT ![r] = y]
    BY <1>1 DEF put
  <2> QED
    BY <1>1, <2>1, <2>2, OneRoomIsQuiet DEF HubInv
<1>2. CASE r \notin Room
  <2>1. rooms' = rooms
    BY <1>2 DEF put, HubInv, HubShape
  <2> QED
    BY <2>1 DEF HubInv, HubShape, Quiet, mayBecome
<1> QED
  BY <1>1, <1>2

\* Delivering what waits moves no room between its phases and touches no code.
LEMMA MailIsQuiet ==
    ASSUME HubInv, (\E s \in Session : checkRoom(s) \/ offer(s)) \/ deliver
    PROVE  Quiet
<1>1. registry' = registry
  BY DEF checkRoom, offer, deliver, sendReliably
<1>2. CASE rooms' = rooms
  BY <1>1, <1>2 DEF HubInv, HubShape, Quiet, mayBecome
<1>3. CASE \E r, m : put(r, m)
  BY <1>1, <1>3, PutIsQuiet
<1> QED
  BY <1>2, <1>3 DEF checkRoom, offer, deliver, sendReliably

\* Whatever a room does with an input, it keeps its code and at most cancels itself.
LEMMA HandleIsQuiet ==
    ASSUME HubInv, NEW r \in Room, handle(r)
    PROVE  Quiet
<1>0. HubShape /\ DOMAIN rooms[r] = Fields /\ registry' = registry
  BY DEF HubInv, HubShape, handle, handleCreate, handleStartBot, handleJoin, lobbyStart,
         lobbyLeave, handlePlay, handleDisconnect, beginGame
<1> DEFINE fits(x) == /\ DOMAIN x = Fields /\ x.code = rooms[r].code
                      /\ \/ x.phase = rooms[r].phase
                         \/ rooms[r].phase = "running" /\ x.phase = "cancelled"
<1>1. ASSUME NEW x, fits(x), handled(r, x)
      PROVE  Quiet
  BY <1>0, <1>1, HandledIsQuiet
<1>2. ASSUME NEW s
      PROVE  /\ DOMAIN seatedIn(rooms[r], s) = Fields
             /\ seatedIn(rooms[r], s).code = rooms[r].code
             /\ seatedIn(rooms[r], s).phase = rooms[r].phase
  BY <1>0, FieldNames DEF seatedIn
<1>3. CASE handleCreate(r)
  <2> DEFINE x == [seatedIn(rooms[r], from(r)) EXCEPT !.auto = Head(rooms[r].inbox).auto]
  <2>1. fits(x)
    BY <1>2, FieldNames
  <2> QED
    BY <1>1, <1>3, <2>1 DEF handleCreate
<1>4. CASE handleStartBot(r)
  <2> DEFINE x == [seatedIn(rooms[r], from(r)) EXCEPT !.cut = TRUE]
             y == [seatedIn(rooms[r], from(r)) EXCEPT !.live = TRUE]
  <2>1. fits(x) /\ fits(y)
    BY <1>2, FieldNames
  <2>2. handled(r, x) \/ handled(r, y)
    BY <1>4 DEF handleStartBot
  <2> QED
    BY <1>1, <2>1, <2>2
<1>5. CASE handleJoin(r)
  <2> DEFINE room == [rooms[r] EXCEPT !.auto = FALSE]
             deal == rooms[r].auto /\ seatedIn(room, from(r)).away = {} /\ ~draining
             y == [seatedIn(room, from(r)) EXCEPT !.dealing = deal]
  <2>1. fits(room)
    BY <1>0, FieldNames
  <2>2. fits(y)
    BY <2>1, FieldNames DEF seatedIn
  <2>3. handled(r, room) \/ handled(r, y)
    BY <1>5 DEF handleJoin
  <2> QED
    BY <1>1, <2>1, <2>2, <2>3
<1>6. CASE lobbyStart(r)
  <2>1. fits(rooms[r]) /\ fits([rooms[r] EXCEPT !.dealing = TRUE])
    BY <1>0, FieldNames
  <2> QED
    BY <1>1, <1>6, <2>1 DEF lobbyStart
<1>7. CASE lobbyLeave(r)
  <2> DEFINE rest == rooms[r].seats \ {from(r)}
             x == [rooms[r] EXCEPT !.seats = rest, !.live = @ /\ Cardinality(rest) >= 2]
  <2>1. fits(rooms[r]) /\ fits(x)
    BY <1>0, FieldNames
  <2>2. handled(r, x) \/ handled(r, rooms[r])
    BY <1>7 DEF lobbyLeave
  <2> QED
    BY <1>1, <2>1, <2>2
<1>8. CASE handlePlay(r)
  <2> DEFINE x == [rooms[r] EXCEPT !.live = FALSE,
                      !.phase = IF rooms[r].bot THEN "cancelled" ELSE @]
  <2>1. rooms[r].phase = "running"
    BY <1>8 DEF handlePlay, first, running
  <2>2. fits(rooms[r]) /\ fits(x)
    BY <1>0, <2>1, FieldNames
  <2>3. handled(r, x) \/ handled(r, rooms[r])
    BY <1>8 DEF handlePlay
  <2> QED
    BY <1>1, <2>2, <2>3
<1>9. CASE handleDisconnect(r)
  <2> DEFINE x == [rooms[r] EXCEPT !.away = @ \cup {from(r)}]
  <2>1. fits(rooms[r]) /\ fits(x)
    BY <1>0, FieldNames
  <2>2. handled(r, x) \/ handled(r, rooms[r])
    BY <1>9 DEF handleDisconnect
  <2> QED
    BY <1>1, <2>1, <2>2
<1>10. CASE beginGame(r)
  <2> DEFINE x == [rooms[r] EXCEPT !.dealing = FALSE, !.live = TRUE]
  <2>1. mayBecome(rooms[r], x)
    BY <1>0, FieldNames DEF mayBecome
  <2>2. rooms' = [rooms EXCEPT ![r] = x]
    BY <1>0, <1>10 DEF beginGame, HubShape
  <2> QED
    BY <1>0, <2>1, <2>2, OneRoomIsQuiet
<1> QED
  BY <1>3, <1>4, <1>5, <1>6, <1>7, <1>8, <1>9, <1>10 DEF handle

\* A timer moves its own room forward, and nothing in the registry.
LEMMA TimersAreQuiet ==
    ASSUME HubInv, NEW r \in Room, timers(r)
    PROVE  Quiet
<1>0. HubShape /\ DOMAIN rooms[r] = Fields /\ registry' = registry /\ rooms[r].phase = "running"
  BY DEF HubInv, HubShape, timers, running
<1> DEFINE x == [rooms[r] EXCEPT !.live = FALSE,
                    !.phase = IF rooms[r].bot THEN "cancelled" ELSE @]
           y == settled([rooms[r] EXCEPT !.seats = Seated(r), !.away = {},
                            !.live = @ /\ Cardinality(Seated(r)) >= 2])
           z == [rooms[r] EXCEPT !.phase = "cancelled"]
<1>1. mayBecome(rooms[r], x) /\ mayBecome(rooms[r], z)
  BY <1>0, FieldNames DEF mayBecome
<1>2. mayBecome(rooms[r], y)
  BY <1>0, FieldNames DEF mayBecome, settled
<1>3. \/ rooms' = [rooms EXCEPT ![r] = x]
      \/ rooms' = [rooms EXCEPT ![r] = y]
      \/ rooms' = [rooms EXCEPT ![r] = z]
  BY <1>0 DEF timers, HubShape
<1> HIDE DEF x, y, z
<1> QED
  BY <1>0, <1>1, <1>2, <1>3, OneRoomIsQuiet

\* A room that takes itself apart is cancelled first and returns last.
LEMMA UnwindIsQuiet ==
    ASSUME HubInv, NEW r \in Room, noticeCancel(r) \/ refusePending(r)
    PROVE  Quiet
<1>0. HubShape /\ DOMAIN rooms[r] = Fields /\ registry' = registry
  BY DEF HubInv, HubShape, noticeCancel, refusePending
<1>1. CASE noticeCancel(r)
  <2> DEFINE x == [rooms[r] EXCEPT !.phase = "cancelled"]
  <2>1. mayBecome(rooms[r], x)
    BY <1>0, <1>1, FieldNames DEF mayBecome, noticeCancel, running
  <2>2. rooms' = [rooms EXCEPT ![r] = x]
    BY <1>0, <1>1 DEF noticeCancel, HubShape
  <2> QED
    BY <1>0, <2>1, <2>2, OneRoomIsQuiet
<1>2. CASE refusePending(r)
  <2> DEFINE x == [rooms[r] EXCEPT !.phase = IF rooms[r].inbox = <<>> THEN "returned" ELSE @,
                                   !.inbox = IF @ = <<>> THEN @ ELSE Tail(@)]
  <2>1. mayBecome(rooms[r], x)
    BY <1>0, <1>2, FieldNames DEF mayBecome, refusePending
  <2>2. rooms' = [rooms EXCEPT ![r] = x]
    BY <1>0, <1>2 DEF refusePending, HubShape
  <2> QED
    BY <1>0, <2>1, <2>2, OneRoomIsQuiet
<1> QED
  BY <1>1, <1>2

\* The shutdown cancels rooms' contexts; they leave the registry themselves.
LEMMA OperateIsQuiet == HubInv /\ operate => Quiet
<1> SUFFICES ASSUME HubInv, operate PROVE Quiet
  OBVIOUS
<1>1. CASE startDraining \/ cancel
  BY <1>1 DEF startDraining, cancel, HubInv, HubShape, Quiet, mayBecome
<1>2. CASE shutdown
  <2>1. registry' = registry
    BY <1>2 DEF shutdown
  <2>2. rooms' = [r \in Room |-> rooms'[r]]
    BY <1>2 DEF shutdown
  <2>3. ASSUME NEW r \in Room
        PROVE  mayBecome(rooms[r], rooms'[r])
    <3>1. rooms'[r] \in {rooms[r], [rooms[r] EXCEPT !.cut = TRUE]}
      BY <1>2 DEF shutdown
    <3> QED
      BY <3>1, FieldNames DEF HubInv, HubShape, mayBecome
  <2> QED
    BY <2>1, <2>2, <2>3 DEF Quiet
<1> QED
  BY <1>1, <1>2 DEF operate

----------------------------------------------------------------------------
(***************************************************************************)
(* The two steps that write the registry                                   *)
(***************************************************************************)

\* A room evicts itself: it is under one code, and takes itself out from under it.
LEMMA EvictKeeps ==
    ASSUME HubInv, NEW r \in Room, evict(r)
    PROVE  HubInv'
<1> DEFINE c == rooms[r].code
           x == [rooms[r] EXCEPT !.phase = "evicted", !.live = FALSE, !.seats = {}, !.away = {}]
<1>0. HubShape /\ RegistryIsExact /\ rooms[r].phase = "cancelled" /\ None \notin Room
  BY HubAssumption DEF HubInv, evict
<1>1. c \in Code /\ registry[c] = r
  BY <1>0 DEF HubShape, RegistryIsExact, Registered
<1>2. /\ registry' = [registry EXCEPT ![c] = None]
      /\ rooms' = [rooms EXCEPT ![r] = x]
  BY <1>0 DEF evict, HubShape
<1>3. DOMAIN x = Fields /\ x.phase = "evicted" /\ x.code = c
  BY <1>0, FieldNames DEF HubShape
<1> HIDE DEF x
<1>4. HubShape'
  BY <1>0, <1>1, <1>2, <1>3 DEF HubShape
<1>5. Registered' = Registered \ {c}
  BY <1>0, <1>1, <1>2 DEF HubShape, Registered
<1>6. ASSUME NEW q \in Room
      PROVE  rooms'[q].phase \in {"running", "cancelled"} <=> \E k \in Code : registry'[k] = q
  <2>1. CASE q = r
    <3>1. rooms'[q].phase = "evicted"
      BY <1>0, <1>2, <1>3, <2>1 DEF HubShape
    <3>2. \A k \in Code : registry'[k] # q
      BY <1>0, <1>1, <1>2, <2>1 DEF HubShape, RegistryIsExact, Registered
    <3> QED
      BY <3>1, <3>2
  <2>2. CASE q # r
    <3>1. rooms'[q] = rooms[q]
      BY <1>0, <1>2, <2>2 DEF HubShape
    <3>2. \A k \in Code : registry'[k] = q <=> registry[k] = q
      BY <1>0, <1>1, <1>2, <2>2 DEF HubShape
    <3> QED
      BY <1>0, <3>1, <3>2 DEF RegistryIsExact
  <2> QED
    BY <2>1, <2>2
<1>7. ASSUME NEW k \in Registered'
      PROVE  rooms'[registry'[k]].code = k
  <2>1. k \in Registered /\ k # c
    BY <1>5, <1>7
  <2>2. registry'[k] = registry[k] /\ registry[k] \in Room /\ rooms[registry[k]].code = k
    BY <1>0, <1>2, <2>1 DEF HubShape, RegistryIsExact, Registered
  <2>3. rooms'[registry[k]].code = rooms[registry[k]].code
    BY <1>0, <1>2, <1>3, <2>2 DEF HubShape
  <2> QED
    BY <2>2, <2>3
<1>8. Cardinality(Registered') <= MaxRooms
  <2>1. IsFiniteSet(Registered)
    BY HubAssumption, FS_Subset DEF Registered
  <2>2. Registered' \in SUBSET Registered
    BY <1>5
  <2>3. Cardinality(Registered') <= Cardinality(Registered)
    BY <2>1, <2>2, FS_Subset
  <2>4. Cardinality(Registered') \in Nat /\ Cardinality(Registered) \in Nat /\ MaxRooms \in Nat
    BY <2>1, <2>2, FS_Subset, FS_CardinalityType, HubAssumption
  <2> QED
    BY <1>0, <2>3, <2>4 DEF RegistryIsExact
<1> QED
  BY <1>4, <1>6, <1>7, <1>8 DEF HubInv, RegistryIsExact

\* A room is registered under a code that is free, and only below the ceiling.
LEMMA RegisterKeeps ==
    ASSUME HubInv, NEW s \in Session, newRegisteredRoom(s)
    PROVE  HubInv'
<1>0. HubShape /\ RegistryIsExact /\ None \notin Room
  BY HubAssumption DEF HubInv
<1>1. CASE registry' = registry /\ rooms' = rooms
  BY <1>0, <1>1 DEF HubInv, HubShape, RegistryIsExact, Registered
<1>2. CASE /\ Cardinality(Registered) < MaxRooms /\ Unused # {}
           /\ \E k \in {unusedCode}, r \in {Min(Unused)} :
                 /\ registry' = [registry EXCEPT ![k] = r]
                 /\ rooms' = [rooms EXCEPT ![r] =
                                 [Unborn EXCEPT !.phase = "running", !.code = k,
                                                !.bot = (step[s].want = "bot")]]
  <2> DEFINE c == unusedCode
             r == Min(Unused)
             x == [Unborn EXCEPT !.phase = "running", !.code = c, !.bot = (step[s].want = "bot")]
  <2>1. IsFiniteSet(Registered) /\ Cardinality(Registered) \in Nat /\ Registered \subseteq Code
    BY HubAssumption, FS_Subset, FS_CardinalityType DEF Registered
  <2>2. Code \ Registered # {}
    <3> SUFFICES ASSUME Code \subseteq Registered PROVE FALSE
      OBVIOUS
    <3>1. Registered = Code
      BY <2>1
    <3>2. MaxRooms <= Cardinality(Registered) /\ MaxRooms \in Nat
      BY <3>1, HubAssumption
    <3> QED
      BY <1>2, <2>1, <3>2
  <2>3. c \in Code \ Registered
    <3>1. Code \ Registered \in SUBSET Nat
      BY HubAssumption
    <3> QED
      BY <2>2, <3>1, MinIsThere DEF unusedCode
  <2>4. r \in Unused /\ r \in Room
    <3>1. Unused \in SUBSET Nat /\ Unused \subseteq Room
      BY HubAssumption DEF Unused
    <3> QED
      BY <1>2, <3>1, MinIsThere
  <2>5. registry[c] = None /\ rooms[r].phase = "unborn"
    BY <2>3, <2>4 DEF Registered, Unused, Unborn
  <2>6. \A k \in Code : registry[k] # r
    BY <1>0, <2>4, <2>5 DEF RegistryIsExact
  <2>7. registry' = [registry EXCEPT ![c] = r] /\ rooms' = [rooms EXCEPT ![r] = x]
    BY <1>2
  <2>8. DOMAIN x = Fields /\ x.phase = "running" /\ x.code = c
    BY DEF Fields, Unborn
  <2> HIDE DEF x, c, r
  <2>9. HubShape'
    BY <1>0, <2>3, <2>4, <2>7, <2>8 DEF HubShape
  <2>10. Registered' = Registered \cup {c}
    BY <1>0, <2>3, <2>4, <2>7 DEF HubShape, Registered
  <2>11. ASSUME NEW q \in Room
         PROVE  rooms'[q].phase \in {"running", "cancelled"} <=> \E k \in Code : registry'[k] = q
    <3>1. CASE q = r
      BY <1>0, <2>3, <2>7, <2>8, <3>1 DEF HubShape
    <3>2. CASE q # r
      <4>1. rooms'[q] = rooms[q]
        BY <1>0, <2>7, <3>2 DEF HubShape
      <4>2. \A k \in Code : registry'[k] = q <=> registry[k] = q
        BY <1>0, <2>5, <2>7, <3>2 DEF HubShape
      <4> QED
        BY <1>0, <4>1, <4>2 DEF RegistryIsExact
    <3> QED
      BY <3>1, <3>2
  <2>12. ASSUME NEW k \in Registered'
         PROVE  rooms'[registry'[k]].code = k
    <3>1. CASE k = c
      BY <1>0, <2>3, <2>4, <2>7, <2>8, <3>1 DEF HubShape
    <3>2. CASE k # c
      <4>1. k \in Registered
        BY <2>10, <2>12, <3>2
      <4>2. registry'[k] = registry[k] /\ registry[k] \in Room /\ registry[k] # r
        BY <1>0, <2>1, <2>6, <2>7, <3>2, <4>1 DEF HubShape, Registered
      <4>3. rooms'[registry[k]] = rooms[registry[k]]
        BY <1>0, <2>7, <4>2 DEF HubShape
      <4> QED
        BY <1>0, <4>1, <4>2, <4>3 DEF RegistryIsExact
    <3> QED
      BY <3>1, <3>2
  <2>13. Cardinality(Registered') <= MaxRooms
    <3>1. Cardinality(Registered') = Cardinality(Registered) + 1
      BY <2>1, <2>3, <2>10, FS_AddElement
    <3> QED
      BY <1>2, <2>1, <3>1, HubAssumption
  <2> QED
    BY <2>9, <2>11, <2>12, <2>13 DEF HubInv, RegistryIsExact
<1> QED
  BY <1>1, <1>2 DEF newRegisteredRoom

----------------------------------------------------------------------------
\* The registry stays exact whatever connections, rooms and the operator do.
THEOREM HubInvariance == Spec => []HubInv
<1>1. Init => HubInv
  <2> SUFFICES ASSUME Init PROVE HubInv
    OBVIOUS
  <2>1. HubShape
    BY DEF Init, HubShape, Fields
  <2>2. Registered = {} /\ \A r \in Room : rooms[r].phase = "unborn"
    BY DEF Init, Registered, Unborn
  <2>3. \A r \in Room, k \in Code : registry[k] # r
    BY HubAssumption DEF Init
  <2>4. Cardinality(Registered) <= MaxRooms
    BY <2>2, FS_EmptySet, HubAssumption
  <2> QED
    BY <2>1, <2>2, <2>3, <2>4 DEF HubInv, RegistryIsExact
<1>2. HubInv /\ [Next]_vars => HubInv'
  <2> SUFFICES ASSUME HubInv, [Next]_vars PROVE HubInv'
    OBVIOUS
  <2>1. CASE UNCHANGED vars \/ ended
    <3>1. rooms' = rooms /\ registry' = registry
      BY <2>1 DEF ended, vars
    <3> QED
      BY <3>1 DEF HubInv, HubShape, RegistryIsExact, Registered
  <2>2. ASSUME NEW s \in Session, connection(s) \/ request(s) \/ dispatch(s)
        PROVE  HubInv'
    BY <2>2, ConnectionIsQuiet, MailIsQuiet, QuietKeeps, RegisterKeeps DEF dispatch
  <2>3. ASSUME NEW r \in Room, handle(r) \/ timers(r) \/ unwind(r)
        PROVE  HubInv'
    BY <2>3, HandleIsQuiet, TimersAreQuiet, UnwindIsQuiet, EvictKeeps, QuietKeeps DEF unwind
  <2>4. CASE deliver \/ operate
    BY <2>4, MailIsQuiet, OperateIsQuiet, QuietKeeps
  <2> QED
    BY <2>1, <2>2, <2>3, <2>4 DEF Next
<1> QED
  BY <1>1, <1>2, PTL DEF Spec

\* A room is registered under its code, alone, exactly while it has not evicted
\* itself, and never more than MaxRooms are: for every number of connections, rooms
\* and codes, and every interleaving of creators, rooms and the shutdown.
THEOREM RegistryIsExactAlways == Spec => []RegistryIsExact
<1>1. HubInv => RegistryIsExact
  BY DEF HubInv
<1> QED
  BY <1>1, HubInvariance, PTL

----------------------------------------------------------------------------
(***************************************************************************)
(* The queue: a pairing takes the only one in it, so it never holds two;   *)
(* and whoever is in it has a teardown to come that takes them out.        *)
(***************************************************************************)
QueueInv ==
    /\ waiting = <<>> \/ \E s \in Session : waiting = <<s>> /\ conn[s] # "left"
    /\ conn \in [Session -> {"up", "down", "left"}]
    /\ step = [s \in Session |-> step[s]]
    /\ \A s \in Session : conn[s] = "left" => step[s] = Idle

\* Taking somebody out of a queue of one at most.
LEMMA WithoutFacts ==
    ASSUME NEW x
    PROVE  /\ without(<<>>, x) = <<>>
           /\ \A y : without(<<y>>, x) = IF x = y THEN <<>> ELSE <<y>>
<1>1. without(<<>>, x) = <<>>
  BY DEF without, ToSet
<1>2. ASSUME NEW y
      PROVE  without(<<y>>, x) = IF x = y THEN <<>> ELSE <<y>>
  <2>1. ToSet(<<y>>) = {y}
    BY DEF ToSet
  <2>2. CASE x = y
    <3>1. {i \in DOMAIN <<y>> : <<y>>[i] = x} = {1}
      BY <2>2
    <3>2. Min({1}) = 1
      BY MinIsThere
    <3>3. RemoveAt(<<y>>, 1) = <<>>
      BY DEF RemoveAt
    <3> QED
      BY <2>1, <2>2, <3>1, <3>2, <3>3 DEF without
  <2> QED
    BY <2>1, <2>2 DEF without
<1> QED
  BY <1>1, <1>2

\* The waiter taken is the one there is.
LEMMA TakeWaiterFacts ==
    ASSUME QueueInv, takeWaiter # 0
    PROVE  takeWaiter = 1 /\ \E w \in Session : waiting = <<w>>
<1> DEFINE living == {i \in DOMAIN waiting : ~dead(waiting[i])}
<1>1. living # {} /\ takeWaiter = CHOOSE i \in living : \A j \in living : i <= j
  BY DEF takeWaiter
<1>2. PICK w \in Session : waiting = <<w>>
  BY <1>1 DEF QueueInv
<1>3. living = {1}
  BY <1>1, <1>2
<1> HIDE DEF living
<1> QED
  BY <1>1, <1>2, <1>3

\* What a step of its own may do to a connection's dispatch.
MovesOn(s) == step' = step \/ \E v : step' = [step EXCEPT ![s] = v]

\* Requests are begun by a connection that is up, and the rest of a dispatch is that of
\* a connection still in it.
LEMMA DispatchMoves ==
    ASSUME QueueInv, NEW s \in Session, request(s) \/ dispatch(s)
    PROVE  /\ conn' = conn
           /\ conn[s] # "left"
           /\ MovesOn(s)
           /\ ~quickMatch(s) => waiting' \in {waiting, without(waiting, s)}
<1>1. CASE request(s)
  <2>1. conn' = conn /\ conn[s] = "up"
    BY <1>1 DEF request, createRoom, askQuickMatch, cancelQuickMatch, joinRoom, toRoom, sendOne,
                begin
  <2>2. MovesOn(s)
    BY <1>1 DEF MovesOn, request, createRoom, askQuickMatch, cancelQuickMatch, joinRoom, toRoom,
                sendOne, goTo
  <2>3. waiting' \in {waiting, without(waiting, s)}
    BY <1>1 DEF request, createRoom, askQuickMatch, cancelQuickMatch, joinRoom, toRoom, sendOne
  <2> QED
    BY <2>1, <2>2, <2>3
<1>2. CASE dispatch(s)
  <2>1. conn' = conn /\ step[s].at # "idle"
    BY <1>2 DEF dispatch, quickMatch, askDraining, newRegisteredRoom, checkRoom, offer
  <2>2. conn[s] # "left"
    BY <2>1 DEF QueueInv, Idle
  <2>3. MovesOn(s)
    BY <1>2 DEF MovesOn, dispatch, quickMatch, askDraining, newRegisteredRoom, checkRoom, offer,
                sent, goTo
  <2>4. ~quickMatch(s) => waiting' = waiting
    BY <1>2 DEF dispatch, askDraining, newRegisteredRoom, checkRoom, offer
  <2> QED
    BY <2>1, <2>2, <2>3, <2>4
<1> QED
  BY <1>1, <1>2

\* What is left of the queue is all of it or nothing.
LEMMA QueueThins ==
    ASSUME QueueInv, NEW x
    PROVE  without(waiting, x) \in {waiting, <<>>}
BY WithoutFacts DEF QueueInv

\* The only step that puts somebody in the queue is their own dispatch.
LEMMA QuickMatchQueues ==
    ASSUME QueueInv, NEW s \in Session, quickMatch(s)
    PROVE  waiting' \in {waiting, <<>>, <<s>>}
<1>1. ASSUME takeWaiter # 0, waiting' = SubSeq(waiting, takeWaiter + 1, Len(waiting))
      PROVE  waiting' = <<>>
  <2>1. PICK w \in Session : waiting = <<w>>
    BY <1>1, TakeWaiterFacts
  <2>2. waiting' = SubSeq(<<w>>, 2, 1)
    BY <1>1, <2>1, TakeWaiterFacts
  <2> QED
    BY <2>2
<1> QED
  BY <1>1 DEF quickMatch

\* Nobody enters the queue but from their own dispatch, and a connection out of its
\* dispatch leaves it for good.
LEMMA QueueKeeps == QueueInv /\ [Next]_vars => QueueInv'
<1> SUFFICES ASSUME QueueInv, [Next]_vars PROVE QueueInv'
  OBVIOUS
<1>1. ASSUME NEW s \in Session, request(s) \/ dispatch(s)
      PROVE  QueueInv'
  <2>1. conn' = conn /\ conn[s] # "left" /\ MovesOn(s)
    BY <1>1, DispatchMoves
  <2>2. waiting' \in {waiting, <<>>, <<s>>}
    BY <1>1, DispatchMoves, QueueThins, QuickMatchQueues
  <2>3. /\ step' = [t \in Session |-> step'[t]]
        /\ \A t \in Session : t # s => step'[t] = step[t]
    BY <2>1 DEF MovesOn, QueueInv
  <2> QED
    BY <2>1, <2>2, <2>3 DEF QueueInv
<1>2. ASSUME NEW s \in Session, close(s)
      PROVE  QueueInv'
  <2>1. conn' = [conn EXCEPT ![s] = "down"] /\ step' = step /\ waiting' = waiting /\ conn[s] = "up"
    BY <1>2 DEF close, dispatching
  <2> QED
    BY <2>1 DEF QueueInv
<1>3. ASSUME NEW s \in Session, teardown(s)
      PROVE  QueueInv'
  <2>1. /\ conn' = [conn EXCEPT ![s] = "left"] /\ step' = step
        /\ waiting' = without(waiting, s) /\ step[s] = Idle
    BY <1>3 DEF teardown, dispatching
  <2>2. waiting' = <<>> \/ \E t \in Session : waiting' = <<t>> /\ waiting = <<t>> /\ t # s
    BY <2>1, WithoutFacts DEF QueueInv
  <2>3. waiting' = <<>> \/ \E t \in Session : waiting' = <<t>> /\ conn'[t] # "left"
    BY <2>1, <2>2 DEF QueueInv
  <2> QED
    BY <2>1, <2>3 DEF QueueInv
<1>4. ASSUME conn' = conn, step' = step, waiting' \in {waiting, <<>>}
      PROVE  QueueInv'
  BY <1>4 DEF QueueInv
<1>5. ASSUME NEW r \in Room, handle(r)
      PROVE  QueueInv'
  <2>1. conn' = conn /\ step' = step
    BY <1>5 DEF handle, handleCreate, handleStartBot, handleJoin, lobbyStart, lobbyLeave,
                handlePlay, handleDisconnect, beginGame, dispatching
  <2>2. waiting' \in {waiting, without(waiting, from(r))}
    BY <1>5 DEF handle, handleCreate, handleStartBot, handleJoin, lobbyStart, lobbyLeave,
                handlePlay, handleDisconnect, beginGame, takeSeat
  <2> QED
    BY <1>4, <2>1, <2>2, QueueThins
<1>6. ASSUME NEW r \in Room, timers(r) \/ unwind(r)
      PROVE  QueueInv'
  BY <1>4, <1>6 DEF timers, unwind, noticeCancel, evict, refusePending, dispatching
<1>7. CASE deliver \/ operate \/ ended \/ UNCHANGED vars
  BY <1>4, <1>7 DEF deliver, sendReliably, operate, startDraining, shutdown, cancel, ended, vars,
                    dispatching
<1> QED
  BY <1>1, <1>2, <1>3, <1>5, <1>6, <1>7 DEF Next, connection

\* Every reachable queue is in order.
THEOREM QueueInvariance == Spec => []QueueInv
<1>1. Init => QueueInv
  BY DEF Init, QueueInv
<1> QED
  BY <1>1, QueueKeeps, PTL DEF Spec

\* Nobody is in the queue twice, and nobody stays in it whose connection has run its
\* teardown, for any number of connections and rooms.  (The queue in fact never holds
\* two: a second stranger is paired with the first, or finds them dead and drops them.)
THEOREM QueueHoldsTheLivingAlways == Spec => []QueueHoldsTheLiving
<1>1. QueueInv => QueueHoldsTheLiving
  <2> SUFFICES ASSUME QueueInv, NEW s \in Session
               PROVE  occurrences(waiting, s) <= 1 /\ (conn[s] = "left" => s \notin ToSet(waiting))
    BY DEF QueueHoldsTheLiving
  <2> DEFINE places == {i \in DOMAIN waiting : waiting[i] = s}
  <2>1. places = {} \/ places = {1}
    BY DEF QueueInv
  <2>2. Cardinality({}) = 0 /\ Cardinality({1}) = 1
    BY FS_EmptySet, FS_Singleton
  <2>3. Cardinality(places) <= 1
    <3> HIDE DEF places
    <3> QED
      BY <2>1, <2>2
  <2>4. conn[s] = "left" => s \notin ToSet(waiting)
    BY DEF QueueInv, ToSet
  <2> QED
    BY <2>3, <2>4 DEF occurrences
<1> QED
  BY <1>1, QueueInvariance, PTL

----------------------------------------------------------------------------
(***************************************************************************)
(* The mailbox: what is posted, noticed and queued in the inboxes.         *)
(***************************************************************************)
Kind == {"create", "bot", "join", "start", "leave", "play", "disconnect"}
Sent == [type : Kind, sess : Session, auto : BOOLEAN]
Mail == [to : Room, input : Sent]
Notice == [to : Room, sess : Session, by : {"session", "attach"}]

\* Where a dispatch stands, and what it has still to send from there.
Fits(st, letters) ==
    /\ DOMAIN st = {"at", "want", "with"}
    /\ letters \in Seq(Mail)
    /\ st.at = "send" => letters # <<>>
    /\ st.at \in {"open", "register"} =>
          st.want \in {"create", "bot"} \/ (st.want = "quick" /\ st.with \in Session)

MailInv ==
    /\ at \in [Session -> Room \cup {None}]
    /\ notices \subseteq Notice
    /\ step = [s \in Session |-> step[s]]
    /\ post = [s \in Session |-> post[s]]
    /\ \A s \in Session : Fits(step[s], post[s])
    /\ \A r \in Room : rooms[r].inbox \in Seq(Sent)

\* What one step may do to an inbox: take its head, or put one input at its end.
TakesOne(r) ==
    /\ rooms[r].inbox # <<>>
    /\ rooms'[r].inbox = Tail(rooms[r].inbox)
GetsOne(r, m) == m \in Sent /\ rooms'[r].inbox = Append(rooms[r].inbox, m)
KeepsAll(r) == rooms'[r].inbox = rooms[r].inbox
InboxStep(r) == KeepsAll(r) \/ TakesOne(r) \/ \E m : GetsOne(r, m)

\* An input, and a letter.
LEMMA InputIsSent ==
    ASSUME NEW type \in Kind, NEW s \in Session, NEW auto \in BOOLEAN
    PROVE  /\ Input(type, s, auto) \in Sent
           /\ \A r \in Room : <<[to |-> r, input |-> Input(type, s, auto)]>> \in Seq(Mail)
<1>1. Input(type, s, auto) \in Sent
  BY DEF Input, Sent
<1> QED
  BY <1>1 DEF Mail

\* Any of these keeps an inbox one.
LEMMA InboxStepType ==
    ASSUME NEW r \in Room, rooms[r].inbox \in Seq(Sent), InboxStep(r)
    PROVE  rooms'[r].inbox \in Seq(Sent)
<1>1. CASE TakesOne(r)
  BY <1>1, HeadTailProperties DEF TakesOne
<1>2. ASSUME NEW m, GetsOne(r, m)
      PROVE  rooms'[r].inbox \in Seq(Sent)
  BY <1>2, AppendProperties DEF GetsOne
<1> QED
  BY <1>1, <1>2 DEF InboxStep, KeepsAll

\* A dispatch that moves on, its session's part of the invariant shown, keeps the rest.
LEMMA MovedOnFits ==
    ASSUME MailInv, NEW s \in Session, NEW st, NEW letters, Fits(st, letters),
           step' = [step EXCEPT ![s] = st], post' = [post EXCEPT ![s] = letters],
           at' = at, notices' = notices,
           \A r \in Room : InboxStep(r)
    PROVE  MailInv'
<1>1. /\ step' = [t \in Session |-> step'[t]]
      /\ post' = [t \in Session |-> post'[t]]
      /\ \A t \in Session : Fits(step'[t], post'[t])
  BY DEF MailInv
<1>2. \A r \in Room : rooms'[r].inbox \in Seq(Sent)
  BY InboxStepType DEF MailInv
<1> QED
  BY <1>1, <1>2 DEF MailInv

\* A request that is begun.
LEMMA RequestMail ==
    ASSUME HubInv, MailInv, NEW s \in Session, request(s)
    PROVE  MailInv'
<1>1. at' = at /\ notices' = notices /\ rooms' = rooms
  BY DEF request, createRoom, askQuickMatch, cancelQuickMatch, joinRoom, toRoom, sendOne
<1>2. \A r \in Room : InboxStep(r)
  BY <1>1 DEF InboxStep, KeepsAll
<1>3. ASSUME NEW where, NEW want,
             where = "queue" \/ (where = "open" /\ want \in {"create", "bot"}),
             goTo(s, where, want, None), post' = post
      PROVE  MailInv'
  <2> DEFINE st == [at |-> where, want |-> want, with |-> None]
  <2>1. Fits(st, post[s])
    BY <1>3 DEF MailInv, Fits
  <2>2. step' = [step EXCEPT ![s] = st] /\ post' = [post EXCEPT ![s] = post[s]]
    BY <1>3 DEF goTo, MailInv
  <2> HIDE DEF st
  <2> QED
    BY <1>1, <1>2, <2>1, <2>2, MovedOnFits
<1>4. ASSUME NEW r \in Room, NEW kind \in Kind, sendOne(s, r, kind)
      PROVE  MailInv'
  <2> DEFINE st == [at |-> "send", want |-> kind, with |-> None]
             letters == <<[to |-> r, input |-> Input(kind, s, FALSE)]>>
  <2>1. letters \in Seq(Mail) /\ letters # <<>>
    BY InputIsSent
  <2>2. step' = [step EXCEPT ![s] = st] /\ post' = [post EXCEPT ![s] = letters]
    BY <1>4 DEF sendOne, goTo
  <2> HIDE DEF letters
  <2>3. Fits(st, letters)
    BY <2>1 DEF Fits
  <2> HIDE DEF st
  <2> QED
    BY <1>1, <1>2, <2>2, <2>3, MovedOnFits
<1>5. CASE \E want \in {"create", "bot"} : createRoom(s, want)
  <2>1. PICK want \in {"create", "bot"} : createRoom(s, want)
    BY <1>5
  <2>2. goTo(s, "open", want, None) /\ post' = post
    BY <2>1 DEF createRoom
  <2> QED
    BY <1>3, <2>2
<1>6. CASE askQuickMatch(s)
  <2>1. goTo(s, "queue", "quick", None) /\ post' = post
    BY <1>6 DEF askQuickMatch
  <2> QED
    BY <1>3, <2>1
<1>7. CASE cancelQuickMatch(s)
  <2>1. step' = step /\ post' = post
    BY <1>7 DEF cancelQuickMatch
  <2> QED
    BY <1>1, <2>1 DEF MailInv
<1>8. CASE joinRoom(s)
  <2>1. \A k \in Registered : registry[k] \in Room
    BY DEF HubInv, HubShape, Registered
  <2> QED
    BY <1>4, <1>8, <2>1 DEF joinRoom, Kind
<1>9. CASE \E kind \in {"start", "leave", "play"} : toRoom(s, kind)
  <2>1. at[s] # None => at[s] \in Room
    BY DEF MailInv
  <2> QED
    BY <1>4, <1>9, <2>1 DEF toRoom, Kind
<1> QED
  BY <1>5, <1>6, <1>7, <1>8, <1>9 DEF request

\* What is put into an inbox is at its end, and the room is otherwise what it was.
LEMMA PutFacts ==
    ASSUME HubInv, NEW r \in Room, NEW m \in Sent, put(r, m)
    PROVE  /\ GetsOne(r, m)
           /\ \A q \in Room : q # r => rooms'[q] = rooms[q]
           /\ \A f \in Fields : f # "inbox" => rooms'[r][f] = rooms[r][f]
<1> DEFINE y == [rooms[r] EXCEPT !.inbox = Append(@, m)]
<1>1. rooms' = [rooms EXCEPT ![r] = y]
  BY DEF put
<1>2. y.inbox = Append(rooms[r].inbox, m) /\ \A f \in Fields : f # "inbox" => y[f] = rooms[r][f]
  BY FieldNames DEF HubInv, HubShape
<1>3. rooms'[r] = y /\ \A q \in Room : q # r => rooms'[q] = rooms[q]
  BY <1>1 DEF HubInv, HubShape
<1> HIDE DEF y
<1> QED
  BY <1>2, <1>3 DEF GetsOne

\* Putting is a step that every inbox may take.
LEMMA PutMail ==
    ASSUME HubInv, NEW r \in Room, NEW m \in Sent, put(r, m)
    PROVE  \A q \in Room : InboxStep(q)
BY PutFacts DEF InboxStep, KeepsAll

\* An input that is sent, or refused because the room has ended, leaves the rest of the
\* post; after the last of it the dispatch is over.
LEMMA SentFits ==
    ASSUME MailInv, NEW s \in Session, step[s].at = "send"
    PROVE  /\ Head(post[s]) \in Mail
           /\ Fits(IF Len(post[s]) = 1 THEN Idle ELSE step[s], Tail(post[s]))
<1>1. DOMAIN step[s] = {"at", "want", "with"} /\ post[s] \in Seq(Mail) /\ post[s] # <<>>
  BY DEF MailInv, Fits
<1>2. Head(post[s]) \in Mail /\ Tail(post[s]) \in Seq(Mail)
  BY <1>1, HeadTailProperties
<1>3. Len(post[s]) # 1 => Tail(post[s]) # <<>>
  <2>1. Len(post[s]) \in Nat /\ Len(post[s]) # 0
    BY <1>1
  <2>2. Len(Tail(post[s])) = Len(post[s]) - 1
    BY <1>1, HeadTailProperties
  <2>3. Len(<<>>) = 0
    OBVIOUS
  <2>4. Tail(post[s]) = <<>> => Len(Tail(post[s])) = 0
    BY <2>3, Zenon
  <2> QED
    BY <2>1, <2>2, <2>4
<1>4. CASE Len(post[s]) = 1
  BY <1>2, <1>4 DEF Fits, Idle
<1>5. CASE Len(post[s]) # 1
  BY <1>1, <1>2, <1>3, <1>5 DEF Fits
<1> QED
  BY <1>2, <1>4, <1>5

\* The queue, the drain and the post of a dispatch.
LEMMA DispatchMail ==
    ASSUME HubInv, QueueInv, MailInv, NEW s \in Session, dispatch(s), ~newRegisteredRoom(s)
    PROVE  MailInv' /\ \A r \in Room : InboxStep(r)
<1>0. at' = at /\ notices' = notices /\ step = [t \in Session |-> step[t]]
      /\ post = [t \in Session |-> post[t]] /\ Fits(step[s], post[s])
  BY DEF dispatch, quickMatch, askDraining, checkRoom, offer, MailInv
<1>1. ASSUME rooms' = rooms
      PROVE  \A r \in Room : InboxStep(r)
  BY <1>1 DEF InboxStep, KeepsAll
<1>2. CASE quickMatch(s)
  <2>1. rooms' = rooms /\ post' = [post EXCEPT ![s] = post[s]]
    BY <1>0, <1>2 DEF quickMatch
  <2>2. CASE step' = [step EXCEPT ![s] = Idle]
    <3>1. Fits(Idle, post[s])
      BY <1>0 DEF Fits, Idle
    <3> QED
      BY <1>0, <1>1, <2>1, <2>2, <3>1, MovedOnFits
  <2>3. CASE takeWaiter # 0 /\ goTo(s, "open", "quick", waiting[takeWaiter])
    <3> DEFINE st == [at |-> "open", want |-> "quick", with |-> waiting[takeWaiter]]
    <3>1. waiting[takeWaiter] \in Session
      BY <2>3, TakeWaiterFacts
    <3>2. Fits(st, post[s])
      BY <1>0, <3>1 DEF Fits
    <3>3. step' = [step EXCEPT ![s] = st]
      BY <2>3 DEF goTo
    <3> HIDE DEF st
    <3> QED
      BY <1>0, <1>1, <2>1, <3>2, <3>3, MovedOnFits
  <2> QED
    BY <1>2, <2>2, <2>3 DEF quickMatch
<1>3. CASE askDraining(s)
  <2> DEFINE st == IF draining THEN Idle ELSE [step[s] EXCEPT !.at = "register"]
  <2>1. rooms' = rooms /\ post' = [post EXCEPT ![s] = post[s]]
    BY <1>0, <1>3 DEF askDraining
  <2>2. step' = [step EXCEPT ![s] = st]
    BY <1>0, <1>3 DEF askDraining
  <2>3. Fits(st, post[s])
    BY <1>0, <1>3 DEF Fits, Idle, askDraining
  <2> HIDE DEF st
  <2> QED
    BY <1>0, <1>1, <2>1, <2>2, <2>3, MovedOnFits
<1> DEFINE st == IF Len(post[s]) = 1 THEN Idle ELSE step[s]
<1>4. ASSUME step[s].at = "send", sent(s), \A r \in Room : InboxStep(r)
      PROVE  MailInv'
  <2>1. step' = [step EXCEPT ![s] = st] /\ post' = [post EXCEPT ![s] = Tail(post[s])]
    BY <1>0, <1>4 DEF sent
  <2>2. Fits(st, Tail(post[s]))
    BY <1>4, SentFits
  <2> HIDE DEF st
  <2> QED
    BY <1>0, <1>4, <2>1, <2>2, MovedOnFits
<1>5. CASE checkRoom(s)
  <2>1. rooms' = rooms /\ step[s].at = "send"
    BY <1>5 DEF checkRoom
  <2>2. CASE sent(s)
    BY <1>1, <1>4, <2>1, <2>2
  <2>3. CASE post' = post /\ step' = step
    BY <1>0, <1>1, <2>1, <2>3 DEF MailInv
  <2> QED
    BY <1>5, <2>2, <2>3 DEF checkRoom
<1>6. CASE offer(s)
  <2>1. step[s].at = "send" /\ sent(s)
    BY <1>6 DEF offer
  <2>2. Target(s) \in Room /\ Head(post[s]).input \in Sent
    BY <2>1, SentFits DEF Target, Mail
  <2>3. \A r \in Room : InboxStep(r)
    BY <1>1, <1>6, <2>2, PutMail DEF offer
  <2> QED
    BY <1>4, <2>1, <2>3
<1> QED
  BY <1>2, <1>3, <1>5, <1>6 DEF dispatch

\* A new room has the empty inbox that a room not yet born has, and its creator knows
\* what to send to it.
LEMMA RegisterMail ==
    ASSUME HubInv, MailInv, NEW s \in Session, newRegisteredRoom(s)
    PROVE  MailInv' /\ \A r \in Room : InboxStep(r)
<1>0. at' = at /\ notices' = notices /\ step = [t \in Session |-> step[t]]
      /\ post = [t \in Session |-> post[t]] /\ Fits(step[s], post[s])
      /\ step[s].at = "register"
  BY DEF newRegisteredRoom, MailInv
<1>1. CASE step' = [step EXCEPT ![s] = Idle] /\ rooms' = rooms /\ post' = post
  <2>1. post' = [post EXCEPT ![s] = post[s]] /\ \A r \in Room : InboxStep(r)
    BY <1>0, <1>1 DEF InboxStep, KeepsAll
  <2>2. Fits(Idle, post[s])
    BY <1>0 DEF Fits, Idle
  <2> QED
    BY <1>0, <1>1, <2>1, <2>2, MovedOnFits
<1>2. CASE /\ Unused # {}
           /\ \E k \in {unusedCode}, r \in {Min(Unused)} :
                 /\ rooms' = [rooms EXCEPT ![r] =
                                 [Unborn EXCEPT !.phase = "running", !.code = k,
                                                !.bot = (step[s].want = "bot")]]
                 /\ post' = [post EXCEPT ![s] = firstInputs(s, r)]
                 /\ step' = [step EXCEPT ![s].at = "send"]
  <2> DEFINE r == Min(Unused)
             st == [step[s] EXCEPT !.at = "send"]
  <2>1. r \in Room /\ rooms[r] = Unborn
    BY <1>2, MinIsThere, HubAssumption DEF Unused
  <2>2. PICK k : rooms' = [rooms EXCEPT ![r] =
                              [Unborn EXCEPT !.phase = "running", !.code = k,
                                             !.bot = (step[s].want = "bot")]]
    BY <1>2
  <2>3. rooms'[r].inbox = rooms[r].inbox /\ rooms'[r].phase = "running"
        /\ \A q \in Room : q # r => rooms'[q] = rooms[q]
    BY <2>1, <2>2 DEF Unborn, HubInv, HubShape
  <2>4. \A q \in Room : InboxStep(q)
    BY <2>3 DEF InboxStep, KeepsAll
  <2>5. firstInputs(s, r) \in Seq(Mail) /\ firstInputs(s, r) # <<>>
    <3>0. \A m \in Sent : [to |-> r, input |-> m] \in Mail
      BY <2>1 DEF Mail
    <3> HIDE DEF r
    <3>1. CASE step[s].want = "quick"
      <4> DEFINE a == [to |-> r, input |-> Input("create", step[s].with, TRUE)]
                 b == [to |-> r, input |-> Input("join", s, FALSE)]
      <4>1. step[s].with \in Session
        BY <1>0, <3>1 DEF Fits
      <4>2. a \in Mail /\ b \in Mail
        BY <3>0, <4>1, InputIsSent DEF Kind
      <4>3. firstInputs(s, r) = <<a, b>>
        BY <3>1 DEF firstInputs
      <4> HIDE DEF a, b
      <4> QED
        BY <4>2, <4>3
    <3>2. CASE step[s].want \in {"create", "bot"}
      <4> DEFINE a == [to |-> r, input |-> Input(step[s].want, s, FALSE)]
      <4>1. a \in Mail
        BY <3>0, <3>2, InputIsSent DEF Kind
      <4>2. firstInputs(s, r) = <<a>>
        BY <3>2 DEF firstInputs
      <4> HIDE DEF a
      <4> QED
        BY <4>1, <4>2
    <3> QED
      BY <1>0, <3>1, <3>2 DEF Fits
  <2>6. Fits(st, firstInputs(s, r))
    BY <1>0, <2>5 DEF Fits
  <2>7. step' = [step EXCEPT ![s] = st] /\ post' = [post EXCEPT ![s] = firstInputs(s, r)]
    BY <1>0, <1>2
  <2> HIDE DEF st, r
  <2> QED
    BY <1>0, <2>4, <2>6, <2>7, MovedOnFits
<1> QED
  BY <1>1, <1>2 DEF newRegisteredRoom

\* An input that is handled is out of the inbox, and the other rooms are as they were.
LEMMA HandledFacts ==
    ASSUME HubInv, HubInv', NEW r \in Room, NEW x, handled(r, x)
    PROVE  /\ rooms'[r].inbox = Tail(rooms[r].inbox)
           /\ \A f \in Fields \ {"inbox", "phase"} : rooms'[r][f] = x[f]
           /\ rooms'[r].phase \in {x.phase, "cancelled"}
           /\ \A q \in Room : q # r => rooms'[q] = rooms[q]
<1> DEFINE z == [x EXCEPT !.inbox = Tail(rooms[r].inbox)]
<1>1. rooms'[r] = settled(z) /\ \A q \in Room : q # r => rooms'[q] = rooms[q]
  BY DEF handled, HubInv, HubShape
<1>2. DOMAIN x = Fields
  <2>1. DOMAIN rooms'[r] = Fields
    BY DEF HubInv, HubShape
  <2>2. DOMAIN settled(z) = DOMAIN z
    BY DEF settled
  <2> QED
    BY <1>1, <2>1, <2>2
<1>3. /\ z.inbox = Tail(rooms[r].inbox)
      /\ \A f \in Fields \ {"inbox"} : z[f] = x[f]
      /\ DOMAIN z = Fields
  BY <1>2, FieldNames
<1> HIDE DEF z
<1>4. /\ \A f \in Fields \ {"phase"} : settled(z)[f] = z[f]
      /\ settled(z).phase \in {z.phase, "cancelled"}
  BY <1>3, FieldNames DEF settled
<1> QED
  BY <1>1, <1>3, <1>4, FieldNames

\* Every handler but beginGame takes the head of its room's inbox.
LEMMA HandleTakes ==
    ASSUME HubInv, HubInv', MailInv, NEW r \in Room, handle(r)
    PROVE  /\ \A q \in Room : InboxStep(q)
           /\ ~beginGame(r) => from(r) \in Session /\ Head(rooms[r].inbox) \in Sent
<1>1. CASE beginGame(r)
  BY <1>1 DEF beginGame, InboxStep, KeepsAll, HubInv, HubShape, Fields, Unborn
<1>2. CASE ~beginGame(r)
  <2>1. rooms[r].inbox # <<>> /\ rooms[r].phase = "running"
    BY <1>2 DEF handle, handleCreate, handleStartBot, handleJoin, lobbyStart, lobbyLeave,
                handlePlay, handleDisconnect, first, running
  <2>2. \E x : handled(r, x)
    BY <1>2 DEF handle, handleCreate, handleStartBot, handleJoin, lobbyStart, lobbyLeave,
                handlePlay, handleDisconnect
  <2>3. PICK x : handled(r, x)
    BY <2>2
  <2>4. rooms'[r].phase # "returned"
    BY <2>1, HandleIsQuiet DEF Quiet, mayBecome
  <2>5. \A q \in Room : InboxStep(q)
    BY <2>1, <2>3, <2>4, HandledFacts DEF InboxStep, KeepsAll, TakesOne
  <2>6. Head(rooms[r].inbox) \in Sent
    BY <2>1, HeadTailProperties DEF MailInv
  <2>7. from(r) \in Session
    BY <2>6 DEF from, Sent
  <2> QED
    BY <1>2, <2>5, <2>6, <2>7
<1> QED
  BY <1>1, <1>2

\* The mailbox as it is while no dispatch moves.
LEMMA StillMail ==
    ASSUME MailInv, step' = step, post' = post, \A r \in Room : InboxStep(r),
           at' \in [Session -> Room \cup {None}], notices' \subseteq Notice
    PROVE  MailInv'
<1>1. \A r \in Room : rooms'[r].inbox \in Seq(Sent)
  BY InboxStepType DEF MailInv
<1> QED
  BY <1>1 DEF MailInv

\* A seat taken points its session at the room, and tells the one left behind.
LEMMA AttachMail ==
    ASSUME MailInv, NEW r \in Room, NEW s \in Session, attach(r, s)
    PROVE  at' \in [Session -> Room \cup {None}] /\ notices' \subseteq Notice
BY DEF attach, MailInv, Notice

\* What a room does with its input.
LEMMA HandleMail ==
    ASSUME HubInv, HubInv', MailInv, NEW r \in Room, handle(r)
    PROVE  MailInv' /\ \A q \in Room : InboxStep(q)
<1>1. step' = step /\ post' = post /\ \A q \in Room : InboxStep(q)
  BY HandleTakes DEF handle, handleCreate, handleStartBot, handleJoin, lobbyStart, lobbyLeave,
                     handlePlay, handleDisconnect, beginGame, dispatching
<1>2. CASE at' = at /\ notices' = notices
  BY <1>1, <1>2, StillMail DEF MailInv
<1>3. CASE ~beginGame(r) /\ attach(r, from(r))
  BY <1>1, <1>3, HandleTakes, AttachMail, StillMail
<1>4. CASE notices' = notices /\ at' = [at EXCEPT ![from(r)] = IF @ = r THEN None ELSE @]
  BY <1>1, <1>4, StillMail DEF MailInv
<1>5. CASE handleCreate(r) \/ handleStartBot(r)
  <2>1. attach(r, from(r)) /\ ~beginGame(r)
    BY <1>5 DEF handleCreate, handleStartBot, takeSeat, beginGame, first, running
  <2> QED
    BY <1>3, <2>1
<1>6. CASE handleJoin(r)
  <2>1. ~beginGame(r)
    BY <1>6 DEF handleJoin, beginGame, first, running
  <2>2. (at' = at /\ notices' = notices) \/ attach(r, from(r))
    BY <1>6 DEF handleJoin, takeSeat
  <2> QED
    BY <1>2, <1>3, <2>1, <2>2
<1>7. CASE lobbyLeave(r)
  BY <1>2, <1>4, <1>7 DEF lobbyLeave
<1>8. CASE lobbyStart(r) \/ handlePlay(r) \/ handleDisconnect(r) \/ beginGame(r)
  BY <1>2, <1>8 DEF lobbyStart, handlePlay, handleDisconnect, beginGame
<1> QED
  BY <1>5, <1>6, <1>7, <1>8 DEF handle

\* A timer reads no inbox, and the end of a room empties its own.
LEMMA RoomMail ==
    ASSUME HubInv, MailInv, NEW r \in Room, timers(r) \/ unwind(r)
    PROVE  MailInv' /\ \A q \in Room : InboxStep(q)
<1>0. HubShape /\ DOMAIN rooms[r] = Fields /\ step' = step /\ post' = post /\ notices' = notices
  BY DEF HubInv, HubShape, timers, unwind, noticeCancel, evict, refusePending, dispatching
<1>1. at' \in [Session -> Room \cup {None}]
  BY DEF timers, unwind, noticeCancel, evict, refusePending, MailInv
<1>2. ASSUME NEW x, rooms' = [rooms EXCEPT ![r] = x],
             \/ x.inbox = rooms[r].inbox
             \/ rooms[r].inbox # <<>> /\ x.inbox = Tail(rooms[r].inbox)
      PROVE  \A q \in Room : InboxStep(q)
  BY <1>0, <1>2 DEF HubShape, InboxStep, KeepsAll, TakesOne
<1>3. CASE timers(r)
  <2> DEFINE x == [rooms[r] EXCEPT !.live = FALSE,
                      !.phase = IF rooms[r].bot THEN "cancelled" ELSE @]
             y == settled([rooms[r] EXCEPT !.seats = Seated(r), !.away = {},
                              !.live = @ /\ Cardinality(Seated(r)) >= 2])
             z == [rooms[r] EXCEPT !.phase = "cancelled"]
             same(w) == w.inbox = rooms[r].inbox
  <2>1. same(x) /\ same(y) /\ same(z)
    BY <1>0, <1>3, FieldNames DEF settled, timers, running
  <2>2. \/ rooms' = [rooms EXCEPT ![r] = x]
        \/ rooms' = [rooms EXCEPT ![r] = y]
        \/ rooms' = [rooms EXCEPT ![r] = z]
    BY <1>0, <1>3 DEF timers, HubShape
  <2>3. \A q \in Room : InboxStep(q)
    <3> HIDE DEF x, y, z
    <3> QED
      BY <1>2, <2>1, <2>2
  <2> QED
    BY <1>0, <1>1, <2>3, StillMail DEF MailInv
<1>4. CASE unwind(r)
  <2> DEFINE x == [rooms[r] EXCEPT !.phase = "cancelled"]
             y == [rooms[r] EXCEPT !.phase = "evicted", !.live = FALSE, !.seats = {}, !.away = {}]
             z == [rooms[r] EXCEPT !.phase = IF rooms[r].inbox = <<>> THEN "returned" ELSE @,
                                   !.inbox = IF @ = <<>> THEN @ ELSE Tail(@)]
             fits(w) == \/ w.inbox = rooms[r].inbox
                        \/ rooms[r].inbox # <<>> /\ w.inbox = Tail(rooms[r].inbox)
  <2>1. fits(x) /\ fits(y)
    BY <1>0, FieldNames
  <2>2. refusePending(r) => fits(z)
    BY <1>0, FieldNames DEF refusePending
  <2>3. \/ rooms' = [rooms EXCEPT ![r] = x]
        \/ rooms' = [rooms EXCEPT ![r] = y]
        \/ refusePending(r) /\ rooms' = [rooms EXCEPT ![r] = z]
    BY <1>0, <1>4 DEF unwind, noticeCancel, evict, refusePending, HubShape
  <2>4. \A q \in Room : InboxStep(q)
    <3> HIDE DEF x, y, z
    <3> QED
      BY <1>2, <2>1, <2>2, <2>3
  <2> QED
    BY <1>0, <1>1, <2>4, StillMail DEF MailInv
<1> QED
  BY <1>3, <1>4

\* A notice is delivered, or dropped for a room that has ended.
LEMMA DeliverMail ==
    ASSUME HubInv, MailInv, deliver
    PROVE  MailInv' /\ \A q \in Room : InboxStep(q)
<1>1. PICK n \in notices : sendReliably(n)
  BY DEF deliver
<1>2. /\ n.to \in Room /\ n.sess \in Session
      /\ step' = step /\ post' = post /\ at' = at /\ notices' \subseteq Notice
  BY <1>1 DEF sendReliably, MailInv, Notice, dispatching
<1>3. Input("disconnect", n.sess, FALSE) \in Sent
  BY <1>2, InputIsSent DEF Kind
<1>4. CASE rooms' = rooms
  BY <1>2, <1>4, StillMail DEF InboxStep, KeepsAll, MailInv
<1>5. CASE put(n.to, Input("disconnect", n.sess, FALSE))
  BY <1>2, <1>3, <1>5, PutMail, StillMail DEF MailInv
<1> QED
  BY <1>1, <1>4, <1>5 DEF sendReliably

\* A connection that comes or goes, and the operator, write no inbox.
LEMMA OutsideMail ==
    ASSUME HubInv, MailInv, (\E s \in Session : connection(s)) \/ operate \/ ended \/ UNCHANGED vars
    PROVE  MailInv' /\ \A q \in Room : InboxStep(q)
<1>1. step' = step /\ post' = post /\ at' = at
  BY DEF connection, close, teardown, operate, startDraining, shutdown, cancel, ended, vars,
         dispatching
<1>2. \A q \in Room : rooms'[q].inbox = rooms[q].inbox /\ rooms'[q].phase = rooms[q].phase
  <2>1. CASE shutdown
    <3>1. \A q \in Room : rooms'[q] \in {rooms[q], [rooms[q] EXCEPT !.cut = TRUE]}
      BY <2>1 DEF shutdown
    <3> QED
      BY <3>1, FieldNames DEF HubInv, HubShape
  <2>2. CASE ~shutdown
    BY <2>2 DEF connection, close, teardown, operate, startDraining, cancel, ended, vars
  <2> QED
    BY <2>1, <2>2
<1>3. \A q \in Room : InboxStep(q)
  BY <1>2 DEF InboxStep, KeepsAll
<1>4. CASE notices' = notices
  BY <1>1, <1>3, <1>4, StillMail DEF MailInv
<1>5. ASSUME NEW s \in Session, teardown(s)
      PROVE  notices' \subseteq Notice
  <2>1. notify(s) \subseteq Notice
    BY DEF notify, MailInv, Notice
  <2> QED
    BY <1>5, <2>1 DEF teardown, MailInv
<1> QED
  BY <1>1, <1>3, <1>4, <1>5, StillMail
  DEF MailInv, connection, close, operate, startDraining, shutdown, cancel, ended, vars

\* Every step keeps the mailbox in shape and does to each inbox no more than it may.
LEMMA MailKeeps ==
    ASSUME HubInv, QueueInv, MailInv, [Next]_vars
    PROVE  MailInv' /\ \A r \in Room : InboxStep(r)
<1>1. ASSUME NEW s \in Session, request(s)
      PROVE  MailInv' /\ \A r \in Room : InboxStep(r)
  <2>1. rooms' = rooms
    BY <1>1 DEF request, createRoom, askQuickMatch, cancelQuickMatch, joinRoom, toRoom, sendOne
  <2> QED
    BY <1>1, <2>1, RequestMail DEF InboxStep, KeepsAll
<1>2. ASSUME NEW s \in Session, dispatch(s)
      PROVE  MailInv' /\ \A r \in Room : InboxStep(r)
  BY <1>2, DispatchMail, RegisterMail
<1>3. ASSUME NEW r \in Room, handle(r)
      PROVE  MailInv' /\ \A q \in Room : InboxStep(q)
  BY <1>3, HandleIsQuiet, QuietKeeps, HandleMail
<1>4. ASSUME NEW r \in Room, timers(r) \/ unwind(r)
      PROVE  MailInv' /\ \A q \in Room : InboxStep(q)
  BY <1>4, RoomMail
<1> QED
  BY <1>1, <1>2, <1>3, <1>4, DeliverMail, OutsideMail DEF Next

\* The registry, the queue and the mailbox together.
PostInv == HubInv /\ QueueInv /\ MailInv

\* Every reachable mailbox is in order.
THEOREM PostInvariance == Spec => []PostInv
<1>1. Init => MailInv
  <2> SUFFICES ASSUME Init PROVE MailInv
    OBVIOUS
  <2>1. \A r \in Room : rooms[r].inbox = <<>>
    BY DEF Init, Unborn
  <2>2. \A s \in Session : Fits(step[s], post[s])
    BY DEF Init, Fits, Idle
  <2>3. at \in [Session -> Room \cup {None}] /\ notices \subseteq Notice
    BY DEF Init
  <2>4. step = [s \in Session |-> step[s]] /\ post = [s \in Session |-> post[s]]
    BY DEF Init
  <2>5. <<>> \in Seq(Sent)
    OBVIOUS
  <2>6. \A r \in Room : rooms[r].inbox \in Seq(Sent)
    BY <2>1, <2>5, Zenon
  <2> QED
    BY <2>2, <2>3, <2>4, <2>6, Zenon DEF MailInv
<1>2. HubInv /\ QueueInv /\ MailInv /\ [Next]_vars => MailInv'
  BY MailKeeps
<1> QED
  BY <1>1, <1>2, HubInvariance, QueueInvariance, PTL DEF Spec, PostInv

----------------------------------------------------------------------------
(***************************************************************************)
(* The seats.  Of each session and each room: a seat in a room that has    *)
(* not ended is followed, by the session itself, by a notice on its way or *)
(* by a disconnect in the inbox; and what follows it is replaced by the    *)
(* next before it is gone.                                                 *)
(***************************************************************************)
SeatIn(s, r) == ~over(r) /\ s \in Seated(r)
Present(s, r) == at[s] = r /\ conn[s] # "left"
Noticed(s, r) == \E n \in notices : n.to = r /\ n.sess = s
Parts(s, m) == m.type = "disconnect" /\ m.sess = s
Told(s, r) == \E i \in DOMAIN rooms[r].inbox : Parts(s, rooms[r].inbox[i])
Followed(s, r) == SeatIn(s, r) => Present(s, r) \/ Noticed(s, r) \/ Told(s, r)

\* A disconnect in an inbox is not moved by what is put behind it.
LEMMA ToldBehind ==
    ASSUME MailInv, NEW r \in Room, NEW s \in Session, NEW m, GetsOne(r, m), Told(s, r)
    PROVE  Told(s, r)'
<1> DEFINE box == rooms[r].inbox
<1>1. box \in Seq(Sent) /\ m \in Sent /\ rooms'[r].inbox = Append(box, m)
  BY DEF MailInv, GetsOne
<1>2. PICK i \in DOMAIN box : Parts(s, box[i])
  BY DEF Told
<1>3. i \in DOMAIN Append(box, m) /\ Append(box, m)[i] = box[i]
  BY <1>1
<1> QED
  BY <1>1, <1>2, <1>3 DEF Told, Parts

\* A disconnect stays in an inbox until it is at its head.
LEMMA ToldStays ==
    ASSUME MailInv, NEW r \in Room, NEW s \in Session, InboxStep(r), Told(s, r),
           TakesOne(r) => ~Parts(s, Head(rooms[r].inbox))
    PROVE  Told(s, r)'
<1> DEFINE box == rooms[r].inbox
<1>1. box \in Seq(Sent)
  BY DEF MailInv
<1>2. PICK i \in DOMAIN box : Parts(s, box[i])
  BY DEF Told
<1>3. CASE KeepsAll(r)
  BY <1>3 DEF KeepsAll, Told, Parts
<1>4. CASE TakesOne(r)
  <2>1. box # <<>> /\ rooms'[r].inbox = Tail(box)
    BY <1>4 DEF TakesOne
  <2>2. i # 1
    <3>1. Head(box) = box[1]
      BY <1>1, <2>1
    <3> QED
      BY <1>2, <1>4, <3>1
  <2>3. i - 1 \in DOMAIN Tail(box) /\ Tail(box)[i - 1] = box[i]
    <3>1. /\ Tail(box) \in Seq(Sent) /\ Len(Tail(box)) = Len(box) - 1
          /\ \A j \in 1..Len(Tail(box)) : Tail(box)[j] = box[j + 1]
      BY <1>1, <2>1, HeadTailProperties
    <3>2. i \in 1..Len(box) /\ Len(box) \in Nat
      BY <1>1
    <3>3. i - 1 \in 1..Len(Tail(box)) /\ (i - 1) + 1 = i
      BY <2>2, <3>1, <3>2
    <3>4. DOMAIN Tail(box) = 1..Len(Tail(box))
      BY <3>1
    <3> QED
      BY <3>1, <3>3, <3>4
  <2>4. i - 1 \in DOMAIN rooms'[r].inbox /\ Parts(s, rooms'[r].inbox[i - 1])
    BY <1>2, <2>1, <2>3
  <2> QED
    BY <2>4 DEF Told, Parts
<1> QED
  BY <1>3, <1>4, ToldBehind DEF InboxStep

\* A seat that was there and has what follows it left alone.
LEMMA Undisturbed ==
    ASSUME MailInv, NEW r \in Room, NEW s \in Session, Followed(s, r), InboxStep(r),
           SeatIn(s, r)' =>
               /\ SeatIn(s, r)
               /\ Present(s, r) => Present(s, r)' \/ Noticed(s, r)'
               /\ Noticed(s, r) => Noticed(s, r)' \/ Told(s, r)'
               /\ TakesOne(r) => ~Parts(s, Head(rooms[r].inbox))
    PROVE  Followed(s, r)'
<1> SUFFICES ASSUME SeatIn(s, r)'
             PROVE  Present(s, r)' \/ Noticed(s, r)' \/ Told(s, r)'
  BY DEF Followed
<1>1. Present(s, r) \/ Noticed(s, r) \/ Told(s, r)
  BY DEF Followed
<1> QED
  BY <1>1, ToldStays

\* A room that runs on, uncut, was running uncut.
LEMMA SeatWasThere ==
    ASSUME NEW r \in Room, NEW s \in Session, SeatIn(s, r)',
           rooms'[r].phase = "running" => rooms[r].phase = "running",
           rooms[r].cut => rooms'[r].cut,
           operator = "stopped" => operator' = "stopped",
           s \in Seated(r)' => s \in Seated(r)
    PROVE  SeatIn(s, r)
BY DEF SeatIn, over, stopped

\* What a handler leaves of the other rooms' sessions: whoever it takes from another
\* room is noticed there.
LEMMA HandleAt ==
    ASSUME HubInv, MailInv, NEW r \in Room, handle(r)
    PROVE  /\ conn' = conn /\ operator' = operator /\ notices \subseteq notices'
           /\ \A s \in Session, q \in Room : q # r /\ at[s] = q => at'[s] = q \/ Noticed(s, q)'
<1>1. conn' = conn /\ operator' = operator
  BY DEF handle, handleCreate, handleStartBot, handleJoin, lobbyStart, lobbyLeave,
         handlePlay, handleDisconnect, beginGame, server
<1>2. CASE \/ attach(r, from(r))
           \/ notices' = notices /\ at' = [at EXCEPT ![from(r)] = IF @ = r THEN None ELSE @]
           \/ notices' = notices /\ at' = at
  <2>1. notices \subseteq notices'
    BY <1>2 DEF attach
  <2>2. ASSUME NEW s \in Session, NEW q \in Room, q # r, at[s] = q
        PROVE  at'[s] = q \/ Noticed(s, q)'
    <3>1. CASE attach(r, from(r)) /\ s = from(r)
      <4>1. [to |-> at[s], sess |-> s, by |-> "attach"] \in notices'
        BY <2>2, <3>1, HubAssumption DEF attach
      <4> QED
        BY <2>2, <4>1 DEF Noticed
    <3>2. CASE ~(attach(r, from(r)) /\ s = from(r))
      BY <1>2, <2>2, <3>2 DEF attach, MailInv
    <3> QED
      BY <3>1, <3>2
  <2> QED
    BY <1>1, <2>1, <2>2
<1>3. \/ attach(r, from(r))
      \/ notices' = notices /\ at' = [at EXCEPT ![from(r)] = IF @ = r THEN None ELSE @]
      \/ notices' = notices /\ at' = at
  BY DEF handle, handleCreate, handleStartBot, handleJoin, lobbyStart, lobbyLeave,
         handlePlay, handleDisconnect, beginGame, takeSeat
<1> QED
  BY <1>2, <1>3

\* A seat in another room than the one that handles something.
LEMMA SeatElsewhere ==
    ASSUME HubInv, HubInv', MailInv, NEW r \in Room, handle(r),
           NEW q \in Room, q # r, NEW s \in Session, Followed(s, q)
    PROVE  Followed(s, q)'
<1>1. rooms'[q] = rooms[q]
  <2>1. CASE beginGame(r)
    BY <2>1 DEF beginGame, HubInv, HubShape
  <2>2. CASE ~beginGame(r)
    <3>1. \E x : handled(r, x)
      BY <2>2 DEF handle, handleCreate, handleStartBot, handleJoin, lobbyStart, lobbyLeave,
                  handlePlay, handleDisconnect
    <3> QED
      BY <3>1, HandledFacts
  <2> QED
    BY <2>1, <2>2
<1>2. conn' = conn /\ operator' = operator /\ notices \subseteq notices'
      /\ (at[s] = q => at'[s] = q \/ Noticed(s, q)')
  BY HandleAt
<1>3. Told(s, q) => Told(s, q)'
  BY <1>1 DEF Told
<1>4. SeatIn(s, q)' => SeatIn(s, q)
  BY <1>1, <1>2 DEF SeatIn, over, Seated, stopped
<1>5. Noticed(s, q) => Noticed(s, q)'
  BY <1>2 DEF Noticed
<1>6. Present(s, q) => Present(s, q)' \/ Noticed(s, q)'
  BY <1>2 DEF Present
<1> QED
  BY <1>3, <1>4, <1>5, <1>6 DEF Followed

\* A seat in the room that handles an input: it was there and is not the sender's to
\* lose, or it is the sender's and the sender has come to it.
LEMMA HandledSeat ==
    ASSUME HubInv, HubInv', MailInv, NEW r \in Room, handle(r), NEW x, handled(r, x),
           rooms[r].cut => x.cut,
           NEW s \in Session, Followed(s, r),
           s \in x.seats \ x.away =>
               \/ s \in Seated(r) /\ at'[s] = at[s] /\ ~Parts(s, Head(rooms[r].inbox))
               \/ at'[s] = r /\ conn[s] # "left"
    PROVE  Followed(s, r)'
<1>1. /\ \A f \in {"seats", "away", "cut"} : rooms'[r][f] = x[f]
      /\ conn' = conn /\ operator' = operator /\ notices \subseteq notices'
  BY HandledFacts, HandleAt, FieldNames
<1>2. rooms[r].phase = "running" /\ InboxStep(r)
  BY HandleTakes DEF handle, handleCreate, handleStartBot, handleJoin, lobbyStart, lobbyLeave,
                     handlePlay, handleDisconnect, beginGame, first, running
<1>3. CASE s \notin x.seats \ x.away
  BY <1>1, <1>3 DEF Followed, SeatIn, Seated
<1>4. CASE at'[s] = r /\ conn[s] # "left"
  BY <1>1, <1>4 DEF Followed, Present
<1>5. CASE s \in Seated(r) /\ at'[s] = at[s] /\ ~Parts(s, Head(rooms[r].inbox))
  <2>1. SeatIn(s, r)' => SeatIn(s, r)
    BY <1>1, <1>2, <1>5, SeatWasThere DEF stopped
  <2>2. Present(s, r) => Present(s, r)'
    BY <1>1, <1>5 DEF Present
  <2>3. Noticed(s, r) => Noticed(s, r)'
    BY <1>1 DEF Noticed
  <2> QED
    BY <1>2, <1>5, <2>1, <2>2, <2>3, Undisturbed
<1> QED
  BY <1>3, <1>4, <1>5

\* A seat is taken: the newcomer is present or away, and nobody else is disturbed.
LEMMA TakenSeat ==
    ASSUME HubInv, HubInv', QueueInv, MailInv, NEW r \in Room, handle(r), ~beginGame(r),
           attach(r, from(r)), Head(rooms[r].inbox).type # "disconnect",
           NEW x, handled(r, x), rooms[r].cut => x.cut,
           x.seats = rooms[r].seats \cup {from(r)},
           x.away = IF dead(from(r)) THEN rooms[r].away \cup {from(r)}
                    ELSE rooms[r].away \ {from(r)}
    PROVE  \A s \in Session : Followed(s, r) => Followed(s, r)'
<1> SUFFICES ASSUME NEW s \in Session, Followed(s, r) PROVE Followed(s, r)'
  OBVIOUS
<1>1. from(r) \in Session /\ at' = [at EXCEPT ![from(r)] = r] /\ at \in [Session -> Room \cup {None}]
  BY HandleTakes DEF attach, MailInv
<1>2. CASE s = from(r)
  <2>1. s \in x.seats \ x.away => at'[s] = r /\ conn[s] # "left"
    BY <1>1, <1>2 DEF dead
  <2> QED
    BY <2>1, HandledSeat
<1>3. CASE s # from(r)
  <2>1. s \in x.seats \ x.away =>
            s \in Seated(r) /\ at'[s] = at[s] /\ ~Parts(s, Head(rooms[r].inbox))
    BY <1>1, <1>3 DEF Seated, Parts
  <2> QED
    BY <2>1, HandledSeat
<1> QED
  BY <1>2, <1>3

\* No seat is taken: the seats that stay are those of sessions not named by the input.
LEMMA ThinnedSeats ==
    ASSUME HubInv, HubInv', MailInv, NEW r \in Room, handle(r),
           NEW x, handled(r, x), rooms[r].cut => x.cut,
           \A s \in x.seats \ x.away :
               s \in Seated(r) /\ at'[s] = at[s] /\ ~Parts(s, Head(rooms[r].inbox))
    PROVE  \A s \in Session : Followed(s, r) => Followed(s, r)'
BY HandledSeat

\* What may become of a room's seats: nothing, or the sender takes one.
SameSeats(r, x) == x.cut = rooms[r].cut /\ x.seats = rooms[r].seats /\ x.away = rooms[r].away
OneSeatMore(r, x) ==
    /\ rooms[r].cut => x.cut
    /\ x.seats = rooms[r].seats \cup {from(r)}
    /\ x.away = IF dead(from(r)) THEN rooms[r].away \cup {from(r)} ELSE rooms[r].away \ {from(r)}
FollowedOn(r) == \A s \in Session : Followed(s, r) => Followed(s, r)'

\* Each handler, in its own room.
LEMMA SeatHere ==
    ASSUME HubInv, HubInv', QueueInv, MailInv, NEW r \in Room, handle(r)
    PROVE  FollowedOn(r)
<1>0. DOMAIN rooms[r] = Fields
  BY DEF HubInv, HubShape
<1>1. ASSUME NEW x, handled(r, x), SameSeats(r, x), at' = at,
             Head(rooms[r].inbox).type # "disconnect"
      PROVE  FollowedOn(r)
  <2>1. rooms[r].cut => x.cut
    BY <1>1 DEF SameSeats
  <2>2. \A s \in x.seats \ x.away :
            s \in Seated(r) /\ at'[s] = at[s] /\ ~Parts(s, Head(rooms[r].inbox))
    BY <1>1 DEF SameSeats, Seated, Parts
  <2> QED
    BY <1>1, <2>1, <2>2, ThinnedSeats DEF FollowedOn
<1>2. ASSUME NEW x, handled(r, x), OneSeatMore(r, x), attach(r, from(r)), ~beginGame(r),
             Head(rooms[r].inbox).type # "disconnect"
      PROVE  FollowedOn(r)
  BY <1>2, TakenSeat DEF OneSeatMore, FollowedOn
<1>3. ASSUME NEW room, DOMAIN room = Fields, SameSeats(r, room)
      PROVE  OneSeatMore(r, seatedIn(room, from(r))) /\ DOMAIN seatedIn(room, from(r)) = Fields
  BY <1>3, FieldNames DEF seatedIn, SameSeats, OneSeatMore
<1>4. CASE handleCreate(r)
  <2> DEFINE y == seatedIn(rooms[r], from(r))
             x == [y EXCEPT !.auto = Head(rooms[r].inbox).auto]
  <2>1. OneSeatMore(r, y) /\ DOMAIN y = Fields
    BY <1>0, <1>3 DEF SameSeats
  <2>2. OneSeatMore(r, x)
    <3> HIDE DEF y
    <3> QED
      BY <2>1, FieldNames DEF OneSeatMore
  <2>3. handled(r, x) /\ attach(r, from(r)) /\ ~beginGame(r)
        /\ Head(rooms[r].inbox).type # "disconnect"
    BY <1>4 DEF handleCreate, takeSeat, beginGame, first, running
  <2> HIDE DEF x
  <2> QED
    BY <1>2, <2>2, <2>3
<1>5. CASE handleStartBot(r)
  <2> DEFINE w == seatedIn(rooms[r], from(r))
             x == [w EXCEPT !.cut = TRUE]
             y == [w EXCEPT !.live = TRUE]
  <2>1. OneSeatMore(r, w) /\ DOMAIN w = Fields
    BY <1>0, <1>3 DEF SameSeats
  <2>2. OneSeatMore(r, x) /\ OneSeatMore(r, y)
    <3> HIDE DEF w
    <3> QED
      BY <2>1, FieldNames DEF OneSeatMore
  <2>3. (handled(r, x) \/ handled(r, y)) /\ attach(r, from(r)) /\ ~beginGame(r)
        /\ Head(rooms[r].inbox).type # "disconnect"
    BY <1>5 DEF handleStartBot, takeSeat, beginGame, first, running
  <2> HIDE DEF x, y
  <2> QED
    BY <1>2, <2>2, <2>3
<1>6. CASE handleJoin(r)
  <2> DEFINE room == [rooms[r] EXCEPT !.auto = FALSE]
             y == seatedIn(room, from(r))
             deal == rooms[r].auto /\ y.away = {} /\ ~draining
             x == [y EXCEPT !.dealing = deal]
  <2>1. SameSeats(r, room) /\ DOMAIN room = Fields
    BY <1>0, FieldNames DEF SameSeats
  <2>2. OneSeatMore(r, y) /\ DOMAIN y = Fields
    <3> HIDE DEF room
    <3> QED
      BY <2>1, <1>3
  <2>3. OneSeatMore(r, x)
    <3> HIDE DEF y
    <3> QED
      BY <2>2, FieldNames DEF OneSeatMore
  <2>4. /\ \/ handled(r, room) /\ at' = at
           \/ handled(r, x) /\ attach(r, from(r))
        /\ ~beginGame(r) /\ Head(rooms[r].inbox).type # "disconnect"
    BY <1>6 DEF handleJoin, takeSeat, beginGame, first, running
  <2> HIDE DEF x, room
  <2> QED
    BY <1>1, <1>2, <2>1, <2>3, <2>4
<1>7. CASE lobbyStart(r)
  <2> DEFINE x == [rooms[r] EXCEPT !.dealing = TRUE]
  <2>1. SameSeats(r, x) /\ SameSeats(r, rooms[r])
    BY <1>0, FieldNames DEF SameSeats
  <2>2. (handled(r, x) \/ handled(r, rooms[r])) /\ at' = at
        /\ Head(rooms[r].inbox).type # "disconnect"
    BY <1>7 DEF lobbyStart, first
  <2> HIDE DEF x
  <2> QED
    BY <1>1, <2>1, <2>2
<1>8. CASE lobbyLeave(r)
  <2> DEFINE rest == rooms[r].seats \ {from(r)}
             x == [rooms[r] EXCEPT !.seats = rest, !.live = @ /\ Cardinality(rest) >= 2]
  <2>1. /\ \/ handled(r, rooms[r]) /\ at' = at
           \/ handled(r, x) /\ at' = [at EXCEPT ![from(r)] = IF @ = r THEN None ELSE @]
        /\ Head(rooms[r].inbox).type # "disconnect"
    BY <1>8 DEF lobbyLeave, first
  <2>2. CASE handled(r, rooms[r]) /\ at' = at
    BY <1>1, <2>1, <2>2 DEF SameSeats
  <2>3. CASE handled(r, x) /\ at' = [at EXCEPT ![from(r)] = IF @ = r THEN None ELSE @]
    <3>1. x.cut = rooms[r].cut /\ x.seats = rest /\ x.away = rooms[r].away
      BY <1>0, FieldNames
    <3> HIDE DEF x
    <3>2. \A s \in x.seats \ x.away :
              s \in Seated(r) /\ at'[s] = at[s] /\ ~Parts(s, Head(rooms[r].inbox))
      BY <2>1, <2>3, <3>1 DEF Seated, Parts, MailInv
    <3> QED
      BY <2>3, <3>1, <3>2, ThinnedSeats DEF FollowedOn
  <2> QED
    BY <2>1, <2>2, <2>3
<1>9. CASE handlePlay(r)
  <2> DEFINE x == [rooms[r] EXCEPT !.live = FALSE,
                      !.phase = IF rooms[r].bot THEN "cancelled" ELSE @]
  <2>1. SameSeats(r, x) /\ SameSeats(r, rooms[r])
    BY <1>0, FieldNames DEF SameSeats
  <2>2. (handled(r, x) \/ handled(r, rooms[r])) /\ at' = at
        /\ Head(rooms[r].inbox).type # "disconnect"
    BY <1>9 DEF handlePlay, first
  <2> HIDE DEF x
  <2> QED
    BY <1>1, <2>1, <2>2
<1>10. CASE handleDisconnect(r)
  <2> DEFINE y == [rooms[r] EXCEPT !.away = @ \cup {from(r)}]
             x == IF from(r) \in rooms[r].seats THEN y ELSE rooms[r]
  <2>1. handled(r, x) /\ at' = at
    BY <1>10 DEF handleDisconnect
  <2>2. y.cut = rooms[r].cut /\ y.seats = rooms[r].seats /\ y.away = rooms[r].away \cup {from(r)}
    BY <1>0, FieldNames
  <2> HIDE DEF y
  <2>3. rooms[r].cut => x.cut
    BY <2>2
  <2>4. \A s \in x.seats \ x.away : s \in Seated(r) /\ s # from(r)
    BY <2>2 DEF Seated
  <2>5. \A s \in x.seats \ x.away :
            s \in Seated(r) /\ at'[s] = at[s] /\ ~Parts(s, Head(rooms[r].inbox))
    BY <2>1, <2>4 DEF Parts, from
  <2> HIDE DEF x
  <2> QED
    BY <2>1, <2>3, <2>5, ThinnedSeats DEF FollowedOn
<1>11. CASE beginGame(r)
  <2>1. /\ \A f \in Fields \ {"dealing", "live"} : rooms'[r][f] = rooms[r][f]
        /\ conn' = conn /\ operator' = operator /\ notices' = notices /\ at' = at
    BY <1>0, <1>11, FieldNames DEF beginGame, server, HubInv, HubShape
  <2>2. rooms'[r].seats = rooms[r].seats /\ rooms'[r].away = rooms[r].away
        /\ rooms'[r].inbox = rooms[r].inbox /\ rooms'[r].phase = rooms[r].phase
        /\ rooms'[r].cut = rooms[r].cut
    BY <2>1, FieldNames
  <2> QED
    BY <2>1, <2>2 DEF FollowedOn, Followed, SeatIn, over, Seated, stopped, Present, Noticed, Told, Parts
<1> QED
  BY <1>4, <1>5, <1>6, <1>7, <1>8, <1>9, <1>10, <1>11 DEF handle

\* A room that keeps its seats, or has ended, while what follows them is handed on.
LEMMA SeatsLeft ==
    ASSUME NEW s \in Session, NEW r \in Room, Followed(s, r),
           SeatIn(s, r)' => SeatIn(s, r),
           Present(s, r) => Present(s, r)' \/ Noticed(s, r)',
           Noticed(s, r) => Noticed(s, r)' \/ Told(s, r)' \/ ~SeatIn(s, r)',
           Told(s, r) => Told(s, r)' \/ ~SeatIn(s, r)'
    PROVE  Followed(s, r)'
BY DEF Followed

\* A room that no step has touched, while the server runs or stops.
LEMMA RoomLeft ==
    ASSUME NEW s \in Session, NEW r \in Room, Followed(s, r), rooms'[r] = rooms[r],
           operator = "stopped" => operator' = "stopped",
           Present(s, r) => Present(s, r)' \/ Noticed(s, r)',
           Noticed(s, r) => Noticed(s, r)' \/ ~SeatIn(s, r)'
    PROVE  Followed(s, r)'
<1>1. SeatIn(s, r)' => SeatIn(s, r)
  BY DEF SeatIn, over, Seated, stopped
<1>2. Told(s, r) => Told(s, r)'
  BY DEF Told
<1> QED
  BY <1>1, <1>2, SeatsLeft

\* A room into whose inbox something is put.
LEMMA RoomPutTo ==
    ASSUME HubInv, MailInv, NEW s \in Session, NEW r \in Room, Followed(s, r),
           NEW q \in Room, NEW m \in Sent, put(q, m),
           operator' = operator,
           Present(s, r) => Present(s, r)',
           Noticed(s, r) => Noticed(s, r)' \/ Told(s, r)'
    PROVE  Followed(s, r)'
<1>1. CASE q # r
  <2>1. rooms'[r] = rooms[r]
    BY <1>1, PutFacts
  <2>2. SeatIn(s, r)' => SeatIn(s, r)
    BY <2>1 DEF SeatIn, over, Seated, stopped
  <2>3. Told(s, r) => Told(s, r)'
    BY <2>1 DEF Told
  <2> QED
    BY <2>2, <2>3, SeatsLeft
<1>2. CASE q = r
  <2>1. /\ GetsOne(r, m)
        /\ \A f \in Fields : f # "inbox" => rooms'[r][f] = rooms[r][f]
    BY <1>2, PutFacts
  <2>2. SeatIn(s, r)' => SeatIn(s, r)
    BY <2>1, FieldNames DEF SeatIn, over, Seated, stopped
  <2>3. Told(s, r) => Told(s, r)'
    BY <2>1, ToldBehind
  <2> QED
    BY <2>2, <2>3, SeatsLeft
<1> QED
  BY <1>1, <1>2

\* Requests and dispatches move no seat; a new room has none.
LEMMA SeatsOfRequests ==
    ASSUME HubInv, QueueInv, MailInv, NEW c \in Session, request(c) \/ dispatch(c),
           NEW s \in Session, NEW r \in Room, Followed(s, r)
    PROVE  Followed(s, r)'
<1>1. at' = at /\ conn' = conn /\ notices' = notices /\ operator' = operator
  BY DispatchMoves DEF request, createRoom, askQuickMatch, cancelQuickMatch, joinRoom, toRoom,
     sendOne, dispatch, quickMatch, askDraining, newRegisteredRoom, checkRoom, offer, server
<1>2. /\ Present(s, r) => Present(s, r)'
      /\ Noticed(s, r) => Noticed(s, r)'
  BY <1>1 DEF Present, Noticed
<1>3. CASE rooms'[r] = rooms[r]
  BY <1>1, <1>2, <1>3, RoomLeft
<1>4. CASE offer(c) /\ rooms' # rooms
  <2>1. step[c].at = "send" /\ put(Target(c), Head(post[c]).input)
    BY <1>4 DEF offer
  <2>2. Target(c) \in Room /\ Head(post[c]).input \in Sent
    BY <2>1, SentFits DEF Target, Mail
  <2> QED
    BY <1>1, <1>2, <2>1, <2>2, RoomPutTo
<1>5. CASE newRegisteredRoom(c) /\ rooms'[r] # rooms[r]
  <2>1. PICK k : rooms' = [rooms EXCEPT ![Min(Unused)] =
                              [Unborn EXCEPT !.phase = "running", !.code = k,
                                             !.bot = (step[c].want = "bot")]]
    BY <1>5 DEF newRegisteredRoom, HubInv, HubShape
  <2>2. rooms'[r].seats = {}
    BY <1>5, <2>1 DEF HubInv, HubShape, Unborn
  <2> QED
    BY <2>2 DEF Followed, SeatIn, Seated
<1>6. request(c) \/ quickMatch(c) \/ askDraining(c) \/ checkRoom(c) => rooms' = rooms
  BY DEF request, createRoom, askQuickMatch, cancelQuickMatch, joinRoom, toRoom,
     sendOne, quickMatch, askDraining, checkRoom
<1> QED
  BY <1>3, <1>4, <1>5, <1>6 DEF dispatch

\* A connection that leaves has its room told.
LEMMA SeatsOfConnections ==
    ASSUME NEW c \in Session, connection(c), NEW s \in Session, NEW r \in Room, Followed(s, r),
           QueueInv
    PROVE  Followed(s, r)'
<1>1. rooms' = rooms /\ operator' = operator /\ at' = at /\ notices \subseteq notices'
  BY DEF connection, close, teardown, server
<1>2. Noticed(s, r) => Noticed(s, r)'
  BY <1>1 DEF Noticed
<1>3. Present(s, r) => Present(s, r)' \/ Noticed(s, r)'
  <2>1. CASE close(c)
    BY <1>1, <2>1 DEF close, Present, QueueInv
  <2>2. CASE teardown(c) /\ c = s
    <3> SUFFICES ASSUME Present(s, r) PROVE Noticed(s, r)'
      OBVIOUS
    <3>1. [to |-> r, sess |-> s, by |-> "session"] \in notices'
      BY <2>2, HubAssumption DEF teardown, notify, Present
    <3> QED
      BY <3>1 DEF Noticed
  <2>3. CASE teardown(c) /\ c # s
    BY <1>1, <2>3 DEF teardown, Present, QueueInv
  <2> QED
    BY <2>1, <2>2, <2>3 DEF connection
<1> QED
  BY <1>1, <1>2, <1>3, RoomLeft

\* A notice that is delivered tells the room; one that is dropped had no room to tell.
LEMMA SeatsOfNotices ==
    ASSUME HubInv, MailInv, deliver, NEW s \in Session, NEW r \in Room, Followed(s, r)
    PROVE  Followed(s, r)'
<1>1. PICK n \in notices : sendReliably(n)
  BY DEF deliver
<1>2. /\ n.to \in Room /\ n.sess \in Session
      /\ at' = at /\ conn' = conn /\ operator' = operator /\ notices' = notices \ {n}
  BY <1>1 DEF sendReliably, MailInv, Notice, server
<1>3. /\ Present(s, r) => Present(s, r)'
      /\ Noticed(s, r) => Noticed(s, r)' \/ (n.to = r /\ n.sess = s)
  BY <1>2 DEF Present, Noticed
<1>4. CASE over(n.to) /\ rooms' = rooms
  <2>1. n.to = r => ~SeatIn(s, r)'
    BY <1>2, <1>4 DEF SeatIn, over, stopped
  <2>2. rooms'[r] = rooms[r]
    BY <1>4
  <2>3. Noticed(s, r) => Noticed(s, r)' \/ ~SeatIn(s, r)'
    BY <1>3, <2>1
  <2> QED
    BY <1>2, <1>3, <2>2, <2>3, RoomLeft
<1>5. CASE put(n.to, Input("disconnect", n.sess, FALSE))
  <2> DEFINE m == Input("disconnect", n.sess, FALSE)
  <2>1. m \in Sent
    BY <1>2, InputIsSent DEF Kind
  <2>2. GetsOne(n.to, m)
    BY <1>2, <1>5, <2>1, PutFacts
  <2>3. ASSUME n.to = r, n.sess = s
        PROVE  Told(s, r)'
    <3> DEFINE box == rooms[r].inbox
    <3>1. m.type = "disconnect" /\ m.sess = s
      BY <2>3 DEF Input
    <3>2. box \in Seq(Sent) /\ m \in Sent /\ rooms'[r].inbox = Append(box, m)
      BY <2>2, <2>3 DEF GetsOne, MailInv
    <3> HIDE DEF m
    <3>3. Len(box) + 1 \in DOMAIN Append(box, m) /\ Append(box, m)[Len(box) + 1] = m
      BY <3>2
    <3> QED
      BY <3>1, <3>2, <3>3 DEF Told, Parts
  <2>4. Noticed(s, r) => Noticed(s, r)' \/ Told(s, r)'
    BY <1>3, <2>3
  <2> QED
    BY <1>2, <1>3, <1>5, <2>1, <2>4, RoomPutTo
<1> QED
  BY <1>1, <1>4, <1>5 DEF sendReliably

\* A timer gives up only the seats of those away, and a room that takes itself apart has
\* ended; the other rooms keep whoever is theirs.
LEMMA SeatsOfRooms ==
    ASSUME HubInv, MailInv, NEW q \in Room, timers(q) \/ unwind(q),
           NEW s \in Session, NEW r \in Room, Followed(s, r)
    PROVE  Followed(s, r)'
<1>1. conn' = conn /\ operator' = operator /\ notices' = notices
  BY DEF timers, unwind, noticeCancel, evict, refusePending, server
<1>2. Noticed(s, r) => Noticed(s, r)'
  BY <1>1 DEF Noticed
<1>3. CASE q # r
  <2>1. rooms'[r] = rooms[r]
    BY <1>3 DEF timers, unwind, noticeCancel, evict, refusePending, HubInv, HubShape
  <2>2. at[s] = r => at'[s] = r
    BY <1>3 DEF timers, unwind, noticeCancel, evict, refusePending, MailInv
  <2>3. Present(s, r) => Present(s, r)'
    BY <1>1, <2>2 DEF Present
  <2> QED
    BY <1>1, <1>2, <2>1, <2>3, RoomLeft
<1>4. CASE q = r /\ timers(r)
  <2>1. at' = at /\ rooms[r].phase = "running" /\ DOMAIN rooms[r] = Fields
    BY <1>4 DEF timers, running, HubInv, HubShape
  <2> DEFINE x == [rooms[r] EXCEPT !.live = FALSE,
                      !.phase = IF rooms[r].bot THEN "cancelled" ELSE @]
             w == [rooms[r] EXCEPT !.seats = Seated(r), !.away = {},
                      !.live = @ /\ Cardinality(Seated(r)) >= 2]
             z == [rooms[r] EXCEPT !.phase = "cancelled"]
             thins(v) == v.cut = rooms[r].cut /\ v.seats \ v.away = Seated(r)
                         /\ v.inbox = rooms[r].inbox
  <2>2. thins(x) /\ thins(w) /\ thins(z) /\ DOMAIN w = Fields
    BY <2>1, FieldNames DEF Seated
  <2>3. thins(settled(w))
    <3> HIDE DEF w
    <3> QED
      BY <2>2, FieldNames DEF settled
  <2>4. rooms'[r] \in {x, settled(w), z}
    BY <1>4 DEF timers, HubInv, HubShape
  <2>5. rooms'[r].cut = rooms[r].cut /\ Seated(r)' = Seated(r) /\ rooms'[r].inbox = rooms[r].inbox
    <3> HIDE DEF x, w, z
    <3> QED
      BY <2>2, <2>3, <2>4 DEF Seated
  <2>6. SeatIn(s, r)' => SeatIn(s, r)
    BY <1>1, <2>1, <2>5 DEF SeatIn, over, stopped
  <2>7. (Told(s, r) => Told(s, r)') /\ (Present(s, r) => Present(s, r)')
    BY <1>1, <2>1, <2>5 DEF Told, Present
  <2> QED
    BY <1>2, <2>6, <2>7, SeatsLeft
<1>5. CASE q = r /\ unwind(r)
  <2>1. rooms'[r].phase # "running"
    BY <1>5, FieldNames DEF unwind, noticeCancel, evict, refusePending, HubInv, HubShape
  <2> QED
    BY <2>1 DEF Followed, SeatIn, over
<1> QED
  BY <1>3, <1>4, <1>5

\* The operator gives nobody a seat.
LEMMA SeatsOfOperator ==
    ASSUME HubInv, operate \/ ended \/ UNCHANGED vars,
           NEW s \in Session, NEW r \in Room, Followed(s, r)
    PROVE  Followed(s, r)'
<1>1. /\ conn' = conn /\ at' = at /\ notices' = notices
      /\ operator = "stopped" => operator' = "stopped"
  BY DEF operate, startDraining, shutdown, cancel, ended, vars, server
<1>2. rooms'[r] \in {rooms[r], [rooms[r] EXCEPT !.cut = TRUE]}
  BY DEF operate, startDraining, shutdown, cancel, ended, vars
<1>3. DOMAIN rooms[r] = Fields
  BY DEF HubInv, HubShape
<1>4. \A f \in Fields \ {"cut"} : rooms'[r][f] = rooms[r][f]
  BY <1>2, <1>3
<1>5. rooms[r].cut => rooms'[r].cut
  BY <1>2, <1>3, FieldNames
<1>6. SeatIn(s, r)' => SeatIn(s, r)
  BY <1>1, <1>4, <1>5, FieldNames DEF SeatIn, over, Seated, stopped
<1>7. Told(s, r) => Told(s, r)'
  BY <1>4, FieldNames DEF Told
<1>8. (Present(s, r) => Present(s, r)') /\ (Noticed(s, r) => Noticed(s, r)')
  BY <1>1 DEF Present, Noticed
<1> QED
  BY <1>6, <1>7, <1>8, SeatsLeft

\* A connection seated in a room that has not ended either still has that room for its
\* own or the room is being told otherwise, for any number of connections and rooms,
\* inboxes of any size and any delay of the notices.
THEOREM SeatsAreFollowedAlways == Spec => []SeatsAreFollowed
<1> DEFINE AllFollowed == \A s \in Session, r \in Room : Followed(s, r)
<1>1. Init => AllFollowed
  <2> SUFFICES ASSUME Init, NEW s \in Session, NEW r \in Room PROVE Followed(s, r)
    OBVIOUS
  <2> QED
    BY DEF Init, Unborn, Followed, SeatIn, Seated
<1>2. PostInv /\ AllFollowed /\ [Next]_vars => AllFollowed'
  <2> SUFFICES ASSUME PostInv, AllFollowed, [Next]_vars, NEW s \in Session, NEW r \in Room
               PROVE  Followed(s, r)'
    OBVIOUS
  <2>0. Followed(s, r) /\ HubInv /\ QueueInv /\ MailInv
    BY DEF PostInv
  <2>1. ASSUME NEW c \in Session, connection(c) \/ request(c) \/ dispatch(c)
        PROVE  Followed(s, r)'
    BY <2>0, <2>1, SeatsOfConnections, SeatsOfRequests
  <2>2. ASSUME NEW q \in Room, handle(q)
        PROVE  Followed(s, r)'
    <3>1. HubInv'
      BY <2>0, <2>2, HandleIsQuiet, QuietKeeps
    <3> QED
      BY <2>0, <2>2, <3>1, SeatElsewhere, SeatHere DEF FollowedOn
  <2>3. ASSUME NEW q \in Room, timers(q) \/ unwind(q)
        PROVE  Followed(s, r)'
    BY <2>0, <2>3, SeatsOfRooms
  <2>4. CASE deliver
    BY <2>0, <2>4, SeatsOfNotices
  <2>5. CASE operate \/ ended \/ UNCHANGED vars
    BY <2>0, <2>5, SeatsOfOperator
  <2> QED
    BY <2>1, <2>2, <2>3, <2>4, <2>5 DEF Next
<1>3. AllFollowed => SeatsAreFollowed
  BY DEF SeatsAreFollowed, Followed, SeatIn, Present, Noticed, Told, Parts
<1> HIDE DEF AllFollowed
<1> QED
  BY <1>1, <1>2, <1>3, PostInvariance, PTL DEF Spec
=============================================================================
