-------------------------------- MODULE Conn --------------------------------
(***************************************************************************)
(* handleWS with session.run inside it: several requests share the slots,  *)
(* and the one under study serves a Session.  Its slots come back only     *)
(* when that session's five goroutines are done.                           *)
(***************************************************************************)
EXTENDS Slots, Session

CONSTANT focus   \* the handler whose session is followed

ASSUME FocusIsAHandler == focus \in Handler

vars == <<slotVars, sessionVars>>

Init == SlotsInit /\ SessionInit

\* A request of another connection, or this one up to its upgrade.
request(h) ==
    /\ \/ count(h) \/ reserveIP(h) \/ rejected(h) \/ releaseIP(h) \/ uncount(h)
       \/ h # focus /\ (upgrade(h) \/ served(h))
    /\ UNCHANGED sessionVars

\* newSession and run: the socket is open and its goroutines start.
starts == upgrade(focus) /\ fresh

returns == (releaseIP(focus) \/ uncount(focus)) /\ UNCHANGED sessionVars

\* run has returned, and the handler goes on to its deferred calls.
\* The session is garbage then: nothing reads it again.
ends == served(focus) /\ reader = "over" /\ forgotten

serves == stage[focus] = "serving" /\ SessionNext /\ UNCHANGED slotVars

Next ==
    \/ \E h \in Handler : request(h)
    \/ starts \/ ends \/ serves

\* Every goroutine of the session runs on, and its timeouts pass: the reader
\* outside Read, the writer, the watcher, the keepalive ticker and the hello
\* timer; and so does a sender that is about to close it.  A handler's deferred
\* calls run.  Nothing is assumed of the peer, of the rooms, or of new requests.
Fairness ==
    /\ WF_vars(serves /\ (readFails \/ readerCloses \/ runReturns))
    /\ WF_vars(serves /\ writerStep)
    /\ WF_vars(serves /\ cancelRead)
    /\ WF_vars(serves /\ ping)
    /\ WF_vars(serves /\ timerStep)
    /\ WF_vars(serves /\ sendCloses)
    /\ WF_vars(ends \/ returns)

Spec == Init /\ [][Next]_vars
FairSpec == Spec /\ Fairness

\* Nobody holds a slot for good: a session that is cancelled, or too slow for
\* its outbox, ends and gives its slots back, whatever its peer is doing by then; so
\* does one whose peer falls silent for good, and one that never says Hello.
SlotsComeBack ==
    /\ stage[focus] = "serving" /\ (closing \/ ctx = "done") ~> stage[focus] = "away"
    /\ stage[focus] = "serving" /\ ~greeted ~> greeted \/ stage[focus] = "away"
    /\ []<>(peer # "stalled" \/ stage[focus] # "serving")
=============================================================================
