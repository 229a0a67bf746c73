------------------------------- MODULE Slots -------------------------------
(***************************************************************************)
(* The connection slots of handleWS (internal/wsapi/server.go): a request  *)
(* is counted before the socket is upgraded, first against the whole       *)
(* server and then against its address, and what it took is given back by  *)
(* deferred calls whichever way the handler returns.  One handler          *)
(* goroutine serves each request; the two counters are shared.             *)
(***************************************************************************)
EXTENDS Integers, FiniteSets

CONSTANTS
    Handler,      \* the requests to /ws in flight at once
    addressOf(_), \* clientIP of a request
    Caps,         \* the values of Config.MaxConnections considered
    MaxPerAddress \* Config.MaxConnectionsPerIP; 0 turns the cap off

ASSUME CapsAreCounts ==
    IsFiniteSet(Handler) /\ Caps \subseteq Nat \ {0} /\ MaxPerAddress \in Nat

VARIABLES
    stage,     \* where each handler is
    maxConns,  \* Server.maxConns, set once from the configuration
    conns,     \* Server.conns
    connsByIP  \* Server.connsByIP

slotVars == <<stage, maxConns, conns, connsByIP>>

Address == {addressOf(h) : h \in Handler}

\* "away": no request.  "counted": past the server's cap.  "upgrading":
\* holding a slot of its address.  "serving": inside session.run.
\* "releasing" and "uncounting": the deferred calls that are left to run.
Stage == {"away", "counted", "upgrading", "serving", "releasing", "uncounting"}

SlotsInit ==
    /\ stage = [h \in Handler |-> "away"]
    /\ maxConns \in Caps
    /\ conns = 0
    /\ connsByIP = [a \in Address |-> 0]

moveTo(h, s) == stage' = [stage EXCEPT ![h] = s]

\* The request is counted first and refused after, so the test and the count
\* are one atomic add: a refused request holds a unit until it takes it back.
count(h) ==
    /\ stage[h] = "away"
    /\ conns' = conns + 1
    /\ moveTo(h, IF conns + 1 > maxConns THEN "uncounting" ELSE "counted")
    /\ UNCHANGED <<maxConns, connsByIP>>

\* Mutant of reserveIP: a handler refused for its address does not count itself out.
reserveIPLeaky(h) ==
    LET a == addressOf(h) IN
    /\ stage[h] = "counted"
    /\ IF MaxPerAddress > 0 /\ connsByIP[a] >= MaxPerAddress
       THEN moveTo(h, "away") /\ UNCHANGED connsByIP
       ELSE /\ moveTo(h, "upgrading")
            /\ connsByIP' = IF MaxPerAddress = 0 THEN connsByIP
                            ELSE [connsByIP EXCEPT ![a] = @ + 1]
    /\ UNCHANGED <<maxConns, conns>>

\* reserveIP, under its own mutex.  With the cap off nothing is counted.
reserveIP(h) ==
    LET a == addressOf(h) IN
    /\ stage[h] = "counted"
    /\ IF MaxPerAddress > 0 /\ connsByIP[a] >= MaxPerAddress
       THEN moveTo(h, "uncounting") /\ UNCHANGED connsByIP
       ELSE /\ moveTo(h, "upgrading")
            /\ connsByIP' = IF MaxPerAddress = 0 THEN connsByIP
                            ELSE [connsByIP EXCEPT ![a] = @ + 1]
    /\ UNCHANGED <<maxConns, conns>>

\* websocket.Accept upgrades the request, or has already refused it (a wrong
\* origin, a request that is no handshake).
upgrade(h) ==
    /\ stage[h] = "upgrading"
    /\ moveTo(h, "serving")
    /\ UNCHANGED <<maxConns, conns, connsByIP>>

rejected(h) ==
    /\ stage[h] = "upgrading"
    /\ moveTo(h, "releasing")
    /\ UNCHANGED <<maxConns, conns, connsByIP>>

\* session.run has returned.
served(h) ==
    /\ stage[h] = "serving"
    /\ moveTo(h, "releasing")
    /\ UNCHANGED <<maxConns, conns, connsByIP>>

\* defer s.releaseIP(ip), which was only deferred when the cap is on.
releaseIP(h) ==
    /\ stage[h] = "releasing"
    /\ moveTo(h, "uncounting")
    /\ connsByIP' = IF MaxPerAddress = 0 THEN connsByIP
                    ELSE [connsByIP EXCEPT ![addressOf(h)] = @ - 1]
    /\ UNCHANGED <<maxConns, conns>>

\* defer s.conns.Add(-1), or the decrement of a refused request.
uncount(h) ==
    /\ stage[h] = "uncounting"
    /\ moveTo(h, "away")
    /\ conns' = conns - 1
    /\ UNCHANGED <<maxConns, connsByIP>>

SlotsNext ==
    \E h \in Handler :
        \/ count(h) \/ reserveIP(h) \/ upgrade(h) \/ rejected(h)
        \/ served(h) \/ releaseIP(h) \/ uncount(h)

SlotsSpec == SlotsInit /\ [][SlotsNext]_slotVars

-----------------------------------------------------------------------------

holding(a) ==
    {h \in Handler : /\ addressOf(h) = a
                     /\ stage[h] \in {"upgrading", "serving", "releasing"}}

\* Every slot is accounted for: the counters are exactly the handlers that
\* took a unit and have not given it back, whichever way they are returning,
\* so no refusal or early end leaks one; and neither cap is ever exceeded by
\* sockets being served, however the counting of several requests interleaves.
SlotsAddUp ==
    /\ conns = Cardinality({h \in Handler : stage[h] # "away"})
    /\ MaxPerAddress > 0 =>
         \A a \in Address : /\ connsByIP[a] = Cardinality(holding(a))
                            /\ connsByIP[a] <= MaxPerAddress
    /\ Cardinality({h \in Handler : stage[h] = "serving"}) <= maxConns
=============================================================================
