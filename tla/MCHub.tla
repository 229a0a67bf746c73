-------------------------------- MODULE MCHub --------------------------------
(***************************************************************************)
(* Hub.tla with two connections and two rooms.  a, which may be lost at    *)
(* any time, asks for a match or a room of its own and then for another    *)
(* room, a game, or to leave; b asks once.                                 *)
(***************************************************************************)
EXTENDS Hub

CONSTANTS a, b

MCAsks ==
    [s \in Session |->
        IF s = a THEN <<{"quick", "create"}, {"bot", "start", "leave", "play"}>>
        ELSE <<{"quick", "join", "cancel"}>>]
=============================================================================
