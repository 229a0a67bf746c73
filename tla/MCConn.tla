------------------------------- MODULE MCConn -------------------------------
(* Two requests from one address, which may hold one connection, against a  *)
(* server that takes one connection or two: with one the second request is  *)
(* over the server's cap, with two it is over its address's.  The followed  *)
(* request is "a".  The outbox holds one frame and rooms offer two, so a    *)
(* game frame, a chat line and a refusal each meet a full outbox, and with  *)
(* the refusal in it a game frame can follow one that was refused.          *)
EXTENDS Conn

requests == {"a", "b"}
sharedAddress(h) == "shared"
=============================================================================
