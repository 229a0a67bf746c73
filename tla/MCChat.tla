------------------------------- MODULE MCChat -------------------------------
(* Three seats, a window of two lines and a room that lives for three: one *)
(* line leaves the window, while its author is there or after they have     *)
(* gone.                                                                    *)
EXTENDS Chat

seats == 1 .. 3
=============================================================================
