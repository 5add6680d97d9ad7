---------------------------- MODULE MCClientView ----------------------------
(* Two sessions, one with room for a second task.                           *)
EXTENDS ClientView

CONSTANTS s1, s2

OneLonger == [s \in Sessions |-> IF s = s1 THEN 4 ELSE 2]
=============================================================================
