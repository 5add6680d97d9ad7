------------------------- MODULE MCSessionLifecycle -------------------------
(* Small instances of SessionLifecycle.                                     *)
EXTENDS SessionLifecycle

CONSTANTS s1, s2, r1, r2, r3

OneSession == {s1}
TwoSessions == {s1, s2}
TwoRequests == {r1, r2}
ThreeRequests == {r1, r2, r3}
=============================================================================
