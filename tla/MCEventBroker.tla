--------------------------- MODULE MCEventBroker ---------------------------
(* Small instances of EventBroker.                                          *)
EXTENDS EventBroker

CONSTANTS p1, p2, s1

TwoPublishers == {p1, p2}
OneSubscriber == {s1}
=============================================================================
