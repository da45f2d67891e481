--------------------------- MODULE MCCircuitBreaker ---------------------------
(* Small instances of CircuitBreaker, with the plausible bugs its          *)
(* properties must detect.                                                 *)
EXTENDS CircuitBreaker

CONSTANTS c1, c2, c3
Two == {c1, c2}
Three == {c1, c2, c3}
Hangers == {c2}
=============================================================================
