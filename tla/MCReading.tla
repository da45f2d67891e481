------------------------------ MODULE MCReading ------------------------------
(* A document of three chunks and the one-chunk copy that may replace it,   *)
(* another document of two, and a chunk that comes from no document.  Two   *)
(* passages, or three candidates for the cross-encoder.  Distance 0 passes  *)
(* the gate, 1 is within the context ceiling, 2 is beyond it.               *)
EXTENDS Reading

CONSTANTS c1, c2, c3, d1, e1, e2, loose

PositionOf ==
  [c \in Chunks |-> CASE c = c1 -> <<1, 0>> [] c = c2 -> <<1, 1>> [] c = c3 -> <<1, 2>>
                       [] c = d1 -> <<2, 0>>
                       [] c = e1 -> <<3, 0>> [] c = e2 -> <<3, 1>>
                       [] c = loose -> NoPosition]

DistancesOf ==
  [c \in Chunks |-> CASE c \in {c1, c2} -> {0, 1, 2}
                       [] c = c3 -> {0, 2} [] c = e1 -> {0, 1}
                       [] c = d1 -> {0} [] c = e2 -> {2} [] c = loose -> {1}]

Denominators == 61 * 62 * 63
=============================================================================
