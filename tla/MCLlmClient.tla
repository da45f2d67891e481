----------------------------- MODULE MCLlmClient -----------------------------
(* One task and its calls one after the other, against the defaults of the *)
(* settings: five failures, thirty seconds of recovery and three attempts. *)
EXTENDS LlmClient

CONSTANT c1
One == {c1}
ShortPieces == {<<>>, <<"w">>, <<"_">>, <<"_", "w">>, <<"w", "_">>}
=============================================================================
