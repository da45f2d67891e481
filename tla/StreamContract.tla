--------------------------- MODULE StreamContract ---------------------------
(***************************************************************************)
(* What /v1/query/stream promises its reader                               *)
(* (src/app/api/v1/router.py:233-252): meta always first, then the text,   *)
(* then at most one verification (passed or blocked), done always last on  *)
(* success, and no done after an error.  A refusal is meta and then done,  *)
(* here "refused"; any other done follows some text (a model that writes   *)
(* nothing at all is left out).  A reader may leave at any point and see   *)
(* nothing more.                                                           *)
(***************************************************************************)
CONSTANT Streams

VARIABLE event  \* per stream: the kind of the last event sent

Kinds == {"meta", "token", "passed", "blocked", "done", "refused", "error"}

Before(kind) ==
  CASE kind = "meta" -> {"none"}
    [] kind = "token" -> {"meta", "token"}
    [] kind \in {"passed", "blocked"} -> {"token"}
    [] kind = "done" -> {"token", "passed", "blocked"}
    [] kind = "refused" -> {"meta"}
    [] kind = "error" -> {"meta", "token"}

Init == event = [s \in Streams |-> "none"]

Send(s, kind) ==
  /\ event[s] \in Before(kind)
  /\ event' = [event EXCEPT ![s] = kind]

Next == \E s \in Streams, kind \in Kinds : Send(s, kind)

Spec == Init /\ [][Next]_event
=============================================================================
