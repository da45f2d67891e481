----------------------------- MODULE TokenBucket -----------------------------
(***************************************************************************)
(* A token bucket as the docstring of src/app/core/rate_limit.py:3-6       *)
(* describes it, kept for ever and refilled continuously: it starts full,  *)
(* gains one unit per tick up to its capacity and loses Cost units per     *)
(* request served.  A clock that steps back can only cost it tokens.       *)
(***************************************************************************)
EXTENDS Naturals

CONSTANTS Capacity, Cost
VARIABLE level

Init == level = Capacity

Refill == level < Capacity /\ level' = level + 1

Spend == level >= Cost /\ level' = level - Cost

ClockSteppedBack == level' \in 0..level

Spec == Init /\ [][Refill \/ Spend \/ ClockSteppedBack]_level
=============================================================================
