----------------------------- MODULE OnceContract -----------------------------
(***************************************************************************)
(* The promise of run_once (src/app/core/idempotency.py:180): requests     *)
(* that carry one key store at most one row, and whoever is answered gets  *)
(* the row of a request with the same body.  `exposed` marks that the      *)
(* promise no longer holds, because the outcome was not remembered or a    *)
(* claim ran out under its owner: only then may another row appear.        *)
(***************************************************************************)
CONSTANTS Requests, BodyOf, NoRequest
VARIABLES rows, reply, exposed

vars == <<rows, reply, exposed>>

Init ==
  /\ rows = {}
  /\ reply = [r \in Requests |-> NoRequest]
  /\ exposed = FALSE

Store(r) ==
  /\ rows = {} \/ exposed
  /\ rows' = rows \cup {r}
  /\ UNCHANGED <<reply, exposed>>

Answer(r) ==
  /\ reply[r] = NoRequest
  /\ \E s \in rows : BodyOf[s] = BodyOf[r] /\ reply' = [reply EXCEPT ![r] = s]
  /\ exposed' \in {exposed, TRUE}
  /\ UNCHANGED rows

Expose ==
  /\ exposed' = TRUE
  /\ UNCHANGED <<rows, reply>>

Next == Expose \/ \E r \in Requests : Store(r) \/ Answer(r)

Spec == Init /\ [][Next]_vars
=============================================================================
