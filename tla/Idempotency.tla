----------------------------- MODULE Idempotency -----------------------------
(***************************************************************************)
(* POST /v1/ingest with an Idempotency-Key: run_once and IdempotencyStore  *)
(* (src/app/core/idempotency.py) around ingest_chunk                       *)
(* (src/app/services/ingestion.py), for all the requests of one caller     *)
(* that carry one key.  Redis holds one entry for the key.  Every Redis    *)
(* command and every await of the action is a step of its own.  Expiry is  *)
(* untimed: an entry that was set with EX may run out at any moment its    *)
(* duration allows.                                                        *)
(***************************************************************************)
EXTENDS FiniteSets, Naturals

CONSTANTS
  Requests,    \* HTTP requests with the key; also their tokens and row ids
  BodyOf,      \* [Requests -> bodies]: what fingerprint() distinguishes
  NoRequest,
  Faults       \* what may go wrong, a subset of FaultKinds

FaultKinds ==
  { "redis",         \* a command fails, or is applied and its reply is lost
    "crash",         \* the process serving a request dies
    "early_failure", \* the action raises or is cancelled before its commit
    "late_failure",  \* ... after its commit (refresh, cancellation)
    "slow",          \* a claim runs out while its owner still works
    "ttl" }          \* a finished entry reaches idempotency_ttl_seconds

ASSUME IdempotencyAssumption ==
  /\ NoRequest \notin Requests
  /\ Faults \subseteq FaultKinds
  /\ DOMAIN BodyOf = Requests

VARIABLES
  entry,      \* the key's value in Redis
  pc,         \* per request: where its handler is
  attempt,    \* per request: the loop counter of begin()
  outcome,    \* per request: the HTTP answer
  reply,      \* per request: the row id in a 200 answer
  rows,       \* requests whose row is committed in document_chunks
  forgotten,  \* ghost: a committed row's outcome is not remembered (any more)
  overrun     \* ghost: a claim ran out under a request that was still working

vars == <<entry, pc, attempt, outcome, reply, rows, forgotten, overrun>>

Absent == [state |-> "absent", owner |-> NoRequest, ex |-> "none"]

(* SET NX EX idempotency_lock_seconds; the token is the request itself.    *)
ClaimOf(r) == [state |-> "in_progress", owner |-> r, ex |-> "lock"]

(* SET EX idempotency_ttl_seconds                                          *)
DoneBy(r) == [state |-> "done", owner |-> r, ex |-> "ttl"]

Holds(r) == entry.state = "in_progress" /\ entry.owner = r

Working(r) == pc[r] \in {"work", "committed", "complete", "abort"}

TypeOK ==
  /\ entry \in [state : {"absent", "in_progress", "done"},
                owner : Requests \cup {NoRequest}, ex : {"none", "lock", "ttl"}]
  /\ pc \in [Requests -> {"claim", "read", "work", "committed", "complete", "abort", "end"}]
  /\ attempt \in [Requests -> {1, 2}]
  /\ outcome \in [Requests -> {"none", "ok", "replay", "conflict", "mismatch",
                               "unavailable", "error", "gone"}]
  /\ reply \in [Requests -> Requests \cup {NoRequest}]
  /\ rows \subseteq Requests
  /\ forgotten \in BOOLEAN
  /\ overrun \in BOOLEAN

Init ==
  /\ entry = Absent
  /\ pc = [r \in Requests |-> "claim"]
  /\ attempt = [r \in Requests |-> 1]
  /\ outcome = [r \in Requests |-> "none"]
  /\ reply = [r \in Requests |-> NoRequest]
  /\ rows = {}
  /\ forgotten = FALSE
  /\ overrun = FALSE

Goto(r, l) ==
  /\ pc' = [pc EXCEPT ![r] = l]
  /\ UNCHANGED <<attempt, outcome, reply>>

Answer(r, what, row) ==
  /\ pc' = [pc EXCEPT ![r] = "end"]
  /\ outcome' = [outcome EXCEPT ![r] = what]
  /\ reply' = [reply EXCEPT ![r] = row]
  /\ UNCHANGED attempt

-----------------------------------------------------------------------------
(* begin()                                                                 *)

(* Faulty: SET without NX. *)
ClaimOverwriting(r) ==
  /\ pc[r] = "claim"
  /\ entry' = ClaimOf(r)
  /\ Goto(r, "work")
  /\ UNCHANGED <<rows, forgotten, overrun>>

(* Faulty: SET NX without EX. *)
ClaimForEver(r) ==
  /\ pc[r] = "claim"
  /\ IF entry = Absent
     THEN entry' = [ClaimOf(r) EXCEPT !.ex = "none"] /\ Goto(r, "work")
     ELSE UNCHANGED entry /\ Goto(r, "read")
  /\ UNCHANGED <<rows, forgotten, overrun>>

Claim(r) ==
  /\ pc[r] = "claim"
  /\ IF entry = Absent
     THEN entry' = ClaimOf(r) /\ Goto(r, "work")
     ELSE UNCHANGED entry /\ Goto(r, "read")
  /\ UNCHANGED <<rows, forgotten, overrun>>

(* The SET is applied and its reply is lost.  The caller gets a 503, or the *)
(* Redis client sends the SET again, which finds the orphaned claim.        *)
ClaimReplyLost(r) ==
  /\ "redis" \in Faults
  /\ pc[r] = "claim"
  /\ entry' = IF entry = Absent THEN ClaimOf(r) ELSE entry
  /\ Answer(r, "unavailable", NoRequest) \/ Goto(r, "read")
  /\ UNCHANGED <<rows, forgotten, overrun>>

(* Faulty: the fingerprint is not compared. *)
ReadIgnoringBody(r) ==
  /\ pc[r] = "read"
  /\ entry # Absent
  /\ IF entry.state = "done" THEN Answer(r, "replay", entry.owner)
     ELSE Answer(r, "conflict", NoRequest)
  /\ UNCHANGED <<entry, rows, forgotten, overrun>>

(* Faulty: begin() retries the gap for as long as it lasts. *)
ReadRetryingForEver(r) ==
  /\ pc[r] = "read"
  /\ entry = Absent
  /\ attempt' = [attempt EXCEPT ![r] = @ + 1]
  /\ pc' = [pc EXCEPT ![r] = "claim"]
  /\ UNCHANGED <<entry, outcome, reply, rows, forgotten, overrun>>

(* The GET after a refused claim; the entry may have changed in between.   *)
Read(r) ==
  /\ pc[r] = "read"
  /\ IF entry = Absent
     THEN \/ /\ attempt[r] = 1
             /\ attempt' = [attempt EXCEPT ![r] = 2]
             /\ pc' = [pc EXCEPT ![r] = "claim"]
             /\ UNCHANGED <<outcome, reply>>
          \/ attempt[r] = 2 /\ Answer(r, "unavailable", NoRequest)
     ELSE IF BodyOf[entry.owner] # BodyOf[r] THEN Answer(r, "mismatch", NoRequest)
     ELSE IF entry.state = "done" THEN Answer(r, "replay", entry.owner)
     ELSE Answer(r, "conflict", NoRequest)
  /\ UNCHANGED <<entry, rows, forgotten, overrun>>

(* Faulty: without Redis the request runs unprotected. *)
BeginFailsOpen(r) ==
  /\ "redis" \in Faults
  /\ pc[r] \in {"claim", "read"}
  /\ Goto(r, "work")
  /\ UNCHANGED <<entry, rows, forgotten, overrun>>

(* RedisError or OSError with nothing applied: 503, nothing was run.       *)
BeginFails(r) ==
  /\ "redis" \in Faults
  /\ pc[r] \in {"claim", "read"}
  /\ Answer(r, "unavailable", NoRequest)
  /\ UNCHANGED <<entry, rows, forgotten, overrun>>

-----------------------------------------------------------------------------
(* the action: ingest_chunk                                                *)

(* embed, add, commit: the row is visible when the commit is applied.      *)
Commit(r) ==
  /\ pc[r] = "work"
  /\ rows' = rows \cup {r}
  /\ Goto(r, "committed")
  /\ UNCHANGED <<entry, forgotten, overrun>>

(* refresh returned: the action hands its body to run_once.                *)
Return(r) ==
  /\ pc[r] = "committed"
  /\ Goto(r, "complete")
  /\ UNCHANGED <<entry, rows, forgotten, overrun>>

(* The action raised or was cancelled, before or after its commit took     *)
(* effect; run_once cannot tell and releases the key either way.           *)
ActionFails(r) ==
  /\ \/ pc[r] = "work" /\ "early_failure" \in Faults /\ UNCHANGED forgotten
     \/ pc[r] = "committed" /\ "late_failure" \in Faults /\ forgotten' = TRUE
  /\ Goto(r, "abort")
  /\ UNCHANGED <<entry, rows, overrun>>

-----------------------------------------------------------------------------
(* complete() and abort(): shielded, so a cancelled request still does them *)

(* The SET compares nothing: it also replaces a claim taken over by another *)
(* request.                                                                 *)
Complete(r) ==
  /\ pc[r] = "complete"
  /\ entry' = DoneBy(r)
  /\ Answer(r, "ok", r)
  /\ UNCHANGED <<rows, forgotten, overrun>>

(* The response could not be stored: logged, the caller gets its 200.      *)
CompleteLost(r) ==
  /\ "redis" \in Faults
  /\ pc[r] = "complete"
  /\ Answer(r, "ok", r)
  /\ forgotten' = TRUE
  /\ UNCHANGED <<entry, rows, overrun>>

(* Faulty: GET-then-DEL without the token. *)
AbortAnyClaim(r) ==
  /\ pc[r] = "abort"
  /\ entry' = IF entry.state = "in_progress" THEN Absent ELSE entry
  /\ Answer(r, "error", NoRequest)
  /\ UNCHANGED <<rows, forgotten, overrun>>

(* _RELEASE_LUA: only our own claim, only while it is in progress.         *)
Abort(r) ==
  /\ pc[r] = "abort"
  /\ entry' = IF Holds(r) THEN Absent ELSE entry
  /\ Answer(r, "error", NoRequest)
  /\ UNCHANGED <<rows, forgotten, overrun>>

AbortLost(r) ==
  /\ "redis" \in Faults
  /\ pc[r] = "abort"
  /\ Answer(r, "error", NoRequest)
  /\ UNCHANGED <<entry, rows, forgotten, overrun>>

-----------------------------------------------------------------------------
(* the environment                                                         *)

(* The process dies, or the task is cancelled inside begin(), where no     *)
(* handler releases the claim.                                             *)
Crash(r) ==
  /\ "crash" \in Faults
  /\ pc[r] # "end"
  /\ forgotten' = (forgotten \/ pc[r] \in {"committed", "complete"})
  /\ Answer(r, "gone", NoRequest)
  /\ UNCHANGED <<entry, rows, overrun>>

(* idempotency_lock_seconds outlasts the work unless "slow" is allowed.    *)
ExpireClaim ==
  /\ entry.state = "in_progress" /\ entry.ex = "lock"
  /\ Working(entry.owner) => "slow" \in Faults
  /\ entry' = Absent
  /\ overrun' = (overrun \/ Working(entry.owner))
  /\ UNCHANGED <<pc, attempt, outcome, reply, rows, forgotten>>

ExpireDone ==
  /\ "ttl" \in Faults
  /\ entry.state = "done" /\ entry.ex = "ttl"
  /\ entry' = Absent
  /\ forgotten' = TRUE
  /\ UNCHANGED <<pc, attempt, outcome, reply, rows, overrun>>

Step(r) ==
  \/ Claim(r) \/ ClaimReplyLost(r) \/ Read(r) \/ BeginFails(r)
  \/ Commit(r) \/ Return(r) \/ ActionFails(r)
  \/ Complete(r) \/ CompleteLost(r) \/ Abort(r) \/ AbortLost(r)

Next ==
  \/ \E r \in Requests : Step(r) \/ Crash(r)
  \/ ExpireClaim \/ ExpireDone

Spec == Init /\ [][Next]_vars

(* Redis runs its expiry timers, and the handler of a request that is not   *)
(* killed goes on: embed, commit and every Redis command have timeouts.     *)
FairSpec == Spec /\ WF_vars(ExpireClaim) /\ \A r \in Requests : WF_vars(Step(r))

-----------------------------------------------------------------------------
(* run_once: "Run `action` at most once per (subject, key)"                *)
(* (idempotency.py:180), whatever goes wrong.                              *)
AtMostOnce == Cardinality(rows) <= 1

(* What the code does guarantee: a second row needs a claim that ran out   *)
(* under its owner, or an outcome that was not remembered.                 *)
OnceUnlessForgotten ==
  \A r, s \in rows : r = s \/ forgotten \/ overrun

(* A working request loses its claim only to its expiry or to a finished   *)
(* result: no claim and no release of another request takes it away        *)
(* (idempotency.py:24-25 and 85-86).                                       *)
ClaimIsPrivate ==
  [][\A r \in Requests :
       Holds(r) /\ Working(r) /\ pc'[r] = pc[r] /\ ~Holds(r)'
         => (entry' = Absent /\ pc' = pc) \/ entry'.state = "done"]_vars

(* "of any number of simultaneous requests with the same key, exactly one  *)
(* wins the claim", and without Redis callers "get an error ... instead of *)
(* silently running without protection" (idempotency.py:18-19 and 31-33):  *)
(* no two requests work at once, through lost replies, the gap between SET *)
(* and GET, releases and forgotten outcomes, until a claim runs out under  *)
(* its owner.                                                              *)
WorkIsExclusive ==
  \A r, s \in Requests : Working(r) /\ Working(s) => r = s \/ overrun

(* "a server that dies mid-request can't block the key forever"            *)
(* (idempotency.py:22-23).                                                 *)
ClaimsEnd == (entry.state = "in_progress") ~> (entry.state # "in_progress")

(* Seen through its rows and answers, the code keeps the promise of        *)
(* OnceContract: answers come from a request with the same body.           *)
Once == INSTANCE OnceContract WITH exposed <- (forgotten \/ overrun)
ImplementsOnce == Once!Spec
=============================================================================
