------------------------------- MODULE Access -------------------------------
(***************************************************************************)
(* Who may call what: tokens (src/app/core/auth.py, src/app/api/auth.py)   *)
(* and the checks of a route (src/app/api/deps.py), across restarts with   *)
(* other settings.  A configuration is [enabled, realm, length, clients,   *)
(* ttl]: `realm` stands for JWT_SECRET, its algorithm, issuer and audience *)
(* together, `length` for the characters of the secret, and clients maps   *)
(* an id to [secret, scopes].                                              *)
(***************************************************************************)
EXTENDS Integers, FiniteSets

CONSTANTS
  Absent,
  Configs,     \* settings the API may be started with, valid or not
  ClientIds,
  Secrets,     \* what may be sent as a client secret
  Steps,       \* seconds the clock moves at once
  MaxClock,    \* bound: seconds
  MaxTokens    \* bound: tokens that are kept

ASSUME AccessAssumption ==
  /\ Absent \notin Configs
  /\ \A c \in Configs : c.ttl \in Nat /\ DOMAIN c.clients \subseteq ClientIds
  /\ "anonymous" \notin ClientIds  \* the name a call gets while there is no authentication
  /\ Steps \subseteq Nat

ALL_SCOPES == {"query", "ingest"}
MIN_SECRET_CHARS == 32
LEEWAY_SECONDS == 10

VARIABLES
  config,      \* Absent while the API does not run
  clock,
  tokens,      \* issued: [realm, sub, scopes, iat, exp]
  reply,       \* to the last request
  allowed      \* <<client, scope, realm>> -> the last second settings gave that right

accessVars == <<config, clock, tokens, reply, allowed>>

NoReply == [status |-> 0, sub |-> Absent, scope |-> Absent]
Reply(status, sub, scope) == [status |-> status, sub |-> sub, scope |-> scope]

(* The rights a configuration gives, and when each was last given.         *)
Rights(c) ==
  IF c = Absent \/ ~c.enabled THEN {}
  ELSE UNION {{<<id, s, c.realm>> : s \in c.clients[id].scopes} : id \in DOMAIN c.clients}
LastAllowed(c, now) ==
  [r \in DOMAIN allowed \cup Rights(c) |-> IF r \in Rights(c) THEN now ELSE allowed[r]]

AccessInit == config = Absent /\ clock = 0 /\ tokens = {} /\ reply = NoReply /\ allowed = <<>>

(* validate_auth_settings: the API does not start misconfigured.           *)
Starts(c) ==
  c.enabled => /\ c.length >= MIN_SECRET_CHARS
               /\ \A id \in DOMAIN c.clients : /\ c.clients[id].scopes # {}
                                               /\ c.clients[id].scopes \subseteq ALL_SCOPES

(* The process ends, or starts with the settings it finds.                 *)
Restart ==
  /\ \/ config = Absent /\ config' \in {c \in Configs : Starts(c)}
     \/ config # Absent /\ config' = Absent
  /\ allowed' = LastAllowed(config', clock)
  /\ reply' = NoReply
  /\ UNCHANGED <<clock, tokens>>

ClockAdvances ==
  /\ \E s \in Steps : clock' = clock + s
  /\ clock' <= MaxClock
  /\ allowed' = LastAllowed(config, clock')
  /\ reply' = NoReply
  /\ UNCHANGED <<config, tokens>>

-----------------------------------------------------------------------------
(* verify_client: an unknown id is compared with a dummy and still refused.*)
verify_client(id, secret) == id \in DOMAIN config.clients /\ config.clients[id].secret = secret

(* Faulty: one permitted scope is enough to ask for more.                  *)
PermittedIfAny(requested, own) == requested \cap own # {}

Permitted(requested, own) == requested # {} /\ requested \subseteq own

create_access_token(sub, scopes) ==
  [realm |-> config.realm, sub |-> sub, scopes |-> scopes,
   iat |-> clock, exp |-> clock + config.ttl]

(* POST /auth/token; a scope that is not named means all there are.        *)
IssueToken ==
  /\ config # Absent
  /\ \E id \in ClientIds, secret \in Secrets, scope \in {Absent} \cup SUBSET ALL_SCOPES :
       LET known == config.enabled /\ verify_client(id, secret)
           own == config.clients[id].scopes
           requested == IF scope = Absent THEN own ELSE scope
       IN  \/ /\ known /\ Permitted(requested, own)
              /\ Cardinality(tokens) < MaxTokens
              /\ tokens' = tokens \cup {create_access_token(id, requested)}
              /\ reply' = Reply(200, id, Absent)
           \/ /\ ~(known /\ Permitted(requested, own))
              /\ reply' = Reply(IF ~config.enabled THEN 404 ELSE IF known THEN 400 ELSE 401, Absent, Absent)
              /\ UNCHANGED tokens
  /\ UNCHANGED <<config, clock, allowed>>

(* decode_access_token: signature, issuer, audience, and the times.        *)
Accepted(t) ==
  /\ t.realm = config.realm
  /\ t.exp > clock - LEEWAY_SECONDS
  /\ t.iat <= clock + LEEWAY_SECONDS

(* A call of a route that needs `scope`, with a token or without one.      *)
CallRoute ==
  /\ config # Absent
  /\ \E scope \in ALL_SCOPES, t \in tokens \cup {Absent} :
       reply' = IF ~config.enabled THEN Reply(200, "anonymous", scope)
                ELSE IF t = Absent THEN Reply(401, Absent, scope)
                ELSE IF ~Accepted(t) THEN Reply(401, Absent, scope)
                ELSE IF scope \notin t.scopes THEN Reply(403, t.sub, scope)
                ELSE Reply(200, t.sub, scope)
  /\ UNCHANGED <<config, clock, tokens, allowed>>

AccessNext == Restart \/ ClockAdvances \/ IssueToken \/ CallRoute

AccessSpec == AccessInit /\ [][AccessNext]_accessVars

-----------------------------------------------------------------------------
Ttls == {c.ttl : c \in Configs}

(* "A short-lived signed token" is the only thing that outlives a change   *)
(* of AUTH_CLIENTS: a client is served with a scope only if settings with  *)
(* the present secret gave it that scope within the last lifetime of a     *)
(* token and the leeway; and without any, only while authentication is off *)
(* (auth.py:3-22, 126-184; api/auth.py:35-42).                             *)
RevocationTakesEffect ==
  (reply.status = 200 /\ reply.scope # Absent) =>
    IF reply.sub = "anonymous" THEN ~config.enabled
    ELSE LET right == <<reply.sub, reply.scope, config.realm>> IN
         /\ right \in DOMAIN allowed
         /\ \E ttl \in Ttls : clock - allowed[right] < ttl + LEEWAY_SECONDS
=============================================================================
