------------------------------ MODULE LlmClient ------------------------------
(***************************************************************************)
(* OllamaClient and AnthropicChatClient (src/app/llm): every call runs     *)
(* `retry` (src/app/core/resilience.py:17-38) inside the client's one      *)
(* circuit breaker, so the breaker hears of a call once, after its last    *)
(* attempt, and a stream only of its opening.  embed() goes to Ollama with *)
(* either provider.  A text is a sequence of "w" (anything that is not     *)
(* white space) and "_" (white space).                                     *)
(***************************************************************************)
EXTENDS CircuitBreaker, SequencesExt

CONSTANTS
  MaxRetries,   \* ollama_max_retries
  Pieces,       \* the texts one line of a stream may carry
  MaxText       \* bound: the longest text of a stream

ASSUME ClientAssumption ==
  /\ MaxRetries \in Nat \ {0}
  /\ MaxText \in Nat
  /\ Pieces \subseteq Seq({"w", "_"})

VARIABLES
  provider,  \* LLM_PROVIDER
  task       \* per task of the event loop: the call it makes, or made last

clientVars == <<vars, provider, task>>

(* What an attempt can end with.  "refused": ConnectError, ConnectTimeout; *)
(* "lost": any other TransportError, the request may have got through;     *)
(* "busy": 429, overloaded or 5xx; "rejected": another status or a body    *)
(* that is no answer.                                                      *)
Failures == {"refused", "lost", "busy", "rejected"}

(* The generations a failed attempt may have cost: none when there was no  *)
(* connection; any other request may have reached the model.               *)
MayGenerate(why) == IF why = "refused" THEN {0} ELSE {0, 1}

NoTask ==
  [job |-> "none", phase |-> "idle", attempt |-> 0, generations |-> 0, turned |-> 0,
   fed |-> <<>>, pending |-> <<>>, sent |-> <<>>, end |-> "none"]

ClientInit ==
  /\ Init
  /\ provider \in {"ollama", "anthropic"}
  /\ task = [c \in Callers |-> NoTask]

(* Faulty: a chat is retried after a read timeout, as an embed is.         *)
RetryableAlways(job) ==
  {"refused", "lost"} \cup IF provider = "anthropic" THEN {"busy"} ELSE {}

(* _EMBED_RETRYABLE and the two _CHAT_RETRYABLE.                           *)
Retryable(job) ==
  IF job = "embed" THEN {"refused", "lost"}
  ELSE {"refused"} \cup IF provider = "anthropic" THEN {"busy"} ELSE {}

IsAt(c, phase) == task[c].phase = phase

(* A step of the call that task c makes.                                   *)
Becomes(c, t) == task' = [task EXCEPT ![c] = t]

(* breaker.call lets the call through and `retry` makes its first attempt. *)
Call(c, job) ==
  /\ IsAt(c, "idle")
  /\ Begin(c)
  /\ Becomes(c, [NoTask EXCEPT !.job = job, !.phase = "trying", !.attempt = 1])
  /\ UNCHANGED provider

(* CircuitOpenError: no attempt is made.                                   *)
Refuse(c, job) ==
  /\ IsAt(c, "idle")
  /\ FailFast(c)
  /\ Becomes(c, [NoTask EXCEPT !.job = job, !.end = "error"])
  /\ UNCHANGED provider

(* A failed attempt is slept off when its kind is retryable and attempts   *)
(* are left; otherwise it is the failure of the call.  `turned` (a ghost)  *)
(* counts the attempts made again because the API answered "busy".         *)
AttemptFails(c, why) ==
  /\ IsAt(c, "trying")
  /\ c \in tainted
  /\ \E made \in MayGenerate(why) :
       IF why \in Retryable(task[c].job) /\ task[c].attempt < MaxRetries
       THEN /\ Becomes(c, [task[c] EXCEPT !.phase = "sleeping", !.generations = @ + made,
                                           !.turned = IF why = "busy" THEN @ + 1 ELSE @])
            /\ UNCHANGED vars
       ELSE /\ Becomes(c, [task[c] EXCEPT !.phase = "idle", !.generations = @ + made,
                                           !.end = "error"])
            /\ Fail(c)
  /\ UNCHANGED provider

(* asyncio.sleep returns: the next attempt meets the service as it is now. *)
Wake(c) ==
  /\ IsAt(c, "sleeping")
  /\ Becomes(c, [task[c] EXCEPT !.phase = "trying", !.attempt = @ + 1])
  /\ tainted' = IF up THEN tainted \ {c} ELSE tainted \cup {c}
  /\ UNCHANGED <<failures, openFor, seen, up, provider>>

(* embed() and chat(): a whole response.  Vectors of a wrong length raise  *)
(* after the breaker has counted a success.                                *)
Answered(c, end) ==
  /\ IsAt(c, "trying")
  /\ task[c].job # "stream"
  /\ end = "error" => task[c].job = "embed"
  /\ Succeed(c)
  /\ Becomes(c, [task[c] EXCEPT !.phase = "idle", !.generations = @ + 1, !.end = end])
  /\ UNCHANGED provider

(* chat_stream(): the open response is all the breaker hears of.           *)
Opened(c) ==
  /\ IsAt(c, "trying")
  /\ task[c].job = "stream"
  /\ Succeed(c)
  /\ Becomes(c, [task[c] EXCEPT !.phase = "streaming", !.generations = @ + 1])
  /\ UNCHANGED provider

-----------------------------------------------------------------------------
(* str.strip and its halves.                                               *)
Visible(text) == {i \in DOMAIN text : text[i] = "w"}
LStrip(text) ==
  IF Visible(text) = {} THEN <<>> ELSE SubSeq(text, Min(Visible(text)), Len(text))
RStrip(text) ==
  IF Visible(text) = {} THEN <<>> ELSE SubSeq(text, 1, Max(Visible(text)))
Strip(text) == LStrip(RStrip(text))

(* StreamTrimmer.feed: the part of the text that can go out now.           *)
Feed(t, piece) ==
  LET buffered == t.pending \o piece
      body == RStrip(buffered)
      held == SubSeq(buffered, Len(body) + 1, Len(buffered))
  IN  IF t.sent # <<>> THEN [body |-> body, pending |-> held]
      ELSE [body |-> LStrip(body), pending |-> IF body = <<>> THEN <<>> ELSE held]

Piece(c, piece) ==
  /\ IsAt(c, "streaming")
  /\ Len(task[c].fed) + Len(piece) <= MaxText
  /\ LET fed == Feed(task[c], piece) IN
     Becomes(c, [task[c] EXCEPT !.fed = @ \o piece, !.pending = fed.pending,
                                !.sent = @ \o fed.body])
  /\ UNCHANGED <<vars, provider>>

(* What chat() returns for the text of a whole response: TRUNCATED_NOTE on *)
(* a paragraph of its own when the Anthropic model hit max_tokens.         *)
WholeText(text, cut) == Strip(text) \o IF cut THEN <<"_", "note">> ELSE <<>>

(* `done`, message_stop or the end of the body, then the truncation note.  *)
StreamEnds(c, cut) ==
  /\ IsAt(c, "streaming")
  /\ cut => provider = "anthropic"
  /\ LET t == task[c]
         note == CASE ~cut -> <<>> [] cut /\ t.sent = <<>> -> <<"note">> [] OTHER -> <<"_", "note">>
     IN  Becomes(c, [t EXCEPT !.phase = "idle", !.sent = @ \o note,
                              !.end = IF cut THEN "cut" ELSE "ok"])
  /\ UNCHANGED <<vars, provider>>

(* Faulty: a broken stream is opened again and goes on from the top.       *)
StreamReopened(c) ==
  /\ IsAt(c, "streaming")
  /\ Becomes(c, [task[c] EXCEPT !.fed = <<>>, !.pending = <<>>])
  /\ UNCHANGED <<vars, provider>>

(* An error line or event, a dropped connection or a read timeout between  *)
(* two lines: raised as it is, unknown to the breaker and to `retry`.      *)
StreamBreaks(c) ==
  /\ IsAt(c, "streaming")
  /\ Becomes(c, [task[c] EXCEPT !.phase = "idle", !.end = "error"])
  /\ UNCHANGED <<vars, provider>>

(* The task is cancelled in an attempt, which may have got through, in the *)
(* sleep or between two pieces of a stream, which is closed.               *)
Hangup(c) ==
  /\ c \in Impatient
  /\ ~IsAt(c, "idle")
  /\ IF IsAt(c, "streaming") THEN UNCHANGED vars ELSE Cancel(c)
  /\ \E made \in IF IsAt(c, "trying") THEN {0, 1} ELSE {0} :
       Becomes(c, [task[c] EXCEPT !.phase = "idle", !.generations = @ + made, !.end = "error"])
  /\ UNCHANGED provider

ServiceChanges == (Tick \/ GoDown \/ ComeUp) /\ UNCHANGED <<provider, task>>

ClientNext ==
  \/ \E c \in Callers :
       \/ \E job \in {"embed", "chat", "stream"} : Call(c, job) \/ Refuse(c, job)
       \/ \E why \in Failures : AttemptFails(c, why)
       \/ \E end \in {"ok", "error"} : Answered(c, end)
       \/ Wake(c) \/ Opened(c)
       \/ \E piece \in Pieces : Piece(c, piece)
       \/ \E cut \in BOOLEAN : StreamEnds(c, cut)
       \/ StreamBreaks(c) \/ Hangup(c)
  \/ ServiceChanges

ClientSpec == ClientInit /\ [][ClientNext]_clientVars

-----------------------------------------------------------------------------
(* "re-sending the same prompt would stack a second generation on top of   *)
(* the first" (ollama.py:12-16): a chat or stream whose attempt is lost is *)
(* never sent again, so Ollama generates at most once for it.  The         *)
(* Anthropic client also sends again what the API answered with 429,       *)
(* "overloaded" or 5xx (anthropic.py:30-35), and such a request may have   *)
(* generated: one more generation for each of these answers, and no more.  *)
NoStackedGeneration ==
  \A c \in Callers : task[c].job \in {"chat", "stream"} =>
    /\ task[c].generations <= 1 + task[c].turned
    /\ provider = "ollama" => task[c].generations <= 1

(* "the pieces joined together equal what chat() would return"             *)
(* (ollama.py:131-133, anthropic.py:114): at any moment the caller holds a *)
(* beginning of the answer, and at a regular end the whole of it, up to    *)
(* the white space before a note that stands alone.  A stream that breaks  *)
(* never shows text twice.                                                 *)
StreamedOnce ==
  \A c \in Callers : LET t == task[c] IN
    t.job = "stream" =>
      /\ t.end \in {"ok", "cut"} =>
           \/ t.sent = WholeText(t.fed, t.end = "cut")
           \/ t.sent = <<"note">> /\ Strip(t.fed) = <<>> /\ t.end = "cut"
      /\ t.end \notin {"ok", "cut"} => t.sent = Strip(t.fed)
=============================================================================
