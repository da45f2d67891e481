# Verification of AeroIntel

AeroIntel answers aviation-maintenance questions from ingested manuals: an
asyncio FastAPI service over Postgres (pgvector), Redis and a model server
(Ollama or Anthropic). This directory holds TLA+ models of its protocols and of
the algorithms its answers depend on, the TLC configurations that check them,
and TLAPS proofs of what holds for every size. Paths are relative to the
repository.

    tlc -workers 2 -config MCAnswers.cfg MCAnswers     # any run: module + cfg
    tlapm ManualProofs.tla                             # any *Proofs module

## 1. Inventory

### Components, their state and operations

| Component | State it keeps | Operations | Correct when |
|---|---|---|---|
| Circuit breaker (`app/core/resilience.py`) | `_failures`, `_opened_at`; per call the state read before its `await` | `call`: begin, fail fast, succeed, fail, be cancelled; the clock | opens at the threshold, gets to a probe again, closes once the service is back |
| Idempotency keys (`app/core/idempotency.py`, `POST /v1/ingest`) | one Redis entry per (subject, key): absent, in progress with a token, done with a result | `begin`, `complete`, `abort`, `run_once`; expiry | one row per key; nobody's claim is taken; no claim for ever |
| Rate limiter (`app/core/rate_limit.py`, `app/api/deps.py`) | one Redis hash per client: tokens and time stamp | the Lua script, `hit`, `enforce_rate_limit`; EXPIRE | never more than bucket + refill, Retry-After is enough |
| Documents (`app/services/documents.py`, `scripts/mark_superseded.py`) | `documents` (unique hash) and `document_chunks` rows | `ingest_pdf` with or without `replace`, marking | stored fully and once; never missing |
| Answering (`app/services/generation.py`, `app/api/v1/router.py`) | per request: passages, text, checks, connection | `prepare_answer`, `answer_question`, `query_stream` | checked, complete, from the passages shown; events in order |
| Answer cache (`app/core/answer_cache.py`) | Redis lists per bucket, newest first | `lookup`, `store` | shares sound texts with equivalent questions only |
| Retrieval (`hybrid.py`, `pipeline.py`, `retrieval.py`, `reranking.py`, `context.py` in `app/services`) | none; per question the ranked lists | vector, keyword, fuse, rerank, gate, expand | same refusal as vector search; ordered, gap-free, one copy |
| Embedding backfill (`scripts/backfill_embeddings.py`) | `embedding`, `embedding_model` of each chunk; the run's list of ids | scan, embed, commit per batch, re-run | tags honest, a clean run complete, no mix after the switch and one more run |
| Model clients (`app/llm/*.py`) | an HTTP client and a breaker each | `embed`, `chat`, `chat_stream` | retry only what is safe, inside one breaker call |
| PDF text and chunking (`pdf_text.py`), OCR (`ocr.py`) | none; from pages to rows | strip repeated edges, page labels, headers, repair, split, pack, OCR of blank pages | no sentence lost, chunks within their bound, only furniture removed |
| Safety warnings (`warnings.py`) | none; one read per question | find, join neighbours, cap, merge, mark cited | every warning in a read passage comes back whole, once, at its place |
| Figure check (`verification.py`), answerability (`answerability.py`) | none | `verify_answer`, `question_terms`, `term_chunk_counts`, `judge` | returned only when backed by what is cited; spelling never makes a word unknown |
| Revision notes (`revisions.py`) | the `documents` rows | `find_source_revisions` | newer means newer, superseded is said |
| Authentication and scopes (`core/auth.py`, `api/auth.py`, `api/deps.py`) | the settings the API was started with; tokens with the clients | issue a token, call a route, restart | a right that was taken away ends with the tokens that carry it |
| Configuration, logging, health, schemas, prompts, migrations, evals | none that changes while the service runs | - | - |

### How they interact

A question runs `enforce_rate_limit` (Redis, through a breaker), then
`prepare_answer`: embed (model, through its breaker), SELECTs at READ COMMITTED
on one pooled connection, a commit that releases it, the answer check (model),
then the cache (Redis, through a breaker), the model again, the figure check and
the store. `ingest_pdf` prepares without a connection and then writes in one
transaction, so it may commit between any two SELECTs of a question.
`/v1/ingest` wraps its work in `run_once`. `backfill_embeddings.py` and
`mark_superseded.py` are separate processes on the same tables.

### Where it is hard

- A coroutine reads shared state, awaits, and acts on what it read: the breaker,
  `begin()`'s SET NX then GET, find-then-insert of a document, search-then-read
  of its revision.
- Redis and Postgres commands whose effect happens and whose reply is lost.
- Processes that die between claim, commit and completion, or between batches.
- Claims, keys and buckets that expire while somebody still relies on them.
- Readers that hang up in the middle of a stream, cancelling the generator.
- Limits: one connection in the pool, a bucket of cache entries, a budget of
  neighbours, rounding in Retry-After and in EXPIRE, the size of a chunk and the
  text carried over into the next.
- A retry that may repeat what the server is already doing; a stream that breaks
  when half of it has been read.
- Text that spans what the code cuts: a warning over three chunks and a page, a
  unit printed once for a range, a revision that only the changed pages name.
- Tokens that outlive the settings they were issued under.

`PROJECT.json` lists each of these as a hazard at its line, with the properties
that cover it.

## 2. Modules

| Module | Role |
|---|---|
| `BreakerContract` | abstract: the breaker of the docstring, one call at a time |
| `CircuitBreaker` | the breaker shared by interleaved calls; `Contract!Spec` is its refinement |
| `OnceContract` | abstract: rows stored and answers given for one key |
| `Idempotency` | `run_once` and `ingest_chunk`, one action per Redis command or await |
| `TokenBucket` | abstract: a bucket that is kept for ever |
| `RateLimiter` | the Lua script, the expiring key, the degraded modes |
| `GuardProofs` | theorems about `Idempotency` and `RateLimiter` |
| `Documents` | uploads, replacements and marks as transactions |
| `DocumentsProofs` | theorems about it |
| `StreamContract` | abstract: the event grammar of a stream |
| `Answers` | concurrent questions, the cache, one connection pool, replaced documents |
| `AnswersProofs` | theorems about it |
| `Reading` | one question's way from two rankings to its passages |
| `ReadingProofs` | theorems about it, resting on `ListProofs` |
| `Backfill` | a model upgrade |
| `BackfillProofs` | theorems about it |
| `LlmClient` | `CircuitBreaker` with what runs in it: `retry`, `embed`, `chat`, `chat_stream` |
| `Lists` | operators: picking, selecting and adding up along a list |
| `ListProofs` | what these return, for lists of any length; induction over numbers |
| `PdfText` | operators: lines to pages to chunks, revision and key of a document |
| `Warnings` | operators over `PdfText`'s chunks: the labelled safety text |
| `Manual` | one PDF from upload to the warnings beside an answer |
| `ManualProofs` | theorems about it and `PdfText`, resting on `ListProofs` |
| `Figures`, `Answerability` | operators: the two checks by code |
| `Question` | one question through both |
| `Revisions` | the library of documents and the note of an answer |
| `Access` | tokens, routes and restarts |
| `ChecksProofs` | theorems about `CircuitBreaker` and `LlmClient`, `Access`, `Revisions` and `Question` |
| `MCChecks` | composes `Manual`, `Question`, `Revisions`, `Access` and `LlmClient` for TLC, one line of work per behaviour |
| other `MC*` | constants for TLC |

A definition under a comment `Faulty:` is a plausible bug of the definition after
it. No specification uses it; putting it in that definition's place must break
the property named beside it in `PROJECT.json`.

### How state and actions correspond to the code

**CircuitBreaker.** `failures` is `_failures`. `openFor` replaces `_opened_at` by
the age of the stamp in ticks, capped at the recovery window, beyond which the
code cannot tell ages apart. `seen[c]` is the state a caller read at
`resilience.py:66` before its `await`; decisions after the `await` use `seen`,
not the present state, as lines 73-87 do. `up` and `tainted` are the service: a
call fails only if the service was down at some moment of it. `Cancel` is
`CancelledError`, which is no `Exception` and records nothing.

**Idempotency.** `entry` is the Redis value with the kind of its expiry. `pc`
walks `run_once`: `Claim` (SET NX), `Read` (GET, once more on a vanished entry),
`Commit`/`Return`/`ActionFails` (`ingest_chunk`: the commit, then `refresh`),
`Complete`, `Abort` (`_RELEASE_LUA`). The `*Lost` actions are commands whose
reply is lost or that never reach Redis. `forgotten` and `overrun` are ghosts
that record the two events after which a second row is possible.

**RateLimiter.** Levels are in units that one clock tick refills, which keeps the
script's floating-point rates as integers. `Level` is the refill on read (lines
43-54), `Store` writes tokens, time and EXPIRE. `served` and `forward` are ghosts
of an observation window that may begin at any moment.

**Documents.** Each call is `Find` (read the hash), `Prepare` (extract and embed,
no transaction open), `Delete`, `Insert` (the flush where the unique constraint
decides), `Commit`, `Refind` (after IntegrityError). `MustWait` is Postgres:
a DELETE or an INSERT waits for the transaction whose uncommitted row it meets.

**Answers.** `pc` names the await a request is at; each action is the code up to
the next one. A text is identified by the request whose model call wrote it, a
prompt by its passages. `checks` fixes the result of the figure check per text
and question. `Replace` may happen anywhere.

**Reading.** One SELECT per action, as in the code; `rrf_fuse`, `select_context`
and `plan_neighbours` are the operators of the same name. Scores are exact:
`Scale` is a common multiple of the denominators `k + rank`, and the floating
sums of two such fractions do not round two different scores together at these
ranks. Vector search with hybrid off is the case of an empty keyword list. `Keep` is
the list comprehension that leaves out what is not stored, or too far; the plan is
a function of the number of turns taken.

**LlmClient.** `task[c]` is one call: `trying` and `sleeping` alternate inside the
one `breaker.call` (`Begin` .. `Succeed`/`Fail` of `CircuitBreaker`), so a
breaker failure is an exhausted retry. `generations` counts what attempts may have
cost, answered or not: no generation without a connection, none or one otherwise.
`turned` is a ghost that counts the attempts made again because the Anthropic API
answered 429, "overloaded" or 5xx. `fed`, `pending`, `sent` are the lines read, the
`StreamTrimmer` buffer and what went out; text is visible or white space, which
is all the trimmer sees. `embed` goes to Ollama under either provider, and chat
and embed of Ollama share one breaker (`ollama.py:58`).

**PdfText, Warnings, Manual.** A sentence is a unit with an identity, its words
and their lengths in characters, and the kind the patterns of the source would
give it (plain, heading, item, label, banner). `alnum_count`, `_chunk_sentences`
and the others are the same loops, as functions of the number of turns taken where
they carry state from turn to turn, with the source's thresholds. `Extract`,
`Chunk`, `Read`, `Cite` are the calls in `ingest_pdf` and `prepare_answer` and
`mark_cited` in `answer_question`; OCR may fail on any page, and between `Chunk`
and `Read` the neighbours' rows may go. A line is one sentence: sentences
broken over lines are joined before anything is decided on them, and hyphens are
left out.

**Figures, Answerability, Question.** A figure is the integer and decimal places
it is printed with, its unit as spelled, and whether a dash joins it to the next.
Citations are ranges; the order in which cited blocks and figures are listed is left
out. `UNIT_SPELLINGS` holds a few spellings of each kind of unit
(the source's table has more of the same). The reference in
`ChecksKeepTheirWord` compares numbers by cross-multiplication and units by
spelling, independent of the canonical forms the code computes.

**Revisions.** `library` is the `documents` table; `Row` computes revision, date
and key from the pages' headers with `PdfText`'s operators. `LoadSources` and
`FindNewer` are the two SELECTs; rows loaded by the first keep their values in the
second (the session's identity map).

**Access.** `config` is what the process started with; a token carries the realm
(secret, algorithm, issuer, audience) it was signed in. `allowed` is a ghost: the
last second at which the settings gave a client a scope.

**Backfill.** A row is its vector's model and its tag. `Scan` reads the ids once;
`Load`..`Commit` is one batch's transaction; `Crash` ends a run at any await.
`BeginIngest` and `EndIngest` are the embedding and the commit of an upload, which
stores with the model its process was started with; `Flip` changes the setting of
the next. `settled` is a ghost: the scan came after the flip and after the last
ingest begun under the old setting.
A row deleted after the load makes the flush fail (StaleDataError): a `Crash`.

## 3. Runs

| Run | Module / cfg | Properties | Bounds |
|---|---|---|---|
| breaker_shared | MCCircuitBreaker / MCBreakerShared | ThresholdOpens, FailureBudget, OpenEnds, Recovers | 3 callers, threshold 2, window 2 |
| checks | MCChecks / MCChecks | PagesSurviveChunking, WarningsComplete, BlocksAreTrue, WarningsToldOnce, ChecksKeepTheirWord, NotesAreTrue, RevocationTakesEffect, NoStackedGeneration, StreamedOnce, ImplementsContract | 3 PDFs, up to 2 passages; 3 questions, 2 prompts, 1296 answers; 5 editions, 4 uploads; 5 settings, 1 token, 40 s; 1 caller, threshold 5, 3 attempts, streams of 4 |
| breaker_two_probes | MCCircuitBreaker / MCBreakerTwoProbes | OneProbeDecides (violated) | 2 callers |
| idempotency | MCIdempotency / MCIdempotency | TypeOK, OnceUnlessForgotten, WorkIsExclusive, ClaimIsPrivate, ClaimsEnd, ImplementsOnce | a request, its retry, one with another body; every fault |
| idempotency_at_most_once | MCIdempotency / MCIdempotencyLateFailure | AtMostOnce (violated) | 3 retries, only late failures |
| rate_limiter | RateLimiter / MCRateLimiter | WindowBound, RetryAfterIsEnough, ImplementsBucket | capacity 5, cost 2, 3 ticks a second, clock to 14 |
| documents | MCDocuments / MCDocuments | FullyIngestedOnce, ReplacementsAreExclusive, NeverMissing, IngestsEnd | 2 uploads, 2 replacements, 2 marks |
| documents_mark | MCDocuments / MCDocumentsMark | MarkLasts (violated) | 1 upload, 1 replacement, 1 mark |
| answers | MCAnswers / MCAnswers | OnlySoundTextIsShared, ReusedTextFits, UncheckedNeverAnswered, ModelsNeverHoldConnections, ImplementsStream, RequestsEnd | 3 requests (one a stream), 3 questions, 2 copies, 1 connection |
| answers_sources | MCAnswers / MCAnswersSources | SourcesListWhatWasRead (violated) | as answers |
| reading | MCReading / MCReading | HybridKeepsTheGate, WideningKeepsTheText, BudgetIsShared, OneCopyIsRead | 7 chunks of 3 documents and none, top 2 (3 candidates) |
| backfill | MCBackfill / MCBackfill | TagsAreHonest, CleanRunDidItsRows, SecondRunLeavesNoMix | 5 rows, batches of 2 |

What they show, and why these bounds:

- **breaker_shared.** However late results interleave, a counter at the threshold
  means an opened circuit and exceeds it by no more than the calls in flight;
  stamping the window again by late failures does not keep it open for ever.
  Three callers are one more than the threshold, so a call begun while closed may
  end after others opened the circuit and a probe was admitted.
- **checks.** A behaviour follows one of five lines of work, which share no state.
  *Manual:* whatever the chunk size, the overlap, the mode and the pages OCR
  fails on, no sentence is lost but page furniture and slivers, and a chunk is at
  most `max_chars` plus the carried overlap (plus a folded tail); every label in a
  passage that was read comes back with the whole text printed under it, from
  chunks and pages before and after; merged sightings keep true blocks and
  marks, and each warning is told once, the severest and the cited ones first. The PDFs have warnings across two chunks and across pages, banners, a
  sentence longer than a chunk, short sentences, a split word, scans, running
  headers that change with a revision, and a body line equal to a header.
  *Question:* every answer of two figures and any citation of the list is returned
  exactly when the reference says it is backed. *Revisions:* any order of uploads,
  replacements and marks around both SELECTs. *Access:* settings with a client or
  a scope removed, another secret, authentication off, and two that must not
  start. *Client:* with one caller the breaker around `retry` keeps the contract
  of its docstring at the default threshold and window; a chat or
  stream costs Ollama one generation at most, and the Anthropic API one more for
  each retried answer; what a stream sent is always a beginning of what `chat` would
  return.
- **idempotency.** A second row for one key needs a lost outcome or a claim that
  ran out under its owner; no two requests work at once unless a
  claim ran out under its owner; claims end; an answer
  always comes from a request with the same body. Two equal bodies and one other
  give every pair of roles: owner and retry, owner and stranger.
- **rate_limiter.** Capacity 5 at cost 2 and 3 ticks a second makes every
  division inexact. EXPIRE lasts 9 ticks, so a clock of 14 reaches refusals, full
  refills, expiry and a bucket reborn. The bound is for strict mode: with
  RATE_LIMIT_FAIL_OPEN an outage is unlimited by design.
- **documents.** Two replacements of the same copy beside two uploads is the
  smallest case in which a loser's DELETE matches no row while another upload
  waits at the unique index. No lock cycle arises, so every call ends.
- **answers.** Two equivalent questions and one that differs in a guard word give
  hits, refused hits and eviction (two entries per bucket, three writers). One
  connection makes any request that held it during a model call block the others.
- **reading.** Three documents' worth of positions let hits be each other's
  continuations, a budget end within a turn, and two hits compete for it; a
  replaced copy has its own chunk so that a mixture would show. Distances 0, 1, 2
  stand for within the gate, within the context ceiling and beyond it.
- **backfill.** Three batches (2, 2, 1) let a run die before, between and after
  commits, with rows ingested and deleted at any moment, the flip after any clean
  run, and further runs before and after it. Rows are interchangeable (symmetry; no liveness is checked there).

`LimiterTypeOK` of RateLimiter and `TypeOK` of CircuitBreaker, Documents, Answers,
Backfill and Reading state the ranges of their variables for a reader and for proofs; the properties listed are
the ones that say something about the code.

CHECK_DEADLOCK is off where all requests of a behaviour come to their end (the
idempotency, documents, answers, reading and checks runs). Elsewhere the system always
has a step.

### Fairness

Liveness is checked under weak fairness of each request's own steps only: every
await on a model, a Redis command, a statement or the pool has a timeout in the
code, so it ends in some way. In the breaker the clock runs, calls end, and callers that
are not `Impatient` keep asking (without traffic an open circuit cannot be
probed; `Recovers` is about traffic that goes on). In Idempotency Redis expires
in-progress keys. Nothing is assumed of the service behind a breaker, of readers,
of crashes, or of Postgres beyond granting a lock whose holder is gone.

### Where code and documents disagree

- **Two probes.** "One probe call decides" (`resilience.py:45-46`); several may be
  admitted in one window, and a late one re-opens a circuit another has closed.
- **At most once.** `run_once` says "at most once" (`idempotency.py:180`); an
  action that fails after its commit releases the key, and the retry stores a
  second row. What does hold is `OnceUnlessForgotten`, and that is proved.
- **Superseded mark.** `mark_superseded.py:7-9` says every answer will carry the
  mark; re-ingesting the file with `replace` drops it.
- **Sources.** "For each document an answer reads, the response says which revision
  it is, when it was stored, and whether a newer revision of the same document is
  stored or this one is marked superseded" (`revisions.py:5-7`); a replacement
  between the search and `find_source_revisions` leaves the document out of
  `sources`. The passages still carry its revision and issue date in their metadata
  (`router.py:142-153`, `generation.py:268-271`); the date it was stored, the
  superseded mark and the note of a newer revision are lost.

Observed and not made a run: "Re-embed every row under it" and "only flip ... after
a clean run" (`backfill_embeddings.py:13-18`) do not say that what is ingested after
the run's scan (line 64) keeps the old model's vector. After the flip searches, which
do not look at `embedding_model`, compare it with vectors of the new model: in
Backfill, `configured = Target` does not imply that every vector is the target's.
What does hold is `SecondRunLeavesNoMix`: a further clean run, begun after the flip
and after the last old ingest, leaves none. A planned neighbour that does not exist (the hit was
the document's last chunk) still uses up budget in `plan_neighbours`.
Met while modelling the text, and stated with its true bound in the properties:

- A chunk that begins with carried overlap takes the next sentence without a
  second look at its size (`pdf_text.py:557`): it may exceed `max_chars`, "up to"
  which line 507 says chunks go, by the overlap.
- A carried sentence of fewer than 20 characters is not recognised as overlap when
  chunks are joined (`warnings.py:42-44`, 165-170), so a warning may hold it
  twice. `WithoutEchoes` in `WarningsComplete` allows this; without it TLC finds
  the repeated sentence.
- When a replacement commits between the search and the lookup of neighbours, a
  warning is its beginning only.
- An Anthropic stream cut off before any text yields the truncation note alone;
  `chat` returns a blank line before it (`anthropic.py:102`, 177).
- `_alternatives` tries `our` -> `or` but not the way back, so "honor" is unknown to
  a corpus that spells "honour" (`answerability.py:231-233`); the words of
  `SPELLING_VARIANTS` go both ways, and those are what the property is about.
- `_newer` compares dates when both copies have one and upload order otherwise,
  which is no order over three copies of which one is undated: each can be called
  newer than another. `NotesAreTrue` speaks of the cases that have one answer.
- A unit on a figure whose cited passages print none is accepted; citing one more
  passage can turn an accepted answer into a unit mismatch.
- `mark_cited` goes by every block number the answer names, the figure check only
  by valid ones; for blocks of the prompt the two agree.
- A request refused with 403 has already spent from its rate budget, because the
  router's dependencies run first.

## 4. Proofs

**GuardProofs**, Idempotency: for any set of requests, bodies and faults.
- `TypeCorrect`.
- `AtMostOneRow`: `OnceUnlessForgotten` speaks only of rows. `OwnershipInv` adds
  where each stored request stands: while nothing was forgotten or overrun, a
  request that works or has a row owns the entry or has its result in it, which
  is what makes two of them equal.
- `ClaimPrivacy`: the action property, action by action from `TypeOK`.
- `ExclusiveWork`: `ExclusionInv` names the claim that each working request holds
  while none was overrun; it survives forgotten outcomes, `OwnershipInv` does not.
- `Refinement`: the protocol implements `OnceContract`, from `OwnershipInv` and
  `AnswersHaveRows` (a done entry and every answer come from a row).

**GuardProofs**, RateLimiter: for any capacity, price, refill rate and clock bound.
- `LimiterTypeCorrect`, with `BucketOK`: a stored level is within the capacity and its
  expiry is `Lifetime` after it was written. `LifetimeFills` shows that this is long
  enough for an empty bucket to fill, so an expired key loses nothing.
- `LimiterRefinement`: every step moves `Level` as `TokenBucket` allows.
- `RateIsCapped` (assumes `~FailOpen`): the inductive `Budget` adds what the bucket
  still holds to what was served: `served + Level <= Capacity + forward`.
- `RetryIsKept`: `Filling` says that the stored level and the seconds from it to
  `retryAt` are worth the price; `CeilDivCovers` is the rounding up.

**DocumentsProofs**: for any number of uploads, replacements and marks.
- `TypeCorrect`.
- `StoredOnceAndWhole`: `LockInv` is what the row lock and the unique constraint keep:
  a call deletes only the copy it found, between its DELETE and its commit, and one
  that has flushed its row has deleted all there was while no other has touched
  anything. The commit then leaves its own copy alone, whole.
- `NeverMissingAgain`: only a commit changes `docs`, and it stores a row.
- `ReplacedByOne`: `ReplaceInv` adds that a stored or found copy belongs to a call
  that has returned and that a replaced copy is not stored any more, so whoever
  commits now replaced another one.

**AnswersProofs**: for any requests, questions, guard words, similarity, pool and
bucket size.
- `AnswersInv`, proved action by action: `StageInv` says what is true of a request by
  where it is (blank before the lookup, whole before the check, judged before it is
  remembered or sent), `ShareInv` what is true of an entry. `Settled` is the fact
  they rest on: passages and texts do not change once somebody can read them, and
  verdicts are only added.
- `SharedTextIsSound` needs `Remembered` (what LPUSH and LTRIM leave in a bucket) and
  that only its writer remembers a text; `NoStaleHit` and `AnswersAreChecked` follow
  the hit and the reply back to the verdict; `ConnectionsAreFree` holds because
  `ReadSources` and every way out give the connection back.
- `Refinement`: with `EventFits`, the last event by stage, every step sends what
  `StreamContract` lets follow.

**BackfillProofs**: for any rows and batch size.
- `TypeCorrect`: inductive with `HeldBatch`, since a batch is held only from Embed to
  the end of its transaction; `BatchFits` bounds it.
- `HonestTags`: vector and tag are written together.
- `CleanRunsAreComplete`: `RunInv`, above all `ListIsComplete` (a row the scan saw is
  on the list or done) and `SeenIsOld` (none of them comes back under its id).
- `SecondRunEndsTheMix`: `UnseenIsNew` says that during a settled run nothing of the
  old model is being made, and what the scan did not see is of the new one; with
  `RunInv` that is every row.

**ChecksProofs**, the breaker: for any set of callers, threshold and window.
- `TypeCorrect`: `TypeOK` is inductive by itself; one step per action.
- `ThresholdReached`: `ThresholdOpens` is inductive relative to `TypeOK`: the
  only step that closes the circuit resets the counter.
- `BudgetKept`: `FailureBudget` counts failures and the calls begun while closed
  together. It is inductive relative to `TypeOK` and `ThresholdOpens`, which
  gives the missing case: a call is admitted as "closed" only when the counter
  is below the threshold. Callers are assumed finite.
- `SequentialContract`: for one caller, initial states map to initial states and
  every step to a step or stutter of `BreakerContract`. What it needs is that the
  state the only caller read is still the state when it acts.

**ChecksProofs**, the client: for any tasks, attempts and pieces of text.
- `NeverStacked`: `Generated` bounds the generations of a chat or stream by one more
  than the retried answers, and while its outcome is open by those alone (`NotYet`, for
  every task): an attempt that may have got through without an answer is never
  made again.
- `ClientKeepsTheContract`: `ClientStep` maps each step of the client to a step of
  `CircuitBreaker`, a stutter, or a wake-up that only renews which service is met; the
  breaker's lemmas do the rest.
- `StreamIsTheAnswer`: `AllStreamed` adds to `StreamedOnce` what the trimmer keeps
  back: sent and pending text together are the lines read without their leading white
  space, and only white space is pending (`Trimmed`). `FeedTrims` is the step, from
  what `LStrip` and `RStrip` do to a text and to two texts joined (`LStripSplits`,
  `RStripSplits`, `JoinLaws`), for texts of any length.

**ListProofs**: the lemmas about lists that the next two rest on, for lists of any
length. Recursion is handled without an induction rule that takes an operator: `Least`
(a set of numbers has a least element) gives `Induction` over a set up to a bound, and
`Recursion` that a function defined by its first value and a step exists. `KeepPicks`,
`FlattenLays`, `TotalsAre` and `StretchIs` unfold `Keep`, `FlattenSeq`, `Totals` and
stretches of a list with them; `Grouped` is what any loop that starts a new group or
goes on with the last one leaves: the list itself, cut in stretches.

**ReadingProofs**: for any chunks, positions, distances, rankings, candidates, TOP_K,
budget and number of neighbours. `IInv` is inductive; TLC checked it on the run of
Reading first. `PlanEnds` unfolds the turns of `plan_neighbours` with the lemmas of
ListProofs.
- `TypeCorrect`.
- `GateKept`: `ClosestIsKept` follows the closest stored chunk from vector search to
  the gate. Only chunks of both lists can be fused ahead of it, and those are fewer
  than TOP_K (`ClosestStaysAhead`); that fusing sorts at all is `BeforeOrders` and
  `Ranks`: a strict total order numbers its elements.
- `TextKept`: the plan is described by the turns that took a place (`Owns`): each
  place was taken by one, and earlier wishes were all met. Hence a hit's places are
  the first behind it, without a gap (`RunGoesOn`, a hit that loses a place
  to another loses those behind it too), the stored ones are a
  beginning of them (`FoundIs`: a document is committed whole), and no chunk is shown
  twice (`ShownOnce`).
- `BudgetShared`: every added passage has a turn of its own, and turns and budget add
  up (`Pays`, `BudgetHolds`). A second continuation comes from a turn of the second
  round, before which every hit had what it wished for (`FirstsBeforeSeconds`).
- `OneCopyRead`: `CopiesInv`. What is committed never holds chunks of both copies, Fuse
  re-reads its chunks from what is committed at one moment, and Expand adds only
  chunks of its hits' documents.

**ManualProofs**: for any uploads, chunk sizes, overlaps, sentences and tables of joined
words. `ManualSurvives` is `PagesSurviveChunking`. `ManualInv` says that the upload is
one of those assumed, the pages are extracted from it and the rows are what
`chunk_pages` makes of them; the argument is about what these operators return.
- `PartsBroken`: a sentence longer than a chunk is broken into parts that are its
  words in turn, each within the size, and only the last can be too small to be kept.
- `SentencesPlaced`: the loop of `_chunk_sentences` puts each part into one chunk, in
  turn, behind an end of the chunk before that is no longer than the overlap
  (`Placed`, the loop's invariant; `ChunkStepKeeps` is one turn). `PlacedJoins` folds a
  tail into the chunk before, `TextPlaced` does the blocks and `PlacedFlat` the pages.
- `PagesStored`: the rows are those chunks but for slivers, so what is missing of a
  sentence is the last of its parts at most (`SentenceSurvives`). This is where
  parts that are joined by a carried end matter: a part is counted once however many
  rows repeat it.
- `RepairRenders`: joining a split word keeps the identity and the letters of its
  sentence. `ExtractRuns` and `EdgesFurnish`: what is taken from a page is at its
  edge and at the edge of two others.
`ManualAssumption` says what a sentence is. Every place of a document is a sentence of
its own, with words of one or more characters. And where a sentence is longer than a
chunk, each of its words leaves room for `2 * MIN_CHUNK_ALNUM` characters: `hard_split`
never cuts a word and the settings have no lower limit on `chunk_max_chars`, so with a
word of about the size of a chunk, the text before it may be a sliver that is dropped
from the middle of the sentence. The default is 1200 characters.

`WarningsOnce` is `WarningsToldOnce`, from `ToldInv`: there are no warnings before a
question is read and nothing is cited before the answer is written; from then on the
warnings are sightings that say the truth of the cited blocks (`Honest`), are `AllApart`
and `Ranked`. `merge` compares a sighting with what it kept so far, one after the
other, and replaces a text by a longer one, so that what was kept might come to begin
like something kept earlier.
- `FusedApart`: it does not. Of two texts that begin alike the longer begins with the
  shorter (`BeginsShort` needs sentences to have words of one or more characters), and
  two beginnings of one text begin alike (`BeginsLaws`): a third sighting that is like
  the longer is like the shorter already. `SightingAdds` is one turn of the loop,
  `MergeKeeps` the loop.
- `FusedIs`: fused sightings say the truth of their blocks, because the blocks and the
  mark come from the same sightings.
- `ByRankSorts`: sorting is a permutation of those that have a rank, and a warning has
  one rank (`RankIs`).
- `MarkingTells`: `mark_cited` merges again, which sorts the newly cited ones forward.
- `ExtractedHold`, `JoinedIn`, `ExtractedIn`: what is read from the rows are texts of
  sentences with words, through joining chunks, putting the parts of a cut sentence
  together and capping. This needs the chunker's half of the module.

**ChecksProofs**, Access: for any settings, clients and restarts.
`RevocationIsBounded`: `AccessInv` says that a right in force is recorded as of now
and that every token is backed by rights recorded no earlier than its issue.

**ChecksProofs**, Revisions: for any PDFs, uploads and marks. `NotesTrue`: the
invariant `RevisionsInv` says that every row, stored or loaded, is the row of a PDF
but for its mark, and that a row loaded and still stored differs from the stored one
in nothing but the mark. Hence it makes no difference to a note that the session
keeps the rows it has (`NoteIsTrue`). `KeysTell` turns the key that `FindNewer` selects by
into the manual the property speaks of; `OneIsNewest` is why a newer document is
found whenever there is one. TLC checked the invariant on the checks run first.

**ChecksProofs**, Question: for any figures, passages, answers and chunks.
`ChecksKept`: `QuestionInv` says that what is recorded of an answer is what
`verify_answer` makes of it and its prompt, and that the unknown words are those of the
corpus the question met; TLC checked it first. The rest is about the operators:
- numbers: the code compares decimals stripped of their trailing zeros, the property
  multiplies crosswise. `NoZerosLeft` and `SameReduced` say that these agree, for any
  number of digits, from the laws of the powers of ten (`TensIs`, `TensAdd`, by
  `NaturalInduction` over sets);
- units: no spelling has two names (`UnitsApart`), so spellings are of one unit when
  their names are equal (`UnitsTell`);
- citations: cutting a range at 50 hides no wrong citation (`CitesAre`), since a
  prompt has no more passages than that;
- `OkMeans` and `PointersMean` put these together; `PairIsKnown` is the spelling half:
  a chunk that has either spelling counts for both.

The only assumptions are each module's named ASSUME on its constants, which TLC
evaluates in the runs above, and those named with three theorems: strict mode for
`RateIsCapped`, a single caller for the two contracts of the breaker. Two of the former limit what is said:
`RevisionsAssumption` has every document named and its key tell its manual from the
others, which callers who choose keys must see to (`revisions.py:3-6`); a document
without a key is never compared with others. `QuestionAssumption` has at most 50
passages in a prompt, which is the API's own limit as long as `context_max_chunks`
is not raised above it. Type invariants that no run lists are proved here.

Only model-checked: `OpenEnds`, `Recovers`, `ClaimsEnd`, `IngestsEnd` and
`RequestsEnd`, because the prover has no rule for liveness under fairness; and
`WarningsComplete` and `BlocksAreTrue` of Manual, which compare what is told with
what is printed. These two are not true of every text, and TLC checks them on
documents in which two sentences never share their words: the code recognises a
sentence by its words, so one that is printed twice can be taken for carried
overlap when chunks are joined, or its warning for a sighting of another
(`_overlap` and `merge` of `warnings.py`). They also need what a warning carries
over to be within `MAX_OVERLAP_CHARS` and none of it to be a dropped sliver. A
theorem would state these conditions, which no setting of the code ensures.

## 5. What is not modelled

- Reading a file with pypdf and rendering it for OCR; unreadable and encrypted
  files, which are rejected before anything is stored. The regular expressions
  that find headings, labels, dates, figures and words: their result is a field of
  the abstracted text.
- Full-text ranking, vector distance and the re-ranker's scores: any order. The vector
  search leaves out rows without an embedding, which no modelled step stores.
- Ten of the figure check's units, with part of their spellings: those with several
  names, torque, time and the ambiguous "min"; degrees, metric and electrical units
  are left out. `SameWarning` compares whole units where `merge` uses `startswith` on
  characters (`warnings.py:291`): a text that ends within a word of another is no
  beginning of it here.
- JWT signatures: a token is accepted in the realm it was signed in.
- Configuration, logging, health, schemas, prompts: data and wiring, no behaviour
  beyond what the other modules take from them. Migrations, the evaluation harness
  and the verification scripts: run by hand, one at a time, sequential.
- In Answers: configurations that switch the cache, the answer check or the
  blocking figure check off (each removes steps), an empty completion, and the
  expiry of a bucket (any lookup may miss).
- In Documents: the settings a copy was chunked with. The loser of two
  replacements returns the other's copy as a duplicate, and its settings are not
  applied (`documents.py:204`); no document promises more.
- In RateLimiter: other clients; their keys are disjoint.
- In Question: `ANSWERABILITY_MODE` off and flag, which refuse nothing.

## 6. Plan

Order of work, most important behaviour first. Done: 1-10.

1. CircuitBreaker against BreakerContract, with proofs.
2. Idempotency against OnceContract, with proofs.
3. RateLimiter against TokenBucket.
4. Documents.
5. Answers against StreamContract.
6. Backfill.
7. Reading.
8. LlmClient: what runs inside the breaker.
9. The text and its checks: PdfText, Warnings, Manual, Figures, Answerability,
   Question, Revisions, Access.
10. Proofs, for every value of the constants: CircuitBreaker,
    Idempotency, RateLimiter, Documents, Answers, Backfill, LlmClient, Access,
    Reading, Revisions, Question, Manual up to the stored rows and from the
    sightings of its warnings to what is told.

Left: that the warnings of Manual are those printed, for documents in which no two
sentences share their words.
