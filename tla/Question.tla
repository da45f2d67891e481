------------------------------ MODULE Question ------------------------------
(***************************************************************************)
(* The two checks by code around a model's answer                          *)
(* (src/app/services/generation.py): the question's words against the      *)
(* stored chunks before it is asked, its figures against the passages it   *)
(* cites after it answered.                                                *)
(***************************************************************************)
EXTENDS Figures, Answerability

CONSTANTS
  Questions,     \* [words, figures]
  Corpora,       \* what the stored chunks contain
  Prompts,       \* the passages' figures, block by block
  ModelAnswers,      \* [figures, cites]: what a model may answer
  MinChunks,     \* answerability_min_chunks
  MinUnknown     \* answerability_min_unknown

(* Figures are read by a pattern; a request asks for at most 50 passages   *)
(* (schemas/query.py:8), and reading on goes no further than that while    *)
(* context_max_chunks, 8 by default, does not (config.py:74); no American  *)
(* spelling of the table is the British one of another word.               *)
ASSUME QuestionAssumption ==
  /\ \A q \in Questions : q.figures \in Seq(Figure)
  /\ \A p \in Prompts : p \in Seq(Seq(Figure)) /\ Len(p) <= MAX_CITED_RANGE
  /\ \A a \in ModelAnswers : a.figures \in Seq(Figure) /\ a.cites \in Seq([lo : Nat, hi : Nat])
  /\ \A c \in Corpora : IsFiniteSet(DOMAIN c)
  /\ MinChunks \in Nat
  /\ \A b \in DOMAIN SPELLING_VARIANTS : SPELLING_VARIANTS[b] \notin DOMAIN SPELLING_VARIANTS

VARIABLES step, question, corpus, prompt, unknown, answer, verification

questionVars == <<step, question, corpus, prompt, unknown, answer, verification>>

NoAnswer == [figures |-> <<>>, cites |-> <<>>]
NoVerification == verify_answer(NoAnswer, <<>>, <<>>)

QuestionStart(s, q, c) ==
  /\ step = s /\ question = q /\ corpus = c
  /\ prompt = <<>> /\ unknown = {} /\ answer = NoAnswer /\ verification = NoVerification

QuestionInit == \E q \in Questions, c \in Corpora : QuestionStart("asked", q, c)
QuestionIdle == QuestionStart("none", [words |-> <<>>, figures |-> <<>>], <<>>)

(* check_answerability, with ANSWERABILITY_MODE=refuse.                    *)
JudgeWords ==
  /\ step = "asked"
  /\ unknown' = judge(term_chunk_counts(question_terms(question.words), corpus), MinChunks)
  /\ IF Cardinality(unknown') >= MinUnknown
     THEN step' = "refused" /\ UNCHANGED prompt
     ELSE step' = "prompted" /\ prompt' \in Prompts
  /\ UNCHANGED <<question, corpus, answer, verification>>

(* The model answers what it likes; verify_prepared checks it.             *)
CheckAnswer ==
  /\ step = "prompted"
  /\ answer' \in ModelAnswers
  /\ verification' = verify_answer(answer', prompt, question.figures)
  /\ step' = IF Ok(verification') THEN "returned" ELSE "withheld"
  /\ UNCHANGED <<question, corpus, prompt, unknown>>

QuestionNext == JudgeWords \/ CheckAnswer

QuestionSpec == QuestionInit /\ [][QuestionNext]_questionVars

-----------------------------------------------------------------------------
(* What a figure says, whatever its spelling: a fraction says another      *)
(* number than the decimal it equals.                                      *)
SameNumber(f, g) ==
  /\ f.over = g.over
  /\ f.n * Tens[g.places] = g.n * Tens[f.places]
  /\ f.over # 0 => f.places = g.places

UnitAt(figures, i) ==
  IF figures[i].unit = NoUnit /\ figures[i].range /\ i < Len(figures)
  THEN figures[i + 1].unit ELSE figures[i].unit
SameUnit(u, v) == \E name \in DOMAIN UNIT_SPELLINGS : {u, v} \subseteq UNIT_SPELLINGS[name]

Cites(n) == \E i \in DOMAIN answer.cites : answer.cites[i].lo <= n /\ n <= answer.cites[i].hi
Held == LET good == {n \in DOMAIN prompt : Cites(n)} IN IF good = {} THEN DOMAIN prompt ELSE good

(* Passage n prints the i-th figure of the answer, and the units it gives. *)
Places(i, n) == {j \in DOMAIN prompt[n] : SameNumber(prompt[n][j], answer.figures[i])}
UnitsFor(i) ==
  (UNION {{UnitAt(prompt[n], j) : j \in Places(i, n)} : n \in Held}) \ {NoUnit}
Backed(i) ==
  \/ \E j \in DOMAIN question.figures : SameNumber(question.figures[j], answer.figures[i])
  \/ /\ \E n \in Held : Places(i, n) # {}
     /\ LET u == UnitAt(answer.figures, i) IN
        \/ u = NoUnit
        \/ UnitsFor(i) = {}
        \/ \E v \in UnitsFor(i) : SameUnit(u, v)
        \/ /\ \E v \in UnitsFor(i) : SameUnit(v, "min")
           /\ ~\E v \in {"min", "hr", "sec"} : SameUnit(u, v)

CitesOnlyItsPrompt ==
  \A i \in DOMAIN answer.cites :
    answer.cites[i].lo <= answer.cites[i].hi =>
      answer.cites[i].lo >= 1 /\ answer.cites[i].hi <= Len(prompt)

FiguresAreBacked ==
  step \in {"returned", "withheld"} =>
    (step = "returned" <=> CitesOnlyItsPrompt /\ \A i \in DOMAIN answer.figures : Backed(i))

PointersAreTrue ==
  step \in {"returned", "withheld"} =>
    \A x \in verification.found_in_uncited :
      \E i \in DOMAIN answer.figures :
        /\ written(answer.figures[i]) = x.figure
        /\ x.blocks = {n \in DOMAIN prompt \ Held : Places(i, n) # {}}

SpellingsAreOne ==
  \A b \in DOMAIN SPELLING_VARIANTS :
    LET pair == {b, SPELLING_VARIANTS[b]}
        holders == {c \in DOMAIN corpus : stems(corpus[c]) \cap stems(pair) # {}}
    IN  Cardinality(holders) >= MinChunks => unknown \cap pair = {}

(* What the two checks promise.  "Every number in the answer must occur in *)
(* a passage the answer cites, with a compatible unit" (verification.py:   *)
(* 6-7), spelled one way or another: an answer is returned exactly when it *)
(* cites only passages of its prompt and each of its figures is the        *)
(* question's or is printed in a passage held against it with that unit,   *)
(* with none, or with an ambiguous "min"; a figure is said to be elsewhere *)
(* only where it is printed.  And "a spelling difference never makes a     *)
(* word unknown" (answerability.py:169-170): a word of the table is known  *)
(* when a chunk has it in either spelling, whichever the question uses.    *)
ChecksKeepTheirWord == FiguresAreBacked /\ PointersAreTrue /\ SpellingsAreOne
=============================================================================
