--------------------------- MODULE Answerability ---------------------------
(***************************************************************************)
(* src/app/services/answerability.py: the words of a question that no      *)
(* stored chunk contains.  A word is [is, length, alpha, digit]; a chunk   *)
(* is the set of words it contains, and the full-text search finds a word  *)
(* by its stem.                                                            *)
(***************************************************************************)
EXTENDS Integers, SequencesExt

CONSTANTS
  STOPWORDS,          \* words that carry no subject matter
  SPELLING_VARIANTS,  \* British -> American, the table of the source
  OurOr,              \* word -> the word with "or" for "our"
  IseIze,             \* word -> the word with the other ending, both ways
  Stem                \* word -> its stem; a word the search discards has none

(* Distinctive words: no numbers, no stopwords, not short unless they mix  *)
(* letters and digits.                                                     *)
question_terms(question) ==
  FoldLeft(LAMBDA seen, w :
             IF w.alpha /\ w.is \notin STOPWORDS /\ (w.length >= 4 \/ w.digit)
                  /\ w.is \notin Range(seen)
             THEN Append(seen, w.is) ELSE seen,
           <<>>, question)

_alternatives(term) ==
  {term} \cup {SPELLING_VARIANTS[b] : b \in DOMAIN SPELLING_VARIANTS \cap {term}}
         \cup {b \in DOMAIN SPELLING_VARIANTS :
                 SPELLING_VARIANTS[b] = term /\ term \notin DOMAIN SPELLING_VARIANTS}
         \cup {OurOr[b] : b \in DOMAIN OurOr \cap {term}}
         \cup {IseIze[b] : b \in DOMAIN IseIze \cap {term}}

stems(words) == {Stem[w] : w \in words \cap DOMAIN Stem}

(* A term the search discards is left out: it is never unknown.            *)
term_chunk_counts(terms, corpus) ==
  [t \in {u \in Range(terms) : stems(_alternatives(u)) # {}} |->
     Cardinality({c \in DOMAIN corpus : stems(corpus[c]) \cap stems(_alternatives(t)) # {}})]

judge(counts, minChunks) == {t \in DOMAIN counts : counts[t] < minChunks}
=============================================================================
