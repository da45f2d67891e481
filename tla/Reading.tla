------------------------------- MODULE Reading -------------------------------
(***************************************************************************)
(* How one question comes to the passages its model reads: vector search   *)
(* and keyword search, fused by reciprocal rank (src/app/services/         *)
(* hybrid.py), re-ranked (pipeline.py), gated by distance                  *)
(* (generation.py: select_context) and widened with the chunks that follow *)
(* each hit (context.py).  Each SELECT sees what is committed when it runs *)
(* (READ COMMITTED), and between two of them the document may be replaced. *)
(* Answers takes all of this as one retrieved set; here it is taken apart. *)
(***************************************************************************)
EXTENDS FiniteSets, Functions, Naturals, Lists

CONSTANTS
  Chunks,            \* every chunk there ever is
  Position,          \* per chunk: <<document, index>>, or NoPosition
  NoPosition,
  Replaced,          \* the document that may be replaced while the question is read
  Replacement,       \* the document stored in its place
  TopK,              \* TOP_K
  RerankCandidates,  \* RERANK_CANDIDATES
  RrfK,              \* RRF_K
  Scale,             \* a common multiple of the RRF denominators, for exact scores
  Distances,         \* per chunk: the distances it can have from the question
  MaxDistance,       \* MAX_DISTANCE
  ContextMaxDistance,  \* CONTEXT_MAX_DISTANCE
  Neighbours,        \* CONTEXT_NEIGHBORS, after the clamp to MAX_NEIGHBOURS
  MaxChunks          \* CONTEXT_MAX_CHUNKS

Smaller(a, b) == IF a < b THEN a ELSE b
Larger(a, b) == IF a > b THEN a ELSE b

(* Chunks are numbered from 0 without gaps in their document (chunk_index  *)
(* of ingest_pdf), no two alike, and "no position" is not a position.      *)
ASSUME ReadingAssumption ==
  /\ TopK \in Nat \ {0} /\ RerankCandidates \in Nat
  /\ RrfK \in Nat /\ Scale \in Nat
  /\ \A rank \in 1..Larger(TopK, RerankCandidates) : Scale % (RrfK + rank) = 0
  /\ Distances \in [Chunks -> SUBSET Nat]
  /\ Neighbours \in 0..5 /\ MaxChunks \in Nat
  /\ MaxDistance \in Nat /\ ContextMaxDistance \in Nat
  /\ IsFiniteSet(Chunks) /\ Replaced # Replacement
  /\ \A c, d \in Chunks : Position[c] = Position[d] /\ Position[c] # NoPosition => c = d
  /\ \A c \in Chunks : Position[c] # NoPosition =>
       /\ Position[c] = <<Position[c][1], Position[c][2]>> /\ Position[c][2] \in Nat
       /\ \A i \in 0..Position[c][2] : \E d \in Chunks : Position[d] = <<Position[c][1], i>>
       /\ \A step \in 1..Neighbours : NoPosition # <<Position[c][1], Position[c][2] + step>>

VARIABLES
  committed,  \* the chunks in the database
  distance,   \* per chunk: its cosine distance from the question
  reranking,  \* whether a cross-encoder is configured
  pc,
  nearest,    \* what vector search ranked
  matching,   \* what keyword search ranked
  hits,       \* the retrieved chunks, then those of them that are read, in order
  read,       \* the passages given to the model
  calm        \* ghost: nothing was replaced since the vector search

vars == <<committed, distance, reranking, pc, nearest, matching, hits, read, calm>>

ChunksOf(document) == {c \in Chunks : Position[c] # NoPosition /\ Position[c][1] = document}

Rankings(S, n) == {s \in [1..n -> S] : IsInjective(s)}

TypeOK ==
  /\ committed \in SUBSET Chunks
  /\ DOMAIN distance = Chunks /\ \A c \in Chunks : distance[c] \in Distances[c]
  /\ reranking \in BOOLEAN /\ calm \in BOOLEAN
  /\ pc \in {"search", "keywords", "fuse", "rerank", "gate", "expand", "done"}
  /\ \A s \in {nearest, matching, hits, read} : s \in Seq(Chunks)
  /\ pc \in {"gate", "expand", "done"} => Len(hits) <= TopK

Init ==
  /\ committed = Chunks \ ChunksOf(Replacement)
  /\ distance \in {f \in [Chunks -> UNION Range(Distances)] :
                     \A c \in Chunks : f[c] \in Distances[c]}
  /\ reranking \in BOOLEAN
  /\ pc = "search"
  /\ nearest = <<>> /\ matching = <<>> /\ hits = <<>> /\ read = <<>>
  /\ calm = TRUE

CandidateK == IF reranking THEN Larger(TopK, RerankCandidates) ELSE TopK

-----------------------------------------------------------------------------
(* vector_search: the closest chunks, closest first; a tie may go either   *)
(* way.                                                                    *)
VectorSearch ==
  /\ pc = "search"
  /\ \E s \in Rankings(committed, Smaller(CandidateK, Cardinality(committed))) :
       /\ \A i, j \in DOMAIN s : i < j => distance[s[i]] <= distance[s[j]]
       /\ \A c \in committed \ Range(s), i \in DOMAIN s : distance[s[i]] <= distance[c]
       /\ nearest' = s
  /\ pc' = "keywords"
  /\ UNCHANGED <<committed, distance, reranking, matching, hits, read, calm>>

(* keyword_search: whatever chunks hold the words, in the order of         *)
(* ts_rank; chunks that vanish before their rows are read drop out.        *)
KeywordSearch ==
  /\ pc = "keywords"
  /\ \E n \in 0..Smaller(CandidateK, Cardinality(committed)) :
       matching' \in Rankings(committed, n)
  /\ pc' = "fuse"
  /\ UNCHANGED <<committed, distance, reranking, nearest, hits, read, calm>>

(* rrf_fuse: every list adds 1 / (k + rank); equal scores keep the order   *)
(* in which the chunks were first met, the vector list's first.            *)
Share(ranking, c) ==
  IF c \in Range(ranking)
  THEN Scale \div (RrfK + (CHOOSE i \in DOMAIN ranking : ranking[i] = c))
  ELSE 0

(* Faulty: the keyword list is met first. *)
FirstMetByKeyword(c) ==
  LET met == matching \o nearest
  IN CHOOSE i \in DOMAIN met : met[i] = c /\ \A j \in 1..i - 1 : met[j] # c

FirstMet(c) ==
  LET met == nearest \o matching
  IN CHOOSE i \in DOMAIN met : met[i] = c /\ \A j \in 1..i - 1 : met[j] # c

rrf_fuse ==
  LET ids == Range(nearest) \cup Range(matching)
      score == [c \in ids |-> Share(nearest, c) + Share(matching, c)]
      met == [c \in ids |-> FirstMet(c)]
      Before(a, b) == score[a] > score[b] \/ (score[a] = score[b] /\ met[a] < met[b])
  IN [i \in 1..Cardinality(ids) |->
        CHOOSE c \in ids : Cardinality({d \in ids : Before(d, c)}) = i - 1]

(* Faulty: the chunks are not read again. *)
FuseWithoutRereading ==
  /\ pc = "fuse"
  /\ LET fused == rrf_fuse IN hits' = SubSeq(fused, 1, Smaller(CandidateK, Len(fused)))
  /\ nearest' = <<>> /\ matching' = <<>>
  /\ pc' = "rerank"
  /\ UNCHANGED <<committed, distance, reranking, read, calm>>

(* hybrid_search ends with one SELECT for every fused chunk and its        *)
(* distance: a chunk deleted in the meantime is skipped.  The two lists    *)
(* are not used again.                                                     *)
Fuse ==
  /\ pc = "fuse"
  /\ LET fused == rrf_fuse
     IN hits' = Keep(SubSeq(fused, 1, Smaller(CandidateK, Len(fused))), committed)
  /\ nearest' = <<>> /\ matching' = <<>>
  /\ pc' = "rerank"
  /\ UNCHANGED <<committed, distance, reranking, read, calm>>

(* rerank: the cross-encoder may put the candidates in any order; without  *)
(* one they keep theirs.  The best TOP_K stay.                             *)
Rerank ==
  /\ pc = "rerank"
  /\ \E s \in IF reranking THEN Rankings(Range(hits), Len(hits)) ELSE {hits} :
       hits' = SubSeq(s, 1, Smaller(TopK, Len(s)))
  /\ pc' = "gate"
  /\ UNCHANGED <<committed, distance, reranking, nearest, matching, read, calm>>

(* select_context: something must be within the gate; then all within the  *)
(* ceiling is read.  An empty list is a refusal.                           *)
context_ceiling == Larger(MaxDistance, ContextMaxDistance)

select_context(retrieved) ==
  IF \E c \in Range(retrieved) : distance[c] <= MaxDistance
  THEN Keep(retrieved, {c \in Chunks : distance[c] <= context_ceiling})
  ELSE <<>>

Gate ==
  /\ pc = "gate"
  /\ hits' = select_context(hits)
  /\ pc' = IF hits' = <<>> THEN "done" ELSE "expand"
  /\ UNCHANGED <<committed, distance, reranking, nearest, matching, read, calm>>

-----------------------------------------------------------------------------
(* Faulty: a hit's turns are taken one after the other. *)
TurnsHitByHit(n) ==
  [t \in 1..Neighbours * n |->
     [step |-> ((t - 1) % Neighbours) + 1, hit |-> ((t - 1) \div Neighbours) + 1]]

(* plan_neighbours: turn by turn, the first following chunk of every hit,  *)
(* then the second of every hit, until the budget is used; a chunk that is *)
(* a hit or planned already is nobody's turn.                              *)
Turns(n) ==
  [t \in 1..Neighbours * n |-> [step |-> ((t - 1) \div n) + 1, hit |-> ((t - 1) % n) + 1]]

Following(c, step) == <<Position[c][1], Position[c][2] + step>>

(* Faulty: nobody remembers what is taken. *)
PlanTurnTwice(plan, turn) ==
  LET c == hits[turn.hit]
      wanted == Following(c, turn.step)
  IN IF Position[c] = NoPosition \/ plan.budget = 0
     THEN plan
     ELSE [plan EXCEPT !.wanted[turn.hit] = Append(@, wanted), !.budget = @ - 1]

PlanTurn(plan, turn) ==
  LET c == hits[turn.hit]
      wanted == Following(c, turn.step)
  IN IF Position[c] = NoPosition \/ plan.budget = 0 \/ wanted \in plan.taken
     THEN plan
     ELSE [plan EXCEPT !.taken = @ \cup {wanted},
                       !.wanted[turn.hit] = Append(@, wanted),
                       !.budget = @ - 1]

Budget == MaxChunks - Smaller(MaxChunks, Len(hits))

plan_neighbours ==
  LET plan[t \in 0..Neighbours * Len(hits)] ==
        IF t = 0
        THEN [taken |-> {Position[c] : c \in Range(hits)} \ {NoPosition},
              wanted |-> [k \in DOMAIN hits |-> <<>>],
              budget |-> Budget]
        ELSE PlanTurn(plan[t - 1], Turns(Len(hits))[t])
  IN  plan[Neighbours * Len(hits)].wanted

(* expand_with_neighbours: the planned chunks that exist are read in one   *)
(* SELECT, and each hit is followed by its own.                            *)
Expand ==
  /\ pc = "expand"
  /\ LET plan == plan_neighbours
         found(k) == Keep(plan[k], {Position[c] : c \in committed})
         chunk(p) == CHOOSE c \in committed : Position[c] = p
     IN read' = FlattenSeq([k \in DOMAIN hits |->
                  <<hits[k]>> \o [i \in DOMAIN found(k) |-> chunk(found(k)[i])]])
  /\ pc' = "done"
  /\ UNCHANGED <<committed, distance, reranking, nearest, matching, hits, calm>>

(* ingest_pdf(replace=True) commits: the old chunks go, the new ones come, *)
(* under another document id.                                              *)
Replace ==
  /\ ChunksOf(Replaced) \subseteq committed
  /\ pc # "done"
  /\ committed' = (committed \ ChunksOf(Replaced)) \cup ChunksOf(Replacement)
  /\ calm' = (calm /\ pc = "search")
  /\ UNCHANGED <<distance, reranking, pc, nearest, matching, hits, read>>

Next ==
  \/ VectorSearch \/ KeywordSearch \/ Fuse \/ Rerank \/ Gate \/ Expand
  \/ Replace

Spec == Init /\ [][Next]_vars

-----------------------------------------------------------------------------
(* Properties                                                              *)

(* Hybrid search never changes the refusal: whatever keyword search adds   *)
(* and however the lists are fused and cut, the question is let through if *)
(* and only if some stored chunk is within MAX_DISTANCE.  The closest      *)
(* chunk must survive the cut for this.  A cross-encoder may drop it, and  *)
(* a replacement between the SELECTs may delete it.                        *)
HybridKeepsTheGate ==
  pc \in {"expand", "done"} /\ calm /\ ~reranking =>
    (hits # <<>> <=> \E c \in committed : distance[c] <= MaxDistance)

Added == {i \in DOMAIN read : read[i] \notin Range(hits)}

(* Widening loses, moves and repeats nothing: among the passages read the  *)
(* hits stand in their retrieved order, so [1] is the best match, no       *)
(* passage is given to the model twice, and one that was added continues   *)
(* the one right before it: no gap is read over, also where hits, their    *)
(* continuations and the budget meet (context.py:29-101).                  *)
WideningKeepsTheText ==
  pc = "done" =>
    /\ Keep(read, Range(hits)) = hits
    /\ IsInjective(read)
    /\ \A i \in Added : i > 1 /\ Position[read[i - 1]] # NoPosition
                            /\ Position[read[i]] = Following(read[i - 1], 1)

(* No hit gets a second continuation while another goes without its first, *)
(* and the passages stay within CONTEXT_MAX_CHUNKS unless the hits alone   *)
(* are more.                                                               *)
BudgetIsShared ==
  pc = "done" =>
    /\ Len(read) <= Larger(MaxChunks, Len(hits))
    /\ (\E i \in Added : i + 1 \in Added) =>
         \A c \in Range(hits), d \in committed :
           Position[c] # NoPosition /\ Position[d] = Following(c, 1) => d \in Range(read)

(* The passages of one answer come from one copy of the document, however  *)
(* a replacement falls between the searches, the distances and the         *)
(* neighbours.                                                             *)
OneCopyIsRead ==
  Range(read) \cap ChunksOf(Replaced) = {} \/ Range(read) \cap ChunksOf(Replacement) = {}
=============================================================================
