---------------------------- MODULE ManualProofs ----------------------------
(***************************************************************************)
(* Proofs about Manual, for any documents, settings and sentences.  From   *)
(* the printed page to the table no sentence is lost or shortened, but for *)
(* furniture and slivers, and no chunk outgrows its bounds.                *)
(*                                                                         *)
(* The argument follows the text: a long sentence is broken into parts of  *)
(* which only the last can be a sliver (PartsBroken); the loop over the    *)
(* sentences puts each of them into one chunk, in turn, behind what it     *)
(* carries over (SentencesPlaced), and so do blocks and pages (TextPlaced, *)
(* PlacedFlat); the rows that are stored are the chunks but for slivers    *)
(* (PagesStored), so a sentence survives and a chunk is bounded            *)
(* (PagesChunked).  Before that, repairing split words keeps the letters   *)
(* of a sentence (RepairRenders), and only furniture is taken from a page  *)
(* (ExtractRuns).  ManualInv says that the pages and rows of every state   *)
(* were made that way.                                                     *)
(*                                                                         *)
(* The warnings of a question are told once, marked by the blocks that are *)
(* cited, and in the order of severity.  What is read from the rows are    *)
(* texts of sentences with words (ExtractedHold, JoinedIn, ExtractedIn),   *)
(* so that of two that begin alike the longer begins with the other and    *)
(* no third begins like one of them only (FusedApart).  So merge keeps     *)
(* them apart (SightingAdds, MergeKeeps), sorting disturbs none of it      *)
(* (ByRankSorts), and mark_cited, which merges again, neither              *)
(* (MarkingTells).  ToldInv says it of every state.                        *)
(***************************************************************************)
EXTENDS Manual, ListProofs

-----------------------------------------------------------------------------
(* Words and the room they take: W is any set of words of the document.    *)
AreWords(W) == \A w \in W : w.chars \in Nat \ {0}
Letters(ws) == [i \in DOMAIN ws |-> ws[i].chars]
Gaps(ws) == [i \in DOMAIN ws |-> ws[i].chars + 1]

(* The sum of no number and of one.                                        *)
LEMMA SumSmall ==
  /\ Sum(<<>>) = 0
  /\ \A x \in Int : Sum(<<x>>) = x
<1>1. <<>> \in Seq(Int) /\ Len(<<>>) = 0
  BY EmptySeq
<1>2. Adds(Totals(<<>>), 0, <<>>)
  BY <1>1, TotalsUnfold
<1>3. Sum(<<>>) = 0
  BY <1>1, <1>2 DEF Adds, Sum
<1>4. ASSUME NEW x \in Int PROVE Sum(<<x>>) = x
  <2>1. Sum(Append(<<>>, x)) = 0 + x
    BY <1>1, <1>3, SumAppend
  <2>2. Append(<<>>, x) = <<x>>
    OBVIOUS
  <2> QED
    BY <2>1, <2>2
<1> QED
  BY <1>3, <1>4

(* The size of words joined by spaces: their characters and the spaces     *)
(* between them.                                                           *)
LEMMA TextSize ==
  ASSUME NEW W, AreWords(W), NEW ws \in Seq(W)
  PROVE  /\ Letters(ws) \in Seq(Int) /\ Len(Letters(ws)) = Len(ws)
         /\ Sum(Letters(ws)) \in Nat /\ Len(ws) <= Sum(Letters(ws))
         /\ Spaced(ws) = Sum(Letters(ws)) + Len(ws) - 1
<1>1. PICK n \in Nat : n = Len(ws) /\ DOMAIN ws = 1..n
  BY LenProperties
<1>2. ASSUME NEW i \in 1..n PROVE ws[i].chars \in Nat /\ ws[i].chars > 0
  <2>1. ws[i] \in W
    BY <1>1, ElementOfSeq
  <2>2. ws[i].chars \in Nat \ {0}
    BY <2>1 DEF AreWords
  <2> QED
    BY <2>2
<1>3. PICK ls : ls = Letters(ws)
  OBVIOUS
<1>4. ls \in [1..n -> Nat] /\ \A i \in 1..n : ls[i] = ws[i].chars
  BY <1>1, <1>2, <1>3 DEF Letters
<1>5. ls \in Seq(Nat) /\ ls \in Seq(Int) /\ Len(ls) = n
  BY <1>4
<1>6. PICK gs : gs = Gaps(ws)
  OBVIOUS
<1>7. \A i \in 1..n : gs[i] = ls[i] + 1
  BY <1>1, <1>4, <1>6 DEF Gaps
<1>8. gs \in Seq(Int) /\ Len(gs) = n
  <2>1. gs = [i \in 1..n |-> ws[i].chars + 1]
    BY <1>1, <1>6 DEF Gaps
  <2>2. gs \in [1..n -> Int]
    BY <1>2, <2>1
  <2> QED
    BY <2>2
<1>9. PICK t : t = Totals(ls)
  OBVIOUS
<1>10. /\ t[0] = 0 /\ \A i \in 0..n : t[i] \in Nat
       /\ \A i \in 1..n : t[i] = t[i - 1] + ls[i]
  BY <1>5, <1>9, TotalsGrow DEF Adds
<1> DEFINE g == [i \in 0..n |-> t[i] + i]
<1>11. \A i \in 0..n : g[i] = t[i] + i
  OBVIOUS
<1> HIDE DEF g
<1>12. Adds(g, n, gs)
  <2>1. g[0] = 0
    <3>1. 0 \in 0..n /\ t[0] = 0
      BY <1>10
    <3> QED
      BY <1>11, <3>1
  <2>2. ASSUME NEW i \in 0..n PROVE g[i] \in Int
    <3>1. t[i] \in Nat
      BY <1>10
    <3> QED
      BY <1>11, <3>1
  <2>3. ASSUME NEW i \in 1..n PROVE g[i] = g[i - 1] + gs[i]
    <3>1. i \in 0..n /\ i - 1 \in 0..n
      OBVIOUS
    <3>2. t[i] \in Nat /\ t[i - 1] \in Nat /\ t[i] = t[i - 1] + ls[i] /\ gs[i] = ls[i] + 1
      BY <1>7, <1>10, <3>1
    <3>3. ls[i] \in Nat
      BY <1>4
    <3>4. g[i] = t[i] + i /\ g[i - 1] = t[i - 1] + (i - 1)
      BY <1>11, <3>1
    <3> QED
      BY <3>2, <3>3, <3>4
  <2> QED
    BY <2>1, <2>2, <2>3 DEF Adds
<1>13. Sum(gs) = t[n] + n
  <2>1. Sum(gs) = g[n]
    BY <1>8, <1>12, TotalsAre
  <2> QED
    BY <1>11, <2>1
<1>14. Sum(ls) = t[n] /\ t[n] \in Nat
  BY <1>5, <1>9, <1>10 DEF Sum
<1>15. n <= t[n]
  <2> DEFINE T == {i \in 0..n : i <= t[i]}
  <2>1. 0 \in T
    BY <1>10
  <2>2. ASSUME NEW i \in 1..n, i - 1 \in T PROVE i \in T
    <3>1. i - 1 <= t[i - 1] /\ t[i - 1] \in Nat /\ t[i] = t[i - 1] + ls[i]
      BY <1>10, <2>2
    <3>2. ls[i] \in Nat /\ ls[i] > 0
      BY <1>2, <1>4
    <3> QED
      BY <3>1, <3>2
  <2> HIDE DEF T
  <2>3. \A i \in 0..n : i \in T
    BY <2>1, <2>2, Induction
  <2>4. n \in T
    BY <2>3
  <2> QED
    BY <2>4 DEF T
<1>16. Spaced(ws) = Sum(gs) - 1
  BY <1>6 DEF Spaced, SumOver, Gaps
<1> QED
  BY <1>1, <1>3, <1>5, <1>13, <1>14, <1>15, <1>16

(* One word more.                                                          *)
Grows(vs, ws, w) ==
  /\ Sum(Letters(vs)) = Sum(Letters(ws)) + w.chars
  /\ Spaced(vs) = Spaced(ws) + 1 + w.chars
  /\ Spaced(<<w>>) = w.chars

(* A word at the end makes a text longer by itself and a space.            *)
LEMMA OneWordMore ==
  ASSUME NEW W, AreWords(W), NEW ws \in Seq(W), NEW w \in W, NEW vs, vs = Append(ws, w)
  PROVE  vs \in Seq(W) /\ Len(vs) = Len(ws) + 1 /\ Grows(vs, ws, w)
<1>1. PICK n \in Nat : n = Len(ws) /\ DOMAIN ws = 1..n
  BY LenProperties
<1>2. /\ vs \in Seq(W) /\ Len(vs) = n + 1 /\ vs[n + 1] = w
      /\ \A i \in 1..n : vs[i] = ws[i]
  BY <1>1, AppendProperties
<1>3. PICK x \in Nat : x = w.chars
  BY DEF AreWords
<1>4. PICK ls \in Seq(Int) : ls = Letters(ws) /\ Len(ls) = n
  BY <1>1, TextSize
<1>5. PICK ms \in Seq(Int) : ms = Letters(vs) /\ Len(ms) = n + 1
  BY <1>2, TextSize
<1>6. PICK ks \in Seq(Int) : /\ ks = Append(ls, x) /\ Len(ks) = n + 1 /\ ks[n + 1] = x
                            /\ \A i \in 1..n : ks[i] = ls[i]
  <2>1. x \in Int /\ ls \in Seq(Int) /\ Len(ls) = n
    BY <1>4
  <2>2. PICK ks \in Seq(Int) : ks = Append(ls, x)
    BY <2>1, AppendProperties
  <2>3. Len(ks) = n + 1 /\ ks[n + 1] = x /\ \A i \in 1..n : ks[i] = ls[i]
    BY <2>1, <2>2, AppendProperties
  <2> QED
    BY <2>2, <2>3
<1>7. DOMAIN vs = 1..n + 1
  BY <1>2, LenProperties
<1>8. ASSUME NEW i \in 1..n + 1 PROVE ms[i] = ks[i]
  <2>1. ms[i] = vs[i].chars
    BY <1>5, <1>7 DEF Letters
  <2>2. CASE i = n + 1
    BY <1>2, <1>3, <1>6, <2>1, <2>2
  <2>3. CASE i # n + 1
    <3>1. i \in 1..n
      BY <2>3
    <3>2. ls[i] = ws[i].chars
      BY <1>1, <1>4, <3>1 DEF Letters
    <3> QED
      BY <1>2, <1>6, <2>1, <3>1, <3>2
  <2> QED
    BY <2>2, <2>3
<1>9. ms = ks
  BY <1>5, <1>6, <1>8, SeqEqual
<1>10. Sum(Letters(vs)) = Sum(Letters(ws)) + x
  <2>1. x \in Int
    OBVIOUS
  <2>2. Sum(Append(ls, x)) = Sum(ls) + x
    BY <2>1, SumAppend
  <2> QED
    BY <1>4, <1>5, <1>6, <1>9, <2>2
<1>11. /\ Spaced(ws) = Sum(Letters(ws)) + n - 1 /\ Sum(Letters(ws)) \in Nat
       /\ Spaced(vs) = Sum(Letters(vs)) + (n + 1) - 1
  BY <1>1, <1>2, TextSize
<1>12. Spaced(<<w>>) = x
  <2>1. PICK one : one = <<w>>
    OBVIOUS
  <2>2. one \in Seq(W) /\ Len(one) = 1
    BY <2>1
  <2>3. Letters(one) = <<x>>
    <3>1. DOMAIN one = {1} /\ one[1] = w
      BY <2>1
    <3>2. Letters(one) = [i \in {1} |-> x]
      BY <1>3, <3>1 DEF Letters
    <3> QED
      BY <3>2
  <2>4. Sum(Letters(one)) = x
    BY <2>3, SumSmall
  <2>5. Spaced(one) = x + 1 - 1
    BY <2>2, <2>4, TextSize
  <2> QED
    BY <2>1, <2>5
<1> QED
  BY <1>1, <1>2, <1>3, <1>10, <1>11, <1>12 DEF Grows

-----------------------------------------------------------------------------
(* A sentence that is too long, cut word by word.                          *)
Splits(g, ws, max) ==
  g[0] = <<>> /\ \A i \in 1..Len(ws) : g[i] = SplitStep(g[i - 1], ws[i], max)
Pieces(u, parts) == [k \in DOMAIN parts |-> Rewritten(u, k, IF k = 1 THEN u.kind ELSE "plain", parts[k])]

(* A word begins a part or joins the last one.                             *)
LEMMA SplitStepGroups ==
  ASSUME NEW parts, NEW w, NEW max
  PROVE  LET more == SplitStep(parts, w, max)
             joins == parts # <<>> /\ Spaced(Last(parts)) + 1 + w.chars <= max
         IN  (joins => On(more, parts, w)) /\ (~joins => Anew(more, parts, w))
BY DEF SplitStep, On, Anew

(* hard_split goes through the words one at a time.                        *)
LEMMA SplitUnfolds ==
  ASSUME NEW W, NEW u, u.words \in Seq(W), NEW max
  PROVE  \E g : Splits(g, u.words, max) /\ hard_split(u, max) = Pieces(u, g[Len(u.words)])
<1> DEFINE ws == u.words
           V == Seq(Seq(W))
           n == Len(ws)
           adds == [i \in 1..n |-> [t \in V |-> SplitStep(t, ws[i], max)]]
           Eq(f) == f = [i \in 0..n |-> IF i = 0 THEN <<>> ELSE SplitStep(f[i - 1], ws[i], max)]
<1>2. n \in Nat /\ \A i \in 1..n : ws[i] \in W
  BY LenProperties, ElementOfSeq
<1>3. <<>> \in V
  BY EmptySeq
<1>4. ASSUME NEW t \in V, NEW i \in 1..n PROVE SplitStep(t, ws[i], max) \in V
  <2>1. ws[i] \in W
    BY <1>2
  <2>2. PICK more : more = SplitStep(t, ws[i], max)
    OBVIOUS
  <2>3. Anew(more, t, ws[i]) \/ On(more, t, ws[i])
    BY <2>2, SplitStepGroups
  <2> QED
    BY <2>1, <2>2, <2>3, Grouped
<1>5. adds \in Steps(V, n)
  BY <1>4 DEF Steps
<1>6. \A t \in V, i \in 1..n : adds[i][t] = SplitStep(t, ws[i], max)
  OBVIOUS
<1>7. hard_split(u, max) = Pieces(u, (CHOOSE h : Eq(h))[n])
  BY Zenon DEF hard_split, Pieces
<1>1. ws \in Seq(W)
  OBVIOUS
<1> HIDE DEF ws, V, n, adds
<1>8. PICK f : Iterates(f, V, <<>>, n, adds)
  BY <1>2, <1>3, <1>5, Recursion, Zenon
<1>9. /\ f \in [0..n -> V] /\ f[0] = <<>>
      /\ \A i \in 1..n : f[i] = adds[i][f[i - 1]]
  BY <1>8 DEF Iterates
<1>10. ASSUME NEW i \in 0..n
       PROVE  f[i] = IF i = 0 THEN <<>> ELSE SplitStep(f[i - 1], ws[i], max)
  <2>1. CASE i = 0
    BY <1>9, <2>1
  <2>2. CASE i # 0
    <3>1. i - 1 \in 0..n /\ i \in 1..n
      BY <1>2, <2>2
    <3> QED
      BY <1>6, <1>9, <2>2, <3>1
  <2> QED
    BY <2>1, <2>2
<1>11. Eq(f)
  BY <1>9, <1>10
<1>12. PICK g : Eq(g) /\ hard_split(u, max) = Pieces(u, g[n])
  BY <1>7, <1>11
<1>13. g[0] = <<>>
  BY <1>2, <1>12
<1>14. ASSUME NEW i \in 1..n PROVE g[i] = SplitStep(g[i - 1], ws[i], max)
  <2>1. i \in 0..n /\ i # 0
    BY <1>2
  <2> QED
    BY <1>12, <2>1, Zenon
<1> QED
  BY <1>12, <1>13, <1>14 DEF n, ws, Splits

(* Every part fits; every one but the last is longer than a sliver, for a  *)
(* word that did not fit was short enough to leave room for one.           *)
Fits(W, max) == \A w \in W : w.chars + 2 * MIN_CHUNK_ALNUM <= max
WellSplit(parts, max) ==
  /\ \A k \in 1..Len(parts) : Spaced(parts[k]) <= max
  /\ \A k \in 1..Len(parts) - 1 : Sum(Letters(parts[k])) >= MIN_CHUNK_ALNUM

(* One turn of _hard_split keeps the parts well split.                     *)
LEMMA SplitWell ==
  ASSUME NEW W, AreWords(W), NEW max \in Nat, Fits(W, max), NEW parts \in Seq(Seq(W)),
         NEW w \in W, WellSplit(parts, max), NEW more, more = SplitStep(parts, w, max)
  PROVE  WellSplit(more, max)
<1>1. PICK m \in Nat : m = Len(parts)
  BY LenProperties
<1>2. PICK x \in Nat \ {0} : x = w.chars /\ x + 2 * MIN_CHUNK_ALNUM <= max
  BY DEF AreWords, Fits
<1>3. \A k \in 1..m : parts[k] \in Seq(W)
  BY <1>1, ElementOfSeq
<1>4. /\ \A k \in 1..m : Spaced(parts[k]) <= max
      /\ \A k \in 1..m - 1 : Sum(Letters(parts[k])) >= MIN_CHUNK_ALNUM
  BY <1>1 DEF WellSplit
<1>5. CASE parts # <<>> /\ Spaced(Last(parts)) + 1 + w.chars <= max
  <2>1. On(more, parts, w)
    BY <1>5, SplitStepGroups
  <2>2. /\ more \in Seq(Seq(W)) /\ Len(more) = m /\ m \in Nat \ {0}
        /\ \A k \in 1..m - 1 : more[k] = parts[k]
        /\ Last(parts) \in Seq(W) /\ more[m] = Append(Last(parts), w)
    BY <1>1, <2>1, Grouped
  <2>3. PICK last \in Seq(W) : last = Last(parts)
    BY <2>2
  <2>4. Spaced(more[m]) = Spaced(last) + 1 + w.chars
    <3>1. PICK vs : vs = more[m]
      OBVIOUS
    <3>2. vs = Append(last, w)
      BY <2>2, <2>3, <3>1
    <3>3. Spaced(vs) = Spaced(last) + 1 + w.chars
      <4>1. Grows(vs, last, w)
        BY <3>2, OneWordMore
      <4> QED
        BY <4>1 DEF Grows
    <3> QED
      BY <3>1, <3>3
  <2>5. Spaced(more[m]) <= max
    BY <1>5, <2>3, <2>4
  <2>6. ASSUME NEW k \in 1..m PROVE Spaced(more[k]) <= max
    <3>1. CASE k = m
      BY <2>5, <3>1
    <3>2. CASE k # m
      <4>1. k \in 1..m - 1
        BY <3>2
      <4> QED
        BY <1>4, <2>2, <4>1
    <3> QED
      BY <3>1, <3>2
  <2>7. ASSUME NEW k \in 1..m - 1 PROVE Sum(Letters(more[k])) >= MIN_CHUNK_ALNUM
    BY <1>4, <2>2
  <2> QED
    BY <2>2, <2>6, <2>7 DEF WellSplit
<1>6. CASE ~(parts # <<>> /\ Spaced(Last(parts)) + 1 + w.chars <= max)
  <2>1. Anew(more, parts, w)
    BY <1>6, SplitStepGroups
  <2>2. /\ more \in Seq(Seq(W)) /\ Len(more) = m + 1
        /\ \A k \in 1..m : more[k] = parts[k]
        /\ more[m + 1] = <<w>>
    BY <1>1, <2>1, Grouped
  <2>3. Spaced(more[m + 1]) <= max
    <3>1. PICK none \in Seq(W) : none = <<>>
      BY EmptySeq
    <3>2. PICK one : one = Append(none, w)
      OBVIOUS
    <3>3. Spaced(<<w>>) = w.chars
      BY <3>2, OneWordMore DEF Grows
    <3> QED
      BY <1>2, <2>2, <3>3 DEF MIN_CHUNK_ALNUM
  <2>4. ASSUME NEW k \in 1..m + 1 PROVE Spaced(more[k]) <= max
    <3>1. k = m + 1 \/ k \in 1..m
      OBVIOUS
    <3> QED
      BY <1>4, <2>2, <2>3, <3>1
  <2>5. ASSUME NEW k \in 1..m PROVE Sum(Letters(more[k])) >= MIN_CHUNK_ALNUM
    <3>1. CASE k # m
      <4>1. k \in 1..m - 1
        BY <3>1
      <4> QED
        BY <1>4, <2>2, <4>1
    <3>2. CASE k = m
      <4>1. parts # <<>> /\ Last(parts) = parts[m] /\ m \in 1..m
        BY <1>1, <3>2, EmptySeq DEF Last
      <4>2. PICK last \in Seq(W) : last = parts[m]
        BY <1>3, <4>1
      <4>3. ~(Spaced(last) + 1 + x <= max)
        BY <1>2, <1>6, <4>1, <4>2
      <4>4. /\ Sum(Letters(last)) \in Nat /\ Len(last) <= Sum(Letters(last))
            /\ Spaced(last) = Sum(Letters(last)) + Len(last) - 1 /\ Len(last) \in Nat
        BY TextSize, LenProperties
      <4>5. Sum(Letters(last)) >= MIN_CHUNK_ALNUM
        <5>1. \A a, b \in Nat : /\ b <= a
                                /\ ~((a + b - 1) + 1 + x <= max)
                                /\ x + 2 * 40 <= max
                                => a >= 40
          OBVIOUS
        <5> QED
          BY <1>2, <4>3, <4>4, <5>1 DEF MIN_CHUNK_ALNUM
      <4> QED
        BY <2>2, <3>2, <4>2, <4>5
    <3> QED
      BY <3>1, <3>2
  <2> QED
    BY <2>2, <2>4, <2>5 DEF WellSplit
<1> QED
  BY <1>5, <1>6

(* What the letters of a stretch of words come to.                         *)
LEMMA LettersStretch ==
  ASSUME NEW W, AreWords(W), NEW ws \in Seq(W), NEW a \in 0..Len(ws), NEW b \in 0..Len(ws), a <= b,
         NEW t, t = SubSeq(ws, a + 1, b)
  PROVE  Sum(Letters(t)) = Totals(Letters(ws))[b] - Totals(Letters(ws))[a]
<1> DEFINE h == [w \in W |-> w.chars]
<1>1. Maps(h, W, Int)
  BY DEF Maps, AreWords
<1>2. ASSUME NEW vs \in Seq(W) PROVE Mapped(h, vs) = Letters(vs)
  <2>1. PICK n \in Nat : n = Len(vs) /\ DOMAIN vs = 1..n
    BY LenProperties
  <2>2. ASSUME NEW i \in 1..n PROVE h[vs[i]] = vs[i].chars
    <3>1. vs[i] \in W
      BY <2>1, ElementOfSeq
    <3> QED
      BY <3>1
  <2> QED
    BY <2>1, <2>2 DEF Mapped, Letters
<1> HIDE DEF h
<1>3. t \in Seq(W)
  BY StretchIs
<1>4. PICK ls \in Seq(Int) : ls = Letters(ws) /\ Len(ls) = Len(ws)
  BY TextSize
<1>5. Letters(t) = SubSeq(ls, a + 1, b)
  <2>1. Mapped(h, t) = SubSeq(Mapped(h, ws), a + 1, b)
    <3>1. Stretch(t, ws, a, b)
      BY DEF Stretch
    <3>2. Stretch(Mapped(h, t), Mapped(h, ws), a, b)
      BY <1>1, <3>1, MappedStretch
    <3> QED
      BY <3>2 DEF Stretch
  <2> QED
    BY <1>2, <1>3, <1>4, <2>1
<1>6. Sum(SubSeq(ls, a + 1, b)) = Totals(ls)[b] - Totals(ls)[(a + 1) - 1]
  <2>1. PICK c \in 1..Len(ls) + 1 : c = a + 1
    BY <1>4, LenProperties
  <2>2. b \in 0..Len(ls) /\ c - 1 <= b
    BY <1>4, <2>1
  <2>3. Sum(SubSeq(ls, c, b)) = Totals(ls)[b] - Totals(ls)[c - 1]
    BY <2>2, StretchSum
  <2> QED
    BY <2>1, <2>3
<1>7. (a + 1) - 1 = a
  OBVIOUS
<1> QED
  BY <1>4, <1>5, <1>6, <1>7

(* The parts of a sentence: they spell it, in order, none is too long, and *)
(* only the last may be a sliver.                                          *)
Spells(us) == [k \in 1..Len(us) |-> alnum_count(<<us[k]>>)]
Broken(u, us, max) ==
  /\ us \in Seq(Range(us)) /\ Len(us) \in 1..Len(u.words)
  /\ \A k \in 1..Len(us) : /\ us[k].id = u.id /\ us[k].part = k
                           /\ Chars(us[k]) \in 0..max /\ alnum_count(<<us[k]>>) \in Nat
                           /\ alnum_count(<<us[k]>>) = Sum(Letters(us[k].words))
  /\ \A k \in 1..Len(us) - 1 : alnum_count(<<us[k]>>) >= MIN_CHUNK_ALNUM
  /\ Sum(Spells(us)) = alnum_count(<<u>>)

(* What alnum_count says of one sentence: the characters of its words.     *)
LEMMA OneCount ==
  ASSUME NEW W, AreWords(W), NEW u, u.words \in Seq(W)
  PROVE  alnum_count(<<u>>) = Sum(Letters(u.words)) /\ alnum_count(<<u>>) \in Nat
<1>1. PICK x \in Nat : x = Sum(Letters(u.words))
  BY TextSize
<1>2. PICK one : one = <<u>>
  OBVIOUS
<1>3. DOMAIN one = {1} /\ one[1] = u
  BY <1>2
<1>4. [i \in DOMAIN one |-> Sum([j \in DOMAIN one[i].words |-> one[i].words[j].chars])] = <<x>>
  <2>1. Sum([j \in DOMAIN one[1].words |-> one[1].words[j].chars]) = x
    BY <1>1, <1>3 DEF Letters
  <2>2. [i \in {1} |-> Sum([j \in DOMAIN one[i].words |-> one[i].words[j].chars])] = [i \in {1} |-> x]
    BY <2>1
  <2>3. <<x>> = [i \in {1} |-> x]
    OBVIOUS
  <2> QED
    BY <1>3, <2>2, <2>3
<1>5. alnum_count(one) = Sum([i \in DOMAIN one |-> Sum([j \in DOMAIN one[i].words |-> one[i].words[j].chars])])
  BY DEF alnum_count, SumOver
<1>6. Sum(<<x>>) = x
  BY SumSmall
<1> QED
  BY <1>1, <1>2, <1>4, <1>5, <1>6

(* The sentence as it is: one part.                                        *)
LEMMA WholePart ==
  ASSUME NEW u, NEW max \in Nat \ {0}, Legible(u, max), Chars(u) <= max
  PROVE  Broken(u, <<u>>, max)
<1>1. PICK W : W = Range(u.words)
  OBVIOUS
<1>2. AreWords(W) /\ u.words \in Seq(W) /\ u.words # <<>> /\ u.part = 1
  BY <1>1 DEF AreWords, Legible, IsList, Range
<1>3. Len(u.words) \in Nat \ {0}
  BY <1>2, EmptySeq
<1>4. Chars(u) \in 0..max
  <2>1. /\ Chars(u) = Sum(Letters(u.words)) + Len(u.words) - 1
        /\ Sum(Letters(u.words)) \in Nat
    BY <1>2, TextSize DEF Chars
  <2> QED
    BY <1>3, <2>1
<1>a. alnum_count(<<u>>) = Sum(Letters(u.words)) /\ alnum_count(<<u>>) \in Nat
  BY <1>2, OneCount
<1>5. PICK x \in Nat : x = alnum_count(<<u>>)
  BY <1>a
<1>6. PICK one : one = <<u>>
  OBVIOUS
<1>7. Len(one) = 1 /\ one[1] = u /\ one \in Seq(Range(one))
  BY <1>6 DEF Range
<1>8. Spells(one) = <<x>>
  <2>1. Spells(one) = [k \in 1..1 |-> alnum_count(<<one[k]>>)]
    BY <1>7 DEF Spells
  <2>2. [k \in 1..1 |-> alnum_count(<<one[k]>>)] = [k \in 1..1 |-> x]
    BY <1>5, <1>7
  <2>3. <<x>> = [k \in 1..1 |-> x]
    OBVIOUS
  <2> QED
    BY <2>1, <2>2, <2>3
<1>9. Sum(<<x>>) = x
  BY <1>5, SumSmall
<1>10. Broken(u, one, max)
  <2>1. alnum_count(<<one[1]>>) = x /\ x = Sum(Letters(one[1].words))
    BY <1>5, <1>7, <1>a
  <2>2. /\ one[1].id = u.id /\ one[1].part = 1 /\ Chars(one[1]) \in 0..max
    BY <1>2, <1>4, <1>7
  <2>3. \A k \in 1..Len(one) : k = 1
    BY <1>7
  <2>4. Sum(Spells(one)) = alnum_count(<<u>>)
    BY <1>5, <1>8, <1>9
  <2>5. Len(one) \in 1..Len(u.words) /\ 1..Len(one) - 1 = {}
    BY <1>3, <1>7
  <2> QED
    BY <1>5, <1>7, <2>1, <2>2, <2>3, <2>4, <2>5 DEF Broken
<1> QED
  BY <1>6, <1>10

(* The sentence cut at spaces.                                             *)
LEMMA SplitParts ==
  ASSUME NEW u, NEW max \in Nat \ {0}, Legible(u, max), Chars(u) > max
  PROVE  Broken(u, hard_split(u, max), max)
<1>1. PICK W : W = Range(u.words)
  OBVIOUS
<1> DEFINE ws == u.words
<1>2. AreWords(W) /\ ws \in Seq(W) /\ ws # <<>> /\ u.part = 1 /\ Fits(W, max)
  BY <1>1 DEF AreWords, Legible, IsList, Range, Fits
<1>3. PICK n \in Nat \ {0} : n = Len(ws)
  BY <1>2, EmptySeq
<1>4. PICK g : Splits(g, u.words, max) /\ hard_split(u, max) = Pieces(u, g[Len(u.words)])
  BY <1>2, SplitUnfolds
<1> HIDE DEF ws
<1>5. g[0] = <<>> /\ \A i \in 1..n : g[i] = SplitStep(g[i - 1], ws[i], max)
  BY <1>3, <1>4 DEF Splits, ws
<1>6. \A i \in 0..n : g[i] \in Seq(Seq(W)) /\ \E cut : Cuts(cut, g[i], ws, i)
  <2>1. ASSUME NEW i \in 1..n PROVE Anew(g[i], g[i - 1], ws[i]) \/ On(g[i], g[i - 1], ws[i])
    BY <1>5, SplitStepGroups
  <2> QED
    BY <1>2, <1>3, <1>5, <2>1, GroupsCut
<1>7. \A i \in 0..n : WellSplit(g[i], max)
  <2> DEFINE T == {i \in 0..n : WellSplit(g[i], max)}
  <2>1. 0 \in T
    BY <1>5 DEF WellSplit
  <2>2. ASSUME NEW i \in 1..n, i - 1 \in T PROVE i \in T
    <3>1. i - 1 \in 0..n /\ i \in 0..n
      OBVIOUS
    <3>2. PICK parts \in Seq(Seq(W)) : parts = g[i - 1]
      BY <1>6, <3>1
    <3>3. ws[i] \in W
      BY <1>2, <1>3, ElementOfSeq
    <3>4. WellSplit(parts, max)
      BY <2>2, <3>2
    <3>5. PICK more : more = g[i]
      OBVIOUS
    <3>6. more = SplitStep(parts, ws[i], max)
      BY <1>5, <3>2, <3>5
    <3>7. WellSplit(more, max)
      BY <1>2, <3>3, <3>4, <3>6, SplitWell
    <3> QED
      BY <3>1, <3>5, <3>7
  <2> HIDE DEF T
  <2>3. \A i \in 0..n : i \in T
    BY <2>1, <2>2, Induction
  <2> QED
    BY <2>3 DEF T
<1>8. PICK parts \in Seq(Seq(W)) : parts = g[n]
  BY <1>6
<1>9. PICK cut : Cuts(cut, parts, ws, n)
  BY <1>6, <1>8
<1>10. WellSplit(parts, max)
  BY <1>7, <1>8
<1>11. PICK m \in Nat : m = Len(parts) /\ DOMAIN parts = 1..m
  BY LenProperties
<1>12. /\ m \in 1..n
       /\ \A k \in 1..m : /\ parts[k] \in Seq(W) /\ Len(parts[k]) = cut[k] - cut[k - 1]
                          /\ cut[k] - cut[k - 1] \in Nat \ {0}
  <2>1. n \in 0..Len(ws) /\ n > 0
    BY <1>3
  <2> QED
    BY <1>2, <1>9, <1>11, <2>1, CutsFew
<1>13. PICK us : us = hard_split(u, max)
  OBVIOUS
<1>14. us = [k \in 1..m |-> Rewritten(u, k, IF k = 1 THEN u.kind ELSE "plain", parts[k])]
  BY <1>3, <1>4, <1>8, <1>11, <1>13 DEF Pieces, ws
<1>15. \A k \in 1..m : us[k].id = u.id /\ us[k].part = k /\ us[k].words = parts[k]
  BY <1>14 DEF Rewritten
<1>16. us \in Seq(Range(us)) /\ Len(us) = m
  <2>1. DOMAIN us = 1..m
    BY <1>14
  <2>2. us \in [1..m -> Range(us)]
    BY <1>14, <2>1 DEF Range
  <2> QED
    BY <2>2
<1>17. ASSUME NEW k \in 1..m
       PROVE  /\ alnum_count(<<us[k]>>) = Sum(Letters(parts[k])) /\ alnum_count(<<us[k]>>) \in Nat
              /\ Chars(us[k]) \in 0..max /\ us[k].words = parts[k]
  <2>1. us[k].words \in Seq(W)
    BY <1>12, <1>15
  <2>2. alnum_count(<<us[k]>>) = Sum(Letters(parts[k])) /\ alnum_count(<<us[k]>>) \in Nat
    BY <1>2, <1>15, <2>1, OneCount
  <2>3. /\ Spaced(parts[k]) = Sum(Letters(parts[k])) + Len(parts[k]) - 1
        /\ Sum(Letters(parts[k])) \in Nat
    BY <1>2, <1>12, TextSize
  <2>4. Spaced(parts[k]) <= max
    BY <1>10, <1>11 DEF WellSplit
  <2>5. Len(parts[k]) \in Nat \ {0}
    BY <1>12
  <2>6. Spaced(parts[k]) \in 0..max
    BY <2>3, <2>4, <2>5
  <2> QED
    BY <1>15, <2>2, <2>6 DEF Chars
<1>18. ASSUME NEW k \in 1..m - 1 PROVE alnum_count(<<us[k]>>) >= MIN_CHUNK_ALNUM
  <2>1. k \in 1..m
    BY <1>12
  <2> QED
    BY <1>10, <1>11, <1>17, <2>1 DEF WellSplit
<1>19. Sum(Spells(us)) = alnum_count(<<u>>)
  <2>1. PICK t : t = Totals(Letters(ws))
    OBVIOUS
  <2>2. /\ Sum(Letters(ws)) = t[n] /\ t[0] = 0
        /\ \A i \in 0..n : t[i] \in Int
    <3>1. PICK ls \in Seq(Int) : ls = Letters(ws) /\ Len(ls) = n
      BY <1>2, <1>3, TextSize
    <3>2. Adds(t, n, ls)
      BY <2>1, <3>1, TotalsUnfold
    <3> QED
      BY <2>1, <3>1, <3>2 DEF Adds, Sum
  <2>3. /\ cut \in [0..m -> 0..n] /\ cut[0] = 0 /\ cut[m] = n
        /\ \A k \in 1..m : cut[k - 1] < cut[k] /\ parts[k] = SubSeq(ws, cut[k - 1] + 1, cut[k])
    BY <1>9, <1>11 DEF Cuts
  <2>4. ASSUME NEW k \in 1..m
        PROVE  alnum_count(<<us[k]>>) = t[cut[k]] - t[cut[k - 1]]
    <3>1. k \in 0..m /\ k - 1 \in 0..m
      OBVIOUS
    <3>2. PICK a \in 0..n : a = cut[k - 1]
      BY <2>3, <3>1
    <3>3. PICK b \in 0..n : b = cut[k]
      BY <2>3, <3>1
    <3>4. PICK part : part = parts[k]
      OBVIOUS
    <3>5. a <= b /\ part = SubSeq(ws, a + 1, b)
      <4>1. cut[k - 1] < cut[k] /\ parts[k] = SubSeq(ws, cut[k - 1] + 1, cut[k])
        BY <2>3
      <4>2. a < b
        BY <3>2, <3>3, <4>1
      <4>3. part = SubSeq(ws, a + 1, b)
        BY <3>2, <3>3, <3>4, <4>1
      <4> QED
        BY <4>2, <4>3
    <3>6. Sum(Letters(part)) = t[b] - t[a]
      BY <1>2, <1>3, <2>1, <3>5, LettersStretch
    <3> QED
      BY <1>17, <3>2, <3>3, <3>4, <3>6
  <2>5. PICK sp : sp = Spells(us)
    OBVIOUS
  <2>6. sp = [k \in 1..m |-> alnum_count(<<us[k]>>)]
    BY <1>16, <2>5 DEF Spells
  <2>7. sp \in Seq(Int) /\ Len(sp) = m
    BY <1>17, <2>6
  <2> DEFINE s == [k \in 0..m |-> t[cut[k]]]
  <2>8. \A k \in 0..m : s[k] = t[cut[k]]
    OBVIOUS
  <2> HIDE DEF s
  <2>9. Adds(s, m, sp)
    <3>1. s[0] = 0
      BY <2>2, <2>3, <2>8
    <3>2. ASSUME NEW k \in 0..m PROVE s[k] \in Int
      BY <2>2, <2>3, <2>8
    <3>3. ASSUME NEW k \in 1..m PROVE s[k] = s[k - 1] + sp[k]
      <4>1. k \in 0..m /\ k - 1 \in 0..m
        OBVIOUS
      <4>2. sp[k] = s[k] - s[k - 1]
        BY <2>4, <2>6, <2>8, <4>1
      <4> QED
        BY <3>2, <4>1, <4>2
    <3> QED
      BY <3>1, <3>2, <3>3 DEF Adds
  <2>10. Sum(sp) = s[m]
    BY <2>7, <2>9, TotalsAre
  <2>11. s[m] = t[n]
    BY <2>3, <2>8
  <2>12. alnum_count(<<u>>) = Sum(Letters(ws))
    BY <1>2, OneCount DEF ws
  <2> QED
    BY <2>2, <2>5, <2>10, <2>11, <2>12
<1>20. Broken(u, us, max)
  BY <1>3, <1>12, <1>15, <1>16, <1>17, <1>18, <1>19 DEF Broken, ws
<1> QED
  BY <1>13, <1>20

(* Every sentence of a page, whole or cut.                                 *)
LEMMA PartsBroken ==
  ASSUME NEW u, NEW max \in Nat \ {0}, Legible(u, max)
  PROVE  Broken(u, Parts(u, max), max)
<1>1. Chars(u) \in Int
  <2>1. PICK W : W = Range(u.words)
    OBVIOUS
  <2>2. AreWords(W) /\ u.words \in Seq(W)
    BY <2>1 DEF AreWords, Legible, IsList, Range
  <2>3. Chars(u) = Sum(Letters(u.words)) + Len(u.words) - 1 /\ Sum(Letters(u.words)) \in Nat
    BY <2>2, TextSize DEF Chars
  <2>4. Len(u.words) \in Nat
    BY <2>2, LenProperties
  <2> QED
    BY <2>3, <2>4
<1>2. CASE Chars(u) > max
  BY <1>2, SplitParts DEF Parts
<1>3. CASE ~(Chars(u) > max)
  <2>1. Chars(u) <= max
    BY <1>1, <1>3
  <2> QED
    BY <1>3, <2>1, WholePart DEF Parts
<1> QED
  BY <1>2, <1>3

-----------------------------------------------------------------------------
(* Sentences, or parts of them, and the room they take in a chunk.         *)
AreUnits(C, max) == \A u \in C : Chars(u) \in 0..max
Widths(us) == [i \in DOMAIN us |-> Chars(us[i]) + 1]

(* A text in sentences and their widths, each with the space behind it.    *)
LEMMA WidthsAre ==
  ASSUME NEW C, NEW max \in Nat, AreUnits(C, max), NEW us \in Seq(C)
  PROVE  /\ Widths(us) \in Seq(Nat) /\ Widths(us) \in Seq(Int) /\ Len(Widths(us)) = Len(us)
         /\ Length(us) = Sum(Widths(us)) - 1 /\ Sum(Widths(us)) \in Nat
         /\ \A i \in 1..Len(us) : Widths(us)[i] = Chars(us[i]) + 1 /\ Chars(us[i]) \in 0..max
         /\ \A i \in 0..Len(us) : Totals(Widths(us))[i] \in Nat
<1>1. PICK n \in Nat : n = Len(us) /\ DOMAIN us = 1..n
  BY LenProperties
<1>2. ASSUME NEW i \in 1..n PROVE Chars(us[i]) \in 0..max
  BY <1>1, ElementOfSeq DEF AreUnits
<1>3. PICK ws : ws = Widths(us)
  OBVIOUS
<1>4. ws = [i \in 1..n |-> Chars(us[i]) + 1]
  BY <1>1, <1>3 DEF Widths
<1>5. ws \in [1..n -> Nat]
  BY <1>2, <1>4
<1>6. ws \in Seq(Nat) /\ ws \in Seq(Int) /\ Len(ws) = n
  BY <1>5
<1>7. Length(us) = Sum(ws) - 1
  BY <1>3 DEF Length, SumOver, Widths
<1>8. /\ \A i \in 0..n : Totals(ws)[i] \in Nat
      /\ Sum(ws) \in Nat
  BY <1>6, TotalsGrow DEF Sum
<1> QED
  BY <1>1, <1>2, <1>3, <1>4, <1>6, <1>7, <1>8

(* What comes behind leaves what was there in its place.                   *)
Wider(vs, us, x) ==
  /\ Length(vs) = Length(us) + 1 + x /\ Length(us) \in Int
  /\ \A r \in 0..Len(us) : Totals(Widths(vs))[r] = Totals(Widths(us))[r]

Follows(vs, us, ts) == vs = us \o ts
Joins(vs, us, ts) ==
  /\ \A i \in 1..Len(us) : vs[i] = us[i]
  /\ \A i \in 1..Len(ts) : vs[Len(us) + i] = ts[i]

(* A text behind a text: the places and the widths of the second move on.  *)
LEMMA LongerBy ==
  ASSUME NEW C, NEW max \in Nat, AreUnits(C, max), NEW us \in Seq(C), NEW ts \in Seq(C),
         NEW vs, Follows(vs, us, ts)
  PROVE  /\ vs \in Seq(C) /\ Len(vs) = Len(us) + Len(ts)
         /\ Joins(vs, us, ts) /\ Wider(vs, us, Length(ts)) /\ Length(ts) \in Int
<1>1. PICK n \in Nat : n = Len(us)
  BY LenProperties
<1>2. PICK m \in Nat : m = Len(ts)
  BY LenProperties
<1> USE DEF Follows
<1>3. vs \in Seq(C) /\ Len(vs) = n + m
  BY <1>1, <1>2, ConcatProperties
<1>4. \A j \in 1..n + m : vs[j] = IF j <= n THEN us[j] ELSE ts[j - n]
  <2>1. \A j \in 1..Len(us) + Len(ts) :
          (us \o ts)[j] = IF j <= Len(us) THEN us[j] ELSE ts[j - Len(us)]
    BY ConcatProperties
  <2> QED
    BY <1>1, <1>2, <2>1
<1> HIDE DEF Follows
<1>5. ASSUME NEW i \in 1..n PROVE vs[i] = us[i]
  <2>1. i \in 1..n + m /\ i <= n
    OBVIOUS
  <2> QED
    BY <1>4, <2>1
<1>6. ASSUME NEW i \in 1..m PROVE vs[n + i] = ts[i]
  <2>1. PICK j \in 1..n + m : j = n + i /\ ~ j <= n /\ j - n = i
    OBVIOUS
  <2>2. vs[j] = IF j <= n THEN us[j] ELSE ts[j - n]
    BY <1>4
  <2> QED
    BY <2>1, <2>2
<1>7. PICK a \in Seq(Int) : /\ a = Widths(us) /\ Len(a) = n /\ Length(us) = Sum(a) - 1 /\ Sum(a) \in Nat
                           /\ \A i \in 1..n : a[i] = Chars(us[i]) + 1
  BY <1>1, WidthsAre
<1>8. PICK b \in Seq(Int) : /\ b = Widths(ts) /\ Len(b) = m /\ Length(ts) = Sum(b) - 1 /\ Sum(b) \in Nat
                           /\ \A i \in 1..m : b[i] = Chars(ts[i]) + 1
  BY <1>2, WidthsAre
<1>9. PICK c \in Seq(Int) : /\ c = Widths(vs) /\ Len(c) = n + m /\ Length(vs) = Sum(c) - 1
                           /\ \A i \in 1..n + m : c[i] = Chars(vs[i]) + 1
  <2>1. PICK x \in Seq(C) : x = vs /\ Len(x) = n + m
    BY <1>3
  <2>2. Widths(x) \in Seq(Int) /\ Len(Widths(x)) = Len(x) /\ Length(x) = Sum(Widths(x)) - 1
    BY WidthsAre
  <2>3. \A i \in 1..Len(x) : Widths(x)[i] = Chars(x[i]) + 1
    BY WidthsAre
  <2> QED
    BY <2>1, <2>2, <2>3
<1>10. c = a \o b
  <2>1. PICK d : d = a \o b
    OBVIOUS
  <2>2. d \in Seq(Int) /\ Len(d) = n + m
    BY <1>7, <1>8, <2>1, ConcatProperties
  <2>3. \A j \in 1..n + m : d[j] = IF j <= n THEN a[j] ELSE b[j - n]
    <3>1. \A j \in 1..Len(a) + Len(b) : (a \o b)[j] = IF j <= Len(a) THEN a[j] ELSE b[j - Len(a)]
      BY ConcatProperties
    <3> QED
      BY <1>7, <1>8, <2>1, <3>1
  <2>4. ASSUME NEW j \in 1..n + m PROVE c[j] = d[j]
    <3>1. c[j] = Chars(vs[j]) + 1 /\ vs[j] = IF j <= n THEN us[j] ELSE ts[j - n]
      BY <1>4, <1>9
    <3>2. CASE j <= n
      <4>1. j \in 1..n
        BY <3>2
      <4> QED
        BY <1>7, <2>3, <3>1, <3>2, <4>1
    <3>3. CASE ~ j <= n
      <4>1. j - n \in 1..m
        BY <3>3
      <4> QED
        BY <1>8, <2>3, <3>1, <3>3, <4>1
    <3> QED
      BY <3>2, <3>3
  <2>5. c = d
    BY <1>9, <2>2, <2>4, SeqEqual
  <2> QED
    BY <2>1, <2>5
<1>11. Sum(c) = Sum(a) + Sum(b)
  BY <1>10, SumConcat
<1>12. Length(vs) = Length(us) + 1 + Length(ts)
  BY <1>7, <1>8, <1>9, <1>11
<1>13. \A r \in 0..n : Totals(c)[r] = Totals(a)[r]
  <2>1. ASSUME NEW i \in 1..n PROVE c[i] = a[i]
    <3>1. i \in 1..n + m
      OBVIOUS
    <3> QED
      BY <1>5, <1>7, <1>9, <3>1
  <2>2. n <= Len(c) /\ n <= Len(a)
    BY <1>7, <1>9
  <2> QED
    BY <2>1, <2>2, TotalsAgree
<1>14. Length(us) \in Int /\ Length(ts) \in Int
  BY <1>7, <1>8
<1>15. Wider(vs, us, Length(ts))
  BY <1>1, <1>7, <1>9, <1>12, <1>13, <1>14 DEF Wider
<1>16. Joins(vs, us, ts)
  BY <1>1, <1>2, <1>5, <1>6 DEF Joins
<1> QED
  BY <1>1, <1>2, <1>3, <1>14, <1>15, <1>16

(* One sentence more.                                                      *)
Appended(vs, us, u) == vs = Append(us, u)

(* The same with one sentence behind a text.                               *)
LEMMA LongerByOne ==
  ASSUME NEW C, NEW max \in Nat, AreUnits(C, max), NEW us \in Seq(C), NEW u \in C,
         NEW vs, Appended(vs, us, u)
  PROVE  /\ vs \in Seq(C) /\ Len(vs) = Len(us) + 1
         /\ \A i \in 1..Len(us) : vs[i] = us[i]
         /\ vs[Len(us) + 1] = u
         /\ Wider(vs, us, Chars(u))
<1>1. PICK one \in Seq(C) : one = <<u>> /\ Len(one) = 1 /\ one[1] = u
  <2>1. <<u>> \in Seq(C) /\ Len(<<u>>) = 1 /\ <<u>>[1] = u
    OBVIOUS
  <2> QED
    BY <2>1
<1>2. Follows(vs, us, one)
  BY <1>1, AppendIsConcat DEF Follows, Appended
<1>3. PICK x \in Nat : x = Chars(u)
  BY DEF AreUnits
<1>4. Length(one) = x
  <2>1. PICK ws : ws = Widths(one)
    OBVIOUS
  <2>2. /\ ws \in Seq(Int) /\ Len(ws) = 1 /\ Length(one) = Sum(ws) - 1
        /\ ws[1] = x + 1
    <3>1. Widths(one) \in Seq(Int) /\ Len(Widths(one)) = Len(one) /\ Length(one) = Sum(Widths(one)) - 1
      BY WidthsAre
    <3>2. \A i \in 1..Len(one) : Widths(one)[i] = Chars(one[i]) + 1
      BY WidthsAre
    <3> QED
      BY <1>1, <1>3, <2>1, <3>1, <3>2
  <2>3. ws = <<x + 1>>
    <3>1. PICK v \in Seq(Int) : v = <<x + 1>> /\ Len(v) = 1 /\ v[1] = x + 1
      <4>1. <<x + 1>> \in Seq(Int) /\ Len(<<x + 1>>) = 1 /\ <<x + 1>>[1] = x + 1
        OBVIOUS
      <4> QED
        BY <4>1
    <3>2. ws = v
      BY <2>2, <3>1, SeqEqual
    <3> QED
      BY <3>1, <3>2
  <2>4. Sum(<<x + 1>>) = x + 1
    BY SumSmall
  <2> QED
    BY <2>2, <2>3, <2>4
<1>5. Wider(vs, us, x)
  BY <1>1, <1>2, <1>4, LongerBy
<1>6. /\ vs \in Seq(C) /\ Len(vs) = Len(us) + 1
      /\ \A i \in 1..Len(us) : vs[i] = us[i]
      /\ vs[Len(us) + 1] = u
  BY AppendProperties DEF Appended
<1> QED
  BY <1>3, <1>5, <1>6

-----------------------------------------------------------------------------
(* A chunk holds the sentences a + 1..b of us, behind the last q of those   *)
(* before them, which take no more than ov; the chunks made so far hold all *)
(* sentences up to n, in turn.                                             *)
Held(ch, us, a, q, b, ov, size) ==
  /\ a \in Nat /\ b \in Nat /\ a < b /\ q \in 0..a /\ Len(ch) = q + (b - a)
  /\ \A j \in 1..Len(ch) : ch[j] = us[(a - q) + j]
  /\ Totals(Widths(ch))[q] <= ov
  /\ Length(ch) <= size

Placed(to, r, chs, us, n, ov, size) ==
  /\ to[0] = 0 /\ to[Len(chs)] = n /\ n \in Nat
  /\ \A k \in 0..Len(chs) : to[k] \in 0..n
  /\ \A k, l \in 0..Len(chs) : k <= l => to[k] <= to[l]
  /\ \A k \in 1..Len(chs) : Held(chs[k], us, to[k - 1], r[k], to[k], ov, size)

(* Nothing to place.                                                       *)
LEMMA PlacedNone ==
  ASSUME NEW us, NEW ov, NEW size
  PROVE  \E to, r : Placed(to, r, <<>>, us, 0, ov, size)
<1>1. PICK none : none = <<>>
  OBVIOUS
<1>2. Len(none) = 0
  BY <1>1
<1>3. Placed([k \in 0..0 |-> 0], [k \in 1..0 |-> 0], none, us, 0, ov, size)
  BY <1>2 DEF Placed
<1> QED
  BY <1>1, <1>3

(* One chunk more.                                                         *)
LEMMA PlacedMore ==
  ASSUME NEW C, NEW chs \in Seq(Seq(C)), NEW us, NEW to, NEW r, NEW n, NEW ov, NEW size,
         Placed(to, r, chs, us, n, ov, size),
         NEW ch \in Seq(C), NEW q, NEW b, Held(ch, us, n, q, b, ov, size),
         NEW more, Appended(more, chs, ch)
  PROVE  \E to2, r2 : Placed(to2, r2, more, us, b, ov, size)
<1>1. PICK m \in Nat : m = Len(chs)
  BY LenProperties
<1>2. Len(more) = m + 1 /\ more[m + 1] = ch /\ \A k \in 1..m : more[k] = chs[k]
  BY <1>1, AppendProperties DEF Appended
<1>3. /\ to[0] = 0 /\ to[m] = n /\ n \in Nat
      /\ \A k \in 0..m : to[k] \in 0..n
      /\ \A k, l \in 0..m : k <= l => to[k] <= to[l]
      /\ \A k \in 1..m : Held(chs[k], us, to[k - 1], r[k], to[k], ov, size)
  BY <1>1 DEF Placed
<1>4. b \in Nat /\ n < b
  BY DEF Held
<1> DEFINE g == [k \in 0..m + 1 |-> IF k = m + 1 THEN b ELSE to[k]]
           s == [k \in 1..m + 1 |-> IF k = m + 1 THEN q ELSE r[k]]
<1>5. g[m + 1] = b /\ s[m + 1] = q /\ \A k \in 1..m : s[k] = r[k]
  OBVIOUS
<1>6. \A k \in 0..m : g[k] = to[k]
  OBVIOUS
<1> HIDE DEF g, s
<1>7. ASSUME NEW k \in 0..m + 1 PROVE g[k] \in 0..b
  <2>1. CASE k = m + 1
    BY <1>4, <1>5, <2>1
  <2>2. CASE k # m + 1
    <3>1. k \in 0..m
      BY <2>2
    <3>2. to[k] \in 0..n /\ g[k] = to[k]
      BY <1>3, <1>6, <3>1
    <3> QED
      BY <1>3, <1>4, <3>2
  <2> QED
    BY <2>1, <2>2
<1>8. ASSUME NEW k \in 0..m + 1, NEW l \in 0..m + 1, k <= l PROVE g[k] <= g[l]
  <2>1. CASE l = m + 1
    BY <1>5, <1>7, <2>1
  <2>2. CASE l # m + 1
    <3>1. k \in 0..m /\ l \in 0..m
      BY <1>8, <2>2
    <3> QED
      BY <1>3, <1>6, <1>8, <3>1
  <2> QED
    BY <2>1, <2>2
<1>9. ASSUME NEW k \in 1..m + 1 PROVE Held(more[k], us, g[k - 1], s[k], g[k], ov, size)
  <2>1. CASE k = m + 1
    <3>1. m \in 0..m /\ k - 1 = m
      BY <2>1
    <3>2. g[k - 1] = n /\ g[k] = b /\ s[k] = q /\ more[k] = ch
      BY <1>2, <1>3, <1>5, <1>6, <2>1, <3>1
    <3> QED
      BY <3>2
  <2>2. CASE k # m + 1
    <3>1. k \in 1..m /\ k \in 0..m /\ k - 1 \in 0..m
      BY <2>2
    <3>2. g[k - 1] = to[k - 1] /\ g[k] = to[k] /\ s[k] = r[k] /\ more[k] = chs[k]
      BY <1>2, <1>5, <1>6, <3>1
    <3>3. Held(chs[k], us, to[k - 1], r[k], to[k], ov, size)
      BY <1>3, <3>1
    <3> QED
      BY <3>2, <3>3
  <2> QED
    BY <2>1, <2>2
<1>10. g[0] = 0
  BY <1>3, <1>6
<1>11. Placed(g, s, more, us, b, ov, size)
  BY <1>2, <1>4, <1>5, <1>7, <1>8, <1>9, <1>10 DEF Placed
<1> QED
  BY <1>11

(* The last chunk, and the chunks before it.                               *)
LEMMA PlacedLast ==
  ASSUME NEW C, NEW chs \in Seq(Seq(C)), NEW us, NEW to, NEW r, NEW n, NEW ov, NEW size,
         Placed(to, r, chs, us, n, ov, size), chs # <<>>
  PROVE  \E a, q : /\ Placed(to, r, Front(chs), us, a, ov, size)
                   /\ Held(Last(chs), us, a, q, n, ov, size)
                   /\ Front(chs) \in Seq(Seq(C)) /\ Last(chs) \in Seq(C)
<1>1. PICK m \in Nat \ {0} : m = Len(chs)
  BY EmptySeq
<1>2. /\ to[0] = 0 /\ to[m] = n /\ n \in Nat
      /\ \A k \in 0..m : to[k] \in 0..n
      /\ \A k, l \in 0..m : k <= l => to[k] <= to[l]
      /\ \A k \in 1..m : Held(chs[k], us, to[k - 1], r[k], to[k], ov, size)
  BY <1>1 DEF Placed
<1>3. PICK front \in Seq(Seq(C)) :
        front = Front(chs) /\ Len(front) = m - 1 /\ \A k \in 1..m - 1 : front[k] = chs[k]
  <2>1. PICK t : t = SubSeq(chs, 0 + 1, m - 1)
    OBVIOUS
  <2>2. PICK l \in 0..Len(chs) : l = m - 1 /\ 0 <= l
    <3>1. m - 1 \in 0..m /\ 0 <= m - 1
      OBVIOUS
    <3> QED
      BY <1>1, <3>1
  <2>3. 0 \in 0..Len(chs) /\ t = SubSeq(chs, 0 + 1, l)
    BY <1>1, <2>1, <2>2
  <2>4. /\ t \in Seq(Seq(C)) /\ Len(t) = l - 0
        /\ \A i \in 1..l - 0 : t[i] = chs[0 + i]
    BY <2>2, <2>3, StretchIs
  <2>5. t = Front(chs)
    BY <1>1, <2>1 DEF Front
  <2>6. l - 0 = m - 1 /\ \A i \in 1..m - 1 : 0 + i = i
    BY <2>2
  <2> QED
    BY <2>4, <2>5, <2>6
<1>4. PICK last \in Seq(C) : last = Last(chs) /\ last = chs[m]
  <2>1. chs[m] \in Seq(C)
    BY <1>1, ElementOfSeq
  <2> QED
    BY <1>1, <2>1 DEF Last
<1>5. m - 1 \in 0..m /\ m \in 1..m /\ m \in 0..m
  OBVIOUS
<1>6. PICK a \in Nat : a = to[m - 1]
  <2>1. to[m - 1] \in 0..n
    BY <1>2, <1>5
  <2>2. to[m - 1] \in Nat
    BY <1>2, <2>1
  <2> QED
    BY <2>2
<1>7. Held(last, us, a, r[m], n, ov, size)
  BY <1>2, <1>4, <1>5, <1>6
<1>8. Placed(to, r, front, us, a, ov, size)
  <2>1. \A k \in 0..m - 1 : k \in 0..m /\ k <= m - 1
    OBVIOUS
  <2>2. ASSUME NEW k \in 0..m - 1 PROVE to[k] \in 0..a
    <3>1. to[k] \in 0..n /\ to[k] <= to[m - 1]
      BY <1>2, <1>5, <2>1
    <3> QED
      BY <1>6, <3>1
  <2>3. \A k, l \in 0..m - 1 : k <= l => to[k] <= to[l]
    BY <1>2, <2>1
  <2>4. ASSUME NEW k \in 1..m - 1 PROVE Held(front[k], us, to[k - 1], r[k], to[k], ov, size)
    <3>1. k \in 1..m
      OBVIOUS
    <3> QED
      BY <1>2, <1>3, <3>1
  <2> QED
    BY <1>2, <1>3, <1>6, <2>2, <2>3, <2>4 DEF Placed
<1> QED
  BY <1>3, <1>4, <1>7, <1>8

(* A chunk that takes the sentences up to c as well.                       *)
LEMMA HeldLonger ==
  ASSUME NEW ch, NEW us, NEW a, NEW q, NEW b, NEW ov, NEW size, Held(ch, us, a, q, b, ov, size),
         NEW long, NEW c \in Nat, b <= c, Len(long) = Len(ch) + (c - b),
         \A j \in 1..Len(ch) : long[j] = ch[j],
         \A j \in 1..c - b : long[Len(ch) + j] = us[b + j],
         NEW x, Wider(long, ch, x), NEW wide, Length(long) <= wide
  PROVE  Held(long, us, a, q, c, ov, wide)
<1>1. /\ a \in Nat /\ b \in Nat /\ a < b /\ q \in 0..a /\ Len(ch) = q + (b - a)
      /\ \A j \in 1..Len(ch) : ch[j] = us[(a - q) + j]
      /\ Totals(Widths(ch))[q] <= ov
  BY DEF Held
<1>2. PICK n \in Nat : n = Len(ch) /\ n = q + (b - a)
  BY <1>1
<1>3. a < c /\ Len(long) = q + (c - a)
  BY <1>1, <1>2
<1>4. ASSUME NEW j \in 1..q + (c - a) PROVE long[j] = us[(a - q) + j]
  <2>1. CASE j <= n
    <3>1. j \in 1..n
      BY <2>1
    <3>2. long[j] = ch[j] /\ ch[j] = us[(a - q) + j]
      BY <1>1, <1>2, <3>1
    <3> QED
      BY <3>2
  <2>2. CASE ~ j <= n
    <3>1. PICK i \in 1..c - b : i = j - n
      BY <1>1, <1>2, <2>2
    <3>2. long[n + i] = us[b + i]
      BY <1>2
    <3>3. n + i = j /\ b + i = (a - q) + j
      <4>1. a \in Int /\ b \in Int /\ q \in Int /\ n = q + (b - a) /\ i = j - n
        BY <1>1, <1>2, <3>1
      <4> QED
        BY <4>1
    <3> QED
      BY <3>2, <3>3
  <2> QED
    BY <2>1, <2>2
<1>5. Totals(Widths(long))[q] = Totals(Widths(ch))[q]
  <2>1. q \in 0..Len(ch)
    BY <1>1, <1>2
  <2> QED
    BY <2>1 DEF Wider
<1> QED
  BY <1>1, <1>3, <1>4, <1>5 DEF Held

-----------------------------------------------------------------------------
(* The loop over the sentences of a text.                                  *)
LEMMA NoLength ==
  Length(<<>>) = 0 - 1
<1>1. PICK e : e = <<>>
  OBVIOUS
<1>2. DOMAIN e = {} /\ e = [i \in {} |-> Chars(e[i]) + 1]
  BY <1>1
<1>3. Widths(e) = e
  BY <1>2 DEF Widths
<1>4. Length(e) = Sum(e) - 1
  BY <1>2 DEF Length, SumOver
<1>5. Sum(e) = 0
  BY <1>1, SumSmall
<1> QED
  BY <1>1, <1>3, <1>4, <1>5

(* What is carried over ends the chunk before, and is short enough.        *)
CarriedFrom(t, current, q, ov) ==
  /\ q \in 0..Len(current) /\ Len(t) = q
  /\ \A j \in 1..q : t[j] = current[(Len(current) - q) + j]
  /\ Totals(Widths(t))[q] <= ov /\ Length(t) + 1 <= ov /\ Length(t) \in Int

(* What is carried over is the end of the chunk, no wider than the         *)
(* overlap.                                                                *)
LEMMA CarriedEnds ==
  ASSUME NEW C, NEW max \in Nat, AreUnits(C, max), NEW current \in Seq(C), NEW ov \in Nat,
         NEW t, t = Carried(current, ov)
  PROVE  t \in Seq(C) /\ \E q : CarriedFrom(t, current, q, ov)
<1>1. PICK n \in Nat : n = Len(current)
  BY LenProperties
<1> DEFINE fits == {k \in 0..n : Length(SubSeq(current, k + 1, n)) + 1 <= ov}
<1>2. t = SubSeq(current, Min(fits) + 1, n)
  BY <1>1 DEF Carried
<1>3. n \in fits
  <2>1. SubSeq(current, n + 1, n) = <<>>
    BY SubSeqEmpty
  <2>2. Length(SubSeq(current, n + 1, n)) + 1 <= ov
    <3>1. Length(SubSeq(current, n + 1, n)) = 0 - 1
      BY <2>1, NoLength
    <3> QED
      BY <3>1
  <2> QED
    BY <2>2
<1>4. fits \in SUBSET Nat /\ fits \subseteq 0..n
  OBVIOUS
<1>5. \A k \in fits : k \in 0..n /\ Length(SubSeq(current, k + 1, n)) + 1 <= ov
  OBVIOUS
<1> HIDE DEF fits
<1>6. PICK k \in fits : k = Min(fits)
  <2>1. \E x \in fits : \A y \in fits : x <= y
    BY <1>3, <1>4, Least
  <2>2. Min(fits) \in fits
    BY <2>1 DEF Min
  <2> QED
    BY <2>2
<1>7. k \in 0..n /\ t = SubSeq(current, k + 1, n) /\ Length(t) + 1 <= ov
  BY <1>2, <1>5, <1>6
<1>8. PICK q \in 0..n : q = n - k
  BY <1>7
<1>9. /\ t \in Seq(C) /\ Len(t) = q
      /\ \A i \in 1..q : t[i] = current[(n - q) + i]
  <2>1. k \in 0..Len(current) /\ n \in 0..Len(current) /\ k <= n
    BY <1>1, <1>7
  <2>2. /\ t \in Seq(C) /\ Len(t) = n - k
        /\ \A i \in 1..n - k : t[i] = current[k + i]
    BY <1>7, <2>1, StretchIs
  <2>3. n - q = k
    BY <1>7, <1>8
  <2> QED
    BY <1>8, <2>2, <2>3
<1>10. Totals(Widths(t))[q] <= ov /\ Length(t) \in Int
  <2>1. Len(Widths(t)) = q /\ Length(t) = Sum(Widths(t)) - 1 /\ Sum(Widths(t)) \in Nat
    BY <1>9, WidthsAre
  <2>2. Sum(Widths(t)) = Totals(Widths(t))[q]
    BY <2>1 DEF Sum
  <2> QED
    BY <1>7, <2>1, <2>2
<1>11. CarriedFrom(t, current, q, ov)
  BY <1>1, <1>7, <1>8, <1>9, <1>10 DEF CarriedFrom
<1> QED
  BY <1>9, <1>11

(* Between two turns, all but the chunk being filled is placed.            *)
Accs(C) == [chunks : Seq(Seq(C)), current : Seq(C), fresh : Int]
Filling(acc, us, i, ov, size) ==
  \E a, q, to, r : /\ Placed(to, r, acc.chunks, us, a, ov, size)
                   /\ Held(acc.current, us, a, q, i, ov, size)
                   /\ acc.fresh = i - a
LoopAt(acc, us, i, ov, size) ==
  /\ i = 0 => acc = NoChunk
  /\ i > 0 => Filling(acc, us, i, ov, size)

(* The next sentence begins a chunk, behind what is carried over.          *)
LEMMA FillAnew ==
  ASSUME NEW C, NEW max \in Nat, AreUnits(C, max), NEW us \in Seq(C), NEW ov \in Nat,
         NEW i \in Nat, i + 1 \in 1..Len(us), NEW acc \in Accs(C), NEW u, u = us[i + 1],
         NEW size, size = max + ov, Filling(acc, us, i, ov, size), NEW new,
         new = [chunks |-> Append(acc.chunks, acc.current),
                current |-> Append(Carried(acc.current, ov), u), fresh |-> 1]
  PROVE  Filling(new, us, i + 1, ov, size)
<1>1. PICK x \in Seq(Seq(C)) : x = acc.chunks
  BY DEF Accs
<1>2. PICK y \in Seq(C) : y = acc.current
  BY DEF Accs
<1>3. PICK a, q, to, r : Placed(to, r, x, us, a, ov, size) /\ Held(y, us, a, q, i, ov, size)
  BY <1>1, <1>2 DEF Filling
<1>4. PICK xs : Appended(xs, x, y)
  BY DEF Appended
<1>5. PICK to2, r2 : Placed(to2, r2, xs, us, i, ov, size)
  BY <1>3, <1>4, PlacedMore
<1>6. PICK t \in Seq(C) : t = Carried(y, ov)
  BY CarriedEnds
<1>7. PICK p : CarriedFrom(t, y, p, ov)
  BY <1>6, CarriedEnds
<1>8. u \in C /\ Chars(u) \in 0..max
  <2>1. u \in C
    BY ElementOfSeq
  <2> QED
    BY <2>1 DEF AreUnits
<1>9. PICK ys : Appended(ys, t, u)
  BY DEF Appended
<1>10. /\ ys \in Seq(C) /\ Len(ys) = Len(t) + 1
       /\ \A j \in 1..Len(t) : ys[j] = t[j]
       /\ ys[Len(t) + 1] = u
       /\ Wider(ys, t, Chars(u))
  BY <1>8, <1>9, LongerByOne
<1>11. /\ a \in Nat /\ q \in 0..a /\ a < i /\ Len(y) = q + (i - a)
       /\ \A j \in 1..Len(y) : y[j] = us[(a - q) + j]
  BY <1>3 DEF Held
<1>12. PICK n \in Nat : n = Len(y) /\ n = q + (i - a) /\ n <= i
  BY <1>11
<1>13. /\ p \in 0..n /\ Len(t) = p
       /\ \A j \in 1..p : t[j] = y[(n - p) + j]
       /\ Totals(Widths(t))[p] <= ov /\ Length(t) + 1 <= ov /\ Length(t) \in Int
  BY <1>7, <1>12 DEF CarriedFrom
<1>14. p \in 0..i /\ Len(ys) = p + ((i + 1) - i)
  BY <1>10, <1>12, <1>13
<1>15. ASSUME NEW j \in 1..Len(ys) PROVE ys[j] = us[(i - p) + j]
  <2>1. CASE j <= p
    <3>1. j \in 1..p
      BY <1>13, <1>14, <2>1
    <3>2. ys[j] = t[j] /\ t[j] = y[(n - p) + j]
      BY <1>10, <1>13, <3>1
    <3>3. PICK l \in 1..n : l = (n - p) + j
      <4>1. p \in Int /\ p <= n /\ j <= p
        BY <1>13, <3>1
      <4>2. (n - p) + j \in 1..n
        BY <4>1
      <4> QED
        BY <4>2
    <3>4. y[l] = us[(a - q) + l]
      BY <1>11, <1>12
    <3>5. (a - q) + l = (i - p) + j
      BY <1>11, <1>12, <1>13, <3>3
    <3> QED
      BY <3>2, <3>3, <3>4, <3>5
  <2>2. CASE ~ j <= p
    <3>1. j = p + 1 /\ (i - p) + j = i + 1
      <4>1. p \in Nat /\ Len(ys) = p + 1
        BY <1>12, <1>13, <1>14
      <4>2. j = p + 1
        BY <2>2, <4>1
      <4> QED
        BY <4>1, <4>2
    <3> QED
      BY <1>10, <1>13, <3>1
  <2> QED
    BY <2>1, <2>2
<1>16. Totals(Widths(ys))[p] <= ov /\ Length(ys) <= size
  <2>1. /\ Length(ys) = Length(t) + 1 + Chars(u) /\ size = max + ov
        /\ \A k \in 0..Len(t) : Totals(Widths(ys))[k] = Totals(Widths(t))[k]
    BY <1>10 DEF Wider
  <2>2. p \in 0..Len(t)
    BY <1>13
  <2> QED
    BY <1>8, <1>13, <2>1, <2>2
<1>17. Held(ys, us, i, p, i + 1, ov, size)
  BY <1>14, <1>15, <1>16 DEF Held
<1>18. new.chunks = xs /\ new.current = ys /\ new.fresh = (i + 1) - i
  BY <1>1, <1>2, <1>4, <1>6, <1>9 DEF Appended
<1> QED
  BY <1>5, <1>17, <1>18 DEF Filling

(* The next sentence joins the chunk that is being filled.                 *)
LEMMA FillOn ==
  ASSUME NEW C, NEW max \in Nat, AreUnits(C, max), NEW us \in Seq(C), NEW ov \in Nat,
         NEW i \in Nat, i + 1 \in 1..Len(us), NEW acc \in Accs(C), NEW u, u = us[i + 1],
         NEW size, size = max + ov, Filling(acc, us, i, ov, size), NEW new,
         Length(acc.current) + 1 + Chars(u) <= max,
         new = [chunks |-> acc.chunks, current |-> Append(acc.current, u), fresh |-> acc.fresh + 1]
  PROVE  Filling(new, us, i + 1, ov, size)
<1>1. PICK y \in Seq(C) : y = acc.current
  BY DEF Accs
<1>2. PICK a, q, to, r : /\ Placed(to, r, acc.chunks, us, a, ov, size)
                         /\ Held(y, us, a, q, i, ov, size) /\ acc.fresh = i - a
  BY <1>1 DEF Filling
<1>3. u \in C /\ Chars(u) \in 0..max
  <2>1. u \in C
    BY ElementOfSeq
  <2> QED
    BY <2>1 DEF AreUnits
<1>4. PICK ys : Appended(ys, y, u)
  BY DEF Appended
<1>5. /\ ys \in Seq(C) /\ Len(ys) = Len(y) + 1
      /\ \A j \in 1..Len(y) : ys[j] = y[j]
      /\ ys[Len(y) + 1] = u
      /\ Wider(ys, y, Chars(u))
  BY <1>3, <1>4, LongerByOne
<1>6. Length(ys) <= size
  <2>1. Length(ys) = Length(y) + 1 + Chars(u) /\ Length(y) \in Int
    BY <1>5 DEF Wider
  <2> QED
    BY <1>1, <1>3, <2>1
<1>7. Held(ys, us, a, q, i + 1, ov, size)
  <2>1. PICK c \in Nat : c = i + 1
    OBVIOUS
  <2>2. i <= c /\ c - i = 1
    BY <2>1
  <2>3. Len(ys) = Len(y) + (c - i)
    BY <1>5, <2>2
  <2>4. \A j \in 1..c - i : ys[Len(y) + j] = us[i + j]
    <3>1. ASSUME NEW j \in 1..c - i PROVE ys[Len(y) + j] = us[i + j]
      <4>1. j = 1
        BY <2>2
      <4> QED
        BY <1>5, <4>1
    <3> QED
      BY <3>1
  <2>5. Held(ys, us, a, q, c, ov, size)
    BY <1>2, <1>5, <1>6, <2>2, <2>3, <2>4, HeldLonger
  <2> QED
    BY <2>1, <2>5
<1>8. new.chunks = acc.chunks /\ new.current = ys /\ new.fresh = (i + 1) - a
  <2>1. a \in Nat
    BY <1>2 DEF Held
  <2>2. acc.fresh + 1 = (i + 1) - a
    BY <1>2, <2>1
  <2> QED
    BY <1>1, <1>4, <2>2 DEF Appended
<1> QED
  BY <1>2, <1>7, <1>8 DEF Filling

(* The first sentence.                                                     *)
LEMMA FillFirst ==
  ASSUME NEW C, NEW max \in Nat, AreUnits(C, max), NEW us \in Seq(C), NEW ov \in Nat,
         1 \in 1..Len(us), NEW u, u = us[1], NEW size, size = max + ov, NEW new,
         new = [chunks |-> <<>>, current |-> <<u>>, fresh |-> 1]
  PROVE  Filling(new, us, 1, ov, size)
<1>1. u \in C /\ Chars(u) \in 0..max
  <2>1. u \in C
    BY ElementOfSeq
  <2> QED
    BY <2>1 DEF AreUnits
<1>2. PICK none \in Seq(C) : none = <<>> /\ Len(none) = 0
  BY EmptySeq
<1>3. PICK ys : ys = <<u>> /\ Appended(ys, none, u)
  BY <1>2 DEF Appended
<1>4. /\ ys \in Seq(C) /\ Len(ys) = Len(none) + 1
      /\ ys[Len(none) + 1] = u
      /\ Wider(ys, none, Chars(u))
  BY <1>1, <1>3, LongerByOne
<1>5. Length(none) = 0 - 1
  BY <1>2, NoLength
<1>6. /\ Length(ys) = Length(none) + 1 + Chars(u)
      /\ Totals(Widths(ys))[0] = Totals(Widths(none))[0]
  BY <1>2, <1>4 DEF Wider
<1>7. Totals(Widths(none))[0] = 0
  <2>1. PICK ws \in Seq(Nat) : ws = Widths(none)
    BY WidthsAre
  <2> QED
    BY <2>1, TotalsGrow DEF Adds
<1>8. Held(ys, us, 0, 0, 1, ov, size)
  <2>1. Len(ys) = 0 + (1 - 0) /\ ys[1] = us[1]
    BY <1>2, <1>4
  <2>2. ASSUME NEW j \in 1..Len(ys) PROVE ys[j] = us[(0 - 0) + j]
    <3>1. j = 1
      BY <2>1
    <3> QED
      BY <2>1, <3>1
  <2>3. Length(ys) <= size
    BY <1>1, <1>5, <1>6
  <2>4. Totals(Widths(ys))[0] <= ov
    BY <1>6, <1>7
  <2> QED
    BY <2>1, <2>2, <2>3, <2>4 DEF Held
<1>9. PICK to, r : Placed(to, r, <<>>, us, 0, ov, size)
  BY PlacedNone
<1>10. new.chunks = <<>> /\ new.current = ys /\ new.fresh = 1 - 0
  BY <1>3
<1> QED
  BY <1>8, <1>9, <1>10 DEF Filling

(* One turn of the loop.                                                   *)
LEMMA ChunkStepKeeps ==
  ASSUME NEW C, NEW max \in Nat, AreUnits(C, max), NEW ov \in Nat, NEW acc \in Accs(C), NEW u \in C
  PROVE  ChunkStep(max, ov, acc, u) \in Accs(C)
<1>1. acc.chunks \in Seq(Seq(C)) /\ acc.current \in Seq(C) /\ acc.fresh \in Int
  BY DEF Accs
<1>2. Append(acc.chunks, acc.current) \in Seq(Seq(C)) /\ Append(acc.current, u) \in Seq(C)
  BY <1>1, AppendProperties
<1>3. PICK t \in Seq(C) : t = Carried(acc.current, ov)
  BY <1>1, CarriedEnds
<1>4. Append(t, u) \in Seq(C)
  BY <1>3, AppendProperties
<1>5. [chunks |-> Append(acc.chunks, acc.current), current |-> Append(Carried(acc.current, ov), u),
       fresh |-> 1] \in Accs(C)
  BY <1>2, <1>3, <1>4 DEF Accs
<1>6. [chunks |-> acc.chunks, current |-> Append(acc.current, u), fresh |-> acc.fresh + 1] \in Accs(C)
  BY <1>1, <1>2 DEF Accs
<1> QED
  BY <1>5, <1>6 DEF ChunkStep

(* One turn of the loop over the sentences keeps its invariant.            *)
LEMMA ChunkStepLoops ==
  ASSUME NEW C, NEW max \in Nat, AreUnits(C, max), NEW us \in Seq(C), NEW ov \in Nat,
         NEW i \in Nat, i + 1 \in 1..Len(us), NEW acc \in Accs(C), NEW u, u = us[i + 1],
         NEW size, size = max + ov, LoopAt(acc, us, i, ov, size),
         NEW new, new = ChunkStep(max, ov, acc, u)
  PROVE  LoopAt(new, us, i + 1, ov, size)
<1>1. PICK y \in Seq(C) : y = acc.current
  BY DEF Accs
<1>2. PICK length \in Int : length = Length(y)
  BY WidthsAre
<1>3. u \in C /\ Chars(u) \in 0..max
  <2>1. u \in C
    BY ElementOfSeq
  <2> QED
    BY <2>1 DEF AreUnits
<1>6. ASSUME i = 0 PROVE Filling(new, us, i + 1, ov, size)
  <2>1. acc.chunks = <<>> /\ acc.current = <<>> /\ acc.fresh = 0
    BY <1>6 DEF LoopAt, NoChunk
  <2>2. new = [chunks |-> <<>>, current |-> <<u>>, fresh |-> 1]
    BY <2>1 DEF ChunkStep
  <2>3. 1 \in 1..Len(us) /\ u = us[1]
    BY <1>6
  <2>4. Filling(new, us, 1, ov, size)
    BY <2>2, <2>3, FillFirst
  <2> QED
    BY <1>6, <2>4
<1>7. ASSUME i > 0 PROVE Filling(new, us, i + 1, ov, size)
  <2>1. Filling(acc, us, i, ov, size)
    BY <1>7 DEF LoopAt
  <2>2. y # <<>>
    <3>1. PICK a, q : Held(y, us, a, q, i, ov, size)
      BY <1>1, <2>1 DEF Filling
    <3>2. a \in Nat /\ q \in 0..a /\ a < i /\ Len(y) = q + (i - a)
      BY <3>1 DEF Held
    <3>3. Len(y) > 0
      BY <3>2
    <3> QED
      BY <3>3, EmptySeq
  <2>3. CASE Length(y) + 1 + Chars(u) > max
    <3>1. new = [chunks |-> Append(acc.chunks, acc.current),
                 current |-> Append(Carried(acc.current, ov), u), fresh |-> 1]
      BY <1>1, <2>2, <2>3 DEF ChunkStep
    <3> QED
      BY <2>1, <3>1, FillAnew
  <2>4. CASE ~(Length(y) + 1 + Chars(u) > max)
    <3>1. new = [chunks |-> acc.chunks, current |-> Append(acc.current, u), fresh |-> acc.fresh + 1]
      BY <1>1, <2>4 DEF ChunkStep
    <3>2. Length(acc.current) + 1 + Chars(u) <= max
      BY <1>1, <1>2, <1>3, <2>4
    <3> QED
      BY <2>1, <3>1, <3>2, FillOn
  <2> QED
    BY <2>3, <2>4
<1> QED
  BY <1>6, <1>7 DEF LoopAt

(* A looser bound holds as well.                                           *)
LEMMA PlacedWide ==
  ASSUME NEW C, NEW max \in Nat, AreUnits(C, max), NEW chs \in Seq(Seq(C)), NEW us, NEW to, NEW r,
         NEW n, NEW ov, NEW size \in Int, NEW wide \in Int, size <= wide,
         Placed(to, r, chs, us, n, ov, size)
  PROVE  Placed(to, r, chs, us, n, ov, wide)
<1>1. ASSUME NEW k \in 1..Len(chs) PROVE Held(chs[k], us, to[k - 1], r[k], to[k], ov, wide)
  <2>1. Held(chs[k], us, to[k - 1], r[k], to[k], ov, size)
    BY DEF Placed
  <2>2. PICK ch \in Seq(C) : ch = chs[k]
    BY ElementOfSeq
  <2>3. Length(ch) \in Int
    <3>1. Length(ch) = Sum(Widths(ch)) - 1 /\ Sum(Widths(ch)) \in Nat
      BY WidthsAre
    <3> QED
      BY <3>1
  <2>4. Length(ch) <= size
    BY <2>1, <2>2 DEF Held
  <2>5. Length(ch) <= wide
    BY <2>3, <2>4
  <2> QED
    BY <2>1, <2>2, <2>5 DEF Held
<1> QED
  BY <1>1 DEF Placed

(* The loop goes through the sentences one at a time.                      *)
Looped(acc, us, max, ov, tail, size) ==
  LoopAt(acc, us, Len(us), ov, size) /\ chunk_units(us, max, ov, tail) = ChunkTail(acc, tail)

(* The loop over the sentences runs to its end, and ChunkTail does the     *)
(* rest.                                                                   *)
LEMMA ChunksUnfold ==
  ASSUME NEW C, NEW max \in Nat, AreUnits(C, max), NEW us \in Seq(C), NEW ov \in Nat, NEW tail,
         NEW size, size = max + ov
  PROVE  \E acc \in Accs(C) : Looped(acc, us, max, ov, tail, size)
<1> DEFINE V == Accs(C)
           n == Len(us)
           adds == [i \in 1..n |-> [t \in V |-> ChunkStep(max, ov, t, us[i])]]
           Eq(f) == f = [i \in 0..n |-> IF i = 0 THEN NoChunk ELSE ChunkStep(max, ov, f[i - 1], us[i])]
<1>1. n \in Nat /\ \A i \in 1..n : us[i] \in C
  BY LenProperties, ElementOfSeq
<1>2. NoChunk \in V
  BY EmptySeq DEF NoChunk, Accs
<1>3. ASSUME NEW t \in V, NEW i \in 1..n PROVE ChunkStep(max, ov, t, us[i]) \in V
  <2>1. us[i] \in C
    BY <1>1
  <2> QED
    BY <2>1, ChunkStepKeeps
<1>4. adds \in Steps(V, n)
  BY <1>3 DEF Steps
<1>5. \A t \in V, i \in 1..n : adds[i][t] = ChunkStep(max, ov, t, us[i])
  OBVIOUS
<1>6. chunk_units(us, max, ov, tail) = ChunkTail((CHOOSE h : Eq(h))[n], tail)
  BY Zenon DEF chunk_units
<1> HIDE DEF V, n, adds
<1>7. PICK f : Iterates(f, V, NoChunk, n, adds)
  BY <1>1, <1>2, <1>4, Recursion, Zenon
<1>8. /\ f \in [0..n -> V] /\ f[0] = NoChunk
      /\ \A i \in 1..n : f[i] = adds[i][f[i - 1]]
  BY <1>7 DEF Iterates
<1>9. ASSUME NEW i \in 0..n
      PROVE  f[i] = IF i = 0 THEN NoChunk ELSE ChunkStep(max, ov, f[i - 1], us[i])
  <2>1. CASE i = 0
    BY <1>8, <2>1
  <2>2. CASE i # 0
    <3>1. i - 1 \in 0..n /\ i \in 1..n
      BY <1>1, <2>2
    <3> QED
      BY <1>5, <1>8, <2>2, <3>1
  <2> QED
    BY <2>1, <2>2
<1>10. Eq(f)
  BY <1>8, <1>9
<1>11. PICK g : Eq(g) /\ chunk_units(us, max, ov, tail) = ChunkTail(g[n], tail)
  BY <1>6, <1>10
<1>12. g[0] = NoChunk
  BY <1>1, <1>11
<1>13. ASSUME NEW i \in 1..n PROVE g[i] = ChunkStep(max, ov, g[i - 1], us[i])
  <2>1. i \in 0..n /\ i # 0
    BY <1>1
  <2> QED
    BY <1>11, <2>1, Zenon
<1> DEFINE T == {i \in 0..n : g[i] \in V /\ LoopAt(g[i], us, i, ov, size)}
<1>14. 0 \in T
  <2>1. LoopAt(g[0], us, 0, ov, size)
    BY <1>12 DEF LoopAt
  <2> QED
    BY <1>1, <1>2, <1>12, <2>1
<1>15. ASSUME NEW i \in 1..n, i - 1 \in T PROVE i \in T
  <2>1. PICK acc \in Accs(C) : acc = g[i - 1] /\ LoopAt(acc, us, i - 1, ov, size)
    BY <1>15 DEF V
  <2>2. PICK j \in Nat : j = i - 1 /\ j + 1 = i
    BY <1>1
  <2>3. j + 1 \in 1..Len(us) /\ us[i] = us[j + 1] /\ us[i] \in C
    BY <1>1, <2>2 DEF n
  <2>4. PICK new : new = ChunkStep(max, ov, acc, us[i])
    OBVIOUS
  <2>5. LoopAt(new, us, j + 1, ov, size)
    BY <2>1, <2>2, <2>3, <2>4, ChunkStepLoops
  <2>6. new \in Accs(C)
    BY <2>3, <2>4, ChunkStepKeeps
  <2>7. g[i] = new /\ i \in 0..n
    BY <1>1, <1>13, <2>1, <2>4
  <2> QED
    BY <2>2, <2>5, <2>6, <2>7 DEF V
<1> HIDE DEF T
<1>16. \A i \in 0..n : i \in T
  BY <1>1, <1>14, <1>15, Induction
<1>17. n \in T
  BY <1>1, <1>16
<1> QED
  BY <1>11, <1>17 DEF T, V, n, Looped

(* The last chunk is stored or folded into the one before: all sentences   *)
(* are placed, and no chunk is longer than a short tail allows.            *)
LEMMA TailPlaced ==
  ASSUME NEW C, NEW max \in Nat, AreUnits(C, max), NEW us \in Seq(C), NEW ov \in Nat, NEW tail \in Nat,
         NEW size, size = max + ov, NEW wide, wide = size + tail,
         NEW acc \in Accs(C), LoopAt(acc, us, Len(us), ov, size), NEW made, made = ChunkTail(acc, tail)
  PROVE  made \in Seq(Seq(C)) /\ \E to, r : Placed(to, r, made, us, Len(us), ov, wide)
<1>1. PICK n \in Nat : n = Len(us)
  BY LenProperties
<1>2. PICK xs \in Seq(Seq(C)) : xs = acc.chunks
  BY DEF Accs
<1>3. PICK y \in Seq(C) : y = acc.current
  BY DEF Accs
<1>4. CASE n = 0
  <2>1. made = <<>>
    BY <1>1, <1>4 DEF LoopAt, NoChunk, ChunkTail
  <2>2. PICK none : none = <<>>
    OBVIOUS
  <2>3. \E to, r : Placed(to, r, none, us, 0, ov, wide)
    BY <2>2, PlacedNone
  <2>4. none \in Seq(Seq(C))
    BY <2>2, EmptySeq
  <2> QED
    BY <1>1, <1>4, <2>1, <2>2, <2>3, <2>4
<1>5. CASE n > 0
  <2>1. PICK a, q, to, r : /\ Placed(to, r, xs, us, a, ov, size)
                           /\ Held(y, us, a, q, n, ov, size) /\ acc.fresh = n - a
    BY <1>1, <1>2, <1>3, <1>5 DEF LoopAt, Filling
  <2>2. /\ a \in Nat /\ q \in 0..a /\ a < n /\ Len(y) = q + (n - a)
        /\ \A j \in 1..Len(y) : y[j] = us[(a - q) + j]
    BY <2>1 DEF Held
  <2>3. y # <<>>
    <3>1. Len(y) > 0
      BY <2>2
    <3> QED
      BY <3>1, EmptySeq
  <2>4. PICK fresh : fresh = SubSeq(y, q + 1, Len(y))
    OBVIOUS
  <2>5. SubSeq(acc.current, Len(acc.current) - acc.fresh + 1, Len(acc.current)) = fresh
    <3>1. Len(y) - (n - a) + 1 = q + 1
      BY <2>2
    <3> QED
      BY <1>3, <2>1, <2>4, <3>1
  <2>6. size \in Int /\ wide \in Int /\ size <= wide
    OBVIOUS
  <2>7. CASE xs # <<>> /\ Length(fresh) < tail
    <3>1. made = Append(Front(xs), Last(xs) \o fresh)
      BY <1>2, <1>3, <2>3, <2>5, <2>7 DEF ChunkTail
    <3>2. PICK a2, q2 : /\ Placed(to, r, Front(xs), us, a2, ov, size)
                        /\ Held(Last(xs), us, a2, q2, a, ov, size)
                        /\ Front(xs) \in Seq(Seq(C)) /\ Last(xs) \in Seq(C)
      BY <2>1, <2>7, PlacedLast
    <3>3. PICK front \in Seq(Seq(C)) : front = Front(xs) /\ Placed(to, r, front, us, a2, ov, wide)
      BY <2>6, <3>2, PlacedWide
    <3>4. PICK last \in Seq(C) : last = Last(xs) /\ Held(last, us, a2, q2, a, ov, size)
      BY <3>2
    <3>5. /\ fresh \in Seq(C) /\ Len(fresh) = n - a
          /\ \A j \in 1..n - a : fresh[j] = us[a + j]
      <4>1. q \in 0..Len(y) /\ Len(y) \in 0..Len(y) /\ q <= Len(y)
        BY <2>2
      <4>2. /\ fresh \in Seq(C) /\ Len(fresh) = Len(y) - q
            /\ \A j \in 1..Len(y) - q : fresh[j] = y[q + j] /\ q + j \in 1..Len(y)
        BY <2>4, <4>1, StretchIs
      <4>3. Len(y) - q = n - a
        BY <2>2
      <4>4. ASSUME NEW j \in 1..n - a PROVE fresh[j] = us[a + j]
        <5>1. fresh[j] = y[q + j] /\ q + j \in 1..Len(y)
          BY <4>2, <4>3
        <5>2. PICK l \in 1..Len(y) : l = q + j
          BY <5>1
        <5>3. y[l] = us[(a - q) + l]
          BY <2>2
        <5>4. (a - q) + l = a + j
          BY <2>2, <5>2
        <5> QED
          BY <5>1, <5>2, <5>3, <5>4
      <4> QED
        BY <4>2, <4>3, <4>4
    <3>6. PICK long : Follows(long, last, fresh)
      BY DEF Follows
    <3>7. /\ long \in Seq(C) /\ Len(long) = Len(last) + Len(fresh)
          /\ Joins(long, last, fresh) /\ Wider(long, last, Length(fresh)) /\ Length(fresh) \in Int
      BY <3>5, <3>6, LongerBy
    <3>8. Length(long) <= wide
      <4>1. Length(last) <= size
        BY <3>4 DEF Held
      <4>2. Length(long) = Length(last) + 1 + Length(fresh) /\ Length(last) \in Int
        BY <3>7 DEF Wider
      <4> QED
        BY <2>7, <3>7, <4>1, <4>2
    <3>9. Held(long, us, a2, q2, n, ov, wide)
      <4>1. a <= n /\ Len(long) = Len(last) + (n - a)
        BY <2>2, <3>5, <3>7
      <4>2. \A j \in 1..Len(last) : long[j] = last[j]
        BY <3>7 DEF Joins
      <4>3. \A j \in 1..n - a : long[Len(last) + j] = us[a + j]
        BY <3>5, <3>7 DEF Joins
      <4> QED
        BY <3>4, <3>7, <3>8, <4>1, <4>2, <4>3, HeldLonger
    <3>10. Appended(made, front, long)
      BY <3>1, <3>3, <3>4, <3>6 DEF Appended, Follows
    <3>11. \E to2, r2 : Placed(to2, r2, made, us, n, ov, wide)
      BY <3>3, <3>7, <3>9, <3>10, PlacedMore
    <3>12. made \in Seq(Seq(C))
      BY <3>3, <3>7, <3>10, AppendProperties DEF Appended
    <3> QED
      BY <1>1, <3>11, <3>12
  <2>8. CASE ~(xs # <<>> /\ Length(fresh) < tail)
    <3>1. made = Append(xs, y)
      BY <1>2, <1>3, <2>3, <2>5, <2>8 DEF ChunkTail
    <3>2. Appended(made, xs, y) /\ made \in Seq(Seq(C))
      BY <3>1, AppendProperties DEF Appended
    <3>3. PICK to2, r2 : Placed(to2, r2, made, us, n, ov, size)
      BY <2>1, <3>2, PlacedMore
    <3>4. Placed(to2, r2, made, us, n, ov, wide)
      BY <2>6, <3>2, <3>3, PlacedWide
    <3> QED
      BY <1>1, <3>2, <3>4
  <2> QED
    BY <2>7, <2>8
<1> QED
  BY <1>4, <1>5

-----------------------------------------------------------------------------
(* Texts that are chunked one after the other.                             *)
LEMMA HeldBehind ==
  ASSUME NEW ch, NEW us, NEW vs, NEW base \in Nat, NEW a, NEW q, NEW b, NEW ov, NEW size,
         Held(ch, us, a, q, b, ov, size), \A i \in 1..b : vs[base + i] = us[i]
  PROVE  Held(ch, vs, base + a, q, base + b, ov, size)
<1>1. /\ a \in Nat /\ b \in Nat /\ a < b /\ q \in 0..a /\ Len(ch) = q + (b - a)
      /\ \A j \in 1..Len(ch) : ch[j] = us[(a - q) + j]
      /\ Totals(Widths(ch))[q] <= ov /\ Length(ch) <= size
  BY DEF Held
<1>2. ASSUME NEW j \in 1..q + (b - a) PROVE ch[j] = vs[((base + a) - q) + j]
  <2>1. PICK i \in 1..b : i = (a - q) + j
    <3>1. q \in Int /\ q <= a
      BY <1>1
    <3>2. (a - q) + j \in 1..b
      BY <1>1, <3>1
    <3> QED
      BY <3>2
  <2>2. ch[j] = us[i] /\ vs[base + i] = us[i]
    BY <1>1, <2>1
  <2>3. base + i = ((base + a) - q) + j
    BY <1>1, <2>1
  <2> QED
    BY <2>2, <2>3
<1>3. /\ base + a \in Nat /\ base + b \in Nat /\ base + a < base + b /\ q \in 0..base + a
      /\ (base + b) - (base + a) = b - a
  BY <1>1
<1> QED
  BY <1>1, <1>2, <1>3 DEF Held

(* Two texts that are chunked in turn, one behind the other, are chunked   *)
(* in turn.                                                                *)
LEMMA PlacedJoins ==
  ASSUME NEW C, NEW us \in Seq(C), NEW ts \in Seq(C), NEW vs, Follows(vs, us, ts),
         NEW xs \in Seq(Seq(C)), NEW ys \in Seq(Seq(C)), NEW zs, Follows(zs, xs, ys),
         NEW ov, NEW size, NEW to, NEW r, NEW go, NEW s,
         Placed(to, r, xs, us, Len(us), ov, size), Placed(go, s, ys, ts, Len(ts), ov, size)
  PROVE  \E to2, r2 : Placed(to2, r2, zs, vs, Len(vs), ov, size)
<1>1. PICK n \in Nat : n = Len(us)
  BY LenProperties
<1>2. PICK m \in Nat : m = Len(ts)
  BY LenProperties
<1>3. PICK k \in Nat : k = Len(xs)
  BY LenProperties
<1>4. PICK l \in Nat : l = Len(ys)
  BY LenProperties
<1>5. /\ Len(vs) = n + m
      /\ \A i \in 1..n : vs[i] = us[i]
      /\ \A i \in 1..m : vs[n + i] = ts[i]
  <2>1. vs \in Seq(C) /\ Len(vs) = n + m
    BY <1>1, <1>2, ConcatProperties DEF Follows
  <2>2. \A j \in 1..Len(us) + Len(ts) :
          (us \o ts)[j] = IF j <= Len(us) THEN us[j] ELSE ts[j - Len(us)]
    BY ConcatProperties
  <2>3. \A j \in 1..n + m : vs[j] = IF j <= n THEN us[j] ELSE ts[j - n]
    BY <1>1, <1>2, <2>2 DEF Follows
  <2>4. ASSUME NEW i \in 1..n PROVE vs[i] = us[i]
    <3>1. i \in 1..n + m /\ i <= n
      OBVIOUS
    <3> QED
      BY <2>3, <3>1
  <2>5. ASSUME NEW i \in 1..m PROVE vs[n + i] = ts[i]
    <3>1. PICK j \in 1..n + m : j = n + i /\ ~ j <= n /\ j - n = i
      OBVIOUS
    <3>2. vs[j] = IF j <= n THEN us[j] ELSE ts[j - n]
      BY <2>3
    <3> QED
      BY <3>1, <3>2
  <2> QED
    BY <2>1, <2>4, <2>5
<1>6. /\ Len(zs) = k + l
      /\ \A i \in 1..k : zs[i] = xs[i]
      /\ \A i \in 1..l : zs[k + i] = ys[i]
  <2>1. Len(zs) = k + l
    BY <1>3, <1>4, ConcatProperties DEF Follows
  <2>2. \A j \in 1..Len(xs) + Len(ys) :
          (xs \o ys)[j] = IF j <= Len(xs) THEN xs[j] ELSE ys[j - Len(xs)]
    BY ConcatProperties
  <2>3. \A j \in 1..k + l : zs[j] = IF j <= k THEN xs[j] ELSE ys[j - k]
    BY <1>3, <1>4, <2>2 DEF Follows
  <2>4. ASSUME NEW i \in 1..k PROVE zs[i] = xs[i]
    <3>1. i \in 1..k + l /\ i <= k
      OBVIOUS
    <3> QED
      BY <2>3, <3>1
  <2>5. ASSUME NEW i \in 1..l PROVE zs[k + i] = ys[i]
    <3>1. PICK j \in 1..k + l : j = k + i /\ ~ j <= k /\ j - k = i
      OBVIOUS
    <3>2. zs[j] = IF j <= k THEN xs[j] ELSE ys[j - k]
      BY <2>3
    <3> QED
      BY <3>1, <3>2
  <2> QED
    BY <2>1, <2>4, <2>5
<1>7. /\ to[0] = 0 /\ to[k] = n
      /\ \A i \in 0..k : to[i] \in 0..n
      /\ \A i, j \in 0..k : i <= j => to[i] <= to[j]
      /\ \A i \in 1..k : Held(xs[i], us, to[i - 1], r[i], to[i], ov, size)
  BY <1>1, <1>3 DEF Placed
<1>8. /\ go[0] = 0 /\ go[l] = m
      /\ \A i \in 0..l : go[i] \in 0..m
      /\ \A i, j \in 0..l : i <= j => go[i] <= go[j]
      /\ \A i \in 1..l : Held(ys[i], ts, go[i - 1], s[i], go[i], ov, size)
  BY <1>2, <1>4 DEF Placed
<1> DEFINE g == [i \in 0..k + l |-> IF i <= k THEN to[i] ELSE n + go[i - k]]
           h == [i \in 1..k + l |-> IF i <= k THEN r[i] ELSE s[i - k]]
<1>9. \A i \in 0..k : g[i] = to[i]
  OBVIOUS
<1>10. \A i \in 1..k : h[i] = r[i]
  OBVIOUS
<1>11. ASSUME NEW i \in 1..l PROVE h[k + i] = s[i]
  <2>1. k + i \in 1..k + l /\ ~ k + i <= k /\ (k + i) - k = i
    OBVIOUS
  <2> QED
    BY <2>1
<1>12. ASSUME NEW i \in 0..l PROVE g[k + i] = n + go[i]
  <2>1. CASE i = 0
    <3>1. k + i = k /\ k \in 0..k + l
      BY <2>1
    <3> QED
      BY <1>7, <1>8, <2>1, <3>1
  <2>2. CASE i # 0
    <3>1. k + i \in 0..k + l /\ ~ k + i <= k /\ (k + i) - k = i
      BY <2>2
    <3> QED
      BY <3>1
  <2> QED
    BY <2>1, <2>2
<1> HIDE DEF g, h
<1>13. \A i \in 0..k + l : i \in 0..k \/ \E j \in 1..l : i = k + j
  <2>1. ASSUME NEW i \in 0..k + l, i \notin 0..k PROVE \E j \in 1..l : i = k + j
    <3>1. i - k \in 1..l /\ i = k + (i - k)
      BY <2>1
    <3> QED
      BY <3>1
  <2> QED
    BY <2>1
<1>14. ASSUME NEW i \in 0..k + l PROVE g[i] \in 0..n + m
  <2>1. CASE i \in 0..k
    <3>1. g[i] = to[i] /\ to[i] \in 0..n
      BY <1>7, <1>9, <2>1
    <3> QED
      BY <3>1
  <2>2. ASSUME NEW j \in 1..l, i = k + j PROVE g[i] \in 0..n + m
    <3>1. j \in 0..l
      OBVIOUS
    <3>2. g[i] = n + go[j] /\ go[j] \in 0..m
      BY <1>8, <1>12, <2>2, <3>1
    <3> QED
      BY <3>2
  <2> QED
    BY <1>13, <2>1, <2>2
<1>15. ASSUME NEW i \in 0..k + l, NEW j \in 0..k + l, i <= j PROVE g[i] <= g[j]
  <2>1. CASE j \in 0..k
    <3>1. i \in 0..k
      BY <1>15, <2>1
    <3> QED
      BY <1>7, <1>9, <1>15, <2>1, <3>1
  <2>2. ASSUME NEW y \in 1..l, j = k + y PROVE g[i] <= g[j]
    <3>1. y \in 0..l
      OBVIOUS
    <3>2. g[j] = n + go[y] /\ go[y] \in 0..m
      BY <1>8, <1>12, <2>2, <3>1
    <3>3. CASE i \in 0..k
      <4>1. g[i] = to[i] /\ to[i] \in 0..n
        BY <1>7, <1>9, <3>3
      <4> QED
        BY <3>2, <4>1
    <3>4. ASSUME NEW x \in 1..l, i = k + x PROVE g[i] <= g[j]
      <4>1. x \in 0..l /\ x <= y
        BY <1>15, <2>2, <3>4
      <4>2. g[i] = n + go[x] /\ go[x] \in 0..m /\ go[x] <= go[y]
        BY <1>8, <1>12, <3>1, <3>4, <4>1
      <4> QED
        BY <3>2, <4>2
    <3> QED
      BY <1>13, <3>3, <3>4
  <2> QED
    BY <1>13, <2>1, <2>2
<1>16. ASSUME NEW i \in 1..k + l PROVE Held(zs[i], vs, g[i - 1], h[i], g[i], ov, size)
  <2>1. CASE i \in 1..k
    <3>1. i \in 0..k /\ i - 1 \in 0..k
      BY <2>1
    <3>2. PICK a : a = to[i - 1]
      OBVIOUS
    <3>3. PICK b \in 0..n : b = to[i]
      BY <1>7, <3>1
    <3>4. Held(xs[i], us, a, r[i], b, ov, size)
      BY <1>7, <2>1, <3>2, <3>3
    <3>5. \A x \in 1..b : vs[0 + x] = us[x]
      <4>1. ASSUME NEW x \in 1..b PROVE vs[0 + x] = us[x]
        <5>1. x \in 1..n /\ 0 + x = x
          OBVIOUS
        <5> QED
          BY <1>5, <5>1
      <4> QED
        BY <4>1
    <3>6. Held(xs[i], vs, 0 + a, r[i], 0 + b, ov, size)
      BY <3>4, <3>5, HeldBehind
    <3>7. 0 + a = a /\ 0 + b = b
      BY <3>4 DEF Held
    <3>8. zs[i] = xs[i] /\ g[i - 1] = a /\ h[i] = r[i] /\ g[i] = b
      BY <1>6, <1>9, <1>10, <2>1, <3>1, <3>2, <3>3
    <3> QED
      BY <3>6, <3>7, <3>8
  <2>2. ASSUME NEW j \in 1..l, i = k + j PROVE Held(zs[i], vs, g[i - 1], h[i], g[i], ov, size)
    <3>1. j \in 0..l /\ j - 1 \in 0..l /\ i - 1 = k + (j - 1)
      BY <2>2
    <3>2. PICK a : a = go[j - 1]
      OBVIOUS
    <3>3. PICK b \in 0..m : b = go[j]
      BY <1>8, <3>1
    <3>4. Held(ys[j], ts, a, s[j], b, ov, size)
      BY <1>8, <3>2, <3>3
    <3>5. \A x \in 1..b : vs[n + x] = ts[x]
      BY <1>5
    <3>6. Held(ys[j], vs, n + a, s[j], n + b, ov, size)
      BY <3>4, <3>5, HeldBehind
    <3>7. zs[i] = ys[j] /\ g[i - 1] = n + a /\ h[i] = s[j] /\ g[i] = n + b
      BY <1>6, <1>11, <1>12, <2>2, <3>1, <3>2, <3>3
    <3> QED
      BY <3>6, <3>7
  <2>3. i \in 1..k \/ \E j \in 1..l : i = k + j
    BY <1>13
  <2> QED
    BY <2>1, <2>2, <2>3
<1>17. g[0] = 0 /\ g[k + l] = n + m
  <2>1. 0 \in 0..k /\ l \in 0..l
    OBVIOUS
  <2> QED
    BY <1>7, <1>8, <1>9, <1>12, <2>1
<1>18. Placed(g, h, zs, vs, n + m, ov, size)
  BY <1>6, <1>14, <1>15, <1>16, <1>17 DEF Placed
<1> QED
  BY <1>5, <1>18

(* The same of any number of texts.                                        *)
LEMMA PlacedFlat ==
  ASSUME NEW C, NEW n \in Nat, NEW uss \in [1..n -> Seq(C)], NEW chss \in [1..n -> Seq(Seq(C))],
         NEW ov, NEW size,
         \A b \in 1..n : \E to, r : Placed(to, r, chss[b], uss[b], Len(uss[b]), ov, size)
  PROVE  \E to, r : Placed(to, r, FlattenSeq(chss), FlattenSeq(uss), Len(FlattenSeq(uss)), ov, size)
<1>1. PICK f : Flat(f, C, n, uss)
  BY FlattenSteps
<1>2. PICK L : L = Seq(C)
  OBVIOUS
<1>3. PICK g : Flat(g, L, n, chss)
  BY <1>2, FlattenSteps
<1>4. /\ f[0] = <<>> /\ FlattenSeq(uss) = f[n]
      /\ \A i \in 0..n : f[i] \in Seq(C)
      /\ \A i \in 1..n : f[i] = f[i - 1] \o uss[i]
  BY <1>1 DEF Flat
<1>5. /\ g[0] = <<>> /\ FlattenSeq(chss) = g[n]
      /\ \A i \in 0..n : g[i] \in Seq(Seq(C))
      /\ \A i \in 1..n : g[i] = g[i - 1] \o chss[i]
  BY <1>2, <1>3 DEF Flat
<1> DEFINE T == {i \in 0..n : \E to, r : Placed(to, r, g[i], f[i], Len(f[i]), ov, size)}
<1>6. 0 \in T
  <2>1. PICK x : x = f[0] /\ Len(x) = 0
    BY <1>4
  <2>2. \E to, r : Placed(to, r, <<>>, x, 0, ov, size)
    BY PlacedNone
  <2>3. \E to, r : Placed(to, r, g[0], f[0], Len(f[0]), ov, size)
    BY <1>5, <2>1, <2>2
  <2> QED
    BY <2>3
<1>7. ASSUME NEW i \in 1..n, i - 1 \in T PROVE i \in T
  <2>1. i - 1 \in 0..n /\ i \in 0..n
    OBVIOUS
  <2>2. PICK us \in Seq(C) : us = f[i - 1]
    BY <1>4, <2>1
  <2>3. PICK ts \in Seq(C) : ts = uss[i]
    OBVIOUS
  <2>4. PICK xs \in Seq(Seq(C)) : xs = g[i - 1]
    BY <1>5, <2>1
  <2>5. PICK ys \in Seq(Seq(C)) : ys = chss[i]
    OBVIOUS
  <2>6. PICK to, r : Placed(to, r, xs, us, Len(us), ov, size)
    BY <1>7, <2>2, <2>4
  <2>7. PICK go, s : Placed(go, s, ys, ts, Len(ts), ov, size)
    BY <2>3, <2>5
  <2>8. PICK vs : Follows(vs, us, ts) /\ vs = f[i]
    BY <1>4, <2>2, <2>3 DEF Follows
  <2>9. PICK zs : Follows(zs, xs, ys) /\ zs = g[i]
    BY <1>5, <2>4, <2>5 DEF Follows
  <2>10. \E to2, r2 : Placed(to2, r2, zs, vs, Len(vs), ov, size)
    BY <2>6, <2>7, <2>8, <2>9, PlacedJoins
  <2> QED
    BY <2>1, <2>8, <2>9, <2>10
<1> HIDE DEF T
<1>8. \A i \in 0..n : i \in T
  BY <1>6, <1>7, Induction
<1>9. n \in T
  BY <1>8
<1> QED
  BY <1>4, <1>5, <1>9 DEF T

-----------------------------------------------------------------------------
(* The sentences of a text, cut where they are too long, and the chunks    *)
(* they are put into.                                                      *)
AllLegible(D, max) == \A u \in D : Legible(u, max)
PartsOf(D, max) == UNION {Range(Parts(u, max)) : u \in D}
Cutter(D, max) == [u \in D |-> Parts(u, max)]

(* The parts of legible sentences are units of at most the size of a       *)
(* chunk.                                                                  *)
LEMMA PartsFit ==
  ASSUME NEW D, NEW max \in Nat \ {0}, AllLegible(D, max)
  PROVE  /\ AreUnits(PartsOf(D, max), max)
         /\ Maps(Cutter(D, max), D, Seq(PartsOf(D, max)))
         /\ \A u \in D : Parts(u, max) \in Seq(PartsOf(D, max))
<1>1. ASSUME NEW u \in D
      PROVE  /\ Parts(u, max) \in Seq(PartsOf(D, max))
             /\ \A v \in Range(Parts(u, max)) : Chars(v) \in 0..max
  <2>1. Broken(u, Parts(u, max), max)
    BY PartsBroken DEF AllLegible
  <2>2. PICK us : us = Parts(u, max)
    OBVIOUS
  <2>3. PICK R : R = Range(us)
    OBVIOUS
  <2>4. us \in Seq(R) /\ \A k \in 1..Len(us) : Chars(us[k]) \in 0..max
    BY <2>1, <2>2, <2>3 DEF Broken
  <2>5. PICK n \in Nat : n = Len(us) /\ DOMAIN us = 1..n
    BY <2>4, LenProperties
  <2>6. \A k \in 1..n : us[k] \in PartsOf(D, max)
    BY <2>2, <2>5 DEF PartsOf, Range
  <2>7. us \in [1..n -> PartsOf(D, max)]
    <3>1. us = [k \in 1..n |-> us[k]]
      BY <2>4, <2>5
    <3> QED
      BY <2>6, <3>1
  <2>8. us \in Seq(PartsOf(D, max))
    BY <2>7
  <2>9. \A v \in Range(us) : Chars(v) \in 0..max
    BY <2>4, <2>5 DEF Range
  <2> QED
    BY <2>2, <2>8, <2>9
<1>2. AreUnits(PartsOf(D, max), max)
  BY <1>1 DEF AreUnits, PartsOf
<1>3. Maps(Cutter(D, max), D, Seq(PartsOf(D, max)))
  BY <1>1 DEF Maps, Cutter
<1> QED
  BY <1>1, <1>2, <1>3

(* A text in sentences that fit.                                           *)
LEMMA SizedIs ==
  ASSUME NEW D, NEW max \in Nat \ {0}, AllLegible(D, max), NEW text \in Seq(D),
         NEW C, C = PartsOf(D, max)
  PROVE  /\ Sized(text, max) = FlattenSeq(Mapped(Cutter(D, max), text))
         /\ Mapped(Cutter(D, max), text) \in [1..Len(text) -> Seq(C)]
         /\ Sized(text, max) \in Seq(C)
<1>1. PICK n \in Nat : n = Len(text) /\ DOMAIN text = 1..n
  BY LenProperties
<1>2. \A i \in 1..n : text[i] \in D
  BY <1>1, ElementOfSeq
<1>3. PICK cut : cut = Mapped(Cutter(D, max), text)
  OBVIOUS
<1>4. cut = [i \in DOMAIN text |-> Parts(text[i], max)]
  BY <1>1, <1>2, <1>3 DEF Mapped, Cutter
<1>5. cut \in [1..n -> Seq(C)]
  <2>1. \A i \in 1..n : Parts(text[i], max) \in Seq(C)
    BY <1>2, PartsFit
  <2> QED
    BY <1>1, <1>4, <2>1
<1>6. Sized(text, max) = FlattenSeq(cut)
  BY <1>4 DEF Sized
<1>7. FlattenSeq(cut) \in Seq(C)
  BY <1>5, FlattenRange
<1> QED
  BY <1>1, <1>3, <1>5, <1>6, <1>7

(* What is asked to be repeated is at most half of a chunk.                *)
LEMMA OverlapHalf ==
  ASSUME NEW max \in Nat, NEW overlap \in Int
  PROVE  Overlap(max, overlap) \in 0..(max \div 2)
<1>1. PICK half \in Nat : half = max \div 2
  BY Z3
<1>2. PICK least \in Int : least = Min({overlap, half}) /\ least <= half
  <2>1. \E x \in {overlap, half} : \A y \in {overlap, half} : x <= y
    <3>1. overlap <= half \/ half <= overlap
      OBVIOUS
    <3> QED
      BY <3>1
  <2>2. Min({overlap, half}) \in {overlap, half} /\ \A y \in {overlap, half} : Min({overlap, half}) <= y
    BY <2>1 DEF Min
  <2> QED
    BY <2>2
<1>3. PICK most : most = Max({0, least}) /\ most \in {0, least} /\ most >= 0
  <2>1. \E x \in {0, least} : \A y \in {0, least} : x >= y
    <3>1. 0 >= least \/ least >= 0
      OBVIOUS
    <3> QED
      BY <3>1
  <2>2. Max({0, least}) \in {0, least} /\ \A y \in {0, least} : Max({0, least}) >= y
    BY <2>1 DEF Max
  <2> QED
    BY <2>2
<1>4. Overlap(max, overlap) = most
  BY <1>1, <1>2, <1>3 DEF Overlap
<1>5. most \in 0..half
  BY <1>2, <1>3
<1> QED
  BY <1>1, <1>4, <1>5

(* chunk_sentences: each sentence of the text in turn, behind an overlap.  *)
LEMMA SentencesPlaced ==
  ASSUME NEW D, NEW max \in Nat \ {0}, AllLegible(D, max), NEW text \in Seq(D),
         NEW C, C = PartsOf(D, max), NEW overlap \in Int, NEW tail \in Nat,
         NEW ov, ov = Overlap(max, overlap), NEW wide, wide = max + ov + tail
  PROVE  /\ chunk_sentences(text, max, overlap, tail) \in Seq(Seq(C))
         /\ \E to, r : Placed(to, r, chunk_sentences(text, max, overlap, tail), Sized(text, max),
                              Len(Sized(text, max)), ov, wide)
<1>1. AreUnits(C, max)
  BY PartsFit
<1>2. PICK us \in Seq(C) : us = Sized(text, max)
  BY SizedIs
<1>3. ov \in Nat
  <2>1. Overlap(max, overlap) \in 0..(max \div 2)
    BY OverlapHalf
  <2> QED
    BY <2>1
<1>4. PICK size : size = max + ov
  OBVIOUS
<1>5. wide = size + tail
  BY <1>4
<1>6. PICK acc \in Accs(C) : /\ LoopAt(acc, us, Len(us), ov, size)
                             /\ chunk_units(us, max, ov, tail) = ChunkTail(acc, tail)
  <2>1. max \in Nat
    OBVIOUS
  <2>2. \E acc \in Accs(C) : Looped(acc, us, max, ov, tail, size)
    BY <1>1, <1>3, <1>4, <2>1, ChunksUnfold
  <2> QED
    BY <2>2 DEF Looped
<1>7. PICK made : made = ChunkTail(acc, tail)
  OBVIOUS
<1>8. made \in Seq(Seq(C)) /\ \E to, r : Placed(to, r, made, us, Len(us), ov, wide)
  BY <1>1, <1>3, <1>4, <1>5, <1>6, <1>7, TailPlaced
<1>9. chunk_sentences(text, max, overlap, tail) = made
  BY <1>2, <1>6, <1>7 DEF chunk_sentences
<1> QED
  BY <1>2, <1>8, <1>9

-----------------------------------------------------------------------------
(* A text cut at its headings.                                             *)
LEMMA BlockStepGroups ==
  ASSUME NEW blocks, NEW u
  PROVE  On(BlockStep(blocks, u), blocks, u) \/ Anew(BlockStep(blocks, u), blocks, u)
BY DEF BlockStep, On, Anew

(* Blocks cut a text at places that go up, and leave nothing out.          *)
LEMMA BlocksCut ==
  ASSUME NEW D, NEW text \in Seq(D)
  PROVE  \E blocks \in Seq(Seq(D)) : \E cut : /\ split_paragraphs(text) = blocks
                                             /\ Cuts(cut, blocks, text, Len(text))
<1> DEFINE V == Seq(Seq(D))
           n == Len(text)
           adds == [i \in 1..n |-> [t \in V |-> BlockStep(t, text[i])]]
           Eq(f) == f = [i \in 0..n |-> IF i = 0 THEN <<>> ELSE BlockStep(f[i - 1], text[i])]
<1>1. n \in Nat /\ \A i \in 1..n : text[i] \in D
  BY LenProperties, ElementOfSeq
<1>2. <<>> \in V
  BY EmptySeq
<1>3. ASSUME NEW t \in V, NEW i \in 1..n PROVE BlockStep(t, text[i]) \in V
  <2>1. text[i] \in D
    BY <1>1
  <2>2. PICK more : more = BlockStep(t, text[i])
    OBVIOUS
  <2>3. Anew(more, t, text[i]) \/ On(more, t, text[i])
    BY <2>2, BlockStepGroups
  <2> QED
    BY <2>1, <2>2, <2>3, Grouped
<1>4. adds \in Steps(V, n)
  BY <1>3 DEF Steps
<1>5. \A t \in V, i \in 1..n : adds[i][t] = BlockStep(t, text[i])
  OBVIOUS
<1>6. split_paragraphs(text) = (CHOOSE h : Eq(h))[n]
  BY Zenon DEF split_paragraphs
<1> HIDE DEF V, n, adds
<1>7. PICK f : Iterates(f, V, <<>>, n, adds)
  BY <1>1, <1>2, <1>4, Recursion, Zenon
<1>8. /\ f \in [0..n -> V] /\ f[0] = <<>>
      /\ \A i \in 1..n : f[i] = adds[i][f[i - 1]]
  BY <1>7 DEF Iterates
<1>9. ASSUME NEW i \in 0..n
      PROVE  f[i] = IF i = 0 THEN <<>> ELSE BlockStep(f[i - 1], text[i])
  <2>1. CASE i = 0
    BY <1>8, <2>1
  <2>2. CASE i # 0
    <3>1. i - 1 \in 0..n /\ i \in 1..n
      BY <1>1, <2>2
    <3> QED
      BY <1>5, <1>8, <2>2, <3>1
  <2> QED
    BY <2>1, <2>2
<1>10. Eq(f)
  BY <1>8, <1>9
<1>11. PICK g : Eq(g) /\ split_paragraphs(text) = g[n]
  BY <1>6, <1>10
<1>12. g[0] = <<>>
  BY <1>1, <1>11
<1>13. ASSUME NEW i \in 1..n PROVE Anew(g[i], g[i - 1], text[i]) \/ On(g[i], g[i - 1], text[i])
  <2>1. i \in 0..n /\ i # 0
    BY <1>1
  <2>2. g[i] = BlockStep(g[i - 1], text[i])
    BY <1>11, <2>1, Zenon
  <2> QED
    BY <2>2, BlockStepGroups
<1>14. \A i \in 0..n : g[i] \in Seq(Seq(D)) /\ \E cut : Cuts(cut, g[i], text, i)
  BY <1>12, <1>13, GroupsCut DEF n
<1>15. n \in 0..n
  BY <1>1
<1>16. PICK blocks \in Seq(Seq(D)) : blocks = g[n] /\ \E cut : Cuts(cut, blocks, text, n)
  BY <1>14, <1>15
<1> QED
  BY <1>11, <1>16 DEF n

(* Cut at headings or not: the same sentences, in their order.             *)
LEMMA BlocksSized ==
  ASSUME NEW D, NEW max \in Nat \ {0}, AllLegible(D, max), NEW text \in Seq(D),
         NEW blocks \in Seq(Seq(D)), NEW cut, Cuts(cut, blocks, text, Len(text)),
         NEW uss, uss = [b \in 1..Len(blocks) |-> Sized(blocks[b], max)]
  PROVE  /\ uss \in [1..Len(blocks) -> Seq(PartsOf(D, max))]
         /\ FlattenSeq(uss) = Sized(text, max)
<1>1. PICK C : C = PartsOf(D, max)
  OBVIOUS
<1>2. PICK n \in Nat : n = Len(text)
  BY LenProperties
<1>3. PICK m \in Nat : m = Len(blocks)
  BY LenProperties
<1>4. PICK h : h = Cutter(D, max) /\ Maps(h, D, Seq(C))
  BY <1>1, PartsFit
<1>5. PICK ss \in [1..n -> Seq(C)] : ss = Mapped(h, text) /\ Sized(text, max) = FlattenSeq(ss)
  BY <1>1, <1>2, <1>4, SizedIs
<1>6. ASSUME NEW k \in 1..m PROVE blocks[k] \in Seq(D) /\ Sized(blocks[k], max) \in Seq(C)
  <2>1. PICK block \in Seq(D) : block = blocks[k]
    BY <1>3, ElementOfSeq
  <2>2. Sized(block, max) \in Seq(C)
    BY <1>1, SizedIs
  <2> QED
    BY <2>1, <2>2
<1>7. uss \in [1..m -> Seq(C)] /\ \A k \in 1..m : uss[k] = Sized(blocks[k], max)
  BY <1>3, <1>6
<1>8. /\ cut \in [0..m -> 0..n] /\ cut[0] = 0 /\ cut[m] = n
      /\ \A k \in 1..m : cut[k - 1] < cut[k] /\ blocks[k] = SubSeq(text, cut[k - 1] + 1, cut[k])
  BY <1>2, <1>3 DEF Cuts
<1>9. ASSUME NEW k \in 1..m
      PROVE  uss[k] = FlattenSeq(SubSeq(ss, cut[k - 1] + 1, cut[k]))
  <2>1. k \in 0..m /\ k - 1 \in 0..m
    OBVIOUS
  <2>2. PICK a \in 0..n : a = cut[k - 1]
    BY <1>8, <2>1
  <2>3. PICK b \in 0..n : b = cut[k] /\ a < b
    BY <1>8, <2>1, <2>2
  <2>4. PICK block \in Seq(D) : block = blocks[k]
    BY <1>6
  <2>5. Stretch(block, text, a, b)
    <3>1. block = SubSeq(text, cut[k - 1] + 1, cut[k])
      BY <1>8, <2>4
    <3>2. a <= b
      BY <2>3
    <3> QED
      BY <2>2, <2>3, <3>1, <3>2 DEF Stretch
  <2>6. Stretch(Mapped(h, block), ss, a, b)
    BY <1>2, <1>4, <1>5, <2>5, MappedStretch
  <2>7. Sized(block, max) = FlattenSeq(Mapped(h, block))
    BY <1>1, <1>4, SizedIs
  <2>8. Mapped(h, block) = SubSeq(ss, a + 1, b)
    BY <2>6 DEF Stretch
  <2> QED
    BY <1>7, <2>2, <2>3, <2>4, <2>7, <2>8
<1>10. FoldsUp(uss, ss, cut, m, n)
  BY <1>8, <1>9 DEF FoldsUp
<1>11. FlattenSeq(uss) = FlattenSeq(ss)
  <2>1. Regroups(uss, ss)
    BY <1>2, <1>3, <1>5, <1>7, <1>10 DEF Regroups
  <2> QED
    BY <2>1, FlattenRegrouped
<1> QED
  BY <1>1, <1>3, <1>5, <1>7, <1>11

(* What a text is chunked into: all of it, in turn.                        *)
TailRoom(paragraphs) == IF paragraphs THEN MIN_TAIL_CHARS ELSE 0
Chunked(made, us, C, ov, wide) ==
  made \in Seq(Seq(C)) /\ \E to, r : Placed(to, r, made, us, Len(us), ov, wide)

(* chunk_text, with paragraphs or without, chunks the whole text in turn.  *)
LEMMA TextPlaced ==
  ASSUME NEW D, NEW max \in Nat \ {0}, AllLegible(D, max), NEW text \in Seq(D),
         NEW C, C = PartsOf(D, max), NEW overlap \in Int, NEW paragraphs \in BOOLEAN,
         NEW ov, ov = Overlap(max, overlap), NEW wide, wide = max + ov + TailRoom(paragraphs)
  PROVE  Chunked(chunk_text(text, max, overlap, paragraphs), Sized(text, max), C, ov, wide)
<1>1. CASE ~paragraphs
  <2>1. chunk_text(text, max, overlap, paragraphs) = chunk_sentences(text, max, overlap, 0)
    BY <1>1 DEF chunk_text
  <2>2. wide = max + ov + 0
    BY <1>1 DEF TailRoom
  <2> QED
    BY <2>1, <2>2, SentencesPlaced DEF Chunked
<1>2. CASE paragraphs
  <2>1. wide = max + ov + MIN_TAIL_CHARS
    BY <1>2 DEF TailRoom
  <2>a. PICK blocks \in Seq(Seq(D)) : \E cut : /\ split_paragraphs(text) = blocks
                                               /\ Cuts(cut, blocks, text, Len(text))
    BY BlocksCut
  <2>2. PICK cut : /\ split_paragraphs(text) = blocks
                   /\ Cuts(cut, blocks, text, Len(text))
    BY <2>a
  <2>3. PICK m \in Nat : m = Len(blocks) /\ DOMAIN blocks = 1..m
    BY LenProperties
  <2>4. PICK uss : uss = [b \in 1..Len(blocks) |-> Sized(blocks[b], max)]
    OBVIOUS
  <2>5. uss \in [1..m -> Seq(C)] /\ FlattenSeq(uss) = Sized(text, max)
    BY <2>2, <2>3, <2>4, BlocksSized
  <2>6. PICK chss : chss = [b \in DOMAIN blocks |-> chunk_sentences(blocks[b], max, overlap, MIN_TAIL_CHARS)]
    OBVIOUS
  <2>7. chunk_text(text, max, overlap, paragraphs) = FlattenSeq(chss)
    BY <1>2, <2>2, <2>6 DEF chunk_text
  <2>8. ASSUME NEW b \in 1..m
        PROVE  /\ chss[b] \in Seq(Seq(C))
               /\ \E to, r : Placed(to, r, chss[b], uss[b], Len(uss[b]), ov, wide)
    <3>1. PICK block \in Seq(D) : block = blocks[b]
      BY <2>3, ElementOfSeq
    <3>2. PICK tail \in Nat : tail = MIN_TAIL_CHARS
      BY DEF MIN_TAIL_CHARS
    <3>3. wide = max + ov + tail
      BY <2>1, <3>2
    <3>4. /\ chunk_sentences(block, max, overlap, tail) \in Seq(Seq(C))
          /\ \E to, r : Placed(to, r, chunk_sentences(block, max, overlap, tail), Sized(block, max),
                               Len(Sized(block, max)), ov, wide)
      BY <3>3, SentencesPlaced
    <3>5. chss[b] = chunk_sentences(block, max, overlap, tail) /\ uss[b] = Sized(block, max)
      BY <2>3, <2>4, <2>6, <3>1, <3>2
    <3> QED
      BY <3>4, <3>5
  <2>9. chss \in [1..m -> Seq(Seq(C))]
    BY <2>3, <2>6, <2>8
  <2>10. \E to, r : Placed(to, r, FlattenSeq(chss), FlattenSeq(uss), Len(FlattenSeq(uss)), ov, wide)
    BY <2>5, <2>8, <2>9, PlacedFlat
  <2>11. FlattenSeq(chss) \in Seq(Seq(C))
    <3>1. PICK L : L = Seq(C)
      OBVIOUS
    <3>2. chss \in [1..m -> Seq(L)]
      BY <2>9, <3>1
    <3>3. FlattenSeq(chss) \in Seq(L)
      BY <3>2, FlattenRange
    <3> QED
      BY <3>1, <3>3
  <2> QED
    BY <2>5, <2>7, <2>10, <2>11 DEF Chunked
<1> QED
  BY <1>1, <1>2

(* Sizes of which only the first q count.                                  *)
LEMMA SumFirst ==
  ASSUME NEW sizes \in Seq(Int), NEW q \in Nat, q <= Len(sizes), NEW t \in Seq(Int), q <= Len(t),
         \A i \in 1..q : t[i] = sizes[i], \A i \in 1..Len(t) : i > q => t[i] = 0
  PROVE  Sum(t) = Totals(sizes)[q] /\ Sum(t) \in Int
<1>1. PICK n \in Nat : n = Len(t)
  BY LenProperties
<1>2. PICK f : f = Totals(sizes) /\ Adds(f, Len(sizes), sizes)
  BY TotalsUnfold
<1>3. f[0] = 0 /\ (\A i \in 0..q : f[i] \in Int) /\ \A i \in 1..q : f[i] = f[i - 1] + sizes[i]
  BY <1>2 DEF Adds
<1> DEFINE g == [i \in 0..n |-> IF i <= q THEN f[i] ELSE f[q]]
<1>4. Adds(g, Len(t), t)
  <2>1. \A i \in 0..n : g[i] \in Int
    BY <1>1, <1>3
  <2>2. ASSUME NEW i \in 1..n PROVE g[i] = g[i - 1] + t[i]
    <3>1. CASE i <= q
      BY <1>1, <1>3, <3>1
    <3>2. CASE i > q
      <4>1. g[i] = f[q] /\ t[i] = 0 /\ f[q] \in Int
        BY <1>1, <1>3, <3>2
      <4>2. g[i - 1] = f[q]
        BY <3>2
      <4> QED
        BY <4>1, <4>2
    <3> QED
      BY <3>1, <3>2
  <2>3. g[0] = 0
    BY <1>3
  <2> HIDE DEF g
  <2> QED
    BY <1>1, <2>1, <2>2, <2>3 DEF Adds
<1>5. g[n] = f[q]
  BY <1>1
<1> HIDE DEF g
<1>6. Sum(t) = g[n]
  BY <1>1, <1>4, TotalsAre
<1> QED
  BY <1>2, <1>3, <1>5, <1>6

-----------------------------------------------------------------------------
(* What a chunk repeats of an earlier one is what it carries.              *)
AtMost(n, most) == n \in Int /\ n <= most

(* Of an earlier chunk a later one repeats at most its overlap.            *)
LEMMA RepeatsFew ==
  ASSUME NEW C, NEW max \in Nat, AreUnits(C, max), NEW us \in Seq(C), IsInjective(us),
         NEW chs \in Seq(Seq(C)), NEW to, NEW r, NEW ov \in Nat, NEW size,
         Placed(to, r, chs, us, Len(us), ov, size),
         NEW a \in 1..Len(chs), NEW b \in 1..Len(chs), a < b,
         NEW again, again = [j \in DOMAIN chs[b] |->
                               IF chs[b][j] \in Range(chs[a]) THEN Chars(chs[b][j]) ELSE 0]
  PROVE  AtMost(Sum(again), ov)
<1>1. PICK ch \in Seq(C) : ch = chs[b]
  BY ElementOfSeq
<1>2. PICK pa \in Seq(C) : pa = chs[a]
  BY ElementOfSeq
<1>3. Len(ch) \in Nat /\ DOMAIN ch = 1..Len(ch) /\ DOMAIN us = 1..Len(us) /\ Len(us) \in Nat
  BY LenProperties
<1>4. a - 1 \in 0..Len(chs) /\ b - 1 \in 0..Len(chs) /\ a \in 0..Len(chs) /\ b \in 0..Len(chs) /\ a <= b - 1
  BY LenProperties
<1>5. /\ \A k \in 0..Len(chs) : to[k] \in 0..Len(us)
      /\ \A k, l \in 0..Len(chs) : k <= l => to[k] <= to[l]
      /\ \A k \in 1..Len(chs) : Held(chs[k], us, to[k - 1], r[k], to[k], ov, size)
  BY DEF Placed
<1>6. PICK x \in 0..Len(us) : x = to[b - 1]
  BY <1>4, <1>5
<1>7. PICK y \in 0..Len(us) : y = to[b]
  BY <1>4, <1>5
<1>8. PICK x2 \in 0..Len(us) : x2 = to[a - 1]
  BY <1>4, <1>5
<1>9. PICK y2 \in 0..Len(us) : y2 = to[a] /\ y2 <= x
  BY <1>4, <1>5, <1>6
<1>10. PICK q : q = r[b]
  OBVIOUS
<1>11. PICK q2 : q2 = r[a]
  OBVIOUS
<1>12. Held(ch, us, x, q, y, ov, size)
  BY <1>1, <1>5, <1>6, <1>7, <1>10
<1>13. Held(pa, us, x2, q2, y2, ov, size)
  BY <1>2, <1>5, <1>8, <1>9, <1>11
<1>14. /\ q \in 0..x /\ x < y /\ Len(ch) = q + (y - x) /\ Totals(Widths(ch))[q] <= ov
       /\ \A j \in 1..Len(ch) : ch[j] = us[(x - q) + j]
  BY <1>12 DEF Held
<1>15. /\ q2 \in 0..x2 /\ x2 < y2 /\ Len(pa) = q2 + (y2 - x2)
       /\ \A j \in 1..Len(pa) : pa[j] = us[(x2 - q2) + j]
  BY <1>13 DEF Held
<1>a. PICK n \in Nat : n = Len(us)
  BY <1>3
<1>b. PICK m \in Nat : m = Len(ch)
  BY <1>3
<1>c. PICK l \in Nat : l = Len(pa)
  BY LenProperties
<1>d. x \in 0..n /\ y \in 0..n /\ x2 \in 0..n /\ y2 \in 0..n /\ y2 <= x
  BY <1>a, <1>6, <1>7, <1>8, <1>9
<1>e. q \in 0..x /\ x < y /\ m = q + (y - x) /\ \A j \in 1..m : ch[j] = us[(x - q) + j]
  BY <1>b, <1>14
<1>f. q2 \in 0..x2 /\ x2 < y2 /\ l = q2 + (y2 - x2) /\ \A j \in 1..l : pa[j] = us[(x2 - q2) + j]
  BY <1>c, <1>15
<1>g. q \in Nat /\ q <= m
  BY <1>d, <1>e
<1>16. ASSUME NEW j \in 1..m, j > q PROVE ch[j] \notin Range(pa)
  <2>1. SUFFICES ASSUME NEW i \in 1..l, pa[i] = ch[j] PROVE FALSE
    BY <1>c, LenProperties DEF Range
  <2>2. /\ (x2 - q2) + i \in 1..n /\ (x2 - q2) + i <= x
        /\ (x - q) + j \in 1..n /\ (x - q) + j > x
    BY <1>d, <1>e, <1>f, <1>16
  <2>3. PICK k \in 1..n : k = (x2 - q2) + i /\ k <= x
    BY <2>2
  <2>4. PICK h \in 1..n : h = (x - q) + j /\ h > x
    BY <2>2
  <2>5. us[k] = us[h]
    BY <1>e, <1>f, <2>1, <2>3, <2>4
  <2>6. k = h
    BY <1>3, <1>a, <2>5 DEF IsInjective
  <2> QED
    BY <1>d, <2>3, <2>4, <2>6
<1>17. /\ Widths(ch) \in Seq(Int) /\ Len(Widths(ch)) = m
       /\ \A i \in 1..m : Widths(ch)[i] = Chars(ch[i]) + 1 /\ Chars(ch[i]) \in 0..max
  BY <1>b, WidthsAre
<1>h. PICK w \in Seq(Int) : w = Widths(ch) /\ Len(w) = m
  BY <1>17
<1>i. \A i \in 1..m : w[i] = Chars(ch[i]) + 1 /\ Chars(ch[i]) \in 0..max /\ w[i] \in Int
  BY <1>17, <1>h
<1> DEFINE t == [j \in 1..m |-> IF j <= q THEN w[j] ELSE 0]
<1>19. t \in Seq(Int) /\ Len(t) = m
  <2>1. t \in [1..m -> Int]
    BY <1>i
  <2> HIDE DEF t
  <2> QED
    BY <2>1
<1>20. \A j \in 1..m : t[j] = IF j <= q THEN w[j] ELSE 0
  OBVIOUS
<1> HIDE DEF t
<1>21. PICK s : s = again
  OBVIOUS
<1>k. s = [j \in 1..m |-> IF ch[j] \in Range(pa) THEN Chars(ch[j]) ELSE 0]
  BY <1>1, <1>2, <1>3, <1>b, <1>21
<1>j. \A j \in 1..m : s[j] = IF ch[j] \in Range(pa) THEN Chars(ch[j]) ELSE 0
  BY <1>k
<1>22. s \in Seq(Int) /\ Len(s) = m
  <2>1. ASSUME NEW j \in 1..m PROVE (IF ch[j] \in Range(pa) THEN Chars(ch[j]) ELSE 0) \in Int
    <3>1. Chars(ch[j]) \in Int
      BY <1>i
    <3> QED
      BY <3>1
  <2>2. s \in [1..m -> Int]
    BY <1>k, <2>1
  <2> QED
    BY <2>2
<1>23. ASSUME NEW i \in 1..m PROVE s[i] <= t[i]
  <2>1. Chars(ch[i]) \in 0..max /\ w[i] = Chars(ch[i]) + 1
    BY <1>i
  <2>2. PICK x3 \in 0..max : x3 = Chars(ch[i])
    BY <2>1
  <2>3. CASE i > q
    <3>1. s[i] = 0
      BY <1>16, <1>j, <2>3
    <3>2. t[i] = 0
      BY <1>20, <1>g, <2>3
    <3> QED
      BY <3>1, <3>2
  <2>4. CASE i <= q
    <3>1. t[i] = x3 + 1
      BY <1>20, <2>1, <2>2, <2>4
    <3>2. s[i] = x3 \/ s[i] = 0
      BY <1>j, <2>2
    <3> QED
      BY <3>1, <3>2
  <2> QED
    BY <1>g, <2>3, <2>4
<1>24. Sum(s) <= Sum(t) /\ Sum(s) \in Int /\ Sum(t) \in Int
  BY <1>19, <1>22, <1>23, SumAtMost
<1>25. Sum(t) = Totals(w)[q]
  <2>1. \A i \in 1..q : t[i] = w[i]
    BY <1>g, <1>20
  <2>2. \A i \in 1..Len(t) : i > q => t[i] = 0
    BY <1>g, <1>19, <1>20
  <2> QED
    BY <1>g, <1>h, <1>19, <2>1, <2>2, SumFirst
<1>26. Totals(w)[q] <= ov
  BY <1>14, <1>h
<1>27. PICK z \in Int : z = Totals(w)[q]
  BY <1>24, <1>25
<1>28. PICK z2 \in Int : z2 = Sum(again) /\ z2 = Sum(s)
  BY <1>21, <1>24
<1> QED
  BY <1>24, <1>25, <1>26, <1>27, <1>28 DEF AtMost

(* A sentence in sized text is a part of one sentence of the text.         *)
LEMMA SizedFrom ==
  ASSUME NEW D, NEW max \in Nat \ {0}, AllLegible(D, max), NEW text \in Seq(D)
  PROVE  \A v : v \in Range(Sized(text, max)) <=>
                  \E i \in 1..Len(text) : v \in Range(Parts(text[i], max))
<1>1. PICK C : C = PartsOf(D, max)
  OBVIOUS
<1>2. PICK n \in Nat : n = Len(text)
  BY LenProperties
<1>3. PICK ss : ss = Mapped(Cutter(D, max), text)
  OBVIOUS
<1>4. Sized(text, max) = FlattenSeq(ss) /\ ss \in [1..n -> Seq(C)]
  BY <1>1, <1>2, <1>3, SizedIs
<1>5. \A i \in 1..n : ss[i] = Parts(text[i], max)
  BY <1>2, <1>3, LenProperties DEF Mapped, Cutter
<1>6. \A v : v \in Range(FlattenSeq(ss)) <=> \E k \in 1..n : v \in Range(ss[k])
  BY <1>4, FlattenRange
<1> QED
  BY <1>2, <1>4, <1>5, <1>6

(* The parts of different sentences are different, and so are those of one.*)
LEMMA PartIs ==
  ASSUME NEW u, NEW max \in Nat \ {0}, Legible(u, max), NEW v \in Range(Parts(u, max))
  PROVE  v.id = u.id /\ v.part \in 1..Len(Parts(u, max)) /\ v = Parts(u, max)[v.part]
<1>1. PICK us : us = Parts(u, max)
  OBVIOUS
<1>2. us \in Seq(Range(us)) /\ \A k \in 1..Len(us) : us[k].id = u.id /\ us[k].part = k
  <2>1. Broken(u, us, max)
    BY <1>1, PartsBroken
  <2> QED
    BY <2>1 DEF Broken
<1>3. PICK k \in 1..Len(us) : us[k] = v
  BY <1>1, <1>2, LenProperties DEF Range
<1> QED
  BY <1>1, <1>2, <1>3

-----------------------------------------------------------------------------
(* The sentences of all pages are told apart by their ids.                 *)
Apart(texts, N) ==
  \A p, q \in 1..N : \A i \in 1..Len(texts[p]), j \in 1..Len(texts[q]) :
    texts[p][i].id = texts[q][j].id => p = q /\ i = j

IdsApart(text) == \A i, j \in 1..Len(text) : text[i].id = text[j].id => i = j

(* Where sentences are told apart, so are their parts.                     *)
LEMMA PageApart ==
  ASSUME NEW D, NEW max \in Nat \ {0}, AllLegible(D, max), NEW text \in Seq(D),
         IdsApart(text)
  PROVE  IsInjective(Sized(text, max))
<1>1. PICK C : C = PartsOf(D, max)
  OBVIOUS
<1>2. PICK n \in Nat : n = Len(text)
  BY LenProperties
<1>3. PICK ss : ss = Mapped(Cutter(D, max), text)
  OBVIOUS
<1>4. Sized(text, max) = FlattenSeq(ss) /\ ss \in [1..n -> Seq(C)]
  BY <1>1, <1>2, <1>3, SizedIs
<1>5. \A i \in 1..n : ss[i] = Parts(text[i], max) /\ text[i] \in D
  BY <1>2, <1>3, LenProperties, ElementOfSeq DEF Mapped, Cutter
<1>6. ASSUME NEW k \in 1..n, NEW i \in 1..Len(ss[k])
      PROVE  ss[k][i].id = text[k].id /\ ss[k][i].part = i
  <2>1. PICK us : us = Parts(text[k], max)
    OBVIOUS
  <2>2. us = ss[k]
    BY <1>5, <2>1
  <2>3. Broken(text[k], us, max)
    <3>1. Legible(text[k], max)
      BY <1>5 DEF AllLegible
    <3> QED
      BY <2>1, <3>1, PartsBroken
  <2> QED
    BY <1>6, <2>2, <2>3 DEF Broken
<1>7. ASSUME NEW k \in 1..n, NEW l \in 1..n, NEW i \in 1..Len(ss[k]), NEW j \in 1..Len(ss[l]),
             ss[k][i] = ss[l][j]
      PROVE  k = l /\ i = j
  <2>1. ss[k][i].id = text[k].id /\ ss[k][i].part = i
    BY <1>6
  <2>2. ss[l][j].id = text[l].id /\ ss[l][j].part = j
    BY <1>6
  <2>3. text[k].id = text[l].id
    BY <1>7, <2>1, <2>2
  <2> QED
    BY <1>2, <1>7, <2>1, <2>2, <2>3 DEF IdsApart
<1>8. IsInjective(FlattenSeq(ss))
  BY <1>4, <1>7, FlattenApart
<1> QED
  BY <1>4, <1>8

SizedPages(uss, texts, max, N) == uss = [p \in 1..N |-> Sized(texts[p], max)]

(* The same across the pages.                                              *)
LEMMA PiecesApart ==
  ASSUME NEW D, NEW max \in Nat \ {0}, AllLegible(D, max), NEW N \in Nat,
         NEW texts \in [1..N -> Seq(D)], Apart(texts, N),
         NEW uss, SizedPages(uss, texts, max, N)
  PROVE  uss \in [1..N -> Seq(PartsOf(D, max))] /\ IsInjective(FlattenSeq(uss))
<1> USE DEF SizedPages
<1>1. PICK C : C = PartsOf(D, max)
  OBVIOUS
<1>2. PICK tt : tt = uss
  OBVIOUS
<1>3. tt \in [1..N -> Seq(C)]
  <2>1. ASSUME NEW p \in 1..N PROVE Sized(texts[p], max) \in Seq(C)
    <3>1. texts[p] \in Seq(D)
      OBVIOUS
    <3> QED
      BY <1>1, <3>1, SizedIs
  <2> QED
    BY <1>2, <2>1
<1>4. \A p \in 1..N : tt[p] = Sized(texts[p], max)
  BY <1>2
<1>5. ASSUME NEW p \in 1..N PROVE IsInjective(tt[p])
  <2>1. PICK text \in Seq(D) : text = texts[p]
    OBVIOUS
  <2>2. IdsApart(text)
    BY <2>1 DEF Apart, IdsApart
  <2> QED
    BY <1>4, <2>1, <2>2, PageApart
<1>6. ASSUME NEW p \in 1..N, NEW i \in 1..Len(tt[p])
      PROVE  \E k \in 1..Len(texts[p]) : tt[p][i].id = texts[p][k].id
  <2>1. PICK text \in Seq(D) : text = texts[p]
    OBVIOUS
  <2>2. PICK v : v = tt[p][i]
    OBVIOUS
  <2>3. v \in Range(Sized(text, max))
    <3>1. tt[p] \in Seq(C) /\ tt[p] = Sized(text, max)
      BY <1>3, <1>4, <2>1
    <3>2. i \in DOMAIN tt[p]
      BY <1>6, <3>1, LenProperties
    <3> QED
      BY <2>2, <3>1, <3>2 DEF Range
  <2>4. PICK k \in 1..Len(text) : v \in Range(Parts(text[k], max))
    BY <2>3, SizedFrom
  <2>5. Legible(text[k], max)
    BY ElementOfSeq DEF AllLegible
  <2>6. v.id = text[k].id
    BY <2>4, <2>5, PartIs
  <2> QED
    BY <2>1, <2>2, <2>6
<1>7. ASSUME NEW p \in 1..N, NEW q \in 1..N, NEW i \in 1..Len(tt[p]), NEW j \in 1..Len(tt[q]),
             tt[p][i] = tt[q][j]
      PROVE  p = q /\ i = j
  <2>1. PICK k \in 1..Len(texts[p]) : tt[p][i].id = texts[p][k].id
    BY <1>6, <1>7
  <2>2. PICK l \in 1..Len(texts[q]) : tt[q][j].id = texts[q][l].id
    BY <1>6, <1>7
  <2>3. p = q
    BY <1>7, <2>1, <2>2 DEF Apart
  <2>4. IsInjective(tt[p]) /\ DOMAIN tt[p] = 1..Len(tt[p])
    BY <1>3, <1>5, LenProperties
  <2>5. i = j
    BY <1>7, <2>3, <2>4 DEF IsInjective
  <2> QED
    BY <2>3, <2>5
<1>8. IsInjective(FlattenSeq(tt))
  BY <1>3, <1>7, FlattenApart
<1> QED
  BY <1>1, <1>2, <1>3, <1>8

-----------------------------------------------------------------------------
(* The rows of the pages' chunks, one page after the other.                *)
RowsOf(p, pp, texts) ==
  [i \in DOMAIN texts[p] |-> [page |-> p, label |-> pp[p].label,
                              header |-> pp[p].header, units |-> texts[p][i]]]
RowsHold(made, all, texts, N) ==
  /\ Len(made) = Len(all)
  /\ \A c \in 1..Len(made) : made[c].units = all[c]
  /\ \A x : x \in Range(made) => x.page \in 1..N /\ x.units \in Range(texts[x.page])
  /\ \A p \in 1..N : \A t \in Range(texts[p]) : \E x \in Range(made) : x.page = p /\ x.units = t

(* The rows of all pages hold the chunks of all pages, page after page.    *)
LEMMA RowsMade ==
  ASSUME NEW C, NEW N \in Nat, NEW pp, NEW texts \in [1..N -> Seq(Seq(C))],
         NEW rows, rows = [p \in 1..N |-> RowsOf(p, pp, texts)],
         NEW made, made = FlattenSeq(rows)
  PROVE  (\E R : made \in Seq(R)) /\ RowsHold(made, FlattenSeq(texts), texts, N)
<1>1. PICK rs : rs = rows
  OBVIOUS
<1>2. \A p \in 1..N : rs[p] = RowsOf(p, pp, texts)
  BY <1>1
<1>3. ASSUME NEW p \in 1..N
      PROVE  /\ Len(texts[p]) \in Nat /\ DOMAIN rs[p] = 1..Len(texts[p])
             /\ rs[p] = [i \in 1..Len(texts[p]) |-> rs[p][i]]
             /\ \A i \in 1..Len(texts[p]) : /\ rs[p][i].page = p
                                            /\ rs[p][i].units = texts[p][i]
                                            /\ texts[p][i] \in Seq(C)
  <2>1. PICK ts \in Seq(Seq(C)) : ts = texts[p]
    OBVIOUS
  <2>2. rs[p] = [i \in DOMAIN ts |-> [page |-> p, label |-> pp[p].label,
                                      header |-> pp[p].header, units |-> ts[i]]]
    BY <1>2, <2>1 DEF RowsOf
  <2>3. DOMAIN ts = 1..Len(ts) /\ Len(ts) \in Nat
    BY LenProperties
  <2>4. \A i \in 1..Len(ts) : ts[i] \in Seq(C)
    BY ElementOfSeq
  <2> QED
    BY <2>1, <2>2, <2>3, <2>4
<1>a. ASSUME NEW p \in 1..N, NEW x
      PROVE  x \in Range(rs[p]) <=> \E i \in 1..Len(texts[p]) : x = rs[p][i]
  <2>1. DOMAIN rs[p] = 1..Len(texts[p])
    BY <1>3
  <2> QED
    BY <2>1 DEF Range
<1> DEFINE R == UNION {Range(rs[p]) : p \in 1..N}
<1>6. \A x : x \in R <=> \E p \in 1..N : x \in Range(rs[p])
  OBVIOUS
<1> HIDE DEF R
<1>4. rs \in [1..N -> Seq(R)]
  <2>1. ASSUME NEW p \in 1..N PROVE rs[p] \in Seq(R)
    <3>1. \A i \in 1..Len(texts[p]) : rs[p][i] \in R
      BY <1>6, <1>a
    <3>2. PICK l \in Nat : l = Len(texts[p])
      BY <1>3
    <3>3. rs[p] \in [1..l -> R]
      BY <1>3, <3>1, <3>2
    <3> QED
      BY <3>3
  <2>2. rs = [p \in 1..N |-> rs[p]]
    BY <1>1
  <2> QED
    BY <2>1, <2>2
<1>5. ASSUME NEW x \in R PROVE x.units \in Seq(C)
  <2>1. PICK p \in 1..N : x \in Range(rs[p])
    BY <1>6
  <2>2. PICK i \in 1..Len(texts[p]) : x = rs[p][i]
    BY <1>a, <2>1
  <2> QED
    BY <1>3, <2>2
<1>7. PICK h : h = [x \in R |-> x.units] /\ Maps(h, R, Seq(C))
  <2>1. PICK h : h = [x \in R |-> x.units]
    OBVIOUS
  <2>2. h \in [R -> Seq(C)]
    BY <1>5, <2>1
  <2> QED
    BY <2>1, <2>2 DEF Maps
<1>8. ASSUME NEW p \in 1..N PROVE texts[p] = Mapped(h, rs[p])
  <2>1. PICK ts \in Seq(Seq(C)) : ts = texts[p]
    OBVIOUS
  <2>2. DOMAIN ts = 1..Len(ts) /\ ts = [i \in 1..Len(ts) |-> ts[i]]
    BY LenProperties
  <2>3. \A i \in 1..Len(ts) : rs[p][i] \in R /\ rs[p][i].units = ts[i]
    BY <1>3, <1>6, <1>a, <2>1
  <2>4. \A i \in 1..Len(ts) : h[rs[p][i]] = ts[i]
    BY <1>7, <2>3
  <2>5. Mapped(h, rs[p]) = [i \in 1..Len(ts) |-> h[rs[p][i]]]
    BY <1>3, <2>1 DEF Mapped
  <2>6. Mapped(h, rs[p]) = [i \in 1..Len(ts) |-> ts[i]]
    BY <2>4, <2>5
  <2> QED
    BY <2>1, <2>2, <2>6
<1>9. FlattenSeq(texts) = Mapped(h, FlattenSeq(rs))
  <2>1. PICK D : D = Seq(C)
    OBVIOUS
  <2>2. PICK f : f = rs /\ f \in [1..N -> Seq(R)]
    BY <1>4
  <2>3. PICK g : g = texts /\ g \in [1..N -> Seq(D)]
    BY <2>1
  <2>4. Maps(h, R, D) /\ \A k \in 1..N : g[k] = Mapped(h, f[k])
    BY <1>7, <1>8, <2>1, <2>2, <2>3
  <2>5. FlattenSeq(g) = Mapped(h, FlattenSeq(f))
    <3>1. MapsAll(h, f, g, R, D, N)
      BY <2>2, <2>3, <2>4 DEF MapsAll
    <3> QED
      BY <3>1, FlattenMapped
  <2> QED
    BY <2>2, <2>3, <2>5
<1>10. /\ made \in Seq(R)
       /\ \A x : x \in Range(made) <=> \E k \in 1..N : x \in Range(rs[k])
  BY <1>1, <1>4, FlattenRange
<1>11. FlattenSeq(texts) = Mapped(h, made)
  BY <1>1, <1>9
<1>12. Len(made) \in Nat /\ DOMAIN made = 1..Len(made) /\ \A c \in 1..Len(made) : made[c] \in R
  BY <1>10, LenProperties, ElementOfSeq
<1>13. PICK all : all = FlattenSeq(texts)
  OBVIOUS
<1>14. Len(all) = Len(made) /\ \A c \in 1..Len(made) : all[c] = made[c].units
  <2>1. PICK l \in Nat : l = Len(made)
    BY <1>12
  <2>2. all = [c \in 1..l |-> h[made[c]]]
    BY <1>11, <1>12, <1>13, <2>1 DEF Mapped
  <2>3. \A c \in 1..l : h[made[c]] = made[c].units /\ h[made[c]] \in Seq(C)
    BY <1>7, <1>12, <2>1 DEF Maps
  <2>4. all \in [1..l -> Seq(C)]
    BY <2>2, <2>3
  <2>5. Len(all) = l
    BY <2>4
  <2> QED
    BY <2>1, <2>2, <2>3, <2>5
<1>15. ASSUME NEW x, x \in Range(made) PROVE x.page \in 1..N /\ x.units \in Range(texts[x.page])
  <2>1. PICK p \in 1..N : x \in Range(rs[p])
    BY <1>10, <1>15
  <2>2. PICK i \in 1..Len(texts[p]) : x = rs[p][i]
    BY <1>a, <2>1
  <2>3. x.page = p /\ x.units = texts[p][i]
    BY <1>3, <2>2
  <2>4. texts[p][i] \in Range(texts[p])
    <3>1. DOMAIN texts[p] = 1..Len(texts[p])
      BY LenProperties
    <3> QED
      BY <3>1 DEF Range
  <2> QED
    BY <2>3, <2>4
<1>16. ASSUME NEW p \in 1..N, NEW t \in Range(texts[p])
       PROVE  \E x \in Range(made) : x.page = p /\ x.units = t
  <2>1. PICK i \in 1..Len(texts[p]) : t = texts[p][i]
    BY LenProperties DEF Range
  <2>2. rs[p][i] \in Range(rs[p]) /\ rs[p][i].page = p /\ rs[p][i].units = t
    BY <1>3, <1>a, <2>1
  <2> QED
    BY <1>10, <2>2
<1>17. RowsHold(made, all, texts, N)
  BY <1>14, <1>15, <1>16 DEF RowsHold
<1> QED
  BY <1>10, <1>13, <1>17

-----------------------------------------------------------------------------
(* What is stored of the chunks of the pages: those that are no slivers.   *)
StoredAs(chs, all, texts, N) ==
  /\ IsList(chs) /\ DOMAIN chs = 1..Len(chs) /\ Len(chs) \in Nat
  /\ \E e : /\ e \in [1..Len(chs) -> 1..Len(all)]
            /\ \A c, d \in 1..Len(chs) : c < d => e[c] < e[d]
            /\ \A c \in 1..Len(chs) : chs[c].units = all[e[c]]
  /\ \A p \in 1..N : \A v :
       (\E c \in DOMAIN chs : chs[c].page = p /\ v \in Range(chs[c].units))
         <=> \E t \in Range(texts[p]) : alnum_count(t) >= MIN_CHUNK_ALNUM /\ v \in Range(t)

(* What is stored are the rows that are not slivers, in their order.       *)
LEMMA RowsStored ==
  ASSUME NEW R, NEW made \in Seq(R), NEW all, NEW N \in Nat, NEW texts, RowsHold(made, all, texts, N),
         NEW places, places = {c \in DOMAIN made : alnum_count(made[c].units) >= MIN_CHUNK_ALNUM},
         NEW chs, chs = SelectAt(made, places)
  PROVE  StoredAs(chs, all, texts, N)
<1>1. PICK l \in Nat : l = Len(made) /\ DOMAIN made = 1..l
  BY LenProperties
<1>2. PICK P : P = places
  OBVIOUS
<1>3. \A c \in 1..l : c \in P <=> alnum_count(made[c].units) >= MIN_CHUNK_ALNUM
  BY <1>1, <1>2
<1>4. PICK s \in Seq(R) : s = SelectAt(made, P)
  BY SelectAtPicks
<1>5. PICK m \in Nat : m = Len(s) /\ DOMAIN s = 1..m
  BY LenProperties
<1>6. PICK e : Selects(e, m, l, P) /\ \A j \in 1..m : s[j] = made[e[j]]
  BY <1>1, <1>4, <1>5, SelectAtPicks
<1>7. /\ e \in [1..m -> 1..l]
      /\ \A i, j \in 1..m : i < j => e[i] < e[j]
      /\ \A i \in 1..l : i \in P <=> \E j \in 1..m : e[j] = i
  BY <1>6 DEF Selects
<1>8. /\ Len(all) = l
      /\ \A c \in 1..l : made[c].units = all[c]
      /\ \A x : x \in Range(made) => x.page \in 1..N /\ x.units \in Range(texts[x.page])
      /\ \A p \in 1..N : \A t \in Range(texts[p]) : \E x \in Range(made) : x.page = p /\ x.units = t
  BY <1>1 DEF RowsHold
<1>9. \A c \in 1..m : s[c].units = all[e[c]]
  BY <1>6, <1>7, <1>8
<1>10. ASSUME NEW p \in 1..N, NEW v, NEW c \in 1..m, s[c].page = p, v \in Range(s[c].units)
       PROVE  \E t \in Range(texts[p]) : alnum_count(t) >= MIN_CHUNK_ALNUM /\ v \in Range(t)
  <2>1. PICK k \in 1..l : k = e[c] /\ k \in P
    BY <1>7
  <2>2. s[c] = made[k]
    BY <1>6, <2>1
  <2>3. made[k] \in Range(made)
    BY <1>1 DEF Range
  <2> QED
    BY <1>3, <1>8, <1>10, <2>1, <2>2, <2>3
<1>11. ASSUME NEW p \in 1..N, NEW v, NEW t \in Range(texts[p]),
              alnum_count(t) >= MIN_CHUNK_ALNUM, v \in Range(t)
       PROVE  \E c \in 1..m : s[c].page = p /\ v \in Range(s[c].units)
  <2>1. PICK x \in Range(made) : x.page = p /\ x.units = t
    BY <1>8
  <2>2. PICK k \in 1..l : made[k] = x
    BY <1>1 DEF Range
  <2>3. k \in P
    BY <1>3, <1>11, <2>1, <2>2
  <2>4. PICK c \in 1..m : e[c] = k
    BY <1>7, <2>3
  <2> QED
    BY <1>6, <1>11, <2>1, <2>2, <2>4
<1>12. StoredAs(s, all, texts, N)
  <2>1. e \in [1..Len(s) -> 1..Len(all)]
    BY <1>5, <1>7, <1>8
  <2>2. \A p \in 1..N : \A v :
       (\E c \in DOMAIN s : s[c].page = p /\ v \in Range(s[c].units))
         <=> \E t \in Range(texts[p]) : alnum_count(t) >= MIN_CHUNK_ALNUM /\ v \in Range(t)
    BY <1>5, <1>10, <1>11
  <2>3. DOMAIN s = 1..Len(s) /\ Len(s) \in Nat
    BY <1>5
  <2>6. IsList(s)
    <3>1. PICK S : S = Range(s)
      OBVIOUS
    <3>2. s = [c \in 1..m |-> s[c]] /\ \A c \in 1..m : s[c] \in S
      BY <1>5, <3>1 DEF Range
    <3>3. s \in [1..m -> S]
      BY <3>2
    <3>4. s \in Seq(S)
      BY <3>3
    <3> QED
      BY <3>1, <3>4 DEF IsList
  <2>4. \A c, d \in 1..Len(s) : c < d => e[c] < e[d]
    BY <1>5, <1>7
  <2>5. \A c \in 1..Len(s) : s[c].units = all[e[c]]
    BY <1>5, <1>9
  <2> QED
    BY <2>1, <2>2, <2>3, <2>4, <2>5, <2>6 DEF StoredAs
<1> QED
  BY <1>2, <1>4, <1>12

(* chunk_pages stores the chunks of each page's text.                      *)
LEMMA PagesStored ==
  ASSUME NEW C, NEW N \in Nat, NEW pp, DOMAIN pp = 1..N, NEW max, NEW overlap, NEW paragraphs,
         NEW texts \in [1..N -> Seq(Seq(C))],
         \A p \in 1..N : texts[p] = chunk_text(pp[p].text, max, overlap, paragraphs)
  PROVE  StoredAs(chunk_pages(pp, max, overlap, paragraphs), FlattenSeq(texts), texts, N)
<1> DEFINE rows == [p \in 1..N |-> RowsOf(p, pp, texts)]
           made == FlattenSeq(rows)
           places == {c \in DOMAIN made : alnum_count(made[c].units) >= MIN_CHUNK_ALNUM}
<1>1. (\E R : made \in Seq(R)) /\ RowsHold(made, FlattenSeq(texts), texts, N)
  BY RowsMade
<1>2. PICK rs : rs = rows
  OBVIOUS
<1>3. chunk_pages(pp, max, overlap, paragraphs) = SelectAt(made, places)
  <2>1. rs = [p \in DOMAIN pp |->
               LET ts == chunk_text(pp[p].text, max, overlap, paragraphs)
               IN  [i \in DOMAIN ts |-> [page |-> p, label |-> pp[p].label,
                                         header |-> pp[p].header, units |-> ts[i]]]]
    BY <1>2 DEF RowsOf
  <2> HIDE DEF rows
  <2> QED
    BY <1>2, <2>1 DEF chunk_pages
<1>4. PICK R : made \in Seq(R)
  BY <1>1
<1>5. PICK md \in Seq(R) : md = made
  BY <1>4
<1> HIDE DEF made
<1>6. StoredAs(SelectAt(md, {c \in DOMAIN md : alnum_count(md[c].units) >= MIN_CHUNK_ALNUM}),
               FlattenSeq(texts), texts, N)
  BY <1>1, <1>5, RowsStored
<1> QED
  BY <1>3, <1>5, <1>6

-----------------------------------------------------------------------------
(* A chunk counts at least as many letters as each of its sentences.       *)
Counted(C) == \A u \in C : alnum_count(<<u>>) = Sum(Letters(u.words)) /\ alnum_count(<<u>>) \in Nat

(* The parts of legible sentences can be counted.                          *)
LEMMA PartsCounted ==
  ASSUME NEW D, NEW max \in Nat \ {0}, AllLegible(D, max)
  PROVE  Counted(PartsOf(D, max))
<1>1. SUFFICES ASSUME NEW u \in D, NEW v \in Range(Parts(u, max))
               PROVE  alnum_count(<<v>>) = Sum(Letters(v.words)) /\ alnum_count(<<v>>) \in Nat
  BY DEF Counted, PartsOf
<1>2. PICK us : us = Parts(u, max)
  OBVIOUS
<1>3. Broken(u, us, max)
  BY <1>2, PartsBroken DEF AllLegible
<1>4. us \in Seq(Range(us))
  BY <1>3 DEF Broken
<1>5. PICK k \in 1..Len(us) : v = us[k]
  BY <1>2, <1>4, LenProperties DEF Range
<1> QED
  BY <1>3, <1>5 DEF Broken

(* A chunk counts at least what each of its sentences counts.              *)
LEMMA CountedAtLeast ==
  ASSUME NEW C, Counted(C), NEW ch \in Seq(C), NEW j \in 1..Len(ch)
  PROVE  alnum_count(<<ch[j]>>) <= alnum_count(ch) /\ alnum_count(ch) \in Nat
<1>1. PICK n \in Nat : n = Len(ch) /\ DOMAIN ch = 1..n
  BY LenProperties
<1>2. PICK s : s = [i \in 1..n |-> Sum(Letters(ch[i].words))]
  OBVIOUS
<1>3. \A i \in 1..n : alnum_count(<<ch[i]>>) = s[i] /\ s[i] \in Nat
  BY <1>1, <1>2, ElementOfSeq DEF Counted
<1>4. s \in Seq(Nat) /\ Len(s) = n
  <2>1. s \in [1..n -> Nat]
    BY <1>2, <1>3
  <2> QED
    BY <2>1
<1>5. alnum_count(ch) = Sum(s)
  <2>1. alnum_count(ch)
        = Sum([i \in DOMAIN ch |-> Sum([k \in DOMAIN ch[i].words |-> ch[i].words[k].chars])])
    BY DEF alnum_count, SumOver
  <2>2. s = [i \in DOMAIN ch |-> Sum([k \in DOMAIN ch[i].words |-> ch[i].words[k].chars])]
    BY <1>1, <1>2 DEF Letters
  <2> QED
    BY <2>1, <2>2
<1>6. PICK t : t = Totals(s)
  OBVIOUS
<1>7. /\ \A i \in 0..n : t[i] \in Nat
      /\ \A i, k \in 0..n : i <= k => t[i] <= t[k]
      /\ \A i \in 1..n : t[i] = t[i - 1] + s[i]
  <2>1. /\ Adds(t, n, s)
        /\ \A i \in 0..n : t[i] \in Nat
        /\ \A i, k \in 0..n : i <= k => t[i] <= t[k]
    BY <1>4, <1>6, TotalsGrow
  <2> QED
    BY <2>1 DEF Adds
<1>8. Sum(s) = t[n]
  BY <1>4, <1>6 DEF Sum
<1>9. j \in 1..n /\ j \in 0..n /\ j - 1 \in 0..n /\ n \in 0..n
  BY <1>1
<1>10. t[j] = t[j - 1] + s[j] /\ t[j - 1] \in Nat /\ t[j] \in Nat /\ t[n] \in Nat /\ t[j] <= t[n]
  BY <1>7, <1>9
<1>11. s[j] \in Nat /\ alnum_count(<<ch[j]>>) = s[j]
  BY <1>3, <1>9
<1> QED
  BY <1>5, <1>8, <1>10, <1>11

(* Every sentence is in a chunk, and nothing else is.                      *)
LEMMA PlacedAll ==
  ASSUME NEW C, NEW us \in Seq(C), NEW chs \in Seq(Seq(C)), NEW to, NEW r, NEW ov, NEW size,
         Placed(to, r, chs, us, Len(us), ov, size)
  PROVE  \A v : v \in Range(us) <=> \E t \in Range(chs) : v \in Range(t)
<1>1. PICK n \in Nat : n = Len(us) /\ DOMAIN us = 1..n
  BY LenProperties
<1>2. PICK m \in Nat : m = Len(chs) /\ DOMAIN chs = 1..m
  BY LenProperties
<1>3. /\ to[0] = 0 /\ to[m] = n
      /\ \A k \in 0..m : to[k] \in 0..n
      /\ \A k \in 1..m : Held(chs[k], us, to[k - 1], r[k], to[k], ov, size)
  BY <1>1, <1>2 DEF Placed
<1>4. ASSUME NEW i \in 1..n PROVE \E k \in 1..m : us[i] \in Range(chs[k])
  <2>1. PICK T \in SUBSET (0..m) : T = {k \in 0..m : i <= to[k]}
    OBVIOUS
  <2>a. T \in SUBSET Nat
    BY <2>1
  <2>2. m \in T
    BY <1>3, <2>1
  <2>3. PICK k \in T : \A l \in T : k <= l
    BY <2>2, <2>a, Least
  <2>4. k \in 1..m
    <3>1. k \in 0..m /\ i <= to[k]
      BY <2>1
    <3>2. k # 0
      BY <1>3, <3>1
    <3> QED
      BY <3>1, <3>2
  <2>5. k - 1 \in 0..m /\ k \in 0..m /\ k - 1 \notin T
    BY <2>3, <2>4
  <2>6. PICK a \in 0..n : a = to[k - 1] /\ a < i
    BY <1>3, <2>1, <2>5
  <2>7. PICK b \in 0..n : b = to[k] /\ i <= b
    BY <1>3, <2>1, <2>5
  <2>8. PICK ch \in Seq(C) : ch = chs[k]
    BY <1>2, <2>4, ElementOfSeq
  <2>9. PICK q : q = r[k]
    OBVIOUS
  <2>10. Held(ch, us, a, q, b, ov, size)
    BY <1>3, <2>4, <2>6, <2>7, <2>8, <2>9
  <2>11. q \in 0..a /\ Len(ch) = q + (b - a) /\ \A j \in 1..Len(ch) : ch[j] = us[(a - q) + j]
    BY <2>10 DEF Held
  <2>b. q \in Int /\ q >= 0 /\ q <= a /\ a \in Int /\ b \in Int /\ a < i /\ i <= b
    BY <2>6, <2>7, <2>11
  <2>12. PICK j \in Int : j = q + (i - a)
    BY <2>b
  <2>c. j \in 1..(q + (b - a))
    BY <2>b, <2>12
  <2>d. j \in 1..Len(ch)
    BY <2>11, <2>c
  <2>13. (a - q) + j = i
    BY <2>b, <2>12
  <2>14. ch[j] = us[i]
    BY <2>11, <2>13, <2>d
  <2>15. j \in DOMAIN ch
    BY <2>d, LenProperties
  <2> QED
    BY <2>4, <2>8, <2>14, <2>15 DEF Range
<1>5. ASSUME NEW k \in 1..m, NEW v \in Range(chs[k]) PROVE v \in Range(us)
  <2>1. k - 1 \in 0..m /\ k \in 0..m
    OBVIOUS
  <2>2. PICK a \in 0..n : a = to[k - 1]
    BY <1>3, <2>1
  <2>3. PICK b \in 0..n : b = to[k]
    BY <1>3, <2>1
  <2>4. PICK ch \in Seq(C) : ch = chs[k]
    BY <1>2, ElementOfSeq
  <2>5. PICK q : q = r[k]
    OBVIOUS
  <2>6. Held(ch, us, a, q, b, ov, size)
    BY <1>3, <2>2, <2>3, <2>4, <2>5
  <2>7. q \in 0..a /\ a < b /\ Len(ch) = q + (b - a) /\ \A j \in 1..Len(ch) : ch[j] = us[(a - q) + j]
    BY <2>6 DEF Held
  <2>8. PICK j \in 1..Len(ch) : v = ch[j]
    BY <2>4, LenProperties DEF Range
  <2>a. /\ q \in Int /\ q >= 0 /\ q <= a /\ a \in Int /\ b \in Int /\ b <= n
        /\ j \in Int /\ 1 <= j /\ j <= q + (b - a)
    <3>1. j \in 1..(q + (b - a))
      BY <2>7
    <3>2. q \in 0..a /\ a \in 0..n /\ b \in 0..n
      BY <2>2, <2>3, <2>7
    <3> QED
      BY <3>1, <3>2
  <2>9. (a - q) + j \in 1..n
    BY <2>a
  <2>10. v = us[(a - q) + j]
    BY <2>7, <2>8
  <2> QED
    BY <1>1, <2>9, <2>10 DEF Range
<1>6. \A t : t \in Range(chs) <=> \E k \in 1..m : t = chs[k]
  BY <1>2 DEF Range
<1>7. \A v : v \in Range(us) <=> \E i \in 1..n : v = us[i]
  BY <1>1 DEF Range
<1>8. ASSUME NEW v, v \in Range(us) PROVE \E t \in Range(chs) : v \in Range(t)
  <2>1. PICK i \in 1..n : v = us[i]
    BY <1>7, <1>8
  <2>2. PICK k \in 1..m : us[i] \in Range(chs[k])
    BY <1>4
  <2>3. chs[k] \in Range(chs)
    BY <1>6
  <2> QED
    BY <2>1, <2>2, <2>3
<1>9. ASSUME NEW v, NEW t \in Range(chs), v \in Range(t) PROVE v \in Range(us)
  <2>1. PICK k \in 1..m : t = chs[k]
    BY <1>6
  <2> QED
    BY <1>5, <1>9, <2>1
<1> QED
  BY <1>8, <1>9

(* What is stored of a sentence: its parts that are not in slivers.  All   *)
(* but the last are long enough to keep a chunk alive, so no more than the *)
(* last can be missing.                                                    *)
StoredParts(kept, id, chs) ==
  \A v : v \in kept <=>
    v.id = id /\ \E t \in Range(chs) : alnum_count(t) >= MIN_CHUNK_ALNUM /\ v \in Range(t)
PartSizes(kept, n) ==
  [k \in 1..n |-> IF \E v \in kept : v.part = k
                  THEN alnum_count(<<CHOOSE v \in kept : v.part = k>>) ELSE 0]

AllKept(us, kept) ==
  /\ \A v \in kept : v.part \in 1..Len(us) /\ v = us[v.part]
  /\ \A k \in 1..Len(us) : /\ us[k].part = k
                           /\ alnum_count(<<us[k]>>) >= MIN_CHUNK_ALNUM => us[k] \in kept

(* A part of a sentence is in the table unless it is a sliver.             *)
LEMMA KeptParts ==
  ASSUME NEW D, NEW max \in Nat \ {0}, AllLegible(D, max), NEW text \in Seq(D),
         IdsApart(text),
         NEW C, C = PartsOf(D, max), NEW chs, NEW ov, NEW wide,
         Chunked(chs, Sized(text, max), C, ov, wide),
         NEW i \in 1..Len(text), NEW us, us = Parts(text[i], max),
         NEW kept, StoredParts(kept, text[i].id, chs)
  PROVE  AllKept(us, kept)
<1>1. PICK all : all = Sized(text, max)
  OBVIOUS
<1>2. all \in Seq(C)
  BY <1>1, SizedIs
<1>3. chs \in Seq(Seq(C)) /\ \E to, r : Placed(to, r, chs, all, Len(all), ov, wide)
  BY <1>1 DEF Chunked
<1>4. \A v : v \in Range(all) <=> \E t \in Range(chs) : v \in Range(t)
  BY <1>2, <1>3, PlacedAll
<1>5. \A v : v \in Range(all) <=> \E j \in 1..Len(text) : v \in Range(Parts(text[j], max))
  BY <1>1, SizedFrom
<1>6. \A j \in 1..Len(text) : Legible(text[j], max)
  BY ElementOfSeq DEF AllLegible
<1>7. PICK ps : ps = us
  OBVIOUS
<1>8. ps = Parts(text[i], max) /\ Broken(text[i], ps, max)
  BY <1>6, <1>7, PartsBroken
<1>9. /\ ps \in Seq(Range(ps))
      /\ \A k \in 1..Len(ps) : ps[k].id = text[i].id /\ ps[k].part = k
  BY <1>8 DEF Broken
<1>10. ASSUME NEW v \in kept PROVE v.part \in 1..Len(ps) /\ v = ps[v.part]
  <2>1. v.id = text[i].id /\ \E t \in Range(chs) : v \in Range(t)
    BY DEF StoredParts
  <2>2. PICK j \in 1..Len(text) : v \in Range(Parts(text[j], max))
    BY <1>4, <1>5, <2>1
  <2>3. v.id = text[j].id
    BY <1>6, <2>2, PartIs
  <2>4. j = i
    BY <2>1, <2>3 DEF IdsApart
  <2>5. v \in Range(Parts(text[i], max))
    BY <2>2, <2>4
  <2>6. v.part \in 1..Len(Parts(text[i], max)) /\ v = Parts(text[i], max)[v.part]
    BY <1>6, <2>5, PartIs
  <2> QED
    BY <1>8, <2>6
<1>11. ASSUME NEW k \in 1..Len(ps), alnum_count(<<ps[k]>>) >= MIN_CHUNK_ALNUM PROVE ps[k] \in kept
  <2>1. PICK v : v = ps[k]
    OBVIOUS
  <2>2. v \in Range(ps)
    BY <1>9, <2>1, LenProperties DEF Range
  <2>3. v \in Range(all)
    BY <1>5, <1>8, <2>2
  <2>4. PICK t \in Range(chs) : v \in Range(t)
    BY <1>4, <2>3
  <2>5. t \in Seq(C)
    BY <1>3, LenProperties, ElementOfSeq DEF Range
  <2>6. PICK j \in 1..Len(t) : v = t[j]
    BY <2>4, <2>5, LenProperties DEF Range
  <2>7. Counted(C)
    BY PartsCounted
  <2>8. alnum_count(<<t[j]>>) <= alnum_count(t) /\ alnum_count(t) \in Nat /\ alnum_count(<<t[j]>>) \in Nat
    <3>1. alnum_count(<<t[j]>>) <= alnum_count(t) /\ alnum_count(t) \in Nat
      BY <2>5, <2>7, CountedAtLeast
    <3>2. t[j] \in C
      BY <2>5, ElementOfSeq
    <3>3. alnum_count(<<t[j]>>) \in Nat
      BY <2>7, <3>2 DEF Counted
    <3> QED
      BY <3>1, <3>3
  <2>9. alnum_count(t) >= MIN_CHUNK_ALNUM
    BY <1>11, <2>1, <2>6, <2>8 DEF MIN_CHUNK_ALNUM
  <2>10. v.id = text[i].id
    BY <1>9, <2>1
  <2> QED
    BY <2>1, <2>4, <2>9, <2>10 DEF StoredParts
<1> QED
  BY <1>7, <1>9, <1>10, <1>11 DEF AllKept

(* What the stored parts of a sentence spell: all of it but a sliver, as   *)
(* only its last part can be one.                                          *)
LEMMA SizesAdd ==
  ASSUME NEW u, NEW max, NEW us, Broken(u, us, max), NEW kept, NEW n \in Nat, Len(us) <= n,
         AllKept(us, kept)
  PROVE  alnum_count(<<u>>) - Sum(PartSizes(kept, n)) \in 0..MIN_CHUNK_ALNUM - 1
<1> USE DEF AllKept
<1>1. PICK m \in Nat \ {0} : m = Len(us)
  BY DEF Broken
<1>2. PICK sp : sp = [k \in 1..m |-> alnum_count(<<us[k]>>)]
  OBVIOUS
<1>3. (\A k \in 1..m : sp[k] \in Nat) /\ Sum(sp) = alnum_count(<<u>>)
      /\ \A k \in 1..m - 1 : sp[k] >= MIN_CHUNK_ALNUM
  <2>1. sp = Spells(us)
    BY <1>1, <1>2 DEF Spells
  <2>2. \A k \in 1..m : alnum_count(<<us[k]>>) \in Nat
    BY <1>1 DEF Broken
  <2>3. \A k \in 1..m - 1 : alnum_count(<<us[k]>>) >= MIN_CHUNK_ALNUM
    BY <1>1 DEF Broken
  <2>4. Sum(sp) = alnum_count(<<u>>)
    BY <2>1 DEF Broken
  <2> QED
    BY <1>1, <1>2, <2>2, <2>3, <2>4
<1>4. sp \in Seq(Int) /\ Len(sp) = m
  <2>1. sp \in [1..m -> Int]
    BY <1>2, <1>3
  <2> QED
    BY <2>1
<1>5. ASSUME NEW k \in 1..n, \E v \in kept : v.part = k
      PROVE  k \in 1..m /\ us[k] \in kept /\ (CHOOSE v \in kept : v.part = k) = us[k]
  <2>1. PICK w : w = CHOOSE v \in kept : v.part = k
    OBVIOUS
  <2>2. w \in kept /\ w.part = k
    BY <1>5, <2>1
  <2> QED
    BY <1>1, <2>1, <2>2
<1>6. ASSUME NEW k \in 1..m, us[k] \in kept PROVE \E v \in kept : v.part = k
  BY <1>1, <1>6
<1>7. PICK t : t = PartSizes(kept, n)
  OBVIOUS
<1>8. t = [k \in 1..n |-> IF k \in 1..m /\ us[k] \in kept THEN sp[k] ELSE 0]
  <2>1. ASSUME NEW k \in 1..n
        PROVE  (IF \E v \in kept : v.part = k
                THEN alnum_count(<<CHOOSE v \in kept : v.part = k>>) ELSE 0)
               = IF k \in 1..m /\ us[k] \in kept THEN sp[k] ELSE 0
    <3>1. CASE \E v \in kept : v.part = k
      <4>1. k \in 1..m /\ us[k] \in kept /\ (CHOOSE v \in kept : v.part = k) = us[k]
        BY <1>5, <3>1
      <4>2. sp[k] = alnum_count(<<us[k]>>)
        BY <1>2, <4>1
      <4> QED
        BY <3>1, <4>1, <4>2
    <3>2. CASE ~\E v \in kept : v.part = k
      BY <1>6, <3>2
    <3> QED
      BY <3>1, <3>2
  <2> QED
    BY <1>7, <2>1 DEF PartSizes
<1>9. t \in Seq(Int) /\ Len(t) = n
  <2>1. t \in [1..n -> Int]
    BY <1>3, <1>8
  <2> QED
    BY <2>1
<1>10. \A k \in 1..n : t[k] = IF k \in 1..m /\ us[k] \in kept THEN sp[k] ELSE 0
  BY <1>8
<1>11. \A k \in 1..m - 1 : us[k] \in kept
  <2>1. ASSUME NEW k \in 1..m - 1 PROVE us[k] \in kept
    <3>1. k \in 1..m
      OBVIOUS
    <3>2. alnum_count(<<us[k]>>) = sp[k]
      BY <1>2, <3>1
    <3>3. sp[k] >= MIN_CHUNK_ALNUM
      BY <1>3
    <3>4. alnum_count(<<us[k]>>) >= MIN_CHUNK_ALNUM
      BY <3>2, <3>3
    <3> QED
      BY <1>1, <3>1, <3>4
  <2> QED
    BY <2>1
<1>12. m <= n
  BY <1>1
<1>13. Sum(sp) = Totals(sp)[m]
  BY <1>4 DEF Sum
<1>14. CASE us[m] \in kept
  <2>1. \A k \in 1..m : t[k] = sp[k]
    <3>1. \A k \in 1..m : us[k] \in kept
      BY <1>1, <1>11, <1>14
    <3> QED
      BY <1>10, <1>12, <3>1
  <2>2. \A k \in 1..Len(t) : k > m => t[k] = 0
    BY <1>9, <1>10
  <2>a. PICK q \in Nat : q = m
    OBVIOUS
  <2>b. /\ q <= Len(sp) /\ q <= Len(t)
        /\ \A k \in 1..q : t[k] = sp[k]
        /\ \A k \in 1..Len(t) : k > q => t[k] = 0
    BY <1>4, <1>9, <1>12, <2>1, <2>2, <2>a
  <2>3. Sum(t) = Totals(sp)[q] /\ Sum(t) \in Int
    BY <1>4, <1>9, <2>b, SumFirst
  <2>4. PICK x \in Int : x = Sum(t) /\ x = alnum_count(<<u>>)
    BY <1>3, <1>13, <2>3, <2>a
  <2> QED
    BY <1>7, <2>4 DEF MIN_CHUNK_ALNUM
<1>15. CASE us[m] \notin kept
  <2>1. m - 1 \in Nat /\ m - 1 <= n /\ m - 1 <= m
    BY <1>12
  <2>2. PICK q \in Nat : q = m - 1 /\ q <= n /\ q <= m /\ m = q + 1
    BY <2>1
  <2>3. \A k \in 1..q : t[k] = sp[k]
    <3>1. \A k \in 1..q : k \in 1..m /\ k \in 1..n /\ us[k] \in kept
      BY <1>11, <1>12, <2>2
    <3> QED
      BY <1>10, <3>1
  <2>4. \A k \in 1..Len(t) : k > q => t[k] = 0
    <3>1. ASSUME NEW k \in 1..n, k > q PROVE t[k] = 0
      <4>1. k \in 1..m => k = m
        BY <2>2, <3>1
      <4> QED
        BY <1>10, <1>15, <4>1
    <3> QED
      BY <1>9, <3>1
  <2>5. Sum(t) = Totals(sp)[q] /\ Sum(t) \in Int
    BY <1>4, <1>9, <2>2, <2>3, <2>4, SumFirst
  <2>6. Totals(sp)[m] = Totals(sp)[m - 1] + sp[m]
    <3>1. Adds(Totals(sp), m, sp)
      BY <1>4, TotalsUnfold
    <3>2. m \in 1..m
      OBVIOUS
    <3> QED
      BY <3>1, <3>2 DEF Adds
  <2>7. sp[m] \in 0..MIN_CHUNK_ALNUM - 1
    <3>1. m \in 1..m
      OBVIOUS
    <3>2. sp[m] \in Nat /\ sp[m] = alnum_count(<<us[m]>>)
      BY <1>2, <1>3, <3>1
    <3>3. ~(sp[m] >= MIN_CHUNK_ALNUM)
      BY <1>1, <1>15, <3>1, <3>2
    <3>4. PICK y \in Nat : y = sp[m] /\ ~(y >= MIN_CHUNK_ALNUM)
      BY <3>2, <3>3
    <3>5. y < 40
      BY <3>4 DEF MIN_CHUNK_ALNUM
    <3>6. y \in Nat
      BY <3>2, <3>4
    <3>7. y \in 0..39
      BY <3>5, <3>6
    <3>8. sp[m] \in 0..39
      BY <3>4, <3>7
    <3> QED
      BY <3>8 DEF MIN_CHUNK_ALNUM
  <2>8. PICK x \in Int : x = Sum(t) /\ x = Totals(sp)[m - 1]
    BY <2>2, <2>5
  <2>9. alnum_count(<<u>>) = x + sp[m]
    BY <1>3, <1>13, <2>6, <2>8
  <2>10. PICK z \in 0..MIN_CHUNK_ALNUM - 1 : z = sp[m]
    BY <2>7
  <2>a. z \in Int
    BY <2>10 DEF MIN_CHUNK_ALNUM
  <2>b. PICK y : y = alnum_count(<<u>>)
    OBVIOUS
  <2>c. y = x + z
    BY <2>9, <2>10, <2>b
  <2>d. y - x = z
    BY <2>a, <2>c
  <2>11. alnum_count(<<u>>) - x = z
    BY <2>b, <2>d
  <2> QED
    BY <1>7, <2>8, <2>10, <2>11
<1> QED
  BY <1>14, <1>15

(* So a sentence of a text that is chunked is stored but for a sliver.     *)
LEMMA SentenceSurvives ==
  ASSUME NEW D, NEW max \in Nat \ {0}, AllLegible(D, max), NEW text \in Seq(D),
         IdsApart(text),
         NEW C, C = PartsOf(D, max), NEW chs, NEW ov, NEW wide,
         Chunked(chs, Sized(text, max), C, ov, wide),
         NEW i \in 1..Len(text), NEW n \in Nat, Len(text[i].words) <= n,
         NEW kept, StoredParts(kept, text[i].id, chs)
  PROVE  alnum_count(<<text[i]>>) - Sum(PartSizes(kept, n)) \in 0..MIN_CHUNK_ALNUM - 1
<1>1. PICK us : us = Parts(text[i], max)
  OBVIOUS
<1>2. PICK u : u = text[i]
  OBVIOUS
<1>3. Broken(u, us, max) /\ Legible(u, max)
  BY <1>1, <1>2, ElementOfSeq, PartsBroken DEF AllLegible
<1>4. AllKept(us, kept)
  BY <1>1, KeptParts
<1>5. Len(us) <= n
  <2>1. Len(us) \in 1..Len(u.words) /\ Len(u.words) \in Nat
    <3>1. u.words \in Seq(Range(u.words))
      BY <1>3 DEF Legible, IsList
    <3> QED
      BY <1>3, <3>1, LenProperties DEF Broken
  <2>2. Len(u.words) <= n
    BY <1>2
  <2> QED
    BY <2>1, <2>2
<1>6. alnum_count(<<u>>) - Sum(PartSizes(kept, n)) \in 0..MIN_CHUNK_ALNUM - 1
  BY <1>3, <1>4, <1>5, SizesAdd
<1> QED
  BY <1>2, <1>6

(* The pages of a document are chunked: what is stored of a sentence, and  *)
(* how long a chunk is and how much of it the chunk before it holds.       *)
StoredOf(chs, p) == UNION {Range(chs[c].units) : c \in {d \in DOMAIN chs : chs[d].page = p}}
Survives(chs, texts, N) ==
  \A p \in 1..N : \A i \in 1..Len(texts[p]) : \A n \in Nat : \A kept :
    /\ Len(texts[p][i].words) <= n
    /\ kept = {v \in StoredOf(chs, p) : v.id = texts[p][i].id}
    => alnum_count(<<texts[p][i]>>) - Sum(PartSizes(kept, n)) \in 0..MIN_CHUNK_ALNUM - 1
Again(units, before) == [j \in DOMAIN units |-> IF units[j] \in Range(before) THEN Chars(units[j]) ELSE 0]
Bounded(chs, max, ov, room) ==
  /\ \A c \in DOMAIN chs : Length(chs[c].units) \in Int /\ Length(chs[c].units) <= max + ov + room
  /\ \A c \in DOMAIN chs : c > 1 =>
       LET s == Again(chs[c].units, chs[c - 1].units) IN Sum(s) \in Int /\ Sum(s) <= ov

(* Nothing of any page is lost when the rows are stored.                   *)
LEMMA PagesSurvive ==
  ASSUME NEW D, NEW max \in Nat \ {0}, AllLegible(D, max), NEW N \in Nat,
         NEW texts \in [1..N -> Seq(D)], Apart(texts, N), NEW C, C = PartsOf(D, max),
         NEW tt \in [1..N -> Seq(Seq(C))], NEW ov, NEW wide,
         \A p \in 1..N : Chunked(tt[p], Sized(texts[p], max), C, ov, wide),
         NEW chs, NEW all, StoredAs(chs, all, tt, N)
  PROVE  Survives(chs, texts, N)
<1>1. SUFFICES ASSUME NEW p \in 1..N, NEW i \in 1..Len(texts[p]), NEW n \in Nat, NEW kept,
                      Len(texts[p][i].words) <= n,
                      kept = {v \in StoredOf(chs, p) : v.id = texts[p][i].id}
               PROVE  alnum_count(<<texts[p][i]>>) - Sum(PartSizes(kept, n)) \in 0..MIN_CHUNK_ALNUM - 1
  BY DEF Survives
<1>2. PICK text \in Seq(D) : text = texts[p]
  OBVIOUS
<1>3. IdsApart(text)
  BY <1>2 DEF Apart, IdsApart
<1>4. PICK ch : ch = tt[p] /\ Chunked(ch, Sized(text, max), C, ov, wide)
  BY <1>2
<1>5. PICK K : K = kept
  OBVIOUS
<1>6. \A v : v \in K <=> v \in StoredOf(chs, p) /\ v.id = text[i].id
  BY <1>1, <1>2, <1>5
<1>7. StoredParts(K, text[i].id, ch)
  <2>1. \A v : v \in StoredOf(chs, p) <=> \E c \in DOMAIN chs : chs[c].page = p /\ v \in Range(chs[c].units)
    BY DEF StoredOf
  <2>2. \A v : (\E c \in DOMAIN chs : chs[c].page = p /\ v \in Range(chs[c].units))
               <=> \E t \in Range(tt[p]) : alnum_count(t) >= MIN_CHUNK_ALNUM /\ v \in Range(t)
    BY DEF StoredAs
  <2>3. \A v : v \in K <=> v.id = text[i].id
                           /\ \E t \in Range(ch) : alnum_count(t) >= MIN_CHUNK_ALNUM /\ v \in Range(t)
    BY <1>4, <1>6, <2>1, <2>2
  <2> QED
    BY <2>3 DEF StoredParts
<1>8. i \in 1..Len(text) /\ Len(text[i].words) <= n
  BY <1>1, <1>2
<1>9. alnum_count(<<text[i]>>) - Sum(PartSizes(K, n)) \in 0..MIN_CHUNK_ALNUM - 1
  BY <1>3, <1>4, <1>7, <1>8, SentenceSurvives
<1> QED
  BY <1>2, <1>5, <1>9

(* No stored chunk outgrows its size, and none repeats more than the       *)
(* overlap of the one stored before it, slivers in between or not.         *)
LEMMA PagesBounded ==
  ASSUME NEW D, NEW max \in Nat \ {0}, AllLegible(D, max), NEW N \in Nat,
         NEW texts \in [1..N -> Seq(D)], Apart(texts, N), NEW C, C = PartsOf(D, max),
         NEW tt \in [1..N -> Seq(Seq(C))], NEW ov \in Nat, NEW room, NEW wide, wide = max + ov + room,
         \A p \in 1..N : Chunked(tt[p], Sized(texts[p], max), C, ov, wide),
         NEW chs, NEW all, all = FlattenSeq(tt), StoredAs(chs, all, tt, N)
  PROVE  Bounded(chs, max, ov, room)
<1>1. PICK us : us = [p \in 1..N |-> Sized(texts[p], max)]
  OBVIOUS
<1>2. us \in [1..N -> Seq(C)] /\ IsInjective(FlattenSeq(us))
  <2>a. SizedPages(us, texts, max, N)
    BY <1>1 DEF SizedPages
  <2>1. us \in [1..N -> Seq(PartsOf(D, max))]
    BY <2>a, PiecesApart
  <2>2. IsInjective(FlattenSeq(us))
    BY <2>a, PiecesApart
  <2> QED
    BY <2>1, <2>2
<1>3. PICK G : G = FlattenSeq(us)
  OBVIOUS
<1>4. G \in Seq(C) /\ IsInjective(G)
  BY <1>2, <1>3, FlattenRange
<1>5. \A p \in 1..N : \E to, r : Placed(to, r, tt[p], us[p], Len(us[p]), ov, wide)
  BY <1>1 DEF Chunked
<1>6. PICK L : L = FlattenSeq(tt)
  OBVIOUS
<1>7. L \in Seq(Seq(C))
  BY <1>6, FlattenRange
<1>8. PICK to, r : Placed(to, r, L, G, Len(G), ov, wide)
  BY <1>2, <1>3, <1>5, <1>6, PlacedFlat
<1>9. AreUnits(C, max)
  BY PartsFit
<1>10. PICK m \in Nat : m = Len(chs) /\ DOMAIN chs = 1..m
  BY DEF StoredAs
<1>11. PICK e : /\ e \in [1..m -> 1..Len(L)]
                /\ \A c, d \in 1..m : c < d => e[c] < e[d]
                /\ \A c \in 1..m : chs[c].units = L[e[c]]
  BY <1>6, <1>10 DEF StoredAs
<1>12. ASSUME NEW c \in 1..m
       PROVE  Length(chs[c].units) \in Int /\ Length(chs[c].units) <= max + ov + room
  <2>1. PICK k \in 1..Len(L) : k = e[c] /\ chs[c].units = L[k]
    BY <1>11
  <2>2. Held(L[k], G, to[k - 1], r[k], to[k], ov, wide)
    BY <1>8 DEF Placed
  <2>3. Length(L[k]) <= wide
    BY <2>2 DEF Held
  <2>4. Length(L[k]) \in Int
    <3>1. PICK ch \in Seq(C) : ch = L[k]
      BY <1>7, ElementOfSeq
    <3>2. Length(ch) = Sum(Widths(ch)) - 1 /\ Sum(Widths(ch)) \in Nat
      BY <1>9, WidthsAre
    <3> QED
      BY <3>1, <3>2
  <2> QED
    BY <2>1, <2>3, <2>4
<1>13. ASSUME NEW c \in 1..m, c > 1
       PROVE  LET s == Again(chs[c].units, chs[c - 1].units) IN Sum(s) \in Int /\ Sum(s) <= ov
  <2>1. c - 1 \in 1..m /\ c - 1 < c
    BY <1>13
  <2>2. PICK b \in 1..Len(L) : b = e[c] /\ chs[c].units = L[b]
    BY <1>11
  <2>3. PICK a \in 1..Len(L) : a = e[c - 1] /\ chs[c - 1].units = L[a]
    BY <1>11, <2>1
  <2>4. a < b
    BY <1>11, <2>1, <2>2, <2>3
  <2>5. PICK s : s = [j \in DOMAIN L[b] |-> IF L[b][j] \in Range(L[a]) THEN Chars(L[b][j]) ELSE 0]
    OBVIOUS
  <2>6. AtMost(Sum(s), ov)
    BY <1>4, <1>7, <1>8, <1>9, <2>4, <2>5, RepeatsFew
  <2> QED
    BY <2>2, <2>3, <2>5, <2>6 DEF Again, AtMost
<1> QED
  BY <1>10, <1>12, <1>13 DEF Bounded

(* chunk_pages: all sentences survive and all chunks are bounded.          *)
LEMMA PagesChunked ==
  ASSUME NEW D, NEW max \in Nat \ {0}, AllLegible(D, max), NEW N \in Nat, NEW pp, DOMAIN pp = 1..N,
         NEW texts \in [1..N -> Seq(D)], \A p \in 1..N : texts[p] = pp[p].text, Apart(texts, N),
         NEW overlap \in Int, NEW paragraphs \in BOOLEAN, NEW ov, ov = Overlap(max, overlap),
         NEW room, room = TailRoom(paragraphs),
         NEW chs, chs = chunk_pages(pp, max, overlap, paragraphs)
  PROVE  Survives(chs, texts, N) /\ Bounded(chs, max, ov, room) /\ ov \in 0..(max \div 2)
<1>1. PICK C : C = PartsOf(D, max)
  OBVIOUS
<1>2. PICK wide : wide = max + ov + room
  OBVIOUS
<1>3. PICK tt : tt = [p \in 1..N |-> chunk_text(texts[p], max, overlap, paragraphs)]
  OBVIOUS
<1>4. tt \in [1..N -> Seq(Seq(C))] /\ \A p \in 1..N : Chunked(tt[p], Sized(texts[p], max), C, ov, wide)
  <2>1. wide = max + ov + TailRoom(paragraphs)
    BY <1>2
  <2>2. ASSUME NEW p \in 1..N
        PROVE  Chunked(chunk_text(texts[p], max, overlap, paragraphs), Sized(texts[p], max), C, ov, wide)
    <3>1. PICK text \in Seq(D) : text = texts[p]
      OBVIOUS
    <3>2. Chunked(chunk_text(text, max, overlap, paragraphs), Sized(text, max), C, ov, wide)
      BY <1>1, <2>1, TextPlaced
    <3> QED
      BY <3>1, <3>2
  <2>3. \A p \in 1..N : chunk_text(texts[p], max, overlap, paragraphs) \in Seq(Seq(C))
    BY <2>2 DEF Chunked
  <2> QED
    BY <1>3, <2>2, <2>3
<1>5. \A p \in 1..N : tt[p] = chunk_text(pp[p].text, max, overlap, paragraphs)
  BY <1>3
<1>6. StoredAs(chunk_pages(pp, max, overlap, paragraphs), FlattenSeq(tt), tt, N)
  BY <1>4, <1>5, PagesStored
<1>7. PICK all : all = FlattenSeq(tt)
  OBVIOUS
<1>8. StoredAs(chs, all, tt, N)
  BY <1>6, <1>7
<1>9. ov \in 0..(max \div 2)
  BY OverlapHalf
<1>10. ov \in Nat
  BY <1>9
<1>11. Survives(chs, texts, N)
  BY <1>1, <1>4, <1>8, PagesSurvive
<1>12. Bounded(chs, max, ov, room)
  BY <1>1, <1>2, <1>4, <1>7, <1>8, <1>10, PagesBounded
<1> QED
  BY <1>9, <1>11, <1>12

-----------------------------------------------------------------------------
(* Words a page break or a column cut in two are joined again: the letters *)
(* stay, and the words get fewer.  W is closed under joining.              *)
JoinsIn(W) ==
  \A l, w \in W : <<l, w>> \in DOMAIN Joined =>
    Joined[<<l, w>>] \in W /\ Joined[<<l, w>>].chars = l.chars + w.chars
RepairState(W) == {acc \in [out : Seq(W), open : BOOLEAN] : acc.open => acc.out # <<>>}
Repairs(new, acc, w) ==
  /\ new.out # <<>> /\ Len(new.out) <= Len(acc.out) + 1
  /\ Sum(Letters(new.out)) = Sum(Letters(acc.out)) + w.chars

(* A list that is not empty: all but the last element, and the last.       *)
LEMMA FrontLast ==
  ASSUME NEW W, NEW s \in Seq(W), s # <<>>
  PROVE  /\ Front(s) \in Seq(W) /\ Last(s) \in W /\ s = Append(Front(s), Last(s))
         /\ Len(Front(s)) = Len(s) - 1 /\ Len(s) \in Nat \ {0}
<1>1. PICK n \in Nat \ {0} : n = Len(s) /\ DOMAIN s = 1..n
  BY EmptySeq, LenProperties
<1>2. Front(s) = SubSeq(s, 1, n - 1) /\ Last(s) = s[n]
  BY <1>1 DEF Front, Last
<1>3. n - 1 \in 0..Len(s) /\ n \in 1..n
  BY <1>1
<1>4. Last(s) \in W
  BY <1>1, <1>2, ElementOfSeq
<1>5. PICK f : f = SubSeq(s, 1, n - 1)
  OBVIOUS
<1>6. f \in Seq(W) /\ Len(f) = n - 1 /\ \A i \in 1..n - 1 : f[i] = s[i]
  <2>1. ASSUME NEW i \in 1..n - 1 PROVE s[i] \in W
    BY <1>1, ElementOfSeq
  <2>2. f = [i \in 1..n - 1 |-> s[i]]
    BY <1>1, <1>5
  <2> QED
    BY <1>1, <2>1, <2>2
<1>7. s = Append(f, s[n])
  <2>1. s = [i \in 1..n |-> s[i]]
    BY <1>1
  <2>2. Append(f, s[n]) = [i \in 1..n |-> IF i = n THEN s[n] ELSE f[i]]
    BY <1>1, <1>6
  <2>3. \A i \in 1..n : s[i] = IF i = n THEN s[n] ELSE f[i]
    BY <1>6
  <2> QED
    BY <2>1, <2>2, <2>3
<1> QED
  BY <1>1, <1>2, <1>4, <1>5, <1>6, <1>7

(* One turn of _repair_words writes the letters of the word it reads.      *)
LEMMA RepairStepKeeps ==
  ASSUME NEW W, AreWords(W), JoinsIn(W), NEW acc \in RepairState(W), NEW w \in W, NEW texts,
         NEW new, new = RepairStep(acc, w, texts)
  PROVE  new \in RepairState(W) /\ Repairs(new, acc, w)
<1>1. acc.out \in Seq(W) /\ acc.open \in BOOLEAN /\ (acc.open => acc.out # <<>>)
  BY DEF RepairState
<1>2. PICK out \in Seq(W) : out = acc.out
  BY <1>1
<1>3. ASSUME NEW vs \in Seq(W), NEW x \in W, NEW ns, ns = Append(vs, x)
      PROVE  /\ ns \in Seq(W) /\ ns # <<>> /\ Len(ns) = Len(vs) + 1 /\ Len(vs) \in Nat
             /\ Sum(Letters(ns)) = Sum(Letters(vs)) + x.chars
  <2>1. ns \in Seq(W) /\ Len(ns) = Len(vs) + 1 /\ Grows(ns, vs, x)
    BY <1>3, OneWordMore
  <2>2. Len(vs) \in Nat
    BY LenProperties
  <2>3. ns # <<>>
    BY <2>1, <2>2, EmptySeq
  <2> QED
    BY <2>1, <2>2, <2>3 DEF Grows
<1>4. CASE acc.open /\ should_join(Last(acc.out), w, texts)
  <2>1. out # <<>>
    BY <1>1, <1>2, <1>4
  <2>2. PICK l \in W : l = Last(out)
    BY <2>1, FrontLast
  <2>3. PICK fs \in Seq(W) : fs = Front(out) /\ out = Append(fs, l)
    BY <2>1, <2>2, FrontLast
  <2>4. <<l, w>> \in DOMAIN Joined
    BY <1>2, <1>4, <2>2 DEF should_join
  <2>5. PICK j \in W : j = Joined[<<l, w>>] /\ j.chars = l.chars + w.chars
    BY <2>4 DEF JoinsIn
  <2>6. PICK ns : ns = Append(fs, j)
    OBVIOUS
  <2>7. new = [out |-> ns, open |-> FALSE]
    BY <1>2, <1>4, <2>2, <2>3, <2>5, <2>6 DEF RepairStep
  <2>8. /\ ns \in Seq(W) /\ ns # <<>> /\ Len(ns) = Len(fs) + 1 /\ Len(fs) \in Nat
        /\ Sum(Letters(ns)) = Sum(Letters(fs)) + j.chars
    BY <1>3, <2>6
  <2>9. Len(out) = Len(fs) + 1 /\ Sum(Letters(out)) = Sum(Letters(fs)) + l.chars
    BY <1>3, <2>3
  <2>10. Sum(Letters(ns)) = Sum(Letters(out)) + w.chars
    <3>1. l.chars \in Nat /\ w.chars \in Nat
      BY DEF AreWords
    <3>2. Sum(Letters(fs)) \in Nat
      BY TextSize
    <3> QED
      BY <2>5, <2>8, <2>9, <3>1, <3>2
  <2>11. Len(ns) <= Len(out) + 1
    BY <2>8, <2>9
  <2> QED
    BY <1>2, <2>7, <2>8, <2>10, <2>11 DEF RepairState, Repairs
<1>5. CASE ~(acc.open /\ should_join(Last(acc.out), w, texts))
  <2>1. PICK ns : ns = Append(out, w)
    OBVIOUS
  <2>2. new = [out |-> ns, open |-> TRUE]
    BY <1>2, <1>5, <2>1 DEF RepairStep
  <2>3. /\ ns \in Seq(W) /\ ns # <<>> /\ Len(ns) = Len(out) + 1 /\ Len(out) \in Nat
        /\ Sum(Letters(ns)) = Sum(Letters(out)) + w.chars
    BY <1>3, <2>1
  <2>4. Len(ns) <= Len(out) + 1
    BY <2>3
  <2> QED
    BY <1>2, <2>2, <2>3, <2>4 DEF RepairState, Repairs
<1> QED
  BY <1>4, <1>5

(* repair_words goes through the words one at a time.                      *)
Repaired(g, W, ws, texts) ==
  /\ g[0] = [out |-> <<>>, open |-> FALSE]
  /\ \A i \in 0..Len(ws) : g[i] \in RepairState(W)
  /\ \A i \in 1..Len(ws) : g[i] = RepairStep(g[i - 1], ws[i], texts)

(* The pass over the words runs to its end.                                *)
LEMMA RepairUnfolds ==
  ASSUME NEW W, AreWords(W), JoinsIn(W), NEW ws \in Seq(W), NEW texts
  PROVE  \E g : Repaired(g, W, ws, texts) /\ repair_words(ws, texts) = g[Len(ws)].out
<1> DEFINE V == RepairState(W)
           n == Len(ws)
           first == [out |-> <<>>, open |-> FALSE]
           adds == [i \in 1..n |-> [t \in V |-> RepairStep(t, ws[i], texts)]]
           Eq(f) == f = [i \in 0..n |-> IF i = 0 THEN [out |-> <<>>, open |-> FALSE]
                                        ELSE RepairStep(f[i - 1], ws[i], texts)]
<1>1. n \in Nat /\ \A i \in 1..n : ws[i] \in W
  BY LenProperties, ElementOfSeq
<1>2. first \in V
  BY EmptySeq DEF RepairState
<1>3. ASSUME NEW t \in V, NEW i \in 1..n PROVE RepairStep(t, ws[i], texts) \in V
  <2>1. ws[i] \in W
    BY <1>1
  <2> QED
    BY <2>1, RepairStepKeeps
<1> HIDE DEF V
<1>4. adds \in Steps(V, n)
  BY <1>3 DEF Steps
<1>5. \A t \in V, i \in 1..n : adds[i][t] = RepairStep(t, ws[i], texts)
  OBVIOUS
<1>6. repair_words(ws, texts) = (CHOOSE h : Eq(h))[n].out
  BY Zenon DEF repair_words
<1> HIDE DEF n, adds, first
<1>7. PICK f : Iterates(f, V, first, n, adds)
  BY <1>1, <1>2, <1>4, Recursion, Zenon
<1>8. /\ f \in [0..n -> V] /\ f[0] = first
      /\ \A i \in 1..n : f[i] = adds[i][f[i - 1]]
  BY <1>7 DEF Iterates
<1>9. ASSUME NEW i \in 0..n
      PROVE  f[i] = IF i = 0 THEN [out |-> <<>>, open |-> FALSE] ELSE RepairStep(f[i - 1], ws[i], texts)
  <2>1. CASE i = 0
    BY <1>8, <2>1 DEF first
  <2>2. CASE i # 0
    <3>1. i - 1 \in 0..n /\ i \in 1..n
      BY <1>1, <2>2
    <3> QED
      BY <1>5, <1>8, <2>2, <3>1
  <2> QED
    BY <2>1, <2>2
<1>10. Eq(f)
  BY <1>8, <1>9
<1>11. PICK g : Eq(g) /\ repair_words(ws, texts) = g[n].out
  BY <1>6, <1>10
<1>12. g[0] = first
  BY <1>1, <1>11 DEF first
<1>13. ASSUME NEW i \in 1..n PROVE g[i] = RepairStep(g[i - 1], ws[i], texts)
  <2>1. i \in 0..n /\ i # 0
    BY <1>1
  <2> QED
    BY <1>11, <2>1, Zenon
<1> HIDE DEF Eq
<1>14. ASSUME NEW i \in 0..n PROVE g[i] \in V
  <2> DEFINE T == {j \in 0..n : g[j] \in V}
  <2>1. 0 \in T
    BY <1>1, <1>2, <1>12
  <2>2. ASSUME NEW j \in 1..n, j - 1 \in T PROVE j \in T
    <3>1. g[j] = RepairStep(g[j - 1], ws[j], texts) /\ g[j - 1] \in V /\ j \in 0..n
      BY <1>1, <1>13, <2>2
    <3> QED
      BY <1>3, <3>1
  <2> HIDE DEF T
  <2>3. \A j \in 0..n : j \in T
    BY <1>1, <2>1, <2>2, Induction
  <2> QED
    BY <2>3 DEF T
<1> QED
  BY <1>11, <1>12, <1>13, <1>14 DEF n, V, first, Repaired

(* Repaired words: not one letter more or less.                            *)
LEMMA RepairedWords ==
  ASSUME NEW W, AreWords(W), JoinsIn(W), NEW ws \in Seq(W), ws # <<>>, NEW texts,
         NEW rs, rs = repair_words(ws, texts)
  PROVE  /\ rs \in Seq(W) /\ rs # <<>> /\ Len(rs) <= Len(ws)
         /\ Sum(Letters(rs)) = Sum(Letters(ws))
<1>1. PICK g : Repaired(g, W, ws, texts) /\ repair_words(ws, texts) = g[Len(ws)].out
  BY RepairUnfolds
<1>2. PICK n \in Nat \ {0} : n = Len(ws)
  BY EmptySeq, LenProperties
<1>3. PICK ls \in Seq(Int) : ls = Letters(ws) /\ Len(ls) = n
  BY <1>2, TextSize
<1>4. PICK t : t = Totals(ls) /\ Adds(t, n, ls)
  BY <1>3, TotalsUnfold
<1>5. t[0] = 0 /\ \A i \in 1..n : t[i] = t[i - 1] + ls[i]
  BY <1>4 DEF Adds
<1>6. /\ g[0] = [out |-> <<>>, open |-> FALSE]
      /\ \A i \in 0..n : g[i] \in RepairState(W)
      /\ \A i \in 1..n : g[i] = RepairStep(g[i - 1], ws[i], texts)
  BY <1>1, <1>2 DEF Repaired
<1>7. ASSUME NEW i \in 1..n
      PROVE  /\ g[i].out # <<>> /\ Len(g[i].out) <= Len(g[i - 1].out) + 1
             /\ Sum(Letters(g[i].out)) = Sum(Letters(g[i - 1].out)) + ls[i]
  <2>1. i - 1 \in 0..n
    OBVIOUS
  <2>2. PICK acc \in RepairState(W) : acc = g[i - 1]
    BY <1>6, <2>1
  <2>3. PICK w \in W : w = ws[i]
    BY <1>2, ElementOfSeq
  <2>4. PICK new : new = g[i]
    OBVIOUS
  <2>5. new = RepairStep(acc, w, texts)
    BY <1>6, <2>2, <2>3, <2>4
  <2>6. Repairs(new, acc, w)
    BY <2>5, RepairStepKeeps
  <2>7. ls[i] = w.chars
    BY <1>2, <1>3, <2>3, LenProperties DEF Letters
  <2> QED
    BY <2>2, <2>4, <2>6, <2>7 DEF Repairs
<1> DEFINE T == {i \in 0..n : Len(g[i].out) <= i /\ Sum(Letters(g[i].out)) = t[i]}
<1>8. 0 \in T
  <2>1. g[0].out = <<>>
    BY <1>6
  <2>2. Letters(<<>>) = <<>>
    BY DEF Letters
  <2>3. Sum(<<>>) = 0 /\ Len(<<>>) = 0
    BY SumSmall
  <2>4. Len(g[0].out) <= 0 /\ Sum(Letters(g[0].out)) = 0
    BY <2>1, <2>2, <2>3
  <2> QED
    BY <1>5, <2>4
<1>9. ASSUME NEW i \in 1..n, i - 1 \in T PROVE i \in T
  <2>1. /\ i - 1 \in 0..n /\ i \in 0..n
        /\ Len(g[i - 1].out) <= i - 1 /\ Sum(Letters(g[i - 1].out)) = t[i - 1]
    BY <1>9
  <2>2. Len(g[i].out) \in Nat /\ Len(g[i - 1].out) \in Nat
    <3>1. g[i].out \in Seq(W) /\ g[i - 1].out \in Seq(W)
      BY <1>6, <2>1 DEF RepairState
    <3> QED
      BY <3>1, LenProperties
  <2>3. Len(g[i].out) <= i
    BY <1>7, <2>1, <2>2
  <2>4. Sum(Letters(g[i].out)) = t[i]
    BY <1>5, <1>7, <2>1
  <2> QED
    BY <2>1, <2>3, <2>4
<1> HIDE DEF T
<1>10. \A i \in 0..n : i \in T
  BY <1>8, <1>9, Induction
<1>11. Len(g[n].out) <= n /\ Sum(Letters(g[n].out)) = t[n]
  BY <1>10 DEF T
<1>12. g[n].out \in Seq(W)
  BY <1>6 DEF RepairState
<1>13. g[n].out # <<>>
  BY <1>7
<1>14. Sum(Letters(ws)) = t[n]
  BY <1>3, <1>4 DEF Sum
<1>15. rs = g[n].out
  BY <1>1, <1>2
<1> QED
  BY <1>2, <1>11, <1>12, <1>13, <1>14, <1>15

(* A sentence as it is read: the letters of the printed one, in no more    *)
(* words.                                                                  *)
JoinsFit(max) ==
  \A pair \in DOMAIN Joined : /\ Joined[pair].chars = pair[1].chars + pair[2].chars
                              /\ Joined[pair].chars + 2 * MIN_CHUNK_ALNUM <= max
Renders(v, u, max) ==
  /\ v.id = u.id /\ Legible(v, max) /\ Len(v.words) <= Len(u.words)
  /\ alnum_count(<<v>>) = alnum_count(<<u>>)

(* A sentence after the repair of its words says what it said.             *)
LEMMA RepairRenders ==
  ASSUME NEW max \in Nat \ {0}, JoinsFit(max), NEW u, Legible(u, max), NEW texts,
         NEW v, v = Rewritten(u, u.part, u.kind, repair_words(u.words, texts))
  PROVE  Renders(v, u, max)
<1>1. PICK ws : ws = u.words
  OBVIOUS
<1>2. /\ u.part = 1 /\ ws \in Seq(Range(ws)) /\ ws # <<>>
      /\ \A j \in DOMAIN ws : /\ ws[j].chars \in Nat \ {0}
                              /\ Chars(u) > max => ws[j].chars + 2 * MIN_CHUNK_ALNUM <= max
  BY <1>1 DEF Legible, IsList
<1> DEFINE W == {w \in Range(ws) \cup {Joined[pair] : pair \in DOMAIN Joined} :
                   /\ w.chars \in Nat \ {0}
                   /\ w \in Range(ws) \/ w.chars + 2 * MIN_CHUNK_ALNUM <= max}
<1>3. AreWords(W)
  BY DEF AreWords
<1>4. Range(ws) \subseteq W
  BY <1>2 DEF Range
<1>5. JoinsIn(W)
  <2>1. SUFFICES ASSUME NEW l \in W, NEW w \in W, <<l, w>> \in DOMAIN Joined
                 PROVE  Joined[<<l, w>>] \in W /\ Joined[<<l, w>>].chars = l.chars + w.chars
    BY DEF JoinsIn
  <2>2. PICK j : j = Joined[<<l, w>>]
    OBVIOUS
  <2>3. j.chars = l.chars + w.chars /\ j.chars + 2 * MIN_CHUNK_ALNUM <= max
    BY <2>1, <2>2 DEF JoinsFit
  <2>4. j.chars \in Nat \ {0}
    BY <2>3
  <2>5. j \in {Joined[pair] : pair \in DOMAIN Joined}
    BY <2>1, <2>2
  <2> QED
    BY <2>2, <2>3, <2>4, <2>5
<1>6. \A w \in W : w \in Range(ws) \/ w.chars + 2 * MIN_CHUNK_ALNUM <= max
  OBVIOUS
<1>7. \A w \in W : w.chars \in Nat \ {0}
  OBVIOUS
<1> HIDE DEF W
<1>8. ws \in Seq(W)
  BY <1>2, <1>4, SeqMonotonic
<1>9. PICK rs : rs = repair_words(ws, texts)
  OBVIOUS
<1>10. /\ rs \in Seq(W) /\ rs # <<>> /\ Len(rs) <= Len(ws)
       /\ Sum(Letters(rs)) = Sum(Letters(ws))
  BY <1>2, <1>3, <1>5, <1>8, <1>9, RepairedWords
<1>11. v.id = u.id /\ v.part = u.part /\ v.words = rs
  BY <1>1, <1>9 DEF Rewritten
<1>12. /\ Chars(u) = Sum(Letters(ws)) + Len(ws) - 1
       /\ Chars(v) = Sum(Letters(rs)) + Len(rs) - 1
       /\ Sum(Letters(ws)) \in Nat
  <2>1. Spaced(ws) = Sum(Letters(ws)) + Len(ws) - 1 /\ Sum(Letters(ws)) \in Nat
    BY <1>3, <1>8, TextSize
  <2>2. Spaced(rs) = Sum(Letters(rs)) + Len(rs) - 1
    BY <1>3, <1>10, TextSize
  <2>3. Chars(u) = Spaced(ws) /\ Chars(v) = Spaced(rs)
    BY <1>1, <1>11 DEF Chars
  <2> QED
    BY <2>1, <2>2, <2>3
<1>13. Chars(v) > max => Chars(u) > max
  <2>1. Len(ws) \in Nat /\ Len(rs) \in Nat
    BY <1>8, <1>10, LenProperties
  <2>2. PICK x \in Nat : x = Sum(Letters(ws))
    BY <1>12
  <2>3. Chars(u) = x + Len(ws) - 1 /\ Chars(v) = x + Len(rs) - 1
    BY <1>10, <1>12, <2>2
  <2> QED
    BY <1>10, <2>1, <2>3
<1>14. Legible(v, max)
  <2>1. ASSUME NEW j \in DOMAIN rs
        PROVE  /\ rs[j].chars \in Nat \ {0}
               /\ Chars(v) > max => rs[j].chars + 2 * MIN_CHUNK_ALNUM <= max
    <3>1. rs[j] \in W
      BY <1>10, LenProperties, ElementOfSeq
    <3>2. CASE rs[j] \in Range(ws)
      <4>1. PICK i \in DOMAIN ws : rs[j] = ws[i]
        BY <3>2 DEF Range
      <4> QED
        BY <1>2, <1>13, <4>1
    <3>3. CASE rs[j].chars + 2 * MIN_CHUNK_ALNUM <= max
      BY <1>7, <3>1, <3>3
    <3> QED
      BY <1>6, <3>1, <3>2, <3>3
  <2>2. rs \in Seq(Range(rs))
    <3>1. DOMAIN rs = 1..Len(rs) /\ Len(rs) \in Nat /\ rs = [i \in 1..Len(rs) |-> rs[i]]
      BY <1>10, LenProperties
    <3>2. rs \in [1..Len(rs) -> Range(rs)]
      BY <3>1 DEF Range
    <3> QED
      BY <3>1, <3>2, SeqOfRange
  <2>3. v.part = 1 /\ v.words = rs
    BY <1>2, <1>11
  <2> QED
    BY <1>10, <2>1, <2>2, <2>3 DEF Legible, IsList
<1>15. alnum_count(<<v>>) = alnum_count(<<u>>)
  <2>1. alnum_count(<<v>>) = Sum(Letters(v.words))
    BY <1>3, <1>10, <1>11, OneCount
  <2>2. alnum_count(<<u>>) = Sum(Letters(u.words))
    BY <1>1, <1>3, <1>8, OneCount
  <2> QED
    BY <1>1, <1>10, <1>11, <2>1, <2>2
<1> QED
  BY <1>1, <1>10, <1>11, <1>14, <1>15 DEF Renders

(* The text of a page: the sentences of its lines, in their order, all but *)
(* those that are gone.                                                    *)
ReadFrom(text, lines, gone, max) ==
  /\ text \in Seq(Range(text))
  /\ \E e : /\ e \in [1..Len(text) -> 1..Len(lines)]
            /\ \A i, j \in 1..Len(text) : e[i] = e[j] => i = j
            /\ \A j \in 1..Len(text) : Renders(text[j], lines[e[j]].unit, max)
            /\ \A i \in 1..Len(lines) : i \in gone \/ \E j \in 1..Len(text) : e[j] = i
LinesLegible(lines, max) == IsList(lines) /\ \A i \in DOMAIN lines : Legible(lines[i].unit, max)

(* A sentence says what it says.                                           *)
LEMMA RendersItself ==
  ASSUME NEW max, NEW u, Legible(u, max)
  PROVE  Renders(u, u, max)
<1>1. Len(u.words) \in Nat
  BY LenProperties DEF Legible, IsList
<1> QED
  BY <1>1 DEF Renders

(* A page that is read from some of its lines.                             *)
LEMMA ReadSelected ==
  ASSUME NEW max, NEW lines, LinesLegible(lines, max), NEW places, NEW text,
         text = join_lines(SelectAt(lines, places))
  PROVE  ReadFrom(text, lines, {i \in DOMAIN lines : i \notin places}, max)
<1>1. PICK C : C = Range(lines)
  OBVIOUS
<1>2. lines \in Seq(C) /\ \A i \in 1..Len(lines) : Legible(lines[i].unit, max)
  BY <1>1, LenProperties DEF LinesLegible, IsList
<1>3. PICK n \in Nat : n = Len(lines) /\ DOMAIN lines = 1..n
  BY <1>2, LenProperties
<1>4. PICK s \in Seq(C) : s = SelectAt(lines, places)
  BY <1>2, SelectAtPicks
<1>5. PICK m \in Nat : m = Len(s) /\ DOMAIN s = 1..m
  BY LenProperties
<1>6. PICK e : Selects(e, m, n, places) /\ \A j \in 1..m : s[j] = lines[e[j]]
  BY <1>2, <1>3, <1>4, <1>5, SelectAtPicks
<1>7. /\ e \in [1..m -> 1..n]
      /\ \A i, j \in 1..m : i < j => e[i] < e[j]
      /\ \A i \in 1..n : i \in places <=> \E j \in 1..m : e[j] = i
  BY <1>6 DEF Selects
<1>8. PICK t : t = text
  OBVIOUS
<1>9. t = [i \in 1..m |-> s[i].unit]
  BY <1>4, <1>5, <1>8 DEF join_lines
<1>10. t \in Seq(Range(t)) /\ Len(t) = m
  <2>1. DOMAIN t = 1..m
    BY <1>9
  <2>2. t \in [1..m -> Range(t)]
    BY <1>9, <2>1 DEF Range
  <2> QED
    BY <2>2
<1>11. ASSUME NEW j \in 1..m PROVE Renders(t[j], lines[e[j]].unit, max)
  <2>1. t[j] = lines[e[j]].unit /\ e[j] \in 1..n
    BY <1>6, <1>7, <1>9
  <2>2. Legible(lines[e[j]].unit, max)
    BY <1>2, <1>3, <2>1
  <2> QED
    BY <2>1, <2>2, RendersItself
<1>12. \A i, j \in 1..m : e[i] = e[j] => i = j
  <2>1. SUFFICES ASSUME NEW i \in 1..m, NEW j \in 1..m, e[i] = e[j], i # j PROVE FALSE
    OBVIOUS
  <2>2. i < j \/ j < i
    BY <2>1
  <2>3. e[i] \in Int /\ e[j] \in Int
    BY <1>7
  <2> QED
    BY <1>7, <2>1, <2>2, <2>3
<1>13. \A i \in 1..n : i \in {k \in DOMAIN lines : k \notin places} \/ \E j \in 1..m : e[j] = i
  BY <1>3, <1>7
<1>14. ReadFrom(t, lines, {i \in DOMAIN lines : i \notin places}, max)
  <2>1. e \in [1..Len(t) -> 1..Len(lines)]
    BY <1>3, <1>7, <1>10
  <2>2. \A i, j \in 1..Len(t) : e[i] = e[j] => i = j
    BY <1>10, <1>12
  <2>3. \A j \in 1..Len(t) : Renders(t[j], lines[e[j]].unit, max)
    BY <1>10, <1>11
  <2>4. \A i \in 1..Len(lines) : i \in {k \in DOMAIN lines : k \notin places} \/ \E j \in 1..Len(t) : e[j] = i
    BY <1>3, <1>10, <1>13
  <2> QED
    BY <1>10, <2>1, <2>2, <2>3, <2>4 DEF ReadFrom
<1> QED
  BY <1>8, <1>14

(* A page that is read from all of its lines.                              *)
LEMMA ReadWhole ==
  ASSUME NEW max, NEW lines, LinesLegible(lines, max), NEW text, text = join_lines(lines)
  PROVE  ReadFrom(text, lines, {}, max)
<1>1. lines \in Seq(Range(lines)) /\ \A i \in 1..Len(lines) : Legible(lines[i].unit, max)
  BY LenProperties DEF LinesLegible, IsList
<1>2. PICK n \in Nat : n = Len(lines) /\ DOMAIN lines = 1..n
  BY <1>1, LenProperties
<1>3. PICK t : t = text
  OBVIOUS
<1>4. t = [i \in 1..n |-> lines[i].unit]
  BY <1>2, <1>3 DEF join_lines
<1>5. t \in Seq(Range(t)) /\ Len(t) = n
  <2>1. DOMAIN t = 1..n
    BY <1>4
  <2>2. t \in [1..n -> Range(t)]
    BY <1>4, <2>1 DEF Range
  <2> QED
    BY <2>2
<1>6. PICK e : e = [i \in 1..n |-> i]
  OBVIOUS
<1>7. \A i \in 1..n : e[i] = i
  BY <1>6
<1>8. \A j \in 1..n : Renders(t[j], lines[e[j]].unit, max)
  BY <1>1, <1>2, <1>4, <1>7, RendersItself
<1>9. e \in [1..n -> 1..n] /\ \A i \in 1..n : i \in {} \/ \E j \in 1..n : e[j] = i
  BY <1>6
<1> QED
  BY <1>2, <1>3, <1>5, <1>7, <1>8, <1>9 DEF ReadFrom

(* Split words are repaired within their sentences.                        *)
LEMMA ReadRepaired ==
  ASSUME NEW max \in Nat \ {0}, JoinsFit(max), NEW text, NEW lines, NEW gone,
         ReadFrom(text, lines, gone, max), NEW texts, NEW new, new = repair_split_words(text, texts)
  PROVE  ReadFrom(new, lines, gone, max)
<1>1. text \in Seq(Range(text))
  BY DEF ReadFrom
<1>2. PICK n \in Nat : n = Len(text) /\ DOMAIN text = 1..n
  BY <1>1, LenProperties
<1>3. PICK e : /\ e \in [1..n -> 1..Len(lines)]
               /\ \A i, j \in 1..n : e[i] = e[j] => i = j
               /\ \A j \in 1..n : Renders(text[j], lines[e[j]].unit, max)
               /\ \A i \in 1..Len(lines) : i \in gone \/ \E j \in 1..n : e[j] = i
  BY <1>2 DEF ReadFrom
<1>4. PICK t : t = new
  OBVIOUS
<1>5. t = [i \in 1..n |-> Rewritten(text[i], text[i].part, text[i].kind, repair_words(text[i].words, texts))]
  BY <1>2, <1>4 DEF repair_split_words
<1>6. t \in Seq(Range(t)) /\ Len(t) = n
  <2>1. DOMAIN t = 1..n
    BY <1>5
  <2>2. t \in [1..n -> Range(t)]
    BY <1>5, <2>1 DEF Range
  <2> QED
    BY <2>2
<1>7. ASSUME NEW j \in 1..n PROVE Renders(t[j], lines[e[j]].unit, max)
  <2>1. PICK u : u = text[j]
    OBVIOUS
  <2>2. PICK line : line = lines[e[j]].unit
    OBVIOUS
  <2>3. Renders(u, line, max)
    BY <1>3, <2>1, <2>2
  <2>4. Legible(u, max)
    BY <2>3 DEF Renders
  <2>5. PICK v : v = t[j]
    OBVIOUS
  <2>6. v = Rewritten(u, u.part, u.kind, repair_words(u.words, texts))
    BY <1>5, <2>1, <2>5
  <2>7. Renders(v, u, max)
    BY <2>4, <2>6, RepairRenders
  <2>8. Len(v.words) <= Len(line.words)
    <3>1. /\ Len(v.words) <= Len(u.words) /\ Len(u.words) <= Len(line.words)
          /\ v.words \in Seq(Range(v.words)) /\ u.words \in Seq(Range(u.words))
      BY <2>3, <2>7 DEF Renders, Legible, IsList
    <3>2. Len(v.words) \in Nat /\ Len(u.words) \in Nat
      BY <3>1, LenProperties
    <3> QED
      BY <3>1, <3>2
  <2> QED
    BY <2>2, <2>3, <2>5, <2>7, <2>8 DEF Renders
<1>8. ReadFrom(t, lines, gone, max)
  <2>1. e \in [1..Len(t) -> 1..Len(lines)]
    BY <1>3, <1>6
  <2>2. \A i, j \in 1..Len(t) : e[i] = e[j] => i = j
    BY <1>3, <1>6
  <2>3. \A j \in 1..Len(t) : Renders(t[j], lines[e[j]].unit, max)
    BY <1>6, <1>7
  <2>4. \A i \in 1..Len(lines) : i \in gone \/ \E j \in 1..Len(t) : e[j] = i
    BY <1>3, <1>6
  <2> QED
    BY <1>6, <2>1, <2>2, <2>3, <2>4 DEF ReadFrom
<1> QED
  BY <1>4, <1>8

(* The lines that are taken from the pages are page furniture.             *)
EdgeRepeats(raw, p) ==
  {i \in DOMAIN raw[p] : AtEdge(raw[p], i) /\ raw[p][i].key \in repeated_edges(raw)}
Holders(raw, k) == {q \in DOMAIN raw : \E j \in DOMAIN raw[q] : NearEdge(raw[q], j) /\ raw[q][j].key = k}

(* The first and last three lines are within a third of the page from its  *)
(* ends.                                                                   *)
LEMMA EdgesAreNear ==
  ASSUME NEW C, NEW lines \in Seq(C), NEW i \in DOMAIN lines, AtEdge(lines, i)
  PROVE  NearEdge(lines, i)
<1>1. PICK n \in Nat : n = Len(lines) /\ i \in 1..n
  BY LenProperties
<1>2. PICK w \in Int : w = edge_width(lines) /\ w <= n \div 3
  <2>1. PICK S : S = {Edge, n \div 3}
    OBVIOUS
  <2>2. n \div 3 \in Int /\ Edge \in Int
    BY DEF Edge
  <2>3. \E x \in S : \A y \in S : x <= y
    BY <2>1, <2>2
  <2>4. Min(S) \in S /\ \A y \in S : Min(S) <= y
    BY <2>3, Zenon DEF Min
  <2>5. edge_width(lines) = Min(S)
    BY <1>1, <2>1 DEF edge_width
  <2> QED
    BY <2>1, <2>2, <2>4, <2>5
<1>3. 3 * (n \div 3) <= n /\ n \div 3 \in Int
  BY Z3
<1>4. 3 * w <= n
  BY <1>3, <1>2
<1>5. i <= w \/ i > n - w
  BY <1>1, <1>2 DEF AtEdge
<1>6. 3 * i <= n \/ 3 * (n - i + 1) <= n
  <2>1. CASE i <= w
    BY <1>1, <1>4, <2>1
  <2>2. CASE i > n - w
    <3>1. n - i + 1 <= w
      BY <1>1, <2>2
    <3> QED
      BY <1>1, <1>4, <3>1
  <2> QED
    BY <1>5, <2>1, <2>2
<1> QED
  BY <1>1, <1>6 DEF NearEdge

(* A line that strip_repeated_edges removes is furniture: near an end of   *)
(* its page, like its equals on three pages.                               *)
LEMMA EdgesFurnish ==
  ASSUME NEW raw, IsList(raw), \A p \in DOMAIN raw : IsList(raw[p]),
         NEW p \in DOMAIN raw, NEW i \in EdgeRepeats(raw, p)
  PROVE  NearEdge(raw[p], i) /\ Cardinality(Holders(raw, raw[p][i].key)) >= 3
<1>1. PICK k : k = raw[p][i].key
  OBVIOUS
<1>2. i \in DOMAIN raw[p] /\ AtEdge(raw[p], i) /\ k \in repeated_edges(raw)
  BY <1>1 DEF EdgeRepeats
<1>3. \A q \in DOMAIN raw : \A j \in DOMAIN raw[q] : AtEdge(raw[q], j) => NearEdge(raw[q], j)
  BY EdgesAreNear DEF IsList
<1>4. PICK S : S = {q \in DOMAIN raw : k \in {raw[q][j].key : j \in {l \in DOMAIN raw[q] : AtEdge(raw[q], l)}}}
  OBVIOUS
<1>5. Cardinality(S) >= 3
  BY <1>2, <1>4 DEF repeated_edges
<1>6. PICK H : H = Holders(raw, k)
  OBVIOUS
<1>7. S \subseteq H
  BY <1>3, <1>4, <1>6 DEF Holders
<1>8. IsFiniteSet(H)
  <2>1. DOMAIN raw = 1..Len(raw) /\ Len(raw) \in Nat
    BY LenProperties DEF IsList
  <2>2. IsFiniteSet(DOMAIN raw)
    BY <2>1, FS_Interval
  <2>3. H \subseteq DOMAIN raw
    BY <1>6 DEF Holders
  <2> QED
    BY <2>2, <2>3, FS_Subset
<1>9. Cardinality(S) <= Cardinality(H) /\ Cardinality(S) \in Nat /\ Cardinality(H) \in Nat
  BY <1>7, <1>8, FS_Subset, FS_CardinalityType
<1>10. Cardinality(H) >= 3
  BY <1>5, <1>9
<1> QED
  BY <1>1, <1>2, <1>3, <1>6, <1>10

(* What extract_pages makes of a page, from its text layer or its scan.    *)
LEMMA PagesRead ==
  ASSUME NEW raw, NEW ocr, NEW repair \in BOOLEAN, NEW max \in Nat \ {0}, repair => JoinsFit(max),
         \A p \in DOMAIN raw : LinesLegible(raw[p], max),
         \A p \in DOMAIN ocr : LinesLegible(ocr[p], max),
         NEW pp, pp = extract_pages(raw, ocr, repair)
  PROVE  /\ DOMAIN pp = DOMAIN raw
         /\ \A p \in DOMAIN raw :
              /\ pp[p].ocr => p \in DOMAIN ocr
              /\ pp[p].ocr => ReadFrom(pp[p].text, ocr[p], {}, max)
              /\ ~pp[p].ocr => ReadFrom(pp[p].text, raw[p], EdgeRepeats(raw, p), max)
<1> DEFINE cleaned == strip_repeated_edges(raw)
           headers == running_headers(raw)
           usable(p) == p \in DOMAIN ocr /\ alnum_count(join_lines(ocr[p])) >= MIN_PAGE_ALNUM
           texts == [p \in DOMAIN raw |-> join_lines(IF usable(p) THEN ocr[p] ELSE cleaned[p])]
<1>1. PICK ts : ts = texts
  OBVIOUS
<1>2. PICK pg : pg = pp
  OBVIOUS
<1>3. pg = [p \in DOMAIN raw |->
              [number |-> p, label |-> find_page_label(raw[p]), header |-> headers[p],
               ocr |-> usable(p),
               text |-> IF repair THEN repair_split_words(ts[p], ts) ELSE ts[p]]]
  BY <1>1, <1>2 DEF extract_pages
<1>4. \A p \in DOMAIN raw : ts[p] = join_lines(IF usable(p) THEN ocr[p] ELSE cleaned[p])
  BY <1>1
<1>5. \A p \in DOMAIN raw : /\ pg[p].ocr = usable(p)
                            /\ pg[p].text = IF repair THEN repair_split_words(ts[p], ts) ELSE ts[p]
  BY <1>3
<1>6. DOMAIN pg = DOMAIN raw
  BY <1>3
<1>7. \A p \in DOMAIN raw : usable(p) => p \in DOMAIN ocr
  OBVIOUS
<1>8. \A p \in DOMAIN raw :
        cleaned[p] = SelectAt(raw[p], {i \in DOMAIN raw[p] :
                                ~(AtEdge(raw[p], i) /\ raw[p][i].key \in repeated_edges(raw))})
  BY DEF strip_repeated_edges
<1> HIDE DEF cleaned, headers, usable, texts
<1>9. ASSUME NEW p \in DOMAIN raw, NEW lines, NEW gone, ReadFrom(ts[p], lines, gone, max)
      PROVE  ReadFrom(pg[p].text, lines, gone, max)
  <2>1. CASE repair
    <3>1. PICK text : text = ts[p]
      OBVIOUS
    <3>2. PICK new : new = repair_split_words(text, ts)
      OBVIOUS
    <3>3. ReadFrom(new, lines, gone, max)
      BY <1>9, <2>1, <3>1, <3>2, ReadRepaired
    <3>4. pg[p].text = new
      BY <1>5, <2>1, <3>1, <3>2
    <3> QED
      BY <3>3, <3>4
  <2>2. CASE ~repair
    BY <1>5, <1>9, <2>2
  <2> QED
    BY <2>1, <2>2
<1>10. ASSUME NEW p \in DOMAIN raw, usable(p) PROVE ReadFrom(pg[p].text, ocr[p], {}, max)
  <2>1. ts[p] = join_lines(ocr[p])
    BY <1>4, <1>10
  <2>2. LinesLegible(ocr[p], max)
    BY <1>7, <1>10
  <2>3. ReadFrom(ts[p], ocr[p], {}, max)
    BY <2>1, <2>2, ReadWhole
  <2> QED
    BY <1>9, <2>3
<1>11. ASSUME NEW p \in DOMAIN raw, ~usable(p) PROVE ReadFrom(pg[p].text, raw[p], EdgeRepeats(raw, p), max)
  <2>1. PICK places : places = {i \in DOMAIN raw[p] :
                                  ~(AtEdge(raw[p], i) /\ raw[p][i].key \in repeated_edges(raw))}
    OBVIOUS
  <2>2. ts[p] = join_lines(SelectAt(raw[p], places))
    BY <1>4, <1>8, <1>11, <2>1
  <2>3. ReadFrom(ts[p], raw[p], {i \in DOMAIN raw[p] : i \notin places}, max)
    BY <2>2, ReadSelected
  <2>4. {i \in DOMAIN raw[p] : i \notin places} = EdgeRepeats(raw, p)
    BY <2>1 DEF EdgeRepeats
  <2> QED
    BY <1>9, <2>3, <2>4
<1> QED
  BY <1>2, <1>5, <1>6, <1>7, <1>10, <1>11

-----------------------------------------------------------------------------
(* What the settings and the pages of an upload are.                       *)
LEMMA UploadIs ==
  ASSUME NEW u \in Uploads
  PROVE  /\ u.max \in Nat \ {0} /\ u.overlap \in Int
         /\ u.repair \in BOOLEAN /\ u.paragraphs \in BOOLEAN
         /\ IsList(u.raw) /\ DOMAIN u.scan \subseteq DOMAIN u.raw
         /\ \A p \in DOMAIN u.raw : LinesLegible(u.raw[p], u.max)
         /\ \A p \in DOMAIN u.scan : LinesLegible(u.scan[p], u.max)
         /\ u.repair => JoinsFit(u.max)
<1>1. /\ u.max \in Nat \ {0} /\ u.overlap \in Int
      /\ u.repair \in BOOLEAN /\ u.paragraphs \in BOOLEAN
      /\ IsList(u.raw) /\ DOMAIN u.scan \subseteq DOMAIN u.raw
  BY ManualAssumption
<1>2. \A p \in DOMAIN u.raw : \A s \in Sheets(u, p) : LinesLegible(s, u.max)
  BY ManualAssumption DEF LinesLegible
<1>3. u.repair => JoinsFit(u.max)
  BY ManualAssumption DEF JoinsFit
<1>4. \A p \in DOMAIN u.raw : u.raw[p] \in Sheets(u, p)
  BY DEF Sheets
<1>5. \A p \in DOMAIN u.scan : u.scan[p] \in Sheets(u, p)
  BY DEF Sheets
<1> QED
  BY <1>1, <1>2, <1>3, <1>4, <1>5

(* The sheet a page was read from, and the furniture that was taken off.   *)
SheetOf(u, pp, p) == IF pp[p].ocr THEN u.scan[p] ELSE u.raw[p]
GoneFrom(u, pp, p) == IF pp[p].ocr THEN {} ELSE EdgeRepeats(u.raw, p)
Extracted(u, pp) ==
  /\ DOMAIN pp = DOMAIN u.raw
  /\ \A p \in DOMAIN u.raw :
       /\ SheetOf(u, pp, p) \in Sheets(u, p)
       /\ ReadFrom(pp[p].text, SheetOf(u, pp, p), GoneFrom(u, pp, p), u.max)

(* extract_pages reads every page from its text layer or from its scan.    *)
LEMMA ExtractRuns ==
  ASSUME NEW u \in Uploads, NEW seen \in SUBSET DOMAIN u.scan, NEW ocr, ocr = [p \in seen |-> u.scan[p]]
  PROVE  Extracted(u, extract_pages(u.raw, ocr, u.repair))
<1>1. PICK raw, max, repair : raw = u.raw /\ max = u.max /\ repair = u.repair
  OBVIOUS
<1>2. /\ max \in Nat \ {0} /\ repair \in BOOLEAN /\ DOMAIN u.scan \subseteq DOMAIN raw
      /\ \A p \in DOMAIN raw : LinesLegible(raw[p], max)
      /\ \A p \in DOMAIN u.scan : LinesLegible(u.scan[p], max)
      /\ repair => JoinsFit(max)
  BY <1>1, UploadIs
<1>3. PICK o : o = ocr
  OBVIOUS
<1>4. DOMAIN o = seen /\ \A p \in seen : o[p] = u.scan[p]
  BY <1>3
<1>5. \A p \in DOMAIN o : LinesLegible(o[p], max)
  BY <1>2, <1>4
<1>6. PICK pp : pp = extract_pages(raw, o, repair)
  OBVIOUS
<1>7. /\ DOMAIN pp = DOMAIN raw
      /\ \A p \in DOMAIN raw :
           /\ pp[p].ocr => p \in DOMAIN o
           /\ pp[p].ocr => ReadFrom(pp[p].text, o[p], {}, max)
           /\ ~pp[p].ocr => ReadFrom(pp[p].text, raw[p], EdgeRepeats(raw, p), max)
  BY <1>2, <1>5, <1>6, PagesRead
<1>8. ASSUME NEW p \in DOMAIN raw
      PROVE  /\ SheetOf(u, pp, p) \in Sheets(u, p)
             /\ ReadFrom(pp[p].text, SheetOf(u, pp, p), GoneFrom(u, pp, p), max)
  <2>1. CASE pp[p].ocr
    <3>1. p \in DOMAIN u.scan /\ o[p] = u.scan[p]
      BY <1>4, <1>7, <2>1
    <3>2. u.scan[p] \in Sheets(u, p)
      BY <3>1 DEF Sheets
    <3> QED
      BY <1>7, <2>1, <3>1, <3>2 DEF SheetOf, GoneFrom
  <2>2. CASE ~pp[p].ocr
    <3>1. raw[p] \in Sheets(u, p)
      BY <1>1 DEF Sheets
    <3> QED
      BY <1>1, <1>7, <2>2, <3>1 DEF SheetOf, GoneFrom
  <2> QED
    BY <2>1, <2>2
<1>9. Extracted(u, pp)
  BY <1>1, <1>7, <1>8 DEF Extracted
<1> QED
  BY <1>1, <1>3, <1>6, <1>9

(* The texts of the pages: legible, and every sentence once.               *)
LEMMA TextsApart ==
  ASSUME NEW u \in Uploads, NEW pp, Extracted(u, pp)
  PROVE  \E D : \E N \in Nat : \E texts \in [1..N -> Seq(D)] :
           /\ AllLegible(D, u.max) /\ DOMAIN pp = 1..N /\ DOMAIN u.raw = 1..N
           /\ \A p \in 1..N : texts[p] = pp[p].text
           /\ Apart(texts, N)
<1>1. PICK N \in Nat : DOMAIN u.raw = 1..N /\ DOMAIN pp = 1..N
  BY UploadIs, LenProperties DEF Extracted, IsList
<1>2. \A p \in 1..N : /\ SheetOf(u, pp, p) \in Sheets(u, p)
                      /\ ReadFrom(pp[p].text, SheetOf(u, pp, p), GoneFrom(u, pp, p), u.max)
  BY <1>1 DEF Extracted
<1>3. PICK texts : texts = [p \in 1..N |-> pp[p].text]
  OBVIOUS
<1>4. PICK D : D = UNION {Range(pp[p].text) : p \in 1..N}
  OBVIOUS
<1>5. ASSUME NEW p \in 1..N
      PROVE  texts[p] \in Seq(D) /\ texts[p] = pp[p].text /\ \A x \in Range(pp[p].text) : Legible(x, u.max)
  <2>1. PICK t : t = pp[p].text
    OBVIOUS
  <2>2. t \in Seq(Range(t))
    BY <1>2, <2>1 DEF ReadFrom
  <2>3. \A j \in 1..Len(t) : Legible(t[j], u.max)
    BY <1>2, <2>1 DEF ReadFrom, Renders
  <2>4. Range(t) \subseteq D
    BY <1>4, <2>1
  <2>5. t \in Seq(D)
    BY <2>2, <2>4, SeqMonotonic
  <2>6. \A x \in Range(t) : Legible(x, u.max)
    BY <2>2, <2>3, LenProperties DEF Range
  <2> QED
    BY <1>3, <2>1, <2>5, <2>6
<1>6. texts \in [1..N -> Seq(D)]
  BY <1>3, <1>5
<1>7. AllLegible(D, u.max)
  BY <1>4, <1>5 DEF AllLegible
<1>8. ASSUME NEW p \in 1..N, NEW q \in 1..N, NEW i \in 1..Len(texts[p]), NEW j \in 1..Len(texts[q]),
             texts[p][i].id = texts[q][j].id
      PROVE  p = q /\ i = j
  <2>1. PICK s : s = SheetOf(u, pp, p) /\ s \in Sheets(u, p)
    BY <1>2
  <2>2. PICK z : z = SheetOf(u, pp, q) /\ z \in Sheets(u, q)
    BY <1>2
  <2>3. PICK t : t = texts[p]
    OBVIOUS
  <2>4. PICK y : y = texts[q]
    OBVIOUS
  <2>5. PICK e : /\ e \in [1..Len(t) -> 1..Len(s)]
                 /\ \A a, b \in 1..Len(t) : e[a] = e[b] => a = b
                 /\ \A a \in 1..Len(t) : Renders(t[a], s[e[a]].unit, u.max)
    <3>1. PICK gone : gone = GoneFrom(u, pp, p)
      OBVIOUS
    <3>2. ReadFrom(t, s, gone, u.max)
      BY <1>2, <1>5, <2>1, <2>3, <3>1
    <3> QED
      BY <3>2 DEF ReadFrom
  <2>6. PICK f : /\ f \in [1..Len(y) -> 1..Len(z)]
                 /\ \A a, b \in 1..Len(y) : f[a] = f[b] => a = b
                 /\ \A a \in 1..Len(y) : Renders(y[a], z[f[a]].unit, u.max)
    <3>1. PICK gone : gone = GoneFrom(u, pp, q)
      OBVIOUS
    <3>2. ReadFrom(y, z, gone, u.max)
      BY <1>2, <1>5, <2>2, <2>4, <3>1
    <3> QED
      BY <3>2 DEF ReadFrom
  <2>7. /\ t[i].id = s[e[i]].unit.id /\ y[j].id = z[f[j]].unit.id
        /\ e[i] \in 1..Len(s) /\ f[j] \in 1..Len(z)
    BY <1>8, <2>3, <2>4, <2>5, <2>6 DEF Renders
  <2>8. DOMAIN s = 1..Len(s) /\ DOMAIN z = 1..Len(z)
    <3>1. IsList(s) /\ IsList(z)
      BY <1>1, <2>1, <2>2, ManualAssumption
    <3> QED
      BY <3>1, LenProperties DEF IsList
  <2>9. s[e[i]].unit.id = z[f[j]].unit.id
    BY <1>8, <2>3, <2>4, <2>7
  <2>10. \A a \in DOMAIN s, b \in DOMAIN z :
           s[a].unit.id = z[b].unit.id => p = q /\ (s = z => a = b)
    <3>1. p \in DOMAIN u.raw /\ q \in DOMAIN u.raw
      BY <1>1, <1>8
    <3>2. \A c, d \in DOMAIN u.raw : \A x \in Sheets(u, c), w \in Sheets(u, d) :
            \A a \in DOMAIN x, b \in DOMAIN w :
              x[a].unit.id = w[b].unit.id => c = d /\ (x = w => a = b)
      BY Zenon, ManualAssumption
    <3>3. \A x \in Sheets(u, p), w \in Sheets(u, q) :
            \A a \in DOMAIN x, b \in DOMAIN w :
              x[a].unit.id = w[b].unit.id => p = q /\ (x = w => a = b)
      <4>1. TAKE x \in Sheets(u, p), w \in Sheets(u, q)
      <4>2. TAKE a \in DOMAIN x, b \in DOMAIN w
      <4> QED
        BY <3>1, <3>2
    <3> QED
      BY Zenon, <3>3, <2>1, <2>2
  <2>11. p = q
    BY <2>7, <2>8, <2>9, <2>10
  <2>12. s = z /\ j \in 1..Len(t)
    BY <1>8, <2>1, <2>2, <2>3, <2>11
  <2>13. t[i].id = t[j].id
    BY <1>8, <2>3, <2>11
  <2>14. t[j].id = s[e[j]].unit.id /\ e[j] \in DOMAIN s /\ e[i] \in DOMAIN s
    BY <2>5, <2>7, <2>8, <2>12 DEF Renders
  <2>15. e[i] = e[j]
    BY <2>7, <2>10, <2>12, <2>13, <2>14
  <2>16. i \in 1..Len(t)
    BY <1>8, <2>3
  <2> QED
    BY <2>5, <2>11, <2>12, <2>15, <2>16
<1>9. Apart(texts, N)
  BY <1>8 DEF Apart
<1> QED
  BY <1>1, <1>5, <1>6, <1>7, <1>9

(* A line of a page is furniture, or its sentence is in the table.         *)
FurnitureOf(u, pp, p, i) ==
  /\ ~pp[p].ocr /\ NearEdge(SheetOf(u, pp, p), i)
  /\ Cardinality(Holders(u.raw, SheetOf(u, pp, p)[i].key)) >= 3
LinesSurvive(u, pp, chs) ==
  \A p \in DOMAIN pp : \A i \in DOMAIN SheetOf(u, pp, p) : \A w, kept :
    /\ w = SheetOf(u, pp, p)[i].unit
    /\ kept = {v \in StoredOf(chs, p) : v.id = w.id}
    => \/ FurnitureOf(u, pp, p, i)
       \/ alnum_count(<<w>>) - Sum(PartSizes(kept, Len(w.words))) \in 0..MIN_CHUNK_ALNUM - 1

(* What chunk_pages stores of an extracted upload.                         *)
LEMMA ExtractedSurvives ==
  ASSUME NEW u \in Uploads, NEW pp, Extracted(u, pp),
         NEW chs, chs = chunk_pages(pp, u.max, u.overlap, u.paragraphs)
  PROVE  /\ LinesSurvive(u, pp, chs)
         /\ Bounded(chs, u.max, u.max \div 2, TailRoom(u.paragraphs))
<1>d. PICK D : \E N \in Nat : \E texts \in [1..N -> Seq(D)] :
           /\ AllLegible(D, u.max) /\ DOMAIN pp = 1..N /\ DOMAIN u.raw = 1..N
           /\ \A p \in 1..N : texts[p] = pp[p].text
           /\ Apart(texts, N)
  BY TextsApart
<1>n. PICK N \in Nat : \E texts \in [1..N -> Seq(D)] :
           /\ AllLegible(D, u.max) /\ DOMAIN pp = 1..N /\ DOMAIN u.raw = 1..N
           /\ \A p \in 1..N : texts[p] = pp[p].text
           /\ Apart(texts, N)
  BY <1>d
<1>1. PICK texts \in [1..N -> Seq(D)] :
           /\ AllLegible(D, u.max) /\ DOMAIN pp = 1..N /\ DOMAIN u.raw = 1..N
           /\ \A p \in 1..N : texts[p] = pp[p].text
           /\ Apart(texts, N)
  BY <1>n
<1>2. PICK ov : ov = Overlap(u.max, u.overlap)
  OBVIOUS
<1>3. PICK room : room = TailRoom(u.paragraphs)
  OBVIOUS
<1>4. PICK max, overlap, paragraphs : max = u.max /\ overlap = u.overlap /\ paragraphs = u.paragraphs
  OBVIOUS
<1>5. max \in Nat \ {0} /\ overlap \in Int /\ paragraphs \in BOOLEAN
  BY <1>4, UploadIs
<1>6. Survives(chs, texts, N) /\ Bounded(chs, max, ov, room) /\ ov \in 0..(max \div 2)
  <2>1. /\ AllLegible(D, max) /\ ov = Overlap(max, overlap) /\ room = TailRoom(paragraphs)
        /\ chs = chunk_pages(pp, max, overlap, paragraphs)
    BY <1>1, <1>2, <1>3, <1>4
  <2> QED
    BY <1>n, <1>1, <1>3, <1>2, <1>5, <2>1, PagesChunked
<1>7. Bounded(chs, max, max \div 2, room)
  <2>1. PICK half \in Int : half = max \div 2 /\ ov \in Int /\ ov <= half
    BY <1>5, <1>6
  <2>2. room \in Int
    BY <1>3 DEF TailRoom, MIN_TAIL_CHARS
  <2>3. ASSUME NEW c \in DOMAIN chs
        PROVE  Length(chs[c].units) \in Int /\ Length(chs[c].units) <= max + half + room
    BY <1>5, <1>6, <2>1, <2>2, <2>3 DEF Bounded
  <2>4. ASSUME NEW c \in DOMAIN chs, c > 1
        PROVE  LET s == Again(chs[c].units, chs[c - 1].units) IN Sum(s) \in Int /\ Sum(s) <= half
    BY <1>6, <2>1, <2>4 DEF Bounded
  <2> QED
    BY <2>1, <2>3, <2>4 DEF Bounded
<1>8. ASSUME NEW p \in DOMAIN pp, NEW i \in DOMAIN SheetOf(u, pp, p), NEW w, NEW kept,
             w = SheetOf(u, pp, p)[i].unit, kept = {v \in StoredOf(chs, p) : v.id = w.id}
      PROVE  \/ FurnitureOf(u, pp, p, i)
             \/ alnum_count(<<w>>) - Sum(PartSizes(kept, Len(w.words))) \in 0..MIN_CHUNK_ALNUM - 1
  <2>1. PICK s : s = SheetOf(u, pp, p)
    OBVIOUS
  <2>2. PICK gone : gone = GoneFrom(u, pp, p)
    OBVIOUS
  <2>3. PICK t : t = texts[p]
    OBVIOUS
  <2>4. p \in 1..N /\ p \in DOMAIN u.raw
    BY <1>1
  <2>5. ReadFrom(t, s, gone, max)
    BY <1>1, <1>4, <2>1, <2>2, <2>3, <2>4 DEF Extracted
  <2>6. CASE i \in gone
    <3>1. ~pp[p].ocr /\ s = u.raw[p] /\ i \in EdgeRepeats(u.raw, p)
      BY <2>1, <2>2, <2>6 DEF GoneFrom, SheetOf
    <3>2. IsList(u.raw) /\ \A q \in DOMAIN u.raw : IsList(u.raw[q])
      BY UploadIs DEF LinesLegible
    <3>3. NearEdge(u.raw[p], i) /\ Cardinality(Holders(u.raw, u.raw[p][i].key)) >= 3
      BY <2>4, <3>1, <3>2, EdgesFurnish
    <3> QED
      BY <2>1, <3>1, <3>3 DEF FurnitureOf
  <2>7. CASE i \notin gone
    <3>1. PICK j \in 1..Len(t) : Renders(t[j], w, max)
      BY <1>8, <2>1, <2>5, <2>7 DEF ReadFrom
    <3>2. PICK n \in Nat : n = Len(w.words)
      <4>1. s \in Sheets(u, p)
        BY <2>1, <2>4 DEF Extracted
      <4>2. Legible(w, max)
        BY <1>4, <1>8, <2>1, <2>4, <4>1, ManualAssumption
      <4> QED
        BY <4>2, LenProperties DEF Legible, IsList
    <3>3. t[j].id = w.id /\ Len(t[j].words) <= n /\ alnum_count(<<t[j]>>) = alnum_count(<<w>>)
      BY <3>1, <3>2 DEF Renders
    <3>4. kept = {v \in StoredOf(chs, p) : v.id = t[j].id}
      BY <1>8, <3>3
    <3>5. alnum_count(<<t[j]>>) - Sum(PartSizes(kept, n)) \in 0..MIN_CHUNK_ALNUM - 1
      BY <1>6, <2>3, <2>4, <3>1, <3>3, <3>4 DEF Survives
    <3> QED
      BY <3>2, <3>3, <3>5
  <2> QED
    BY <2>6, <2>7
<1> QED
  BY <1>3, <1>4, <1>7, <1>8 DEF LinesSurvive

-----------------------------------------------------------------------------
(* What holds of a manual at every stage: the upload is one of those       *)
(* assumed, its pages are read from it, and its rows are cut from them.    *)
ManualInv ==
  /\ upload \in Uploads
  /\ stage # "uploaded" => Extracted(upload, pages)
  /\ IsStored => chunks = chunk_pages(pages, upload.max, upload.overlap, upload.paragraphs)

(* An upload that has not been read.                                       *)
LEMMA ManualStarts == ManualInit => ManualInv
  BY DEF ManualInit, ManualStart, ManualInv, IsStored

(* One step for every action of a manual.                                  *)
LEMMA ManualKept == ManualInv /\ [ManualNext]_manualVars => ManualInv'
<1> SUFFICES ASSUME ManualInv, [ManualNext]_manualVars PROVE ManualInv'
  OBVIOUS
<1>1. CASE Extract
  <2>1. PICK seen \in SUBSET (BlankPages(upload.raw) \cap DOMAIN upload.scan) :
          pages' = extract_pages(upload.raw, [p \in seen |-> upload.scan[p]], upload.repair)
    BY <1>1 DEF Extract
  <2>2. PICK ocr : ocr = [p \in seen |-> upload.scan[p]]
    OBVIOUS
  <2>3. upload \in Uploads /\ upload' = upload
    BY <1>1 DEF ManualInv, Extract
  <2>4. Extracted(upload, extract_pages(upload.raw, ocr, upload.repair))
    BY <2>2, <2>3, ExtractRuns
  <2>5. Extracted(upload', pages')
    BY <2>1, <2>2, <2>3, <2>4
  <2>6. stage' \notin {"chunked", "read", "answered"}
    BY <1>1 DEF Extract
  <2> QED
    BY <2>3, <2>5, <2>6 DEF ManualInv, IsStored
<1>2. CASE Chunk
  <2>1. upload \in Uploads /\ Extracted(upload, pages) /\ upload' = upload /\ pages' = pages
    BY <1>2 DEF ManualInv, Chunk
  <2>2. chunks' = chunk_pages(pages, upload.max, upload.overlap, upload.paragraphs)
    BY <1>2 DEF Chunk
  <2> QED
    BY <2>1, <2>2 DEF ManualInv
<1>3. CASE Read
  BY <1>3 DEF ManualInv, IsStored, Read
<1>4. CASE Cite
  BY <1>4 DEF ManualInv, IsStored, Cite
<1>5. CASE UNCHANGED manualVars
  BY <1>5 DEF ManualInv, IsStored, manualVars
<1> QED
  BY <1>1, <1>2, <1>3, <1>4, <1>5 DEF ManualNext

(* What the invariant says of the stored chunks.                           *)
LEMMA ManualKeepsPages == ManualInv => PagesSurviveChunking
<1> SUFFICES ASSUME ManualInv, IsStored PROVE PagesSurviveChunking
  BY DEF PagesSurviveChunking
<1>1. /\ upload \in Uploads /\ Extracted(upload, pages)
      /\ chunks = chunk_pages(pages, upload.max, upload.overlap, upload.paragraphs)
  BY DEF ManualInv, IsStored
<1>2. /\ LinesSurvive(upload, pages, chunks)
      /\ Bounded(chunks, upload.max, upload.max \div 2, TailRoom(upload.paragraphs))
  BY <1>1, ExtractedSurvives
<1>3. ASSUME NEW p \in DOMAIN pages, NEW i \in DOMAIN Lines(p)
      PROVE  LET u == Lines(p)[i].unit
                 kept == {v \in StoredUnits(p) : v.id = u.id}
                 size(k) == IF \E v \in kept : v.part = k
                            THEN alnum_count(<<CHOOSE v \in kept : v.part = k>>) ELSE 0
                 spelled == Sum([k \in DOMAIN u.words |-> size(k)])
             IN  Furniture(p, i) \/ alnum_count(<<u>>) - spelled \in 0..MIN_CHUNK_ALNUM - 1
  <2>1. Lines(p) = SheetOf(upload, pages, p)
    BY DEF Lines, SheetOf
  <2>2. PICK u : u = Lines(p)[i].unit
    OBVIOUS
  <2>3. PICK kept : kept = {v \in StoredUnits(p) : v.id = u.id}
    OBVIOUS
  <2>4. kept = {v \in StoredOf(chunks, p) : v.id = u.id}
    BY <2>3 DEF StoredUnits, StoredOf
  <2>5. \/ FurnitureOf(upload, pages, p, i)
        \/ alnum_count(<<u>>) - Sum(PartSizes(kept, Len(u.words))) \in 0..MIN_CHUNK_ALNUM - 1
    BY <1>2, <1>3, <2>1, <2>2, <2>4 DEF LinesSurvive
  <2>6. FurnitureOf(upload, pages, p, i) => Furniture(p, i)
    BY <2>1 DEF FurnitureOf, Furniture, Holders
  <2>7. DOMAIN u.words = 1..Len(u.words)
    <3>1. Lines(p) \in Sheets(upload, p) /\ p \in DOMAIN upload.raw
      BY <1>1, <2>1 DEF Extracted
    <3>2. Legible(u, upload.max)
      BY <1>1, <1>3, <2>2, <3>1, ManualAssumption
    <3> QED
      BY <3>2, LenProperties DEF Legible, IsList
  <2>8. [k \in DOMAIN u.words |-> IF \E v \in kept : v.part = k
                                  THEN alnum_count(<<CHOOSE v \in kept : v.part = k>>) ELSE 0]
        = PartSizes(kept, Len(u.words))
    BY <2>7 DEF PartSizes
  <2> QED
    BY <2>2, <2>3, <2>5, <2>6, <2>8
<1>4. ASSUME NEW c \in DOMAIN chunks
      PROVE  LET carried == upload.max \div 2
                 tail == IF upload.paragraphs THEN MIN_TAIL_CHARS ELSE 0
                 repeated(u) == IF u \in Range(chunks[c - 1].units) THEN Chars(u) ELSE 0
             IN  /\ Length(chunks[c].units) <= upload.max + carried + tail
                 /\ c > 1 => SumOver(repeated, chunks[c].units) <= carried
  <2>1. Length(chunks[c].units) <= upload.max + upload.max \div 2 + TailRoom(upload.paragraphs)
    BY <1>2, <1>4 DEF Bounded
  <2>2. c > 1 => Sum(Again(chunks[c].units, chunks[c - 1].units)) <= upload.max \div 2
    BY <1>2, <1>4 DEF Bounded
  <2> QED
    BY <2>1, <2>2 DEF TailRoom, Again, SumOver
<1> QED
  BY <1>3, <1>4 DEF PagesSurviveChunking

(* From the printed page to the table no sentence is lost or shortened,    *)
(* but for furniture and slivers, and no chunk outgrows the size asked     *)
(* for, for every upload, setting and sentence.                            *)
THEOREM ManualSurvives == ManualSpec => []PagesSurviveChunking
<1>1. ManualInit => ManualInv
  BY ManualStarts
<1>2. ManualInv /\ [ManualNext]_manualVars => ManualInv'
  BY ManualKept
<1>3. ManualInv => PagesSurviveChunking
  BY ManualKeepsPages
<1> QED
  BY <1>1, <1>2, <1>3, PTL DEF ManualSpec

-----------------------------------------------------------------------------
(* Sentences that have words, and where one text begins with another.      *)
Worded(V, W) == AreWords(W) /\ \A u \in V : u.words \in Seq(W) /\ u.words # <<>>
Begins(a, b) == Len(a) <= Len(b) /\ \A i \in 1..Len(a) : a[i].words = b[i].words
Alike(a, b) == Begins(a, b) \/ Begins(b, a)

(* A sentence with words has characters.                                   *)
LEMMA WordedChars ==
  ASSUME NEW V, NEW W, Worded(V, W), NEW u \in V
  PROVE  Chars(u) \in Nat
<1>1. PICK ws \in Seq(W) : ws = u.words /\ ws # <<>> /\ AreWords(W)
  BY DEF Worded
<1>2. PICK n \in Nat \ {0} : n = Len(ws)
  BY <1>1, EmptySeq, LenProperties
<1>3. PICK x \in Nat : x = Sum(Letters(ws))
  BY <1>1, TextSize
<1>4. n <= x /\ Spaced(ws) = x + n - 1
  BY <1>1, <1>2, <1>3, TextSize
<1> QED
  BY <1>1, <1>2, <1>3, <1>4 DEF Chars

(* A text is no shorter than one it begins with.                           *)
LEMMA BeginsShort ==
  ASSUME NEW V, NEW W, Worded(V, W), NEW a \in Seq(V), NEW b \in Seq(V)
  PROVE  /\ Length(a) \in Int /\ Length(b) \in Int
         /\ Begins(a, b) => Length(a) <= Length(b)
<1>1. ASSUME NEW us \in Seq(V)
      PROVE  /\ Widths(us) \in Seq(Nat) /\ Len(Widths(us)) = Len(us)
             /\ Length(us) = Sum(Widths(us)) - 1 /\ Sum(Widths(us)) \in Nat
             /\ \A i \in 1..Len(us) : Widths(us)[i] = Chars(us[i]) + 1
  <2>1. PICK n \in Nat : n = Len(us) /\ DOMAIN us = 1..n
    BY LenProperties
  <2>2. ASSUME NEW i \in 1..n PROVE Chars(us[i]) \in Nat
    <3>1. us[i] \in V
      BY <2>1, ElementOfSeq
    <3> QED
      BY <3>1, WordedChars
  <2>3. PICK ws : ws = Widths(us)
    OBVIOUS
  <2>4. ws = [i \in 1..n |-> Chars(us[i]) + 1]
    BY <2>1, <2>3 DEF Widths
  <2>5. ws \in [1..n -> Nat]
    BY <2>2, <2>4
  <2>6. ws \in Seq(Nat) /\ Len(ws) = n
    BY <2>5
  <2>7. Length(us) = Sum(ws) - 1
    BY <2>3 DEF Length, SumOver, Widths
  <2>8. Sum(ws) \in Nat
    BY <2>6, TotalsGrow DEF Sum
  <2> QED
    BY <2>1, <2>3, <2>4, <2>6, <2>7, <2>8
<1>2. PICK n \in Nat : n = Len(a)
  BY LenProperties
<1>3. PICK m \in Nat : m = Len(b)
  BY LenProperties
<1>4. PICK s \in Seq(Nat) : s = Widths(a) /\ Len(s) = n
  BY <1>1, <1>2
<1>5. PICK t \in Seq(Nat) : t = Widths(b) /\ Len(t) = m
  BY <1>1, <1>3
<1>6. Length(a) = Sum(s) - 1 /\ Sum(s) \in Nat /\ Length(b) = Sum(t) - 1 /\ Sum(t) \in Nat
  BY <1>1, <1>4, <1>5
<1>7. ASSUME Begins(a, b) PROVE Sum(s) <= Sum(t)
  <2>1. n <= m /\ \A i \in 1..n : a[i].words = b[i].words
    BY <1>2, <1>3, <1>7 DEF Begins
  <2>2. \A i \in 1..n : s[i] = Chars(a[i]) + 1
    BY <1>1, <1>2, <1>4
  <2>3. \A i \in 1..m : t[i] = Chars(b[i]) + 1
    BY <1>1, <1>3, <1>5
  <2>4. \A i \in 1..n : s[i] = t[i]
    <3>1. TAKE i \in 1..n
    <3>2. i \in 1..m /\ Chars(a[i]) = Chars(b[i])
      BY <2>1 DEF Chars
    <3> QED
      BY <2>2, <2>3, <3>2
  <2>5. s \in Seq(Int) /\ t \in Seq(Int)
    BY SeqMonotonic
  <2>6. \A i \in 0..n : Totals(s)[i] = Totals(t)[i]
    <3>1. n <= Len(s) /\ n <= Len(t)
      BY <1>4, <1>5, <2>1
    <3> QED
      BY <2>4, <2>5, <3>1, TotalsAgree
  <2>7. Totals(s)[n] = Totals(t)[n] /\ n \in 0..m /\ m \in 0..m
    BY <2>1, <2>6
  <2>8. Totals(t)[n] <= Totals(t)[m]
    BY <1>5, <2>1, <2>7, TotalsGrow
  <2> QED
    BY <1>4, <1>5, <2>7, <2>8 DEF Sum
<1> QED
  BY <1>6, <1>7

(* IsPrefix of two texts, sentence by sentence.                            *)
LEMMA PrefixBegins ==
  ASSUME NEW V, NEW a \in Seq(V), NEW b \in Seq(V)
  PROVE  IsPrefix(Text(a), Text(b)) <=> Begins(a, b)
<1>1. PICK n \in Nat : n = Len(a) /\ DOMAIN a = 1..n
  BY LenProperties
<1>2. PICK m \in Nat : m = Len(b) /\ DOMAIN b = 1..m
  BY LenProperties
<1>3. PICK D : D = {u.words : u \in V}
  OBVIOUS
<1>4. ASSUME NEW us \in Seq(V), NEW l \in Nat, l = Len(us), DOMAIN us = 1..l
      PROVE  Text(us) \in Seq(D) /\ Len(Text(us)) = l /\ \A i \in 1..l : Text(us)[i] = us[i].words
  <2>1. PICK ts : ts = Text(us)
    OBVIOUS
  <2>2. ts = [i \in 1..l |-> us[i].words]
    BY <1>4, <2>1 DEF Text
  <2>3. \A i \in 1..l : us[i].words \in D
    <3>1. TAKE i \in 1..l
    <3>2. us[i] \in V
      BY <1>4, ElementOfSeq
    <3> QED
      BY <1>3, <3>2
  <2>4. ts \in [1..l -> D]
    BY <2>2, <2>3
  <2>5. ts \in Seq(D) /\ Len(ts) = l
    BY <2>4
  <2> QED
    BY <2>1, <2>2, <2>5
<1>5. PICK s \in Seq(D) : s = Text(a) /\ Len(s) = n /\ \A i \in 1..n : s[i] = a[i].words
  BY <1>1, <1>4
<1>6. PICK t \in Seq(D) : t = Text(b) /\ Len(t) = m /\ \A i \in 1..m : t[i] = b[i].words
  BY <1>2, <1>4
<1>7. IsPrefix(s, t) <=> n <= m /\ \A i \in 1..n : s[i] = t[i]
  <2>1. CASE ~(n <= m)
    BY <1>5, <1>6, <2>1 DEF IsPrefix
  <2>2. CASE n <= m
    <3>1. PICK s1 : s1 = SubSeq(s, 0 + 1, n)
      OBVIOUS
    <3>2. PICK t1 : t1 = SubSeq(t, 0 + 1, n)
      OBVIOUS
    <3>3. n \in 0..Len(s) /\ n \in 0..Len(t) /\ 0 \in 0..Len(s) /\ 0 \in 0..Len(t) /\ 0 <= n
      BY <1>5, <1>6, <2>2
    <3>4. s1 \in Seq(D) /\ Len(s1) = n - 0 /\ \A i \in 1..n - 0 : s1[i] = s[0 + i]
      BY <3>1, <3>3, StretchIs
    <3>5. t1 \in Seq(D) /\ Len(t1) = n - 0 /\ \A i \in 1..n - 0 : t1[i] = t[0 + i]
      BY <3>2, <3>3, StretchIs
    <3>6. n - 0 = n /\ 0 + 1 = 1 /\ \A i \in 1..n : 0 + i = i
      OBVIOUS
    <3>7. Len(s1) = n /\ Len(t1) = n /\ \A i \in 1..n : s1[i] = s[i] /\ t1[i] = t[i]
      BY <3>4, <3>5, <3>6
    <3>8. s1 = t1 <=> \A i \in 1..n : s1[i] = t1[i]
      BY <3>4, <3>5, <3>7, SeqEqual
    <3>9. IsPrefix(s, t) <=> s1 = t1
      BY <1>5, <1>6, <2>2, <3>1, <3>2, <3>6 DEF IsPrefix
    <3> QED
      BY <2>2, <3>7, <3>8, <3>9
  <2> QED
    BY <2>1, <2>2
<1>8. Begins(a, b) <=> n <= m /\ \A i \in 1..n : a[i].words = b[i].words
  BY <1>1, <1>2 DEF Begins
<1>9. (n <= m /\ \A i \in 1..n : s[i] = t[i]) <=> (n <= m /\ \A i \in 1..n : a[i].words = b[i].words)
  <2>1. CASE ~(n <= m)
    BY <2>1
  <2>2. CASE n <= m
    <3>1. \A i \in 1..n : i \in 1..m
      BY <2>2
    <3>2. \A i \in 1..n : s[i] = a[i].words /\ t[i] = b[i].words
      BY <1>5, <1>6, <3>1
    <3> QED
      BY <2>2, <3>2
  <2> QED
    BY <2>1, <2>2
<1> QED
  BY <1>5, <1>6, <1>7, <1>8, <1>9

(* Two beginnings of one text are alike; what begins with a text begins    *)
(* with its beginnings.                                                    *)
LEMMA BeginsLaws ==
  ASSUME NEW V, NEW a \in Seq(V), NEW b \in Seq(V), NEW c \in Seq(V)
  PROVE  /\ Begins(a, c) /\ Begins(b, c) => Alike(a, b)
         /\ Begins(a, b) /\ Begins(b, c) => Begins(a, c)
<1>1. PICK n \in Nat : n = Len(a)
  BY LenProperties
<1>2. PICK m \in Nat : m = Len(b)
  BY LenProperties
<1>3. PICK l \in Nat : l = Len(c)
  BY LenProperties
<1>4. ASSUME Begins(a, c), Begins(b, c) PROVE Alike(a, b)
  <2>1. \A i \in 1..n : a[i].words = c[i].words
    BY <1>1, <1>4 DEF Begins
  <2>2. \A i \in 1..m : b[i].words = c[i].words
    BY <1>2, <1>4 DEF Begins
  <2>3. CASE n <= m
    BY <1>1, <1>2, <2>1, <2>2, <2>3 DEF Alike, Begins
  <2>4. CASE m <= n
    BY <1>1, <1>2, <2>1, <2>2, <2>4 DEF Alike, Begins
  <2> QED
    BY <2>3, <2>4
<1>5. ASSUME Begins(a, b), Begins(b, c) PROVE Begins(a, c)
  <2>1. n <= m /\ \A i \in 1..n : a[i].words = b[i].words
    BY <1>1, <1>2, <1>5 DEF Begins
  <2>2. m <= l /\ \A i \in 1..m : b[i].words = c[i].words
    BY <1>2, <1>3, <1>5 DEF Begins
  <2> QED
    BY <1>1, <1>3, <2>1, <2>2 DEF Begins
<1> QED
  BY <1>4, <1>5

-----------------------------------------------------------------------------
(* Sightings of warnings: their text is made of sentences in V, their      *)
(* other fields are in X; B are the cited blocks.                          *)
Sightings(V, X) ==
  [level : X, text : Seq(V), page : X, block : X, source : X, cited : BOOLEAN,
   for_blocks : SUBSET X]
SaysTrue(w, B) ==
  /\ w.cited <=> w.for_blocks \cap B # {}
  /\ w.source = "block" => w.block \in w.for_blocks
Honest(V, X, B) == {w \in Sightings(V, X) : SaysTrue(w, B)}
AllApart(kept) == \A i, j \in 1..Len(kept) : i # j => ~SameWarning(kept[i], kept[j])

(* The fields of a sighting.                                               *)
LEMMA HonestIs ==
  ASSUME NEW V, NEW X, NEW B, NEW w \in Honest(V, X, B)
  PROVE  /\ w.level \in X /\ w.text \in Seq(V) /\ w.page \in X /\ w.block \in X
         /\ w.source \in X /\ w.cited \in BOOLEAN /\ w.for_blocks \in SUBSET X
         /\ SaysTrue(w, B)
  BY DEF Honest, Sightings

(* What Replaced replaces and what it leaves.                              *)
LEMMA ReplacedIs ==
  ASSUME NEW V, NEW X, NEW w \in Sightings(V, X), NEW text \in Seq(V), NEW cited \in BOOLEAN,
         NEW blocks \in SUBSET X, NEW r, r = Replaced(w, text, cited, blocks)
  PROVE  /\ r \in Sightings(V, X) /\ r.level = w.level /\ r.text = text /\ r.block = w.block
         /\ r.source = w.source /\ r.cited = cited /\ r.for_blocks = blocks
<1>1. w.level \in X /\ w.page \in X /\ w.block \in X /\ w.source \in X
  BY DEF Sightings
<1>2. r = [level |-> w.level, text |-> text, page |-> w.page, block |-> w.block,
           source |-> w.source, cited |-> cited, for_blocks |-> blocks]
  BY DEF Replaced
<1>3. r \in Sightings(V, X)
  BY <1>1, <1>2 DEF Sightings
<1> QED
  BY <1>2, <1>3

(* Two sightings of one warning are one that says the truth, with the      *)
(* longer text.                                                            *)
LEMMA FusedIs ==
  ASSUME NEW V, NEW X, NEW B, NEW k \in Honest(V, X, B), NEW w \in Honest(V, X, B),
         k.level = w.level, NEW f, f = FuseSightings(k, w)
  PROVE  f \in Honest(V, X, B) /\ f.level = k.level /\ f.text = LongerText(k, w)
<1>1. PICK best \in {k, w} : best = BetterPlace(k, w)
  BY DEF BetterPlace
<1>2. PICK same : same = {x \in {k, w} : x.source = best.source}
  OBVIOUS
<1>3. PICK text : text = LongerText(k, w)
  OBVIOUS
<1>4. text \in Seq(V)
  BY <1>3, HonestIs DEF LongerText
<1>5. PICK cited \in BOOLEAN : cited <=> \E x \in same : x.cited
  <2>1. (\E x \in same : x.cited) \in BOOLEAN
    OBVIOUS
  <2> QED
    BY <2>1
<1>6. PICK blocks : blocks = UNION {x.for_blocks : x \in same}
  OBVIOUS
<1>7. same \subseteq {k, w} /\ best \in same
  BY <1>1, <1>2
<1>8. \A x \in same : x.for_blocks \in SUBSET X /\ SaysTrue(x, B) /\ x.cited \in BOOLEAN
  BY <1>7, HonestIs
<1>9. blocks \in SUBSET X
  BY <1>6, <1>8
<1>10. best \in Sightings(V, X)
  BY <1>1 DEF Honest
<1>11. f = Replaced(best, text, \E x \in same : x.cited, blocks)
  BY <1>1, <1>2, <1>3, <1>6 DEF FuseSightings
<1>12. f = Replaced(best, text, cited, blocks)
  BY <1>5, <1>11
<1>13. /\ f \in Sightings(V, X) /\ f.level = best.level /\ f.text = text /\ f.block = best.block
       /\ f.source = best.source /\ f.cited = cited /\ f.for_blocks = blocks
  BY <1>4, <1>9, <1>10, <1>12, ReplacedIs
<1>14. f.cited <=> f.for_blocks \cap B # {}
  <2>1. (\E x \in same : x.cited) <=> (\E x \in same : x.for_blocks \cap B # {})
    BY <1>8 DEF SaysTrue
  <2>2. blocks \cap B # {} <=> \E x \in same : x.for_blocks \cap B # {}
    BY <1>6
  <2> QED
    BY <1>5, <1>13, <2>1, <2>2
<1>15. f.source = "block" => f.block \in f.for_blocks
  <2>1. best.source = "block" => best.block \in best.for_blocks
    BY <1>7, <1>8 DEF SaysTrue
  <2>2. best.for_blocks \subseteq blocks
    BY <1>6, <1>7
  <2> QED
    BY <1>13, <2>1, <2>2
<1>16. f \in Honest(V, X, B)
  BY <1>13, <1>14, <1>15 DEF Honest, SaysTrue
<1> QED
  BY <1>1, <1>3, <1>13, <1>16

(* The two sightings SameWarning speaks of.                                *)
LEMMA SameIs ==
  ASSUME NEW V, NEW k, NEW w, k.text \in Seq(V), w.text \in Seq(V)
  PROVE  SameWarning(k, w) <=> k.level = w.level /\ Alike(k.text, w.text)
<1>1. PICK a \in Seq(V) : a = k.text
  OBVIOUS
<1>2. PICK b \in Seq(V) : b = w.text
  OBVIOUS
<1>3. /\ IsPrefix(Text(a), Text(b)) <=> Begins(a, b)
      /\ IsPrefix(Text(b), Text(a)) <=> Begins(b, a)
  BY PrefixBegins
<1> QED
  BY <1>1, <1>2, <1>3 DEF SameWarning, Alike

(* A sighting that is not one of k's is not one of what k and w are fused  *)
(* into.                                                                   *)
LEMMA FusedApart ==
  ASSUME NEW V, NEW W, Worded(V, W), NEW X, NEW B, NEW k \in Honest(V, X, B),
         NEW w \in Honest(V, X, B), NEW x \in Honest(V, X, B), SameWarning(k, w),
         ~SameWarning(x, k), NEW f, f = FuseSightings(k, w)
  PROVE  f \in Honest(V, X, B) /\ ~SameWarning(x, f) /\ ~SameWarning(f, x)
<1>1. PICK a \in Seq(V) : a = k.text
  BY HonestIs
<1>2. PICK b \in Seq(V) : b = w.text
  BY HonestIs
<1>3. PICK c \in Seq(V) : c = x.text
  BY HonestIs
<1>4. k.level = w.level /\ Alike(a, b)
  BY <1>1, <1>2, SameIs
<1>5. f \in Honest(V, X, B) /\ f.level = k.level /\ f.text = LongerText(k, w)
  BY <1>4, FusedIs
<1>6. ~(x.level = k.level /\ Alike(c, a))
  BY <1>1, <1>3, SameIs
<1>7. PICK t \in Seq(V) : t = f.text
  BY <1>5, HonestIs
<1>8. SUFFICES ASSUME x.level = k.level, Alike(c, t) PROVE FALSE
  <2>1. SameWarning(x, f) <=> x.level = f.level /\ Alike(c, t)
    BY <1>3, <1>7, SameIs
  <2>2. SameWarning(f, x) <=> f.level = x.level /\ Alike(t, c)
    BY <1>3, <1>7, SameIs
  <2>3. Alike(t, c) <=> Alike(c, t)
    BY DEF Alike
  <2> QED
    BY <1>5, <1>8, <2>1, <2>2, <2>3
<1>9. ~Alike(c, a)
  BY <1>6, <1>8
<1>10. CASE t = a
  BY <1>8, <1>9, <1>10
<1>11. CASE t # a
  <2>1. t = b /\ Length(b) > Length(a)
    BY <1>1, <1>2, <1>5, <1>7, <1>11 DEF LongerText
  <2>2. ~Begins(b, a)
    <3>1. Begins(b, a) => Length(b) <= Length(a)
      BY BeginsShort
    <3>2. Length(a) \in Int /\ Length(b) \in Int
      BY BeginsShort
    <3> QED
      BY <2>1, <3>1, <3>2
  <2>3. Begins(a, b)
    BY <1>4, <2>2 DEF Alike
  <2>4. Begins(c, b) => Alike(c, a)
    BY <2>3, BeginsLaws
  <2>5. Begins(b, c) => Begins(a, c)
    BY <2>3, BeginsLaws
  <2> QED
    BY <1>8, <1>9, <2>1, <2>4, <2>5 DEF Alike
<1> QED
  BY <1>10, <1>11

(* The first of some places of a list.                                     *)
LEMMA FirstPlace ==
  ASSUME NEW n \in Nat, NEW T \in SUBSET (1..n), T # {}
  PROVE  Min(T) \in T /\ \A i \in T : Min(T) <= i
<1>1. T \in SUBSET Nat
  OBVIOUS
<1>2. PICK m \in T : \A i \in T : m <= i
  BY <1>1, Least
<1>3. Min(T) = CHOOSE x \in T : \A y \in T : x =< y
  BY DEF Min
<1> QED
  BY <1>2, <1>3

(* One sighting more: warnings stay apart.                                 *)
LEMMA SightingAdds ==
  ASSUME NEW V, NEW W, Worded(V, W), NEW X, NEW B, NEW kept \in Seq(Honest(V, X, B)),
         NEW w \in Honest(V, X, B), NEW more, more = AddSighting(kept, w)
  PROVE  more \in Seq(Honest(V, X, B)) /\ (AllApart(kept) => AllApart(more))
<1>1. PICK H : H = Honest(V, X, B)
  OBVIOUS
<1>2. PICK n \in Nat : n = Len(kept) /\ DOMAIN kept = 1..n
  BY LenProperties
<1>3. \A i \in 1..n : kept[i] \in H
  BY <1>1, <1>2, ElementOfSeq
<1>4. PICK dups : dups = {i \in 1..n : SameWarning(kept[i], w)}
  OBVIOUS
<1>5. \A a, b : SameWarning(a, b) <=> SameWarning(b, a)
  BY DEF SameWarning
<1>6. CASE dups = {}
  <2>1. more = Append(kept, w)
    BY <1>2, <1>4, <1>6 DEF AddSighting
  <2>2. PICK s \in Seq(H) : s = more /\ Len(s) = n + 1 /\ s[n + 1] = w /\ \A i \in 1..n : s[i] = kept[i]
    <3>1. kept \in Seq(H) /\ w \in H
      BY <1>1
    <3> QED
      BY <1>2, <2>1, <3>1, AppendProperties
  <2>3. ASSUME AllApart(kept), NEW i \in 1..n + 1, NEW j \in 1..n + 1, i # j
        PROVE  ~SameWarning(s[i], s[j])
    <3>1. \A a \in 1..n, b \in 1..n : a # b => ~SameWarning(kept[a], kept[b])
      BY <1>2, <2>3 DEF AllApart
    <3>2. \A a \in 1..n : ~SameWarning(kept[a], w)
      BY <1>4, <1>6
    <3>3. CASE i \in 1..n /\ j \in 1..n
      BY <2>2, <2>3, <3>1, <3>3
    <3>4. CASE i = n + 1
      <4>1. j \in 1..n
        BY <2>3, <3>4
      <4> QED
        BY <1>5, <2>2, <3>2, <3>4, <4>1
    <3>5. CASE j = n + 1
      <4>1. i \in 1..n
        BY <2>3, <3>5
      <4> QED
        BY <2>2, <3>2, <3>5, <4>1
    <3> QED
      BY <3>3, <3>4, <3>5
  <2> QED
    BY <1>1, <2>2, <2>3 DEF AllApart
<1>7. CASE dups # {}
  <2>1. PICK d \in 1..n : d = Min(dups) /\ SameWarning(kept[d], w)
    <3>1. dups \in SUBSET (1..n)
      BY <1>4
    <3>2. Min(dups) \in dups
      BY <1>7, <3>1, FirstPlace
    <3> QED
      BY <1>4, <3>2
  <2>2. PICK f : f = FuseSightings(kept[d], w)
    OBVIOUS
  <2>3. f \in H
    <3>1. kept[d] \in H /\ w \in H /\ kept[d].level = w.level
      BY <1>1, <1>3, <2>1 DEF SameWarning
    <3> QED
      BY <1>1, <2>2, <3>1, FusedIs
  <2>4. more = [i \in 1..n |-> IF i = d THEN f ELSE kept[i]]
    BY <1>2, <1>4, <1>7, <2>1, <2>2 DEF AddSighting
  <2>5. more \in [1..n -> H]
    BY <1>3, <2>3, <2>4
  <2>6. more \in Seq(H) /\ Len(more) = n
    BY <2>5
  <2>7. ASSUME AllApart(kept), NEW i \in 1..n, NEW j \in 1..n, i # j
        PROVE  ~SameWarning(more[i], more[j])
    <3>1. \A a \in 1..n, b \in 1..n : a # b => ~SameWarning(kept[a], kept[b])
      BY <1>2, <2>7 DEF AllApart
    <3>2. ASSUME NEW a \in 1..n, a # d PROVE ~SameWarning(kept[a], f) /\ ~SameWarning(f, kept[a])
      <4>1. ~SameWarning(kept[a], kept[d])
        BY <3>1, <3>2
      <4>2. kept[a] \in H /\ kept[d] \in H
        BY <1>3
      <4> QED
        BY <1>1, <2>1, <2>2, <4>1, <4>2, FusedApart
    <3>3. CASE i # d /\ j # d
      BY <2>4, <2>7, <3>1, <3>3
    <3>4. CASE i = d
      BY <2>4, <2>7, <3>2, <3>4
    <3>5. CASE j = d
      BY <2>4, <2>7, <3>2, <3>5
    <3> QED
      BY <3>3, <3>4, <3>5
  <2> QED
    BY <1>1, <2>6, <2>7 DEF AllApart
<1> QED
  BY <1>6, <1>7

(* merge keeps the sightings one after the other.                          *)
LEMMA MergeKeeps ==
  ASSUME NEW V, NEW W, Worded(V, W), NEW X, NEW B, NEW found \in Seq(Honest(V, X, B))
  PROVE  \E kept \in Seq(Honest(V, X, B)) : AllApart(kept) /\ merge(found) = by_rank(kept)
<1> DEFINE H == Honest(V, X, B)
           K == {kept \in Seq(H) : AllApart(kept)}
           n == Len(found)
           adds == [i \in 1..n |-> [k \in K |-> AddSighting(k, found[i])]]
           Eq(f) == f = [i \in 0..n |-> IF i = 0 THEN <<>> ELSE AddSighting(f[i - 1], found[i])]
<1>1. n \in Nat /\ \A i \in 1..n : found[i] \in H
  BY LenProperties, ElementOfSeq
<1>2. <<>> \in K
  <2>1. <<>> \in Seq(H) /\ Len(<<>>) = 0
    BY EmptySeq
  <2> QED
    BY <2>1 DEF AllApart
<1>3. ASSUME NEW k \in K, NEW i \in 1..n PROVE AddSighting(k, found[i]) \in K
  <2>1. k \in Seq(H) /\ AllApart(k) /\ found[i] \in H
    BY <1>1
  <2> QED
    BY <2>1, SightingAdds
<1>4. adds \in Steps(K, n)
  BY <1>3 DEF Steps
<1>5. \A k \in K, i \in 1..n : adds[i][k] = AddSighting(k, found[i])
  OBVIOUS
<1>6. merge(found) = by_rank((CHOOSE h : Eq(h))[n])
  BY Zenon DEF merge
<1> HIDE DEF n, adds, K
<1>8. PICK f : Iterates(f, K, <<>>, n, adds)
  BY <1>1, <1>2, <1>4, Recursion, Zenon
<1>9. /\ f \in [0..n -> K] /\ f[0] = <<>>
      /\ \A i \in 1..n : f[i] = adds[i][f[i - 1]]
  BY <1>8 DEF Iterates
<1>10. ASSUME NEW i \in 0..n
       PROVE  f[i] = IF i = 0 THEN <<>> ELSE AddSighting(f[i - 1], found[i])
  <2>1. CASE i = 0
    BY <1>9, <2>1
  <2>2. CASE i # 0
    <3>1. i - 1 \in 0..n /\ i \in 1..n
      BY <1>1, <2>2
    <3> QED
      BY <1>5, <1>9, <2>2, <3>1
  <2> QED
    BY <2>1, <2>2
<1>11. Eq(f)
  BY <1>9, <1>10
<1>12. PICK g : Eq(g) /\ merge(found) = by_rank(g[n])
  BY <1>6, <1>11
<1> DEFINE T == {i \in 0..n : g[i] = f[i]}
<1>13. 0 \in T
  BY <1>1, <1>9, <1>12
<1>14. ASSUME NEW i \in 1..n, i - 1 \in T PROVE i \in T
  <2>1. i \in 0..n /\ i # 0
    BY <1>1
  <2>2. g[i] = AddSighting(g[i - 1], found[i])
    BY <1>12, <2>1, Zenon
  <2>3. f[i] = AddSighting(f[i - 1], found[i])
    BY <1>10, <2>1
  <2>4. g[i - 1] = f[i - 1]
    BY <1>14
  <2> QED
    BY <2>1, <2>2, <2>3, <2>4
<1> HIDE DEF T
<1>15. \A i \in 0..n : i \in T
  BY <1>1, <1>13, <1>14, Induction
<1>16. g[n] \in K
  <2>1. n \in T /\ n \in 0..n
    BY <1>1, <1>15
  <2> QED
    BY <1>9, <2>1 DEF T
<1> QED
  BY <1>12, <1>16 DEF K

-----------------------------------------------------------------------------
(* The rank a warning is sorted by is the one the property speaks of.      *)
RankOf(w) ==
  2 * (CHOOSE i \in DOMAIN LEVELS : LEVELS[i] = w.level) + (IF w.cited THEN 0 ELSE 1)

(* A warning that has a rank has one only.                                 *)
LEMMA RankIs ==
  ASSUME NEW w, NEW r \in 1..6, HasRank(w, r)
  PROVE  RankOf(w) = r + 1
<1>1. /\ DOMAIN LEVELS = 1..3 /\ LEVELS[1] = "WARNING" /\ LEVELS[2] = "CAUTION"
      /\ LEVELS[3] = "NOTE"
  BY DEF LEVELS
<1>2. ASSUME NEW l \in 1..3, w.level = LEVELS[l]
      PROVE  (CHOOSE i \in DOMAIN LEVELS : LEVELS[i] = w.level) = l
  <2>1. \A i \in 1..3 : LEVELS[i] = LEVELS[l] => i = l
    BY <1>1
  <2> QED
    BY <1>1, <1>2, <2>1
<1>3. ASSUME NEW l \in 1..3, r = 2 * l - 1 PROVE RankOf(w) = r + 1
  <2>1. (r + 1) \div 2 = l /\ r % 2 = 1
    BY <1>3
  <2>2. w.level = LEVELS[l] /\ w.cited = TRUE
    BY <2>1 DEF HasRank
  <2>3. (IF w.cited THEN 0 ELSE 1) = 0
    BY <2>2
  <2>4. RankOf(w) = 2 * l + 0
    BY <1>2, <2>2, <2>3 DEF RankOf
  <2> QED
    BY <1>3, <2>4
<1>4. ASSUME NEW l \in 1..3, r = 2 * l PROVE RankOf(w) = r + 1
  <2>1. (r + 1) \div 2 = l /\ r % 2 = 0
    BY <1>4
  <2>2. w.level = LEVELS[l] /\ w.cited = (r % 2 = 1)
    BY <2>1 DEF HasRank
  <2>3. ~w.cited
    <3>1. ~(r % 2 = 1)
      BY <2>1
    <3> QED
      BY Zenon, <2>2, <3>1
  <2>4. (IF w.cited THEN 0 ELSE 1) = 1
    BY <2>3
  <2>5. RankOf(w) = 2 * l + 1
    BY <1>2, <2>2, <2>4 DEF RankOf
  <2> QED
    BY <1>4, <2>5
<1>5. \E l \in 1..3 : r = 2 * l - 1 \/ r = 2 * l
  <2>1. CASE r \in {1, 2}
    BY <2>1
  <2>2. CASE r \in {3, 4}
    BY <2>2
  <2>3. CASE r \in {5, 6}
    BY <2>3
  <2> QED
    BY <2>1, <2>2, <2>3
<1> QED
  BY <1>3, <1>4, <1>5

(* The warnings of lower ranks first.                                      *)
Ranked(told) ==
  \E rank \in [1..Len(told) -> 1..6] :
    /\ \A p \in 1..Len(told) : HasRank(told[p], rank[p])
    /\ \A p, q \in 1..Len(told) : p < q => rank[p] <= rank[q]

(* Sorting loses no distinction and orders by rank.                        *)
LEMMA ByRankSorts ==
  ASSUME NEW H, NEW kept \in Seq(H), AllApart(kept), NEW told, told = by_rank(kept)
  PROVE  told \in Seq(H) /\ AllApart(told) /\ Ranked(told)
<1>1. PICK n \in Nat : n = Len(kept) /\ DOMAIN kept = 1..n
  BY LenProperties
<1>2. Len(LEVELS) = 3 /\ 2 * Len(LEVELS) = 6
  BY DEF LEVELS
<1>3. PICK places : places = [r \in 1..6 |-> {i \in 1..n : HasRank(kept[i], r)}]
  OBVIOUS
<1>4. PICK ss : ss = [r \in 1..6 |-> SelectAt(kept, places[r])]
  OBVIOUS
<1>5. told = FlattenSeq(ss)
  <2>1. \A r \in 1..6 : places[r] = {i \in DOMAIN kept : HasRank(kept[i], r)}
    BY <1>1, <1>3
  <2>2. ss = [r \in 1..6 |-> SelectAt(kept, {i \in DOMAIN kept : HasRank(kept[i], r)})]
    BY <1>4, <2>1
  <2> QED
    BY <1>2, <2>2 DEF by_rank
<1>6. ASSUME NEW r \in 1..6
      PROVE  /\ ss[r] \in Seq(H) /\ Len(ss[r]) \in Nat
             /\ \E e : /\ e \in [1..Len(ss[r]) -> 1..n]
                       /\ \A i, j \in 1..Len(ss[r]) : i # j => e[i] # e[j]
                       /\ \A j \in 1..Len(ss[r]) : ss[r][j] = kept[e[j]] /\ HasRank(kept[e[j]], r)
  <2>1. PICK P : P = places[r]
    OBVIOUS
  <2>2. PICK s \in Seq(H) : s = SelectAt(kept, P)
    BY SelectAtPicks
  <2>3. PICK m \in Nat : m = Len(s)
    BY LenProperties
  <2>4. PICK e : Selects(e, m, n, P) /\ \A j \in 1..m : s[j] = kept[e[j]]
    BY <1>1, <2>2, <2>3, SelectAtPicks
  <2>5. /\ e \in [1..m -> 1..n] /\ \A i, j \in 1..m : i < j => e[i] < e[j]
        /\ \A i \in 1..n : i \in P <=> \E j \in 1..m : e[j] = i
    BY <2>4 DEF Selects
  <2>6. \A i, j \in 1..m : i # j => e[i] # e[j]
    <3>1. TAKE i, j \in 1..m
    <3>2. i < j \/ j < i \/ i = j
      OBVIOUS
    <3>3. e[i] \in 1..n /\ e[j] \in 1..n
      BY <2>5
    <3> QED
      BY <2>5, <3>2, <3>3
  <2>7. \A j \in 1..m : HasRank(kept[e[j]], r)
    <3>1. TAKE j \in 1..m
    <3>2. e[j] \in P /\ e[j] \in 1..n
      BY <2>5
    <3> QED
      BY <1>3, <2>1, <3>2
  <2>8. ss[r] = s
    BY <1>4, <2>1, <2>2
  <2> QED
    BY <2>3, <2>4, <2>5, <2>6, <2>7, <2>8
<1>7. ss \in [1..6 -> Seq(H)]
  BY <1>4, <1>6
<1>8. told \in Seq(H) /\ \E at : Laid(at, 6, ss, told)
  <2>1. 6 \in Nat \ {0}
    OBVIOUS
  <2> QED
    BY <1>5, <1>7, <2>1, FlattenLays
<1>9. PICK at : Laid(at, 6, ss, told)
  BY <1>8
<1>10. PICK l \in Nat : l = Len(told)
  BY <1>8, LenProperties
<1>11. /\ at \in [1..7 -> Nat] /\ at[1] = 0 /\ at[7] = l
       /\ \A k \in 1..6 : at[k + 1] = at[k] + Len(ss[k])
       /\ \A k, m \in 1..7 : k <= m => at[k] <= at[m]
       /\ \A k \in 1..6 : \A j \in 1..Len(ss[k]) : told[at[k] + j] = ss[k][j]
       /\ \A p \in 1..l : \E k \in 1..6 : \E j \in 1..Len(ss[k]) : p = at[k] + j
  <2>1. 6 + 1 = 7
    OBVIOUS
  <2> QED
    BY <1>9, <1>10, <2>1 DEF Laid
<1>12. PICK rank \in [1..l -> 1..6] : \A p \in 1..l : \E j \in 1..Len(ss[rank[p]]) : p = at[rank[p]] + j
  <2> DEFINE R == [p \in 1..l |-> CHOOSE k \in 1..6 : \E j \in 1..Len(ss[k]) : p = at[k] + j]
  <2>1. \A p \in 1..l : R[p] \in 1..6 /\ \E j \in 1..Len(ss[R[p]]) : p = at[R[p]] + j
    BY <1>11
  <2>2. R \in [1..l -> 1..6]
    BY <2>1
  <2> HIDE DEF R
  <2> QED
    BY <2>1, <2>2
<1>13. ASSUME NEW p \in 1..l
       PROVE  \E i \in 1..n : told[p] = kept[i] /\ HasRank(kept[i], rank[p])
  <2>1. PICK r \in 1..6 : r = rank[p]
    OBVIOUS
  <2>2. PICK j \in 1..Len(ss[r]) : p = at[r] + j
    BY <1>12, <2>1
  <2>3. told[p] = ss[r][j]
    BY <1>11, <2>2
  <2>4. PICK e : /\ e \in [1..Len(ss[r]) -> 1..n]
                 /\ \A i \in 1..Len(ss[r]) : ss[r][i] = kept[e[i]] /\ HasRank(kept[e[i]], r)
    BY <1>6
  <2>5. e[j] \in 1..n /\ told[p] = kept[e[j]] /\ HasRank(kept[e[j]], r)
    BY <2>2, <2>3, <2>4
  <2> QED
    BY <2>1, <2>5
<1>14. \A p \in 1..l : HasRank(told[p], rank[p])
  BY <1>13
<1>15. ASSUME NEW p \in 1..l, NEW q \in 1..l, p < q PROVE rank[p] <= rank[q]
  <2>1. PICK k \in 1..6 : k = rank[p]
    OBVIOUS
  <2>2. PICK m \in 1..6 : m = rank[q]
    OBVIOUS
  <2>3. PICK j \in 1..Len(ss[k]) : p = at[k] + j
    BY <1>12, <2>1
  <2>4. PICK i \in 1..Len(ss[m]) : q = at[m] + i
    BY <1>12, <2>2
  <2>5. SUFFICES ASSUME m < k PROVE FALSE
    BY <2>1, <2>2
  <2>6. m + 1 \in 1..7 /\ k \in 1..7 /\ m + 1 <= k /\ m \in 1..7
    BY <2>5
  <2>7. at[m + 1] <= at[k] /\ at[m + 1] = at[m] + Len(ss[m]) /\ at[m] \in Nat /\ at[k] \in Nat
    BY <1>11, <2>6
  <2>8. PICK size \in Nat : size = Len(ss[m])
    BY <1>6
  <2>9. PICK x \in Nat : x = at[m]
    BY <2>7
  <2>10. PICK y \in Nat : y = at[k]
    BY <2>7
  <2>11. x + size <= y
    BY <2>7, <2>8, <2>9, <2>10
  <2>12. p > y
    BY <2>3, <2>10
  <2>13. q <= x + size
    BY <2>4, <2>8, <2>9
  <2> QED
    BY <1>15, <2>11, <2>12, <2>13
<1>16. ASSUME NEW p \in 1..l, NEW q \in 1..l, p # q PROVE ~SameWarning(told[p], told[q])
  <2>1. PICK k \in 1..6 : k = rank[p]
    OBVIOUS
  <2>2. PICK m \in 1..6 : m = rank[q]
    OBVIOUS
  <2>3. PICK j \in 1..Len(ss[k]) : p = at[k] + j
    BY <1>12, <2>1
  <2>4. PICK i \in 1..Len(ss[m]) : q = at[m] + i
    BY <1>12, <2>2
  <2>5. told[p] = ss[k][j] /\ told[q] = ss[m][i]
    BY <1>11, <2>3, <2>4
  <2>6. \A a \in 1..n, b \in 1..n : a # b => ~SameWarning(kept[a], kept[b])
    BY <1>1 DEF AllApart
  <2>7. CASE k = m
    <3>1. PICK e : /\ e \in [1..Len(ss[k]) -> 1..n]
                   /\ \A a, b \in 1..Len(ss[k]) : a # b => e[a] # e[b]
                   /\ \A a \in 1..Len(ss[k]) : ss[k][a] = kept[e[a]] /\ HasRank(kept[e[a]], k)
      BY <1>6
    <3>2. j # i
      BY <1>16, <2>3, <2>4, <2>7
    <3>3. i \in 1..Len(ss[k]) /\ e[j] \in 1..n /\ e[i] \in 1..n /\ e[j] # e[i]
      BY <2>3, <2>4, <2>7, <3>1, <3>2
    <3>4. told[p] = kept[e[j]] /\ told[q] = kept[e[i]]
      BY <2>3, <2>5, <2>7, <3>1, <3>3
    <3> QED
      BY <2>6, <3>3, <3>4
  <2>8. CASE k # m
    <3>1. PICK a \in 1..n : told[p] = kept[a] /\ HasRank(kept[a], k)
      BY <1>13, <2>1
    <3>2. PICK b \in 1..n : told[q] = kept[b] /\ HasRank(kept[b], m)
      BY <1>13, <2>2
    <3>3. a # b
      <4>1. SUFFICES ASSUME a = b PROVE FALSE
        OBVIOUS
      <4>2. RankOf(kept[a]) = k + 1 /\ RankOf(kept[a]) = m + 1
        BY <3>1, <3>2, <4>1, RankIs
      <4> QED
        BY <2>8, <4>2
    <3> QED
      BY <2>6, <3>1, <3>2, <3>3
  <2> QED
    BY <2>7, <2>8
<1>17. Ranked(told)
  BY <1>10, <1>14, <1>15 DEF Ranked
<1>18. AllApart(told)
  BY <1>10, <1>16 DEF AllApart
<1> QED
  BY <1>8, <1>17, <1>18

(* What merge returns of honest sightings.                                 *)
LEMMA MergeTells ==
  ASSUME NEW V, NEW W, Worded(V, W), NEW X, NEW B, NEW found \in Seq(Honest(V, X, B)),
         NEW told, told = merge(found)
  PROVE  told \in Seq(Honest(V, X, B)) /\ AllApart(told) /\ Ranked(told)
<1>1. PICK kept \in Seq(Honest(V, X, B)) : AllApart(kept) /\ merge(found) = by_rank(kept)
  BY MergeKeeps
<1> QED
  BY <1>1, ByRankSorts

(* Marking the cited ones makes them true of the cited blocks.             *)
LEMMA MarkedIs ==
  ASSUME NEW V, NEW X, NEW B, NEW A, NEW w \in Honest(V, X, A)
  PROVE  Marked(w, B) \in Honest(V, X, B)
<1>1. PICK cited \in BOOLEAN : cited <=> w.for_blocks \cap B # {}
  <2>1. (w.for_blocks \cap B # {}) \in BOOLEAN
    OBVIOUS
  <2> QED
    BY <2>1
<1>2. PICK r : r = Replaced(w, w.text, cited, w.for_blocks)
  OBVIOUS
<1>3. w \in Sightings(V, X) /\ SaysTrue(w, A) /\ w.text \in Seq(V) /\ w.for_blocks \in SUBSET X
  BY HonestIs DEF Honest
<1>4. /\ r \in Sightings(V, X) /\ r.block = w.block
      /\ r.source = w.source /\ r.cited = cited /\ r.for_blocks = w.for_blocks
  BY <1>2, <1>3, ReplacedIs
<1>5. SaysTrue(r, B)
  BY <1>1, <1>3, <1>4 DEF SaysTrue
<1>6. Marked(w, B) = r
  <2>1. Marked(w, B) = Replaced(w, w.text, w.for_blocks \cap B # {}, w.for_blocks)
    BY DEF Marked
  <2>2. cited = (w.for_blocks \cap B # {})
    BY <1>1
  <2> QED
    BY <1>2, <2>1, <2>2
<1> QED
  BY <1>4, <1>5, <1>6 DEF Honest

(* What mark_cited returns of the sightings it is given.                   *)
LEMMA MarkingTells ==
  ASSUME NEW V, NEW W, Worded(V, W), NEW X, NEW B, NEW A, NEW ws \in Seq(Honest(V, X, A)),
         NEW told, told = mark_cited(ws, B)
  PROVE  told \in Seq(Honest(V, X, B)) /\ AllApart(told) /\ Ranked(told)
<1>1. PICK n \in Nat : n = Len(ws) /\ DOMAIN ws = 1..n
  BY LenProperties
<1>2. PICK H : H = Honest(V, X, B)
  OBVIOUS
<1>3. PICK ms : ms = [i \in 1..n |-> Marked(ws[i], B)]
  OBVIOUS
<1>4. \A i \in 1..n : Marked(ws[i], B) \in H
  BY <1>1, <1>2, ElementOfSeq, MarkedIs
<1>5. ms \in [1..n -> H]
  BY <1>3, <1>4
<1>6. ms \in Seq(H)
  BY <1>5
<1>7. told = merge(ms)
  BY <1>1, <1>3 DEF mark_cited
<1> QED
  BY <1>2, <1>6, <1>7, MergeTells

-----------------------------------------------------------------------------
(* The parts of a sentence have words of it.                               *)
CutUp(us, u, W) ==
  /\ DOMAIN us = 1..Len(us) /\ Len(us) \in Nat \ {0} /\ us = [k \in 1..Len(us) |-> us[k]]
  /\ \A k \in 1..Len(us) : \E ws \in Seq(W) :
       ws # <<>> /\ us[k] = Rewritten(u, k, IF k = 1 THEN u.kind ELSE "plain", ws)

(* hard_split cuts a sentence between its words.                           *)
LEMMA SplitWorded ==
  ASSUME NEW W, NEW u, u.words \in Seq(W), u.words # <<>>, NEW max, NEW us, us = hard_split(u, max)
  PROVE  CutUp(us, u, W)
<1> DEFINE ws == u.words
<1>1. ws \in Seq(W) /\ ws # <<>>
  OBVIOUS
<1>2. PICK n \in Nat \ {0} : n = Len(ws)
  BY <1>1, EmptySeq
<1>3. PICK g : Splits(g, u.words, max) /\ hard_split(u, max) = Pieces(u, g[Len(u.words)])
  BY SplitUnfolds
<1>4. g[0] = <<>> /\ (\A i \in 1..n : g[i] = SplitStep(g[i - 1], ws[i], max)) /\ us = Pieces(u, g[n])
  BY <1>2, <1>3 DEF Splits
<1> HIDE DEF ws
<1>5. \A i \in 0..n : g[i] \in Seq(Seq(W)) /\ \E cut : Cuts(cut, g[i], ws, i)
  <2>1. ASSUME NEW i \in 1..n PROVE Anew(g[i], g[i - 1], ws[i]) \/ On(g[i], g[i - 1], ws[i])
    BY <1>4, SplitStepGroups
  <2> QED
    BY <1>1, <1>2, <1>4, <2>1, GroupsCut
<1>6. PICK parts \in Seq(Seq(W)) : parts = g[n]
  BY <1>5
<1>7. PICK cut : Cuts(cut, parts, ws, n)
  BY <1>5, <1>6
<1>8. n \in 0..Len(ws)
  BY <1>2
<1>9. PICK m \in Nat : m = Len(parts) /\ DOMAIN parts = 1..m
  BY LenProperties
<1>10. m > 0
  BY <1>1, <1>2, <1>7, <1>8, <1>9, CutsFew
<1>11. ASSUME NEW k \in 1..m PROVE parts[k] \in Seq(W) /\ parts[k] # <<>>
  <2>1. parts[k] \in Seq(W) /\ Len(parts[k]) = cut[k] - cut[k - 1] /\ cut[k] - cut[k - 1] \in Nat \ {0}
    BY <1>1, <1>7, <1>8, <1>9, CutsFew
  <2>2. Len(<<>>) = 0
    OBVIOUS
  <2> QED
    BY <2>1, <2>2
<1>12. us = [k \in 1..m |-> Rewritten(u, k, IF k = 1 THEN u.kind ELSE "plain", parts[k])]
  BY <1>4, <1>6, <1>9 DEF Pieces
<1>13. Len(us) = m
  <2>1. PICK R : R = Range(us)
    OBVIOUS
  <2>2. us \in [1..m -> R]
    BY <1>12, <2>1 DEF Range
  <2>3. us \in Seq(R) /\ Len(us) = m
    BY <2>2
  <2> QED
    BY <2>3
<1> QED
  BY <1>9, <1>10, <1>11, <1>12, <1>13 DEF CutUp

(* A set of sentences that has those made from them.                       *)
Closed(V, W) ==
  /\ Worded(V, W)
  /\ \A u \in V : u.part \in Nat
  /\ \A u \in V, p \in Nat, ws \in Seq(W) : ws # <<>> =>
       Rewritten(u, p, u.kind, ws) \in V /\ Rewritten(u, p, "plain", ws) \in V

(* Any sentences with words are among some that are closed.                *)
LEMMA ClosedExists ==
  ASSUME NEW C, NEW W, Worded(C, W), \A u \in C : u.part \in Nat
  PROVE  \E V : C \subseteq V /\ Closed(V, W)
<1>1. PICK K : K = {u.kind : u \in C} \cup {"plain"}
  OBVIOUS
<1>2. PICK T : T = {ws \in Seq(W) : ws # <<>>}
  OBVIOUS
<1> DEFINE R == {Rewritten(u, p, k, ws) : u \in C, p \in Nat, k \in K, ws \in T}
<1>3. \A x : x \in R <=> \E u \in C, p \in Nat, k \in K, ws \in T : x = Rewritten(u, p, k, ws)
  OBVIOUS
<1> HIDE DEF R
<1>4. PICK V : V = C \cup R
  OBVIOUS
<1>5. ASSUME NEW x \in V
      PROVE  /\ x.part \in Nat /\ x.words \in Seq(W) /\ x.words # <<>> /\ x.kind \in K
             /\ \E u \in C : x.id = u.id /\ x.level = u.level
  <2>1. CASE x \in C
    BY <1>1, <2>1 DEF Worded
  <2>2. CASE x \in R
    <3>1. PICK u \in C, p \in Nat, k \in K, ws \in T : x = Rewritten(u, p, k, ws)
      BY <1>3, <2>2
    <3> QED
      BY <1>2, <3>1 DEF Rewritten
  <2> QED
    BY <1>4, <2>1, <2>2
<1>6. ASSUME NEW x \in V, NEW p \in Nat, NEW k \in K, NEW ws \in T
      PROVE  Rewritten(x, p, k, ws) \in V
  <2>1. PICK u \in C : x.id = u.id /\ x.level = u.level
    BY <1>5
  <2>2. Rewritten(x, p, k, ws) = Rewritten(u, p, k, ws)
    BY <2>1 DEF Rewritten
  <2> QED
    BY <1>3, <1>4, <2>2
<1>7. Worded(V, W)
  BY <1>5 DEF Worded
<1>8. ASSUME NEW x \in V, NEW p \in Nat, NEW ws \in Seq(W), ws # <<>>
      PROVE  Rewritten(x, p, x.kind, ws) \in V /\ Rewritten(x, p, "plain", ws) \in V
  <2>1. x.kind \in K /\ "plain" \in K /\ ws \in T
    BY <1>1, <1>2, <1>5, <1>8
  <2> QED
    BY <1>6, <2>1
<1> QED
  BY <1>4, <1>5, <1>7, <1>8 DEF Closed

(* The words of a sentence, replaced.                                      *)
LEMMA WithWordsIs ==
  ASSUME NEW V, NEW W, Closed(V, W), NEW u \in V, NEW ws \in Seq(W), ws # <<>>
  PROVE  WithWords(u, ws) \in V
  BY DEF Closed, WithWords

-----------------------------------------------------------------------------
(* Sentences put together are made of the sentences there are.             *)
LEMMA SentenceStepIn ==
  ASSUME NEW V, NEW W, Closed(V, W), NEW told \in Seq(V), NEW u \in V
  PROVE  SentenceStep(told, u) \in Seq(V) \ {<<>>}
<1>1. CASE told # <<>> /\ u.part > 1
  <2>1. PICK f \in Seq(V) : f = Front(told)
    BY <1>1, FrontLast
  <2>2. PICK l \in V : l = Last(told)
    BY <1>1, FrontLast
  <2>3. PICK a \in Seq(W) : a = l.words /\ a # <<>>
    BY DEF Closed, Worded
  <2>4. PICK b \in Seq(W) : b = u.words /\ b # <<>>
    BY DEF Closed, Worded
  <2>5. PICK ws \in Seq(W) : ws = a \o b
    BY ConcatProperties
  <2>6. ws # <<>>
    BY <2>3, <2>5, ConcatEqualIffEmpty
  <2>7. PICK x \in V : x = WithWords(l, ws)
    BY <2>6, WithWordsIs
  <2>8. SentenceStep(told, u) = Append(f, x)
    BY <1>1, <2>1, <2>2, <2>3, <2>4, <2>5, <2>7 DEF SentenceStep
  <2> QED
    BY <2>8, AppendProperties
<1>2. CASE ~(told # <<>> /\ u.part > 1)
  <2>1. SentenceStep(told, u) = Append(told, u)
    BY <1>2 DEF SentenceStep
  <2> QED
    BY <2>1, AppendProperties
<1> QED
  BY <1>1, <1>2

(* Sentences puts the parts of a text together, and loses none.            *)
LEMMA SentencesIn ==
  ASSUME NEW V, NEW W, Closed(V, W), NEW us \in Seq(V)
  PROVE  Sentences(us) \in Seq(V) /\ (us # <<>> => Sentences(us) # <<>>)
<1> DEFINE n == Len(us)
           K == Seq(V)
           adds == [i \in 1..n |-> [k \in K |-> SentenceStep(k, us[i])]]
           Eq(f) == f = [i \in 0..n |-> IF i = 0 THEN <<>> ELSE SentenceStep(f[i - 1], us[i])]
<1>1. n \in Nat /\ (\A i \in 1..n : us[i] \in V) /\ (us # <<>> => n # 0)
  BY LenProperties, ElementOfSeq, EmptySeq
<1>2. <<>> \in K
  BY EmptySeq
<1>3. ASSUME NEW k \in K, NEW i \in 1..n PROVE SentenceStep(k, us[i]) \in K \ {<<>>}
  BY <1>1, SentenceStepIn
<1>4. adds \in Steps(K, n)
  BY <1>3 DEF Steps
<1>5. \A k \in K, i \in 1..n : adds[i][k] = SentenceStep(k, us[i])
  OBVIOUS
<1>6. Sentences(us) = (CHOOSE h : Eq(h))[n]
  BY Zenon DEF Sentences
<1> HIDE DEF n, adds, K
<1>8. PICK f : Iterates(f, K, <<>>, n, adds)
  BY <1>1, <1>2, <1>4, Recursion, Zenon
<1>9. /\ f \in [0..n -> K] /\ f[0] = <<>>
      /\ \A i \in 1..n : f[i] = adds[i][f[i - 1]]
  BY <1>8 DEF Iterates
<1>10. ASSUME NEW i \in 0..n
       PROVE  f[i] = IF i = 0 THEN <<>> ELSE SentenceStep(f[i - 1], us[i])
  <2>1. CASE i = 0
    BY <1>9, <2>1
  <2>2. CASE i # 0
    <3>1. i - 1 \in 0..n /\ i \in 1..n
      BY <1>1, <2>2
    <3> QED
      BY <1>5, <1>9, <2>2, <3>1
  <2> QED
    BY <2>1, <2>2
<1>11. Eq(f)
  BY <1>9, <1>10
<1>12. PICK g : Eq(g) /\ Sentences(us) = g[n]
  BY <1>6, <1>11
<1> DEFINE T == {i \in 0..n : g[i] \in K /\ (i # 0 => g[i] # <<>>)}
<1>13. 0 \in T
  BY <1>1, <1>2, <1>12
<1>14. ASSUME NEW i \in 1..n, i - 1 \in T PROVE i \in T
  <2>1. i \in 0..n /\ i # 0
    BY <1>1
  <2>2. g[i] = SentenceStep(g[i - 1], us[i])
    BY <1>12, <2>1, Zenon
  <2>3. g[i - 1] \in K
    BY <1>14
  <2>4. g[i] \in K /\ g[i] # <<>>
    BY <1>3, <2>2, <2>3
  <2> QED
    BY <2>1, <2>4
<1> HIDE DEF T
<1>15. \A i \in 0..n : i \in T
  BY <1>1, <1>13, <1>14, Induction
<1>16. n \in T
  BY <1>1, <1>15
<1> QED
  BY <1>1, <1>12, <1>16 DEF T, K

(* The last of some places of a list.                                      *)
LEMMA LastPlace ==
  ASSUME NEW n \in Nat, NEW T \in SUBSET (0..n), T # {}
  PROVE  Max(T) \in T /\ \A i \in T : i <= Max(T)
<1> DEFINE S == {n - i : i \in T}
<1>1. S \in SUBSET Nat /\ S # {}
  <2>1. \A i \in T : n - i \in Nat
    OBVIOUS
  <2>2. PICK i \in T : TRUE
    OBVIOUS
  <2>3. n - i \in S
    BY <2>2
  <2> QED
    BY <2>1, <2>3
<1>2. PICK m \in S : \A i \in S : m <= i
  BY <1>1, Least
<1>3. PICK x \in T : m = n - x
  OBVIOUS
<1>4. ASSUME NEW i \in T PROVE x >= i
  <2>1. n - i \in S
    OBVIOUS
  <2>2. n - x <= n - i
    BY <1>2, <1>3, <2>1
  <2> QED
    BY <1>3, <2>2
<1>5. Max(T) = CHOOSE y \in T : \A z \in T : y >= z
  BY DEF Max
<1>6. Max(T) \in T /\ \A z \in T : Max(T) >= z
  BY <1>3, <1>4, <1>5
<1> QED
  BY <1>6

(* The first elements of a list.                                           *)
LEMMA FirstOnes ==
  ASSUME NEW V, NEW s \in Seq(V), NEW m \in 0..Len(s)
  PROVE  SubSeq(s, 1, m) \in Seq(V)
<1>1. 0 \in 0..Len(s) /\ 0 <= m /\ 0 + 1 = 1
  BY LenProperties
<1>2. PICK t : t = SubSeq(s, 0 + 1, m)
  OBVIOUS
<1>3. t \in Seq(V)
  BY <1>1, <1>2, StretchIs
<1> QED
  BY <1>1, <1>2, <1>3

(* The body of a warning is made of the sentences of its text.             *)
LEMMA BodyIn ==
  ASSUME NEW V, NEW W, Closed(V, W), NEW text \in Seq(V), NEW i \in 1..Len(text)
  PROVE  Body(text, i) \in Seq(V)
<1>1. PICK n \in Nat : n = Len(text)
  BY LenProperties
<1>2. PICK e \in i + 1..n + 1 : e = first_end(text, i)
  <2> DEFINE ends == {j \in i + 1..n : \/ text[j].kind \in Labels \cup {"heading", "item"}
                                      \/ (text[i].kind = "banner" /\ text[j].part = 1)}
  <2>1. PICK T : T = ends \cup {n + 1}
    OBVIOUS
  <2>2. first_end(text, i) = Min(T)
    BY <1>1, <2>1 DEF first_end
  <2>3. T \in SUBSET (1..n + 1) /\ T # {} /\ T \subseteq i + 1..n + 1 /\ n + 1 \in Nat
    BY <1>1, <2>1
  <2>4. Min(T) \in T
    BY <2>3, FirstPlace
  <2> QED
    BY <2>2, <2>3, <2>4
<1>3. PICK s : s = SubSeq(text, i, e - 1)
  OBVIOUS
<1>4. s \in Seq(V) /\ s # <<>>
  <2>1. PICK a \in 0..Len(text) : a = i - 1
    BY <1>1
  <2>2. PICK b \in 0..Len(text) : b = e - 1
    BY <1>1, <1>2
  <2>3. a <= b /\ b - a > 0 /\ a + 1 = i
    BY <2>1, <2>2, <1>2
  <2>4. s = SubSeq(text, a + 1, b)
    BY <1>3, <2>2, <2>3
  <2>5. s \in Seq(V) /\ Len(s) = b - a
    BY <2>3, <2>4, StretchIs
  <2>6. Len(<<>>) = 0
    OBVIOUS
  <2> QED
    BY <2>3, <2>5, <2>6
<1>5. PICK told \in Seq(V) : told = Sentences(s) /\ told # <<>>
  BY <1>4, SentencesIn
<1>6. PICK h \in V : h = Head(told)
  BY <1>5, HeadTailProperties
<1>7. PICK t \in Seq(V) : t = Tail(told)
  BY <1>5, HeadTailProperties
<1>8. PICK ws \in Seq(W) : ws = h.words /\ ws # <<>>
  BY DEF Closed, Worded
<1>9. PICK first \in Seq(W) : first = Tail(ws)
  BY <1>8, HeadTailProperties
<1>10. PICK b \in Seq(V) : b = IF first = <<>> THEN <<>> ELSE <<WithWords(h, first)>>
  <2>1. CASE first = <<>>
    BY <2>1, EmptySeq
  <2>2. CASE first # <<>>
    <3>1. PICK x \in V : x = WithWords(h, first)
      BY <2>2, WithWordsIs
    <3>2. <<x>> \in Seq(V)
      OBVIOUS
    <3> QED
      BY <2>2, <3>1, <3>2
  <2> QED
    BY <2>1, <2>2
<1>11. Body(text, i) = b \o t
  BY <1>2, <1>3, <1>5, <1>6, <1>7, <1>8, <1>9, <1>10 DEF Body
<1> QED
  BY <1>11, ConcatProperties

(* So is what is left of it when it is too long.                           *)
LEMMA CapIn ==
  ASSUME NEW V, NEW W, Closed(V, W), NEW body \in Seq(V)
  PROVE  cap(body) \in Seq(V)
<1> DEFINE fits == {k \in 1..Len(body) : Length(SubSeq(body, 1, k)) < MAX_WARNING_CHARS}
                     \cup IF Chars(Head(body)) = MAX_WARNING_CHARS THEN {1} ELSE {}
           short == <<Head(hard_split(Head(body), MAX_WARNING_CHARS - 1))>>
<1>1. PICK F : F = fits
  OBVIOUS
<1>2. PICK x : x = short
  OBVIOUS
<1>3. cap(body) = IF Length(body) <= MAX_WARNING_CHARS THEN body
                  ELSE IF F # {} THEN SubSeq(body, 1, Max(F)) ELSE x
  BY <1>1, <1>2 DEF cap
<1>4. CASE Length(body) <= MAX_WARNING_CHARS
  BY <1>3, <1>4
<1>5. CASE ~(Length(body) <= MAX_WARNING_CHARS)
  <2>1. body # <<>>
    <3>1. SUFFICES ASSUME body = <<>> PROVE FALSE
      OBVIOUS
    <3>2. Length(body) = 0 - 1
      BY <3>1, NoLength
    <3> QED
      BY <1>5, <3>2 DEF MAX_WARNING_CHARS
  <2>2. PICK n \in Nat \ {0} : n = Len(body)
    BY <2>1, EmptySeq
  <2>3. CASE F # {}
    <3>1. F \in SUBSET (0..n)
      BY <1>1, <2>2
    <3>2. PICK m \in 0..Len(body) : m = Max(F)
      BY <2>2, <2>3, <3>1, LastPlace
    <3>3. SubSeq(body, 1, m) \in Seq(V)
      BY FirstOnes
    <3> QED
      BY <1>3, <1>5, <2>3, <3>2, <3>3
  <2>4. CASE F = {}
    <3>1. PICK h \in V : h = Head(body)
      BY <2>1, HeadTailProperties
    <3>2. h.words \in Seq(W) /\ h.words # <<>>
      BY DEF Closed, Worded
    <3>3. PICK us : us = hard_split(h, MAX_WARNING_CHARS - 1)
      OBVIOUS
    <3>a. CutUp(us, h, W)
      <4>1. PICK most : most = MAX_WARNING_CHARS - 1
        OBVIOUS
      <4>2. us = hard_split(h, most)
        BY <3>3, <4>1
      <4> QED
        BY <3>2, <4>2, SplitWorded
    <3>4. PICK m \in Nat \ {0} : m = Len(us) /\ us = [k \in 1..m |-> us[k]]
      BY <3>a DEF CutUp
    <3>5. us[1] \in V
      <4>1. PICK one : one = 1
        OBVIOUS
      <4>2. one \in 1..Len(us)
        BY <3>4, <4>1
      <4>3. PICK ws \in Seq(W) : ws # <<>> /\ us[one] = Rewritten(h, one, IF one = 1 THEN h.kind ELSE "plain", ws)
        BY <3>a, <4>2 DEF CutUp
      <4>4. us[one] = Rewritten(h, one, h.kind, ws)
        BY <4>1, <4>3
      <4>5. Rewritten(h, one, h.kind, ws) \in V
        BY <4>1, <4>3 DEF Closed
      <4> QED
        BY <4>1, <4>4, <4>5
    <3>6. Head(us) = us[1]
      BY <3>4
    <3>7. x = <<us[1]>>
      BY <1>2, <3>1, <3>3, <3>6
    <3>8. cap(body) = x
      BY <1>3, <1>5, <2>4
    <3> QED
      BY <3>5, <3>7, <3>8
  <2> QED
    BY <2>3, <2>4
<1> QED
  BY <1>4, <1>5

(* The warnings found in a text.                                           *)
LEMMA ExtractedIn ==
  ASSUME NEW V, NEW W, Closed(V, W), NEW text \in Seq(V), NEW xs, xs = extract_warnings(text)
  PROVE  \E R : xs \in Seq(R) /\ \A x \in R : x.text \in Seq(V)
<1>1. PICK n \in Nat : n = Len(text) /\ DOMAIN text = 1..n
  BY LenProperties
<1>2. PICK T : T = {i \in 1..n : /\ text[i].kind \in Labels
                                 /\ Length(Body(text, i)) >= MIN_WARNING_CHARS}
  OBVIOUS
<1>3. PICK all \in Seq(1..n) : all = [i \in 1..n |-> i]
  <2>1. [i \in 1..n |-> i] \in Seq(1..n)
    OBVIOUS
  <2> QED
    BY <2>1
<1>4. PICK starts \in Seq(1..n) : starts = Keep(all, T)
  BY KeepPicks
<1>5. PICK m \in Nat : m = Len(starts) /\ DOMAIN starts = 1..m
  BY LenProperties
<1>6. xs = [k \in 1..m |-> [level |-> text[starts[k]].level, start |-> starts[k],
                            text |-> cap(Body(text, starts[k]))]]
  <2>1. starts = Keep([i \in DOMAIN text |-> i],
                     {i \in DOMAIN text : /\ text[i].kind \in Labels
                                          /\ Length(Body(text, i)) >= MIN_WARNING_CHARS})
    BY <1>1, <1>2, <1>3, <1>4
  <2> QED
    BY <1>5, <2>1 DEF extract_warnings
<1>7. ASSUME NEW k \in 1..m PROVE xs[k].text \in Seq(V)
  <2>1. PICK i \in 1..Len(text) : i = starts[k]
    BY <1>1, <1>5, ElementOfSeq
  <2>2. PICK body \in Seq(V) : body = Body(text, i)
    BY BodyIn
  <2>3. cap(body) \in Seq(V)
    BY CapIn
  <2>4. xs[k].text = cap(Body(text, starts[k]))
    BY <1>6
  <2> QED
    BY <2>1, <2>2, <2>3, <2>4
<1>8. PICK R : R = {xs[k] : k \in 1..m}
  OBVIOUS
<1>9. xs \in [1..m -> R]
  BY <1>6, <1>8
<1>10. xs \in Seq(R)
  BY <1>9
<1> QED
  BY <1>7, <1>8, <1>10

-----------------------------------------------------------------------------
(* How much of a text the next one begins with.                            *)
LEMMA SharedIs ==
  ASSUME NEW V, NEW a \in Seq(V), NEW b \in Seq(V)
  PROVE  SharedUnits(a, b) \in 0..Len(a)
<1>1. PICK n \in Nat : n = Len(a)
  BY LenProperties
<1>2. PICK m \in Nat : m = Len(b)
  BY LenProperties
<1>3. PICK l \in Nat : l = Min({n, m}) /\ l <= n
  <2>1. Min({n, m}) = CHOOSE x \in {n, m} : \A y \in {n, m} : x =< y
    BY DEF Min
  <2>2. \E x \in {n, m} : \A y \in {n, m} : x =< y
    OBVIOUS
  <2>3. Min({n, m}) \in {n, m} /\ \A y \in {n, m} : Min({n, m}) =< y
    BY <2>1, <2>2
  <2> QED
    BY <2>3
<1>4. PICK S : S = {k \in 1..l : /\ Text(SubSeq(a, Len(a) - k + 1, Len(a))) = Text(SubSeq(b, 1, k))
                                /\ Length(SubSeq(b, 1, k)) \in MIN_OVERLAP_CHARS..MAX_OVERLAP_CHARS}
  OBVIOUS
<1>5. SharedUnits(a, b) = Max({0} \cup S)
  BY <1>1, <1>2, <1>3, <1>4 DEF SharedUnits
<1>6. PICK T : T = {0} \cup S
  OBVIOUS
<1>7. T \in SUBSET (0..n) /\ T # {}
  <2>1. S \subseteq 1..l
    BY <1>4
  <2>2. 1..l \subseteq 0..n
    BY <1>3
  <2> QED
    BY <1>6, <2>1, <2>2
<1>8. Max(T) \in T
  BY <1>7, LastPlace
<1> QED
  BY <1>1, <1>5, <1>6, <1>7, <1>8

(* Chunks put together are made of their sentences.                        *)
JoinStates(V, P) == [text : Seq(V), pieces : Seq([start : Int, end : Int, page : P])]
HoldUnits(R, V) == \A c \in R : c.units \in Seq(V)

(* One chunk more.                                                         *)
LEMMA JoinStepIn ==
  ASSUME NEW V, NEW P, NEW acc \in JoinStates(V, P), NEW c, c.units \in Seq(V), c.page \in P
  PROVE  JoinStep(acc, c) \in JoinStates(V, P)
<1>1. PICK text \in Seq(V) : text = acc.text
  BY DEF JoinStates
<1>2. PICK units \in Seq(V) : units = c.units
  OBVIOUS
<1>3. PICK Q : Q = [start : Int, end : Int, page : P]
  OBVIOUS
<1>4. PICK pieces \in Seq(Q) : pieces = acc.pieces
  BY <1>3 DEF JoinStates
<1>5. PICK n \in Nat : n = Len(text)
  BY LenProperties
<1>6. PICK k \in 0..n : k = SharedUnits(text, units)
  BY <1>5, SharedIs
<1>7. PICK start \in Int : start = n - k + 1
  OBVIOUS
<1>8. PICK m \in 0..Len(text) : m = start - 1
  <2>1. PICK j \in Int : j = start - 1
    BY <1>7
  <2>2. 0 <= j /\ j <= n
    BY <1>5, <1>6, <1>7, <2>1
  <2> QED
    BY <1>5, <2>1, <2>2
<1>9. PICK head \in Seq(V) : head = SubSeq(text, 1, m)
  BY FirstOnes
<1>10. PICK more \in Seq(V) : more = head \o units
  BY ConcatProperties
<1>11. PICK end \in Int : end = start + Len(units)
  <2>1. Len(units) \in Nat
    BY LenProperties
  <2> QED
    BY <2>1
<1>12. PICK piece \in Q : piece = [start |-> start, end |-> end, page |-> c.page]
  BY <1>3
<1>13. PICK ps \in Seq(Q) : ps = Append(pieces, piece)
  BY AppendProperties
<1>14. JoinStep(acc, c) = [text |-> more, pieces |-> ps]
  BY <1>1, <1>2, <1>4, <1>5, <1>6, <1>7, <1>8, <1>9, <1>10, <1>11, <1>12, <1>13 DEF JoinStep
<1> QED
  BY <1>3, <1>14 DEF JoinStates

(* The text join_chunks makes of chunks has sentences of theirs.           *)
LEMMA JoinedIn ==
  ASSUME NEW V, NEW R, HoldUnits(R, V), NEW chs \in Seq(R)
  PROVE  join_chunks(chs).text \in Seq(V)
<1> DEFINE n == Len(chs)
           P == {c.page : c \in R}
           K == JoinStates(V, P)
           first == [text |-> <<>>, pieces |-> <<>>]
           adds == [i \in 1..n |-> [k \in K |-> JoinStep(k, chs[i])]]
           Eq(f) == f = [i \in 0..n |-> IF i = 0 THEN first ELSE JoinStep(f[i - 1], chs[i])]
<1>1. n \in Nat /\ \A i \in 1..n : chs[i] \in R
  BY LenProperties, ElementOfSeq
<1>2. first \in K
  <2>1. <<>> \in Seq(V)
    BY EmptySeq
  <2>2. <<>> \in Seq([start : Int, end : Int, page : P])
    BY EmptySeq
  <2> QED
    BY <2>1, <2>2 DEF JoinStates
<1>3. ASSUME NEW k \in K, NEW i \in 1..n PROVE JoinStep(k, chs[i]) \in K
  <2>1. PICK c \in R : c = chs[i]
    BY <1>1
  <2>2. c.units \in Seq(V) /\ c.page \in P
    BY DEF HoldUnits
  <2> QED
    BY <2>1, <2>2, JoinStepIn
<1>4. adds \in Steps(K, n)
  BY <1>3 DEF Steps
<1>5. \A k \in K, i \in 1..n : adds[i][k] = JoinStep(k, chs[i])
  OBVIOUS
<1>6. join_chunks(chs) = (CHOOSE h : Eq(h))[n]
  BY Zenon DEF join_chunks
<1> HIDE DEF n, adds, K, first
<1>8. PICK f : Iterates(f, K, first, n, adds)
  BY <1>1, <1>2, <1>4, Recursion, Zenon
<1>9. /\ f \in [0..n -> K] /\ f[0] = first
      /\ \A i \in 1..n : f[i] = adds[i][f[i - 1]]
  BY <1>8 DEF Iterates
<1>10. ASSUME NEW i \in 0..n
       PROVE  f[i] = IF i = 0 THEN first ELSE JoinStep(f[i - 1], chs[i])
  <2>1. CASE i = 0
    BY <1>9, <2>1
  <2>2. CASE i # 0
    <3>1. i - 1 \in 0..n /\ i \in 1..n
      BY <1>1, <2>2
    <3> QED
      BY <1>5, <1>9, <2>2, <3>1
  <2> QED
    BY <2>1, <2>2
<1>11. Eq(f)
  BY <1>9, <1>10
<1>12. PICK g : Eq(g) /\ join_chunks(chs) = g[n]
  BY <1>6, <1>11
<1> DEFINE T == {i \in 0..n : g[i] \in K}
<1>13. 0 \in T
  BY <1>1, <1>2, <1>12
<1>14. ASSUME NEW i \in 1..n, i - 1 \in T PROVE i \in T
  <2>1. i \in 0..n /\ i # 0
    BY <1>1
  <2>2. g[i] = JoinStep(g[i - 1], chs[i])
    BY <1>12, <2>1, Zenon
  <2>3. g[i - 1] \in K
    BY <1>14
  <2>4. g[i] \in K
    BY <1>3, <2>2, <2>3
  <2> QED
    BY <2>1, <2>4
<1> HIDE DEF T
<1>15. \A i \in 0..n : i \in T
  BY <1>1, <1>13, <1>14, Induction
<1>16. g[n] \in K
  <2>1. n \in T
    BY <1>1, <1>15
  <2> QED
    BY <2>1 DEF T
<1> QED
  BY <1>12, <1>16 DEF K, JoinStates

(* The chunks around the one that is read are chunks of the document.      *)
LEMMA WindowIs ==
  ASSUME NEW N \in Nat, NEW known \in SUBSET (1..N), NEW i \in known
  PROVE  \E from \in 1..i, to \in i..N : window(known, i) = [from |-> from, to |-> to]
<1>1. PICK back \in Nat : back = Lookback
  BY WarningsAssumption
<1>2. PICK A : A = {j \in i - Lookback..i : j..i \subseteq known}
  OBVIOUS
<1>3. PICK Z : Z = {j \in i..i + LOOKAHEAD_CHUNKS : i..j \subseteq known}
  OBVIOUS
<1>4. window(known, i) = [from |-> Min(A), to |-> Max(Z)]
  BY <1>2, <1>3 DEF window
<1>5. i \in Int /\ i \in 1..N /\ i..i = {i}
  OBVIOUS
<1>6. A \in SUBSET (1..N) /\ A # {}
  <2>1. i \in A
    BY <1>1, <1>2, <1>5
  <2>2. ASSUME NEW j \in A PROVE j \in 1..N
    <3>1. j \in Int /\ j <= i /\ j..i \subseteq known
      BY <1>1, <1>2, <1>5
    <3>2. j \in j..i
      BY <1>5, <3>1
    <3> QED
      BY <3>1, <3>2
  <2> QED
    BY <2>1, <2>2
<1>7. Z \in SUBSET (1..N) /\ Z # {}
  <2>1. i \in Z
    BY <1>3, <1>5 DEF LOOKAHEAD_CHUNKS
  <2>2. ASSUME NEW j \in Z PROVE j \in 1..N
    <3>1. j \in Int /\ i <= j /\ i..j \subseteq known
      BY <1>3, <1>5 DEF LOOKAHEAD_CHUNKS
    <3>2. j \in i..j
      BY <1>5, <3>1
    <3> QED
      BY <3>1, <3>2
  <2> QED
    BY <2>1, <2>2
<1>8. PICK from \in A : from = Min(A)
  BY <1>6, FirstPlace
<1>9. PICK to \in Z : to = Max(Z)
  <2>1. Z \in SUBSET (0..N)
    BY <1>7
  <2> QED
    BY <1>7, <2>1, LastPlace
<1>10. from \in 1..i /\ to \in i..N
  <2>1. from \in 1..N /\ from <= i
    BY <1>1, <1>2, <1>5, <1>6
  <2>2. to \in 1..N /\ i <= to
    BY <1>3, <1>5, <1>7 DEF LOOKAHEAD_CHUNKS
  <2> QED
    BY <1>5, <2>1, <2>2
<1> QED
  BY <1>4, <1>8, <1>9, <1>10

(* The warnings sighted around a chunk say the truth of the block it is    *)
(* read in.                                                                *)
LEMMA SightedIn ==
  ASSUME NEW V, NEW W, Closed(V, W), NEW R, HoldUnits(R, V), NEW chs \in Seq(R),
         NEW N \in Nat, N = Len(chs), NEW known \in SUBSET (1..N), NEW i \in known, NEW n
  PROVE  \E X : warnings_in_window(chs, known, i, n) \in Seq(Honest(V, X, {}))
<1> DEFINE w == window(known, i)
           joined == join_chunks(SubSeq(chs, w.from, w.to))
           read_ == joined.pieces[i - w.from + 1]
           headings == {h \in 1..read_.start : h \in DOMAIN joined.text /\ joined.text[h].kind = "heading"}
           paragraph == Max({1} \cup headings)
           page(at) == Head(SelectSeq(joined.pieces, LAMBDA p : p.start <= at /\ at < p.end)).page
           inside(x) == read_.start <= x.start /\ x.start < read_.end
           all == extract_warnings(joined.text)
           found == SelectAt(all, {k \in DOMAIN all :
                      inside(all[k]) \/ (paragraph <= all[k].start /\ all[k].start < read_.start)})
           out == [k \in DOMAIN found |->
                    [level |-> found[k].level, text |-> found[k].text, page |-> page(found[k].start),
                     block |-> IF inside(found[k]) THEN n ELSE 0,
                     source |-> IF inside(found[k]) THEN "block" ELSE "paragraph_start",
                     cited |-> FALSE, for_blocks |-> {n}]]
<1>1. warnings_in_window(chs, known, i, n) = out
  BY Zenon DEF warnings_in_window
<1>2. SubSeq(chs, w.from, w.to) \in Seq(R)
  <2>1. PICK from \in 1..i, to \in i..N : w = [from |-> from, to |-> to]
    BY WindowIs
  <2>2. i \in 1..N
    OBVIOUS
  <2>3. PICK a \in 0..Len(chs) : a = from - 1 /\ a + 1 = from
    BY <2>1, <2>2
  <2>4. to \in 0..Len(chs) /\ a <= to
    BY <2>1, <2>2, <2>3
  <2>5. PICK t : t = SubSeq(chs, a + 1, to)
    OBVIOUS
  <2>6. t \in Seq(R)
    BY <2>3, <2>4, <2>5, StretchIs
  <2>7. w.from = from /\ w.to = to
    BY <2>1
  <2> QED
    BY <2>3, <2>5, <2>6, <2>7
<1>3. joined.text \in Seq(V)
  BY <1>2, JoinedIn
<1>4. PICK S : all \in Seq(S) /\ \A x \in S : x.text \in Seq(V)
  BY <1>3, ExtractedIn
<1>5. found \in Seq(S)
  BY <1>4, SelectAtPicks
<1> HIDE DEF found, all, page, inside
<1>11. PICK m \in Nat : m = Len(found) /\ DOMAIN found = 1..m
  BY <1>5, LenProperties
<1>12. out = [k \in 1..m |->
         [level |-> found[k].level, text |-> found[k].text, page |-> page(found[k].start),
          block |-> IF inside(found[k]) THEN n ELSE 0,
          source |-> IF inside(found[k]) THEN "block" ELSE "paragraph_start",
          cited |-> FALSE, for_blocks |-> {n}]]
  BY <1>11
<1> HIDE DEF out
<1>15. PICK X : X = {out[k].level : k \in 1..m} \cup {out[k].page : k \in 1..m} \cup {out[k].block : k \in 1..m}
                    \cup {out[k].source : k \in 1..m} \cup {n}
  OBVIOUS
<1>16. ASSUME NEW k \in 1..m PROVE out[k] \in Honest(V, X, {})
  <2>1. found[k] \in S
    BY <1>5, <1>11, ElementOfSeq
  <2>a. PICK l, t : l = found[k].level /\ t = found[k].text
    OBVIOUS
  <2>2. PICK q : q = page(found[k].start)
    OBVIOUS
  <2>3. PICK z \in BOOLEAN : z <=> inside(found[k])
    OBVIOUS
  <2>4. out[k] = [level |-> l, text |-> t, page |-> q,
                  block |-> IF z THEN n ELSE 0,
                  source |-> IF z THEN "block" ELSE "paragraph_start",
                  cited |-> FALSE, for_blocks |-> {n}]
    BY <1>12, <2>a, <2>2, <2>3
  <2>5. PICK b : b = IF z THEN n ELSE 0
    OBVIOUS
  <2>6. PICK s : s = IF z THEN "block" ELSE "paragraph_start"
    OBVIOUS
  <2>7. s = "block" => b = n
    BY <2>5, <2>6
  <2>8. t \in Seq(V)
    BY <1>4, <2>1, <2>a
  <2>b. out[k] = [level |-> l, text |-> t, page |-> q, block |-> b,
                  source |-> s, cited |-> FALSE, for_blocks |-> {n}]
    BY <2>4, <2>5, <2>6
  <2>9. PICK o : o = out[k]
    OBVIOUS
  <2>10. o.level = l /\ o.page = q /\ o.block = b /\ o.source = s /\ o.cited = FALSE /\ o.for_blocks = {n}
    BY <2>9, <2>b
  <2>11. l \in X /\ q \in X /\ b \in X /\ s \in X /\ n \in X
    BY <1>15, <2>9, <2>10
  <2>12. o \in Sightings(V, X)
    BY <2>8, <2>9, <2>11, <2>b DEF Sightings
  <2>13. SaysTrue(o, {})
    BY <2>7, <2>10 DEF SaysTrue
  <2> QED
    BY <2>9, <2>12, <2>13 DEF Honest
<1>17. out \in [1..m -> Honest(V, X, {})]
  <2>1. out = [k \in 1..m |-> out[k]]
    BY <1>12
  <2> QED
    BY <1>16, <2>1
<1>18. out \in Seq(Honest(V, X, {}))
  BY <1>17
<1> QED
  BY <1>1, <1>18

(* A place more to stand at makes no sighting less honest.                 *)
LEMMA HonestMore ==
  ASSUME NEW V, NEW X, NEW Y, X \subseteq Y, NEW B
  PROVE  Honest(V, X, B) \subseteq Honest(V, Y, B)
<1>1. SUFFICES ASSUME NEW w \in Honest(V, X, B) PROVE w \in Honest(V, Y, B)
  OBVIOUS
<1>2. w \in Sightings(V, X) /\ SaysTrue(w, B)
  BY DEF Honest
<1>3. w \in Sightings(V, Y)
  BY <1>2 DEF Sightings
<1> QED
  BY <1>2, <1>3 DEF Honest

(* What warnings_for returns.                                              *)
LEMMA WarningsTell ==
  ASSUME NEW V, NEW W, Closed(V, W), NEW R, HoldUnits(R, V), NEW chs \in Seq(R),
         NEW N \in Nat, N = Len(chs), NEW kept \in SUBSET (1..N),
         NEW m \in Nat, NEW blocks \in [1..m -> 1..N],
         NEW told, told = warnings_for(chs, kept, blocks)
  PROVE  \E X : told \in Seq(Honest(V, X, {})) /\ AllApart(told) /\ Ranked(told)
<1>1. PICK known \in SUBSET (1..N) : known = kept \cup Range(blocks) /\ \A n \in 1..m : blocks[n] \in known
  <2>1. PICK K : K = kept \cup Range(blocks)
    OBVIOUS
  <2>2. \A n \in 1..m : blocks[n] \in K /\ blocks[n] \in 1..N
    BY <2>1 DEF Range
  <2>3. Range(blocks) \subseteq 1..N
    BY DEF Range
  <2>4. K \in SUBSET (1..N)
    BY <2>1, <2>3
  <2> QED
    BY <2>1, <2>2, <2>4
<1>2. PICK ss : ss = [n \in 1..m |-> warnings_in_window(chs, known, blocks[n], n)]
  OBVIOUS
<1>3. \A n \in 1..m : \E X : ss[n] \in Seq(Honest(V, X, {}))
  <2>1. TAKE n \in 1..m
  <2>2. PICK i \in known : i = blocks[n]
    BY <1>1
  <2>3. \E X : warnings_in_window(chs, known, i, n) \in Seq(Honest(V, X, {}))
    BY SightedIn
  <2> QED
    BY <1>2, <2>2, <2>3
<1>4. PICK Xs : Xs = [n \in 1..m |-> CHOOSE X : ss[n] \in Seq(Honest(V, X, {}))]
  OBVIOUS
<1>5. \A n \in 1..m : ss[n] \in Seq(Honest(V, Xs[n], {}))
  BY <1>3, <1>4
<1>6. PICK X : X = UNION {Xs[n] : n \in 1..m}
  OBVIOUS
<1>7. PICK H : H = Honest(V, X, {})
  OBVIOUS
<1>8. \A n \in 1..m : ss[n] \in Seq(H)
  <2>1. TAKE n \in 1..m
  <2>2. PICK x : x = Xs[n]
    OBVIOUS
  <2>3. x \subseteq X
    BY <1>6, <2>2
  <2>4. Honest(V, x, {}) \subseteq H
    BY <1>7, <2>3, HonestMore
  <2>5. PICK s : s = ss[n] /\ s \in Seq(Honest(V, x, {}))
    BY <1>5, <2>2
  <2>6. s \in Seq(H)
    BY <2>4, <2>5, SeqMonotonic
  <2> QED
    BY <2>5, <2>6
<1>9. ss \in [1..m -> Seq(H)]
  BY <1>2, <1>8
<1>10. PICK found : found = FlattenSeq(ss)
  OBVIOUS
<1>11. found \in Seq(H)
  BY <1>9, <1>10, FlattenRange
<1>12. told = merge(found)
  <2>1. DOMAIN blocks = 1..m
    OBVIOUS
  <2> QED
    BY <1>1, <1>2, <1>10, <2>1 DEF warnings_for
<1>13. Worded(V, W)
  BY DEF Closed
<1> QED
  BY <1>7, <1>11, <1>12, <1>13, MergeTells

-----------------------------------------------------------------------------
WordsOf(D) == UNION {Range(u.words) : u \in D}

(* The parts of legible sentences have words of them.                      *)
LEMMA PartsWorded ==
  ASSUME NEW D, NEW max \in Nat \ {0}, AllLegible(D, max), NEW C, C = PartsOf(D, max),
         NEW W, W = WordsOf(D)
  PROVE  Worded(C, W) /\ \A v \in C : v.part \in Nat
<1>1. \A u \in D : u.part = 1 /\ IsList(u.words) /\ u.words # <<>>
                   /\ \A j \in DOMAIN u.words : u.words[j].chars \in Nat \ {0}
  BY DEF AllLegible, Legible
<1>2. \A u \in D : u.words \in Seq(W)
  <2>1. TAKE u \in D
  <2>2. PICK S : S = Range(u.words)
    OBVIOUS
  <2>3. S \subseteq W
    BY <2>2 DEF WordsOf
  <2>4. PICK ws \in Seq(S) : ws = u.words
    BY <1>1, <2>2 DEF IsList
  <2>5. ws \in Seq(W)
    BY <2>3, SeqMonotonic
  <2> QED
    BY <2>4, <2>5
<1>3. AreWords(W)
  <2>1. SUFFICES ASSUME NEW w \in W PROVE w.chars \in Nat \ {0}
    BY DEF AreWords
  <2>2. PICK u \in D : w \in Range(u.words)
    BY DEF WordsOf
  <2>3. PICK j \in DOMAIN u.words : w = u.words[j]
    BY <2>2 DEF Range
  <2> QED
    BY <1>1, <2>3
<1>4. ASSUME NEW v \in C PROVE v.words \in Seq(W) /\ v.words # <<>> /\ v.part \in Nat
  <2>1. PICK u \in D : v \in Range(Parts(u, max))
    BY DEF PartsOf
  <2>2. CASE Chars(u) > max
    <3>1. PICK us : us = hard_split(u, max) /\ v \in Range(us)
      BY <2>1, <2>2 DEF Parts
    <3>2. u.words \in Seq(W) /\ u.words # <<>>
      BY <1>1, <1>2
    <3>3. CutUp(us, u, W)
      BY <3>1, <3>2, SplitWorded
    <3>4. PICK k \in 1..Len(us) : v = us[k]
      BY <3>1, <3>3 DEF CutUp, Range
    <3>5. PICK ws \in Seq(W) : ws # <<>> /\ us[k] = Rewritten(u, k, IF k = 1 THEN u.kind ELSE "plain", ws)
      BY <3>3 DEF CutUp
    <3>6. v.words = ws /\ v.part = k
      BY <3>4, <3>5 DEF Rewritten
    <3>7. Len(us) \in Nat
      BY <3>3 DEF CutUp
    <3> QED
      BY <3>5, <3>6, <3>7
  <2>3. CASE ~(Chars(u) > max)
    <3>1. Parts(u, max) = <<u>>
      BY <2>3 DEF Parts
    <3>2. v = u
      BY <2>1, <3>1 DEF Range
    <3> QED
      BY <1>1, <1>2, <3>2
  <2> QED
    BY <2>2, <2>3
<1> QED
  BY <1>3, <1>4 DEF Worded

(* What chunk_pages stores of an extracted upload is made of sentences.    *)
Stored(V, W, R, chs) == Closed(V, W) /\ HoldUnits(R, V) /\ chs \in Seq(R)

(* The rows of an upload, and the sentences they are made of.              *)
LEMMA ExtractedHold ==
  ASSUME NEW u \in Uploads, NEW pp, Extracted(u, pp),
         NEW chs, chs = chunk_pages(pp, u.max, u.overlap, u.paragraphs)
  PROVE  \E V, W, R : Stored(V, W, R, chs)
<1>d. PICK D : \E N \in Nat : \E texts \in [1..N -> Seq(D)] :
           /\ AllLegible(D, u.max) /\ DOMAIN pp = 1..N /\ DOMAIN u.raw = 1..N
           /\ \A p \in 1..N : texts[p] = pp[p].text
           /\ Apart(texts, N)
  BY TextsApart
<1>n. PICK N \in Nat : \E texts \in [1..N -> Seq(D)] :
           /\ AllLegible(D, u.max) /\ DOMAIN pp = 1..N /\ DOMAIN u.raw = 1..N
           /\ \A p \in 1..N : texts[p] = pp[p].text
           /\ Apart(texts, N)
  BY <1>d
<1>1. PICK texts \in [1..N -> Seq(D)] :
           /\ AllLegible(D, u.max) /\ DOMAIN pp = 1..N /\ DOMAIN u.raw = 1..N
           /\ \A p \in 1..N : texts[p] = pp[p].text
           /\ Apart(texts, N)
  BY <1>n
<1>2. PICK max, overlap, paragraphs : max = u.max /\ overlap = u.overlap /\ paragraphs = u.paragraphs
  OBVIOUS
<1>3. max \in Nat \ {0} /\ overlap \in Int /\ paragraphs \in BOOLEAN /\ AllLegible(D, max)
  BY <1>1, <1>2, UploadIs
<1>4. PICK C : C = PartsOf(D, max)
  OBVIOUS
<1>5. PICK ov : ov = Overlap(max, overlap)
  OBVIOUS
<1>6. PICK wide : wide = max + ov + TailRoom(paragraphs)
  OBVIOUS
<1>7. PICK tt : tt = [p \in 1..N |-> chunk_text(texts[p], max, overlap, paragraphs)]
  OBVIOUS
<1>8. tt \in [1..N -> Seq(Seq(C))]
  <2>1. ASSUME NEW p \in 1..N PROVE chunk_text(texts[p], max, overlap, paragraphs) \in Seq(Seq(C))
    <3>1. PICK text \in Seq(D) : text = texts[p]
      BY <1>n, <1>1
    <3>2. Chunked(chunk_text(text, max, overlap, paragraphs), Sized(text, max), C, ov, wide)
      BY <1>3, <1>4, <1>5, <1>6, TextPlaced
    <3> QED
      BY <3>1, <3>2 DEF Chunked
  <2> QED
    BY <1>7, <2>1
<1>9. \A p \in 1..N : tt[p] = chunk_text(pp[p].text, max, overlap, paragraphs)
  BY <1>1, <1>7
<1>10. PICK all : all = FlattenSeq(tt)
  OBVIOUS
<1>11. all \in Seq(Seq(C))
  BY <1>n, <1>8, <1>10, FlattenRange
<1>12. StoredAs(chs, all, tt, N)
  <2>1. StoredAs(chunk_pages(pp, max, overlap, paragraphs), FlattenSeq(tt), tt, N)
    BY <1>n, <1>1, <1>8, <1>9, PagesStored
  <2> QED
    BY <1>2, <1>10, <2>1
<1>13. PICK R : R = Range(chs)
  OBVIOUS
<1>14. chs \in Seq(R) /\ DOMAIN chs = 1..Len(chs)
  BY <1>12, <1>13 DEF StoredAs, IsList
<1>15. PICK e : /\ e \in [1..Len(chs) -> 1..Len(all)]
                /\ \A c \in 1..Len(chs) : chs[c].units = all[e[c]]
  BY <1>12 DEF StoredAs
<1>16. \A c \in R : c.units \in Seq(C)
  <2>1. TAKE c \in R
  <2>2. PICK k \in 1..Len(chs) : c = chs[k]
    BY <1>13, <1>14 DEF Range
  <2>3. PICK l \in 1..Len(all) : l = e[k] /\ c.units = all[l]
    BY <1>15, <2>2
  <2>4. all[l] \in Seq(C)
    BY <1>11, ElementOfSeq
  <2> QED
    BY <2>3, <2>4
<1>17. PICK W : W = WordsOf(D)
  OBVIOUS
<1>18. Worded(C, W) /\ \A v \in C : v.part \in Nat
  BY <1>3, <1>4, <1>17, PartsWorded
<1>19. PICK V : C \subseteq V /\ Closed(V, W)
  BY <1>18, ClosedExists
<1>20. HoldUnits(R, V)
  <2>1. ASSUME NEW c \in R PROVE c.units \in Seq(V)
    <3>1. PICK us \in Seq(C) : us = c.units
      BY <1>16
    <3>2. us \in Seq(V)
      BY <1>19, SeqMonotonic
    <3> QED
      BY <3>1, <3>2
  <2> QED
    BY <2>1 DEF HoldUnits
<1> QED
  BY <1>14, <1>19, <1>20 DEF Stored

-----------------------------------------------------------------------------
(* What holds of the warnings at every stage: none before a question, then *)
(* sightings that say the truth of the blocks cited so far, each once.     *)
Told(ws, B) ==
  \E V, W, X : /\ Worded(V, W) /\ ws \in Seq(Honest(V, X, B))
               /\ AllApart(ws) /\ Ranked(ws)
ToldInv ==
  /\ ManualInv
  /\ stage # "answered" => cites = {}
  /\ stage \in {"read", "answered"} => Told(warnings, cites)
  /\ stage \notin {"read", "answered"} => warnings = <<>>

(* Read finds the warnings of the passages, and none is cited yet.         *)
LEMMA ReadTells == ToldInv /\ Read => ToldInv'
<1> SUFFICES ASSUME ToldInv, Read PROVE ToldInv'
  OBVIOUS
<1>1. /\ upload \in Uploads /\ Extracted(upload, pages) /\ stage = "chunked" /\ cites = {}
      /\ chunks = chunk_pages(pages, upload.max, upload.overlap, upload.paragraphs)
  BY DEF ToldInv, ManualInv, IsStored, Read
<1>2. PICK V, W, R : Stored(V, W, R, chunks)
  BY <1>1, ExtractedHold
<1>3. Closed(V, W) /\ HoldUnits(R, V)
  BY <1>2 DEF Stored
<1>4. PICK chs \in Seq(R) : chs = chunks
  BY <1>2 DEF Stored
<1>5. PICK N \in Nat : N = Len(chs) /\ DOMAIN chs = 1..N
  BY LenProperties
<1>6. PICK n \in 1..MaxRead : \E r \in [1..n -> DOMAIN chunks] : IsInjective(r) /\ read' = r
  BY DEF Read
<1>7. PICK r \in [1..n -> 1..N] : read' = r
  BY <1>4, <1>5, <1>6
<1>8. PICK kept \in SUBSET (1..N) : kept = stored'
  BY <1>4, <1>5 DEF Read
<1>9. PICK told : told = warnings_for(chs, kept, r)
  OBVIOUS
<1>10. n \in Nat
  OBVIOUS
<1>11. PICK X : told \in Seq(Honest(V, X, {})) /\ AllApart(told) /\ Ranked(told)
  BY <1>3, <1>5, <1>9, <1>10, WarningsTell
<1>12. Worded(V, W)
  BY <1>3 DEF Closed
<1>13. Told(told, {})
  BY <1>11, <1>12 DEF Told
<1>14. warnings' = told
  BY <1>4, <1>7, <1>8, <1>9 DEF Read
<1>15. stage' = "read" /\ cites' = {}
  BY <1>1 DEF Read
<1>16. ManualInv'
  BY ManualKept DEF ToldInv, ManualNext
<1> QED
  BY <1>13, <1>14, <1>15, <1>16 DEF ToldInv

(* Cite marks the warnings by the blocks that are cited.                   *)
LEMMA CiteTells == ToldInv /\ Cite => ToldInv'
<1> SUFFICES ASSUME ToldInv, Cite PROVE ToldInv'
  OBVIOUS
<1>1. Told(warnings, cites)
  BY DEF ToldInv, Cite
<1>2. PICK V, W, X : Worded(V, W) /\ warnings \in Seq(Honest(V, X, cites))
  BY <1>1 DEF Told
<1>3. PICK B : B = cites'
  OBVIOUS
<1>4. PICK A : A = cites
  OBVIOUS
<1>5. PICK ws \in Seq(Honest(V, X, A)) : ws = warnings
  BY <1>2, <1>4
<1>6. PICK told : told = mark_cited(ws, B)
  OBVIOUS
<1>7. told \in Seq(Honest(V, X, B)) /\ AllApart(told) /\ Ranked(told)
  BY <1>2, <1>6, MarkingTells
<1>8. Told(told, B)
  BY <1>2, <1>7 DEF Told
<1>9. warnings' = told
  BY <1>3, <1>5, <1>6 DEF Cite
<1>10. stage' = "answered"
  BY DEF Cite
<1>11. ManualInv'
  BY ManualKept DEF ToldInv, ManualNext
<1> QED
  BY <1>3, <1>8, <1>9, <1>10, <1>11 DEF ToldInv

(* One step for every action of a manual.                                  *)
LEMMA ToldKept == ToldInv /\ [ManualNext]_manualVars => ToldInv'
<1> SUFFICES ASSUME ToldInv, [ManualNext]_manualVars PROVE ToldInv'
  OBVIOUS
<1>1. ManualInv'
  BY ManualKept DEF ToldInv
<1>2. CASE Extract
  BY <1>1, <1>2 DEF ToldInv, Extract
<1>3. CASE Chunk
  BY <1>1, <1>3 DEF ToldInv, Chunk
<1>4. CASE Read
  BY <1>4, ReadTells
<1>5. CASE Cite
  BY <1>5, CiteTells
<1>6. CASE UNCHANGED manualVars
  BY <1>1, <1>6 DEF ToldInv, manualVars
<1> QED
  BY <1>2, <1>3, <1>4, <1>5, <1>6 DEF ManualNext

(* What the invariant says of what is returned.                            *)
LEMMA ToldOnce == ToldInv => WarningsToldOnce
<1> SUFFICES ASSUME ToldInv PROVE WarningsToldOnce
  OBVIOUS
<1>1. CASE stage \in {"read", "answered"}
  <2>1. Told(warnings, cites)
    BY <1>1 DEF ToldInv
  <2>2. PICK V, X : /\ warnings \in Seq(Honest(V, X, cites))
                    /\ AllApart(warnings) /\ Ranked(warnings)
    BY <2>1 DEF Told
  <2>3. PICK n \in Nat : n = Len(warnings) /\ DOMAIN warnings = 1..n
    BY <2>2, LenProperties
  <2>4. ASSUME NEW k \in 1..n PROVE SaysTrue(warnings[k], cites)
    <3>1. warnings[k] \in Honest(V, X, cites)
      BY <2>2, <2>3, ElementOfSeq
    <3> QED
      BY <3>1 DEF Honest
  <2>5. PICK rank \in [1..n -> 1..6] : /\ \A p \in 1..n : HasRank(warnings[p], rank[p])
                                       /\ \A p, q \in 1..n : p < q => rank[p] <= rank[q]
    BY <2>2, <2>3 DEF Ranked
  <2>6. ASSUME NEW j \in 1..n, NEW k \in 1..n, j < k
        PROVE  ~SameWarning(warnings[j], warnings[k]) /\ RankOf(warnings[j]) <= RankOf(warnings[k])
    <3>1. ~SameWarning(warnings[j], warnings[k])
      BY <2>2, <2>3, <2>6 DEF AllApart
    <3>2. PICK a \in 1..6 : a = rank[j] /\ HasRank(warnings[j], a)
      BY <2>5
    <3>3. PICK b \in 1..6 : b = rank[k] /\ HasRank(warnings[k], b)
      BY <2>5
    <3>4. RankOf(warnings[j]) = a + 1 /\ RankOf(warnings[k]) = b + 1
      BY <3>2, <3>3, RankIs
    <3>5. a <= b
      BY <2>5, <2>6, <3>2, <3>3
    <3> QED
      BY <3>1, <3>4, <3>5
  <2> QED
    BY <2>3, <2>4, <2>6 DEF WarningsToldOnce, SaysTrue, RankOf
<1>2. CASE stage \notin {"read", "answered"}
  <2>1. warnings = <<>>
    BY <1>2 DEF ToldInv
  <2>2. DOMAIN warnings = {}
    BY <2>1
  <2> QED
    BY <2>2 DEF WarningsToldOnce
<1> QED
  BY <1>1, <1>2

(* However often a warning is sighted it is told once, marked exactly when *)
(* one of its blocks is cited, and in the order of severity, for every     *)
(* upload, every choice of passages and every answer.                      *)
THEOREM WarningsOnce == ManualSpec => []WarningsToldOnce
<1>1. ManualInit => ToldInv
  BY ManualStarts DEF ManualInit, ManualStart, ToldInv
<1>2. ToldInv /\ [ManualNext]_manualVars => ToldInv'
  BY ToldKept
<1>3. ToldInv => WarningsToldOnce
  BY ToldOnce
<1> QED
  BY <1>1, <1>2, <1>3, PTL DEF ManualSpec
=============================================================================
