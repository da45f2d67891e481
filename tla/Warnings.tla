------------------------------ MODULE Warnings ------------------------------
(***************************************************************************)
(* src/app/services/warnings.py: the labelled safety text of the passages  *)
(* a model reads.  Text is a sequence of the units PdfText stores; a label *)
(* is the first word of a unit of kind "label" (with its colon) or         *)
(* "banner" (without).  The other places where a warning ends are units of *)
(* kind "heading" and, for list items, captions and sections, "item".      *)
(* Offsets are counted in units.                                           *)
(***************************************************************************)
EXTENDS PdfText

CONSTANT Lookback   \* warning_lookback_chunks

ASSUME WarningsAssumption == Lookback \in Nat

LEVELS == <<"WARNING", "CAUTION", "NOTE">>
MAX_WARNING_CHARS == 600
LOOKAHEAD_CHUNKS == 2
MIN_WARNING_CHARS == 3
MIN_OVERLAP_CHARS == 20
MAX_OVERLAP_CHARS == 600

Labels == {"label", "banner"}
Text(units) == [i \in DOMAIN units |-> units[i].words]

WithWords(u, words) == Rewritten(u, u.part, u.kind, words)

(* Sentences: the parts of one that was too long for a chunk, put together.*)
SentenceStep(told, u) ==
  IF told # <<>> /\ u.part > 1
  THEN Append(Front(told), WithWords(Last(told), Last(told).words \o u.words))
  ELSE Append(told, u)

Sentences(units) ==
  LET told[i \in 0..Len(units)] ==
        IF i = 0 THEN <<>> ELSE SentenceStep(told[i - 1], units[i])
  IN  told[Len(units)]

(* Just past the warning that starts at i; a banner keeps one sentence.    *)
first_end(text, i) ==
  LET ends == {j \in i + 1..Len(text) : \/ text[j].kind \in Labels \cup {"heading", "item"}
                                       \/ (text[i].kind = "banner" /\ text[j].part = 1)}
  IN  Min(ends \cup {Len(text) + 1})

(* The whole body, or the sentences that end within its first characters,  *)
(* or as much of the first sentence as they hold.                          *)
cap(body) ==
  LET fits == {k \in 1..Len(body) : Length(SubSeq(body, 1, k)) < MAX_WARNING_CHARS}
                \cup IF Chars(Head(body)) = MAX_WARNING_CHARS THEN {1} ELSE {}
  IN  IF Length(body) <= MAX_WARNING_CHARS THEN body
      ELSE IF fits # {} THEN SubSeq(body, 1, Max(fits))
      ELSE <<Head(hard_split(Head(body), MAX_WARNING_CHARS - 1))>>

(* The body of the warning whose label is at i: without the label.         *)
Body(text, i) ==
  LET told == Sentences(SubSeq(text, i, first_end(text, i) - 1))
      first == Tail(Head(told).words)
  IN  (IF first = <<>> THEN <<>> ELSE <<WithWords(Head(told), first)>>) \o Tail(told)

extract_warnings(text) ==
  LET starts == Keep([i \in DOMAIN text |-> i],
                     {i \in DOMAIN text : /\ text[i].kind \in Labels
                                          /\ Length(Body(text, i)) >= MIN_WARNING_CHARS})
  IN  [k \in DOMAIN starts |-> [level |-> text[starts[k]].level, start |-> starts[k],
                                text |-> cap(Body(text, starts[k]))]]

-----------------------------------------------------------------------------
(* The units of the longest end of a that b starts with, if long enough.   *)
SharedUnits(a, b) ==
  LET shared == {k \in 1..Min({Len(a), Len(b)}) :
                   /\ Text(SubSeq(a, Len(a) - k + 1, Len(a))) = Text(SubSeq(b, 1, k))
                   /\ Length(SubSeq(b, 1, k)) \in MIN_OVERLAP_CHARS..MAX_OVERLAP_CHARS}
  IN  Max({0} \cup shared)

JoinStep(acc, c) ==
  LET start == Len(acc.text) - SharedUnits(acc.text, c.units) + 1
  IN  [text |-> SubSeq(acc.text, 1, start - 1) \o c.units,
       pieces |-> Append(acc.pieces,
                         [start |-> start, end |-> start + Len(c.units), page |-> c.page])]

(* Consecutive chunks as one text, and where each of them lies in it.      *)
join_chunks(chunks) ==
  LET joined[i \in 0..Len(chunks)] ==
        IF i = 0 THEN [text |-> <<>>, pieces |-> <<>>] ELSE JoinStep(joined[i - 1], chunks[i])
  IN  joined[Len(chunks)]

(* Faulty: the text is read from the retrieved chunk only.                 *)
window_of_one(known, i) == [from |-> i, to |-> i]

(* The known chunks around the one that is read, as far as they lie side   *)
(* by side.                                                                *)
window(known, i) ==
  [from |-> Min({j \in i - Lookback..i : j..i \subseteq known}),
   to |-> Max({j \in i..i + LOOKAHEAD_CHUNKS : i..j \subseteq known})]

(* Warnings that start in chunk i, block n of the prompt, and those before *)
(* it in the same numbered paragraph.                                      *)
warnings_in_window(chunks, known, i, n) ==
  LET w == window(known, i)
      joined == join_chunks(SubSeq(chunks, w.from, w.to))
      read == joined.pieces[i - w.from + 1]
      headings == {h \in 1..read.start : h \in DOMAIN joined.text /\ joined.text[h].kind = "heading"}
      paragraph == Max({1} \cup headings)
      page(at) == Head(SelectSeq(joined.pieces, LAMBDA p : p.start <= at /\ at < p.end)).page
      inside(x) == read.start <= x.start /\ x.start < read.end
      all == extract_warnings(joined.text)
      found == SelectAt(all, {k \in DOMAIN all :
                 inside(all[k]) \/ (paragraph <= all[k].start /\ all[k].start < read.start)})
  IN  [k \in DOMAIN found |->
         [level |-> found[k].level, text |-> found[k].text, page |-> page(found[k].start),
          block |-> IF inside(found[k]) THEN n ELSE 0,
          source |-> IF inside(found[k]) THEN "block" ELSE "paragraph_start",
          cited |-> FALSE, for_blocks |-> {n}]]

-----------------------------------------------------------------------------
SameWarning(k, w) ==
  /\ k.level = w.level
  /\ IsPrefix(Text(k.text), Text(w.text)) \/ IsPrefix(Text(w.text), Text(k.text))

(* A sighting with some of its fields replaced.                            *)
Replaced(w, text, cited, for_blocks) ==
  [level |-> w.level, text |-> text, page |-> w.page, block |-> w.block,
   source |-> w.source, cited |-> cited, for_blocks |-> for_blocks]

BetterPlace(k, w) == IF k.source # "block" /\ w.source = "block" THEN w ELSE k
LongerText(k, w) == IF Length(w.text) > Length(k.text) THEN w.text ELSE k.text

(* Faulty: the blocks of every sighting count, whatever its source.        *)
FuseAllBlocks(k, w) ==
  Replaced(BetterPlace(k, w), LongerText(k, w), k.cited \/ w.cited,
           k.for_blocks \cup w.for_blocks)

(* Two sightings of one warning: the place of the better one, the longer   *)
(* text, the blocks of the sightings of that one's kind.                   *)
FuseSightings(k, w) ==
  LET best == BetterPlace(k, w)
      same == {x \in {k, w} : x.source = best.source}
  IN  Replaced(best, LongerText(k, w), \E x \in same : x.cited,
               UNION {x.for_blocks : x \in same})

AddSighting(kept, w) ==
  LET dups == {i \in DOMAIN kept : SameWarning(kept[i], w)}
  IN  IF dups = {} THEN Append(kept, w)
      ELSE [i \in DOMAIN kept |-> IF i = Min(dups) THEN FuseSightings(kept[i], w) ELSE kept[i]]

(* Most severe first, and cited first within a level.                      *)
HasRank(w, r) == w.level = LEVELS[(r + 1) \div 2] /\ w.cited = (r % 2 = 1)
by_rank(kept) ==
  FlattenSeq([r \in 1..2 * Len(LEVELS) |->
                SelectAt(kept, {i \in DOMAIN kept : HasRank(kept[i], r)})])

(* Repeats are dropped, and the rest is sorted.                            *)
merge(found) ==
  LET kept[i \in 0..Len(found)] == IF i = 0 THEN <<>> ELSE AddSighting(kept[i - 1], found[i])
  IN  by_rank(kept[Len(found)])

(* read[n] is the chunk in block n of the prompt; `stored` the neighbours  *)
(* fetch_neighbours still found.                                           *)
warnings_for(chunks, stored, read) ==
  merge(FlattenSeq([n \in DOMAIN read |->
                      warnings_in_window(chunks, stored \cup Range(read), read[n], n)]))

Marked(w, blocks) == Replaced(w, w.text, w.for_blocks \cap blocks # {}, w.for_blocks)

(* Faulty: the cited warnings stay where they are.                         *)
mark_cited_in_place(warnings, blocks) ==
  [i \in DOMAIN warnings |-> Marked(warnings[i], blocks)]

mark_cited(warnings, blocks) == merge([i \in DOMAIN warnings |-> Marked(warnings[i], blocks)])
=============================================================================
