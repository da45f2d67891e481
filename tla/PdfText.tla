------------------------------- MODULE PdfText -------------------------------
(***************************************************************************)
(* src/app/services/pdf_text.py: from the lines of a PDF's pages to the    *)
(* chunks that are stored.  A line is abstracted to what the code asks of  *)
(* it, and it holds one sentence:                                          *)
(*   key       the line in lower case with its digits replaced by '#'      *)
(*   page      the number it prints after "Page", or None                  *)
(*   bare      the number, when it is nothing but a page number, or None   *)
(*   revision  the document name it would give as a header, or None        *)
(*   date      the latest date in it, 0 when it has none                   *)
(*   unit      its sentence: [id, part, kind, level, words]                *)
(* A word, or a phrase nothing cuts, is [is, chars]: lengths are those of  *)
(* the code, in characters.                                                *)
(***************************************************************************)
EXTENDS Lists

CONSTANTS
  None,
  Markers,  \* words a change adds to a revision: "CHG 1", "Rev A"
  Joined    \* <<left, right>> -> the word they would make, for the pairs that
            \* _LEFT, _RIGHT and the upper-case test let through

MIN_PAGE_ALNUM == 30
MIN_CHUNK_ALNUM == 40
MIN_BLOCK_CHARS == 200
MIN_TAIL_CHARS == 200
MAX_HEADER_CHARS == 120
Edge == 3

(* len of words, of a sentence and of sentences, joined by spaces.         *)
Spaced(words) == SumOver(LAMBDA w : w.chars + 1, words) - 1
Chars(u) == Spaced(u.words)
Length(units) == SumOver(LAMBDA u : Chars(u) + 1, units) - 1
alnum_count(units) == SumOver(LAMBDA u : SumOver(LAMBDA w : w.chars, u.words), units)

-----------------------------------------------------------------------------
edge_width(lines) == Min({Edge, Len(lines) \div 3})

AtEdge(lines, i) == i <= edge_width(lines) \/ i > Len(lines) - edge_width(lines)

(* Keys at the edge of at least 3 pages and a quarter of the pages.        *)
repeated_edges(pages) ==
  LET keysOf(lines) == {lines[i].key : i \in {j \in DOMAIN lines : AtEdge(lines, j)}}
      pagesWith(k) == Cardinality({p \in DOMAIN pages : k \in keysOf(pages[p])})
  IN  {k \in UNION {keysOf(pages[p]) : p \in DOMAIN pages} :
         pagesWith(k) >= 3 /\ 4 * pagesWith(k) >= Len(pages)}

strip_repeated_edges(pages) ==
  LET repeated == repeated_edges(pages)
  IN  [p \in DOMAIN pages |->
         SelectAt(pages[p], {i \in DOMAIN pages[p] :
                               ~(AtEdge(pages[p], i) /\ pages[p][i].key \in repeated)})]

(* The first or last lines that print "Page n", else the last bare number. *)
find_page_label(lines) ==
  LET n == Min({Edge, Len(lines)})
      candidates == SubSeq(lines, 1, n) \o SubSeq(lines, Len(lines) - n + 1, Len(lines))
      named == SelectSeq(candidates, LAMBDA l : l.page # None)
      bare == SelectSeq(candidates, LAMBDA l : l.bare # None)
  IN  IF named # <<>> THEN Head(named).page
      ELSE IF bare # <<>> THEN Last(bare).bare ELSE None

(* A dated edge line, else one that repeats; never a mere page number.     *)
running_headers(pages) ==
  LET repeated == repeated_edges(pages)
      edges(p) == SelectSeq(SelectAt(pages[p], {i \in DOMAIN pages[p] : AtEdge(pages[p], i)}),
                            LAMBDA l : l.revision # None /\ Chars(l.unit) <= MAX_HEADER_CHARS)
      headers(p) == SelectSeq(edges(p), LAMBDA l : l.date # 0)
                      \o SelectSeq(edges(p), LAMBDA l : l.key \in repeated)
  IN  [p \in DOMAIN pages |-> IF headers(p) = <<>> THEN None ELSE Head(headers(p))]

(* The name on the header with the latest date, else the commonest name.   *)
document_revision(headers, given, fallback) ==
  LET printed == SelectSeq(headers, LAMBDA h : h # None)
      issued == Max({0} \cup {printed[i].date : i \in DOMAIN printed})
      newest == SelectSeq(printed, LAMBDA h : h.date = issued)
      count(r) == Cardinality({i \in DOMAIN printed : printed[i].revision = r})
      commonest == SelectSeq(printed, LAMBDA h :
                     \A i \in DOMAIN printed : count(h.revision) >= count(printed[i].revision))
  IN  [issued |-> issued,
       revision |-> IF given # None THEN given
                    ELSE IF printed = <<>> THEN fallback
                    ELSE IF issued # 0 THEN Head(newest).revision ELSE Head(commonest).revision]

(* What stays when the change markers at its end are taken off.            *)
document_key(revision) ==
  LET name(k) == \A i \in k + 1..Len(revision) : revision[i] \in Markers
      key == SubSeq(revision, 1, Min({k \in 0..Len(revision) : name(k)}))
  IN  IF revision = None \/ key = <<>> THEN None ELSE key

-----------------------------------------------------------------------------
(* How often the document spells a word.                                   *)
word_count(texts, w) ==
  SumOver(LAMBDA text :
            SumOver(LAMBDA u : Cardinality({i \in DOMAIN u.words : u.words[i] = w}), text),
          texts)

(* The joined word is spelled whole elsewhere and one piece is rare.       *)
should_join(left, right, texts) ==
  /\ <<left, right>> \in DOMAIN Joined
  /\ word_count(texts, Joined[<<left, right>>]) >= 2
  /\ Min({word_count(texts, left), word_count(texts, right)}) <= 2

(* One pass from the left: a word just joined is not joined again.         *)
RepairStep(acc, w, texts) ==
  IF acc.open /\ should_join(Last(acc.out), w, texts)
  THEN [out |-> Append(Front(acc.out), Joined[<<Last(acc.out), w>>]), open |-> FALSE]
  ELSE [out |-> Append(acc.out, w), open |-> TRUE]

repair_words(words, texts) ==
  LET done[i \in 0..Len(words)] ==
        IF i = 0 THEN [out |-> <<>>, open |-> FALSE] ELSE RepairStep(done[i - 1], words[i], texts)
  IN  done[Len(words)].out

Rewritten(u, part, kind, words) ==
  [id |-> u.id, part |-> part, kind |-> kind, level |-> u.level, words |-> words]

repair_split_words(text, texts) ==
  [i \in DOMAIN text |->
     Rewritten(text[i], text[i].part, text[i].kind, repair_words(text[i].words, texts))]

(* The sentences of cleaned lines.                                         *)
join_lines(lines) == [i \in DOMAIN lines |-> lines[i].unit]

BlankPages(raw) ==
  LET cleaned == strip_repeated_edges(raw)
  IN  {p \in DOMAIN raw : alnum_count(join_lines(cleaned[p])) < MIN_PAGE_ALNUM}

(* extract_pages: `ocr` maps the blank pages that could be read to lines.  *)
extract_pages(raw, ocr, repair) ==
  LET cleaned == strip_repeated_edges(raw)
      headers == running_headers(raw)
      usable(p) == p \in DOMAIN ocr /\ alnum_count(join_lines(ocr[p])) >= MIN_PAGE_ALNUM
      texts == [p \in DOMAIN raw |-> join_lines(IF usable(p) THEN ocr[p] ELSE cleaned[p])]
  IN  [p \in DOMAIN raw |->
         [number |-> p, label |-> find_page_label(raw[p]), header |-> headers[p],
          ocr |-> usable(p),
          text |-> IF repair THEN repair_split_words(texts[p], texts) ELSE texts[p]]]

HasText(pages) == \E p \in DOMAIN pages : alnum_count(pages[p].text) >= MIN_PAGE_ALNUM

-----------------------------------------------------------------------------
(* Parts of a sentence that is too long, cut at spaces.                    *)
SplitStep(parts, w, max) ==
  IF parts # <<>> /\ Spaced(Last(parts)) + 1 + w.chars <= max
  THEN Append(Front(parts), Append(Last(parts), w))
  ELSE Append(parts, <<w>>)

hard_split(u, max) ==
  LET cut[i \in 0..Len(u.words)] ==
        IF i = 0 THEN <<>> ELSE SplitStep(cut[i - 1], u.words[i], max)
      parts == cut[Len(u.words)]
  IN  [k \in DOMAIN parts |-> Rewritten(u, k, IF k = 1 THEN u.kind ELSE "plain", parts[k])]

(* Cut at headings, once the text since the last cut is long enough.       *)
BlockStep(blocks, u) ==
  IF /\ blocks # <<>>
     /\ ~(u.kind = "heading" /\ Length(Last(blocks)) + 1 >= MIN_BLOCK_CHARS)
  THEN Append(Front(blocks), Append(Last(blocks), u))
  ELSE Append(blocks, <<u>>)

split_paragraphs(text) ==
  LET blocks[i \in 0..Len(text)] ==
        IF i = 0 THEN <<>> ELSE BlockStep(blocks[i - 1], text[i])
  IN  blocks[Len(text)]

(* The longest end of a chunk that fits the overlap, its spaces counted.   *)
Carried(current, overlap) ==
  LET fits == {k \in 0..Len(current) :
                 Length(SubSeq(current, k + 1, Len(current))) + 1 <= overlap}
  IN  SubSeq(current, Min(fits) + 1, Len(current))

(* Faulty: the sentence that did not fit is lost with the cut.             *)
ChunkStepLosingTheCut(max, overlap, acc, u) ==
  IF acc.current # <<>> /\ Length(acc.current) + 1 + Chars(u) > max
  THEN [chunks |-> Append(acc.chunks, acc.current),
        current |-> Carried(acc.current, overlap), fresh |-> 0]
  ELSE [chunks |-> acc.chunks, current |-> Append(acc.current, u), fresh |-> acc.fresh + 1]

(* One turn of the loop over the sentences.  A chunk that begins with      *)
(* carried text takes the next sentence without a second look at its size. *)
ChunkStep(max, overlap, acc, u) ==
  IF acc.current # <<>> /\ Length(acc.current) + 1 + Chars(u) > max
  THEN [chunks |-> Append(acc.chunks, acc.current),
        current |-> Append(Carried(acc.current, overlap), u), fresh |-> 1]
  ELSE [chunks |-> acc.chunks, current |-> Append(acc.current, u), fresh |-> acc.fresh + 1]

(* The last chunk is stored, or folded into the one before it.             *)
ChunkTail(acc, mergeTail) ==
  LET fresh == SubSeq(acc.current, Len(acc.current) - acc.fresh + 1, Len(acc.current)) IN
  IF acc.current = <<>> THEN acc.chunks
  ELSE IF acc.chunks # <<>> /\ Length(fresh) < mergeTail
  THEN Append(Front(acc.chunks), Last(acc.chunks) \o fresh)
  ELSE Append(acc.chunks, acc.current)

Overlap(max, overlap) == Max({0, Min({overlap, max \div 2})})

Parts(u, max) == IF Chars(u) > max THEN hard_split(u, max) ELSE <<u>>
Sized(text, max) == FlattenSeq([i \in DOMAIN text |-> Parts(text[i], max)])

NoChunk == [chunks |-> <<>>, current |-> <<>>, fresh |-> 0]
chunk_units(units, max, overlap, mergeTail) ==
  LET done[i \in 0..Len(units)] ==
        IF i = 0 THEN NoChunk ELSE ChunkStep(max, overlap, done[i - 1], units[i])
  IN  ChunkTail(done[Len(units)], mergeTail)

chunk_sentences(text, max, overlap, mergeTail) ==
  chunk_units(Sized(text, max), max, Overlap(max, overlap), mergeTail)

chunk_text(text, max, overlap, paragraphs) ==
  IF ~paragraphs THEN chunk_sentences(text, max, overlap, 0)
  ELSE LET blocks == split_paragraphs(text) IN
       FlattenSeq([b \in DOMAIN blocks |->
                     chunk_sentences(blocks[b], max, overlap, MIN_TAIL_CHARS)])

(* chunk_index is the position in the sequence: slivers leave no gap.      *)
chunk_pages(pages, max, overlap, paragraphs) ==
  LET chunksOf(p) ==
        LET texts == chunk_text(pages[p].text, max, overlap, paragraphs)
        IN  [i \in DOMAIN texts |-> [page |-> p, label |-> pages[p].label,
                                     header |-> pages[p].header, units |-> texts[i]]]
      made == FlattenSeq([p \in DOMAIN pages |-> chunksOf(p)])
  IN  SelectAt(made, {c \in DOMAIN made : alnum_count(made[c].units) >= MIN_CHUNK_ALNUM})
=============================================================================
