------------------------------- MODULE Manual -------------------------------
(***************************************************************************)
(* One PDF on its way to an answer: the text half of ingest_pdf            *)
(* (src/app/services/documents.py), then the safety warnings of the        *)
(* passages a question reads from it and of the blocks its answer cites    *)
(* (src/app/services/generation.py).                                       *)
(***************************************************************************)
EXTENDS Warnings

CONSTANTS
  Uploads,     \* [raw, scan, repair, paragraphs, max, overlap]: the pages' lines, what
               \* OCR can read of blank pages, and the settings of the ingestion
  MaxRead      \* bound: passages of a question

(* The sheets page p may be read from: its text layer, or its scan.        *)
Sheets(u, p) == {u.raw[p]} \cup {u.scan[q] : q \in {p} \cap DOMAIN u.scan}

(* A sentence has words and words have characters; the code never cuts a   *)
(* word, so one of a sentence that is cut leaves room for text before it.  *)
Legible(unit, max) ==
  /\ unit.part = 1 /\ IsList(unit.words) /\ unit.words # <<>>
  /\ \A j \in DOMAIN unit.words :
       /\ unit.words[j].chars \in Nat \ {0}
       /\ Chars(unit) > max => unit.words[j].chars + 2 * MIN_CHUNK_ALNUM <= max

(* Two places of a document are two sentences, also when their words are   *)
(* the same.                                                               *)
ASSUME ManualAssumption ==
  \A u \in Uploads :
    /\ u.max \in Nat \ {0} /\ u.overlap \in Int
    /\ u.repair \in BOOLEAN /\ u.paragraphs \in BOOLEAN
    /\ IsList(u.raw) /\ DOMAIN u.scan \subseteq DOMAIN u.raw
    /\ \A p \in DOMAIN u.raw : \A s \in Sheets(u, p) :
         IsList(s) /\ \A i \in DOMAIN s : Legible(s[i].unit, u.max)
    /\ \A p, q \in DOMAIN u.raw : \A s \in Sheets(u, p), t \in Sheets(u, q) :
         \A i \in DOMAIN s, j \in DOMAIN t :
           s[i].unit.id = t[j].unit.id => p = q /\ (s = t => i = j)
    /\ u.repair => \A pair \in DOMAIN Joined :
         /\ Joined[pair].chars = pair[1].chars + pair[2].chars
         /\ Joined[pair].chars + 2 * MIN_CHUNK_ALNUM <= u.max

VARIABLES
  upload, stage,
  pages,       \* what extract_pages returned
  chunks,      \* the rows of the document, by chunk_index
  read,        \* the chunk in each block of the prompt
  stored,      \* the chunks whose rows the lookup of neighbours still found
  warnings,    \* what is returned beside the answer
  cites        \* the blocks the answer cites

manualVars == <<upload, stage, pages, chunks, read, stored, warnings, cites>>

NoUpload == [raw |-> <<>>, scan |-> <<>>, repair |-> FALSE, paragraphs |-> FALSE,
             max |-> 1, overlap |-> 0]

ManualStart(u, s) ==
  /\ upload = u /\ stage = s
  /\ pages = <<>> /\ chunks = <<>>
  /\ read = <<>> /\ stored = {} /\ warnings = <<>> /\ cites = {}

ManualInit == \E u \in Uploads : ManualStart(u, "uploaded")
ManualIdle == ManualStart(NoUpload, "none")

(* ocr_pages reads the blank pages it can; one that fails is left out.     *)
Extract ==
  /\ stage = "uploaded"
  /\ \E seen \in SUBSET (BlankPages(upload.raw) \cap DOMAIN upload.scan) :
       pages' = extract_pages(upload.raw, [p \in seen |-> upload.scan[p]], upload.repair)
  /\ stage' = IF HasText(pages') THEN "extracted" ELSE "rejected"
  /\ UNCHANGED <<upload, chunks, read, stored, warnings, cites>>

Chunk ==
  /\ stage = "extracted"
  /\ chunks' = chunk_pages(pages, upload.max, upload.overlap, upload.paragraphs)
  /\ stage' = IF chunks' = <<>> THEN "rejected" ELSE "chunked"
  /\ UNCHANGED <<upload, pages, read, stored, warnings, cites>>

(* A question reads some chunks, in the order of the prompt.  A new copy   *)
(* of the document may have been stored in between: the neighbours' rows   *)
(* went with the old one.                                                  *)
Read ==
  /\ stage = "chunked"
  /\ \E n \in 1..MaxRead : \E r \in [1..n -> DOMAIN chunks] :
       /\ IsInjective(r)
       /\ read' = r
  /\ stored' \in {DOMAIN chunks, {}}
  /\ warnings' = warnings_for(chunks, stored', read')
  /\ stage' = "read"
  /\ UNCHANGED <<upload, pages, chunks, cites>>

(* The answer is written and cites blocks, also some it was not given.     *)
Cite ==
  /\ stage = "read"
  /\ cites' \in SUBSET (1..Len(read) + 1)
  /\ warnings' = mark_cited(warnings, cites')
  /\ stage' = "answered"
  /\ UNCHANGED <<upload, pages, chunks, read, stored>>

ManualNext == Extract \/ Chunk \/ Read \/ Cite

ManualSpec == ManualInit /\ [][ManualNext]_manualVars

-----------------------------------------------------------------------------
Words(units) == FlattenSeq(Text(units))
Lines(p) == IF pages[p].ocr THEN upload.scan[p] ELSE upload.raw[p]
IsStored == stage \in {"chunked", "read", "answered"}

(* What is stored of page p; a sentence that was cut has parts 1, 2, ...   *)
StoredUnits(p) == UNION {Range(chunks[c].units) : c \in {d \in DOMAIN chunks : chunks[d].page = p}}

(* A line that may be page furniture: near an end of its page, and the     *)
(* same line is near an end of three pages.                                *)
NearEdge(lines, i) == 3 * i <= Len(lines) \/ 3 * (Len(lines) - i + 1) <= Len(lines)
Furniture(p, i) ==
  LET holders(k) == {q \in DOMAIN upload.raw : \E j \in DOMAIN upload.raw[q] :
                       NearEdge(upload.raw[q], j) /\ upload.raw[q][j].key = k}
  IN  ~pages[p].ocr /\ NearEdge(Lines(p), i) /\ Cardinality(holders(Lines(p)[i].key)) >= 3

(* "Only edge lines are ever removed, so the same words in the body of a   *)
(* page are untouched" (pdf_text.py:133-134), and a page is cut "on        *)
(* sentence ends" (507): from the printed page to the table no sentence is *)
(* lost or shortened, but for furniture and for slivers of less than       *)
(* MIN_CHUNK_ALNUM; and what a model is asked to read stays within the     *)
(* size asked for and the text carried over, which the sentence that       *)
(* follows it may exceed, and a tail folded in, repeating at most half of  *)
(* the chunk before (500-569).                                             *)
PagesSurviveChunking ==
  IsStored =>
    /\ \A p \in DOMAIN pages : \A i \in DOMAIN Lines(p) :
         LET u == Lines(p)[i].unit
             kept == {v \in StoredUnits(p) : v.id = u.id}
             size(k) == IF \E v \in kept : v.part = k
                        THEN alnum_count(<<CHOOSE v \in kept : v.part = k>>) ELSE 0
             spelled == Sum([k \in DOMAIN u.words |-> size(k)])
         IN  Furniture(p, i) \/ alnum_count(<<u>>) - spelled \in 0..MIN_CHUNK_ALNUM - 1
    /\ \A c \in DOMAIN chunks :
         LET carried == upload.max \div 2
             tail == IF upload.paragraphs THEN MIN_TAIL_CHARS ELSE 0
             repeated(u) == IF u \in Range(chunks[c - 1].units) THEN Chars(u) ELSE 0
         IN  /\ Length(chunks[c].units) <= upload.max + carried + tail
             /\ c > 1 => SumOver(repeated, chunks[c].units) <= carried

-----------------------------------------------------------------------------
(* The manual as it is printed, without furniture, page after page.        *)
Printed == FlattenSeq([p \in DOMAIN pages |-> pages[p].text])
LabelsIn(c) == {u \in Range(chunks[c].units) : u.kind \in Labels}
(* The warning printed under the label of unit u: up to the next label,    *)
(* heading or item, a banner's sentence only; without the label.           *)
Under(u) ==
  LET i == Min({j \in DOMAIN Printed : Printed[j].id = u.id})
      ends == {j \in i + 1..Len(Printed) : Printed[j].kind # "plain" \/ u.kind = "banner"}
      first == [Printed[i] EXCEPT !.words = Tail(@)]
  IN  <<first>> \o SubSeq(Printed, i + 1, Min(ends \cup {Len(Printed) + 1}) - 1)
(* Neighbouring chunks are joined without a sentence too short to be told  *)
(* from a coincidence: MIN_OVERLAP_CHARS keeps it twice.                   *)
WithoutEchoes(units) ==
  SelectAt(units, {i \in DOMAIN units : i > 1 => ~(/\ units[i].words = units[i - 1].words
                                                  /\ Chars(units[i]) < MIN_OVERLAP_CHARS)})

(* "Safety text the answer must never drop", "returned beside the answer   *)
(* word for word" (warnings.py:1-8): every label in a passage the model    *)
(* read is returned at its level with the whole text the manual prints     *)
(* under it, up to the cap, across chunks and pages, and no word more,     *)
(* unless another such warning begins with that text; while the            *)
(* neighbours' rows are gone, with the beginning of it.                    *)
WarningsComplete ==
  stage \in {"read", "answered"} =>
    \A n \in DOMAIN read : \A u \in LabelsIn(read[n]) :
      LET printed == Words(cap(Under(u)))
          printings == {Words(cap(Under(v))) : v \in {x \in Range(Printed) : x.kind \in Labels}}
      IN  Len(printed) > 0 =>
            \E k \in DOMAIN warnings :
              LET told == Words(WithoutEchoes(warnings[k].text)) IN
              /\ warnings[k].level = u.level
              /\ warnings[k].source = "block"
              /\ \/ IsPrefix(printed, told) /\ told \in printings
                 \/ stored = {} /\ IsPrefix(told, Words(Under(u)))

(* A warning names a block that holds its label, and belongs to the blocks *)
(* that do and to no other; one from the paragraph's start is in none of   *)
(* them (warnings.py:272-308).                                             *)
BlocksAreTrue ==
  \A k \in DOMAIN warnings :
    LET w == warnings[k]
        holders == {n \in DOMAIN read : \E u \in LabelsIn(read[n]) :
                      u.level = w.level /\ IsPrefix(Words(WithoutEchoes(w.text)), Words(Under(u)))}
    IN  /\ w.source = "block" => w.block \in holders /\ w.for_blocks = holders
        /\ w.source = "paragraph_start" => holders = {}

(* However often a warning is sighted, and when the answer has cited its   *)
(* blocks too, it is told once, no other beginning with it; it is marked   *)
(* cited exactly when one of its blocks is cited, and stands behind no     *)
(* less severe one and, of its level, behind no uncited one when it is     *)
(* cited itself (warnings.py:272-308, 331-334).                            *)
WarningsToldOnce ==
  /\ \A k \in DOMAIN warnings :
       /\ warnings[k].cited <=> warnings[k].for_blocks \cap cites # {}
       /\ warnings[k].source = "block" => warnings[k].block \in warnings[k].for_blocks
  /\ \A j, k \in DOMAIN warnings : j < k =>
       LET rank(w) == 2 * (CHOOSE i \in DOMAIN LEVELS : LEVELS[i] = w.level)
                   + (IF w.cited THEN 0 ELSE 1) IN
       /\ ~SameWarning(warnings[j], warnings[k])
       /\ rank(warnings[j]) <= rank(warnings[k])
=============================================================================
