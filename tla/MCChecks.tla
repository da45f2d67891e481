------------------------------ MODULE MCChecks ------------------------------
(***************************************************************************)
(* What happens around one answer, each line on its own: one manual from   *)
(* its pages to the warnings of an answer, one question with its figures,  *)
(* the revision notes of a library, the tokens of the API's clients, the   *)
(* model's client.  A behaviour follows one of them; the others stay where *)
(* they start.                                                             *)
(***************************************************************************)
EXTENDS Manual, Question, Revisions, Access, MCLlmClient

VARIABLE line

checksVars == <<line, manualVars, questionVars, revisionVars, accessVars, clientVars>>

ChecksInit ==
  /\ AccessInit
  /\ ClientInit
  /\ \/ line \in {"access", "client"} /\ ManualIdle /\ QuestionIdle /\ RevisionsIdle
     \/ line = "manual" /\ ManualInit /\ QuestionIdle /\ RevisionsIdle
     \/ line = "question" /\ ManualIdle /\ QuestionInit /\ RevisionsIdle
     \/ line = "revisions" /\ ManualIdle /\ QuestionIdle /\ RevisionsInit
  /\ line # "client" => provider = "ollama"

ChecksNext ==
  /\ UNCHANGED line
  /\ \/ ManualNext /\ UNCHANGED <<questionVars, revisionVars, accessVars, clientVars>>
     \/ QuestionNext /\ UNCHANGED <<manualVars, revisionVars, accessVars, clientVars>>
     \/ RevisionsNext /\ UNCHANGED <<manualVars, questionVars, accessVars, clientVars>>
     \/ /\ line = "access"
        /\ AccessNext
        /\ UNCHANGED <<manualVars, questionVars, revisionVars, clientVars>>
     \/ /\ line = "client"
        /\ ClientNext
        /\ UNCHANGED <<manualVars, questionVars, revisionVars, accessVars>>

ChecksSpec == ChecksInit /\ [][ChecksNext]_checksVars

-----------------------------------------------------------------------------
(* Pages, line by line.  A phrase is named by the sentence it stands in.   *)
Phrase(id, chars) == [is |-> <<id, 1>>, chars |-> chars]
Cut(id, n, chars) == [i \in 1..n |-> [is |-> <<id, i>>, chars |-> chars]]
Unit(id, kind, level, words) ==
  [id |-> id, part |-> 1, kind |-> kind, level |-> level, words |-> words]
Line(u) == [key |-> u.id, page |-> None, bare |-> None, revision |-> None, date |-> 0, unit |-> u]
Plain(id, chars) == Line(Unit(id, "plain", None, <<Phrase(id, chars)>>))
Long(id, n, chars) == Line(Unit(id, "plain", None, Cut(id, n, chars)))
Heading(id) == Line(Unit(id, "heading", None, <<Phrase(id, 6)>>))
Item(id, chars) == Line(Unit(id, "item", None, <<Phrase(id, chars)>>))
Labelled(level, id, n, chars) ==
  Line(Unit(id, "label", level, <<Phrase(level, Len(level) + 1)>> \o Cut(id, n, chars)))
Banner(level, id, chars) ==
  Line(Unit(id, "banner", level, <<Phrase(level, Len(level)), Phrase(id, chars)>>))
Header(page, revision, date) ==
  [Plain("header", 27) EXCEPT !.page = page, !.revision = revision, !.date = date, !.unit.id = page]
Footer(n) == [Plain("footer", 4) EXCEPT !.bare = n, !.unit.id = n]

AC == <<"AC 43.13-1B">>
AC1 == <<"AC 43.13-1B", "CHG 1">>

(* Changed pages, warnings that run on over chunks and pages; the last     *)
(* page quotes the words of the header.                                    *)
Tyres ==
  << << Header("3-1", AC, 1), Heading("3-1."), Plain("tyres", 300), Labelled("WARNING", "probe", 1, 180),
        Plain("deflate", 90), Plain("wear", 400), Banner("CAUTION", "torque", 60),
        Plain("table", 300), Labelled("NOTE", "gauge", 1, 100), Footer("1") >>,
     << Header("3-2", AC1, 2), Plain("gauge2", 300), Plain("gauge3", 350), Heading("3-2."),
        Plain("cuts", 250), Item("(1)", 200), Labelled("CAUTION", "solvent", 1, 150),
        Plain("rinse", 5), Long("dry", 2, 350), Footer("2") >>,
     << Header("3-3", AC, 1), [Plain("header", 60) EXCEPT !.unit.id = "quote"], Footer("3") >> >>

(* A sentence longer than a chunk, a page that is a scan, a word the text  *)
(* layer split, a short sentence that is carried over alone.               *)
Beading ==
  << << Plain("conduits", 160), Plain("a", 190), Labelled("WARNING", "hot", 9, 80), Plain("b", 200),
        Plain("c", 38) >>,
     << Plain("stamp", 12) >>,
     << [Plain("conduits", 160) EXCEPT !.unit.id = "again"], Plain("d", 190), Labelled("NOTE", "see", 1, 160),
        Plain("echo", 5), Plain("e", 580), Labelled("NOTE", "see2", 2, 60), Long("f", 4, 30) >> >>
Scan == 2 :> <<Plain("scanned", 300), Labelled("CAUTION", "wet", 1, 200)>>

(* Nothing but scans; a cover with a few words.                            *)
Scanned == << <<Plain("cover", 35)>>, <<>> >>

Upload_(raw, scan, repair, par, m, o) ==
  [raw |-> raw, scan |-> scan, repair |-> repair, paragraphs |-> par, max |-> m, overlap |-> o]
MCUploads ==
  {Upload_(Tyres, <<>>, FALSE, par, m, o) : par \in BOOLEAN, m \in {1200, 600}, o \in {150, 500}}
    \cup {Upload_(Beading, Scan, repair, FALSE, m, o) : repair \in BOOLEAN, m \in {1200, 600}, o \in {0, 150}}
    \cup {Upload_(Scanned, Scan, FALSE, FALSE, 1200, 150)}
SplitWord(i) == [is |-> <<"hot", i>>, chars |-> 80]
MCJoined == <<SplitWord(2), SplitWord(3)>> :> [is |-> <<"conduits", 1>>, chars |-> 160]

-----------------------------------------------------------------------------
Fig(n, places, over, unit, range) ==
  [n |-> n, places |-> places, over |-> over, unit |-> unit, range |-> range]
(* "20-25 inch-pounds", "0.50 in.", "3/8"; "20 psi", "0.057 min.", "10".   *)
MCPrompts ==
  { << << Fig(20, 0, 0, NoUnit, TRUE), Fig(25, 0, 0, "inch-pounds", FALSE), Fig(50, 2, 0, "in.", FALSE),
          Fig(3, 0, 8, NoUnit, FALSE) >>,
       << Fig(20, 0, 0, "psi", FALSE), Fig(57, 3, 0, "min", FALSE), Fig(10, 0, 0, NoUnit, FALSE) >> >>,
    << << Fig(10, 0, 0, "hours", FALSE), Fig(200, 1, 0, "psi", FALSE) >> >> }
MCFigures ==
  { Fig(20, 0, 0, NoUnit, FALSE), Fig(20, 0, 0, NoUnit, TRUE), Fig(20, 0, 0, "in-lb", FALSE),
    Fig(20, 0, 0, "foot-pounds", FALSE), Fig(25, 0, 0, "in-lb", FALSE), Fig(5, 1, 0, "inches", FALSE),
    Fig(375, 3, 0, NoUnit, FALSE), Fig(3, 0, 8, "inch", FALSE), Fig(57, 3, 0, "inch", FALSE),
    Fig(57, 3, 0, "hr", FALSE), Fig(10, 0, 0, "lb", FALSE), Fig(41, 3, 0, NoUnit, FALSE) }
Range_(lo, hi) == [lo |-> lo, hi |-> hi]
MCCites ==
  { <<>>, <<Range_(1, 1)>>, <<Range_(2, 2)>>, <<Range_(2, 2), Range_(1, 1)>>, <<Range_(1, 2)>>,
    <<Range_(2, 1)>>, <<Range_(3, 3)>>, <<Range_(1, 60)>>, <<Range_(0, 1)>> }
MCAnswered ==
  { [figures |-> f, cites |-> c] : f \in {<<a, b>> : a \in MCFigures, b \in MCFigures}, c \in MCCites }

Word(is, length, alpha, digit) == [is |-> is, length |-> length, alpha |-> alpha, digit |-> digit]
Plainly(is, length) == Word(is, length, TRUE, FALSE)
MCQuestions ==
  { [words |-> << Plainly("what", 4), Plainly("colour", 6), Plainly("tire", 4), Word("20", 2, FALSE, TRUE),
                  Plainly("psi", 3) >>,
     figures |-> << Fig(10, 0, 0, "lb", FALSE) >>],
    [words |-> << Plainly("tyre", 4), Plainly("color", 5), Word("a320", 4, TRUE, TRUE),
                  Plainly("realise", 7), Plainly("tyre", 4) >>,
     figures |-> <<>>],
    [words |-> << Plainly("very", 4), Plainly("colored", 7) >>, figures |-> <<>>] }
MCVariants == [colour |-> "color", tyre |-> "tire"]
MCOurOr == [colour |-> "color", coloured |-> "colored"]
MCIseIze == [realise |-> "realize", realize |-> "realise"]
MCStem ==
  [colour |-> "colour", coloured |-> "colour", color |-> "color", colored |-> "color",
   tyre |-> "tyre", tire |-> "tire", a320 |-> "a320", realise |-> "realis", realize |-> "realiz"]
MCCorpora ==
  { <<a, b>> : a \in {{"tire", "color"}, {"tyre"}}, b \in SUBSET {"colour", "a320", "realize"} }

-----------------------------------------------------------------------------
(* A dated manual and its first change, whose new pages alone name it; the *)
(* same two with no date on any page; another manual, named by the caller. *)
Edition(headers, revision, title) ==
  [headers |-> headers, revision |-> revision, key |-> None, title |-> title]
MCEditions ==
  { Edition(<<Header("1", AC, 1), None>>, None, <<"scan-07">>),
    Edition(<<Header("1", AC, 1), Header("2", AC1, 2), Header("3", AC, 1)>>, None, <<"scan-08">>),
    Edition(<<Header("1", AC1, 0), Header("2", AC, 0), Header("3", AC1, 0)>>, None, <<"scan-09">>),
    Edition(<<None>>, None, AC),
    Edition(<<Header("1", <<"FAA">>, 3)>>, <<"AC 65-15">>, <<"scan-10">>) }

Settings(enabled, realm, length, clients, ttl) ==
  [enabled |-> enabled, realm |-> realm, length |-> length, clients |-> clients, ttl |-> ttl]
Client(secret, scopes) == [secret |-> secret, scopes |-> scopes]
MCConfigs ==
  { Settings(TRUE, "k1", 32, [app |-> Client("s1", {"query", "ingest"}), kiosk |-> Client("s2", {"query"})], 20),
    Settings(TRUE, "k1", 32, [kiosk |-> Client("s2", {"query"})], 10),
    Settings(TRUE, "k2", 48, [app |-> Client("s1", {"query"})], 20),
    Settings(TRUE, "k3", 31, [app |-> Client("s1", {"query"})], 20),
    Settings(FALSE, "k1", 0, [app |-> Client("s1", {"admin"})], 20) }
=============================================================================
