------------------------------ MODULE Figures ------------------------------
(***************************************************************************)
(* src/app/services/verification.py: the figures of an answer against the  *)
(* passages it cites.  Text is abstracted to what the check reads of it:   *)
(*   figures  its numbers in order, [n, places, over, unit, range]: n in   *)
(*            10^-places, over the denominator `over` (0 when there is no  *)
(*            slash), the spelling of the unit or NoUnit, and whether only *)
(*            "-" or "to" stands before the next number                    *)
(*   cites    the parts between commas of its citations, [lo, hi]          *)
(* The order in which figures and blocks are listed is left out.           *)
(***************************************************************************)
EXTENDS Integers, SequencesExt

CONSTANT NoUnit

MAX_CITED_RANGE == 50
TIME_UNITS == {"h", "min", "s"}

(* The spellings the pattern reads, by canonical name.                     *)
UNIT_SPELLINGS ==
  [name \in {"in", "ft", "in-lb", "ft-lb", "lb", "psi", "%"} \cup TIME_UNITS |->
     CASE name = "in" -> {"inch", "inches", "in", "in."}
       [] name = "ft" -> {"foot", "feet", "ft", "ft."}
       [] name = "in-lb" -> {"inch-pound", "inch-pounds", "in-lb", "in.-lbs."}
       [] name = "ft-lb" -> {"foot-pound", "foot-pounds", "ft-lb", "ft.-lbs."}
       [] name = "lb" -> {"pound", "pounds", "lb", "lbs."}
       [] name = "min" -> {"minute", "minutes", "min"}
       [] name = "h" -> {"hour", "hours", "hr", "hrs"}
       [] name = "s" -> {"second", "seconds", "sec"}
       [] name = "psi" -> {"psi"}
       [] name = "%" -> {"percent", "%"}]

Spellings == UNION {UNIT_SPELLINGS[name] : name \in DOMAIN UNIT_SPELLINGS}
Figure == [n : Nat, places : Nat, over : Nat, unit : Spellings \cup {NoUnit}, range : BOOLEAN]

ASSUME FiguresAssumption == NoUnit \notin Spellings \cup DOMAIN UNIT_SPELLINGS

_unit(raw) ==
  IF raw = NoUnit THEN NoUnit
  ELSE CHOOSE name \in DOMAIN UNIT_SPELLINGS : raw \in UNIT_SPELLINGS[name]

(* 10^k                                                                    *)
Tens[k \in Nat] == IF k = 0 THEN 1 ELSE 10 * Tens[k - 1]

(* Decimals without trailing zeros; fractions as they are written.         *)
_value(f) ==
  LET zeros == Max({k \in 0..f.places : f.n % Tens[k] = 0})
  IN  IF f.over # 0 THEN <<f.n, f.places, f.over>>
      ELSE <<f.n \div Tens[zeros], f.places - zeros, 0>>

written(f) == <<f.n, f.places, f.over, f.unit>>

(* Faulty: only the end of a range has the unit.                           *)
numbers_in_one_by_one(figures) ==
  [i \in DOMAIN figures |-> [value |-> _value(figures[i]), unit |-> _unit(figures[i].unit),
                             written |-> written(figures[i])]]

(* "20-25 inch-pounds": the unit belongs to both ends of the range.        *)
numbers_in(figures) ==
  LET shared(i) == figures[i].unit = NoUnit /\ figures[i].range /\ i < Len(figures)
  IN  [i \in DOMAIN figures |->
         [value |-> _value(figures[i]), written |-> written(figures[i]),
          unit |-> _unit(figures[IF shared(i) THEN i + 1 ELSE i].unit)]]

(* [1], [2, 3] or [1-3], a range cut short.                                *)
parse_citations(cites) ==
  UNION {c.lo..Min({c.hi, c.lo + MAX_CITED_RANGE}) : c \in Range(cites)}

(* "min" is minutes in running text and minimum in tables.                 *)
_units_compatible(unit, sourceUnits) ==
  unit \in sourceUnits \/ ("min" \in sourceUnits /\ unit \notin TIME_UNITS)

(* An answer that cites nothing valid is held against every passage.       *)
used(good, passages) == IF good # {} THEN good ELSE DOMAIN passages

verify_answer(answer, passages, question) ==
  LET cited == parse_citations(answer.cites)
      good == cited \cap DOMAIN passages
      in(n) == Range(numbers_in(passages[n]))
      source == UNION {in(n) : n \in used(good, passages)}
      units(v) == {x.unit : x \in {y \in source : y.value = v /\ y.unit # NoUnit}}
      found == {x \in Range(numbers_in(answer.figures)) :
                  x.value \notin {y.value : y \in Range(numbers_in(question))}}
      unknown == {x \in found : x.value \notin {y.value : y \in source}}
      where(v) == {n \in DOMAIN passages \ good : good # {} /\ v \in {y.value : y \in in(n)}}
  IN  [cited |-> good,
       bad_citations |-> cited \ good,
       unsupported |-> {x.written : x \in unknown},
       unit_mismatch |-> {x.written : x \in {y \in found \ unknown :
                            /\ y.unit # NoUnit /\ units(y.value) # {}
                            /\ ~_units_compatible(y.unit, units(y.value))}},
       found_in_uncited |-> {[figure |-> x.written, blocks |-> where(x.value)] :
                              x \in {y \in unknown : where(y.value) # {}}}]

Ok(v) == v.unsupported = {} /\ v.unit_mismatch = {} /\ v.bad_citations = {}
=============================================================================
