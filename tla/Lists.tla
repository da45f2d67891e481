-------------------------------- MODULE Lists --------------------------------
(***************************************************************************)
(* The operators on lists that Reading, PdfText and Warnings share, defined *)
(* from the first element to the last.                                     *)
(***************************************************************************)
EXTENDS Integers, SequencesExt

IsList(s) == s \in Seq(Range(s))

(* The members of S in a list, in their order.                             *)
Keep(list, S) ==
  LET kept[i \in 0..Len(list)] ==
        IF i = 0 THEN <<>>
        ELSE IF list[i] \in S THEN Append(kept[i - 1], list[i]) ELSE kept[i - 1]
  IN  kept[Len(list)]

(* The elements at some places of a list, in their order.                  *)
SelectAt(list, places) ==
  LET kept == Keep([i \in DOMAIN list |-> i], places)
  IN  [j \in DOMAIN kept |-> list[kept[j]]]

(* Per number of elements, what the first so many come to.                 *)
Totals(sizes) ==
  LET total[i \in 0..Len(sizes)] == IF i = 0 THEN 0 ELSE total[i - 1] + sizes[i]
  IN  total

Sum(sizes) == Totals(sizes)[Len(sizes)]

SumOver(Op(_), list) == Sum([i \in DOMAIN list |-> Op(list[i])])
=============================================================================
