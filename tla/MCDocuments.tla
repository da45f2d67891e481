----------------------------- MODULE MCDocuments -----------------------------
(* Two uploads and two replacements of the same file, and two runs of        *)
(* mark_superseded.py, one of them with --undo.                             *)
EXTENDS Documents

CONSTANTS up1, up2, re1, re2, m1, m2
Calls == {up1, up2, re1, re2}
FewCalls == {up1, re1}
Replacements == {re1, re2} \cap Ingests
Marks == {m1, m2}
Undos == {m2}
OneMark == {m1}
NoUndo == {}
=============================================================================
