----------------------------- MODULE TextEdits -----------------------------
(***************************************************************************)
(* The vocabulary of text edits shared by every module: source ranges and  *)
(* the two relations src/edits.cpp decides everything with.                *)
(*                                                                         *)
(* A TextEdit is a record [file, begin, end, replacement, rule] whose      *)
(* range [begin, end) is half-open.  The id the code derives with          *)
(* stable_id from exactly those fields is not a field of its own: the      *)
(* record stands for it, that is, stable_id is taken to have no collision. *)
(* Confidence, evidence and attributes play no part in these relations.    *)
(***************************************************************************)
EXTENDS Integers

\* Every edit over the given files, offsets, replacements and rules.
EditsOver(Files, Offsets, Replacements, Rules) ==
  [file: Files, begin: Offsets, end: Offsets,
   replacement: Replacements, rule: Rules]

\* SourceRange::valid: a named file and an ordered pair of offsets.
ValidRange(e, NoFile) == e.file # NoFile /\ e.begin <= e.end

(* Two half-open ranges of one file overlap unless one ends at or before   *)
(* the other's start.  An insertion therefore overlaps only a range that   *)
(* holds its offset strictly inside.                                       *)
Overlap(a, b) ==
  /\ a.file = b.file
  /\ ~(a.end <= b.begin \/ b.end <= a.begin)

\* The same change to the same place, whichever rule asked for it.
SameEdit(a, b) ==
  /\ a.file = b.file
  /\ a.begin = b.begin
  /\ a.end = b.end
  /\ a.replacement = b.replacement

=============================================================================
