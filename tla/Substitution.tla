---------------------------- MODULE Substitution ----------------------------
(***************************************************************************)
(* What a set of edits means to a text, independent of any order in which  *)
(* they are made: the reference that src/edits.cpp is compared with.  A    *)
(* text is a sequence of bytes, an offset p stands before byte p + 1.      *)
(***************************************************************************)
EXTENDS TextEdits, SequencesExt

(* At each offset the text of the edit that begins there, then the byte    *)
(* itself unless a range covers it.                                        *)
Piece(text, edits, p) ==
  LET beginning == {e \in edits : e.begin = p}
      covered == \E e \in edits : e.begin <= p /\ p < e.end
      inserted == IF beginning = {} THEN <<>>
                  ELSE (CHOOSE e \in beginning : TRUE).replacement
      kept == IF covered \/ p = Len(text) THEN <<>> ELSE <<text[p + 1]>>
  IN inserted \o kept

Substitute(text, edits) ==
  FlattenSeq([i \in 1..(Len(text) + 1) |-> Piece(text, edits, i - 1)])
=============================================================================
