----------------------------- MODULE ApplyEdits -----------------------------
(***************************************************************************)
(* EditSet::apply_to_memory (src/edits.cpp): the accepted edits of a plan  *)
(* turned into the new text of every file they touch.                      *)
(*                                                                         *)
(* Files are visited in name order.  In one file the edits are applied by  *)
(* descending begin offset, each to the text the previous ones left; the   *)
(* comparison looks at begin only, so edits that begin at the same offset  *)
(* come in an order std::sort does not promise.  A text is a sequence of   *)
(* bytes, an offset p stands before byte p + 1.                            *)
(*                                                                         *)
(* Edits may have been accepted without a SourceStore at hand (add's       *)
(* second parameter defaults to null), so a range may lie outside the      *)
(* text or name a file that is not there.                                  *)
(***************************************************************************)
EXTENDS Substitution

CONSTANTS
  Files,            \* file names, as numbers so that they have an order
  Text,             \* Text[f]: the bytes of each file in the SourceStore
  Bytes,            \* the bytes texts are made of
  Rules,            \* rule ids
  EditSets          \* the sets of accepted edits to apply

(* Accepted edits are apart and come once, which is what EditSet proves of *)
(* them (AcceptedDisjoint in EditSet.tla).                                 *)
Acceptable(S) ==
  \A a, b \in S : a # b => ~Overlap(a, b) /\ ~SameEdit(a, b)

ASSUME ApplyAssumption ==
  /\ Files \subseteq Nat
  /\ DOMAIN Text \subseteq Files
  /\ \A f \in DOMAIN Text : Text[f] \in Seq(Bytes)
  /\ \A S \in EditSets :
       /\ S \subseteq EditsOver(Files, Nat, Seq(Bytes), Rules)
       /\ \A e \in S : e.begin <= e.end
       /\ Acceptable(S)

VARIABLES
  edits,            \* the accepted edits
  conflicted,       \* has_conflicts(): whether conflicts were recorded
  phase,            \* where the call is: visiting files, editing one, or over
  pending,          \* the files with edits that are still to be visited
  file,             \* the file being edited
  todo,             \* its edits that are still to be applied
  text,             \* its text so far
  result            \* the new text of each file that is finished

vars == <<edits, conflicted, phase, pending, file, todo, text, result>>

Phases == {"called", "visiting", "editing", "returned", "threw"}

Init ==
  /\ edits \in EditSets
  /\ conflicted \in BOOLEAN
  /\ phase = "called"
  /\ pending = {e.file : e \in edits}
  /\ file = 0
  /\ todo = {}
  /\ text = <<>>
  /\ result = <<>>

-----------------------------------------------------------------------------
Throw == phase' = "threw"

\* Line 72: a plan with conflicts is refused before any file is looked at.
Enter ==
  /\ phase = "called"
  /\ phase' = IF conflicted THEN "threw" ELSE "visiting"
  /\ UNCHANGED <<edits, conflicted, pending, file, todo, text, result>>

\* by_file: the edits of one file.
EditsOf(f) == {e \in edits : e.file = f}

\* The next file in name order; one that is not in the store ends the call.
Visit ==
  /\ phase = "visiting"
  /\ \E f \in pending :
       /\ \A g \in pending : f <= g
       /\ IF f \in DOMAIN Text
            THEN /\ phase' = "editing"
                 /\ file' = f
                 /\ text' = Text[f]
                 /\ todo' = EditsOf(f)
                 /\ pending' = pending \ {f}
            ELSE /\ Throw
                 /\ UNCHANGED <<pending, file, todo, text>>
  /\ UNCHANGED <<edits, conflicted, result>>

\* Mutation: a replacement takes out one byte more than its range.
SpliceLong(t, e) ==
  SubSeq(t, 1, e.begin) \o e.replacement \o SubSeq(t, e.end + 2, Len(t))

\* std::string::replace of the range [begin, end) of t.
Splice(t, e) == SubSeq(t, 1, e.begin) \o e.replacement \o SubSeq(t, e.end + 1, Len(t))

\* Mutation: edits are applied from the front.
AscendingNext(e) == e \in todo /\ \A d \in todo : e.begin <= d.begin

\* An edit the descending order may put first among those left.
DescendingNext(e) == e \in todo /\ \A d \in todo : d.begin <= e.begin

\* Mutation: the bounds check looks at begin only.
InBoundsOfBegin(e) == e.begin <= Len(text)

\* Line 82: the range is compared with the text the previous edits left.
InBounds(e) == e.end <= Len(text) /\ e.begin <= e.end

ApplyOne ==
  /\ phase = "editing"
  /\ \E e \in todo :
       /\ DescendingNext(e)
       /\ IF InBounds(e)
            THEN text' = Splice(text, e) /\ todo' = todo \ {e} /\ UNCHANGED phase
            ELSE Throw /\ UNCHANGED <<text, todo>>
  /\ UNCHANGED <<edits, conflicted, pending, file, result>>

FinishFile ==
  /\ phase = "editing"
  /\ todo = {}
  /\ result' = [f \in DOMAIN result \cup {file} |->
                  IF f = file THEN text ELSE result[f]]
  /\ phase' = "visiting"
  /\ UNCHANGED <<edits, conflicted, pending, file, todo, text>>

Return ==
  /\ phase = "visiting"
  /\ pending = {}
  /\ phase' = "returned"
  /\ UNCHANGED <<edits, conflicted, pending, file, todo, text, result>>

Next == Enter \/ Visit \/ ApplyOne \/ FinishFile \/ Return

Spec == Init /\ [][Next]_vars

-----------------------------------------------------------------------------
\* What each variable holds; a finished file is not visited again.
TypeOK ==
  /\ edits \in EditSets
  /\ conflicted \in BOOLEAN
  /\ phase \in Phases
  /\ file \in Nat
  /\ pending \subseteq {e.file : e \in edits}
  /\ phase = "editing" => file \in DOMAIN Text \ pending
  /\ todo \subseteq edits
  /\ \A e \in todo : e.file = file
  /\ text \in Seq(Bytes)
  /\ DOMAIN result \subseteq DOMAIN Text \ pending
  /\ \A f \in DOMAIN result : result[f] \in Seq(Bytes)

(* "Edits are applied per file in descending byte-offset order, which      *)
(* prevents earlier edits from shifting later ranges"                      *)
(* (docs/architecture.md): up to the end of the range of every edit still  *)
(* to be applied, the text is the file's own.                              *)
LaterRangesUnshifted ==
  phase = "editing" =>
    \A e \in todo : \A i \in 1..e.end :
      i \in DOMAIN Text[file] => i \in DOMAIN text /\ text[i] = Text[file][i]

(* "Throws if an edit references a missing file/range or if conflicts were *)
(* recorded" (core/edits.hpp), and for nothing else: judged by the files   *)
(* as they were, not by the text the loop has at hand.                     *)
Appliable ==
  /\ ~conflicted
  /\ \A e \in edits : e.file \in DOMAIN Text /\ e.end <= Len(Text[e.file])

ThrowsExactly ==
  /\ phase = "returned" => Appliable
  /\ phase = "threw" => ~Appliable

Substituted(f) == Substitute(Text[f], EditsOf(f))

\* The loop computes that meaning, for exactly the files the edits touch.
ResultIsSubstitution ==
  phase = "returned" =>
    /\ DOMAIN result = {e.file : e \in edits}
    /\ \A f \in DOMAIN result : result[f] = Substituted(f)

=============================================================================
