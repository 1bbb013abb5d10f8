------------------------------ MODULE DiffPlan ------------------------------
(***************************************************************************)
(* From a transpiler to a patch.  A transpiler hands over the whole new    *)
(* text of a file; propose_file_rewrite (src/transpiler.cpp) trims what    *)
(* both texts share at either end and proposes one edit.  Later `moult     *)
(* diff` (diff_plan in src/apps/moult.cpp) loads the file, which may have  *)
(* been saved since, makes the edit in memory and writes the patch, step   *)
(* by step as in UnifiedDiff.tla; `moult review` shows the patch of the    *)
(* lines around the edit.  A bound: plans of one file.                     *)
(*                                                                         *)
(* Texts are sequences of characters here; offsets count from 0.           *)
(***************************************************************************)
EXTENDS UnifiedDiff

CONSTANTS
  Rewrites,         \* the rewrites: <<source, rewritten>>
  FrontLine,        \* a line the user may put in front
  NoText            \* no file

\* A text is a sequence of characters.
ASSUME RewritesAssumption ==
  /\ \A r \in Rewrites : \A k \in 1..2 : r[k] \in Seq(ToSet(r[k]))
  /\ FrontLine \in Seq(ToSet(FrontLine))

VARIABLES
  source,           \* the text in the SourceStore, or NoText
  rewritten,        \* TranspilerFileRewrite::rewritten_text
  edits,            \* the edits of the plan: [begin, end, replacement], one or none
  disk,             \* the file when moult diff reads it
  command,          \* "transpiler", "plan", "diff" or "review": what runs or is to run
  exit              \* the exit code of moult diff, once it has one

planVars == <<source, rewritten, edits, disk, command, exit>>

NoExit == 2

PlanInit ==
  /\ \E r \in Rewrites : source \in {r[1], NoText} /\ rewritten = r[2] /\ disk = r[1]
  /\ edits = {} /\ command = "transpiler" /\ exit = NoExit
  /\ DiffInit

-----------------------------------------------------------------------------
(* propose_file_rewrite *)

Shorter == Min({Len(source), Len(rewritten)})

\* The number of characters both texts begin with.
Prefix == Max({n \in 0..Shorter : SubSeq(source, 1, n) = SubSeq(rewritten, 1, n)})

EndOf(text, n) == SubSeq(text, Len(text) - n + 1, Len(text))
SharedEnd(n) == EndOf(source, n) = EndOf(rewritten, n)

\* Mutation: what the texts share at the end may reach into what they share at the beginning.
SuffixUnbounded == Max({n \in 0..Shorter : SharedEnd(n)})

\* The number of characters trimmed at the end, none of them trimmed before.
Suffix == Max({n \in 0..(Shorter - Prefix) : SharedEnd(n)})

RewriteEdit ==
  [begin |-> Prefix, end |-> Len(source) - Suffix,
   replacement |-> SubSeq(rewritten, Prefix + 1, Len(rewritten) - Suffix)]

\* A file that is not in the store is warned about; an equal text proposes nothing.
NothingProposed ==
  /\ command = "transpiler" /\ source \in {NoText, rewritten}
  /\ command' = "plan"
  /\ UNCHANGED <<diffVars, source, rewritten, edits, disk, exit>>

Proposed ==
  /\ command = "transpiler" /\ source \notin {NoText, rewritten}
  /\ edits' = {RewriteEdit}
  /\ command' = "plan"
  /\ UNCHANGED <<diffVars, source, rewritten, disk, exit>>

\* The user saves the file with a line in front or without its last character,
\* or removes it.
FileChanged ==
  /\ command = "plan"
  /\ disk' \in {FrontLine \o disk, SubSeq(disk, 1, Len(disk) - 1), NoText} \ {disk}
  /\ command' = "diff"
  /\ UNCHANGED <<diffVars, source, rewritten, edits, exit>>

-----------------------------------------------------------------------------
(* diff_plan *)

Spliced(text, e) == SubSeq(text, 1, e.begin) \o e.replacement \o SubSeq(text, e.end + 1, Len(text))

\* split_lines_preserve_newlines: a newline ends the line it is in.
LinesOf(text) ==
  LET starts == {p \in DOMAIN text : p = 1 \/ text[p - 1] = "nl"}
      end(p) == Min({Len(text)} \cup {n \in p..Len(text) : text[n] = "nl"})
  IN Picked([p \in 1..Len(text) |-> SubSeq(text, p, end(p))], starts)

\* The file can be loaded, and the edit lies within it.
Fits(e) == disk # NoText /\ e.end <= Len(disk)

\* Without edits only the suggestions for manual review are written.
NothingToDiff ==
  /\ command \in {"plan", "diff"} /\ exit = NoExit
  /\ edits = {}
  /\ exit' = 0
  /\ UNCHANGED <<diffVars, source, rewritten, edits, disk, command>>

\* Else load_plan_sources or EditSet::add refuses.
DiffRefused ==
  /\ command \in {"plan", "diff"} /\ phase = "waiting" /\ exit = NoExit
  /\ \E e \in edits : ~Fits(e)
  /\ exit' = 1
  /\ UNCHANGED <<diffVars, source, rewritten, edits, disk, command>>

DiffBegins ==
  /\ command \in {"plan", "diff"} /\ phase = "waiting" /\ exit = NoExit
  /\ \E e \in edits :
       /\ Fits(e)
       /\ Compare(LinesOf(disk), LinesOf(Spliced(disk, e)))
  /\ command' = "diff"
  /\ UNCHANGED <<source, rewritten, edits, disk, exit>>

DiffEnds ==
  /\ phase = "done" /\ exit = NoExit
  /\ exit' = 0
  /\ UNCHANGED <<diffVars, source, rewritten, edits, disk, command>>

-----------------------------------------------------------------------------
(* selected_edit_patch in src/apps/moult_review.cpp: the same comparison,  *)
(* of the lines around one edit                                            *)

WindowContext == 2

\* line_starts_for: no line starts at the end of the text.
LineStarts(text) == {0} \cup {p \in 1..(Len(text) - 1) : text[p] = "nl"}

\* line_index_for_offset, counted from 0.
LineIndex(text, offset) == Cardinality({s \in LineStarts(text) : s <= offset}) - 1

\* Where line n starts, or the end of the text when there is no such line.
StartOfLine(text, n) ==
  Min({Len(text)} \cup {s \in LineStarts(text) : LineIndex(text, s) = n})

FirstShown(text, e) == Max({0, LineIndex(text, e.begin) - WindowContext})

\* Mutation: lines are counted from the beginning of the edit.
AfterShownFromBegin(text, e) == LineIndex(text, e.begin) + WindowContext + 1

\* The line after the last one shown.
AfterShown(text, e) == LineIndex(text, Max({0, e.end - 1})) + WindowContext + 1

WindowBegin(text, e) == StartOfLine(text, FirstShown(text, e))
WindowEnd(text, e) == StartOfLine(text, AfterShown(text, e))

OldWindow(text, e) == SubSeq(text, WindowBegin(text, e) + 1, WindowEnd(text, e))

NewWindow(text, e) ==
  SubSeq(text, WindowBegin(text, e) + 1, e.begin) \o e.replacement
    \o SubSeq(text, e.end + 1, WindowEnd(text, e))

\* split_lines_preserve_newlines of moult_review.cpp: an empty text has an empty line.
ShownLines(text) == IF text = <<>> THEN << <<>> >> ELSE LinesOf(text)

Preview ==
  /\ command \in {"plan", "diff"}
  /\ \E e \in edits :
       /\ Fits(e)
       /\ Compare(ShownLines(OldWindow(disk, e)), ShownLines(NewWindow(disk, e)))
  /\ command' = "review"
  /\ UNCHANGED <<source, rewritten, edits, disk, exit>>

PlanNext ==
  \/ NothingProposed \/ Proposed \/ FileChanged
  \/ NothingToDiff \/ DiffRefused \/ DiffBegins \/ DiffEnds
  \/ Preview
  \/ phase \in {"table", "walk"} /\ DiffNext /\ UNCHANGED planVars
  \/ phase = "hunks" /\ command = "diff" /\ DiffNext /\ UNCHANGED planVars

PlanSpec == PlanInit /\ [][PlanNext]_<<diffVars, planVars>>

-----------------------------------------------------------------------------
\* Mutation: the newline counts as part of the line after it.
LineAtEager(text, offset) ==
  Cardinality({start \in {0} \cup {p \in DOMAIN text : text[p] = "nl"} : start <= offset + 1})

\* SourceBuffer::line_column: the line of an offset is the last one that starts at it or before.
LineAt(text, offset) ==
  Cardinality({start \in {0} \cup {p \in DOMAIN text : text[p] = "nl"} : start <= offset})

(* "full `TranspilerFileRewrite` output" (docs/building_engines.md) becomes *)
(* one edit: making it gives the text the transpiler wrote, and no edit    *)
(* that does replaces fewer characters.                                    *)
RewriteIsSmallest ==
  \A e \in edits :
    /\ e.begin <= e.end /\ e.end <= Len(source)
    /\ Spliced(source, e) = rewritten
    /\ \A b, z \in 0..Len(source) :
         b <= z /\ z - b < e.end - e.begin /\ Len(rewritten) >= b + Len(source) - z =>
           SubSeq(source, 1, b) # SubSeq(rewritten, 1, b) \/ ~SharedEnd(Len(source) - z)

(* What a report says of an edit and what the patch shows agree: for a     *)
(* file that was not saved since, the line line_column finds for the edit  *)
(* is the first one the patch changes.                                     *)
PlacesAgree ==
  phase = "done" /\ disk = source =>
    \A e \in edits : \E k \in DOMAIN ops :
      /\ ops[k].kind # "equal" /\ \A n \in 1..(k - 1) : ops[n].kind = "equal"
      /\ ops[k].old_line = LineAt(disk, e.begin)

(* What `moult review` shows beside an edit is what the edit does: the     *)
(* lines shown, from the line in the header on, are those of the file and  *)
(* those of the file with the edit made, and nothing is changed outside    *)
(* them.  An empty window is shown as a blank line, and left aside.        *)
ReviewShowsEdit ==
  phase = "hunks" /\ command = "review" =>
    \A e \in edits :
      LET first == FirstShown(disk, e) + 1
          Shows(side, lines) ==
            Lines(side) = PrintedText(SubSeq(lines, first, first + Len(side) - 1))
          Outside(side, lines) ==
            <<SubSeq(lines, 1, first - 1), SubSeq(lines, first + Len(side), Len(lines))>>
          made == LinesOf(Spliced(disk, e))
      IN old # << <<>> >> /\ new # << <<>> >> =>
           /\ Shows(Before(ops), LinesOf(disk)) /\ Shows(After(ops), made)
           /\ Outside(Before(ops), LinesOf(disk)) = Outside(After(ops), made)
=============================================================================
