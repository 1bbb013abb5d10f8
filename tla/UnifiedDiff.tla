---------------------------- MODULE UnifiedDiff ----------------------------
(***************************************************************************)
(* `moult diff` on one file (line_diff and write_unified_diff in           *)
(* src/apps/moult.cpp): the table of longest common subsequences, the walk *)
(* through it that yields the lines kept, deleted and inserted, and the    *)
(* hunks these are cut into, with three lines of context.                  *)
(*                                                                         *)
(* A text is a sequence of lines, a line a sequence of characters that     *)
(* ends with "nl", but for the last line of a text, which may not.  An op  *)
(* knows the lines it stands at, numbered from 1.                          *)
(***************************************************************************)
EXTENDS Selections

Context == 3

VARIABLES
  old, new,         \* the two texts
  phase,            \* "waiting", "table", "walk", "hunks" or "done"
  cell,             \* cell[i + 1][j + 1]: what old and new have in common from i and j on
  i, j,             \* where the loop stands in old and in new
  ops,              \* the DiffOps: [kind, line, old_line, new_line]
  cursor,           \* the next op the loop over hunks looks at
  hunks             \* the hunks written: the header, and what is printed

diffVars == <<old, new, phase, cell, i, j, ops, cursor, hunks>>

DiffInit ==
  /\ old = <<>> /\ new = <<>> /\ phase = "waiting"
  /\ cell = <<>> /\ i = 0 /\ j = 0
  /\ ops = <<>> /\ cursor = 0 /\ hunks = <<>>

-----------------------------------------------------------------------------
(* line_diff *)

Larger(a, b) == IF a >= b THEN a ELSE b

\* The two texts are there, and the table is all zero.
Compare(before, after) ==
  /\ phase = "waiting"
  /\ old' = before /\ new' = after
  /\ cell' = [r \in 1..(Len(before) + 1) |-> [c \in 1..(Len(after) + 1) |-> 0]]
  /\ i' = Len(before)
  /\ phase' = "table"
  /\ UNCHANGED <<j, ops, cursor, hunks>>

\* Row r of the table, from right to left; below is row r + 1.
Row(r, below) ==
  LET at[c \in 0..Len(new)] ==
        IF c = Len(new) THEN 0
        ELSE IF old[r + 1] = new[c + 1] THEN below[c + 2] + 1
                                        ELSE Larger(below[c + 1], at[c + 1])
  IN [c \in 1..(Len(new) + 1) |-> at[c - 1]]

FillRow ==
  /\ phase = "table" /\ i > 0
  /\ i' = i - 1
  /\ cell' = [cell EXCEPT ![i] = Row(i - 1, cell[i + 1])]
  /\ UNCHANGED <<old, new, phase, j, ops, cursor, hunks>>

TableDone ==
  /\ phase = "table" /\ i = 0
  /\ phase' = "walk"
  /\ UNCHANGED <<old, new, cell, i, j, ops, cursor, hunks>>

Op(kind, line) == [kind |-> kind, line |-> line, old_line |-> i + 1, new_line |-> j + 1]

OldLeft == i < Len(old)
NewLeft == j < Len(new)
Same == OldLeft /\ NewLeft /\ old[i + 1] = new[j + 1]

\* Mutation: the two directions are mixed up.
DeleteFirstSwapped == OldLeft /\ (NewLeft => cell[i + 2][j + 1] <= cell[i + 1][j + 2])

\* A line of old goes first if nothing in common is lost by it.
DeleteFirst == OldLeft /\ (NewLeft => cell[i + 2][j + 1] >= cell[i + 1][j + 2])

Keep ==
  /\ phase = "walk" /\ Same
  /\ ops' = Append(ops, Op("equal", old[i + 1]))
  /\ i' = i + 1 /\ j' = j + 1
  /\ UNCHANGED <<old, new, phase, cell, cursor, hunks>>

Delete ==
  /\ phase = "walk" /\ ~Same /\ DeleteFirst
  /\ ops' = Append(ops, Op("delete", old[i + 1]))
  /\ i' = i + 1
  /\ UNCHANGED <<old, new, phase, cell, j, cursor, hunks>>

Insert ==
  /\ phase = "walk" /\ ~Same /\ ~DeleteFirst /\ NewLeft
  /\ ops' = Append(ops, Op("insert", new[j + 1]))
  /\ j' = j + 1
  /\ UNCHANGED <<old, new, phase, cell, i, cursor, hunks>>

WalkDone ==
  /\ phase = "walk" /\ ~OldLeft /\ ~NewLeft
  /\ phase' = "hunks"
  /\ UNCHANGED <<old, new, cell, i, j, ops, cursor, hunks>>

-----------------------------------------------------------------------------
(* write_unified_diff; positions among the ops count from 0, as there *)

IsChange(k) == ops[k + 1].kind # "equal"

Changes == {k \in 0..(Len(ops) - 1) : IsChange(k)}

\* The first change at or after the cursor.
First(k) == k \in Changes /\ k >= cursor /\ \A c \in Changes : c >= cursor => k <= c

(* The scan goes on as long as the next change is not more than Context    *)
(* lines behind the last.                                                  *)
LastChange(k) ==
  CHOOSE z \in Changes :
    /\ z >= k
    /\ \A c \in Changes : k <= c /\ c < z =>
         \E d \in Changes : c < d /\ d <= c + Context + 1
    /\ \A d \in Changes : z < d => d > z + Context + 1

HunkStart(k) == IF k > Context THEN k - Context ELSE 0

HunkEnd(k) ==
  IF LastChange(k) + Context + 1 < Len(ops) THEN LastChange(k) + Context + 1 ELSE Len(ops)

\* Mutation: an empty side is numbered like one with lines in it.
RangeOfFirst(side, field, first) ==
  <<IF side = <<>> THEN first[field] ELSE side[1][field], Len(side)>>

\* unified_range: where a side of a hunk starts, and its number of lines.
UnifiedRange(side, field, first) ==
  IF side = <<>> THEN <<first[field] - 1, 0>> ELSE <<side[1][field], Len(side)>>

\* write_diff_line: a newline that is missing is added, and nothing says so.
Printed(line) == IF Last(line) = "nl" THEN line ELSE Append(line, "nl")

\* The ops that are lines of the old text, and those that are lines of the new.
Before(q) == Picked(q, {k \in DOMAIN q : q[k].kind # "insert"})
After(q) == Picked(q, {k \in DOMAIN q : q[k].kind # "delete"})

HunkOf(begin, end) ==
  LET body == SubSeq(ops, begin + 1, end)
  IN [begin |-> begin, end |-> end, body |-> body,
      old_range |-> UnifiedRange(Before(body), "old_line", body[1]),
      new_range |-> UnifiedRange(After(body), "new_line", body[1])]

\* Mutation: the next hunk is looked for where its context cannot overlap.
WriteHunkApart ==
  /\ phase = "hunks"
  /\ \E k \in Changes :
       /\ First(k)
       /\ hunks' = Append(hunks, HunkOf(HunkStart(k), HunkEnd(k)))
       /\ cursor' = HunkEnd(k) + Context
  /\ UNCHANGED <<old, new, phase, cell, i, j, ops>>

WriteHunk ==
  /\ phase = "hunks"
  /\ \E k \in Changes :
       /\ First(k)
       /\ hunks' = Append(hunks, HunkOf(HunkStart(k), HunkEnd(k)))
       /\ cursor' = HunkEnd(k)
  /\ UNCHANGED <<old, new, phase, cell, i, j, ops>>

HunksDone ==
  /\ phase = "hunks" /\ \A k \in Changes : k < cursor
  /\ phase' = "done"
  /\ UNCHANGED <<old, new, cell, i, j, ops, cursor, hunks>>

DiffNext ==
  \/ FillRow \/ TableDone
  \/ Keep \/ Delete \/ Insert \/ WalkDone
  \/ WriteHunk \/ HunksDone

-----------------------------------------------------------------------------
PrintedText(text) == [k \in DOMAIN text |-> Printed(text[k])]
Lines(q) == [k \in DOMAIN q |-> Printed(q[k].line)]

Kept == {k \in DOMAIN ops : ops[k].kind = "equal"}

(* The patch changes no more lines than it must: as many lines are kept as *)
(* the longest text that can be had from both by leaving lines out.        *)
Subsequences(q) == {Picked(q, left) : left \in SUBSET DOMAIN q}

ShortestDiff ==
  phase \in {"hunks", "done"} =>
    \A q \in Subsequences(old) \cap Subsequences(new) : Len(q) <= Cardinality(Kept)

(* A hunk says where its lines are: the header of each side gives the      *)
(* place and the number of the lines printed, and 0 for an empty text.     *)
Located(range, printed, text) ==
  IF range[2] = 0 THEN range[1] = 0 /\ printed = <<>> /\ text = <<>>
  ELSE printed = PrintedText(SubSeq(text, range[1], range[1] + range[2] - 1))

HeadersTrue ==
  \A h \in DOMAIN hunks :
    /\ Located(hunks[h].old_range, Lines(Before(hunks[h].body)), old)
    /\ Located(hunks[h].new_range, Lines(After(hunks[h].body)), new)

(* What a reader of the patch makes of it: each hunk in turn takes lines   *)
(* after those of the one before, by the numbers in its header.            *)
Part(text, from, upto) == SubSeq(text, from, IF upto <= Len(text) THEN upto ELSE Len(text))

FirstLine(range) == IF range[2] = 0 THEN range[1] + 1 ELSE range[1]

InSequence ==
  \A h \in 2..Len(hunks) :
    FirstLine(hunks[h].old_range) >=
      FirstLine(hunks[h - 1].old_range) + hunks[h - 1].old_range[2]

From(h) == FirstLine(hunks[h].old_range)
Upto(h) == From(h) + hunks[h].old_range[2] - 1

\* The last line taken before hunk h.
Taken(h) == IF h = 1 THEN 0 ELSE Upto(h - 1)

Patched ==
  FlattenSeq([h \in 1..Len(hunks) |->
                Part(old, Taken(h) + 1, From(h) - 1) \o Lines(After(hunks[h].body))])
    \o Part(old, Taken(Len(hunks) + 1) + 1, Len(old))

(* "Only the accepted-edit portion is a patch" (README.md): when its hunks *)
(* are in sequence, applying it to the old text gives the new one, but for *)
(* a newline missing at its end.                                           *)
PatchYieldsNew == phase = "done" /\ InSequence => PrintedText(Patched) = PrintedText(new)

\* It is a patch: no two hunks claim the same line.
HunksInSequence == InSequence
=============================================================================
