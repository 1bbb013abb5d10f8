---------------------------- MODULE ClangAdapter ----------------------------
(***************************************************************************)
(* The libclang adapter (analyze in src/clang/adapter.cpp): one            *)
(* translation unit per C++ source of the store, in the order of paths.    *)
(* libclang is handed the stored text of that source only; what the source *)
(* includes it reads from disk, where a file may have been saved since it  *)
(* was loaded.  Each cursor it visits is turned into facts about a range   *)
(* of the store.                                                           *)
(*                                                                         *)
(* Texts are sequences of symbols as in TextScanner.tla; places count      *)
(* from 0.  What libclang makes of a text is a parameter.                  *)
(***************************************************************************)
EXTENDS Integers, SequencesExt

CONSTANTS
  Sources,          \* the paths of the store, numbered in std::map order
  Cxx,              \* those whose language is C++
  Included,         \* Included[p]: the files that p includes, in the store or not
  Versions,         \* Versions[f]: the texts file f may have
  Cursors           \* Cursors[t]: the cursors of text t as visited:
                    \* [kind, name, register, auto_ptr, begin, end]

VARIABLES
  stored,           \* stored[p]: the text of source p in the store
  onDisk,           \* onDisk[f]: the text of file f on disk
  units,            \* the sources still to parse
  unit,             \* the cursors left of the unit that is being visited
  noted,            \* the facts, but opportunities: [kind, file, begin, end]
  sites,            \* the opportunities: [token, file, begin, end]
  reports,          \* the diagnostics: [severity, about, ranges]
  resaved           \* observer: the files saved since the store was loaded

results == <<noted, sites, reports>>
clangVars == <<stored, onDisk, units, unit, results, resaved>>

AllFiles == Sources \cup UNION {ToSet(Included[p]) : p \in Sources}

(* Sources are numbered from 1: a report that is about 0 is about the      *)
(* whole analysis.  A cursor called NULL begins at that word of its text.  *)
ASSUME ClangAssumption ==
  /\ Sources \subseteq Nat \ {0} /\ Cxx \subseteq Sources
  /\ \A p \in Sources : Included[p] \in Seq(AllFiles)
  /\ \A f \in AllFiles : \A t \in Versions[f] : t \in Seq(ToSet(t)) /\ t \in DOMAIN Cursors
  /\ \A t \in DOMAIN Cursors : Cursors[t] \in Seq(ToSet(Cursors[t]))
  /\ \A t \in DOMAIN Cursors : \A k \in DOMAIN Cursors[t] :
       LET c == Cursors[t][k]
       IN /\ c.begin \in Nat /\ c.end \in Nat
          /\ c.kind \in {"reference", "macro"} /\ c.name = "NULL" => t[c.begin + 1] = "NULL"

ClangInit ==
  /\ onDisk \in {d \in [AllFiles -> UNION Range(Versions)] : \A f \in AllFiles : d[f] \in Versions[f]}
  /\ stored = [p \in Sources |-> onDisk[p]]
  /\ units = Sources
  /\ unit = <<>>
  /\ noted = {} /\ sites = {} /\ reports = {}
  /\ resaved = {}

-----------------------------------------------------------------------------
(* Ranges *)

\* source_range_from_cx: for a file of the store, and within its stored text.
InStore(file, begin, end) == file \in Sources /\ begin <= end /\ end <= Len(stored[file])

\* The first place of a symbol in a range of a source, or none.
FirstOf(file, begin, end, token) ==
  {p \in begin..(end - 1) : stored[file][p + 1] = token /\ \A q \in begin..(p - 1) : stored[file][q + 1] # token}

Site(token, file, begin, end) == [token |-> token, file |-> file, begin |-> begin, end |-> end]

\* find_token_in_range.
Found(c, token) == {Site(token, c.file, p, p + 1) : p \in FirstOf(c.file, c.begin, c.end, token)}

FoundOrWhole(c, token) ==
  IF Found(c, token) = {} THEN {Site(token, c.file, c.begin, c.end)} ELSE Found(c, token)

\* Mutation: the blank that follows stays.
FoundAlone(c, token) == Found(c, token)

\* find_token_in_range with include_following_space.
FoundWithBlank(c, token) ==
  {Site(token, c.file, p, IF p + 1 < Len(stored[c.file]) /\ stored[c.file][p + 2] \in {"sp", "tab"} THEN p + 2 ELSE p + 1) :
     p \in FirstOf(c.file, c.begin, c.end, token)}

\* find_throw_specifier: before the body.
ThrowSpecifier(c) ==
  {s \in Found(c, "throw()") : \A b \in FirstOf(c.file, c.begin, c.end, "{") : s.begin < b}

-----------------------------------------------------------------------------
(* visit_cursor *)

\* The opportunities that a cursor gives rise to.
SitesOf(c) ==
  CASE c.kind = "function" -> ThrowSpecifier(c)
    [] c.kind = "typedef" -> FoundOrWhole(c, "typedef")
    [] c.kind = "declaration" ->
         (IF c.auto_ptr THEN FoundOrWhole(c, "std::auto_ptr") ELSE {})
           \cup (IF c.register THEN FoundWithBlank(c, "register") ELSE {})
    [] c.kind \in {"reference", "macro"} -> IF c.name = "NULL" THEN {Site("NULL", c.file, c.begin, c.end)} ELSE {}
    [] c.kind = "c cast" -> {Site("(", c.file, c.begin, c.end)}
    [] c.kind \in {"new", "delete"} -> Found(c, c.kind)
    [] OTHER -> {}

\* The fact about the cursor itself.
FactOf(c) ==
  IF c.kind \in {"reference", "other"} THEN {}
  ELSE {[kind |-> c.kind, file |-> c.file, begin |-> c.begin, end |-> c.end]}

\* Mutation: the stored text is not looked at.
VisitUnchecked ==
  /\ unit # <<>>
  /\ LET c == Head(unit)
     IN IF c.file \in Sources
          THEN noted' = noted \cup FactOf(c) /\ UNCHANGED sites
          ELSE UNCHANGED <<noted, sites>>
  /\ unit' = Tail(unit)
  /\ UNCHANGED <<stored, onDisk, units, reports, resaved>>

\* The next cursor; those below it are visited whatever becomes of it.
Visit ==
  /\ unit # <<>>
  /\ LET c == Head(unit)
     IN IF InStore(c.file, c.begin, c.end)
          THEN noted' = noted \cup FactOf(c) /\ sites' = sites \cup SitesOf(c)
          ELSE UNCHANGED <<noted, sites>>
  /\ unit' = Tail(unit)
  /\ UNCHANGED <<stored, onDisk, units, reports, resaved>>

-----------------------------------------------------------------------------
(* analyze *)

CurrentUnit(p) == unit = <<>> /\ p \in units /\ \A q \in units : p <= q

ReportOf(severity, about, ranges) == [severity |-> severity, about |-> about, ranges |-> ranges]

NoIndex ==
  /\ unit = <<>> /\ units = Sources
  /\ reports' = reports \cup {ReportOf("error", 0, {})}
  /\ units' = {}
  /\ UNCHANGED <<stored, onDisk, unit, noted, sites, resaved>>

OtherLanguage(p) ==
  /\ CurrentUnit(p) /\ p \notin Cxx
  /\ units' = units \ {p}
  /\ UNCHANGED <<stored, onDisk, unit, results, resaved>>

\* Mutation: the loop ends with the first source that cannot be parsed.
ParseStops(p) ==
  /\ CurrentUnit(p) /\ p \in Cxx
  /\ reports' = reports \cup {ReportOf("error", p, {Site("", p, 0, 0)})}
  /\ units' = {}
  /\ UNCHANGED <<stored, onDisk, unit, noted, sites, resaved>>

ParseFails(p) ==
  /\ CurrentUnit(p) /\ p \in Cxx
  /\ reports' = reports \cup {ReportOf("error", p, {Site("", p, 0, 0)})}
  /\ units' = units \ {p}
  /\ UNCHANGED <<stored, onDisk, unit, noted, sites, resaved>>

\* The unit of p as libclang reads it: its own text from the store, all others from disk.
Text(p, f) == IF f = p THEN stored[p] ELSE onDisk[f]

In(f, c) ==
  [kind |-> c.kind, name |-> c.name, register |-> c.register, auto_ptr |-> c.auto_ptr,
   begin |-> c.begin, end |-> c.end, file |-> f]

CursorsIn(p, f) == [k \in DOMAIN Cursors[Text(p, f)] |-> In(f, Cursors[Text(p, f)][k])]

\* Clang's severities: 2 is a warning, 3 an error and 4 a fatal one.
Severity(s) == IF s = 2 THEN "warning" ELSE IF s >= 3 THEN "error" ELSE "note"

\* report_diagnostics: a place is kept if the stored text has it.
Reported(p, s, f, offset) ==
  ReportOf(Severity(s), p,
           IF f \in Sources /\ offset <= Len(stored[f]) THEN {Site("", f, offset, offset)} ELSE {})

\* The unit is parsed.  A bound: one diagnostic in all, at the end of a file.
Parse(p) ==
  /\ CurrentUnit(p) /\ p \in Cxx
  /\ noted' = noted \cup {[kind |-> "unit", file |-> p, begin |-> 0, end |-> Len(stored[p])]}
  /\ \/ UNCHANGED reports
     \/ reports = {} /\ \E s \in 1..4, f \in {p} \cup ToSet(Included[p]) :
          reports' = reports \cup {Reported(p, s, f, Len(Text(p, f)))}
  /\ unit' = FlattenSeq([k \in DOMAIN Included[p] |-> CursorsIn(p, Included[p][k])]) \o CursorsIn(p, p)
  /\ units' = units \ {p}
  /\ UNCHANGED <<stored, onDisk, sites, resaved>>

\* A file that is included is saved while the analysis runs.  A bound: once.
FileSaved(f, t) ==
  /\ f \notin resaved /\ t # onDisk[f]
  /\ \E p \in Sources : f \in ToSet(Included[p])
  /\ onDisk' = [onDisk EXCEPT ![f] = t]
  /\ resaved' = resaved \cup {f}
  /\ UNCHANGED <<stored, units, unit, results>>

Analyze ==
  \/ NoIndex
  \/ \E p \in Sources : OtherLanguage(p) \/ ParseFails(p) \/ Parse(p)
  \/ Visit

-----------------------------------------------------------------------------
(* The loop goes on after a source that cannot be parsed: when the         *)
(* analysis is over, every C++ source has been taken for a translation     *)
(* unit, or an error tells that it, or everything, was left out.           *)
NoUnitUnsaid ==
  units = {} /\ unit = <<>> =>
    \A p \in Cxx :
      \/ \E n \in noted : n.kind = "unit" /\ n.file = p
      \/ \E r \in reports : r.severity = "error" /\ r.about \in {0, p}

(* Offsets come from the texts libclang has read, ranges are used on those *)
(* of the store: whatever was saved in between, a range lies within the    *)
(* stored text, and the specifiers that will be replaced are there in it.  *)
RangesHold ==
  /\ \A x \in noted \cup sites : x.file \in Sources /\ x.end <= Len(stored[x.file])
  /\ \A s \in sites :
       s.token \in {"register", "throw()"} \/ (s.token = "NULL" /\ s.file \notin resaved)
         => stored[s.file][s.begin + 1] = s.token
=============================================================================
