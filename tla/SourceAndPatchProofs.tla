------------------------ MODULE SourceAndPatchProofs ------------------------
(***************************************************************************)
(* What goes in and what comes out, proved for every store, every file     *)
(* system and every text.  The libclang adapter: a source that is not      *)
(* analysed is reported, and no range reaches beyond the text it is about, *)
(* whatever is saved while the analysis runs.  The textual adapter: it     *)
(* finds exactly the constructs that are in code.  A transpiler that       *)
(* rewrites a whole file: the edit made of it does what the rewrite does   *)
(* and is the smallest that does.  `moult diff`: the headers of the patch  *)
(* are true, the patch makes the new text of the old, it is as short as    *)
(* can be, its lines are those the report speaks of, and what a review     *)
(* shows of an edit is a part of it.                                       *)
(***************************************************************************)
EXTENDS Adapters, DiffPlan, SubstitutionProofs

-----------------------------------------------------------------------------
(* Ranges hold *)

\* The cursors that libclang may come by, in whatever file.
Readings == {In(f, c) : f \in AllFiles, c \in UNION {ToSet(Cursors[t]) : t \in DOMAIN Cursors}}

\* A cursor in a source that nobody has saved is one of its stored text.
Fresh(c) ==
  c.file \in Sources \ resaved =>
    \E k \in DOMAIN Cursors[stored[c.file]] : c = In(c.file, Cursors[stored[c.file]][k])

Ahead == {c \in Readings : Fresh(c)}

\* The disk agrees with the store wherever nobody has saved.
Loaded ==
  /\ DOMAIN stored = Sources /\ \A p \in Sources : stored[p] \in Versions[p]
  /\ DOMAIN onDisk = AllFiles /\ \A f \in AllFiles : onDisk[f] \in Versions[f]
  /\ \A p \in Sources \ resaved : onDisk[p] = stored[p]

RangesInv ==
  \/ adapter = "textual" /\ unit = <<>> /\ noted = {} /\ sites = {}
  \/ adapter = "clang" /\ Loaded /\ unit \in Seq(Ahead) /\ RangesHold

\* What RangesHold asks of one opportunity.
SiteHolds(s) ==
  /\ s.file \in Sources /\ s.end <= Len(stored[s.file])
  /\ s.token \in {"register", "throw()"} \/ (s.token = "NULL" /\ s.file \notin resaved)
       => stored[s.file][s.begin + 1] = s.token

\* The stored texts are sequences and their cursors places.
LEMMA StoredTexts ==
  ASSUME Loaded, NEW p \in Sources
  PROVE  Len(stored[p]) \in Nat /\ stored[p] \in DOMAIN Cursors
<1>1. p \in AllFiles /\ stored[p] \in Versions[p]
  BY DEF Loaded, AllFiles
<1>2. stored[p] \in Seq(ToSet(stored[p])) /\ stored[p] \in DOMAIN Cursors
  BY <1>1, ClangAssumption
<1> QED BY <1>2

\* The places of the cursors of a text are those of a list.
LEMMA CursorPlaces ==
  ASSUME NEW c \in Readings
  PROVE  c.begin \in Nat /\ c.end \in Nat /\ c.file \in AllFiles
<1>1. PICK f \in AllFiles, d \in UNION {ToSet(Cursors[t]) : t \in DOMAIN Cursors} : c = In(f, d)
  BY DEF Readings
<1>2. PICK t \in DOMAIN Cursors : d \in ToSet(Cursors[t])
  BY <1>1
<1>3. PICK k \in DOMAIN Cursors[t] : d = Cursors[t][k]
  BY <1>2 DEF ToSet
<1>4. d.begin \in Nat /\ d.end \in Nat
  BY <1>2, <1>3, ClangAssumption
<1> QED BY <1>1, <1>4 DEF In

\* What find_token_in_range returns is the token, within the cursor's range.
LEMMA FirstHolds ==
  ASSUME NEW c \in Readings, NEW token, NEW p \in FirstOf(c.file, c.begin, c.end, token)
  PROVE  p \in Nat /\ p + 1 <= c.end /\ stored[c.file][p + 1] = token
BY CursorPlaces DEF FirstOf

\* Every opportunity that a cursor within its stored text gives rise to holds.
LEMMA SitesHold ==
  ASSUME Loaded, NEW c \in Ahead, InStore(c.file, c.begin, c.end), NEW s \in SitesOf(c)
  PROVE  SiteHolds(s)
<1>1. c \in Readings /\ Fresh(c) /\ c.file \in Sources /\ c.end <= Len(stored[c.file])
      /\ c.begin \in Nat /\ c.end \in Nat /\ Len(stored[c.file]) \in Nat
  BY CursorPlaces, StoredTexts DEF Ahead, InStore
<1>2. ASSUME NEW token, s \in Found(c, token) PROVE SiteHolds(s)
  <2>1. PICK p \in FirstOf(c.file, c.begin, c.end, token) : s = Site(token, c.file, p, p + 1)
    BY <1>2 DEF Found
  <2>2. p \in Nat /\ p + 1 <= c.end /\ stored[c.file][p + 1] = token
    BY <1>1, FirstHolds
  <2>3. s.file = c.file /\ s.begin = p /\ s.end = p + 1 /\ s.token = token
    BY <2>1 DEF Site
  <2> QED BY <1>1, <2>2, <2>3 DEF SiteHolds
<1>3. ASSUME NEW token, token \notin {"register", "throw()", "NULL"}, s \in FoundOrWhole(c, token)
      PROVE  SiteHolds(s)
  <2>1. CASE s \in Found(c, token)
    BY <1>2, <2>1
  <2>2. CASE s = Site(token, c.file, c.begin, c.end)
    BY <1>1, <1>3, <2>2 DEF SiteHolds, Site
  <2> QED BY <1>3, <2>1, <2>2 DEF FoundOrWhole
<1>4. ASSUME s \in FoundWithBlank(c, "register") PROVE SiteHolds(s)
  <2>1. PICK p \in FirstOf(c.file, c.begin, c.end, "register") :
          s = Site("register", c.file, p,
                   IF p + 1 < Len(stored[c.file]) /\ stored[c.file][p + 2] \in {"sp", "tab"} THEN p + 2 ELSE p + 1)
    BY <1>4 DEF FoundWithBlank
  <2>2. p \in Nat /\ p + 1 <= c.end /\ stored[c.file][p + 1] = "register"
    BY <1>1, FirstHolds
  <2>3. s.file = c.file /\ s.begin = p /\ s.token = "register"
        /\ (s.end = p + 1 \/ (p + 1 < Len(stored[c.file]) /\ s.end = p + 2))
    BY <2>1 DEF Site
  <2> QED BY <1>1, <2>2, <2>3 DEF SiteHolds
<1>5. ASSUME c.kind \in {"reference", "macro"}, c.name = "NULL", s = Site("NULL", c.file, c.begin, c.end)
      PROVE  SiteHolds(s)
  <2>1. ASSUME c.file \notin resaved PROVE stored[c.file][c.begin + 1] = "NULL"
    <3>1. PICK k \in DOMAIN Cursors[stored[c.file]] : c = In(c.file, Cursors[stored[c.file]][k])
      BY <1>1, <2>1 DEF Fresh
    <3>2. stored[c.file] \in DOMAIN Cursors
      BY <1>1, StoredTexts
    <3>3. /\ Cursors[stored[c.file]][k].kind = c.kind /\ Cursors[stored[c.file]][k].name = c.name
          /\ Cursors[stored[c.file]][k].begin = c.begin
      BY <3>1 DEF In
    <3> QED BY <1>5, <3>2, <3>3, ClangAssumption
  <2> QED BY <1>1, <1>5, <2>1 DEF SiteHolds, Site
<1>6. CASE c.kind = "function"
  BY <1>2, <1>6 DEF SitesOf, ThrowSpecifier
<1>7. CASE c.kind = "typedef"
  BY <1>3, <1>7 DEF SitesOf
<1>8. CASE c.kind = "declaration"
  BY <1>3, <1>4, <1>8 DEF SitesOf
<1>9. CASE c.kind \in {"reference", "macro"}
  BY <1>5, <1>9 DEF SitesOf
<1>10. CASE c.kind = "c cast"
  <2>1. SitesOf(c) = {Site("(", c.file, c.begin, c.end)}
    BY <1>10 DEF SitesOf
  <2>2. s.file = c.file /\ s.end = c.end /\ s.token = "("
    BY <2>1 DEF Site
  <2> QED BY <1>1, <2>2 DEF SiteHolds
<1>11. CASE c.kind \in {"new", "delete"}
  BY <1>2, <1>11 DEF SitesOf
<1> QED BY <1>6, <1>7, <1>8, <1>9, <1>10, <1>11 DEF SitesOf

\* The rest of the unit is no further from the store than the unit was.
LEMMA UnitRuns ==
  ASSUME unit \in Seq(Ahead), unit # <<>>
  PROVE  Head(unit) \in Ahead /\ Tail(unit) \in Seq(Ahead)
BY HeadTailProperties

\* What a unit is made of: its own text is the stored one, the others are on disk.
LEMMA UnitParsed ==
  ASSUME Loaded, NEW p \in Sources
  PROVE  FlattenSeq([k \in DOMAIN Included[p] |-> CursorsIn(p, Included[p][k])]) \o CursorsIn(p, p) \in Seq(Ahead)
<1>1. ASSUME NEW f \in AllFiles PROVE CursorsIn(p, f) \in Seq(Ahead)
  <2>1. Text(p, f) \in DOMAIN Cursors /\ (f \in Sources \ resaved => Text(p, f) = stored[f])
    BY <1>1, StoredTexts, ClangAssumption DEF Text, Loaded
  <2>2. Cursors[Text(p, f)] \in Seq(ToSet(Cursors[Text(p, f)]))
    BY <2>1, ClangAssumption
  <2>3. ASSUME NEW k \in DOMAIN Cursors[Text(p, f)] PROVE In(f, Cursors[Text(p, f)][k]) \in Ahead
    <3>1. Cursors[Text(p, f)][k] \in UNION {ToSet(Cursors[t]) : t \in DOMAIN Cursors}
      BY <2>1 DEF ToSet
    <3>2. In(f, Cursors[Text(p, f)][k]) \in Readings
      BY <3>1 DEF Readings
    <3>3. In(f, Cursors[Text(p, f)][k]).file = f
      BY DEF In
    <3>4. Fresh(In(f, Cursors[Text(p, f)][k]))
      BY <2>1, <3>3 DEF Fresh
    <3> QED BY <3>2, <3>4 DEF Ahead
  <2>4. DOMAIN Cursors[Text(p, f)] = 1..Len(Cursors[Text(p, f)]) /\ Len(Cursors[Text(p, f)]) \in Nat
    BY <2>2, LenProperties
  <2>5. CursorsIn(p, f) \in [1..Len(Cursors[Text(p, f)]) -> Ahead]
    BY <2>3, <2>4 DEF CursorsIn
  <2> QED BY <2>4, <2>5
<1>2. p \in AllFiles /\ Included[p] \in Seq(AllFiles)
  BY ClangAssumption DEF AllFiles
<1> DEFINE s == [k \in DOMAIN Included[p] |-> CursorsIn(p, Included[p][k])]
<1>3. s \in Seq(Seq(Ahead))
  <2>1. DOMAIN Included[p] = 1..Len(Included[p]) /\ Len(Included[p]) \in Nat
        /\ \A k \in DOMAIN Included[p] : Included[p][k] \in AllFiles
    BY <1>2, LenProperties
  <2>2. s \in [1..Len(Included[p]) -> Seq(Ahead)]
    BY <1>1, <2>1
  <2> QED BY <2>1, <2>2
<1>4. FlattenSeq(s) \in Seq(Ahead)
  BY <1>3, FlattenTyped
<1> HIDE DEF s
<1>5. FlattenSeq(s) \o CursorsIn(p, p) \in Seq(Ahead)
  BY <1>1, <1>2, <1>4, ConcatProperties
<1> QED BY <1>5 DEF s

\* A save leaves fewer sources to be held against their stored text.
LEMMA SaveHarmless ==
  ASSUME Loaded, unit \in Seq(Ahead), RangesHold, NEW f \in AllFiles, NEW t \in Versions[f], FileSaved(f, t)
  PROVE  Loaded' /\ (unit \in Seq(Ahead))' /\ RangesHold'
<1>1. /\ onDisk' = [onDisk EXCEPT ![f] = t] /\ resaved' = resaved \cup {f}
      /\ UNCHANGED <<stored, unit, noted, sites>>
  BY DEF FileSaved, results
<1>2. Loaded'
  <2>1. Sources \ resaved' \subseteq Sources \ resaved /\ f \notin Sources \ resaved'
    BY <1>1
  <2> QED BY <1>1, <2>1 DEF Loaded
<1>3. Ahead \subseteq Ahead'
  <2>1. ASSUME NEW c \in Readings, Fresh(c) PROVE Fresh(c)'
    BY <1>1, <2>1 DEF Fresh
  <2> QED BY <2>1 DEF Ahead
<1>4. (unit \in Seq(Ahead))'
  <2>1. Seq(Ahead) \subseteq Seq(Ahead')
    <3> DEFINE A == Ahead
               B == Ahead'
    <3>1. A \subseteq B
      BY <1>3
    <3> HIDE DEF A, B
    <3>2. Seq(A) \subseteq Seq(B)
      BY <3>1
    <3> QED BY <3>2 DEF A, B
  <2> QED BY <1>1, <2>1
<1>5. RangesHold'
  BY <1>1 DEF RangesHold
<1> QED BY <1>2, <1>4, <1>5

\* One more fact, and the opportunities of one cursor.
LEMMA VisitHolds ==
  ASSUME Loaded, unit \in Seq(Ahead), RangesHold, Visit
  PROVE  RangesHold'
<1> DEFINE c == Head(unit)
<1>1. c \in Ahead /\ UNCHANGED <<stored, resaved>>
  BY UnitRuns DEF Visit
<1>2. CASE ~InStore(c.file, c.begin, c.end)
  <2>1. UNCHANGED <<noted, sites>>
    BY <1>2 DEF Visit
  <2> QED BY <1>1, <2>1 DEF RangesHold
<1>3. CASE InStore(c.file, c.begin, c.end)
  <2>1. noted' = noted \cup FactOf(c) /\ sites' = sites \cup SitesOf(c)
    BY <1>3 DEF Visit
  <2>2. \A x \in FactOf(c) : x.file \in Sources /\ x.end <= Len(stored[x.file])
    BY <1>3 DEF FactOf, InStore
  <2>3. \A s \in SitesOf(c) : SiteHolds(s)
    BY <1>1, <1>3, SitesHold
  <2> HIDE DEF c
  <2>4. \A x \in noted' \cup sites' : x.file \in Sources /\ x.end <= Len(stored[x.file])
    BY <2>1, <2>2, <2>3 DEF RangesHold, SiteHolds
  <2>5. \A s \in sites' : SiteHolds(s)
    BY <2>1, <2>3 DEF RangesHold, SiteHolds
  <2> QED BY <1>1, <2>4, <2>5 DEF RangesHold, SiteHolds
<1> QED BY <1>2, <1>3

\* A unit is a fact about the whole of its source.
LEMMA ParseHolds ==
  ASSUME Loaded, RangesHold, NEW p \in Sources, Parse(p)
  PROVE  RangesHold'
<1> DEFINE n == [kind |-> "unit", file |-> p, begin |-> 0, end |-> Len(stored[p])]
<1>1. noted' = noted \cup {n} /\ UNCHANGED <<stored, sites, resaved>>
  BY DEF Parse
<1>2. n.file = p /\ n.end = Len(stored[p]) /\ Len(stored[p]) \in Nat
  BY StoredTexts
<1> QED BY <1>1, <1>2 DEF RangesHold

\* Every step of either adapter, and every save, keeps the ranges in the store.
LEMMA RangesStep == RangesInv /\ [AdapterNext]_bothVars => RangesInv'
<1> SUFFICES ASSUME RangesInv, [AdapterNext]_bothVars PROVE RangesInv'
  OBVIOUS
<1>1. CASE UNCHANGED <<clangVars, adapter>>
  <2>1. UNCHANGED <<stored, onDisk, unit, noted, sites, resaved, adapter>>
    BY <1>1 DEF clangVars, results
  <2>2. Ahead' = Ahead
    BY <2>1 DEF Ahead, Fresh
  <2> QED BY <2>1, <2>2 DEF RangesInv, Loaded, RangesHold
<1>2. CASE Clang \/ Saved
  <2>1. adapter = "clang" /\ adapter' = "clang" /\ Loaded /\ unit \in Seq(Ahead) /\ RangesHold
    BY <1>2 DEF Clang, Saved, RangesInv
  <2> SUFFICES Loaded' /\ (unit \in Seq(Ahead))' /\ RangesHold'
    BY <2>1 DEF RangesInv
  <2>2. ASSUME NEW f \in AllFiles, NEW t \in Versions[f], FileSaved(f, t)
        PROVE  Loaded' /\ (unit \in Seq(Ahead))' /\ RangesHold'
    BY <2>1, <2>2, SaveHarmless
  <2>3. ASSUME UNCHANGED <<stored, onDisk, resaved>> PROVE Loaded' /\ Ahead' = Ahead
    BY <2>1, <2>3 DEF Loaded, Ahead, Fresh
  <2>4. ASSUME UNCHANGED <<stored, onDisk, unit, noted, sites, resaved>>
        PROVE  Loaded' /\ (unit \in Seq(Ahead))' /\ RangesHold'
    BY <2>1, <2>3, <2>4 DEF RangesHold
  <2>5. CASE NoIndex
    BY <2>4, <2>5 DEF NoIndex
  <2>6. ASSUME NEW p \in Sources, OtherLanguage(p) \/ ParseFails(p)
        PROVE  Loaded' /\ (unit \in Seq(Ahead))' /\ RangesHold'
    BY <2>4, <2>6 DEF OtherLanguage, ParseFails, results
  <2>7. ASSUME NEW p \in Sources, Parse(p)
        PROVE  Loaded' /\ (unit \in Seq(Ahead))' /\ RangesHold'
    <3>1. Loaded' /\ Ahead' = Ahead
      BY <2>3, <2>7 DEF Parse
    <3>2. unit' \in Seq(Ahead)
      BY <2>1, <2>7, UnitParsed DEF Parse
    <3>3. RangesHold'
      BY <2>1, <2>7, ParseHolds
    <3> QED BY <3>1, <3>2, <3>3
  <2>8. CASE Visit
    <3>1. Loaded' /\ Ahead' = Ahead
      BY <2>3, <2>8 DEF Visit
    <3>2. unit' \in Seq(Ahead)
      BY <2>1, <2>8, UnitRuns DEF Visit
    <3>3. RangesHold'
      BY <2>1, <2>8, VisitHolds
    <3> QED BY <3>1, <3>2, <3>3
  <2> QED BY <1>2, <2>2, <2>5, <2>6, <2>7, <2>8 DEF Clang, Saved, Analyze
<1> QED BY <1>1, <1>2 DEF AdapterNext, Textual, bothVars

(* Whatever is saved while the analysis runs, no range reaches beyond the  *)
(* stored text it will be used on, and the specifiers that are replaced    *)
(* are there in it; so is NULL where nothing was saved.                    *)
THEOREM RangesAreOfTheStore == AdapterSpec => []RangesHold
<1>1. AdapterInit => RangesInv
  <2> SUFFICES ASSUME AdapterInit PROVE RangesInv
    OBVIOUS
  <2>1. CASE adapter = "textual"
    BY <2>1 DEF AdapterInit, RangesInv
  <2>2. CASE adapter # "textual"
    <3>1. adapter = "clang" /\ ClangInit
      BY <2>2 DEF AdapterInit
    <3>2. Loaded
      <4>1. Sources \subseteq AllFiles
        BY DEF AllFiles
      <4> QED BY <3>1, <4>1 DEF ClangInit, Loaded
    <3>3. unit \in Seq(Ahead)
      BY <3>1 DEF ClangInit
    <3>4. RangesHold
      BY <3>1 DEF ClangInit, RangesHold
    <3> QED BY <3>1, <3>2, <3>3, <3>4 DEF RangesInv
  <2> QED BY <2>1, <2>2
<1>2. RangesInv => RangesHold
  BY DEF RangesInv, RangesHold
<1> QED BY <1>1, <1>2, RangesStep, PTL DEF AdapterSpec

-----------------------------------------------------------------------------
(* No unit unsaid *)

\* The source was parsed, or a report of an error is about it or about everything.
Said(p) ==
  \/ \E n \in noted : n.kind = "unit" /\ n.file = p
  \/ \E r \in reports : r.severity = "error" /\ r.about \in {0, p}

\* A C++ source that is not still to be parsed has been answered for.
SaidInv == \A p \in Cxx : p \in units \/ Said(p)

\* Facts and reports are never taken back, and no source leaves the loop unsaid.
LEMMA SaidStep == SaidInv /\ [AdapterNext]_bothVars => SaidInv'
<1> SUFFICES ASSUME SaidInv, [AdapterNext]_bothVars, NEW p \in Cxx
             PROVE  (p \in units \/ Said(p))'
  BY DEF SaidInv
<1>1. p \in units \/ Said(p)
  BY DEF SaidInv
<1>2. noted \subseteq noted' /\ reports \subseteq reports' => (Said(p) => Said(p)')
  BY DEF Said
<1>3. CASE UNCHANGED <<units, noted, reports>>
  BY <1>1, <1>3 DEF Said
<1>4. CASE NoIndex
  <2>1. ReportOf("error", 0, {}) \in reports'
    BY <1>4 DEF NoIndex
  <2> QED BY <2>1 DEF Said, ReportOf
<1>5. ASSUME NEW q \in Sources, OtherLanguage(q) PROVE (p \in units \/ Said(p))'
  BY <1>1, <1>5 DEF OtherLanguage, results, Said
<1>6. ASSUME NEW q \in Sources, ParseFails(q) PROVE (p \in units \/ Said(p))'
  <2>1. ReportOf("error", q, {Site("", q, 0, 0)}) \in reports' /\ units' = units \ {q}
        /\ noted \subseteq noted' /\ reports \subseteq reports'
    BY <1>6 DEF ParseFails
  <2>2. CASE p = q
    BY <2>1, <2>2 DEF Said, ReportOf
  <2>3. CASE p # q
    BY <1>1, <1>2, <2>1, <2>3
  <2> QED BY <2>2, <2>3
<1>7. ASSUME NEW q \in Sources, Parse(q) PROVE (p \in units \/ Said(p))'
  <2>1. [kind |-> "unit", file |-> q, begin |-> 0, end |-> Len(stored[q])] \in noted'
        /\ units' = units \ {q} /\ noted \subseteq noted' /\ reports \subseteq reports'
    BY <1>7 DEF Parse
  <2>2. CASE p = q
    BY <2>1, <2>2 DEF Said
  <2>3. CASE p # q
    BY <1>1, <1>2, <2>1, <2>3
  <2> QED BY <2>2, <2>3
<1>8. CASE Visit
  <2>1. units' = units /\ noted \subseteq noted' /\ reports \subseteq reports'
    BY <1>8 DEF Visit
  <2> QED BY <1>1, <1>2, <2>1
<1>9. CASE Textual \/ Saved \/ UNCHANGED bothVars
  <2>1. UNCHANGED <<units, noted, reports>>
    BY <1>9 DEF Textual, Saved, FileSaved, bothVars, clangVars, results
  <2> QED BY <1>3, <2>1
<1> QED BY <1>4, <1>5, <1>6, <1>7, <1>8, <1>9 DEF AdapterNext, Clang, Analyze

(* When the analysis is over, every C++ source has been taken for a        *)
(* translation unit, or an error tells that it was left out.               *)
THEOREM NobodyIsForgotten == AdapterSpec => []NoUnitUnsaid
<1>1. AdapterInit => SaidInv
  BY ClangAssumption DEF AdapterInit, ClangInit, SaidInv
<1>2. SaidInv => NoUnitUnsaid
  BY DEF SaidInv, NoUnitUnsaid, Said
<1> QED BY <1>1, <1>2, SaidStep, PTL DEF AdapterSpec

-----------------------------------------------------------------------------
(* The lexer *)

\* Where it can be.
Wheres ==
  {"beyond", "start", "code", "slash", "prefix", "line", "directive", "block", "star", "string", "char",
   "string_escape", "char_escape", "raw_open", "raw", "raw_close"}

\* The states over a set of symbols.
LexState(A) == [in : Wheres, delim : Seq(A), since : Seq(A)]

\* What it makes of a symbol, state by state.
LEMMA Reacts ==
  ASSUME NEW s, NEW c, NEW before
  PROVE  /\ s.in = "beyond" => React(s, c, before) = s
         /\ s.in = "start" => React(s, c, before) =
              IF c = "#" THEN At("directive") ELSE IF c \in Blanks THEN s ELSE Code(c, before)
         /\ s.in = "code" => React(s, c, before) = Code(c, before)
         /\ s.in = "slash" => React(s, c, before) =
              IF c = "/" THEN At("line") ELSE IF c = "*" THEN At("block") ELSE Code(c, before)
         /\ s.in = "prefix" => React(s, c, before) = IF c = "dq" THEN At("raw_open") ELSE Code(c, before)
<1>1. s.in = "beyond" => React(s, c, before) = s
  BY DEF React
<1>2. s.in = "start" => React(s, c, before) =
              IF c = "#" THEN At("directive") ELSE IF c \in Blanks THEN s ELSE Code(c, before)
  BY DEF React, Blanks
<1>3. s.in = "code" => React(s, c, before) = Code(c, before)
  BY DEF React
<1>4. s.in = "slash" => React(s, c, before) =
              IF c = "/" THEN At("line") ELSE IF c = "*" THEN At("block") ELSE Code(c, before)
  BY DEF React
<1>5. s.in = "prefix" => React(s, c, before) = IF c = "dq" THEN At("raw_open") ELSE Code(c, before)
  BY DEF React
<1> QED BY <1>1, <1>2, <1>3, <1>4, <1>5

\* In a comment or a directive.
LEMMA ReactsInComment ==
  ASSUME NEW s, NEW c, NEW before
  PROVE  /\ s.in = "line" => React(s, c, before) =
              IF c = "nl" THEN At(IF before = "bs" THEN "beyond" ELSE "start") ELSE s
         /\ s.in = "directive" => React(s, c, before) =
              IF c = "nl" THEN At(IF before = "bs" THEN "beyond" ELSE "start")
              ELSE At(IF c = "*" /\ before = "/" THEN "beyond" ELSE "directive")
         /\ s.in = "block" => React(s, c, before) = IF c = "*" THEN At("star") ELSE s
         /\ s.in = "star" => React(s, c, before) =
              IF c = "/" THEN At("code") ELSE IF c = "*" THEN s ELSE At("block")
<1>1. s.in = "line" => React(s, c, before) =
              IF c = "nl" THEN At(IF before = "bs" THEN "beyond" ELSE "start") ELSE s
  BY DEF React
<1>2. s.in = "directive" => React(s, c, before) =
              IF c = "nl" THEN At(IF before = "bs" THEN "beyond" ELSE "start")
              ELSE At(IF c = "*" /\ before = "/" THEN "beyond" ELSE "directive")
  BY DEF React
<1>3. s.in = "block" => React(s, c, before) = IF c = "*" THEN At("star") ELSE s
  BY DEF React
<1>4. s.in = "star" => React(s, c, before) =
              IF c = "/" THEN At("code") ELSE IF c = "*" THEN s ELSE At("block")
  BY DEF React
<1> QED BY <1>1, <1>2, <1>3, <1>4

\* In a literal.
LEMMA ReactsInLiteral ==
  ASSUME NEW s, NEW c, NEW before
  PROVE  /\ s.in = "string" => React(s, c, before) = Literal(c, "dq", "string", "string_escape")
         /\ s.in = "char" => React(s, c, before) = Literal(c, "sq", "char", "char_escape")
         /\ s.in = "string_escape" => React(s, c, before) = At(IF c = "nl" THEN "beyond" ELSE "string")
         /\ s.in = "char_escape" => React(s, c, before) = At(IF c = "nl" THEN "beyond" ELSE "char")
<1>1. s.in = "string" => React(s, c, before) = Literal(c, "dq", "string", "string_escape")
  BY DEF React
<1>2. s.in = "char" => React(s, c, before) = Literal(c, "sq", "char", "char_escape")
  BY DEF React
<1>3. s.in = "string_escape" => React(s, c, before) = At(IF c = "nl" THEN "beyond" ELSE "string")
  BY DEF React
<1>4. s.in = "char_escape" => React(s, c, before) = At(IF c = "nl" THEN "beyond" ELSE "char")
  BY DEF React
<1> QED BY <1>1, <1>2, <1>3, <1>4

\* The states a raw literal goes through: opened, its delimiter read on, a parenthesis closed,
\* another one closed, a symbol read behind it.
Opened(s) == [s EXCEPT !.in = "raw"]
Named(s, c) == [s EXCEPT !.delim = Append(@, c)]
Closing(s) == [s EXCEPT !.in = "raw_close", !.since = <<>>]
Again(s) == [s EXCEPT !.since = <<>>]
Since(s, c) == [s EXCEPT !.since = Append(@, c)]

\* What it makes of a symbol in a raw literal.
LEMMA ReactsInRaw ==
  ASSUME NEW s, NEW c, NEW before
  PROVE  /\ s.in = "raw_open" => React(s, c, before) =
              IF c = "(" THEN Opened(s)
              ELSE IF c \in {")", "bs", "nl", "sp", "tab", "dq"} \/ Len(s.delim) = MaxDelimiter
                THEN At("beyond")
              ELSE Named(s, c)
         /\ s.in = "raw" => React(s, c, before) = IF c = ")" THEN Closing(s) ELSE s
         /\ s.in = "raw_close" => React(s, c, before) =
              IF c = "dq" /\ s.since = s.delim THEN At("code")
              ELSE IF c = ")" THEN Again(s) ELSE Since(s, c)
<1>1. s.in = "raw_open" => React(s, c, before) =
              IF c = "(" THEN Opened(s)
              ELSE IF c \in {")", "bs", "nl", "sp", "tab", "dq"} \/ Len(s.delim) = MaxDelimiter
                THEN At("beyond")
              ELSE Named(s, c)
  BY DEF React, Opened, Named
<1>2. s.in = "raw" => React(s, c, before) = IF c = ")" THEN Closing(s) ELSE s
  BY DEF React, Closing
<1>3. s.in = "raw_close" => React(s, c, before) =
              IF c = "dq" /\ s.since = s.delim THEN At("code")
              ELSE IF c = ")" THEN Again(s) ELSE Since(s, c)
  BY DEF React, Again, Since
<1> QED BY <1>1, <1>2, <1>3

\* What it makes of code is one of these.
LEMMA CodeIs ==
  ASSUME NEW c, NEW before
  PROVE  /\ Code(c, before) \in {At(w) : w \in {"start", "slash", "beyond", "string", "char", "prefix", "code"}}
         /\ Code(c, before).in \in {"start", "slash", "beyond", "string", "char", "prefix", "code"}
BY DEF Code, At

\* Whatever it reads it is in one of its states.
LEMMA ReactTyped ==
  ASSUME NEW A, NEW s \in LexState(A), NEW c \in A, NEW before
  PROVE  React(s, c, before) \in LexState(A)
<1> DEFINE X == LexState(A)
<1> SUFFICES React(s, c, before) \in X
  OBVIOUS
<1>1. \A w \in Wheres : At(w) \in X
  BY EmptySeq DEF At, LexState
<1>2. /\ At("directive") \in X /\ At("line") \in X /\ At("block") \in X /\ At("start") \in X /\ At("beyond") \in X
      /\ At("star") \in X /\ At("code") \in X /\ At("raw_open") \in X
      /\ At("string") \in X /\ At("char") \in X /\ At("string_escape") \in X /\ At("char_escape") \in X
  <2> HIDE DEF X
  <2> QED BY <1>1 DEF Wheres
<1>3. Code(c, before) \in X
  <2> HIDE DEF X
  <2> QED BY <1>1, CodeIs DEF Wheres
<1>4. /\ Literal(c, "dq", "string", "string_escape") \in X
      /\ Literal(c, "sq", "char", "char_escape") \in X
  <2> HIDE DEF X
  <2> QED BY <1>2 DEF Literal
<1>5. /\ Opened(s) \in X /\ Closing(s) \in X /\ Again(s) \in X
      /\ Named(s, c) \in X /\ Since(s, c) \in X
  <2>1. /\ Append(s.delim, c) \in Seq(A) /\ Append(s.since, c) \in Seq(A) /\ <<>> \in Seq(A)
    BY AppendProperties, EmptySeq DEF LexState
  <2> QED BY <2>1 DEF LexState, Wheres, Opened, Closing, Again, Named, Since
<1>6. s \in X
  OBVIOUS
<1> HIDE DEF X
<1>7. CASE s.in = "beyond" \/ s.in = "start" \/ s.in = "code" \/ s.in = "slash" \/ s.in = "prefix"
  <2>1. CASE s.in = "beyond"
    BY <1>6, <2>1, Reacts
  <2>2. CASE s.in = "start"
    BY <1>2, <1>3, <1>6, <2>2, Reacts
  <2>3. CASE s.in = "code"
    BY <1>3, <2>3, Reacts
  <2>4. CASE s.in = "slash"
    BY <1>2, <1>3, <2>4, Reacts
  <2>5. CASE s.in = "prefix"
    BY <1>2, <1>3, <2>5, Reacts
  <2> QED BY <1>7, <2>1, <2>2, <2>3, <2>4, <2>5
<1>8. CASE s.in = "line" \/ s.in = "directive" \/ s.in = "block" \/ s.in = "star"
  <2>1. CASE s.in = "line"
    BY <1>2, <1>6, <2>1, ReactsInComment
  <2>2. CASE s.in = "directive"
    BY <1>2, <2>2, ReactsInComment
  <2>3. CASE s.in = "block"
    BY <1>2, <1>6, <2>3, ReactsInComment
  <2>4. CASE s.in = "star"
    BY <1>2, <1>6, <2>4, ReactsInComment
  <2> QED BY <1>8, <2>1, <2>2, <2>3, <2>4
<1>9. CASE s.in = "string" \/ s.in = "char" \/ s.in = "string_escape" \/ s.in = "char_escape"
  <2>1. CASE s.in = "string"
    BY <1>4, <2>1, ReactsInLiteral
  <2>2. CASE s.in = "char"
    BY <1>4, <2>2, ReactsInLiteral
  <2>3. CASE s.in = "string_escape"
    BY <1>2, <2>3, ReactsInLiteral
  <2>4. CASE s.in = "char_escape"
    BY <1>2, <2>4, ReactsInLiteral
  <2> QED BY <1>9, <2>1, <2>2, <2>3, <2>4
<1>10. CASE s.in = "raw_open" \/ s.in = "raw" \/ s.in = "raw_close"
  <2>1. CASE s.in = "raw_open"
    BY <1>2, <1>5, <2>1, ReactsInRaw
  <2>2. CASE s.in = "raw"
    BY <1>5, <1>6, <2>2, ReactsInRaw
  <2>3. CASE s.in = "raw_close"
    BY <1>2, <1>5, <2>3, ReactsInRaw
  <2> QED BY <1>10, <2>1, <2>2, <2>3
<1>11. s.in \in Wheres
  BY DEF LexState
<1> QED BY <1>7, <1>8, <1>9, <1>10, <1>11 DEF Wheres

\* What was read before place p: at first, as if a line had ended.
Preceding(p) == IF p = 0 THEN "nl" ELSE text[p]

\* L is a run of the lexer over the first top symbols.
LexRun(L, top) ==
  L = [k \in 0..top |->
         IF k = 0 THEN At("start")
         ELSE React(L[k - 1], text[k], IF k = 1 THEN "nl" ELSE text[k - 1])]

\* Each state follows from the one before, so there is a run.
LEMMA LexerRuns ==
  ASSUME NEW A, NEW top \in Nat, \A k \in 1..top : text[k] \in A
  PROVE  \E L \in [0..top -> LexState(A)] : LexRun(L, top)
<1> DEFINE S == 0..top
           V == LexState(A)
           rank == [k \in S |-> k]
           next(f) == [k \in S |->
                         IF k = 0 THEN At("start")
                         ELSE React(f[k - 1], text[k], IF k = 1 THEN "nl" ELSE text[k - 1])]
           G == [f \in [S -> V] |-> next(f)]
<1>1. rank \in [S -> 0..top] /\ \A k \in S : rank[k] = k
  OBVIOUS
<1>2. At("start") \in V
  BY EmptySeq DEF At, LexState, Wheres
<1>3. ASSUME NEW f \in [S -> V] PROVE next(f) \in [S -> V]
  <2> SUFFICES ASSUME NEW k \in S PROVE next(f)[k] \in V
    OBVIOUS
  <2>1. CASE k # 0
    <3>1. k - 1 \in S /\ text[k] \in A
      BY <2>1
    <3>2. f[k - 1] \in V
      BY <3>1
    <3>3. React(f[k - 1], text[k], IF k = 1 THEN "nl" ELSE text[k - 1]) \in V
      BY <3>1, <3>2, ReactTyped
    <3> HIDE DEF V
    <3> QED BY <2>1, <3>3
  <2> HIDE DEF V
  <2> QED BY <1>2, <2>1
<1>4. ASSUME NEW f \in [S -> V], NEW g \in [S -> V], NEW k \in S,
             \A d \in S : rank[d] < rank[k] => f[d] = g[d]
      PROVE  next(f)[k] = next(g)[k]
  <2> HIDE DEF V
  <2>1. CASE k # 0
    <3>1. k - 1 \in S /\ rank[k - 1] < rank[k]
      BY <1>1, <2>1
    <3>2. f[k - 1] = g[k - 1]
      BY <1>4, <3>1
    <3> QED BY <3>2
  <2> QED BY <2>1
<1>5. G \in [[S -> V] -> [S -> V]] /\ \A f \in [S -> V] : G[f] = next(f)
  <2> HIDE DEF S, V, next
  <2> QED BY <1>3
<1>6. Grounded(G, S, V, rank)
  <2> HIDE DEF S, V, next, G, rank
  <2> SUFFICES ASSUME NEW f \in [S -> V], NEW g \in [S -> V], NEW k \in S,
                      \A d \in S : rank[d] < rank[k] => f[d] = g[d]
               PROVE  G[f][k] = G[g][k]
    BY DEF Grounded
  <2> QED BY <1>4, <1>5
<1>7. \E f \in [S -> V] : f = G[f]
  <2> HIDE DEF S, V, next, G, rank
  <2>1. Recursion(G, S, V, rank, top)
    BY <1>1, <1>2, <1>5, <1>6 DEF Recursion
  <2> QED BY <2>1, RecursionExists
<1>8. PICK f \in [S -> V] : f = G[f]
  BY <1>7
<1>9. f = next(f)
  <2> HIDE DEF next, G, V
  <2> QED BY <1>5, <1>8
<1> QED BY <1>9 DEF LexRun

\* A text is one of its symbols.
TextIs(A, top) == text \in Seq(A) /\ top = Len(text)

\* What Lexed is.
LEMMA LexedIs ==
  ASSUME NEW A, NEW top, TextIs(A, top)
  PROVE  /\ top \in Nat /\ Lexed[0] = At("start")
         /\ \A p \in 0..(top - 1) : text[p + 1] \in A /\ Lexed[p + 1] = React(Lexed[p], text[p + 1], Preceding(p))
         /\ \A p \in 0..top : Lexed[p] \in LexState(A)
<1>1. top \in Nat /\ \A k \in 1..top : text[k] \in A
  BY DEF TextIs
<1>2. Lexed = CHOOSE L : LexRun(L, Len(text))
  BY DEF Lexed, LexRun
<1>3. Lexed = CHOOSE L : LexRun(L, top)
  BY <1>2 DEF TextIs
<1>4. \E L : LexRun(L, top)
  BY <1>1, LexerRuns
<1>5. LexRun(Lexed, top)
  BY <1>3, <1>4
<1>6. Lexed[0] = At("start")
  BY <1>1, <1>5 DEF LexRun
<1>7. \A p \in 0..(top - 1) : Lexed[p + 1] = React(Lexed[p], text[p + 1], Preceding(p))
  <2> SUFFICES ASSUME NEW p \in 0..(top - 1) PROVE Lexed[p + 1] = React(Lexed[p], text[p + 1], Preceding(p))
    OBVIOUS
  <2>1. p + 1 \in 0..top /\ p + 1 # 0 /\ (p + 1) - 1 = p /\ (p + 1 = 1 <=> p = 0)
    BY <1>1
  <2>2. Lexed[p + 1] = React(Lexed[(p + 1) - 1], text[p + 1], IF p + 1 = 1 THEN "nl" ELSE text[(p + 1) - 1])
    BY <1>5, <2>1 DEF LexRun
  <2> QED BY <2>1, <2>2 DEF Preceding
<1>8. \A p \in 0..(top - 1) : text[p + 1] \in A
  BY <1>1
<1> DEFINE T == {p \in 0..top : Lexed[p] \in LexState(A)}
<1>9. ASSUME NEW p \in 0..top, p = 0 \/ p - 1 \in T PROVE p \in T
  <2>1. At("start") \in LexState(A)
    BY EmptySeq DEF At, LexState, Wheres
  <2>2. CASE p # 0
    <3>1. p - 1 \in 0..(top - 1) /\ (p - 1) + 1 = p /\ Lexed[p - 1] \in LexState(A)
      BY <1>1, <1>9, <2>2
    <3>2. Lexed[p] = React(Lexed[p - 1], text[p], Preceding(p - 1)) /\ text[p] \in A
      BY <1>7, <1>8, <3>1
    <3> QED BY <3>1, <3>2, ReactTyped
  <2> QED BY <1>6, <2>1, <2>2
<1>10. \A p \in 0..top : p \in T
  <2> HIDE DEF T
  <2> QED BY <1>1, <1>9, CountUp
<1> QED BY <1>1, <1>6, <1>7, <1>8, <1>10

\* A set of numbers that is not empty has a least member.
LEMMA LeastOf ==
  ASSUME NEW S \in SUBSET Nat, S # {}
  PROVE  Min(S) \in S /\ \A k \in S : Min(S) <= k
<1>1. \E x \in S : \A y \in S : x =< y
  BY Least
<1>2. Min(S) = CHOOSE x \in S : \A y \in S : x =< y
  BY DEF Min
<1> QED BY <1>1, <1>2

\* The lexer comes to an end that FindsExactly is about.
Complete == InCode(Lexed[Len(text)]) \/ Lexed[Len(text)].in \in {"line", "directive"}

\* A text of top symbols that the lexer gets through.
Whole(A, top) == TextIs(A, top) /\ Complete

\* From beyond there is no way back, so the lexer is never there.
LEMMA NeverBeyond ==
  ASSUME NEW A, NEW top, Whole(A, top), NEW p \in 0..top
  PROVE  Lexed[p].in # "beyond"
<1> SUFFICES ASSUME Lexed[p].in = "beyond" PROVE FALSE
  OBVIOUS
<1> DEFINE T == {u \in p..top : Lexed[u].in = "beyond"}
<1>1. /\ top \in Nat
      /\ \A u \in 0..(top - 1) : Lexed[u + 1] = React(Lexed[u], text[u + 1], Preceding(u))
  BY LexedIs DEF Whole
<1>2. ASSUME NEW u \in p..top, u = p \/ u - 1 \in T PROVE u \in T
  <2>1. CASE u # p
    <3>1. u - 1 \in 0..(top - 1) /\ (u - 1) + 1 = u /\ Lexed[u - 1].in = "beyond"
      BY <1>1, <1>2, <2>1
    <3>2. Lexed[u] = React(Lexed[u - 1], text[u], Preceding(u - 1))
      BY <1>1, <3>1
    <3>3. Lexed[u] = Lexed[u - 1]
      BY <3>1, <3>2, Reacts
    <3> QED BY <3>1, <3>3
  <2> QED BY <2>1
<1>3. top \in T
  <2>1. p \in Nat /\ top \in p..top
    BY <1>1
  <2> HIDE DEF T
  <2> QED BY <1>1, <1>2, <2>1, CountUp
<1>4. Lexed[Len(text)].in = "beyond"
  BY <1>3 DEF Whole, TextIs
<1> QED BY <1>4 DEF Whole, Complete, InCode

\* One step of the lexer.
LEMMA LexStep ==
  ASSUME NEW A, NEW top, Whole(A, top), NEW p \in 0..(top - 1)
  PROVE  /\ Lexed[p + 1] = React(Lexed[p], text[p + 1], Preceding(p))
         /\ Lexed[p] \in LexState(A) /\ Lexed[p + 1] \in LexState(A) /\ text[p + 1] \in A
         /\ Lexed[p].in # "beyond" /\ Lexed[p + 1].in # "beyond"
         /\ top \in Nat /\ p \in 0..top /\ p + 1 \in 0..top
<1>1. /\ top \in Nat
      /\ \A u \in 0..(top - 1) : text[u + 1] \in A /\ Lexed[u + 1] = React(Lexed[u], text[u + 1], Preceding(u))
      /\ \A u \in 0..top : Lexed[u] \in LexState(A)
  BY LexedIs DEF Whole
<1>2. p \in 0..top /\ p + 1 \in 0..top
  BY <1>1
<1> QED BY <1>1, <1>2, NeverBeyond

\* A word is at p if its symbols are.
LEMMA WordIs ==
  ASSUME NEW A, NEW top, TextIs(A, top), NEW p \in Nat, NEW B, NEW word \in Seq(B)
  PROVE  StartsWith(p, word) <=> p + Len(word) <= top /\ \A k \in 1..Len(word) : text[p + k] = word[k]
<1> DEFINE n == Len(word)
           x == SubSeq(text, p + 1, p + n)
<1>1. top \in Nat /\ n \in Nat /\ text \in Seq(A) /\ top = Len(text)
  BY DEF TextIs
<1>2. StartsWith(p, word) <=> p + n <= top /\ x = word
  BY <1>1 DEF StartsWith
<1>3. ASSUME p + n <= top
      PROVE  x = word <=> \A k \in 1..n : text[p + k] = word[k]
  <2>1. x \in Seq(A) /\ Len(x) = n /\ \A k \in 1..n : x[k] = text[p + k]
    <3> HIDE DEF n
    <3> QED BY <1>1, <1>3, PartIs DEF x
  <2> HIDE DEF x
  <2>2. ASSUME \A k \in 1..n : x[k] = word[k] PROVE x = word
    <3>1. x \in Seq(A \cup B) /\ word \in Seq(A \cup B)
      BY <2>1
    <3> QED BY <2>1, <2>2, <3>1, SeqEqual
  <2>3. x = word => \A k \in 1..n : x[k] = word[k]
    OBVIOUS
  <2> QED BY <2>1, <2>2, <2>3
<1> QED BY <1>2, <1>3

\* Words of one symbol and of two.
LEMMA OneSymbol ==
  ASSUME NEW A, NEW top, TextIs(A, top), NEW p \in Nat, NEW c
  PROVE  StartsWith(p, <<c>>) <=> p < top /\ text[p + 1] = c
<1>1. top \in Nat
  BY DEF TextIs
<1> DEFINE word == <<c>>
<1>2. word \in Seq({c}) /\ Len(word) = 1 /\ word[1] = c
  OBVIOUS
<1> HIDE DEF word
<1>3. StartsWith(p, word) <=> p + 1 <= top /\ \A k \in 1..1 : text[p + k] = word[k]
  BY <1>2, WordIs
<1>4. StartsWith(p, word) <=> p < top /\ text[p + 1] = c
  BY <1>1, <1>2, <1>3
<1> QED BY <1>4 DEF word

\* A word of two symbols is at p if both are there.
LEMMA TwoSymbols ==
  ASSUME NEW A, NEW top, TextIs(A, top), NEW p \in Nat, NEW c, NEW d
  PROVE  StartsWith(p, <<c, d>>) <=> p + 1 < top /\ text[p + 1] = c /\ text[p + 2] = d
<1>1. top \in Nat
  BY DEF TextIs
<1> DEFINE word == <<c, d>>
<1>2. word \in Seq({c, d}) /\ Len(word) = 2 /\ word[1] = c /\ word[2] = d
  OBVIOUS
<1> HIDE DEF word
<1>3. StartsWith(p, word) <=> p + 2 <= top /\ \A k \in 1..2 : text[p + k] = word[k]
  <2>1. StartsWith(p, word) <=> p + Len(word) <= top /\ \A k \in 1..Len(word) : text[p + k] = word[k]
    <3>1. word \in Seq({c, d})
      BY <1>2
    <3> QED BY <3>1, WordIs, Zenon
  <2> QED BY <1>2, <2>1
<1>4. (\A k \in 1..2 : text[p + k] = word[k]) <=> text[p + 1] = c /\ text[p + 2] = d
  BY <1>2
<1>5. StartsWith(p, word) <=> p + 1 < top /\ text[p + 1] = c /\ text[p + 2] = d
  BY <1>1, <1>3, <1>4
<1> QED BY <1>5 DEF word

\* Past finds the first place of a word, or the end.
LEMMA PastIs ==
  ASSUME NEW A, NEW top, TextIs(A, top), NEW word, NEW from \in Nat
  PROVE  \/ Past(word, from) = top /\ \A k \in from..top : ~StartsWith(k, word)
         \/ \E f \in from..top : /\ Past(word, from) = f + Len(word) /\ StartsWith(f, word)
                                 /\ \A k \in from..(f - 1) : ~StartsWith(k, word)
<1> DEFINE S == Places(word, from)
<1>1. top = Len(text) /\ top \in Nat
  BY DEF TextIs
<1>2. \A k : k \in S <=> k \in from..top /\ StartsWith(k, word)
  BY <1>1 DEF Places
<1>3. Past(word, from) = IF S = {} THEN top ELSE Min(S) + Len(word)
  BY <1>1 DEF Past
<1> HIDE DEF S
<1>4. CASE S = {}
  BY <1>2, <1>3, <1>4
<1>5. CASE S # {}
  <2>1. S \in SUBSET Nat
    BY <1>1, <1>2
  <2>2. Min(S) \in S /\ \A k \in S : Min(S) <= k
    BY <1>5, <2>1, LeastOf
  <2>3. \A k \in from..(Min(S) - 1) : ~StartsWith(k, word)
    BY <1>1, <1>2, <2>1, <2>2
  <2>4. Min(S) \in from..top /\ StartsWith(Min(S), word)
    BY <1>2, <2>2
  <2> QED BY <1>3, <1>5, <2>3, <2>4
<1> QED BY <1>4, <1>5

\* In code at e, and no comment or raw literal has begun there already.
Ready(e) ==
  /\ InCode(Lexed[e])
  /\ Lexed[e].in = "slash" => text[e + 1] \notin {"/", "*"}
  /\ Lexed[e].in = "prefix" => text[e + 1] # "dq"

\* The state before a line's first symbol is left by anything but a blank and the end of a line.
LEMMA StartStays ==
  ASSUME NEW A, NEW s \in LexState(A), NEW c, c # "nl", NEW before, React(s, c, before).in = "start"
  PROVE  s.in = "start" /\ c \in Blanks
<1>1. s.in \in Wheres
  BY DEF LexState
<1>2. Code(c, before).in # "start"
  BY DEF Code, At
<1>3. \A w : At(w).in = w
  BY DEF At
<1>4. CASE s.in \in {"beyond", "start", "code", "slash", "prefix"}
  BY <1>2, <1>3, <1>4, Reacts
<1>5. CASE s.in \in {"line", "directive", "block", "star"}
  BY <1>3, <1>5, ReactsInComment
<1>6. CASE s.in \in {"string", "char", "string_escape", "char_escape"}
  <2>1. \A q, w, e : Literal(c, q, w, e).in \in {"code", e, "beyond", w}
    BY <1>3 DEF Literal
  <2> QED BY <1>3, <1>6, <2>1, ReactsInLiteral
<1>7. CASE s.in \in {"raw_open", "raw", "raw_close"}
  <2>1. Opened(s).in = "raw" /\ Closing(s).in = "raw_close" /\ Again(s).in = s.in
        /\ Named(s, c).in = s.in /\ Since(s, c).in = s.in
    BY DEF LexState, Opened, Closing, Again, Named, Since
  <2> QED BY <1>3, <1>7, <2>1, ReactsInRaw
<1> QED BY <1>1, <1>4, <1>5, <1>6, <1>7 DEF Wheres

\* At the start of a line there are blanks only since the last one ended.
LEMMA LineBegins ==
  ASSUME NEW A, NEW top, Whole(A, top), NEW p \in 0..top, Lexed[p].in = "start"
  PROVE  \E b \in 0..p : /\ b > 0 => text[b] = "nl"
                         /\ \A k \in (b + 1)..p : text[k] \in Blanks
<1> DEFINE Begun(p0, b) == /\ b > 0 => text[b] = "nl"
                           /\ \A k \in (b + 1)..p0 : text[k] \in Blanks
           T == {u \in 0..top : Lexed[u].in = "start" => \E b \in 0..u : Begun(u, b)}
<1>1. top \in Nat
  BY LexedIs DEF Whole
<1>2. ASSUME NEW u \in 0..top, u = 0 \/ u - 1 \in T PROVE u \in T
  <2> SUFFICES ASSUME Lexed[u].in = "start" PROVE \E b \in 0..u : Begun(u, b)
    OBVIOUS
  <2>1. CASE u = 0
    <3>1. Begun(u, 0) /\ 0 \in 0..u
      BY <2>1
    <3> HIDE DEF Begun
    <3> QED BY <3>1
  <2>2. CASE u # 0 /\ text[u] = "nl"
    <3>1. Begun(u, u) /\ u \in 0..u
      BY <2>2
    <3> HIDE DEF Begun
    <3> QED BY <3>1
  <2>3. CASE u # 0 /\ text[u] # "nl"
    <3> DEFINE v == u - 1
    <3>1. v \in 0..(top - 1) /\ v + 1 = u /\ v \in T
      BY <1>1, <1>2, <2>3
    <3> HIDE DEF v, T
    <3>2. Lexed[u] = React(Lexed[v], text[u], Preceding(v)) /\ Lexed[v] \in LexState(A)
      BY <3>1, LexStep
    <3>3. Lexed[v].in = "start" /\ text[u] \in Blanks
      BY <2>3, <3>2, StartStays
    <3>4. PICK b \in 0..v : Begun(v, b)
      BY <3>1, <3>3 DEF T
    <3>5. Begun(u, b) /\ b \in 0..u
      BY <1>1, <3>1, <3>3, <3>4
    <3> HIDE DEF Begun
    <3> QED BY <3>5
  <2> QED BY <2>1, <2>2, <2>3
<1>3. \A u \in 0..top : u \in T
  <2> HIDE DEF T
  <2> QED BY <1>1, <1>2, CountUp
<1> QED BY <1>3
\* What begins at a place where the scanner is not to jump.
PlainCode(p) ==
  /\ text[p + 1] \notin {"#", "dq", "sq"}
  /\ text[p + 1] = "/" /\ p + 1 < Len(text) => text[p + 2] \notin {"/", "*"}
  /\ text[p + 1] = "R" /\ p + 1 < Len(text) => text[p + 2] # "dq"

\* In code nothing that is jumped over begins, unless a literal, a comment or a directive does.
LEMMA PlainIs ==
  ASSUME NEW A, NEW top, Whole(A, top), NEW p \in 0..(top - 1), Ready(p), ~Opaque(p)
  PROVE  PlainCode(p)
<1>1. p \in Nat /\ p < top /\ TextIs(A, top) /\ top = Len(text) /\ top \in Nat
  BY LexStep DEF Whole, TextIs
<1>2. text[p + 1] \notin {"dq", "sq"}
  BY <1>1, OneSymbol DEF Opaque
<1>3. /\ text[p + 1] = "/" /\ p + 1 < Len(text) => text[p + 2] \notin {"/", "*"}
      /\ text[p + 1] = "R" /\ p + 1 < Len(text) => text[p + 2] # "dq"
  BY <1>1, TwoSymbols DEF Opaque
<1>4. text[p + 1] # "#"
  <2> SUFFICES ASSUME text[p + 1] = "#" PROVE FALSE
    OBVIOUS
  <2>1. /\ Lexed[p + 1] = React(Lexed[p], "#", Preceding(p)) /\ Lexed[p + 1].in # "beyond"
        /\ Lexed[p].in \in {"start", "code", "slash", "prefix"}
    BY LexStep DEF Ready, InCode
  <2>2. Code("#", Preceding(p)).in = "beyond"
    BY DEF Code, At
  <2>3. Lexed[p].in = "start"
    BY <2>1, <2>2, Reacts
  <2>4. StartsWith(p, <<"#">>)
    BY <1>1, OneSymbol
  <2>5. DirectiveStart(p)
    <3>1. p \in 0..top
      BY <1>1
    <3> QED BY <2>3, <2>4, <3>1, LineBegins DEF DirectiveStart
  <2> QED BY <2>5 DEF Opaque
<1> QED BY <1>2, <1>3, <1>4 DEF PlainCode

\* Code goes on after a plain symbol.
LEMMA CodeGoesOn ==
  ASSUME NEW A, NEW top, Whole(A, top), NEW p \in 0..(top - 1), Ready(p), PlainCode(p)
  PROVE  p + 1 = top \/ Ready(p + 1)
<1> DEFINE c == text[p + 1]
           s == Lexed[p]
           t == Lexed[p + 1]
<1>1. /\ t = React(s, c, Preceding(p)) /\ t.in # "beyond"
      /\ s.in \in {"start", "code", "slash", "prefix"}
      /\ s.in = "slash" => c \notin {"/", "*"}
      /\ s.in = "prefix" => c # "dq"
      /\ c \notin {"#", "dq", "sq"}
  BY LexStep DEF Ready, InCode, PlainCode
<1>2. (t = s /\ s.in = "start") \/ t = Code(c, Preceding(p))
  <2> HIDE DEF c, s, t
  <2> QED BY <1>1, Reacts
<1>3. \A w : At(w).in = w
  BY DEF At
<1>4. Code(c, Preceding(p)).in \in {"start", "slash", "prefix", "code", "beyond"}
      /\ (Code(c, Preceding(p)).in = "slash" => c = "/") /\ (Code(c, Preceding(p)).in = "prefix" => c = "R")
  <2> HIDE DEF c, s, t
  <2> QED BY <1>1, <1>3 DEF Code
<1>5. t.in \in {"start", "slash", "prefix", "code"} /\ (t.in = "slash" => c = "/") /\ (t.in = "prefix" => c = "R")
  <2> HIDE DEF c, s, t
  <2> QED BY <1>1, <1>2, <1>4
<1>6. top = Len(text) /\ top \in Nat
  BY LexStep DEF Whole, TextIs
<1>7. ASSUME p + 1 # top PROVE p + 1 < Len(text) /\ (p + 1) + 1 = p + 2
  BY <1>6, <1>7
<1> QED BY <1>5, <1>7 DEF Ready, InCode, PlainCode

-----------------------------------------------------------------------------
(* What is to be reported *)

\* A token or a cast as it is reported.
Token(p) == [token |-> text[p + 1], begin |-> p, end |-> TokenEnd(p)]
Cast(p, end) == [token |-> "(", begin |-> p, end |-> end]

\* The opportunities that begin at p.
BeginAt(p) ==
  IF InCode(Lexed[p])
    THEN {o \in {Token(p)} : IsToken(p)} \cup {Cast(p, end) : end \in CastEnds(p)}
    ELSE {}

\* Each opportunity begins at some place of the text.
LEMMA OpportunitiesAre ==
  ASSUME NEW o
  PROVE  o \in Opportunities <=> \E p \in 0..(Len(text) - 1) : o \in BeginAt(p)
BY DEF Opportunities, BeginAt, Token, Cast

\* Those before place n.
FoundUpto(n) == {o \in Opportunities : o.begin < n}

\* They are those that begin at the places before n.
LEMMA FoundUptoIs ==
  ASSUME Len(text) \in Nat, NEW n \in 0..Len(text), NEW o
  PROVE  o \in FoundUpto(n) <=> \E p \in 0..(n - 1) : o \in BeginAt(p)
<1>1. \A p : \A x \in BeginAt(p) : x.begin = p
  BY DEF BeginAt, Token, Cast
<1>2. ASSUME o \in FoundUpto(n) PROVE \E p \in 0..(n - 1) : o \in BeginAt(p)
  <2>1. PICK p \in 0..(Len(text) - 1) : o \in BeginAt(p)
    BY <1>2, OpportunitiesAre DEF FoundUpto
  <2> QED BY <1>1, <1>2, <2>1 DEF FoundUpto
<1>3. ASSUME NEW p \in 0..(n - 1), o \in BeginAt(p) PROVE o \in FoundUpto(n)
  <2>1. p \in 0..(Len(text) - 1)
    OBVIOUS
  <2>2. o \in Opportunities /\ o.begin = p
    BY <1>1, <1>3, <2>1, OpportunitiesAre
  <2> QED BY <2>2 DEF FoundUpto
<1> QED BY <1>2, <1>3

\* Nothing begins at p that would be reported.
Quiet(p) == ~InCode(Lexed[p]) \/ text[p + 1] \notin Tokens \cup {"("}

\* So nothing is to be reported there.
LEMMA QuietIs ==
  ASSUME NEW A, NEW top, TextIs(A, top), NEW p \in 0..(top - 1), Quiet(p)
  PROVE  BeginAt(p) = {}
<1>1. top \in Nat /\ p \in Nat
  BY DEF TextIs
<1>2. text[p + 1] # "(" => CastEnds(p) = {}
  BY <1>1, OneSymbol DEF CastEnds
<1>3. text[p + 1] \notin Tokens => ~IsToken(p)
  BY DEF IsToken
<1> QED BY <1>2, <1>3 DEF BeginAt, Quiet

\* From p on nothing is to be reported before e but what begins at p.
LEMMA Passed ==
  ASSUME NEW A, NEW top, TextIs(A, top), NEW p \in 0..(top - 1), NEW e \in (p + 1)..top,
         \A k \in (p + 1)..(e - 1) : Quiet(k)
  PROVE  FoundUpto(e) = FoundUpto(p) \cup BeginAt(p)
<1>1. top = Len(text) /\ top \in Nat /\ p \in Nat /\ p \in 0..top /\ e \in 0..top
  BY DEF TextIs
<1>2. \A k \in (p + 1)..(e - 1) : BeginAt(k) = {}
  <2> SUFFICES ASSUME NEW k \in (p + 1)..(e - 1) PROVE BeginAt(k) = {}
    OBVIOUS
  <2>1. k \in 0..(top - 1)
    BY <1>1
  <2> QED BY <2>1, QuietIs
<1>3. ASSUME NEW o PROVE o \in FoundUpto(e) <=> o \in FoundUpto(p) \cup BeginAt(p)
  <2>1. o \in FoundUpto(e) <=> \E k \in 0..(e - 1) : o \in BeginAt(k)
    BY <1>1, FoundUptoIs
  <2>2. o \in FoundUpto(p) <=> \E k \in 0..(p - 1) : o \in BeginAt(k)
    BY <1>1, FoundUptoIs
  <2>3. (\E k \in 0..(e - 1) : o \in BeginAt(k)) <=>
          (\E k \in 0..(p - 1) : o \in BeginAt(k)) \/ o \in BeginAt(p)
    BY <1>1, <1>2
  <2> QED BY <2>1, <2>2, <2>3
<1> QED BY <1>3 DEF FoundUpto

\* From p the lexer is outside code up to e, where code goes on, or the text ends.
Lands(p, e) ==
  /\ e \in (p + 1)..Len(text)
  /\ e = Len(text) \/ Ready(e)
  /\ \A k \in (p + 1)..(e - 1) : Quiet(k)

\* A line comment or a directive lasts as long as the line.
LEMMA LineLasts ==
  ASSUME NEW A, NEW top, Whole(A, top), NEW q \in 0..top, Lexed[q].in \in {"line", "directive"},
         NEW f \in q..top, \A k \in q..(f - 1) : text[k + 1] # "nl"
  PROVE  \A k \in q..f : Lexed[k].in = Lexed[q].in
<1> DEFINE T == {k \in q..f : Lexed[k].in = Lexed[q].in}
<1>1. top \in Nat
  BY LexedIs DEF Whole
<1>2. ASSUME NEW k \in q..f, k = q \/ k - 1 \in T PROVE k \in T
  <2>1. CASE k = q
    BY <2>1
  <2>2. CASE k # q
    <3> DEFINE v == k - 1
    <3>1. v \in q..(f - 1) /\ v \in 0..(top - 1) /\ v + 1 = k /\ Lexed[v].in = Lexed[q].in
      BY <1>1, <1>2, <2>2
    <3> HIDE DEF v
    <3>2. /\ Lexed[k] = React(Lexed[v], text[k], Preceding(v)) /\ Lexed[k].in # "beyond" /\ text[k] # "nl"
      BY <3>1, LexStep
    <3>3. \A w : At(w).in = w
      BY DEF At
    <3>4. Lexed[k].in = Lexed[q].in
      BY <3>1, <3>2, <3>3, ReactsInComment
    <3> QED BY <3>4
  <2> QED BY <2>1, <2>2
<1> QED
  <2>1. q \in Nat /\ f \in Nat
    BY <1>1
  <2> HIDE DEF T
  <2>2. \A k \in q..f : k \in T
    BY <1>2, <2>1, CountUp
  <2> QED BY <2>2 DEF T

\* What is jumped over in a line, and where the jump ends.
LEMMA LineRunsOut ==
  ASSUME NEW A, NEW top, Whole(A, top), NEW q \in 0..top, Lexed[q].in \in {"line", "directive"}
  PROVE  LET e == Past(<<"nl">>, q)
         IN /\ e \in q..top
            /\ e = top \/ Lexed[e].in = "start"
            /\ \A k \in q..(e - 1) : Lexed[k].in = Lexed[q].in
<1> DEFINE e == Past(<<"nl">>, q)
<1>1. TextIs(A, top) /\ top \in Nat /\ q \in Nat
  BY LexedIs DEF Whole
<1>2. Len(<<"nl">>) = 1
  OBVIOUS
<1>3. \A k \in Nat : StartsWith(k, <<"nl">>) <=> k < top /\ text[k + 1] = "nl"
  BY <1>1, OneSymbol
<1>4. \/ e = top /\ \A k \in q..top : ~StartsWith(k, <<"nl">>)
      \/ \E f \in q..top : /\ e = f + 1 /\ StartsWith(f, <<"nl">>)
                           /\ \A k \in q..(f - 1) : ~StartsWith(k, <<"nl">>)
  BY <1>1, <1>2, PastIs
<1> HIDE DEF e
<1>5. CASE e = top /\ \A k \in q..top : ~StartsWith(k, <<"nl">>)
  <2>1. \A k \in q..(top - 1) : text[k + 1] # "nl"
    BY <1>1, <1>3, <1>5
  <2>2. \A k \in q..top : Lexed[k].in = Lexed[q].in
    <3>1. top \in q..top
      BY <1>1
    <3> QED BY <2>1, <3>1, LineLasts
  <2>3. e \in q..top /\ \A k \in q..(e - 1) : k \in q..top
    BY <1>1, <1>5
  <2> QED BY <1>5, <2>2, <2>3 DEF e
<1>6. ASSUME NEW f \in q..top, e = f + 1, StartsWith(f, <<"nl">>), \A k \in q..(f - 1) : ~StartsWith(k, <<"nl">>)
      PROVE  /\ e \in q..top /\ Lexed[e].in = "start"
             /\ \A k \in q..(e - 1) : Lexed[k].in = Lexed[q].in
  <2>1. f \in 0..(top - 1) /\ text[f + 1] = "nl" /\ f \in Nat
    BY <1>1, <1>3, <1>6
  <2>2. \A k \in q..(f - 1) : text[k + 1] # "nl"
    BY <1>1, <1>3, <1>6, <2>1
  <2>3. \A k \in q..f : Lexed[k].in = Lexed[q].in
    BY <2>2, LineLasts
  <2>4. Lexed[f].in = Lexed[q].in
    BY <2>1, <2>3, <1>1
  <2>5. Lexed[e] = React(Lexed[f], "nl", Preceding(f)) /\ Lexed[e].in # "beyond"
    BY <1>6, <2>1, LexStep
  <2>6. Lexed[e].in = "start"
    <3>1. \A w : At(w).in = w
      BY DEF At
    <3> QED BY <2>4, <2>5, <3>1, ReactsInComment
  <2> QED BY <1>1, <1>6, <2>1, <2>3, <2>6
<1> QED BY <1>4, <1>5, <1>6 DEF e

\* A jump over a directive, and over a line comment.
LEMMA DirectiveLands ==
  ASSUME NEW A, NEW top, Whole(A, top), NEW p \in 0..(top - 1), Ready(p), DirectiveStart(p)
  PROVE  Lands(p, Past(<<"nl">>, p + 1)) /\ Quiet(p)
<1> DEFINE e == Past(<<"nl">>, p + 1)
<1>1. p \in Nat /\ p + 1 \in 0..top /\ TextIs(A, top) /\ top = Len(text) /\ top \in Nat
  BY LexStep DEF Whole, TextIs
<1>2. text[p + 1] = "#"
  BY <1>1, OneSymbol DEF DirectiveStart
<1>3. /\ Lexed[p + 1] = React(Lexed[p], "#", Preceding(p)) /\ Lexed[p + 1].in # "beyond"
      /\ Lexed[p].in \in {"start", "code", "slash", "prefix"}
  BY <1>2, LexStep DEF Ready, InCode
<1>4. Lexed[p + 1].in = "directive"
  <2>1. Code("#", Preceding(p)).in = "beyond" /\ At("directive").in = "directive"
    BY DEF Code, At
  <2> QED BY <1>3, <2>1, Reacts
<1>5. /\ e \in (p + 1)..top /\ (e = top \/ Lexed[e].in = "start")
      /\ \A k \in (p + 1)..(e - 1) : Lexed[k].in = "directive"
  BY <1>1, <1>4, LineRunsOut
<1> HIDE DEF e
<1>6. Lands(p, e)
  BY <1>1, <1>5 DEF Lands, Ready, InCode, Quiet
<1> QED BY <1>2, <1>6 DEF e, Quiet, Tokens

\* A slash in code, and no comment begins there.
LEMMA SlashFollows ==
  ASSUME NEW A, NEW top, Whole(A, top), NEW p \in 0..(top - 1), Ready(p), text[p + 1] = "/"
  PROVE  Lexed[p + 1].in = "slash"
<1>1. /\ Lexed[p + 1] = React(Lexed[p], "/", Preceding(p))
      /\ Lexed[p].in \in {"start", "code", "slash", "prefix"} /\ Lexed[p].in # "slash"
  BY LexStep DEF Ready, InCode
<1>2. Code("/", Preceding(p)).in = "slash"
  BY DEF Code, At
<1> QED BY <1>1, <1>2, Reacts DEF Blanks

\* A jump over a line comment.
LEMMA LineCommentLands ==
  ASSUME NEW A, NEW top, Whole(A, top), NEW p \in 0..(top - 1), Ready(p), StartsWith(p, <<"/", "/">>)
  PROVE  Lands(p, Past(<<"nl">>, p + 2)) /\ Quiet(p)
<1> DEFINE e == Past(<<"nl">>, p + 2)
<1>1. p \in Nat /\ p + 1 \in 0..top /\ TextIs(A, top) /\ top = Len(text) /\ top \in Nat
  BY LexStep DEF Whole, TextIs
<1>2. p + 1 < top /\ text[p + 1] = "/" /\ text[p + 2] = "/"
  BY <1>1, TwoSymbols
<1>3. p + 1 \in 0..(top - 1) /\ p + 2 \in 0..top /\ (p + 1) + 1 = p + 2
  BY <1>1, <1>2
<1>4. Lexed[p + 1].in = "slash"
  BY <1>2, SlashFollows
<1>5. Lexed[p + 2].in = "line"
  <2>1. Lexed[p + 2] = React(Lexed[p + 1], "/", Preceding(p + 1))
    BY <1>2, <1>3, LexStep
  <2> QED BY <1>4, <2>1, Reacts DEF At
<1>6. /\ e \in (p + 2)..top /\ (e = top \/ Lexed[e].in = "start")
      /\ \A k \in (p + 2)..(e - 1) : Lexed[k].in = "line"
  BY <1>3, <1>5, LineRunsOut
<1> HIDE DEF e
<1>7. Quiet(p) /\ Quiet(p + 1)
  BY <1>2, <1>3 DEF Quiet, Tokens
<1>8. \A k \in (p + 1)..(e - 1) : Quiet(k)
  <2> SUFFICES ASSUME NEW k \in (p + 1)..(e - 1) PROVE Quiet(k)
    OBVIOUS
  <2>1. CASE k = p + 1
    BY <1>7, <2>1
  <2>2. CASE k # p + 1
    BY <1>1, <1>6, <2>2 DEF Quiet, InCode
  <2> QED BY <2>1, <2>2
<1>9. e \in (p + 1)..Len(text) /\ (e = Len(text) \/ Ready(e))
  BY <1>1, <1>6 DEF Ready, InCode
<1>10. Lands(p, e)
  BY <1>8, <1>9 DEF Lands
<1> QED BY <1>7, <1>10 DEF e

\* Within a block comment, and whether a star was read last.
InBlock(q, k) ==
  /\ Lexed[k].in \in {"block", "star"}
  /\ Lexed[k].in = "star" => k > q /\ text[k] = "*"
  /\ k > q /\ text[k] = "*" => Lexed[k].in = "star"

\* A block comment lasts until it is closed.
LEMMA BlockLasts ==
  ASSUME NEW A, NEW top, Whole(A, top), NEW q \in 0..top, Lexed[q].in = "block",
         NEW f \in q..top, \A k \in q..(f - 2) : ~(text[k + 1] = "*" /\ text[k + 2] = "/")
  PROVE  \A k \in q..f : InBlock(q, k)
<1> DEFINE T == {k \in q..f : InBlock(q, k)}
<1>1. top \in Nat
  BY LexedIs DEF Whole
<1>2. ASSUME NEW k \in q..f, k = q \/ k - 1 \in T PROVE k \in T
  <2>1. CASE k = q
    BY <1>1, <2>1 DEF InBlock
  <2>2. CASE k # q
    <3> DEFINE v == k - 1
    <3>1. v \in q..(f - 1) /\ v \in 0..(top - 1) /\ v + 1 = k /\ InBlock(q, v) /\ k > q
      BY <1>1, <1>2, <2>2
    <3>2. ASSUME Lexed[v].in = "star" PROVE text[k] # "/"
      <4>1. v > q /\ text[v] = "*"
        BY <3>1, <3>2 DEF InBlock
      <4>2. v - 1 \in q..(f - 2) /\ (v - 1) + 1 = v /\ (v - 1) + 2 = k
        BY <1>1, <3>1, <4>1
      <4> QED BY <4>1, <4>2
    <3> HIDE DEF v
    <3>3. Lexed[k] = React(Lexed[v], text[k], Preceding(v))
      BY <3>1, LexStep
    <3>4. \A w : At(w).in = w
      BY DEF At
    <3>5. Lexed[k].in = IF text[k] = "*" THEN "star" ELSE "block"
      BY <3>1, <3>2, <3>3, <3>4, ReactsInComment DEF InBlock
    <3> QED BY <3>1, <3>5 DEF InBlock
  <2> QED BY <2>1, <2>2
<1> QED
  <2>1. q \in Nat /\ f \in Nat
    BY <1>1
  <2> HIDE DEF T
  <2>2. \A k \in q..f : k \in T
    BY <1>2, <2>1, CountUp
  <2> QED BY <2>2 DEF T

\* The jump over a block comment ends behind the first end there is.
LEMMA BlockEnds ==
  ASSUME NEW A, NEW top, Whole(A, top), NEW q \in 0..top, Lexed[q].in = "block"
  PROVE  LET e == Past(<<"*", "/">>, q)
         IN /\ e \in q..top
            /\ e = top \/ Lexed[e].in = "code"
            /\ \A k \in q..(e - 1) : Lexed[k].in \in {"block", "star"}
<1> DEFINE e == Past(<<"*", "/">>, q)
<1>1. TextIs(A, top) /\ top \in Nat /\ q \in Nat
  BY LexedIs DEF Whole
<1>2. Len(<<"*", "/">>) = 2
  OBVIOUS
<1>3. \A k \in Nat : StartsWith(k, <<"*", "/">>) <=> k + 1 < top /\ text[k + 1] = "*" /\ text[k + 2] = "/"
  BY <1>1, TwoSymbols
<1>4. \/ e = top /\ \A k \in q..top : ~StartsWith(k, <<"*", "/">>)
      \/ \E f \in q..top : /\ e = f + 2 /\ StartsWith(f, <<"*", "/">>)
                           /\ \A k \in q..(f - 1) : ~StartsWith(k, <<"*", "/">>)
  BY <1>1, <1>2, PastIs
<1> HIDE DEF e
<1>5. CASE e = top /\ \A k \in q..top : ~StartsWith(k, <<"*", "/">>)
  <2>1. \A k \in q..(top - 2) : ~(text[k + 1] = "*" /\ text[k + 2] = "/")
    BY <1>1, <1>3, <1>5
  <2>2. \A k \in q..top : InBlock(q, k)
    <3>1. top \in q..top
      BY <1>1
    <3> QED BY <2>1, <3>1, BlockLasts
  <2>3. e \in q..top /\ \A k \in q..(e - 1) : k \in q..top
    BY <1>1, <1>5
  <2> QED BY <1>5, <2>2, <2>3 DEF e, InBlock
<1>6. ASSUME NEW f \in q..top, e = f + 2, StartsWith(f, <<"*", "/">>), \A k \in q..(f - 1) : ~StartsWith(k, <<"*", "/">>)
      PROVE  /\ e \in q..top /\ Lexed[e].in = "code"
             /\ \A k \in q..(e - 1) : Lexed[k].in \in {"block", "star"}
  <2>1. f \in Nat /\ f + 1 \in 0..(top - 1) /\ f + 1 \in q..top /\ text[f + 1] = "*" /\ text[f + 2] = "/" /\ (f + 1) + 1 = e
    BY <1>1, <1>3, <1>6
  <2>2. \A k \in q..((f + 1) - 2) : ~(text[k + 1] = "*" /\ text[k + 2] = "/")
    BY <1>1, <1>3, <1>6, <2>1
  <2>3. \A k \in q..(f + 1) : InBlock(q, k)
    BY <2>1, <2>2, BlockLasts
  <2>4. Lexed[f + 1].in = "star"
    BY <1>1, <2>1, <2>3 DEF InBlock
  <2>5. Lexed[e] = React(Lexed[f + 1], "/", Preceding(f + 1))
    BY <1>6, <2>1, LexStep
  <2>6. Lexed[e].in = "code"
    <3>1. \A w : At(w).in = w
      BY DEF At
    <3> QED BY <2>4, <2>5, <3>1, ReactsInComment
  <2>7. \A k \in q..(e - 1) : k \in q..(f + 1)
    BY <1>1, <1>6
  <2>8. e \in q..top
    BY <1>1, <2>1
  <2> QED BY <2>3, <2>6, <2>7, <2>8 DEF InBlock
<1> QED BY <1>4, <1>5, <1>6 DEF e

\* A jump over a block comment.
LEMMA BlockCommentLands ==
  ASSUME NEW A, NEW top, Whole(A, top), NEW p \in 0..(top - 1), Ready(p), StartsWith(p, <<"/", "*">>)
  PROVE  Lands(p, Past(<<"*", "/">>, p + 2)) /\ Quiet(p)
<1> DEFINE e == Past(<<"*", "/">>, p + 2)
<1>1. p \in Nat /\ p + 1 \in 0..top /\ TextIs(A, top) /\ top = Len(text) /\ top \in Nat
  BY LexStep DEF Whole, TextIs
<1>2. p + 1 < top /\ text[p + 1] = "/" /\ text[p + 2] = "*"
  BY <1>1, TwoSymbols
<1>3. p + 1 \in 0..(top - 1) /\ p + 2 \in 0..top /\ (p + 1) + 1 = p + 2
  BY <1>1, <1>2
<1>4. Lexed[p + 1].in = "slash"
  BY <1>2, SlashFollows
<1>5. Lexed[p + 2].in = "block"
  <2>1. Lexed[p + 2] = React(Lexed[p + 1], "*", Preceding(p + 1))
    BY <1>2, <1>3, LexStep
  <2> QED BY <1>4, <2>1, Reacts DEF At
<1>6. /\ e \in (p + 2)..top /\ (e = top \/ Lexed[e].in = "code")
      /\ \A k \in (p + 2)..(e - 1) : Lexed[k].in \in {"block", "star"}
  BY <1>3, <1>5, BlockEnds
<1> HIDE DEF e
<1>7. Quiet(p) /\ Quiet(p + 1)
  BY <1>2, <1>3 DEF Quiet, Tokens
<1>8. \A k \in (p + 1)..(e - 1) : Quiet(k)
  <2> SUFFICES ASSUME NEW k \in (p + 1)..(e - 1) PROVE Quiet(k)
    OBVIOUS
  <2>1. CASE k = p + 1
    BY <1>7, <2>1
  <2>2. CASE k # p + 1
    BY <1>1, <1>6, <2>2 DEF Quiet, InCode
  <2> QED BY <2>1, <2>2
<1>9. e \in (p + 1)..Len(text) /\ (e = Len(text) \/ Ready(e))
  BY <1>1, <1>6 DEF Ready, InCode
<1>10. Lands(p, e)
  BY <1>8, <1>9 DEF Lands
<1> QED BY <1>7, <1>10 DEF e

-----------------------------------------------------------------------------
(* Literals *)

\* A function is the recursion of skip_quoted, on a text of top symbols.
Skips(f, quote, top) ==
  f = [k \in 0..top |->
         IF k = top THEN k
         ELSE IF text[k + 1] = "bs" THEN f[IF k + 1 < top THEN k + 2 ELSE k + 1]
         ELSE IF text[k + 1] = quote THEN k + 1
         ELSE f[k + 1]]

\* It goes from left to right, so there is such a function.
LEMMA SkipExists ==
  ASSUME NEW top \in Nat, NEW quote
  PROVE  \E f \in [0..top -> Nat] : Skips(f, quote, top)
<1> DEFINE S == 0..top
           rank == [k \in S |-> top - k]
           next(f) == [k \in S |->
                         IF k = top THEN k
                         ELSE IF text[k + 1] = "bs" THEN f[IF k + 1 < top THEN k + 2 ELSE k + 1]
                         ELSE IF text[k + 1] = quote THEN k + 1
                         ELSE f[k + 1]]
           G == [f \in [S -> Nat] |-> next(f)]
<1>1. rank \in [S -> 0..top] /\ \A k \in S : rank[k] = top - k
  OBVIOUS
<1>2. ASSUME NEW f \in [S -> Nat] PROVE next(f) \in [S -> Nat]
  <2> SUFFICES ASSUME NEW k \in S PROVE next(f)[k] \in Nat
    OBVIOUS
  <2>1. CASE k # top
    <3>1. k + 1 \in S /\ (k + 1 < top => k + 2 \in S) /\ k + 1 \in Nat
      BY <2>1
    <3> QED BY <2>1, <3>1
  <2> QED BY <2>1
<1>3. ASSUME NEW f \in [S -> Nat], NEW g \in [S -> Nat], NEW k \in S,
             \A d \in S : rank[d] < rank[k] => f[d] = g[d]
      PROVE  next(f)[k] = next(g)[k]
  <2>1. CASE k # top
    <3>1. k + 1 \in S /\ rank[k + 1] < rank[k] /\ (k + 1 < top => k + 2 \in S /\ rank[k + 2] < rank[k])
      BY <1>1, <2>1
    <3>2. f[k + 1] = g[k + 1] /\ (k + 1 < top => f[k + 2] = g[k + 2])
      BY <1>3, <3>1
    <3> QED BY <3>2
  <2> QED BY <2>1
<1>4. G \in [[S -> Nat] -> [S -> Nat]] /\ \A f \in [S -> Nat] : G[f] = next(f)
  <2> HIDE DEF S, next
  <2> QED BY <1>2
<1>5. Grounded(G, S, Nat, rank)
  <2> HIDE DEF S, next, G, rank
  <2> SUFFICES ASSUME NEW f \in [S -> Nat], NEW g \in [S -> Nat], NEW k \in S,
                      \A d \in S : rank[d] < rank[k] => f[d] = g[d]
               PROVE  G[f][k] = G[g][k]
    BY DEF Grounded
  <2> QED BY <1>3, <1>4
<1>6. \E f \in [S -> Nat] : f = G[f]
  <2> HIDE DEF S, next, G, rank
  <2>1. Recursion(G, S, Nat, rank, top)
    BY <1>1, <1>4, <1>5 DEF Recursion
  <2> QED BY <2>1, RecursionExists
<1>7. PICK f \in [S -> Nat] : f = G[f]
  BY <1>6
<1>8. f = next(f)
  <2> HIDE DEF next, G
  <2> QED BY <1>4, <1>7
<1> QED BY <1>8 DEF Skips

\* From place k of a literal f gets to its end.
Closes(f, k, where, escape, top) ==
  Lexed[k].in = where =>
    /\ f[k] \in k..top
    /\ f[k] = top \/ Lexed[f[k]].in = "code"
    /\ \A v \in k..(f[k] - 1) : Lexed[v].in \in {where, escape}

\* The two kinds of literals.
Quoting(quote, where, escape) ==
  \/ quote = "dq" /\ where = "string" /\ escape = "string_escape"
  \/ quote = "sq" /\ where = "char" /\ escape = "char_escape"

\* Within a literal the lexer leaves it with its quote only, and passes over what is escaped.
LEMMA LiteralStep ==
  ASSUME NEW A, NEW top, Whole(A, top), NEW quote, NEW where, NEW escape, Quoting(quote, where, escape),
         NEW k \in 0..(top - 1)
  PROVE  /\ Lexed[k].in = where => Lexed[k + 1].in =
              IF text[k + 1] = quote THEN "code" ELSE IF text[k + 1] = "bs" THEN escape ELSE where
         /\ Lexed[k].in = escape => Lexed[k + 1].in = where
<1>1. Lexed[k + 1] = React(Lexed[k], text[k + 1], Preceding(k)) /\ Lexed[k + 1].in # "beyond"
  BY LexStep
<1>2. \A w : At(w).in = w
  BY DEF At
<1>3. CASE quote = "dq" /\ where = "string" /\ escape = "string_escape"
  BY <1>1, <1>2, <1>3, ReactsInLiteral DEF Literal
<1>4. CASE quote = "sq" /\ where = "char" /\ escape = "char_escape"
  BY <1>1, <1>2, <1>4, ReactsInLiteral DEF Literal
<1> QED BY <1>3, <1>4 DEF Quoting

\* The recursion of skip_quoted ends where the literal does.
LEMMA LiteralEnds ==
  ASSUME NEW A, NEW top, Whole(A, top), NEW quote, NEW where, NEW escape, Quoting(quote, where, escape),
         NEW f, Skips(f, quote, top), NEW q \in 0..top
  PROVE  Closes(f, q, where, escape, top)
<1> DEFINE T == {n \in 0..top : \A k \in (top - n)..top : Closes(f, k, where, escape, top)}
<1>1. top \in Nat
  BY LexedIs DEF Whole
<1>2. ASSUME NEW n \in 0..top, n = 0 \/ n - 1 \in T PROVE n \in T
  <2> DEFINE d == top - n
  <2>1. /\ d \in 0..top /\ (n = 0 => d = top) /\ (n # 0 => d < top)
        /\ n # 0 => \A k \in (d + 1)..top : Closes(f, k, where, escape, top)
    <3>1. d \in 0..top /\ (n = 0 => d = top) /\ (n # 0 => d < top)
      BY <1>1
    <3>2. ASSUME n # 0 PROVE \A k \in (d + 1)..top : Closes(f, k, where, escape, top)
      <4>1. n - 1 \in T /\ top - (n - 1) = d + 1
        BY <1>1, <1>2, <3>2
      <4> HIDE DEF d
      <4>2. \A k \in (top - (n - 1))..top : Closes(f, k, where, escape, top)
        BY <4>1
      <4> QED BY <4>1, <4>2
    <3> QED BY <3>1, <3>2
  <2> HIDE DEF d
  <2>2. Closes(f, d, where, escape, top)
    <3> SUFFICES ASSUME Lexed[d].in = where
                 PROVE  /\ f[d] \in d..top
                        /\ f[d] = top \/ Lexed[f[d]].in = "code"
                        /\ \A v \in d..(f[d] - 1) : Lexed[v].in \in {where, escape}
      BY DEF Closes
    <3>1. CASE d = top
      <4>1. f[d] = top
        BY <2>1, <3>1 DEF Skips
      <4> QED BY <1>1, <3>1, <4>1
    <3>2. CASE d # top
      <4>1. d \in 0..(top - 1) /\ d + 1 \in (d + 1)..top /\ n # 0
        BY <1>1, <2>1, <3>2
      <4>2. f[d] = IF text[d + 1] = "bs" THEN f[IF d + 1 < top THEN d + 2 ELSE d + 1]
                   ELSE IF text[d + 1] = quote THEN d + 1 ELSE f[d + 1]
        BY <2>1, <3>2 DEF Skips
      <4>3. Lexed[d + 1].in =
              IF text[d + 1] = quote THEN "code" ELSE IF text[d + 1] = "bs" THEN escape ELSE where
        BY <4>1, LiteralStep
      <4>4. CASE text[d + 1] = quote
        <5>1. f[d] = d + 1
          BY <4>2, <4>4 DEF Quoting
        <5> QED BY <1>1, <4>1, <4>3, <4>4, <5>1
      <4>5. CASE text[d + 1] = "bs" /\ d + 1 < top
        <5>1. f[d] = f[d + 2] /\ Lexed[d + 1].in = escape /\ d + 1 \in 0..(top - 1) /\ (d + 1) + 1 = d + 2
          BY <1>1, <4>1, <4>2, <4>3, <4>5 DEF Quoting
        <5>2. Lexed[d + 2].in = where
          BY <5>1, LiteralStep
        <5>3. /\ f[d + 2] \in (d + 2)..top
              /\ f[d + 2] = top \/ Lexed[f[d + 2]].in = "code"
              /\ \A v \in (d + 2)..(f[d + 2] - 1) : Lexed[v].in \in {where, escape}
          <6>1. d + 2 \in (d + 1)..top
            BY <1>1, <4>1, <4>5
          <6> QED BY <2>1, <4>1, <5>2, <6>1 DEF Closes
        <5> QED BY <1>1, <4>1, <5>1, <5>3
      <4>6. CASE text[d + 1] = "bs" /\ ~(d + 1 < top)
        <5>1. f[d] = f[top] /\ d + 1 = top /\ f[top] = top
          <6>1. d + 1 = top
            BY <1>1, <4>1, <4>6
          <6>2. f[top] = top
            BY <1>1 DEF Skips
          <6> QED BY <4>2, <4>6, <6>1, <6>2
        <5> QED BY <1>1, <4>1, <5>1
      <4>7. CASE text[d + 1] # quote /\ text[d + 1] # "bs"
        <5>1. f[d] = f[d + 1] /\ Lexed[d + 1].in = where
          BY <4>2, <4>3, <4>7
        <5>2. /\ f[d + 1] \in (d + 1)..top
              /\ f[d + 1] = top \/ Lexed[f[d + 1]].in = "code"
              /\ \A v \in (d + 1)..(f[d + 1] - 1) : Lexed[v].in \in {where, escape}
          BY <2>1, <4>1, <5>1 DEF Closes
        <5> QED BY <1>1, <4>1, <5>1, <5>2
      <4> QED BY <4>4, <4>5, <4>6, <4>7
    <3> QED BY <3>1, <3>2
  <2>3. \A k \in d..top : Closes(f, k, where, escape, top)
    BY <1>1, <2>1, <2>2
  <2> QED BY <2>3 DEF d
<1>3. top - q \in T
  <2>1. top - q \in 0..top /\ 0 \in Nat
    BY <1>1
  <2> HIDE DEF T
  <2> QED BY <1>1, <1>2, <2>1, CountUp
<1>4. q \in (top - (top - q))..top
  BY <1>1
<1> QED BY <1>3, <1>4

\* What skip_quoted returns.
LEMMA SkipQuotedIs ==
  ASSUME NEW A, NEW top, TextIs(A, top), NEW p, NEW quote
  PROVE  \E f : Skips(f, quote, top) /\ SkipQuoted(p, quote) = f[p + 1]
<1>1. SkipQuoted(p, quote) = (CHOOSE f : Skips(f, quote, Len(text)))[p + 1]
  BY DEF SkipQuoted, Skips
<1>2. top \in Nat /\ top = Len(text)
  BY DEF TextIs
<1>3. \E f : Skips(f, quote, top)
  BY <1>2, SkipExists
<1>4. Skips(CHOOSE f : Skips(f, quote, top), quote, top)
  BY <1>3
<1> QED BY <1>1, <1>2, <1>4

\* A jump over a string or a character.
LEMMA LiteralLands ==
  ASSUME NEW A, NEW top, Whole(A, top), NEW p \in 0..(top - 1), Ready(p), NEW quote \in {"dq", "sq"},
         StartsWith(p, <<quote>>)
  PROVE  Lands(p, SkipQuoted(p, quote)) /\ Quiet(p)
<1> DEFINE e == SkipQuoted(p, quote)
           where == IF quote = "dq" THEN "string" ELSE "char"
           escape == IF quote = "dq" THEN "string_escape" ELSE "char_escape"
<1>1. p \in Nat /\ p + 1 \in 0..top /\ TextIs(A, top) /\ top = Len(text) /\ top \in Nat
  BY LexStep DEF Whole, TextIs
<1>2. text[p + 1] = quote
  BY <1>1, OneSymbol
<1>3. /\ Lexed[p + 1] = React(Lexed[p], quote, Preceding(p)) /\ Lexed[p + 1].in # "beyond"
      /\ Lexed[p].in \in {"start", "code", "slash", "prefix"}
      /\ Lexed[p].in = "prefix" => quote # "dq"
  BY <1>2, LexStep DEF Ready, InCode
<1>4. Lexed[p + 1].in = where /\ Quoting(quote, where, escape)
  <2>1. Code(quote, Preceding(p)).in \in {where, "beyond"}
    BY DEF Code, At
  <2>2. Lexed[p + 1] = Code(quote, Preceding(p))
    BY <1>3, Reacts DEF Blanks
  <2> QED BY <1>3, <2>1, <2>2 DEF Quoting
<1>5. PICK f : Skips(f, quote, top) /\ e = f[p + 1]
  BY <1>1, SkipQuotedIs
<1>6. /\ e \in (p + 1)..top /\ (e = top \/ Lexed[e].in = "code")
      /\ \A k \in (p + 1)..(e - 1) : Lexed[k].in \in {where, escape}
  <2> HIDE DEF e, where, escape
  <2>1. Closes(f, p + 1, where, escape, top)
    BY <1>1, <1>4, <1>5, LiteralEnds
  <2> QED BY <1>4, <1>5, <2>1 DEF Closes
<1> HIDE DEF e
<1>7. Lands(p, e)
  BY <1>1, <1>6 DEF Lands, Ready, InCode, Quiet
<1>8. Quiet(p)
  BY <1>2 DEF Quiet, Tokens
<1> QED BY <1>7, <1>8 DEF e

-----------------------------------------------------------------------------
(* Raw literals *)

\* What cannot be in a delimiter.
NotInDelimiter == {"(", ")", "bs", "nl", "sp", "tab", "dq"}

\* The text between places a and b.
Stretch(a, b) == SubSeq(text, a + 1, b)

\* x reads as the text does between a and b.
Reads(x, A, a, b) == x \in Seq(A) /\ Len(x) = b - a /\ \A k \in 1..(b - a) : x[k] = text[a + k]

\* A stretch is a text with the symbols it is taken from.
LEMMA StretchIs ==
  ASSUME NEW A, NEW top, TextIs(A, top), NEW a \in 0..top, NEW b \in a..top
  PROVE  Reads(Stretch(a, b), A, a, b)
<1> DEFINE n == b - a
<1>1. text \in Seq(A) /\ top = Len(text) /\ top \in Nat /\ a \in Nat
  BY DEF TextIs
<1>2. n \in Nat /\ a + n = b /\ a + n <= Len(text)
  BY <1>1
<1> HIDE DEF n
<1>3. /\ SubSeq(text, a + 1, a + n) \in Seq(A) /\ Len(SubSeq(text, a + 1, a + n)) = n
      /\ \A k \in 1..n : SubSeq(text, a + 1, a + n)[k] = text[a + k]
  BY <1>1, <1>2, PartIs
<1> QED BY <1>2, <1>3 DEF n, Stretch, Reads

\* One symbol more.
LEMMA StretchGrows ==
  ASSUME NEW A, NEW top, TextIs(A, top), NEW a \in 0..top, NEW b \in a..(top - 1)
  PROVE  Append(Stretch(a, b), text[b + 1]) = Stretch(a, b + 1)
<1> DEFINE x == Stretch(a, b)
           y == Stretch(a, b + 1)
           n == b - a
<1>1. top \in Nat /\ n \in Nat /\ b + 1 \in a..top /\ b \in a..top /\ (b + 1) - a = n + 1 /\ a + (n + 1) = b + 1
  BY DEF TextIs
<1>2. x \in Seq(A) /\ Len(x) = n /\ \A k \in 1..n : x[k] = text[a + k]
  <2>1. Reads(x, A, a, b)
    BY <1>1, StretchIs
  <2> HIDE DEF x
  <2> QED BY <2>1 DEF Reads
<1>3. y \in Seq(A) /\ Len(y) = n + 1 /\ \A k \in 1..(n + 1) : y[k] = text[a + k]
  <2>1. Reads(y, A, a, b + 1)
    BY <1>1, StretchIs
  <2> HIDE DEF n, y
  <2> QED BY <1>1, <2>1 DEF Reads
<1>4. n + 1 \in 1..(n + 1)
  BY <1>1
<1>5. y[n + 1] = text[b + 1] /\ text[b + 1] \in A
  BY <1>1, <1>3, <1>4
<1> HIDE DEF x, y, n
<1>6. Append(x, text[b + 1]) \in Seq(A) /\ Len(Append(x, text[b + 1])) = n + 1
      /\ \A k \in 1..n : Append(x, text[b + 1])[k] = x[k]
      /\ Append(x, text[b + 1])[n + 1] = text[b + 1]
  BY <1>1, <1>2, <1>5, AppendProperties
<1>7. \A k \in 1..(n + 1) : Append(x, text[b + 1])[k] = y[k]
  <2> SUFFICES ASSUME NEW k \in 1..(n + 1) PROVE Append(x, text[b + 1])[k] = y[k]
    OBVIOUS
  <2>1. CASE k = n + 1
    BY <1>5, <1>6, <2>1
  <2>2. CASE k # n + 1
    <3>1. k \in 1..n
      BY <1>1, <2>2
    <3> QED BY <1>2, <1>3, <1>6, <3>1
  <2> QED BY <2>1, <2>2
<1>8. Append(x, text[b + 1]) = y
  BY <1>3, <1>6, <1>7, SeqEqual
<1> QED BY <1>8 DEF x, y

\* The lexer reads a delimiter from q, and is at k.
InDelimiter(q, k) ==
  /\ Lexed[k].in = "raw_open" /\ Lexed[k].delim = Stretch(q, k) /\ Lexed[k].since = <<>>
  /\ k - q <= MaxDelimiter
  /\ \A v \in q..(k - 1) : text[v + 1] \notin NotInDelimiter

\* A delimiter lasts until a parenthesis opens.
LEMMA DelimiterLasts ==
  ASSUME NEW A, NEW top, Whole(A, top), NEW q \in 0..top, InDelimiter(q, q),
         NEW f \in q..top, \A k \in q..(f - 1) : text[k + 1] # "("
  PROVE  InDelimiter(q, f)
<1> DEFINE T == {k \in q..f : InDelimiter(q, k)}
<1>1. top \in Nat /\ TextIs(A, top)
  BY LexedIs DEF Whole
<1>2. ASSUME NEW k \in q..f, k = q \/ k - 1 \in T PROVE k \in T
  <2>1. CASE k = q
    BY <2>1
  <2>2. CASE k # q
    <3> DEFINE v == k - 1
    <3>1. v \in q..(f - 1) /\ v \in 0..(top - 1) /\ v + 1 = k /\ v \in q..(top - 1) /\ InDelimiter(q, v)
      BY <1>1, <1>2, <2>2
    <3> HIDE DEF v
    <3>2. /\ Lexed[k] = React(Lexed[v], text[k], Preceding(v)) /\ Lexed[k].in # "beyond" /\ text[k] # "("
          /\ Lexed[v] \in LexState(A)
      BY <3>1, LexStep
    <3>3. At("beyond").in = "beyond"
      BY DEF At
    <3>4. /\ Lexed[k] = Named(Lexed[v], text[k])
          /\ text[k] \notin {")", "bs", "nl", "sp", "tab", "dq"} /\ Len(Lexed[v].delim) # MaxDelimiter
      BY <3>1, <3>2, <3>3, ReactsInRaw DEF InDelimiter
    <3>5. text[k] \notin NotInDelimiter
      BY <3>2, <3>4 DEF NotInDelimiter
    <3>6. /\ Lexed[k].in = "raw_open" /\ Lexed[k].since = <<>> /\ Lexed[k].delim = Append(Stretch(q, v), text[k])
      BY <3>1, <3>2, <3>4 DEF Named, LexState, InDelimiter
    <3>7. Append(Stretch(q, v), text[k]) = Stretch(q, k)
      BY <1>1, <3>1, StretchGrows
    <3>8. k - q <= MaxDelimiter
      <4>1. Len(Stretch(q, v)) = v - q
        <5>1. v \in q..top
          BY <1>1, <3>1
        <5> QED BY <1>1, <5>1, StretchIs DEF Reads
      <4>2. v - q # MaxDelimiter /\ v - q <= MaxDelimiter
        BY <3>1, <3>4, <4>1 DEF InDelimiter
      <4> QED BY <1>1, <3>1, <4>2 DEF MaxDelimiter
    <3>9. \A u \in q..(k - 1) : text[u + 1] \notin NotInDelimiter
      <4> SUFFICES ASSUME NEW u \in q..(k - 1) PROVE text[u + 1] \notin NotInDelimiter
        OBVIOUS
      <4>1. u = v \/ u \in q..(v - 1)
        BY <1>1, <3>1
      <4> QED BY <3>1, <3>5, <4>1 DEF InDelimiter
    <3>10. InDelimiter(q, k)
      BY <3>6, <3>7, <3>8, <3>9 DEF InDelimiter
    <3> QED BY <3>10
  <2> QED BY <2>1, <2>2
<1> QED
  <2>1. q \in Nat /\ f \in Nat /\ f \in q..f
    BY <1>1
  <2> HIDE DEF T
  <2>2. f \in T
    BY <1>2, <2>1, CountUp
  <2> QED BY <2>2 DEF T

\* What closes a raw literal with delimiter D.
Closer(D) == <<")">> \o D \o <<"dq">>

\* The closer is at m if its symbols are.
LEMMA CloserIs ==
  ASSUME NEW A, NEW top, TextIs(A, top), NEW D \in Seq(A), NEW m \in Nat
  PROVE  /\ Len(Closer(D)) = Len(D) + 2
         /\ StartsWith(m, Closer(D)) <=>
              /\ m + Len(D) + 2 <= top /\ text[m + 1] = ")" /\ text[m + Len(D) + 2] = "dq"
              /\ \A k \in 1..Len(D) : text[m + 1 + k] = D[k]
<1> DEFINE B == A \cup {")", "dq"}
           word == Closer(D)
           n == Len(D)
<1>1. /\ word \in Seq(B) /\ Len(word) = n + 2 /\ word[1] = ")" /\ word[n + 2] = "dq"
      /\ \A k \in 1..n : word[k + 1] = D[k]
  <2>1. D \in Seq(B) /\ <<")">> \in Seq(B) /\ <<"dq">> \in Seq(B) /\ n \in Nat
    OBVIOUS
  <2> DEFINE x == <<")">> \o D
  <2>2. x \in Seq(B) /\ Len(x) = n + 1 /\ x[1] = ")" /\ \A k \in 1..n : x[k + 1] = D[k]
    <3>1. /\ x \in Seq(B) /\ Len(x) = Len(<<")">>) + n
          /\ \A u \in 1..(Len(<<")">>) + n) : x[u] = IF u <= Len(<<")">>) THEN <<")">>[u] ELSE D[u - Len(<<")">>)]
      BY <2>1, ConcatProperties
    <3>2. Len(<<")">>) = 1 /\ <<")">>[1] = ")"
      OBVIOUS
    <3> HIDE DEF x
    <3>3. \A u \in 1..(n + 1) : x[u] = IF u <= 1 THEN <<")">>[u] ELSE D[u - 1]
      BY <2>1, <3>1, <3>2
    <3>4. \A k \in 1..n : k + 1 \in 1..(n + 1) /\ ~(k + 1 <= 1) /\ (k + 1) - 1 = k
      BY <2>1
    <3> QED BY <2>1, <3>1, <3>2, <3>3, <3>4
  <2> HIDE DEF x
  <2>3. /\ x \o <<"dq">> \in Seq(B) /\ Len(x \o <<"dq">>) = n + 2
        /\ \A k \in 1..(n + 1) : (x \o <<"dq">>)[k] = x[k]
        /\ (x \o <<"dq">>)[n + 2] = "dq"
    <3>1. x \o <<"dq">> = Append(x, "dq")
      BY <2>1, <2>2
    <3>2. "dq" \in B
      OBVIOUS
    <3>3. /\ Append(x, "dq") \in Seq(B) /\ Len(Append(x, "dq")) = Len(x) + 1
          /\ \A u \in 1..Len(x) : Append(x, "dq")[u] = x[u]
          /\ Append(x, "dq")[Len(x) + 1] = "dq"
      BY <2>2, <3>2, AppendProperties
    <3>4. Len(x) + 1 = n + 2
      BY <2>1, <2>2
    <3> QED BY <2>2, <3>1, <3>3, <3>4
  <2>4. word = x \o <<"dq">>
    BY DEF Closer, x
  <2> HIDE DEF word
  <2> QED BY <2>1, <2>2, <2>3, <2>4
<1>2. n \in Nat /\ top \in Nat
  BY DEF TextIs
<1> HIDE DEF B, word
<1>3. StartsWith(m, word) <=> m + Len(word) <= top /\ \A k \in 1..Len(word) : text[m + k] = word[k]
  <2>1. word \in Seq(B)
    BY <1>1
  <2> QED BY <2>1, WordIs, Zenon
<1>4. StartsWith(m, word) <=> m + n + 2 <= top /\ \A k \in 1..(n + 2) : text[m + k] = word[k]
  BY <1>1, <1>2, <1>3
<1> HIDE DEF n
<1>5. ASSUME \A k \in 1..(n + 2) : text[m + k] = word[k]
      PROVE  text[m + 1] = ")" /\ text[m + n + 2] = "dq" /\ \A k \in 1..n : text[m + 1 + k] = D[k]
  <2>1. 1 \in 1..(n + 2) /\ n + 2 \in 1..(n + 2) /\ m + (n + 2) = m + n + 2
    BY <1>2
  <2>2. \A k \in 1..n : k + 1 \in 1..(n + 2) /\ m + (k + 1) = m + 1 + k
    BY <1>2
  <2> QED BY <1>1, <1>5, <2>1, <2>2
<1>6. ASSUME text[m + 1] = ")", text[m + n + 2] = "dq", \A k \in 1..n : text[m + 1 + k] = D[k]
      PROVE  \A k \in 1..(n + 2) : text[m + k] = word[k]
  <2> SUFFICES ASSUME NEW k \in 1..(n + 2) PROVE text[m + k] = word[k]
    OBVIOUS
  <2>1. CASE k = 1
    BY <1>1, <1>6, <2>1
  <2>2. CASE k = n + 2
    <3>1. m + k = m + n + 2
      BY <1>2, <2>2
    <3> QED BY <1>1, <1>6, <2>2, <3>1
  <2>3. CASE k # 1 /\ k # n + 2
    <3> DEFINE v == k - 1
    <3>1. v \in 1..n /\ v + 1 = k /\ m + 1 + v = m + k
      BY <1>2, <2>3
    <3> HIDE DEF v
    <3> QED BY <1>1, <1>6, <3>1
  <2> QED BY <2>1, <2>2, <2>3
<1> QED BY <1>1, <1>4, <1>5, <1>6 DEF n, word

\* The last parenthesis before k closes at m.
LastClosing(m, k) == text[m + 1] = ")" /\ \A v \in (m + 1)..(k - 1) : text[v + 1] # ")"

\* The lexer is within a raw literal with delimiter D that was opened at r.
InRaw(D, r, k) ==
  \/ /\ Lexed[k].in = "raw" /\ Lexed[k].delim = D
     /\ \A v \in r..(k - 1) : text[v + 1] # ")"
  \/ /\ Lexed[k].in = "raw_close" /\ Lexed[k].delim = D
     /\ \E m \in r..(k - 1) : LastClosing(m, k) /\ Lexed[k].since = Stretch(m + 1, k)

\* From a place to itself there is nothing.
LEMMA StretchNone == ASSUME NEW A, NEW top, TextIs(A, top), NEW a \in 0..top PROVE Stretch(a, a) = <<>>
<1>1. a + 1 \in Int /\ a \in Int /\ a < a + 1
  BY DEF TextIs
<1> QED BY <1>1, SubSeqEmpty DEF Stretch

\* A raw literal lasts until it is closed.
LEMMA RawLasts ==
  ASSUME NEW A, NEW top, Whole(A, top), NEW D \in Seq(A), NEW r \in 0..top, InRaw(D, r, r),
         NEW f \in r..top, \A m \in r..f : m + Len(D) + 2 <= f => ~StartsWith(m, Closer(D))
  PROVE  InRaw(D, r, f)
<1> DEFINE T == {k \in r..f : InRaw(D, r, k)}
<1>1. top \in Nat /\ TextIs(A, top) /\ r \in Nat
  BY LexedIs DEF Whole
<1>2. ASSUME NEW k \in r..f, k = r \/ k - 1 \in T PROVE k \in T
  <2>1. CASE k = r
    BY <2>1
  <2>2. CASE k # r
    <3> DEFINE v == k - 1
    <3>1. v \in r..(f - 1) /\ v \in 0..(top - 1) /\ v + 1 = k /\ v \in r..(k - 1) /\ InRaw(D, r, v)
          /\ k \in 0..top /\ k \in Nat /\ v \in Nat
      BY <1>1, <1>2, <2>2
    <3> HIDE DEF v
    <3>2. Lexed[k] = React(Lexed[v], text[k], Preceding(v)) /\ Lexed[v] \in LexState(A)
      BY <3>1, LexStep
    <3>3. Stretch(k, k) = <<>>
      BY <1>1, <3>1, StretchNone
    <3>4. LastClosing(v, k) <=> text[k] = ")"
      BY <3>1 DEF LastClosing
    <3>5. CASE Lexed[v].in = "raw" /\ Lexed[v].delim = D /\ \A u \in r..(v - 1) : text[u + 1] # ")"
      <4>1. CASE text[k] = ")"
        <5>1. Lexed[k] = Closing(Lexed[v])
          BY <3>2, <3>5, <4>1, ReactsInRaw
        <5>2. Lexed[k].in = "raw_close" /\ Lexed[k].delim = D /\ Lexed[k].since = <<>>
          BY <3>2, <3>5, <5>1 DEF Closing, LexState
        <5> QED BY <3>1, <3>3, <3>4, <4>1, <5>2 DEF InRaw
      <4>2. CASE text[k] # ")"
        <5>1. Lexed[k] = Lexed[v]
          BY <3>2, <3>5, <4>2, ReactsInRaw
        <5>2. \A u \in r..(k - 1) : u = v \/ u \in r..(v - 1)
          BY <1>1, <3>1
        <5>3. \A u \in r..(k - 1) : text[u + 1] # ")"
          BY <3>1, <3>5, <4>2, <5>2
        <5> QED BY <3>1, <3>5, <5>1, <5>3 DEF InRaw
      <4> QED BY <4>1, <4>2
    <3>6. ASSUME Lexed[v].in = "raw_close", Lexed[v].delim = D,
                 NEW m \in r..(v - 1), LastClosing(m, v), Lexed[v].since = Stretch(m + 1, v)
          PROVE  k \in T
      <4>1. m \in Nat /\ m + 1 \in 0..top /\ v \in (m + 1)..top /\ v \in (m + 1)..(top - 1) /\ m \in r..(k - 1) /\ m \in r..f
        BY <1>1, <3>1
      <4>2. ~(text[k] = "dq" /\ Lexed[v].since = Lexed[v].delim)
        <5> SUFFICES ASSUME text[k] = "dq", Stretch(m + 1, v) = D PROVE FALSE
          BY <3>6
        <5>1. Len(D) = v - (m + 1) /\ \A u \in 1..(v - (m + 1)) : D[u] = text[m + 1 + u]
          <6>1. Len(Stretch(m + 1, v)) = v - (m + 1) /\ \A u \in 1..(v - (m + 1)) : Stretch(m + 1, v)[u] = text[m + 1 + u]
            <7>1. Reads(Stretch(m + 1, v), A, m + 1, v)
              BY <1>1, <4>1, StretchIs
            <7> QED BY <7>1 DEF Reads
          <6> QED BY <6>1
        <5>2. m + Len(D) + 2 = k /\ m + Len(D) + 2 <= top /\ m + Len(D) + 2 <= f
          BY <1>1, <3>1, <4>1, <5>1
        <5>3. text[m + 1] = ")"
          BY <3>6 DEF LastClosing
        <5>4. \A u \in 1..Len(D) : text[m + 1 + u] = D[u]
          BY <5>1
        <5>5. text[m + Len(D) + 2] = "dq"
          BY <5>2
        <5>6. StartsWith(m, Closer(D))
          BY <1>1, <4>1, <5>2, <5>3, <5>4, <5>5, CloserIs
        <5> QED BY <4>1, <5>2, <5>6
      <4>3. CASE text[k] = ")"
        <5>1. Lexed[k] = Again(Lexed[v])
          BY <3>2, <3>6, <4>3, ReactsInRaw
        <5>2. Lexed[k].in = "raw_close" /\ Lexed[k].delim = D /\ Lexed[k].since = <<>>
          BY <3>2, <3>6, <5>1 DEF Again, LexState
        <5> QED BY <3>1, <3>3, <3>4, <4>3, <5>2 DEF InRaw
      <4>4. CASE text[k] # ")"
        <5>1. Lexed[k] = Since(Lexed[v], text[k])
          BY <3>2, <3>6, <4>2, <4>4, ReactsInRaw
        <5>2. Lexed[k].in = "raw_close" /\ Lexed[k].delim = D /\ Lexed[k].since = Append(Stretch(m + 1, v), text[k])
          BY <3>2, <3>6, <5>1 DEF Since, LexState
        <5>3. Append(Stretch(m + 1, v), text[k]) = Stretch(m + 1, k)
          BY <1>1, <3>1, <4>1, StretchGrows
        <5>4. LastClosing(m, k)
          <6>1. \A u \in (m + 1)..(k - 1) : u = v \/ u \in (m + 1)..(v - 1)
            BY <3>1, <4>1
          <6> QED BY <3>1, <3>6, <4>4, <6>1 DEF LastClosing
        <5> QED BY <3>1, <4>1, <5>2, <5>3, <5>4 DEF InRaw
      <4> QED BY <4>3, <4>4
    <3> QED BY <3>1, <3>5, <3>6 DEF InRaw
  <2> QED BY <2>1, <2>2
<1> QED
  <2>1. f \in Nat /\ f \in r..f
    BY <1>1
  <2> HIDE DEF T
  <2>2. f \in T
    BY <1>1, <1>2, <2>1, CountUp
  <2> QED BY <2>2 DEF T

\* The literal ends with the first closer, if there is one.
LEMMA RawEnds ==
  ASSUME NEW A, NEW top, Whole(A, top), NEW D \in Seq(A), \A k \in 1..Len(D) : D[k] # ")",
         NEW r \in 0..top, InRaw(D, r, r)
  PROVE  LET e == Past(Closer(D), r)
         IN /\ e \in r..top
            /\ e = top \/ Lexed[e].in = "code"
            /\ \A k \in r..(e - 1) : Lexed[k].in \in {"raw", "raw_close"}
<1> DEFINE e == Past(Closer(D), r)
           n == Len(D)
<1>1. TextIs(A, top) /\ top \in Nat /\ r \in Nat /\ n \in Nat
  BY LexedIs DEF Whole
<1>2. Len(Closer(D)) = n + 2
  BY <1>1, CloserIs
<1> HIDE DEF n
<1>3. \/ e = top /\ \A k \in r..top : ~StartsWith(k, Closer(D))
      \/ \E f \in r..top : /\ e = f + (n + 2) /\ StartsWith(f, Closer(D))
                           /\ \A k \in r..(f - 1) : ~StartsWith(k, Closer(D))
  <2>1. \/ e = top /\ \A k \in r..top : ~StartsWith(k, Closer(D))
        \/ \E f \in r..top : /\ e = f + Len(Closer(D)) /\ StartsWith(f, Closer(D))
                             /\ \A k \in r..(f - 1) : ~StartsWith(k, Closer(D))
    BY <1>1, PastIs
  <2> HIDE DEF e
  <2> QED BY <1>2, <2>1
<1> HIDE DEF e
<1>4. CASE e = top /\ \A k \in r..top : ~StartsWith(k, Closer(D))
  <2>1. ASSUME NEW k \in r..top PROVE InRaw(D, r, k)
    <3>1. \A m \in r..k : m + Len(D) + 2 <= k => ~StartsWith(m, Closer(D))
      BY <1>1, <1>4
    <3> QED BY <3>1, RawLasts
  <2>2. e \in r..top /\ \A k \in r..(e - 1) : k \in r..top
    BY <1>1, <1>4
  <2> QED BY <1>4, <2>1, <2>2 DEF e, InRaw
<1>5. ASSUME NEW f \in r..top, e = f + (n + 2), StartsWith(f, Closer(D)), \A k \in r..(f - 1) : ~StartsWith(k, Closer(D))
      PROVE  /\ e \in r..top /\ Lexed[e].in = "code"
             /\ \A k \in r..(e - 1) : Lexed[k].in \in {"raw", "raw_close"}
  <2> DEFINE v == e - 1
  <2>1. /\ f \in Nat /\ e <= top /\ text[f + 1] = ")" /\ text[e] = "dq"
        /\ \A k \in 1..n : text[f + 1 + k] = D[k]
    <3>1. /\ f + n + 2 <= top /\ text[f + 1] = ")" /\ text[f + n + 2] = "dq"
          /\ \A k \in 1..n : text[f + 1 + k] = D[k]
      <4>1. f \in Nat
        BY <1>1
      <4> QED BY <1>1, <1>5, <4>1, CloserIs DEF n
    <3>2. f + n + 2 = e
      BY <1>1, <1>5
    <3> QED BY <1>1, <3>1, <3>2
  <2>2. /\ v \in 0..(top - 1) /\ v + 1 = e /\ v \in r..top /\ f \in r..(v - 1) /\ v = f + n + 1 /\ v \in Nat
        /\ e \in r..top
    BY <1>1, <1>5, <2>1
  <2> HIDE DEF v
  <2>3. ASSUME NEW k \in r..v PROVE InRaw(D, r, k)
    <3>1. ASSUME NEW m \in r..k, m + Len(D) + 2 <= k PROVE ~StartsWith(m, Closer(D))
      <4>1. m \in r..(f - 1)
        BY <1>1, <2>1, <2>2, <3>1 DEF n
      <4> QED BY <1>5, <4>1
    <3>2. k \in r..top
      BY <1>1, <2>2
    <3> QED BY <3>1, <3>2, RawLasts
  <2>4. InRaw(D, r, v)
    <3>1. v \in r..v
      BY <2>2
    <3> QED BY <2>3, <3>1
  <2>5. PICK m \in r..(v - 1) : LastClosing(m, v) /\ Lexed[v].since = Stretch(m + 1, v) /\ Lexed[v].in = "raw_close" /\ Lexed[v].delim = D
    BY <2>1, <2>2, <2>4 DEF InRaw
  <2>6. m = f
    <3>1. m \in Nat
      BY <1>1
    <3>2. ~(m < f)
      <4> SUFFICES ASSUME m < f PROVE FALSE
        OBVIOUS
      <4>1. f \in (m + 1)..(v - 1)
        BY <2>1, <2>2, <3>1
      <4> QED BY <2>1, <2>5, <4>1 DEF LastClosing
    <3>3. ~(m > f)
      <4> SUFFICES ASSUME m > f PROVE FALSE
        OBVIOUS
      <4>1. m - f \in 1..n /\ f + 1 + (m - f) = m + 1
        BY <1>1, <2>1, <2>2, <3>1
      <4>2. text[m + 1] = D[m - f]
        BY <2>1, <4>1
      <4> QED BY <2>5, <4>1, <4>2 DEF LastClosing, n
    <3> QED BY <2>1, <3>1, <3>2, <3>3
  <2>7. Stretch(f + 1, v) = D
    <3>1. f + 1 \in 0..top /\ v \in (f + 1)..top /\ v - (f + 1) = n
      BY <1>1, <2>1, <2>2
    <3>2. Reads(Stretch(f + 1, v), A, f + 1, v)
      BY <1>1, <3>1, StretchIs
    <3> DEFINE x == Stretch(f + 1, v)
    <3> HIDE DEF x
    <3>3. x \in Seq(A) /\ Len(x) = n /\ \A k \in 1..n : x[k] = text[f + 1 + k]
      BY <3>1, <3>2 DEF Reads, x
    <3>4. \A k \in 1..n : x[k] = D[k]
      BY <2>1, <3>3
    <3>5. x = D
      BY <3>3, <3>4, SeqEqual DEF n
    <3> QED BY <3>5 DEF x
  <2>8. Lexed[e] = React(Lexed[v], "dq", Preceding(v))
    BY <2>1, <2>2, LexStep
  <2>9. Lexed[e] = At("code")
    BY <2>5, <2>6, <2>7, <2>8, ReactsInRaw
  <2>10. \A k \in r..(e - 1) : k \in r..v
    BY DEF v
  <2> QED BY <2>2, <2>3, <2>9, <2>10 DEF At, InRaw
<1> QED BY <1>3, <1>4, <1>5 DEF e

\* The prefix of a raw literal opens it.
LEMMA RawOpens ==
  ASSUME NEW A, NEW top, Whole(A, top), NEW p \in 0..(top - 1), Ready(p), StartsWith(p, <<"R", "dq">>)
  PROVE  /\ p + 1 < top /\ p + 2 \in 0..top /\ text[p + 1] = "R" /\ text[p + 2] = "dq"
         /\ InDelimiter(p + 2, p + 2)
<1>1. p \in Nat /\ p + 1 \in 0..top /\ TextIs(A, top) /\ top = Len(text) /\ top \in Nat
  BY LexStep DEF Whole, TextIs
<1>2. p + 1 < top /\ text[p + 1] = "R" /\ text[p + 2] = "dq"
  BY <1>1, TwoSymbols
<1>3. p + 1 \in 0..(top - 1) /\ p + 2 \in 0..top /\ (p + 1) + 1 = p + 2 /\ Preceding(p + 1) = "R"
  BY <1>1, <1>2 DEF Preceding
<1>4. Lexed[p + 1].in \in {"prefix", "code"}
  <2>1. /\ Lexed[p + 1] = React(Lexed[p], "R", Preceding(p))
        /\ Lexed[p].in \in {"start", "code", "slash", "prefix"}
    BY <1>2, LexStep DEF Ready, InCode
  <2>2. Code("R", Preceding(p)).in \in {"prefix", "code"}
    BY DEF Code, At
  <2>3. Lexed[p + 1] = Code("R", Preceding(p))
    BY <2>1, Reacts DEF Blanks
  <2> QED BY <2>2, <2>3
<1>5. Lexed[p + 2] = At("raw_open")
  <2>1. Lexed[p + 2] = React(Lexed[p + 1], "dq", "R") /\ Lexed[p + 2].in # "beyond"
    BY <1>2, <1>3, LexStep
  <2>2. Code("dq", "R").in = "beyond"
    BY DEF Code, At
  <2> QED BY <1>4, <2>1, <2>2, Reacts
<1>6. Stretch(p + 2, p + 2) = <<>>
  BY <1>1, <1>3, StretchNone
<1>7. (p + 2) - (p + 2) <= MaxDelimiter /\ \A v \in (p + 2)..((p + 2) - 1) : FALSE
  BY <1>1 DEF MaxDelimiter
<1>8. InDelimiter(p + 2, p + 2)
  BY <1>5, <1>6, <1>7 DEF InDelimiter, At
<1> QED BY <1>2, <1>3, <1>8

\* What skip_raw_string does with a delimiter that is complete.
LEMMA SkipRawIs ==
  ASSUME NEW A, NEW top, TextIs(A, top), NEW p \in Nat, NEW o \in (p + 2)..top, StartsWith(o, <<"(">>),
         \A k \in (p + 2)..(o - 1) : ~StartsWith(k, <<"(">>), o - (p + 2) <= MaxDelimiter
  PROVE  SkipRaw(p) = Past(Closer(Stretch(p + 2, o)), o + 1)
<1> DEFINE S == Places(<<"(">>, p + 2)
<1>1. top = Len(text) /\ top \in Nat
  BY DEF TextIs
<1>2. \A k : k \in S <=> k \in (p + 2)..top /\ StartsWith(k, <<"(">>)
  BY <1>1 DEF Places
<1>3. SkipRaw(p) = IF S = {} \/ Min(S) - (p + 2) > MaxDelimiter THEN p + 2
                   ELSE Past(<<")">> \o SubSeq(text, p + 3, Min(S)) \o <<"dq">>, Min(S) + 1)
  BY DEF SkipRaw
<1> HIDE DEF S
<1>4. S \in SUBSET Nat /\ o \in S
  BY <1>1, <1>2
<1>5. Min(S) \in S /\ \A k \in S : Min(S) <= k
  BY <1>4, LeastOf
<1>6. Min(S) = o
  BY <1>1, <1>2, <1>4, <1>5
<1>7. SkipRaw(p) = Past(<<")">> \o SubSeq(text, p + 3, o) \o <<"dq">>, o + 1)
  <2>1. ~(o - (p + 2) > MaxDelimiter)
    BY <1>1 DEF MaxDelimiter
  <2> QED BY <1>3, <1>4, <1>6, <2>1
<1>8. (p + 2) + 1 = p + 3
  OBVIOUS
<1> QED BY <1>7, <1>8 DEF Closer, Stretch

\* A jump over a raw literal.
LEMMA RawLands ==
  ASSUME NEW A, NEW top, Whole(A, top), NEW p \in 0..(top - 1), Ready(p), StartsWith(p, <<"R", "dq">>)
  PROVE  Lands(p, SkipRaw(p)) /\ Quiet(p)
<1> DEFINE q == p + 2
           S == {k \in q..top : StartsWith(k, <<"(">>)}
<1>1. /\ p \in Nat /\ TextIs(A, top) /\ top = Len(text) /\ top \in Nat
      /\ p + 1 < top /\ q \in 0..top /\ text[p + 1] = "R" /\ text[p + 2] = "dq" /\ InDelimiter(q, q)
  BY LexStep, RawOpens DEF Whole, TextIs
<1>2. \A k \in Nat : StartsWith(k, <<"(">>) <=> k < top /\ text[k + 1] = "("
  BY <1>1, OneSymbol
<1>3. ASSUME NEW f \in q..top, \A k \in q..(f - 1) : ~StartsWith(k, <<"(">>) PROVE InDelimiter(q, f)
  <2>1. \A k \in q..(f - 1) : text[k + 1] # "("
    <3> SUFFICES ASSUME NEW k \in q..(f - 1) PROVE text[k + 1] # "("
      OBVIOUS
    <3>1. k \in Nat /\ k < top
      BY <1>1
    <3>2. ~StartsWith(k, <<"(">>)
      BY <1>3
    <3> QED BY <1>2, <3>1, <3>2
  <2> HIDE DEF q
  <2> QED BY <1>1, <2>1, DelimiterLasts
<1>4. S # {}
  <2> SUFFICES ASSUME S = {} PROVE FALSE
    OBVIOUS
  <2>1. InDelimiter(q, top)
    BY <1>1, <1>3
  <2> QED BY <1>1, <2>1 DEF InDelimiter, Whole, Complete, InCode
<1>5. PICK o \in q..top : StartsWith(o, <<"(">>) /\ \A k \in q..(o - 1) : ~StartsWith(k, <<"(">>)
  <2>1. S \in SUBSET Nat
    BY <1>1
  <2>2. PICK o \in S : \A k \in S : o <= k
    <3> HIDE DEF S
    <3> QED BY <1>4, <2>1, Least
  <2> QED BY <1>1, <2>2
<1> HIDE DEF S, q
<1>6. o \in 0..(top - 1) /\ text[o + 1] = "(" /\ o \in Nat /\ o + 1 \in 0..top
  BY <1>1, <1>2, <1>5
<1>7. ASSUME NEW k \in q..o PROVE InDelimiter(q, k)
  <2>1. k \in q..top /\ \A v \in q..(k - 1) : v \in q..(o - 1)
    BY <1>1, <1>6
  <2> QED BY <1>3, <1>5, <2>1
<1> DEFINE D == Stretch(q, o)
<1>8. Reads(D, A, q, o)
  BY <1>1, <1>5, StretchIs
<1>9. InDelimiter(q, o)
  <2>1. o \in q..o
    BY <1>1, <1>5, <1>6
  <2> QED BY <1>7, <2>1
<1>10. D \in Seq(A) /\ \A k \in 1..Len(D) : D[k] # ")"
  <2> HIDE DEF D
  <2>1. D \in Seq(A) /\ Len(D) = o - q /\ \A k \in 1..(o - q) : D[k] = text[q + k]
    BY <1>8 DEF Reads
  <2>2. ASSUME NEW k \in 1..(o - q) PROVE D[k] # ")"
    <3>1. (q + k) - 1 \in q..(o - 1) /\ ((q + k) - 1) + 1 = q + k
      BY <1>1, <1>6
    <3>2. text[q + k] \notin NotInDelimiter
      BY <1>9, <3>1 DEF InDelimiter
    <3> QED BY <2>1, <3>2 DEF NotInDelimiter
  <2> QED BY <2>1, <2>2
<1>11. InRaw(D, o + 1, o + 1)
  <2>1. Lexed[o + 1] = Opened(Lexed[o])
    <3>1. Lexed[o + 1] = React(Lexed[o], "(", Preceding(o)) /\ Lexed[o].in = "raw_open"
      BY <1>6, <1>9, LexStep DEF InDelimiter
    <3> QED BY <3>1, ReactsInRaw
  <2>2. Lexed[o + 1].in = "raw" /\ Lexed[o + 1].delim = D
    <3>1. Lexed[o] \in LexState(A)
      BY <1>6, LexStep
    <3> QED BY <1>9, <2>1, <3>1 DEF Opened, LexState, InDelimiter
  <2>3. \A v \in (o + 1)..((o + 1) - 1) : FALSE
    BY <1>6
  <2> QED BY <2>2, <2>3 DEF InRaw
<1> DEFINE e == Past(Closer(D), o + 1)
<1>12. e \in (o + 1)..top /\ (e = top \/ Lexed[e].in = "code")
       /\ \A k \in (o + 1)..(e - 1) : Lexed[k].in \in {"raw", "raw_close"}
  <2> HIDE DEF D
  <2> QED BY <1>6, <1>10, <1>11, RawEnds
<1>13. SkipRaw(p) = e
  <2>1. o - (p + 2) <= MaxDelimiter /\ o \in (p + 2)..top /\ \A k \in (p + 2)..(o - 1) : ~StartsWith(k, <<"(">>)
    BY <1>5, <1>9 DEF InDelimiter, q
  <2> QED BY <1>1, <1>5, <2>1, SkipRawIs DEF q
<1> HIDE DEF e, D
<1>14. \A k \in (p + 1)..(e - 1) : Quiet(k)
  <2> SUFFICES ASSUME NEW k \in (p + 1)..(e - 1) PROVE Quiet(k)
    OBVIOUS
  <2>1. k \in Nat /\ (k = p + 1 \/ k \in q..o \/ k \in (o + 1)..(e - 1))
    BY <1>1, <1>6, <1>12 DEF q
  <2>2. CASE k = p + 1
    <3>1. text[k + 1] = "dq"
      BY <1>1, <2>2
    <3> QED BY <3>1 DEF Quiet, Tokens
  <2>3. CASE k \in q..o
    BY <1>7, <2>3 DEF Quiet, InCode, InDelimiter
  <2>4. CASE k \in (o + 1)..(e - 1)
    BY <1>12, <2>4 DEF Quiet, InCode
  <2> QED BY <2>1, <2>2, <2>3, <2>4
<1>15. e \in (p + 1)..Len(text) /\ (e = Len(text) \/ Ready(e))
  <2>1. e \in (p + 1)..top
    BY <1>1, <1>5, <1>6, <1>12 DEF q
  <2> QED BY <1>1, <1>12, <2>1 DEF Ready, InCode
<1>16. Lands(p, e)
  BY <1>14, <1>15 DEF Lands
<1> QED BY <1>1, <1>13, <1>16 DEF Quiet, Tokens

-----------------------------------------------------------------------------
(* Casts and tokens *)

\* What a cast may hold.
CastSymbols == TypeWords \cup Blanks \cup {"nl", "*", "&"}

\* It is code, and goes on as code.
LEMMA CastGoesOn ==
  ASSUME NEW A, NEW top, Whole(A, top), NEW k \in 0..(top - 1), Lexed[k].in \in {"start", "code"},
         text[k + 1] \in CastSymbols \cup {"(", ")"}
  PROVE  /\ Lexed[k + 1].in \in {"start", "code"}
         /\ text[k + 1] \in {"(", ")"} => Lexed[k + 1].in = "code"
<1> DEFINE c == text[k + 1]
<1>1. Lexed[k + 1] = React(Lexed[k], c, Preceding(k))
  BY LexStep
<1>2. c \notin {"#", "/", "dq", "sq", "bs", "R"} /\ (c \in {"(", ")"} => c \notin Blanks \cup {"nl"})
  BY DEF CastSymbols, TypeWords, Qualifiers, Blanks
<1> HIDE DEF c
<1>3. Code(c, Preceding(k)).in \in {"start", "code"} /\ (c # "nl" => Code(c, Preceding(k)).in = "code")
  BY <1>2 DEF Code, At
<1>4. (Lexed[k + 1] = Lexed[k] /\ Lexed[k].in = "start" /\ c \in Blanks) \/ Lexed[k + 1] = Code(c, Preceding(k))
  BY <1>1, <1>2, Reacts
<1> QED BY <1>2, <1>3, <1>4 DEF c

\* A cast that is found is in code to its end, and alone there.
LEMMA CastIs ==
  ASSUME NEW A, NEW top, Whole(A, top), NEW p \in 0..(top - 1), Ready(p), NEW end \in CastEnds(p)
  PROVE  Lands(p, end) /\ BeginAt(p) = {Cast(p, end)} /\ text[p + 1] = "("
<1>1. p \in Nat /\ p + 1 \in 0..top /\ p + 1 \in Nat /\ TextIs(A, top) /\ top = Len(text) /\ top \in Nat
  BY LexStep DEF Whole, TextIs
<1>2. /\ end = Past(<<")">>, p + 1) /\ StartsWith(p, <<"(">>) /\ Places(<<")">>, p + 1) # {}
      /\ CastType(SubSeq(text, p + 2, end - 1))
  BY DEF CastEnds
<1>3. text[p + 1] = "("
  BY <1>1, <1>2, OneSymbol
<1>4. PICK f \in (p + 1)..top : end = f + 1 /\ StartsWith(f, <<")">>)
  <2>1. \/ end = top /\ \A k \in (p + 1)..top : ~StartsWith(k, <<")">>)
        \/ \E f \in (p + 1)..top : /\ end = f + Len(<<")">>) /\ StartsWith(f, <<")">>)
                                   /\ \A k \in (p + 1)..(f - 1) : ~StartsWith(k, <<")">>)
    BY <1>1, <1>2, PastIs
  <2>2. Len(<<")">>) = 1
    OBVIOUS
  <2>3. ~ \A k \in (p + 1)..top : ~StartsWith(k, <<")">>)
    BY <1>1, <1>2 DEF Places
  <2> QED BY <2>1, <2>2, <2>3
<1>5. f \in 0..(top - 1) /\ text[f + 1] = ")" /\ f \in Nat /\ f \in 0..top
  <2>1. f \in Nat
    BY <1>1
  <2>2. f < top /\ text[f + 1] = ")"
    BY <1>1, <1>4, <2>1, OneSymbol
  <2> QED BY <1>1, <2>1, <2>2
<1>6. ASSUME NEW k \in (p + 1)..(f - 1) PROVE text[k + 1] \in CastSymbols
  <2> DEFINE x == Stretch(p + 1, f)
  <2>1. SubSeq(text, p + 2, end - 1) = x
    <3>1. end - 1 = f /\ (p + 1) + 1 = p + 2
      BY <1>4, <1>5
    <3> QED BY <3>1 DEF Stretch
  <2>2. CastType(x)
    BY <1>2, <2>1
  <2>3. Reads(x, A, p + 1, f)
    BY <1>1, <1>5, StretchIs
  <2> HIDE DEF x
  <2>4. \A v \in 1..(f - (p + 1)) : v \in DOMAIN x /\ x[v] = text[(p + 1) + v]
    BY <1>1, <1>5, <2>3 DEF Reads
  <2> DEFINE v == k - p
  <2>5. v \in 1..(f - (p + 1)) /\ (p + 1) + v = k + 1
    BY <1>1, <1>5
  <2> HIDE DEF v
  <2>6. v \in DOMAIN x /\ x[v] = text[k + 1]
    BY <2>4, <2>5
  <2> QED BY <2>2, <2>6 DEF CastType, CastSymbols
<1>7. Lexed[p + 1].in = "code"
  <2>1. /\ Lexed[p + 1] = React(Lexed[p], "(", Preceding(p))
        /\ Lexed[p].in \in {"start", "code", "slash", "prefix"}
    BY <1>3, LexStep DEF Ready, InCode
  <2>2. Code("(", Preceding(p)).in = "code"
    BY DEF Code, At
  <2> QED BY <2>1, <2>2, Reacts DEF Blanks
<1> DEFINE T == {k \in (p + 1)..f : Lexed[k].in \in {"start", "code"}}
<1>8. ASSUME NEW k \in (p + 1)..f, k = p + 1 \/ k - 1 \in T PROVE k \in T
  <2>1. CASE k # p + 1
    <3> DEFINE v == k - 1
    <3>1. v \in (p + 1)..(f - 1) /\ v \in 0..(top - 1) /\ v + 1 = k /\ Lexed[v].in \in {"start", "code"}
      BY <1>1, <1>5, <1>8, <2>1
    <3> HIDE DEF v
    <3>2. text[v + 1] \in CastSymbols \cup {"(", ")"}
      BY <1>6, <3>1
    <3>3. Lexed[v + 1].in \in {"start", "code"}
      BY <3>1, <3>2, CastGoesOn
    <3> QED BY <3>1, <3>3
  <2> QED BY <1>7, <2>1
<1>9. \A k \in (p + 1)..f : Lexed[k].in \in {"start", "code"}
  <2> HIDE DEF T
  <2>1. \A k \in (p + 1)..f : k \in T
    BY <1>1, <1>5, <1>8, CountUp
  <2> QED BY <2>1 DEF T
<1>10. Lexed[end].in = "code"
  <2>1. f \in (p + 1)..f
    BY <1>1, <1>5
  <2>2. Lexed[f].in \in {"start", "code"} /\ text[f + 1] \in CastSymbols \cup {"(", ")"}
    BY <1>5, <1>9, <2>1
  <2> QED BY <1>4, <1>5, <2>2, CastGoesOn
<1>11. \A k \in (p + 1)..(end - 1) : Quiet(k)
  <2> SUFFICES ASSUME NEW k \in (p + 1)..(end - 1) PROVE Quiet(k)
    OBVIOUS
  <2>1. CASE k = f
    BY <1>5, <2>1 DEF Quiet, Tokens
  <2>2. CASE k # f
    <3>1. k \in (p + 1)..(f - 1)
      BY <1>1, <1>4, <1>5, <2>2
    <3> QED BY <1>6, <3>1 DEF Quiet, Tokens, CastSymbols, TypeWords, Qualifiers, Blanks
  <2> QED BY <2>1, <2>2
<1>12. end \in (p + 1)..Len(text) /\ Ready(end)
  <2>1. end \in (p + 1)..top
    BY <1>1, <1>4, <1>5
  <2> QED BY <1>1, <1>10, <2>1 DEF Ready, InCode
<1>13. BeginAt(p) = {Cast(p, end)}
  <2>1. CastEnds(p) = {end}
    BY <1>2 DEF CastEnds
  <2>2. ~IsToken(p)
    BY <1>3 DEF IsToken, Tokens
  <2>3. InCode(Lexed[p])
    BY DEF Ready
  <2> QED BY <2>1, <2>2, <2>3 DEF BeginAt
<1> QED BY <1>3, <1>11, <1>12, <1>13 DEF Lands

\* So is a token.
LEMMA TokenIs ==
  ASSUME NEW A, NEW top, Whole(A, top), NEW p \in 0..(top - 1), Ready(p), IsToken(p)
  PROVE  Lands(p, TokenEnd(p)) /\ BeginAt(p) = {Token(p)}
<1>1. p \in Nat /\ p + 1 \in 0..top /\ p + 1 \in Nat /\ TextIs(A, top) /\ top = Len(text) /\ top \in Nat
  BY LexStep DEF Whole, TextIs
<1>2. text[p + 1] \in Tokens
  BY DEF IsToken
<1>3. Lexed[p + 1].in = "code"
  <2> DEFINE c == text[p + 1]
  <2>1. c \notin {"#", "/", "dq", "sq", "bs", "R", "nl", "sp", "tab", "*"}
    BY <1>2 DEF Tokens
  <2>2. /\ Lexed[p + 1] = React(Lexed[p], c, Preceding(p))
        /\ Lexed[p].in \in {"start", "code", "slash", "prefix"}
    BY LexStep DEF Ready, InCode
  <2> HIDE DEF c
  <2>3. Code(c, Preceding(p)).in = "code"
    BY <2>1 DEF Code, At
  <2> QED BY <2>1, <2>2, <2>3, Reacts DEF Blanks
<1>4. ASSUME TokenEnd(p) = p + 1 PROVE Lands(p, TokenEnd(p))
  <2>1. Ready(p + 1)
    BY <1>3 DEF Ready, InCode
  <2>2. p + 1 \in (p + 1)..Len(text) /\ \A k \in (p + 1)..((p + 1) - 1) : FALSE
    BY <1>1
  <2> QED BY <1>4, <2>1, <2>2 DEF Lands
<1>5. ASSUME TokenEnd(p) # p + 1 PROVE Lands(p, TokenEnd(p))
  <2>1. TokenEnd(p) = p + 2 /\ p + 1 < top /\ text[p + 2] \in Blanks
    BY <1>1, <1>5 DEF TokenEnd
  <2>2. p + 1 \in 0..(top - 1) /\ (p + 1) + 1 = p + 2
    BY <1>1, <2>1
  <2>3. Lexed[p + 2].in = "code"
    <3>1. Lexed[p + 2] = React(Lexed[p + 1], text[p + 2], Preceding(p + 1))
      BY <2>2, LexStep
    <3>2. Code(text[p + 2], Preceding(p + 1)).in = "code"
      BY <2>1 DEF Code, At, Blanks
    <3> QED BY <1>3, <3>1, <3>2, Reacts
  <2>4. Ready(p + 2)
    BY <2>3 DEF Ready, InCode
  <2>5. Quiet(p + 1)
    BY <2>1, <2>2 DEF Quiet, Tokens, Blanks
  <2>6. p + 2 \in (p + 1)..Len(text) /\ \A k \in (p + 1)..((p + 2) - 1) : k = p + 1
    BY <1>1, <2>1
  <2> QED BY <2>1, <2>4, <2>5, <2>6 DEF Lands
<1>6. BeginAt(p) = {Token(p)}
  <2>1. text[p + 1] # "("
    BY <1>2 DEF Tokens
  <2>2. CastEnds(p) = {}
    BY <1>1, <2>1, OneSymbol DEF CastEnds
  <2>3. InCode(Lexed[p])
    BY DEF Ready
  <2> QED BY <2>2, <2>3 DEF BeginAt
<1> QED BY <1>4, <1>5, <1>6

\* Where nothing begins the scanner goes on by one symbol.
LEMMA StepIs ==
  ASSUME NEW A, NEW top, Whole(A, top), NEW p \in 0..(top - 1), Ready(p), ~Opaque(p),
         CastEnds(p) = {}, ~IsToken(p)
  PROVE  Lands(p, p + 1) /\ BeginAt(p) = {}
<1>1. p \in Nat /\ TextIs(A, top) /\ top = Len(text) /\ top \in Nat
  BY LexStep DEF Whole, TextIs
<1>2. p + 1 = top \/ Ready(p + 1)
  BY PlainIs, CodeGoesOn
<1>3. p + 1 \in (p + 1)..Len(text) /\ \A k \in (p + 1)..((p + 1) - 1) : FALSE
  BY <1>1
<1>4. BeginAt(p) = {}
  BY DEF BeginAt
<1> QED BY <1>1, <1>2, <1>3, <1>4 DEF Lands

-----------------------------------------------------------------------------
(* The scanner finds exactly what is there *)

(* In a complete text the scanner stands in code, or at the end, and has   *)
(* reported all there is before that place.                                *)
Scanned ==
  /\ pos \in 0..Len(text)
  /\ pos = Len(text) \/ Ready(pos)
  /\ facts = FoundUpto(pos)

ScanInv == text \in Seq(ToSet(text)) /\ (Complete => Scanned)

\* A place that the scanner jumps to, with what it reports meanwhile.
LEMMA Arrives ==
  ASSUME NEW A, NEW top, Whole(A, top), NEW p \in 0..(top - 1), NEW e, Lands(p, e)
  PROVE  /\ e \in 0..Len(text) /\ (e = Len(text) \/ Ready(e))
         /\ FoundUpto(e) = FoundUpto(p) \cup BeginAt(p)
         /\ Quiet(p) => BeginAt(p) = {}
<1>1. TextIs(A, top) /\ top = Len(text) /\ top \in Nat /\ p \in Nat
  BY LexStep DEF Whole, TextIs
<1>2. e \in (p + 1)..top /\ (e = top \/ Ready(e)) /\ \A k \in (p + 1)..(e - 1) : Quiet(k)
  BY <1>1 DEF Lands
<1>3. FoundUpto(e) = FoundUpto(p) \cup BeginAt(p)
  BY <1>1, <1>2, Passed
<1>4. Quiet(p) => BeginAt(p) = {}
  BY <1>1, QuietIs
<1> QED BY <1>1, <1>2, <1>3, <1>4

\* One step of the scanner in a complete text.
LEMMA ScannerMoves ==
  ASSUME text \in Seq(ToSet(text)), Complete, Scanned, Next
  PROVE  /\ pos' \in 0..Len(text) /\ (pos' = Len(text) \/ Ready(pos'))
         /\ facts' = FoundUpto(pos')
<1> DEFINE A == ToSet(text)
           top == Len(text)
<1>1. Whole(A, top) /\ TextIs(A, top) /\ top \in Nat /\ top = Len(text)
  BY DEF Whole, TextIs
<1> HIDE DEF A, top
<1>2. pos \in 0..top /\ (pos = top \/ Ready(pos)) /\ facts = FoundUpto(pos) /\ pos \in Nat
  BY <1>1 DEF Scanned
<1>3. ASSUME NEW word, NEW c, StartsWith(pos, word), word = <<c>> \/ \E d : word = <<c, d>> PROVE pos # top
  <2>1. CASE word = <<c>>
    BY <1>1, <1>2, <1>3, <2>1, OneSymbol
  <2>2. CASE \E d : word = <<c, d>>
    BY <1>1, <1>2, <1>3, <2>2, TwoSymbols
  <2> QED BY <1>3, <2>1, <2>2
<1>4. ASSUME pos # top PROVE pos \in 0..(top - 1) /\ Ready(pos)
  BY <1>1, <1>2, <1>4
<1>5. ASSUME NEW e, pos \in 0..(top - 1), Lands(pos, e), Quiet(pos), Jump(e)
      PROVE  pos' \in 0..Len(text) /\ (pos' = Len(text) \/ Ready(pos')) /\ facts' = FoundUpto(pos')
  <2>1. /\ e \in 0..Len(text) /\ (e = Len(text) \/ Ready(e))
        /\ FoundUpto(e) = FoundUpto(pos)
    BY <1>1, <1>5, Arrives
  <2> QED BY <1>2, <1>5, <2>1 DEF Jump
<1>6. CASE SkipDirective
  <2>1. pos \in 0..(top - 1) /\ Ready(pos)
    BY <1>3, <1>4, <1>6 DEF SkipDirective, DirectiveStart
  <2>2. Lands(pos, Past(<<"nl">>, pos + 1)) /\ Quiet(pos)
    BY <1>1, <1>6, <2>1, DirectiveLands DEF SkipDirective
  <2> QED BY <1>5, <1>6, <2>1, <2>2 DEF SkipDirective
<1>7. CASE SkipLineComment
  <2>1. pos \in 0..(top - 1) /\ Ready(pos)
    BY <1>3, <1>4, <1>7 DEF SkipLineComment
  <2>2. Lands(pos, Past(<<"nl">>, pos + 2)) /\ Quiet(pos)
    BY <1>1, <1>7, <2>1, LineCommentLands DEF SkipLineComment
  <2> QED BY <1>5, <1>7, <2>1, <2>2 DEF SkipLineComment
<1>8. CASE SkipBlockComment
  <2>1. pos \in 0..(top - 1) /\ Ready(pos)
    BY <1>3, <1>4, <1>8 DEF SkipBlockComment
  <2>2. Lands(pos, Past(<<"*", "/">>, pos + 2)) /\ Quiet(pos)
    BY <1>1, <1>8, <2>1, BlockCommentLands DEF SkipBlockComment
  <2> QED BY <1>5, <1>8, <2>1, <2>2 DEF SkipBlockComment
<1>9. CASE SkipRawString
  <2>1. pos \in 0..(top - 1) /\ Ready(pos)
    BY <1>3, <1>4, <1>9 DEF SkipRawString
  <2>2. Lands(pos, SkipRaw(pos)) /\ Quiet(pos)
    BY <1>1, <1>9, <2>1, RawLands DEF SkipRawString
  <2> QED BY <1>5, <1>9, <2>1, <2>2 DEF SkipRawString
<1>10. CASE SkipLiteral
  <2>1. PICK quote \in {"dq", "sq"} : StartsWith(pos, <<quote>>) /\ Jump(SkipQuoted(pos, quote))
    BY <1>10 DEF SkipLiteral
  <2>2. pos \in 0..(top - 1) /\ Ready(pos)
    BY <1>3, <1>4, <2>1
  <2>3. Lands(pos, SkipQuoted(pos, quote)) /\ Quiet(pos)
    BY <1>1, <2>1, <2>2, LiteralLands
  <2> QED BY <1>5, <2>1, <2>2, <2>3
<1>11. CASE ReportCast
  <2>1. pos < Len(text) /\ ~Opaque(pos) /\ \E end \in CastEnds(pos) : Report(end)
    BY <1>11 DEF ReportCast
  <2>2. PICK end \in CastEnds(pos) : Report(end)
    BY <2>1
  <2>3. pos \in 0..(top - 1) /\ Ready(pos)
    BY <1>1, <1>2, <1>4, <2>1
  <2>4. Lands(pos, end) /\ BeginAt(pos) = {Cast(pos, end)} /\ text[pos + 1] = "("
    BY <1>1, <2>3, CastIs
  <2>5. /\ end \in 0..Len(text) /\ (end = Len(text) \/ Ready(end))
        /\ FoundUpto(end) = FoundUpto(pos) \cup BeginAt(pos)
    BY <1>1, <2>3, <2>4, Arrives
  <2>6. pos' = end /\ facts' = facts \cup {Cast(pos, end)}
    BY <2>2, <2>4 DEF Report, Cast
  <2> QED BY <1>2, <2>4, <2>5, <2>6
<1>12. CASE ReportToken
  <2>1. pos < Len(text) /\ IsToken(pos) /\ Report(TokenEnd(pos))
    BY <1>12 DEF ReportToken
  <2>2. pos \in 0..(top - 1) /\ Ready(pos)
    BY <1>1, <1>2, <1>4, <2>1
  <2> DEFINE end == TokenEnd(pos)
  <2>3. Lands(pos, end) /\ BeginAt(pos) = {Token(pos)}
    BY <1>1, <2>1, <2>2, TokenIs
  <2>4. pos' = end /\ facts' = facts \cup {Token(pos)}
    BY <2>1 DEF Report, Token
  <2> HIDE DEF end
  <2>5. /\ end \in 0..Len(text) /\ (end = Len(text) \/ Ready(end))
        /\ FoundUpto(end) = FoundUpto(pos) \cup BeginAt(pos)
    BY <1>1, <2>2, <2>3, Arrives
  <2> QED BY <1>2, <2>3, <2>4, <2>5
<1>13. CASE Step
  <2>1. pos < Len(text) /\ ~Opaque(pos) /\ CastEnds(pos) = {} /\ ~IsToken(pos) /\ pos' = pos + 1 /\ facts' = facts
    BY <1>13 DEF Step
  <2>2. pos \in 0..(top - 1) /\ Ready(pos)
    BY <1>1, <1>2, <1>4, <2>1
  <2>3. Lands(pos, pos + 1) /\ BeginAt(pos) = {}
    BY <1>1, <2>1, <2>2, StepIs
  <2>4. /\ pos + 1 \in 0..Len(text) /\ (pos + 1 = Len(text) \/ Ready(pos + 1))
        /\ FoundUpto(pos + 1) = FoundUpto(pos) \cup BeginAt(pos)
    BY <1>1, <2>2, <2>3, Arrives
  <2> QED BY <1>2, <2>1, <2>3, <2>4
<1> QED BY <1>6, <1>7, <1>8, <1>9, <1>10, <1>11, <1>12, <1>13 DEF Next

\* Whatever either adapter does, the scanner has reported what it passed.
LEMMA ScanStep == ScanInv /\ [AdapterNext]_bothVars => ScanInv'
<1> SUFFICES ASSUME ScanInv, [AdapterNext]_bothVars PROVE ScanInv'
  OBVIOUS
<1>1. text' = text
  BY DEF AdapterNext, Textual, Clang, Saved, bothVars, vars, Next, SkipDirective, SkipLineComment, SkipBlockComment,
         SkipRawString, SkipLiteral, ReportCast, ReportToken, Step, Jump, Report
<1>2. Lexed' = Lexed
  BY <1>1 DEF Lexed
<1>3. Opportunities' = Opportunities
  BY <1>1 DEF Opportunities, Lexed, CastEnds, StartsWith, Places, Past, IsToken, TokenEnd, Bounded
<1>4. ASSUME Complete
      PROVE  /\ pos' \in 0..Len(text) /\ (pos' = Len(text) \/ Ready(pos'))
             /\ facts' = FoundUpto(pos')
  <2>1. CASE Next
    BY <1>4, <2>1, ScannerMoves DEF ScanInv
  <2>2. CASE UNCHANGED <<pos, facts>>
    BY <1>4, <2>2 DEF ScanInv, Scanned
  <2> QED BY <2>1, <2>2 DEF AdapterNext, Textual, Clang, Saved, bothVars, vars
<1>5. Complete' <=> Complete
  BY <1>1, <1>2 DEF Complete
<1>6. Ready(pos)' <=> Ready(pos')
  BY <1>1, <1>2 DEF Ready
<1>7. FoundUpto(pos)' = FoundUpto(pos')
  BY <1>3 DEF FoundUpto
<1> QED BY <1>1, <1>4, <1>5, <1>6, <1>7 DEF ScanInv, Scanned

(* "It skips comments and string/character literals, emits modernisation   *)
(* opportunity facts" (README.md): whatever the text, if the lexer of C++  *)
(* gets through it, the scanner reports each construct in code and nothing *)
(* else.                                                                   *)
THEOREM ScannerIsExact == AdapterSpec => []FindsExactly
<1>1. AdapterInit => ScanInv
  <2> SUFFICES ASSUME AdapterInit PROVE ScanInv
    OBVIOUS
  <2>1. text \in Seq(ToSet(text)) /\ pos = 0 /\ facts = {}
    <3>1. CASE text \in Texts /\ pos = 0 /\ facts = {}
      BY <3>1, TextsAssumption
    <3>2. CASE text = <<>> /\ pos = 0 /\ facts = {}
      <4>1. <<>> \in Seq(ToSet(<<>>))
        BY EmptySeq
      <4> QED BY <3>2, <4>1
    <3> QED BY <3>1, <3>2 DEF AdapterInit, Init
  <2>2. Scanned
    <3>1. Len(text) \in Nat
      BY <2>1
    <3>2. Lexed[0] = At("start")
      <4>1. TextIs(ToSet(text), Len(text))
        BY <2>1 DEF TextIs
      <4> QED BY <4>1, LexedIs
    <3>3. Ready(0)
      BY <3>2 DEF Ready, InCode, At
    <3>4. FoundUpto(0) = {}
      <4>1. \A o : o \in FoundUpto(0) <=> \E p \in 0..(0 - 1) : o \in BeginAt(p)
        BY <3>1, FoundUptoIs
      <4>2. \A p \in 0..(0 - 1) : FALSE
        OBVIOUS
      <4> QED BY <4>1, <4>2
    <3> QED BY <2>1, <3>1, <3>3, <3>4 DEF Scanned
  <2> QED BY <2>1, <2>2 DEF ScanInv
<1>2. ScanInv => FindsExactly
  <2> SUFFICES ASSUME ScanInv, pos = Len(text), Complete PROVE facts = Opportunities
    BY DEF FindsExactly, Complete
  <2>1. facts = FoundUpto(Len(text)) /\ Len(text) \in Nat
    BY DEF ScanInv, Scanned
  <2>2. \A o \in Opportunities : o.begin < Len(text)
    <3> SUFFICES ASSUME NEW o \in Opportunities PROVE o.begin < Len(text)
      OBVIOUS
    <3>1. PICK p \in 0..(Len(text) - 1) : o \in BeginAt(p)
      BY OpportunitiesAre
    <3>2. o.begin = p
      BY <3>1 DEF BeginAt, Token, Cast
    <3> QED BY <2>1, <3>1, <3>2
  <2> QED BY <2>1, <2>2 DEF FoundUpto
<1> QED BY <1>1, <1>2, ScanStep, PTL DEF AdapterSpec

-----------------------------------------------------------------------------
(* The rewrite of a whole file *)

\* Every set of numbers below a bound has a greatest member.
LEMMA GreatestOf ==
  ASSUME NEW n \in Nat, NEW S \in SUBSET (0..n), S # {}
  PROVE  Max(S) \in S /\ \A k \in S : k <= Max(S)
<1>1. PICK m \in S : \A k \in S : k <= m
  <2>1. S \in SUBSET Nat /\ \A k \in S : k <= n
    OBVIOUS
  <2> QED BY <2>1, Greatest
<1>2. \E x \in S : \A y \in S : x >= y
  BY <1>1
<1>3. Max(S) = CHOOSE x \in S : \A y \in S : x >= y
  BY DEF Max
<1>4. Max(S) \in S /\ \A y \in S : Max(S) >= y
  BY <1>2, <1>3
<1> QED BY <1>4

\* The shorter of the two texts bounds what they can share.
LEMMA ShorterIs ==
  ASSUME source \in Seq(ToSet(source)), rewritten \in Seq(ToSet(rewritten))
  PROVE  /\ Len(source) \in Nat /\ Len(rewritten) \in Nat /\ Shorter \in Nat
         /\ Shorter <= Len(source) /\ Shorter <= Len(rewritten)
         /\ (Shorter = Len(source) \/ Shorter = Len(rewritten))
<1>1. Len(source) \in Nat /\ Len(rewritten) \in Nat
  OBVIOUS
<1>2. Shorter = CHOOSE x \in {Len(source), Len(rewritten)} : \A y \in {Len(source), Len(rewritten)} : x =< y
  BY DEF Shorter, Min
<1>3. \E x \in {Len(source), Len(rewritten)} : \A y \in {Len(source), Len(rewritten)} : x =< y
  BY <1>1
<1>4. /\ Shorter \in {Len(source), Len(rewritten)}
      /\ \A y \in {Len(source), Len(rewritten)} : Shorter =< y
  BY <1>2, <1>3
<1> QED BY <1>1, <1>4

\* Both texts of the rewrite are texts.
AreTexts == source \in Seq(ToSet(source)) /\ rewritten \in Seq(ToSet(rewritten))

\* They agree on the first n characters, or on the last n.
AgreeFirst(n) == \A k \in 1..n : source[k] = rewritten[k]
AgreeLast(n) == \A k \in 1..n : source[Len(source) - n + k] = rewritten[Len(rewritten) - n + k]

\* What the two loops compare, character by character.
LEMMA SharedIs ==
  ASSUME AreTexts, NEW n \in 0..Shorter
  PROVE  /\ SubSeq(source, 1, n) = SubSeq(rewritten, 1, n) <=> AgreeFirst(n)
         /\ SharedEnd(n) <=> AgreeLast(n)
<1> DEFINE V == ToSet(source) \cup ToSet(rewritten)
           a == Len(source) - n
           b == Len(rewritten) - n
<1>1. source \in Seq(V) /\ rewritten \in Seq(V)
  BY DEF AreTexts
<1>2. /\ Len(source) \in Nat /\ Len(rewritten) \in Nat /\ n \in Nat /\ n <= Len(source) /\ n <= Len(rewritten)
  BY ShorterIs DEF AreTexts
<1>3. a \in Nat /\ b \in Nat /\ a + n = Len(source) /\ b + n = Len(rewritten)
  BY <1>2
<1> HIDE DEF V
<1>4. SubSeq(source, 1, n) = SubSeq(rewritten, 1, n) <=> AgreeFirst(n)
  <2>1. PartsEqual(source, 0, rewritten, 0, n) <=> MembersEqual(source, 0, rewritten, 0, n)
    BY <1>1, <1>2, SameParts
  <2> QED BY <1>2, <2>1 DEF AgreeFirst, PartsEqual, MembersEqual
<1>5. SharedEnd(n) <=> AgreeLast(n)
  <2>1. PartsEqual(source, a, rewritten, b, n) <=> MembersEqual(source, a, rewritten, b, n)
    <3> HIDE DEF a, b
    <3> QED BY <1>1, <1>2, <1>3, SameParts
  <2>2. PartsEqual(source, a, rewritten, b, n) <=> SharedEnd(n)
    BY <1>3 DEF PartsEqual, SharedEnd, EndOf
  <2> QED BY <2>1, <2>2 DEF AgreeLast, MembersEqual
<1> QED BY <1>4, <1>5

\* The trimmed beginning and end are common to both texts, do not meet, and
\* neither could be longer.
LEMMA TrimmedIs ==
  ASSUME AreTexts
  PROVE  /\ Prefix \in Nat /\ Suffix \in Nat /\ Prefix + Suffix <= Shorter
         /\ AgreeFirst(Prefix) /\ AgreeLast(Suffix)
         /\ \A n \in 0..Shorter : AgreeFirst(n) => n <= Prefix
         /\ \A n \in 0..(Shorter - Prefix) : AgreeLast(n) => n <= Suffix
<1>1. Shorter \in Nat
  BY ShorterIs DEF AreTexts
<1>2. Prefix \in 0..Shorter /\ AgreeFirst(Prefix) /\ \A n \in 0..Shorter : AgreeFirst(n) => n <= Prefix
  <2> DEFINE S == {n \in 0..Shorter : SubSeq(source, 1, n) = SubSeq(rewritten, 1, n)}
  <2>1. S = {n \in 0..Shorter : AgreeFirst(n)}
    BY SharedIs
  <2>2. 0 \in S
    BY <1>1, <2>1 DEF AgreeFirst
  <2>3. Max(S) \in S /\ \A n \in S : n <= Max(S)
    <3> HIDE DEF S
    <3>1. S \in SUBSET (0..Shorter)
      BY <2>1
    <3> QED BY <1>1, <2>2, <3>1, GreatestOf
  <2> QED BY <2>1, <2>3 DEF Prefix
<1>3. Shorter - Prefix \in Nat
  BY <1>1, <1>2
<1>4. Suffix \in 0..(Shorter - Prefix) /\ AgreeLast(Suffix)
      /\ \A n \in 0..(Shorter - Prefix) : AgreeLast(n) => n <= Suffix
  <2> DEFINE S == {n \in 0..(Shorter - Prefix) : SharedEnd(n)}
  <2>1. S = {n \in 0..(Shorter - Prefix) : AgreeLast(n)}
    BY <1>1, <1>2, SharedIs
  <2>2. 0 \in S
    BY <1>3, <2>1 DEF AgreeLast
  <2>3. Max(S) \in S /\ \A n \in S : n <= Max(S)
    <3> HIDE DEF S
    <3>1. S \in SUBSET (0..(Shorter - Prefix))
      BY <2>1
    <3> QED BY <1>3, <2>2, <3>1, GreatestOf
  <2> QED BY <2>1, <2>3 DEF Suffix
<1> QED BY <1>1, <1>2, <1>3, <1>4

\* The edit of a rewrite makes the text that the transpiler wrote.
LEMMA RewriteMakes ==
  ASSUME AreTexts
  PROVE  Spliced(source, RewriteEdit) = rewritten
<1> DEFINE V == ToSet(source) \cup ToSet(rewritten)
           q == Len(rewritten) - Suffix
<1>1. source \in Seq(V) /\ rewritten \in Seq(V)
  BY DEF AreTexts
<1>2. /\ Prefix \in Nat /\ Suffix \in Nat /\ Len(source) \in Nat /\ Len(rewritten) \in Nat
      /\ Prefix + Suffix <= Len(source) /\ Prefix + Suffix <= Len(rewritten) /\ Shorter \in Nat
      /\ Prefix \in 0..Shorter /\ Suffix \in 0..Shorter
  BY TrimmedIs, ShorterIs DEF AreTexts
<1>3. SubSeq(source, 1, Prefix) = SubSeq(rewritten, 1, Prefix)
  BY <1>2, TrimmedIs, SharedIs
<1>4. SubSeq(source, Len(source) - Suffix + 1, Len(source)) = SubSeq(rewritten, q + 1, Len(rewritten))
  BY <1>2, TrimmedIs, SharedIs DEF SharedEnd, EndOf
<1>5. q \in Nat /\ Prefix <= q /\ q <= Len(rewritten)
  BY <1>2
<1>6. /\ RewriteEdit.begin = Prefix /\ RewriteEdit.end = Len(source) - Suffix
      /\ RewriteEdit.replacement = SubSeq(rewritten, Prefix + 1, q)
  BY DEF RewriteEdit
<1>7. SubSeq(rewritten, 1, Prefix) \o SubSeq(rewritten, Prefix + 1, q) \o SubSeq(rewritten, q + 1, Len(rewritten)) = rewritten
  <2> HIDE DEF V, q
  <2> QED BY <1>1, <1>2, <1>5, ThreeParts
<1> QED BY <1>3, <1>4, <1>6, <1>7 DEF Spliced

\* Any other edit that makes it replaces at least as many characters.
LEMMA NoneSmaller ==
  ASSUME AreTexts, NEW b \in 0..Len(source), NEW z \in 0..Len(source), b <= z,
         Len(rewritten) >= b + Len(source) - z,
         SubSeq(source, 1, b) = SubSeq(rewritten, 1, b), SharedEnd(Len(source) - z)
  PROVE  z - b >= RewriteEdit.end - RewriteEdit.begin
<1> DEFINE m == Len(source) - z
           n == m - (Prefix - b)
<1>1. /\ Prefix \in Nat /\ Suffix \in Nat /\ Len(source) \in Nat /\ Len(rewritten) \in Nat /\ Shorter \in Nat
      /\ Prefix <= Shorter /\ (Shorter = Len(source) \/ Shorter = Len(rewritten))
      /\ Shorter <= Len(source) /\ Shorter <= Len(rewritten)
  BY TrimmedIs, ShorterIs DEF AreTexts
<1>2. b \in 0..Shorter /\ m \in 0..Shorter /\ b + m <= Shorter
  BY <1>1
<1>3. b <= Prefix /\ AgreeLast(m)
  BY <1>2, TrimmedIs, SharedIs
<1>4. RewriteEdit.end - RewriteEdit.begin = Len(source) - Suffix - Prefix
  BY DEF RewriteEdit
<1>5. CASE n <= 0
  BY <1>1, <1>3, <1>4, <1>5
<1>6. CASE n > 0
  <2>1. n \in 0..(Shorter - Prefix) /\ n <= m
    BY <1>1, <1>2, <1>3, <1>6
  <2>2. AgreeLast(n)
    <3> SUFFICES ASSUME NEW k \in 1..n
                 PROVE  source[Len(source) - n + k] = rewritten[Len(rewritten) - n + k]
      BY DEF AgreeLast
    <3>1. k + (m - n) \in 1..m
      BY <1>2, <2>1
    <3>2. source[Len(source) - m + (k + (m - n))] = rewritten[Len(rewritten) - m + (k + (m - n))]
      BY <1>3, <3>1 DEF AgreeLast
    <3>3. Len(source) - m + (k + (m - n)) = Len(source) - n + k
          /\ Len(rewritten) - m + (k + (m - n)) = Len(rewritten) - n + k
      BY <1>1, <1>2, <2>1
    <3> QED BY <3>2, <3>3
  <2>3. n <= Suffix
    <3> HIDE DEF n
    <3> QED BY <2>1, <2>2, TrimmedIs
  <2> QED BY <1>1, <1>2, <1>4, <2>3
<1> QED BY <1>1, <1>2, <1>3, <1>5, <1>6

\* There is one edit, the one that is made of the rewrite, or none.
RewriteInv ==
  /\ source = NoText \/ source \in Seq(ToSet(source))
  /\ rewritten \in Seq(ToSet(rewritten))
  /\ edits = {} \/ (AreTexts /\ edits = {RewriteEdit})

\* The rewrite is trimmed once and not touched afterwards.
LEMMA RewriteStep == RewriteInv /\ [PlanNext]_<<diffVars, planVars>> => RewriteInv'
<1> SUFFICES ASSUME RewriteInv, [PlanNext]_<<diffVars, planVars>> PROVE RewriteInv'
  OBVIOUS
<1>1. ASSUME UNCHANGED <<source, rewritten>>
      PROVE  (AreTexts <=> AreTexts') /\ RewriteEdit' = RewriteEdit
  BY <1>1 DEF AreTexts, RewriteEdit, Prefix, Suffix, Shorter, SharedEnd, EndOf
<1>2. ASSUME UNCHANGED <<source, rewritten, edits>> PROVE RewriteInv'
  BY <1>1, <1>2 DEF RewriteInv
<1>3. CASE Proposed
  <2>1. UNCHANGED <<source, rewritten>> /\ edits' = {RewriteEdit} /\ source # NoText
    BY <1>3 DEF Proposed
  <2>2. AreTexts
    BY <2>1 DEF RewriteInv, AreTexts
  <2> QED BY <1>1, <2>1, <2>2 DEF RewriteInv
<1>4. CASE NothingProposed
  BY <1>2, <1>4 DEF NothingProposed
<1>5. CASE FileChanged
  BY <1>2, <1>5 DEF FileChanged
<1>6. CASE NothingToDiff \/ DiffRefused \/ DiffEnds
  BY <1>2, <1>6 DEF NothingToDiff, DiffRefused, DiffEnds
<1>7. CASE DiffBegins \/ Preview
  BY <1>2, <1>7 DEF DiffBegins, Preview
<1>8. CASE UNCHANGED planVars
  BY <1>2, <1>8 DEF planVars
<1> QED BY <1>3, <1>4, <1>5, <1>6, <1>7, <1>8 DEF PlanNext

(* Making the edit that a full-file rewrite is turned into gives the text  *)
(* the transpiler wrote, its range is one of the source, and no edit that  *)
(* does as much replaces fewer characters, for any two texts.              *)
THEOREM RewritesAreTrimmed == PlanSpec => []RewriteIsSmallest
<1>1. PlanInit => RewriteInv
  <2> SUFFICES ASSUME PlanInit PROVE RewriteInv
    OBVIOUS
  <2>1. PICK r \in Rewrites : source \in {r[1], NoText} /\ rewritten = r[2]
    BY DEF PlanInit
  <2>2. r[1] \in Seq(ToSet(r[1])) /\ r[2] \in Seq(ToSet(r[2]))
    BY RewritesAssumption
  <2>3. edits = {}
    BY DEF PlanInit
  <2> QED BY <2>1, <2>2, <2>3 DEF RewriteInv
<1>2. RewriteInv => RewriteIsSmallest
  <2> SUFFICES ASSUME AreTexts
               PROVE  /\ RewriteEdit.begin <= RewriteEdit.end /\ RewriteEdit.end <= Len(source)
                      /\ Spliced(source, RewriteEdit) = rewritten
                      /\ \A b, z \in 0..Len(source) :
                           b <= z /\ z - b < RewriteEdit.end - RewriteEdit.begin
                             /\ Len(rewritten) >= b + Len(source) - z =>
                             SubSeq(source, 1, b) # SubSeq(rewritten, 1, b) \/ ~SharedEnd(Len(source) - z)
    BY DEF RewriteInv, RewriteIsSmallest
  <2>1. RewriteEdit.begin <= RewriteEdit.end /\ RewriteEdit.end <= Len(source)
        /\ RewriteEdit.begin \in Nat /\ RewriteEdit.end \in Nat /\ Len(source) \in Nat
    BY TrimmedIs, ShorterIs DEF AreTexts, RewriteEdit
  <2>2. ASSUME NEW b \in 0..Len(source), NEW z \in 0..Len(source), b <= z,
               z - b < RewriteEdit.end - RewriteEdit.begin, Len(rewritten) >= b + Len(source) - z
        PROVE  SubSeq(source, 1, b) # SubSeq(rewritten, 1, b) \/ ~SharedEnd(Len(source) - z)
    <3> SUFFICES ASSUME SubSeq(source, 1, b) = SubSeq(rewritten, 1, b), SharedEnd(Len(source) - z)
                 PROVE  FALSE
      OBVIOUS
    <3>1. z - b >= RewriteEdit.end - RewriteEdit.begin
      BY <2>2, NoneSmaller
    <3>2. z - b \in Int /\ RewriteEdit.end - RewriteEdit.begin \in Int
      BY <2>1
    <3> QED BY <2>2, <3>1, <3>2
  <2> QED BY <2>1, <2>2, RewriteMakes
<1> QED BY <1>1, <1>2, RewriteStep, PTL DEF PlanSpec

-----------------------------------------------------------------------------
(* What a patch says *)

\* The characters of all texts; a line is a sequence of them.
Char == (UNION {ToSet(r[1]) \cup ToSet(r[2]) : r \in Rewrites}) \cup ToSet(FrontLine)
Line == Seq(Char)

DiffOp == [kind : {"equal", "delete", "insert"}, line : Line, old_line : Nat, new_line : Nat]

\* How far ops q have come in text t: at[k] of its lines are in the first k of
\* them, where those of the other kind are not in t.
Tracks(at, t, q, other, field) ==
  /\ at[0] = 0
  /\ \A k \in 0..Len(q) : at[k] \in 0..Len(t)
  /\ \A k \in 1..Len(q) :
       /\ at[k] = at[k - 1] + (IF q[k].kind # other THEN 1 ELSE 0)
       /\ q[k][field] = at[k - 1] + 1
       /\ q[k].kind # other => q[k].line = t[at[k]]

\* The ops that are lines of one text.
Side(q, other) == Picked(q, {k \in DOMAIN q : q[k].kind # other})

\* One side of a hunk shows the lines of its text from b to e, in order.
SideShows(F, at, t, b, e, field) ==
  /\ Len(F) = at[e] - at[b]
  /\ \A m \in 1..Len(F) : F[m].line = t[at[b] + m] /\ F[m][field] = at[b] + m

\* The places from the one of b on.
Moved(at, b, n) == [k \in 0..n |-> at[b + k]]

\* They are the places from there.
LEMMA MovedIs ==
  ASSUME NEW at, NEW b, NEW n \in Nat
  PROVE  \A k \in 0..n : Moved(at, b, n)[k] = at[b + k]
BY DEF Moved

\* Ops b to e show just the lines that are between their places.
LEMMA SideIs ==
  ASSUME NEW q \in Seq(DiffOp), NEW t, NEW at, NEW other, NEW field,
         Tracks(at, t, q, other, field), NEW b \in 0..Len(q), NEW e \in 0..Len(q), b < e
  PROVE  /\ SideShows(Side(SubSeq(q, b + 1, e), other), at, t, b, e, field)
         /\ Side(SubSeq(q, b + 1, e), other) \in Seq(DiffOp)
<1> DEFINE body == SubSeq(q, b + 1, e)
           wanted == {k \in DOMAIN body : body[k].kind # other}
           near == Moved(at, b, e - b)
           F == Picked(body, wanted)
<1>1. /\ body \in Seq(DiffOp) /\ Len(body) = e - b /\ e - b \in Nat /\ b \in Nat /\ e \in Nat
      /\ \A k \in 1..(e - b) : body[k] = q[b + k] /\ b + k \in 1..Len(q)
      /\ DOMAIN body = 1..(e - b)
  <2>1. Len(q) \in Nat /\ b + 1 \in 1..Len(q) /\ e \in 1..Len(q) /\ b + 1 <= e
    OBVIOUS
  <2>2. body \in Seq(DiffOp) /\ Len(body) = e - (b + 1) + 1
        /\ \A k \in 1..(e - (b + 1) + 1) : body[k] = q[b + 1 + k - 1]
    BY <2>1, SubSeqProperties
  <2> HIDE DEF body
  <2>3. DOMAIN body = 1..Len(body)
    BY <2>2, LenProperties
  <2> QED BY <2>1, <2>2, <2>3
<1> HIDE DEF body
<1>2. \A k \in 0..(e - b) : near[k] = at[b + k] /\ b + k \in 0..Len(q)
  BY <1>1, MovedIs
<1> HIDE DEF near
<1>3. Counts(near, body, wanted)
  <2>1. \A k \in 0..Len(body) : near[k] \in Nat
    BY <1>1, <1>2 DEF Tracks
  <2>2. ASSUME NEW k \in 1..Len(body) PROVE near[k] = near[k - 1] + (IF k \in wanted THEN 1 ELSE 0)
    <3>1. near[k] = at[b + k] /\ near[k - 1] = at[b + k - 1] /\ b + k \in 1..Len(q)
      BY <1>1, <1>2
    <3>2. at[b + k] = at[b + k - 1] + (IF q[b + k].kind # other THEN 1 ELSE 0)
      BY <3>1 DEF Tracks
    <3> QED BY <1>1, <3>1, <3>2
  <2> QED BY <2>1, <2>2 DEF Counts
<1>4. Lined(F, body, wanted, near, Len(body))
  <2> HIDE DEF wanted
  <2> QED BY <1>1, <1>3, PickedInOrder
<1>5. F \in Seq(DiffOp)
  <2> HIDE DEF wanted
  <2> QED BY <1>1, PickedMembers
<1> HIDE DEF F
<1>6. near[0] = at[b] /\ near[e - b] = at[e]
  BY <1>1, <1>2
<1>7. Len(F) = at[e] - at[b]
  BY <1>1, <1>4, <1>6 DEF Lined
<1>8. ASSUME NEW m \in 1..Len(F) PROVE F[m].line = t[at[b] + m] /\ F[m][field] = at[b] + m
  <2>1. PICK k \in 1..Len(body) \cap wanted : near[k] = near[0] + m /\ F[m] = body[k]
    BY <1>4 DEF Lined
  <2>2. k \in 1..(e - b) /\ body[k] = q[b + k] /\ body[k].kind # other /\ b + k \in 1..Len(q)
    BY <1>1
  <2>3. at[b + k] = at[b] + m
    BY <1>2, <1>6, <2>1, <2>2
  <2>4. q[b + k].line = t[at[b + k]] /\ q[b + k][field] = at[b + k - 1] + 1 /\ at[b + k] = at[b + k - 1] + 1
    BY <2>2 DEF Tracks
  <2> QED BY <2>1, <2>2, <2>3, <2>4
<1>9. SideShows(F, at, t, b, e, field)
  BY <1>7, <1>8 DEF SideShows
<1>10. F = Side(SubSeq(q, b + 1, e), other)
  BY DEF F, wanted, body, Side
<1> QED BY <1>5, <1>9, <1>10

\* What unified_range makes of such a side.
LEMMA RangeIs ==
  ASSUME NEW q \in Seq(DiffOp), NEW t, NEW at, NEW other, NEW field, Len(t) \in Nat,
         Tracks(at, t, q, other, field), NEW b \in 0..Len(q), NEW e \in 0..Len(q), b < e
  PROVE  /\ UnifiedRange(Side(SubSeq(q, b + 1, e), other), field, SubSeq(q, b + 1, e)[1]) =
              IF at[e] = at[b] THEN <<at[b], 0>> ELSE <<at[b] + 1, at[e] - at[b]>>
         /\ at[b] <= at[e]
<1> DEFINE F == Side(SubSeq(q, b + 1, e), other)
<1>1. SideShows(F, at, t, b, e, field) /\ F \in Seq(DiffOp)
  BY SideIs
<1>2. SubSeq(q, b + 1, e)[1] = q[b + 1]
  <2>1. Len(q) \in Nat /\ b + 1 \in 1..Len(q) /\ e \in 1..Len(q) /\ b + 1 <= e /\ 1 \in 1..(e - (b + 1) + 1)
    OBVIOUS
  <2>2. SubSeq(q, b + 1, e)[1] = q[b + 1 + 1 - 1]
    BY <2>1, SubSeqProperties
  <2> QED BY <2>2
<1>3. at[b] \in Nat /\ at[e] \in Nat /\ q[b + 1][field] = at[b] + 1
  BY DEF Tracks
<1> HIDE DEF F
<1>4. Len(F) \in Nat /\ (F = <<>> <=> Len(F) = 0) /\ Len(F) = at[e] - at[b]
  BY <1>1, EmptySeq DEF SideShows
<1>5. F # <<>> => F[1][field] = at[b] + 1
  BY <1>1, <1>4 DEF SideShows
<1>6. UnifiedRange(F, field, SubSeq(q, b + 1, e)[1]) =
              IF at[e] = at[b] THEN <<at[b], 0>> ELSE <<at[b] + 1, at[e] - at[b]>>
  <2>1. CASE F = <<>>
    <3>1. at[e] = at[b] /\ at[b] + 1 - 1 = at[b]
      BY <1>3, <1>4, <2>1
    <3>2. UnifiedRange(F, field, SubSeq(q, b + 1, e)[1]) = <<at[b] + 1 - 1, 0>>
      BY <1>2, <1>3, <2>1 DEF UnifiedRange
    <3> QED BY <3>1, <3>2
  <2>2. CASE F # <<>>
    BY <1>2, <1>3, <1>4, <1>5, <2>2 DEF UnifiedRange
  <2> QED BY <2>1, <2>2
<1>7. at[b] <= at[e]
  BY <1>3, <1>4
<1> QED BY <1>6, <1>7 DEF F

\* Where each op stands in its text, with p the place after the last.
PlacesOf(q, p, field) == [k \in 0..Len(q) |-> IF k < Len(q) THEN q[k + 1][field] - 1 ELSE p]

Came(q, p, t, other, field) == Tracks(PlacesOf(q, p, field), t, q, other, field)

\* No op stands nowhere.
LEMMA CameNowhere ==
  ASSUME NEW t, Len(t) \in Nat, NEW other, NEW field
  PROVE  Came(<<>>, 0, t, other, field)
BY DEF Came, Tracks, PlacesOf

\* One more op, of either kind, stands where the walk has come to.
LEMMA CameFurther ==
  ASSUME NEW q \in Seq(DiffOp), NEW o \in DiffOp, NEW p \in Nat, NEW t, Len(t) \in Nat, NEW other, NEW field,
         Came(q, p, t, other, field), o[field] = p + 1,
         NEW n \in 0..Len(t), n = p + (IF o.kind # other THEN 1 ELSE 0),
         o.kind # other => o.line = t[n]
  PROVE  Came(Append(q, o), n, t, other, field)
<1> DEFINE r == Append(q, o)
           a == PlacesOf(q, p, field)
           z == PlacesOf(r, n, field)
<1>1. /\ Len(q) \in Nat /\ Len(r) = Len(q) + 1 /\ r[Len(q) + 1] = o
      /\ \A k \in 1..Len(q) : r[k] = q[k]
  BY AppendProperties
<1>2. Tracks(a, t, q, other, field)
  BY DEF Came
<1> HIDE DEF r
<1>3. \A k \in 0..Len(q) : z[k] = a[k]
  <2> SUFFICES ASSUME NEW k \in 0..Len(q) PROVE z[k] = a[k]
    OBVIOUS
  <2>1. z[k] = r[k + 1][field] - 1
    BY <1>1 DEF PlacesOf
  <2>2. CASE k < Len(q)
    BY <1>1, <2>1, <2>2 DEF PlacesOf
  <2>3. CASE k = Len(q)
    <3>1. a[k] = p
      BY <1>1, <2>3 DEF PlacesOf
    <3>2. r[k + 1] = o
      BY <1>1, <2>3
    <3> QED BY <2>1, <3>1, <3>2
  <2> QED BY <1>1, <2>2, <2>3
<1>4. a[Len(q)] = p /\ z[Len(q) + 1] = n
  BY <1>1 DEF PlacesOf
<1> HIDE DEF a, z
<1>5. z[0] = 0 /\ \A k \in 0..Len(r) : z[k] \in 0..Len(t)
  <2>1. 0 \in 0..Len(q) /\ \A k \in 0..Len(r) : k \in 0..Len(q) \/ k = Len(q) + 1
    BY <1>1
  <2>2. a[0] = 0 /\ \A k \in 0..Len(q) : a[k] \in 0..Len(t)
    BY <1>2 DEF Tracks
  <2> QED BY <1>3, <1>4, <2>1, <2>2
<1>6. ASSUME NEW k \in 1..Len(r)
      PROVE  /\ z[k] = z[k - 1] + (IF r[k].kind # other THEN 1 ELSE 0)
             /\ r[k][field] = z[k - 1] + 1
             /\ r[k].kind # other => r[k].line = t[z[k]]
  <2>1. CASE k \in 1..Len(q)
    <3>1. r[k] = q[k] /\ z[k] = a[k] /\ z[k - 1] = a[k - 1]
      BY <1>1, <1>3, <2>1
    <3> QED BY <1>2, <2>1, <3>1 DEF Tracks
  <2>2. CASE k = Len(q) + 1
    <3>1. r[k] = o /\ z[k] = n /\ z[k - 1] = p
      BY <1>1, <1>3, <1>4, <2>2
    <3> QED BY <3>1
  <2> QED BY <1>1, <2>1, <2>2
<1>7. Tracks(z, t, r, other, field)
  BY <1>5, <1>6 DEF Tracks
<1> QED BY <1>7 DEF z, r, Came

\* A text is split into lines, each of them within it.
LEMMA LinesAre == ASSUME NEW t \in Line PROVE LinesOf(t) \in Seq(Line)
<1> DEFINE N(p) == {n \in p..Len(t) : t[n] = "nl"}
           E(p) == Min({Len(t)} \cup N(p))
           s == [p \in 1..Len(t) |-> SubSeq(t, p, E(p))]
           w == {p \in DOMAIN t : p = 1 \/ t[p - 1] = "nl"}
<1>1. t \in Seq(Char) /\ Len(t) \in Nat
  BY DEF Line
<1>2. ASSUME NEW p \in 1..Len(t) PROVE SubSeq(t, p, E(p)) \in Line
  <2> DEFINE S == {Len(t)} \cup N(p)
  <2>1. S \in SUBSET Nat /\ S # {} /\ S \subseteq p..Len(t)
    BY <1>1
  <2>2. E(p) \in S
    <3>1. \E x \in S : \A y \in S : x <= y
      <4> HIDE DEF S
      <4> QED BY <2>1, Least
    <3>2. E(p) = CHOOSE x \in S : \A y \in S : x =< y
      BY DEF Min
    <3> HIDE DEF S, E
    <3> QED BY <3>1, <3>2
  <2>3. E(p) \in p..Len(t)
    <3> HIDE DEF S, E
    <3> QED BY <2>1, <2>2
  <2> HIDE DEF E
  <2>4. SubSeq(t, p, E(p)) \in Seq(Char)
    <3>1. E(p) \in 1..Len(t) /\ p <= E(p)
      BY <1>1, <2>3
    <3> QED BY <1>1, <3>1, SubSeqProperties
  <2> QED BY <2>4 DEF Line
<1>3. s \in [1..Len(t) -> Line]
  <2> HIDE DEF E
  <2> QED BY <1>2
<1>4. s \in Seq(Line)
  <2> HIDE DEF s
  <2> QED BY <1>1, <1>3
<1>5. LinesOf(t) = Picked(s, w)
  BY DEF LinesOf
<1> HIDE DEF s, w
<1> QED BY <1>4, <1>5, PickedMembers

\* With an edit made that lies within a text, the text is one.
LEMMA SplicedIs ==
  ASSUME NEW t \in Line, NEW e, e.begin \in Nat, e.end \in Nat, e.begin <= e.end, e.end <= Len(t),
         e.replacement \in Line
  PROVE  Spliced(t, e) \in Line
<1>1. t \in Seq(Char) /\ Len(t) \in Nat
  BY DEF Line
<1>2. SubSeq(t, 1, e.begin) \in Seq(Char)
  <2>1. e.begin \in 0..Len(t)
    BY <1>1
  <2> QED BY <1>1, <2>1, SubSeqProperties
<1>3. SubSeq(t, e.end + 1, Len(t)) \in Seq(Char)
  BY <1>1, SubSeqProperties
<1> QED BY <1>2, <1>3, ConcatProperties DEF Spliced, Line

-----------------------------------------------------------------------------
(* The invariant of the walk and of the cut *)

\* The walk has come to line i of old and j of new, and ops says how.
Walked ==
  /\ ops \in Seq(DiffOp) /\ i \in 0..Len(old) /\ j \in 0..Len(new)
  /\ Came(ops, i, old, "insert", "old_line")
  /\ Came(ops, j, new, "delete", "new_line")

\* Ops m to n, counted from 1, change nothing.
Unchanged(m, n) == \A k \in m..n : ops[k].kind = "equal"

\* Where the hunks before the next one end.
EndOfHunk(h) == IF h = 0 THEN 0 ELSE hunks[h].end

(* A hunk ends after the one before, and skips no change.  It shows all    *)
(* there is or something that both texts have, and where it ends before    *)
(* the ops do, nothing changes right there.                                *)
Fitting(b, e, before) ==
  /\ b \in 0..Len(ops) /\ e \in 0..Len(ops) /\ b < e /\ before < e
  /\ Unchanged(before + 1, b)
  /\ (b = 0 /\ e = Len(ops)) \/ \E k \in (b + 1)..e : ops[k].kind = "equal"
  /\ e < Len(ops) => Unchanged(e, e + 1)

AllHunks == {HunkOf(x[1], x[2]) : x \in (0..Len(ops)) \X (0..Len(ops))}

CutSoFar ==
  /\ hunks \in Seq(AllHunks)
  /\ \A h \in 1..Len(hunks) :
       /\ hunks[h] = HunkOf(hunks[h].begin, hunks[h].end)
       /\ Fitting(hunks[h].begin, hunks[h].end, EndOfHunk(h - 1))
  /\ cursor = EndOfHunk(Len(hunks))

DiffInv ==
  \/ phase = "waiting" /\ j = 0 /\ ops = <<>> /\ cursor = 0 /\ hunks = <<>>
  \/ command = "review" /\ phase \in {"table", "walk", "hunks"} /\ hunks = <<>>
  \/ /\ command = "diff" /\ old \in Seq(Line) /\ new \in Seq(Line)
     /\ \/ phase = "table" /\ i \in 0..Len(old) /\ j = 0 /\ ops = <<>> /\ cursor = 0 /\ hunks = <<>>
        \/ phase = "walk" /\ Walked /\ cursor = 0 /\ hunks = <<>>
        \/ phase = "hunks" /\ Walked /\ i = Len(old) /\ j = Len(new) /\ CutSoFar
        \/ phase = "done" /\ Walked /\ i = Len(old) /\ j = Len(new) /\ CutSoFar
             /\ Unchanged(cursor + 1, Len(ops))

\* The texts are texts.
TextsInv ==
  /\ rewritten \in Line
  /\ disk = NoText \/ disk \in Line
  /\ command \in {"transpiler", "plan"} => disk \in Line

\* The last change of a hunk: the next one, if there is one, is too far away.
LEMMA LastIs ==
  ASSUME Len(ops) \in Nat, NEW k \in Changes
  PROVE  /\ LastChange(k) \in Changes /\ LastChange(k) >= k
         /\ \A d \in Changes : LastChange(k) < d => d > LastChange(k) + Context + 1
<1> DEFINE Chained(z) == \A c \in Changes : k <= c /\ c < z => \E d \in Changes : c < d /\ d <= c + Context + 1
           S == {z \in Changes : z >= k /\ Chained(z)}
<1>1. Changes \subseteq Nat /\ \A c \in Changes : c <= Len(ops)
  BY DEF Changes
<1>2. k \in S
  BY <1>1
<1>3. PICK z \in S : \A y \in S : y <= z
  <2>1. S \in SUBSET Nat /\ S # {} /\ \A y \in S : y <= Len(ops)
    BY <1>1, <1>2
  <2> HIDE DEF S
  <2> QED BY <2>1, Greatest
<1>4. \A d \in Changes : z < d => d > z + Context + 1
  <2> SUFFICES ASSUME NEW d \in Changes, z < d, d <= z + Context + 1 PROVE FALSE
    BY <1>1 DEF Context
  <2>1. Chained(d)
    <3> SUFFICES ASSUME NEW c \in Changes, k <= c, c < d
                 PROVE  \E x \in Changes : c < x /\ x <= c + Context + 1
      OBVIOUS
    <3>1. CASE c < z
      BY <1>3, <3>1
    <3>2. CASE c >= z
      <4>1. d <= c + Context + 1
        BY <1>1, <3>2 DEF Context
      <4> QED BY <4>1
    <3> QED BY <1>1, <3>1, <3>2
  <2>2. d >= k
    BY <1>1, <1>3
  <2>3. d \in S
    BY <2>1, <2>2
  <2> QED BY <1>1, <1>3, <2>3
<1>5. \E x \in Changes : /\ x >= k /\ Chained(x)
                         /\ \A d \in Changes : x < d => d > x + Context + 1
  BY <1>3, <1>4
<1>6. LastChange(k) = CHOOSE x \in Changes : /\ x >= k /\ Chained(x)
                         /\ \A d \in Changes : x < d => d > x + Context + 1
  BY DEF LastChange
<1> HIDE DEF Chained
<1> QED BY <1>5, <1>6

\* The next hunk fits behind what was written.
LEMMA NextFits ==
  ASSUME ops \in Seq(DiffOp), cursor \in 0..Len(ops), NEW k \in Changes, First(k),
         0 < cursor /\ cursor < Len(ops) => Unchanged(cursor, cursor + 1)
  PROVE  Fitting(HunkStart(k), HunkEnd(k), cursor)
<1> DEFINE z == LastChange(k)
           b == HunkStart(k)
           e == HunkEnd(k)
<1>1. Len(ops) \in Nat /\ k \in 0..(Len(ops) - 1) /\ k >= cursor
      /\ \A c \in 0..(Len(ops) - 1) : c < k /\ c >= cursor => ops[c + 1].kind = "equal"
  BY DEF First, Changes, IsChange
<1>2. z \in 0..(Len(ops) - 1) /\ z >= k
      /\ \A d \in 0..(Len(ops) - 1) : z < d /\ d <= z + Context + 1 => ops[d + 1].kind = "equal"
  <2>1. z \in Changes /\ z >= k /\ \A d \in Changes : z < d => d > z + Context + 1
    BY <1>1, LastIs
  <2> HIDE DEF z
  <2> QED BY <1>1, <2>1 DEF Changes, IsChange, Context
<1>3. e = IF z + 4 < Len(ops) THEN z + 4 ELSE Len(ops)
  BY <1>1, <1>2 DEF HunkEnd, Context
<1>4. b = IF k > 3 THEN k - 3 ELSE 0
  BY DEF HunkStart, Context
<1> HIDE DEF z, b, e
<1>5. b \in 0..Len(ops) /\ e \in 0..Len(ops) /\ b < e /\ cursor < e /\ b <= k
  BY <1>1, <1>2, <1>3, <1>4
<1>6. Unchanged(cursor + 1, b)
  <2> SUFFICES ASSUME NEW m \in (cursor + 1)..b PROVE ops[m].kind = "equal"
    BY DEF Unchanged
  <2>1. m - 1 \in 0..(Len(ops) - 1) /\ m - 1 < k /\ m - 1 >= cursor /\ m - 1 + 1 = m
    BY <1>1, <1>5
  <2> QED BY <1>1, <2>1
<1>7. e < Len(ops) => Unchanged(e, e + 1)
  <2> SUFFICES ASSUME e < Len(ops), NEW m \in e..(e + 1) PROVE ops[m].kind = "equal"
    BY DEF Unchanged
  <2>1. e = z + 4
    BY <1>1, <1>2, <1>3
  <2>2. m - 1 \in 0..(Len(ops) - 1) /\ z < m - 1 /\ m - 1 <= z + Context + 1 /\ m - 1 + 1 = m
    BY <1>1, <1>2, <1>5, <2>1 DEF Context
  <2> QED BY <1>2, <2>2
<1>8. (b = 0 /\ e = Len(ops)) \/ \E m \in (b + 1)..e : ops[m].kind = "equal"
  <2>1. CASE k = 0 /\ e = Len(ops)
    BY <1>4, <2>1
  <2>2. CASE e # Len(ops)
    <3>1. ops[e].kind = "equal"
      BY <1>1, <1>5, <1>7, <2>2 DEF Unchanged
    <3> QED BY <1>5, <3>1
  <2>3. CASE k # 0
    <3>1. k # cursor
      <4> SUFFICES ASSUME k = cursor PROVE FALSE
        OBVIOUS
      <4>1. ops[k + 1].kind = "equal"
        BY <1>1, <2>3 DEF Unchanged
      <4> QED BY <1>1, <4>1 DEF Changes, IsChange
    <3>2. k - 1 \in 0..(Len(ops) - 1) /\ k - 1 < k /\ k - 1 >= cursor /\ k - 1 + 1 = k
      BY <1>1, <2>3, <3>1
    <3>3. ops[k].kind = "equal"
      BY <1>1, <3>2
    <3>4. k \in (b + 1)..e
      BY <1>1, <1>2, <1>3, <1>4, <2>3
    <3> QED BY <3>3, <3>4
  <2> QED BY <2>1, <2>2, <2>3
<1>9. Fitting(b, e, cursor)
  BY <1>5, <1>6, <1>7, <1>8 DEF Fitting
<1> QED BY <1>9 DEF b, e

-----------------------------------------------------------------------------
(* Every step keeps track of both texts *)

\* What a text is made of.
LEMMA RewriteTyped ==
  ASSUME NEW r \in Rewrites
  PROVE  r[1] \in Line /\ r[2] \in Line
<1> DEFINE C == (UNION {ToSet(x[1]) \cup ToSet(x[2]) : x \in Rewrites}) \cup ToSet(FrontLine)
<1>1. r[1] \in Seq(ToSet(r[1])) /\ r[2] \in Seq(ToSet(r[2]))
  BY RewritesAssumption
<1>2. ToSet(r[1]) \subseteq C /\ ToSet(r[2]) \subseteq C
  OBVIOUS
<1> HIDE DEF C
<1>3. r[1] \in Seq(C) /\ r[2] \in Seq(C)
  BY <1>1, <1>2
<1> QED BY <1>3 DEF C, Line, Char

\* The line that the user may put in front is one.
LEMMA FrontTyped == FrontLine \in Line
<1>1. FrontLine \in Seq(ToSet(FrontLine))
  BY RewritesAssumption
<1> DEFINE R == UNION {ToSet(x[1]) \cup ToSet(x[2]) : x \in Rewrites}
<1>2. Char = R \cup ToSet(FrontLine)
  BY DEF Char
<1> HIDE DEF R
<1>3. ToSet(FrontLine) \subseteq Char
  BY <1>2
<1> QED BY <1>1, <1>3 DEF Line

\* No step but a save touches a text, and a save leaves a text or no file.
LEMMA TextsStep == TextsInv /\ [PlanNext]_<<diffVars, planVars>> => TextsInv'
<1> SUFFICES ASSUME TextsInv, [PlanNext]_<<diffVars, planVars>> PROVE TextsInv'
  OBVIOUS
<1>1. CASE FileChanged
  <2>1. disk \in Line /\ command' = "diff" /\ rewritten' = rewritten
        /\ disk' \in {FrontLine \o disk, SubSeq(disk, 1, Len(disk) - 1), NoText}
    BY <1>1 DEF FileChanged, TextsInv
  <2>2. FrontLine \o disk \in Line
    BY <2>1, FrontTyped, ConcatProperties DEF Line
  <2>3. SubSeq(disk, 1, Len(disk) - 1) \in Line
    <3>1. disk \in Seq(Char) /\ Len(disk) - 1 \in Int
      BY <2>1 DEF Line
    <3> QED BY <3>1, SubSeqProperties DEF Line
  <2> QED BY <2>1, <2>2, <2>3 DEF TextsInv
<1>2. ASSUME UNCHANGED <<rewritten, disk>>, command' \in {"transpiler", "plan"} => command \in {"transpiler", "plan"}
      PROVE  TextsInv'
  BY <1>2 DEF TextsInv
<1>3. CASE NothingProposed \/ Proposed
  BY <1>2, <1>3 DEF NothingProposed, Proposed
<1>4. CASE NothingToDiff \/ DiffRefused \/ DiffEnds
  BY <1>2, <1>4 DEF NothingToDiff, DiffRefused, DiffEnds
<1>5. CASE DiffBegins \/ Preview
  BY <1>2, <1>5 DEF DiffBegins, Preview
<1>6. CASE UNCHANGED planVars
  BY <1>2, <1>6 DEF planVars
<1> QED BY <1>1, <1>3, <1>4, <1>5, <1>6 DEF PlanNext

\* Any part of a text from one of its places to another is a text.
LEMMA PartTyped ==
  ASSUME NEW t \in Line, NEW a \in 0..Len(t), NEW b \in 0..Len(t)
  PROVE  SubSeq(t, a + 1, b) \in Line
<1>1. t \in Seq(Char) /\ Len(t) \in Nat
  BY DEF Line
<1>2. \A k \in (a + 1)..b : t[k] \in Char
  BY <1>1
<1>3. a + 1 \in Int /\ b \in Int
  BY <1>1
<1> QED BY <1>2, <1>3, SubSeqProperties DEF Line

\* The edit of the plan, made of the file.
LEMMA EditIs ==
  ASSUME RewriteInv, TextsInv, NEW e \in edits, Fits(e)
  PROVE  /\ disk \in Line /\ e.replacement \in Line /\ e.begin \in Nat /\ e.end \in Nat
         /\ e.begin <= e.end /\ e.end <= Len(disk)
<1>1. AreTexts /\ e = RewriteEdit /\ rewritten \in Seq(Char) /\ disk \in Line /\ e.end <= Len(disk)
  BY DEF RewriteInv, TextsInv, Fits, Line
<1>2. /\ Prefix \in Nat /\ Suffix \in Nat /\ Len(source) \in Nat /\ Len(rewritten) \in Nat
      /\ Prefix + Suffix <= Len(source) /\ Prefix + Suffix <= Len(rewritten)
  BY <1>1, TrimmedIs, ShorterIs DEF AreTexts
<1>3. e.begin = Prefix /\ e.end = Len(source) - Suffix
      /\ e.replacement = SubSeq(rewritten, Prefix + 1, Len(rewritten) - Suffix)
  BY <1>1 DEF RewriteEdit
<1>4. e.begin \in Nat /\ e.end \in Nat /\ e.begin <= e.end
  BY <1>2, <1>3
<1>5. e.replacement \in Line
  <2>1. rewritten \in Line /\ Prefix \in 0..Len(rewritten) /\ Len(rewritten) - Suffix \in 0..Len(rewritten)
    BY <1>1, <1>2 DEF Line
  <2> QED BY <1>3, <2>1, PartTyped
<1> QED BY <1>1, <1>4, <1>5

\* The edit that the diff makes lies within the text it is made in.
LEMMA EditTyped ==
  ASSUME RewriteInv, TextsInv, NEW e \in edits, Fits(e)
  PROVE  disk \in Line /\ Spliced(disk, e) \in Line
BY EditIs, SplicedIs

\* The walk knows where it stands in both texts.
LEMMA WalkStep ==
  ASSUME old \in Seq(Line), new \in Seq(Line), Walked, Keep \/ Delete \/ Insert
  PROVE  Walked' /\ UNCHANGED <<old, new, phase, cursor, hunks>>
<1>1. /\ ops \in Seq(DiffOp) /\ i \in 0..Len(old) /\ j \in 0..Len(new) /\ Len(old) \in Nat /\ Len(new) \in Nat
      /\ Came(ops, i, old, "insert", "old_line") /\ Came(ops, j, new, "delete", "new_line")
  BY DEF Walked
<1>2. ASSUME NEW kind \in {"equal", "delete", "insert"}, NEW line \in Line, ops' = Append(ops, Op(kind, line)),
             NEW p \in 0..Len(old), p = i + (IF kind # "insert" THEN 1 ELSE 0), i' = p,
             NEW s \in 0..Len(new), s = j + (IF kind # "delete" THEN 1 ELSE 0), j' = s,
             kind # "insert" => line = old[p], kind # "delete" => line = new[s], UNCHANGED <<old, new>>
      PROVE  Walked'
  <2> DEFINE o == Op(kind, line)
  <2>1. o \in DiffOp /\ o.kind = kind /\ o.line = line /\ o["old_line"] = i + 1 /\ o["new_line"] = j + 1
    BY <1>1, <1>2 DEF Op, DiffOp
  <2> HIDE DEF o
  <2>2. ops' = Append(ops, o)
    BY <1>2 DEF o
  <2>3. ops' \in Seq(DiffOp)
    BY <1>1, <2>1, <2>2, AppendProperties
  <2>4. Came(Append(ops, o), p, old, "insert", "old_line")
    <3>1. p = i + (IF o.kind # "insert" THEN 1 ELSE 0) /\ (o.kind # "insert" => o.line = old[p])
      BY <1>2, <2>1
    <3>2. i \in Nat /\ p \in 0..Len(old)
      BY <1>1, <1>2
    <3> QED BY <1>1, <2>1, <3>1, <3>2, CameFurther
  <2>5. Came(Append(ops, o), s, new, "delete", "new_line")
    <3>1. s = j + (IF o.kind # "delete" THEN 1 ELSE 0) /\ (o.kind # "delete" => o.line = new[s])
      BY <1>2, <2>1
    <3>2. j \in Nat /\ s \in 0..Len(new)
      BY <1>1, <1>2
    <3> QED BY <1>1, <2>1, <3>1, <3>2, CameFurther
  <2> QED BY <1>2, <2>2, <2>3, <2>4, <2>5 DEF Walked
<1>3. CASE Keep
  <2>1. /\ i + 1 \in 0..Len(old) /\ j + 1 \in 0..Len(new) /\ old[i + 1] \in Line /\ old[i + 1] = new[j + 1]
        /\ ops' = Append(ops, Op("equal", old[i + 1])) /\ i' = i + 1 /\ j' = j + 1
        /\ UNCHANGED <<old, new, phase, cursor, hunks>>
    BY <1>1, <1>3 DEF Keep, Same, OldLeft, NewLeft
  <2> QED BY <1>1, <1>2, <2>1
<1>4. CASE Delete
  <2>1. /\ i + 1 \in 0..Len(old) /\ old[i + 1] \in Line
        /\ ops' = Append(ops, Op("delete", old[i + 1])) /\ i' = i + 1 /\ j' = j
        /\ UNCHANGED <<old, new, phase, cursor, hunks>>
    BY <1>1, <1>4 DEF Delete, DeleteFirst, OldLeft
  <2> QED BY <1>1, <1>2, <2>1
<1>5. CASE Insert
  <2>1. /\ j + 1 \in 0..Len(new) /\ new[j + 1] \in Line
        /\ ops' = Append(ops, Op("insert", new[j + 1])) /\ i' = i /\ j' = j + 1
        /\ UNCHANGED <<old, new, phase, cursor, hunks>>
    BY <1>1, <1>5 DEF Insert, NewLeft
  <2> QED BY <1>1, <1>2, <2>1
<1> QED BY <1>3, <1>4, <1>5

\* The next hunk is written where the last one ends, and the cut goes on.
LEMMA CutStep ==
  ASSUME Walked, CutSoFar, WriteHunk
  PROVE  Walked' /\ CutSoFar' /\ UNCHANGED <<old, new, phase, i, j>>
<1>0. PICK n \in Nat : n = Len(hunks)
  BY DEF CutSoFar
<1>1. PICK k \in Changes : /\ First(k) /\ cursor' = HunkEnd(k)
                           /\ hunks' = Append(hunks, HunkOf(HunkStart(k), HunkEnd(k)))
                           /\ UNCHANGED <<old, new, phase, cell, i, j, ops>>
  BY DEF WriteHunk
<1>2. ops \in Seq(DiffOp) /\ Len(ops) \in Nat /\ hunks \in Seq(AllHunks) /\ cursor = EndOfHunk(n)
  BY <1>0 DEF Walked, CutSoFar
<1>3. cursor \in 0..Len(ops) /\ (0 < cursor /\ cursor < Len(ops) => Unchanged(cursor, cursor + 1))
  <2>1. CASE n = 0
    BY <1>2, <2>1 DEF EndOfHunk
  <2>2. CASE n # 0
    <3>1. n \in 1..Len(hunks) /\ cursor = hunks[n].end
      BY <1>0, <1>2, <2>2 DEF EndOfHunk
    <3>2. Fitting(hunks[n].begin, cursor, EndOfHunk(n - 1))
      BY <3>1 DEF CutSoFar
    <3> QED BY <3>2 DEF Fitting
  <2> QED BY <2>1, <2>2
<1> DEFINE b == HunkStart(k)
           e == HunkEnd(k)
           x == HunkOf(b, e)
<1>4. Fitting(b, e, cursor)
  BY <1>1, <1>2, <1>3, NextFits
<1>5. x.begin = b /\ x.end = e
  BY DEF HunkOf
<1>6. x \in AllHunks
  <2>1. <<b, e>> \in (0..Len(ops)) \X (0..Len(ops))
    BY <1>4 DEF Fitting
  <2>2. <<b, e>>[1] = b /\ <<b, e>>[2] = e
    OBVIOUS
  <2> HIDE DEF b, e
  <2>3. HunkOf(<<b, e>>[1], <<b, e>>[2]) \in AllHunks
    BY <2>1 DEF AllHunks
  <2> QED BY <2>2, <2>3 DEF x
<1>7. hunks' = Append(hunks, x) /\ cursor' = e
  BY <1>1
<1> HIDE DEF b, e, x
<1>8. /\ hunks' \in Seq(AllHunks) /\ Len(hunks') = n + 1 /\ hunks'[n + 1] = x
      /\ \A h \in 1..n : hunks'[h] = hunks[h]
  BY <1>0, <1>2, <1>6, <1>7, AppendProperties
<1>9. Walked'
  BY <1>1 DEF Walked
<1>10. AllHunks' = AllHunks
  BY <1>1 DEF AllHunks, HunkOf
<1>11. \A h \in 0..n : EndOfHunk(h)' = EndOfHunk(h)
  BY <1>2, <1>8 DEF EndOfHunk
<1>12. EndOfHunk(n + 1)' = e
  BY <1>2, <1>5, <1>8 DEF EndOfHunk
<1>13. \A h \in 1..(n + 1) :
         /\ (hunks[h] = HunkOf(hunks[h].begin, hunks[h].end))'
         /\ Fitting(hunks[h].begin, hunks[h].end, EndOfHunk(h - 1))'
  <2> SUFFICES ASSUME NEW h \in 1..(n + 1)
               PROVE  /\ (hunks[h] = HunkOf(hunks[h].begin, hunks[h].end))'
                      /\ Fitting(hunks[h].begin, hunks[h].end, EndOfHunk(h - 1))'
    OBVIOUS
  <2>1. h - 1 \in 0..n /\ EndOfHunk(h - 1)' = EndOfHunk(h - 1)
    BY <1>2, <1>11
  <2>2. hunks'[h] = HunkOf(hunks'[h].begin, hunks'[h].end) /\ Fitting(hunks'[h].begin, hunks'[h].end, EndOfHunk(h - 1))
    <3>1. CASE h \in 1..n
      BY <1>0, <1>8, <3>1 DEF CutSoFar
    <3>2. CASE h = n + 1
      <4>1. hunks'[h] = x /\ EndOfHunk(h - 1) = cursor
        BY <1>2, <1>8, <3>2
      <4> QED BY <1>4, <1>5, <4>1 DEF x
    <3> QED BY <1>2, <3>1, <3>2
  <2>3. (hunks[h] = HunkOf(hunks[h].begin, hunks[h].end))'
    BY <1>1, <2>2 DEF HunkOf
  <2>4. Fitting(hunks[h].begin, hunks[h].end, EndOfHunk(h - 1))'
    BY <1>1, <2>1, <2>2 DEF Fitting, Unchanged
  <2> QED BY <2>3, <2>4
<1>14. (hunks \in Seq(AllHunks))'
  BY <1>8, <1>10
<1>15. (cursor = EndOfHunk(Len(hunks)))'
  BY <1>7, <1>8, <1>12
<1>16. CutSoFar'
  BY <1>8, <1>13, <1>14, <1>15 DEF CutSoFar
<1> QED BY <1>1, <1>9, <1>16

\* What DiffInv says when nothing it is about moves.
LEMMA DiffFrame ==
  ASSUME DiffInv, UNCHANGED <<diffVars, command>>
  PROVE  DiffInv'
<1>1. UNCHANGED <<old, new, phase, i, j, ops, cursor, hunks, command>>
  BY DEF diffVars
<1>2. Walked' <=> Walked
  BY <1>1 DEF Walked
<1>3. CutSoFar' <=> CutSoFar
  BY <1>1 DEF CutSoFar, AllHunks, HunkOf, EndOfHunk, Fitting, Unchanged
<1>4. Unchanged(cursor + 1, Len(ops))' <=> Unchanged(cursor + 1, Len(ops))
  BY <1>1 DEF Unchanged
<1> QED BY <1>1, <1>2, <1>3, <1>4 DEF DiffInv

\* Every step of moult diff keeps track of both texts, and no other step counts.
LEMMA DiffStep ==
  RewriteInv /\ TextsInv /\ DiffInv /\ [PlanNext]_<<diffVars, planVars>> => DiffInv'
<1> SUFFICES ASSUME RewriteInv, TextsInv, DiffInv, [PlanNext]_<<diffVars, planVars>> PROVE DiffInv'
  OBVIOUS
<1>1. CASE NothingProposed \/ Proposed \/ FileChanged
  <2>1. phase = "waiting" /\ j = 0 /\ ops = <<>> /\ cursor = 0 /\ hunks = <<>>
    BY <1>1 DEF NothingProposed, Proposed, FileChanged, DiffInv
  <2>2. UNCHANGED <<phase, j, ops, cursor, hunks>>
    BY <1>1 DEF NothingProposed, Proposed, FileChanged, diffVars
  <2> QED BY <2>1, <2>2 DEF DiffInv
<1>2. CASE NothingToDiff \/ DiffRefused \/ DiffEnds \/ UNCHANGED <<diffVars, planVars>>
  <2>1. UNCHANGED <<diffVars, command>>
    BY <1>2 DEF NothingToDiff, DiffRefused, DiffEnds, planVars
  <2> QED BY <2>1, DiffFrame
<1>3. CASE DiffBegins
  <2>1. PICK e \in edits : Fits(e) /\ Compare(LinesOf(disk), LinesOf(Spliced(disk, e))) /\ command' = "diff"
    BY <1>3 DEF DiffBegins
  <2>2. LinesOf(disk) \in Seq(Line) /\ LinesOf(Spliced(disk, e)) \in Seq(Line)
    BY <2>1, EditTyped, LinesAre
  <2>3. j = 0 /\ ops = <<>> /\ cursor = 0 /\ hunks = <<>>
    BY <2>1 DEF Compare, DiffInv
  <2>4. /\ old' = LinesOf(disk) /\ new' = LinesOf(Spliced(disk, e)) /\ i' = Len(old') /\ phase' = "table"
        /\ UNCHANGED <<j, ops, cursor, hunks>>
    BY <2>1 DEF Compare
  <2>5. i' \in 0..Len(old')
    BY <2>2, <2>4
  <2> QED BY <2>1, <2>2, <2>3, <2>4, <2>5 DEF DiffInv
<1>4. CASE Preview
  <2>1. phase = "waiting" /\ phase' = "table" /\ command' = "review" /\ hunks' = hunks
    BY <1>4 DEF Preview, Compare
  <2> QED BY <2>1 DEF DiffInv
<1>5. CASE phase \in {"table", "walk"} /\ DiffNext /\ UNCHANGED planVars
  <2>1. command' = command /\ command \in {"diff", "review"}
    BY <1>5 DEF planVars, DiffInv
  <2>2. CASE command = "review"
    <3>1. hunks = <<>>
      BY <1>5, <2>2 DEF DiffInv
    <3>2. hunks' = hunks /\ phase' \in {"table", "walk", "hunks"}
      BY <1>5 DEF DiffNext, FillRow, TableDone, Keep, Delete, Insert, WalkDone, WriteHunk, HunksDone
    <3> QED BY <2>1, <2>2, <3>1, <3>2 DEF DiffInv
  <2>3. CASE command = "diff"
    <3>1. old \in Seq(Line) /\ new \in Seq(Line) /\ Len(old) \in Nat /\ Len(new) \in Nat
      BY <1>5, <2>3 DEF DiffInv
    <3>2. CASE phase = "table"
      <4>1. i \in 0..Len(old) /\ j = 0 /\ ops = <<>> /\ cursor = 0 /\ hunks = <<>>
        BY <2>3, <3>2 DEF DiffInv
      <4>2. CASE FillRow
        <5>1. UNCHANGED <<old, new, phase, j, ops, cursor, hunks>> /\ i' \in 0..Len(old)
          BY <3>1, <4>1, <4>2 DEF FillRow
        <5> QED BY <2>1, <2>3, <3>1, <3>2, <4>1, <5>1 DEF DiffInv
      <4>3. CASE TableDone
        <5>1. UNCHANGED <<old, new, i, j, ops, cursor, hunks>> /\ i = 0 /\ phase' = "walk"
          BY <4>3 DEF TableDone
        <5>2. Came(<<>>, 0, old, "insert", "old_line") /\ Came(<<>>, 0, new, "delete", "new_line")
          BY <3>1, CameNowhere
        <5>3. Walked
          BY <3>1, <4>1, <5>1, <5>2 DEF Walked
        <5>4. Walked'
          BY <5>1, <5>3 DEF Walked
        <5> QED BY <2>1, <2>3, <3>1, <4>1, <5>1, <5>4 DEF DiffInv
      <4> QED BY <1>5, <3>2, <4>2, <4>3
              DEF DiffNext, Keep, Delete, Insert, WalkDone, WriteHunk, HunksDone
    <3>3. CASE phase = "walk"
      <4>1. Walked /\ cursor = 0 /\ hunks = <<>>
        BY <2>3, <3>3 DEF DiffInv
      <4>2. CASE Keep \/ Delete \/ Insert
        <5>1. Walked' /\ UNCHANGED <<old, new, phase, cursor, hunks>>
          BY <3>1, <4>1, <4>2, WalkStep
        <5> QED BY <2>1, <2>3, <3>1, <3>3, <4>1, <5>1 DEF DiffInv
      <4>3. CASE WalkDone
        <5>1. UNCHANGED <<old, new, i, j, ops, cursor, hunks>> /\ phase' = "hunks" /\ ~OldLeft /\ ~NewLeft
          BY <4>3 DEF WalkDone
        <5>2. i = Len(old) /\ j = Len(new)
          BY <3>1, <4>1, <5>1 DEF Walked, OldLeft, NewLeft
        <5>3. Walked'
          BY <4>1, <5>1 DEF Walked
        <5>4. CutSoFar'
          BY <4>1, <5>1 DEF CutSoFar, EndOfHunk
        <5> QED BY <2>1, <2>3, <3>1, <5>1, <5>2, <5>3, <5>4 DEF DiffInv
      <4> QED BY <1>5, <3>3, <4>2, <4>3 DEF DiffNext, FillRow, TableDone, WriteHunk, HunksDone
    <3> QED BY <1>5, <3>2, <3>3
  <2> QED BY <2>1, <2>2, <2>3
<1>6. CASE phase = "hunks" /\ command = "diff" /\ DiffNext /\ UNCHANGED planVars
  <2>1. /\ command' = "diff" /\ old \in Seq(Line) /\ new \in Seq(Line)
        /\ Walked /\ i = Len(old) /\ j = Len(new) /\ CutSoFar
    BY <1>6 DEF planVars, DiffInv
  <2>2. CASE WriteHunk
    <3>1. Walked' /\ CutSoFar' /\ UNCHANGED <<old, new, phase, i, j>>
      BY <2>1, <2>2, CutStep
    <3> QED BY <1>6, <2>1, <3>1 DEF DiffInv
  <2>3. CASE HunksDone
    <3>1. UNCHANGED <<old, new, i, j, ops, cursor, hunks>> /\ phase' = "done" /\ \A k \in Changes : k < cursor
      BY <2>3 DEF HunksDone
    <3>2. Walked'
      BY <2>1, <3>1 DEF Walked
    <3>3. CutSoFar'
      BY <2>1, <3>1 DEF CutSoFar, AllHunks, HunkOf, EndOfHunk, Fitting, Unchanged
    <3>4. Unchanged(cursor + 1, Len(ops))
      <4> SUFFICES ASSUME NEW m \in (cursor + 1)..Len(ops) PROVE ops[m].kind = "equal"
        BY DEF Unchanged
      <4>1. cursor \in Nat /\ Len(ops) \in Nat
        <5>1. Len(ops) \in Nat /\ Len(hunks) \in Nat
          BY <2>1 DEF Walked, CutSoFar
        <5>2. CASE Len(hunks) = 0
          BY <2>1, <5>1, <5>2 DEF CutSoFar, EndOfHunk
        <5>3. CASE Len(hunks) # 0
          BY <2>1, <5>1, <5>3 DEF CutSoFar, EndOfHunk, Fitting
        <5> QED BY <5>1, <5>2, <5>3
      <4>2. m - 1 \in 0..(Len(ops) - 1) /\ ~(m - 1 < cursor) /\ m - 1 + 1 = m
        BY <4>1
      <4> QED BY <3>1, <4>2 DEF Changes, IsChange
    <3>5. Unchanged(cursor + 1, Len(ops))'
      BY <3>1, <3>4 DEF Unchanged
    <3> QED BY <2>1, <3>1, <3>2, <3>3, <3>5 DEF DiffInv
  <2> QED BY <1>6, <2>2, <2>3 DEF DiffNext, FillRow, TableDone, Keep, Delete, Insert, WalkDone
<1> QED BY <1>1, <1>2, <1>3, <1>4, <1>5, <1>6 DEF PlanNext

\* The plan, the texts and the patch start out as they should.
LEMMA PlanBegins == PlanInit => RewriteInv /\ TextsInv /\ DiffInv
<1> SUFFICES ASSUME PlanInit PROVE RewriteInv /\ TextsInv /\ DiffInv
  OBVIOUS
<1>1. PICK r \in Rewrites : source \in {r[1], NoText} /\ rewritten = r[2] /\ disk = r[1]
  BY DEF PlanInit
<1>2. r[1] \in Seq(ToSet(r[1])) /\ r[2] \in Seq(ToSet(r[2])) /\ r[1] \in Line /\ r[2] \in Line
  BY RewritesAssumption, RewriteTyped
<1>3. edits = {} /\ DiffInit
  BY DEF PlanInit
<1> QED BY <1>1, <1>2, <1>3 DEF RewriteInv, TextsInv, DiffInv, DiffInit

-----------------------------------------------------------------------------
(* The headers *)

\* Going on among the ops is never going back in a text.
LEMMA PlacesGrow ==
  ASSUME NEW q \in Seq(DiffOp), NEW t, NEW at, NEW other, NEW field, Len(t) \in Nat,
         Tracks(at, t, q, other, field), NEW b \in 0..Len(q), NEW e \in 0..Len(q), b <= e
  PROVE  at[b] <= at[e] /\ at[b] \in Nat /\ at[e] \in Nat /\ at[e] <= Len(t)
<1>1. at[b] \in Nat /\ at[e] \in Nat /\ at[e] <= Len(t)
  BY DEF Tracks
<1>2. CASE b = e
  BY <1>1, <1>2
<1>3. CASE b < e
  BY <1>1, <1>3, RangeIs
<1> QED BY <1>1, <1>2, <1>3

\* The header of a side says where its lines are.
LEMMA SideLocated ==
  ASSUME NEW q \in Seq(DiffOp), NEW t \in Seq(Line), NEW at, NEW other, NEW field,
         Tracks(at, t, q, other, field), at[Len(q)] = Len(t),
         NEW b \in 0..Len(q), NEW e \in 0..Len(q), b < e,
         (b = 0 /\ e = Len(q)) \/ \E k \in (b + 1)..e : q[k].kind # other
  PROVE  Located(UnifiedRange(Side(SubSeq(q, b + 1, e), other), field, SubSeq(q, b + 1, e)[1]),
                 Lines(Side(SubSeq(q, b + 1, e), other)), t)
<1> DEFINE F == Side(SubSeq(q, b + 1, e), other)
           R == UnifiedRange(F, field, SubSeq(q, b + 1, e)[1])
<1>1. /\ SideShows(F, at, t, b, e, field) /\ F \in Seq(DiffOp) /\ Len(t) \in Nat /\ Len(q) \in Nat
      /\ R = IF at[e] = at[b] THEN <<at[b], 0>> ELSE <<at[b] + 1, at[e] - at[b]>>
  <2>1. Len(t) \in Nat /\ Len(q) \in Nat
    OBVIOUS
  <2>2. SideShows(F, at, t, b, e, field) /\ F \in Seq(DiffOp)
    BY SideIs
  <2>3. R = IF at[e] = at[b] THEN <<at[b], 0>> ELSE <<at[b] + 1, at[e] - at[b]>>
    BY <2>1, RangeIs
  <2> QED BY <2>1, <2>2, <2>3
<1>2. at[b] <= at[e] /\ at[b] \in Nat /\ at[e] \in Nat /\ at[e] <= Len(t) /\ at[0] = 0
  <2>1. at[0] = 0
    BY DEF Tracks
  <2>2. b <= e
    BY <1>1
  <2> QED BY <1>1, <2>1, <2>2, PlacesGrow
<1> HIDE DEF F, R
<1>3. Len(F) = at[e] - at[b] /\ DOMAIN F = 1..Len(F) /\ Len(F) \in Nat
  BY <1>1 DEF SideShows
<1>4. CASE at[e] = at[b]
  <2>1. b = 0 /\ e = Len(q)
    <3> SUFFICES ASSUME NEW k \in (b + 1)..e, q[k].kind # other PROVE FALSE
      OBVIOUS
    <3>1. k \in 1..Len(q) /\ k - 1 \in 0..Len(q) /\ b <= k - 1 /\ k <= e /\ k \in 0..Len(q)
      BY <1>1
    <3>2. at[k] = at[k - 1] + 1 /\ at[k - 1] \in Nat
      BY <3>1 DEF Tracks
    <3>3. at[b] <= at[k - 1] /\ at[k] <= at[e]
      BY <1>1, <3>1, PlacesGrow
    <3> QED BY <1>2, <1>4, <3>2, <3>3
  <2>2. Len(t) = 0 /\ at[b] = 0
    BY <1>2, <1>4, <2>1
  <2>3. t = <<>> /\ F = <<>>
    BY <1>1, <1>3, <1>4, <2>2, EmptySeq
  <2>4. Lines(F) = <<>>
    BY <2>3 DEF Lines
  <2>5. R[1] = 0 /\ R[2] = 0
    BY <1>1, <1>4, <2>2
  <2> QED BY <2>3, <2>4, <2>5 DEF Located, F, R
<1>5. CASE at[e] # at[b]
  <2> DEFINE p == SubSeq(t, at[b] + 1, at[e])
  <2>1. R[1] = at[b] + 1 /\ R[2] = at[e] - at[b] /\ R[2] # 0 /\ R[1] + R[2] - 1 = at[e]
    <3>1. R = <<at[b] + 1, at[e] - at[b]>>
      BY <1>1, <1>5
    <3>2. R[1] = at[b] + 1 /\ R[2] = at[e] - at[b]
      BY <3>1
    <3>3. at[e] - at[b] # 0 /\ at[b] + 1 + (at[e] - at[b]) - 1 = at[e]
      BY <1>2, <1>5
    <3> QED BY <3>2, <3>3
  <2>2. /\ Len(p) = at[e] - at[b] /\ DOMAIN p = 1..(at[e] - at[b])
        /\ \A m \in 1..(at[e] - at[b]) : p[m] = t[at[b] + m]
    <3>1. /\ at[b] + 1 \in Int /\ at[e] \in Int /\ at[b] + 1 <= at[e]
          /\ \A k \in (at[b] + 1)..at[e] : t[k] \in Line
      BY <1>2, <1>5
    <3>2. /\ p \in Seq(Line) /\ Len(p) = at[e] - (at[b] + 1) + 1
          /\ \A m \in 1..(at[e] - (at[b] + 1) + 1) : p[m] = t[at[b] + 1 + m - 1]
      BY <3>1, SubSeqProperties
    <3>3. /\ at[e] - (at[b] + 1) + 1 = at[e] - at[b] /\ at[e] - at[b] \in Nat
          /\ \A m \in 1..(at[e] - at[b]) : at[b] + 1 + m - 1 = at[b] + m
      <4> DEFINE x == at[b]
                 y == at[e]
      <4>1. x \in Nat /\ y \in Nat /\ x <= y
        BY <1>2
      <4> HIDE DEF x, y
      <4>2. y - (x + 1) + 1 = y - x /\ y - x \in Nat /\ \A m \in 1..(y - x) : x + 1 + m - 1 = x + m
        BY <4>1
      <4> QED BY <4>2 DEF x, y
    <3> HIDE DEF p
    <3>4. \A m \in 1..(at[e] - at[b]) : p[m] = t[at[b] + m]
      BY <3>2, <3>3
    <3>5. DOMAIN p = 1..(at[e] - at[b])
      BY <3>2, <3>3, LenProperties
    <3> QED BY <3>2, <3>3, <3>4, <3>5
  <2> HIDE DEF p
  <2>3. \A m \in 1..(at[e] - at[b]) : F[m].line = p[m]
    BY <1>1, <1>3, <2>2 DEF SideShows
  <2>4. Lines(F) = PrintedText(p)
    BY <1>3, <2>2, <2>3 DEF Lines, PrintedText
  <2> QED BY <2>1, <2>4 DEF Located, F, R, p
<1> QED BY <1>4, <1>5

\* What is said of a hunk, of both sides of it at once.
LEMMA HunkIs ==
  ASSUME Walked, CutSoFar, NEW h \in 1..Len(hunks)
  PROVE  /\ Fitting(hunks[h].begin, hunks[h].end, EndOfHunk(h - 1))
         /\ hunks[h].body = SubSeq(ops, hunks[h].begin + 1, hunks[h].end)
         /\ hunks[h].old_range = UnifiedRange(Side(hunks[h].body, "insert"), "old_line", hunks[h].body[1])
         /\ hunks[h].new_range = UnifiedRange(Side(hunks[h].body, "delete"), "new_line", hunks[h].body[1])
         /\ Before(hunks[h].body) = Side(hunks[h].body, "insert")
         /\ After(hunks[h].body) = Side(hunks[h].body, "delete")
<1> DEFINE b == hunks[h].begin
           e == hunks[h].end
<1>1. hunks[h] = HunkOf(b, e) /\ Fitting(b, e, EndOfHunk(h - 1))
  BY DEF CutSoFar
<1> HIDE DEF b, e
<1> DEFINE x == HunkOf(b, e)
           s == SubSeq(ops, b + 1, e)
           r == UnifiedRange(Before(s), "old_line", s[1])
           d == UnifiedRange(After(s), "new_line", s[1])
<1>2. x.body = s /\ x.old_range = r /\ x.new_range = d
  <2>1. x = [begin |-> b, end |-> e, body |-> s, old_range |-> r, new_range |-> d]
    BY DEF HunkOf
  <2> HIDE DEF x, s, r, d
  <2> QED BY <2>1
<1>3. \A q : Before(q) = Side(q, "insert") /\ After(q) = Side(q, "delete")
  BY DEF Before, After, Side
<1> QED BY <1>1, <1>2, <1>3 DEF b, e

(* The header of every hunk tells where its lines are in both texts, for   *)
(* every pair of texts that a plan and a save in between lead to.          *)
THEOREM HeadersAreTrue == PlanSpec => []HeadersTrue
<1>1. DiffInv => HeadersTrue
  <2> SUFFICES ASSUME DiffInv, NEW h \in DOMAIN hunks
               PROVE  /\ Located(hunks[h].old_range, Lines(Before(hunks[h].body)), old)
                      /\ Located(hunks[h].new_range, Lines(After(hunks[h].body)), new)
    BY DEF HeadersTrue
  <2>1. /\ Walked /\ CutSoFar /\ i = Len(old) /\ j = Len(new) /\ h \in 1..Len(hunks)
        /\ old \in Seq(Line) /\ new \in Seq(Line)
    <3>1. hunks # <<>>
      OBVIOUS
    <3>2. Walked /\ CutSoFar /\ i = Len(old) /\ j = Len(new) /\ old \in Seq(Line) /\ new \in Seq(Line)
      BY <3>1 DEF DiffInv
    <3> QED BY <3>2 DEF CutSoFar
  <2> DEFINE b == hunks[h].begin
             e == hunks[h].end
             a == PlacesOf(ops, i, "old_line")
             z == PlacesOf(ops, j, "new_line")
  <2>2. /\ ops \in Seq(DiffOp) /\ Tracks(a, old, ops, "insert", "old_line")
        /\ Tracks(z, new, ops, "delete", "new_line")
        /\ a[Len(ops)] = Len(old) /\ z[Len(ops)] = Len(new)
    BY <2>1 DEF Walked, Came, PlacesOf
  <2>3. /\ b \in 0..Len(ops) /\ e \in 0..Len(ops) /\ b < e
        /\ (b = 0 /\ e = Len(ops)) \/ \E k \in (b + 1)..e : ops[k].kind = "equal"
    BY <2>1, HunkIs DEF Fitting
  <2>4. /\ (b = 0 /\ e = Len(ops)) \/ \E k \in (b + 1)..e : ops[k].kind # "insert"
        /\ (b = 0 /\ e = Len(ops)) \/ \E k \in (b + 1)..e : ops[k].kind # "delete"
    BY <2>3
  <2> HIDE DEF a, z, b, e
  <2>5. Located(UnifiedRange(Side(SubSeq(ops, b + 1, e), "insert"), "old_line", SubSeq(ops, b + 1, e)[1]),
                Lines(Side(SubSeq(ops, b + 1, e), "insert")), old)
    BY <2>1, <2>2, <2>3, <2>4, SideLocated
  <2>6. Located(UnifiedRange(Side(SubSeq(ops, b + 1, e), "delete"), "new_line", SubSeq(ops, b + 1, e)[1]),
                Lines(Side(SubSeq(ops, b + 1, e), "delete")), new)
    BY <2>1, <2>2, <2>3, <2>4, SideLocated
  <2> QED BY <2>1, <2>5, <2>6, HunkIs DEF b, e
<1>2. PlanInit => RewriteInv /\ TextsInv /\ DiffInv
  BY PlanBegins
<1>3. RewriteInv /\ TextsInv /\ DiffInv /\ [PlanNext]_<<diffVars, planVars>>
        => RewriteInv' /\ TextsInv' /\ DiffInv'
  BY RewriteStep, TextsStep, DiffStep
<1> QED BY <1>1, <1>2, <1>3, PTL DEF PlanSpec

-----------------------------------------------------------------------------
(* What a reader of the patch makes of it *)

\* A line with its newline, whether it is there or was missing.
Printable == Seq(Char \cup {"nl"})

\* t prints like the lines of u after line `from` up to line upto.
PrintsLike(t, u, from, upto) ==
  /\ t \in Seq(Printable) /\ Len(t) = upto - from
  /\ \A m \in 1..Len(t) : Printed(t[m]) = Printed(u[from + m])

\* A line that was printed is printed as it is.
LEMMA PrintedIs ==
  ASSUME NEW line \in Printable
  PROVE  Printed(line) \in Printable /\ Printed(Printed(line)) = Printed(line)
<1> DEFINE C == Char \cup {"nl"}
           more == Append(line, "nl")
<1>1. line \in Seq(C) /\ "nl" \in C
  BY DEF Printable
<1> HIDE DEF C
<1>2. more \in Seq(C) /\ Len(more) = Len(line) + 1 /\ more[Len(line) + 1] = "nl"
  BY <1>1, AppendProperties
<1>3. Last(more) = "nl"
  BY <1>2 DEF Last
<1> HIDE DEF more
<1>4. Printed(more) = more
  BY <1>3 DEF Printed
<1>5. CASE Last(line) = "nl"
  <2>1. Printed(line) = line
    BY <1>5 DEF Printed
  <2> QED BY <2>1
<1>6. CASE Last(line) # "nl"
  <2>1. Printed(line) = more
    BY <1>6 DEF Printed, more
  <2>2. more \in Printable
    BY <1>2 DEF Printable, C
  <2> QED BY <1>4, <2>1, <2>2
<1> QED BY <1>5, <1>6

\* Lines are printable.
LEMMA LinesPrintable == Line \subseteq Printable
<1> DEFINE A == Char
           B == Char \cup {"nl"}
<1>1. A \subseteq B
  OBVIOUS
<1> HIDE DEF A, B
<1>2. Seq(A) \subseteq Seq(B)
  BY <1>1
<1> QED BY <1>2 DEF A, B, Line, Printable

\* What prints like one stretch and then the next prints like both.
LEMMA PrintsOn ==
  ASSUME NEW t, NEW s, NEW u, NEW a \in Nat, NEW b \in Nat, NEW c \in Nat, a <= b, b <= c,
         PrintsLike(t, u, a, b), PrintsLike(s, u, b, c)
  PROVE  PrintsLike(t \o s, u, a, c)
<1>1. /\ t \in Seq(Printable) /\ s \in Seq(Printable) /\ Len(t) = b - a /\ Len(s) = c - b
      /\ Len(t) \in Nat /\ Len(s) \in Nat
  BY DEF PrintsLike
<1> DEFINE w == t \o s
<1>2. w \in Seq(Printable) /\ Len(w) = Len(t) + Len(s)
      /\ \A m \in 1..(Len(t) + Len(s)) : w[m] = IF m <= Len(t) THEN t[m] ELSE s[m - Len(t)]
  BY <1>1, ConcatProperties
<1> HIDE DEF w
<1>3. Len(w) = c - a
  BY <1>1, <1>2
<1>4. ASSUME NEW m \in 1..Len(w) PROVE Printed(w[m]) = Printed(u[a + m])
  <2>1. CASE m <= Len(t)
    <3>1. m \in 1..Len(t) /\ w[m] = t[m]
      BY <1>1, <1>2, <2>1
    <3> QED BY <3>1 DEF PrintsLike
  <2>2. CASE ~(m <= Len(t))
    <3>1. m - Len(t) \in 1..Len(s) /\ w[m] = s[m - Len(t)] /\ b + (m - Len(t)) = a + m
      BY <1>1, <1>2, <2>2
    <3>2. Printed(s[m - Len(t)]) = Printed(u[b + (m - Len(t))])
      BY <3>1 DEF PrintsLike
    <3> QED BY <3>1, <3>2
  <2> QED BY <2>1, <2>2
<1>5. PrintsLike(w, u, a, c)
  BY <1>2, <1>3, <1>4 DEF PrintsLike
<1> QED BY <1>5 DEF w

\* Where nothing changes, both texts go on alike.
LEMMA EqualRun ==
  ASSUME ops \in Seq(DiffOp), NEW a, NEW z, Len(old) \in Nat, Len(new) \in Nat,
         Tracks(a, old, ops, "insert", "old_line"), Tracks(z, new, ops, "delete", "new_line"),
         NEW x \in 0..Len(ops), NEW y \in 0..Len(ops), x <= y, Unchanged(x + 1, y)
  PROVE  \A m \in 1..(y - x) : /\ a[x + m] = a[x] + m /\ z[x + m] = z[x] + m
                               /\ old[a[x] + m] = new[z[x] + m]
<1> DEFINE T == {m \in 1..(y - x) : a[x + m] = a[x] + m /\ z[x + m] = z[x] + m}
<1>1. Len(ops) \in Nat /\ y - x \in Nat /\ a[x] \in Nat /\ z[x] \in Nat
  BY DEF Tracks
<1>2. ASSUME NEW m \in 1..(y - x)
      PROVE  /\ x + m \in 1..Len(ops)
             /\ a[x + m] = a[x + m - 1] + 1 /\ z[x + m] = z[x + m - 1] + 1
             /\ old[a[x + m]] = new[z[x + m]]
  <2>1. x + m \in 1..Len(ops) /\ x + m \in (x + 1)..y
    BY <1>1
  <2>2. ops[x + m].kind = "equal"
    BY <2>1 DEF Unchanged
  <2>3. a[x + m] = a[x + m - 1] + 1 /\ ops[x + m].line = old[a[x + m]]
    BY <2>1, <2>2 DEF Tracks
  <2>4. z[x + m] = z[x + m - 1] + 1 /\ ops[x + m].line = new[z[x + m]]
    BY <2>1, <2>2 DEF Tracks
  <2> QED BY <2>1, <2>3, <2>4
<1>3. \A m \in 1..(y - x) : m \in T
  <2>1. ASSUME NEW m \in 1..(y - x), m = 1 \/ m - 1 \in T PROVE m \in T
    <3>1. CASE m = 1
      <4>1. x + m - 1 = x
        BY <1>1, <3>1
      <4> QED BY <1>2, <3>1, <4>1
    <3>2. CASE m # 1
      <4>1. /\ a[x + (m - 1)] = a[x] + (m - 1) /\ z[x + (m - 1)] = z[x] + (m - 1)
            /\ x + (m - 1) = x + m - 1
        BY <1>1, <2>1, <3>2
      <4>2. a[x + m] = a[x] + (m - 1) + 1 /\ z[x + m] = z[x] + (m - 1) + 1
        BY <1>2, <4>1
      <4>3. a[x] + (m - 1) + 1 = a[x] + m /\ z[x] + (m - 1) + 1 = z[x] + m
        BY <1>1
      <4> QED BY <4>2, <4>3
    <3> QED BY <3>1, <3>2
  <2> HIDE DEF T
  <2>2. \A m \in 1..(y - x) : m = 1 \/ m - 1 \in T => m \in T
    BY <2>1
  <2> QED BY <1>1, <2>2, CountUp
<1> QED BY <1>2, <1>3

\* So what a reader copies of the old text there is what the new one has.
LEMMA CopiedIs ==
  ASSUME ops \in Seq(DiffOp), NEW a, NEW z, old \in Seq(Line), new \in Seq(Line),
         Tracks(a, old, ops, "insert", "old_line"), Tracks(z, new, ops, "delete", "new_line"),
         NEW x \in 0..Len(ops), NEW y \in 0..Len(ops), x <= y, Unchanged(x + 1, y)
  PROVE  PrintsLike(Part(old, a[x] + 1, a[y]), new, z[x], z[y])
<1>1. /\ Len(old) \in Nat /\ Len(new) \in Nat /\ Len(ops) \in Nat /\ a[x] \in Nat /\ a[y] \in Nat
      /\ z[x] \in Nat /\ z[y] \in Nat /\ a[y] <= Len(old) /\ x \in Nat /\ y \in Nat
  BY DEF Tracks
<1>2. \A m \in 1..(y - x) : /\ a[x + m] = a[x] + m /\ z[x + m] = z[x] + m
                            /\ old[a[x] + m] = new[z[x] + m]
  BY <1>1, EqualRun
<1>3. a[y] = a[x] + (y - x) /\ z[y] = z[x] + (y - x)
  <2>1. CASE x = y
    BY <1>1, <2>1
  <2>2. CASE x < y
    <3>1. y - x \in 1..(y - x) /\ x + (y - x) = y
      BY <1>1, <2>2
    <3> QED BY <1>2, <3>1
  <2> QED BY <1>1, <2>1, <2>2
<1> DEFINE p == Part(old, a[x] + 1, a[y])
<1>4. p = SubSeq(old, a[x] + 1, a[y])
  BY <1>1 DEF Part
<1>5. \A k \in (a[x] + 1)..a[y] : old[k] \in Line
  BY <1>1
<1>6. /\ p \in Seq(Line) /\ Len(p) = IF a[x] + 1 <= a[y] THEN a[y] - (a[x] + 1) + 1 ELSE 0
      /\ \A m \in 1..(a[y] - (a[x] + 1) + 1) : p[m] = old[a[x] + 1 + m - 1]
  <2> DEFINE f == a[x] + 1
             g == a[y]
  <2>1. f \in Int /\ g \in Int
    BY <1>1
  <2>2. \A k \in f..g : old[k] \in Line
    BY <1>5
  <2> HIDE DEF f, g
  <2>3. /\ SubSeq(old, f, g) \in Seq(Line) /\ Len(SubSeq(old, f, g)) = IF f <= g THEN g - f + 1 ELSE 0
        /\ \A m \in 1..(g - f + 1) : SubSeq(old, f, g)[m] = old[f + m - 1]
    BY <2>1, <2>2, SubSeqProperties
  <2>4. p = SubSeq(old, f, g)
    BY <1>4 DEF f, g
  <2> HIDE DEF p
  <2>5. p \in Seq(Line) /\ Len(p) = (IF f <= g THEN g - f + 1 ELSE 0) /\ \A m \in 1..(g - f + 1) : p[m] = old[f + m - 1]
    BY <2>3, <2>4
  <2> QED BY <2>5 DEF f, g
<1> HIDE DEF p
<1>7. /\ a[y] - (a[x] + 1) + 1 = y - x /\ z[y] - z[x] = y - x /\ y - x \in Nat /\ a[x] + 1 \in Nat
      /\ (a[x] + 1 <= a[y] <=> 1 <= y - x)
  <2>1. y - x \in Nat /\ a[x] + 1 \in Nat
    BY <1>1
  <2>2. \A f, g, n \in Nat : f = g + n => f - (g + 1) + 1 = n /\ f - g = n /\ (g + 1 <= f <=> 1 <= n)
    OBVIOUS
  <2> DEFINE n == y - x
  <2>5. n \in Nat /\ a[y] \in Nat /\ a[x] \in Nat /\ a[y] = a[x] + n
    BY <1>1, <1>3
  <2>6. z[y] \in Nat /\ z[x] \in Nat /\ z[y] = z[x] + n
    BY <1>1, <1>3
  <2> HIDE DEF n
  <2>7. a[y] - (a[x] + 1) + 1 = n /\ (a[x] + 1 <= a[y] <=> 1 <= n)
    BY <2>2, <2>5
  <2>8. z[y] - z[x] = n
    <3> DEFINE f == z[y]
               g == z[x]
    <3>1. f \in Nat /\ g \in Nat /\ f = g + n
      BY <2>6
    <3> HIDE DEF f, g
    <3>2. f - g = n
      BY <2>5, <3>1
    <3> QED BY <3>2 DEF f, g
  <2>3. /\ a[y] - (a[x] + 1) + 1 = y - x
        /\ (a[x] + 1 <= a[y] <=> 1 <= y - x)
    BY <2>7 DEF n
  <2>4. z[y] - z[x] = y - x
    BY <2>8 DEF n
  <2> QED BY <2>1, <2>3, <2>4
<1>8. Len(p) = z[y] - z[x]
  BY <1>6, <1>7
<1>9. ASSUME NEW m \in 1..Len(p) PROVE Printed(p[m]) = Printed(new[z[x] + m])
  <2>1. m \in 1..(y - x) /\ a[x] + 1 + m - 1 = a[x] + m
    BY <1>1, <1>7, <1>8
  <2>2. p[m] = old[a[x] + m]
    BY <1>6, <1>7, <2>1
  <2>3. p[m] = new[z[x] + m]
    BY <1>2, <2>1, <2>2
  <2> QED BY <2>3
<1>10. p \in Seq(Printable)
  BY <1>6, LinesPrintable
<1>11. PrintsLike(p, new, z[x], z[y])
  BY <1>8, <1>9, <1>10 DEF PrintsLike
<1> QED BY <1>11 DEF p

\* The new side of a hunk prints what the new text has there.
LEMMA HunkPrints ==
  ASSUME NEW q \in Seq(DiffOp), NEW u, NEW z, NEW other, NEW field, Tracks(z, u, q, other, field),
         NEW b \in 0..Len(q), NEW e \in 0..Len(q), b < e
  PROVE  PrintsLike(Lines(Side(SubSeq(q, b + 1, e), other)), u, z[b], z[e])
<1> DEFINE F == Side(SubSeq(q, b + 1, e), other)
           t == Lines(F)
<1>1. SideShows(F, z, u, b, e, field) /\ F \in Seq(DiffOp)
  BY SideIs
<1> HIDE DEF F
<1>2. Len(F) \in Nat /\ DOMAIN F = 1..Len(F) /\ \A m \in 1..Len(F) : F[m].line \in Printable
  <2>1. Len(F) \in Nat /\ DOMAIN F = 1..Len(F) /\ \A m \in 1..Len(F) : F[m] \in DiffOp
    BY <1>1
  <2>2. \A o \in DiffOp : o.line \in Line
    BY DEF DiffOp
  <2> QED BY <2>1, <2>2, LinesPrintable
<1>3. /\ t \in [1..Len(F) -> Printable]
      /\ \A m \in 1..Len(F) : t[m] = Printed(F[m].line)
  BY <1>2, PrintedIs DEF Lines
<1> HIDE DEF t
<1>4. t \in Seq(Printable) /\ Len(t) = Len(F)
  BY <1>2, <1>3
<1>5. Len(t) = z[e] - z[b]
  BY <1>1, <1>4 DEF SideShows
<1>6. ASSUME NEW m \in 1..Len(t) PROVE Printed(t[m]) = Printed(u[z[b] + m])
  <2>1. F[m].line = u[z[b] + m] /\ F[m].line \in Printable /\ t[m] = Printed(F[m].line)
    BY <1>1, <1>2, <1>3, <1>4 DEF SideShows
  <2> QED BY <2>1, PrintedIs
<1>7. PrintsLike(t, u, z[b], z[e])
  BY <1>4, <1>5, <1>6 DEF PrintsLike
<1> QED BY <1>7 DEF t, F

OldPlaces == PlacesOf(ops, i, "old_line")
NewPlaces == PlacesOf(ops, j, "new_line")

\* All ops are there, and the hunks so far are cut from them.
Cutting ==
  /\ old \in Seq(Line) /\ new \in Seq(Line) /\ Walked /\ i = Len(old) /\ j = Len(new) /\ CutSoFar

\* The places run from the first line of each text to the last.
LEMMA PlacesRun ==
  ASSUME Cutting
  PROVE  /\ ops \in Seq(DiffOp) /\ Len(ops) \in Nat /\ Len(old) \in Nat /\ Len(new) \in Nat /\ Len(hunks) \in Nat
         /\ Tracks(OldPlaces, old, ops, "insert", "old_line")
         /\ Tracks(NewPlaces, new, ops, "delete", "new_line")
         /\ OldPlaces[0] = 0 /\ OldPlaces[Len(ops)] = Len(old)
         /\ NewPlaces[0] = 0 /\ NewPlaces[Len(ops)] = Len(new)
<1>1. /\ ops \in Seq(DiffOp) /\ Len(ops) \in Nat /\ Len(old) \in Nat /\ Len(new) \in Nat /\ Len(hunks) \in Nat
      /\ Tracks(OldPlaces, old, ops, "insert", "old_line")
      /\ Tracks(NewPlaces, new, ops, "delete", "new_line")
  BY DEF Cutting, Walked, Came, CutSoFar, OldPlaces, NewPlaces
<1>2. OldPlaces[0] = 0 /\ NewPlaces[0] = 0
  BY <1>1 DEF Tracks
<1>3. OldPlaces[Len(ops)] = Len(old) /\ NewPlaces[Len(ops)] = Len(new)
  BY <1>1 DEF Cutting, OldPlaces, NewPlaces, PlacesOf
<1> QED BY <1>1, <1>2, <1>3

\* The header of a hunk, as a reader of the patch takes it.
LEMMA ReaderFinds ==
  ASSUME Cutting, NEW h \in 1..Len(hunks)
  PROVE  /\ From(h) = OldPlaces[hunks[h].begin] + 1 /\ Upto(h) = OldPlaces[hunks[h].end]
         /\ From(h) \in Int /\ hunks[h].old_range[2] \in Int
<1> DEFINE b == hunks[h].begin
           e == hunks[h].end
           a == OldPlaces
           R == hunks[h].old_range
<1>1. /\ b \in 0..Len(ops) /\ e \in 0..Len(ops) /\ b < e
      /\ R = UnifiedRange(Side(SubSeq(ops, b + 1, e), "insert"), "old_line", SubSeq(ops, b + 1, e)[1])
  BY HunkIs DEF Fitting, Cutting
<1>2. ops \in Seq(DiffOp) /\ Len(old) \in Nat /\ Tracks(a, old, ops, "insert", "old_line")
  BY PlacesRun
<1> HIDE DEF b, e, a, R
<1>3. R = (IF a[e] = a[b] THEN <<a[b], 0>> ELSE <<a[b] + 1, a[e] - a[b]>>) /\ a[b] <= a[e]
  BY <1>1, <1>2, RangeIs
<1>4. a[b] \in Nat /\ a[e] \in Nat
  BY <1>1, <1>2 DEF Tracks
<1>5. FirstLine(R) = a[b] + 1 /\ FirstLine(R) + R[2] - 1 = a[e] /\ R[2] \in Int
  <2>1. CASE a[e] = a[b]
    <3>1. R[1] = a[b] /\ R[2] = 0
      BY <1>3, <2>1
    <3> QED BY <1>4, <2>1, <3>1 DEF FirstLine
  <2>2. CASE a[e] # a[b]
    <3>1. R[1] = a[b] + 1 /\ R[2] = a[e] - a[b]
      BY <1>3, <2>2
    <3>2. a[e] - a[b] # 0 /\ a[b] + 1 + (a[e] - a[b]) - 1 = a[e]
      BY <1>4, <2>2
    <3>3. FirstLine(R) = a[b] + 1
      BY <3>1, <3>2 DEF FirstLine
    <3>4. a[e] - a[b] \in Int
      BY <1>4
    <3> QED BY <3>1, <3>2, <3>3, <3>4
  <2> QED BY <2>1, <2>2
<1>6. From(h) = FirstLine(R) /\ Upto(h) = From(h) + R[2] - 1
  BY DEF From, Upto, R
<1>7. From(h) = a[b] + 1 /\ Upto(h) = a[e] /\ From(h) \in Int /\ R[2] \in Int
  BY <1>4, <1>5, <1>6
<1> QED BY <1>7 DEF a, b, e, R

\* What a reader has taken before a hunk is what the hunks before it end with.
LEMMA ReaderTook ==
  ASSUME Cutting, NEW h \in 1..(Len(hunks) + 1)
  PROVE  /\ Taken(h) = OldPlaces[EndOfHunk(h - 1)]
         /\ EndOfHunk(h - 1) \in 0..Len(ops)
<1>1. Len(hunks) \in Nat /\ Len(ops) \in Nat /\ OldPlaces[0] = 0
  BY PlacesRun
<1>2. CASE h = 1
  BY <1>1, <1>2 DEF Taken, EndOfHunk
<1>3. CASE h # 1
  <2>1. h - 1 \in 1..Len(hunks) /\ h - 1 # 0
    BY <1>1, <1>3
  <2>2. Upto(h - 1) = OldPlaces[hunks[h - 1].end]
    BY <2>1, ReaderFinds
  <2>3. EndOfHunk(h - 1) = hunks[h - 1].end /\ Taken(h) = Upto(h - 1)
    BY <1>3, <2>1 DEF Taken, EndOfHunk
  <2>4. hunks[h - 1].end \in 0..Len(ops)
    BY <2>1, HunkIs DEF Fitting, Cutting
  <2> QED BY <2>2, <2>3, <2>4
<1> QED BY <1>2, <1>3

\* Hunks whose headers are in sequence do not overlap among the ops either.
LEMMA HunksApart ==
  ASSUME Cutting, InSequence, NEW h \in 1..Len(hunks)
  PROVE  EndOfHunk(h - 1) <= hunks[h].begin
<1> DEFINE x == EndOfHunk(h - 1)
           b == hunks[h].begin
           a == OldPlaces
<1>1. /\ Len(hunks) \in Nat /\ Len(ops) \in Nat /\ ops \in Seq(DiffOp) /\ Len(old) \in Nat
      /\ Tracks(a, old, ops, "insert", "old_line")
  BY PlacesRun
<1>2. b \in 0..Len(ops) /\ x < hunks[h].end /\ hunks[h].end \in 0..Len(ops)
  BY HunkIs DEF Fitting, Cutting
<1>3. CASE h = 1
  BY <1>2, <1>3 DEF EndOfHunk
<1>4. CASE h # 1
  <2>1. h - 1 \in 1..Len(hunks) /\ h \in 2..Len(hunks) /\ h - 1 # 0
    BY <1>1, <1>4
  <2>2. x = hunks[h - 1].end
    BY <2>1 DEF EndOfHunk
  <2>3. x \in 0..Len(ops) /\ (x < Len(ops) => Unchanged(x, x + 1)) /\ x # 0
    <3>1. Fitting(hunks[h - 1].begin, hunks[h - 1].end, EndOfHunk(h - 1 - 1))
      BY <2>1, HunkIs DEF Cutting
    <3> QED BY <2>2, <3>1 DEF Fitting
  <2>4. From(h) >= Upto(h - 1) + 1
    <3>1. From(h) >= From(h - 1) + hunks[h - 1].old_range[2]
      BY <2>1 DEF InSequence, From
    <3>2. Upto(h - 1) = From(h - 1) + hunks[h - 1].old_range[2] - 1
      BY DEF Upto
    <3>3. From(h - 1) \in Int /\ hunks[h - 1].old_range[2] \in Int
      BY <2>1, ReaderFinds
    <3> QED BY <3>1, <3>2, <3>3
  <2>5. From(h) = a[b] + 1 /\ Upto(h - 1) = a[x]
    BY <2>1, <2>2, ReaderFinds
  <2> HIDE DEF a, b, x
  <2>6. a[b] \in Nat /\ a[x] \in Nat
    BY <1>1, <1>2, <2>3 DEF Tracks
  <2>7. a[x] <= a[b]
    BY <2>4, <2>5, <2>6
  <2> SUFFICES ASSUME b < x PROVE FALSE
    BY <1>2, <2>3 DEF b, x
  <2>8. x \in 1..Len(ops) /\ x - 1 \in 0..Len(ops) /\ b <= x - 1 /\ ops[x].kind = "equal"
    <3>1. x < Len(ops)
      BY <1>1, <1>2, <2>3 DEF x
    <3> QED BY <1>1, <1>2, <2>3, <3>1 DEF Unchanged
  <2>9. a[x] = a[x - 1] + 1 /\ a[x - 1] \in Nat
    <3>1. a[x] = a[x - 1] + (IF ops[x].kind # "insert" THEN 1 ELSE 0) /\ a[x - 1] \in 0..Len(old)
      BY <1>1, <2>8 DEF Tracks
    <3> QED BY <1>1, <2>8, <3>1
  <2>10. a[b] <= a[x - 1]
    BY <1>1, <1>2, <2>8, PlacesGrow
  <2> QED BY <2>6, <2>7, <2>9, <2>10
<1> QED BY <1>3, <1>4

\* The pieces that a reader puts together.
PieceOf(h) == Part(old, Taken(h) + 1, From(h) - 1) \o Lines(After(hunks[h].body))

\* Each piece prints what the new text has from the end of one hunk to that of the next.
LEMMA PiecePrints ==
  ASSUME Cutting, InSequence, NEW h \in 1..Len(hunks)
  PROVE  PrintsLike(PieceOf(h), new, NewPlaces[EndOfHunk(h - 1)], NewPlaces[EndOfHunk(h)])
<1> DEFINE x == EndOfHunk(h - 1)
           b == hunks[h].begin
           e == hunks[h].end
           a == OldPlaces
           z == NewPlaces
<1>1. /\ Len(hunks) \in Nat /\ Len(ops) \in Nat /\ ops \in Seq(DiffOp) /\ old \in Seq(Line) /\ new \in Seq(Line)
      /\ Tracks(a, old, ops, "insert", "old_line") /\ Tracks(z, new, ops, "delete", "new_line")
      /\ Len(new) \in Nat
  BY PlacesRun DEF Cutting
<1>2. /\ b \in 0..Len(ops) /\ e \in 0..Len(ops) /\ b < e /\ Unchanged(x + 1, b)
  <2>1. Fitting(b, e, x)
    BY HunkIs DEF Cutting
  <2> HIDE DEF b, e, x
  <2> QED BY <2>1 DEF Fitting
<1>3. x \in 0..Len(ops) /\ Taken(h) = a[x] /\ x <= b /\ From(h) = a[b] + 1 /\ EndOfHunk(h) = e
  BY <1>1, ReaderTook, ReaderFinds, HunksApart DEF EndOfHunk
<1>4. After(hunks[h].body) = Side(SubSeq(ops, b + 1, e), "delete")
  BY HunkIs DEF Cutting
<1> HIDE DEF x, b, e, a, z
<1>5. a[b] \in Nat /\ z[x] \in Nat /\ z[b] \in Nat /\ z[e] \in Nat
  <2>1. \A k \in 0..Len(ops) : a[k] \in 0..Len(old)
    BY <1>1 DEF Tracks
  <2>2. \A k \in 0..Len(ops) : z[k] \in 0..Len(new)
    BY <1>1 DEF Tracks
  <2> QED BY <1>2, <1>3, <2>1, <2>2
<1>6. From(h) - 1 = a[b]
  BY <1>3, <1>5
<1>7. PrintsLike(Part(old, Taken(h) + 1, From(h) - 1), new, z[x], z[b])
  BY <1>1, <1>2, <1>3, <1>6, CopiedIs
<1>8. PrintsLike(Lines(After(hunks[h].body)), new, z[b], z[e])
  BY <1>1, <1>2, <1>4, HunkPrints
<1>9. z[x] <= z[b] /\ z[b] <= z[e]
  BY <1>1, <1>2, <1>3, PlacesGrow
<1>10. PrintsLike(PieceOf(h), new, z[x], z[e])
  BY <1>5, <1>7, <1>8, <1>9, PrintsOn DEF PieceOf
<1> QED BY <1>3, <1>10 DEF x, z

\* All pieces print what the new text has up to the end of the last hunk.
LEMMA PiecesPrint ==
  ASSUME Cutting, InSequence
  PROVE  PrintsLike(FlattenSeq([h \in 1..Len(hunks) |-> PieceOf(h)]), new, 0, NewPlaces[EndOfHunk(Len(hunks))])
<1> DEFINE s == [h \in 1..Len(hunks) |-> PieceOf(h)]
           n == Len(hunks)
           z == NewPlaces
<1>1. n \in Nat /\ Len(s) = n /\ (\A h \in 1..n : s[h] = PieceOf(h)) /\ z[0] = 0
  <2>1. Len(hunks) \in Nat /\ z[0] = 0
    BY PlacesRun
  <2> QED BY <2>1
<1>2. \A h \in 0..n : z[EndOfHunk(h)] \in Nat
  <2> SUFFICES ASSUME NEW h \in 0..n PROVE z[EndOfHunk(h)] \in Nat
    OBVIOUS
  <2>1. PICK g \in 1..(Len(hunks) + 1) : g - 1 = h
    <3>1. h + 1 \in 1..(Len(hunks) + 1) /\ h + 1 - 1 = h
      BY <1>1
    <3> QED BY <3>1
  <2>2. EndOfHunk(g - 1) \in 0..Len(ops)
    BY <2>1, ReaderTook
  <2>3. EndOfHunk(h) \in 0..Len(ops)
    BY <2>1, <2>2
  <2> QED BY <2>3, PlacesRun DEF Tracks
<1>3. \A h \in 1..n : z[EndOfHunk(h - 1)] <= z[EndOfHunk(h)]
  <2> SUFFICES ASSUME NEW h \in 1..n PROVE z[EndOfHunk(h - 1)] <= z[EndOfHunk(h)]
    OBVIOUS
  <2>1. Fitting(hunks[h].begin, hunks[h].end, EndOfHunk(h - 1)) /\ EndOfHunk(h) = hunks[h].end
    BY HunkIs DEF Cutting, EndOfHunk
  <2>2. EndOfHunk(h - 1) \in 0..Len(ops)
    BY <1>1, ReaderTook
  <2>3. EndOfHunk(h - 1) <= EndOfHunk(h) /\ EndOfHunk(h) \in 0..Len(ops)
    BY <2>1, <2>2 DEF Fitting
  <2> QED BY <2>2, <2>3, PlacesRun, PlacesGrow
<1>4. CASE n = 0
  <2>1. s = <<>>
    BY <1>1, <1>4
  <2>2. FlattenSeq(s) = <<>>
    BY <2>1 DEF FlattenSeq
  <2>3. PrintsLike(<<>>, new, 0, z[EndOfHunk(n)])
    BY <1>1, <1>4 DEF PrintsLike, EndOfHunk
  <2> QED BY <2>2, <2>3
<1>5. CASE n # 0
  <2> HIDE DEF s
  <2>1. PICK G : Flattens(G, s, n) /\ FlattenSeq(s) = G[n]
    <3>1. Len(s) \in Nat \ {0}
      BY <1>1, <1>5
    <3> QED BY <3>1, <1>1, FlattenIs
  <2>2. \A h \in 1..n : G[h] = IF h = 1 THEN s[h] ELSE G[h - 1] \o s[h]
    BY <2>1 DEF Flattens
  <2> DEFINE T == {h \in 1..n : PrintsLike(G[h], new, 0, z[EndOfHunk(h)])}
  <2>3. ASSUME NEW h \in 1..n, h = 1 \/ h - 1 \in T PROVE h \in T
    <3>1. PrintsLike(s[h], new, z[EndOfHunk(h - 1)], z[EndOfHunk(h)])
      BY <1>1, PiecePrints
    <3>2. CASE h = 1
      <4>1. z[EndOfHunk(h - 1)] = 0 /\ G[h] = s[h]
        BY <1>1, <2>2, <3>2 DEF EndOfHunk
      <4> QED BY <3>1, <4>1
    <3>3. CASE h # 1
      <4>1. PrintsLike(G[h - 1], new, 0, z[EndOfHunk(h - 1)]) /\ G[h] = G[h - 1] \o s[h]
        BY <2>2, <2>3, <3>3
      <4>2. /\ z[EndOfHunk(h - 1)] \in Nat /\ z[EndOfHunk(h)] \in Nat /\ 0 <= z[EndOfHunk(h - 1)]
            /\ z[EndOfHunk(h - 1)] <= z[EndOfHunk(h)]
        <5>1. h - 1 \in 0..n /\ h \in 0..n
          BY <1>1
        <5>2. z[EndOfHunk(h - 1)] \in Nat /\ z[EndOfHunk(h)] \in Nat
          BY <1>2, <5>1
        <5> QED BY <1>3, <5>2
      <4> HIDE DEF z
      <4>3. PrintsLike(G[h - 1] \o s[h], new, 0, z[EndOfHunk(h)])
        BY <3>1, <4>1, <4>2, PrintsOn
      <4> QED BY <4>1, <4>3
    <3> QED BY <3>2, <3>3
  <2>4. n \in T
    <3> HIDE DEF T, n
    <3>1. \A h \in 1..n : h = 1 \/ h - 1 \in T => h \in T
      BY <2>3
    <3>2. \A h \in 1..n : h \in T
      BY <3>1, <1>1, CountUp
    <3> QED BY <3>2, <1>1, <1>5
  <2> QED BY <2>1, <2>4 DEF s
<1> QED BY <1>4, <1>5

(* A patch whose hunks are in sequence makes the new text of the old, but  *)
(* for a newline that is missing at its end, for any two texts: what the   *)
(* reader copies between hunks is what both texts have there.              *)
THEOREM PatchMakesTheNewText == PlanSpec => []PatchYieldsNew
<1>1. DiffInv => PatchYieldsNew
  <2> SUFFICES ASSUME DiffInv, phase = "done", InSequence PROVE PrintedText(Patched) = PrintedText(new)
    BY DEF PatchYieldsNew
  <2>1. Cutting /\ Unchanged(cursor + 1, Len(ops)) /\ cursor = EndOfHunk(Len(hunks))
    BY DEF DiffInv, Cutting, CutSoFar
  <2> DEFINE n == Len(hunks)
             a == OldPlaces
             z == NewPlaces
             F == FlattenSeq([h \in 1..n |-> PieceOf(h)])
             R == Part(old, Taken(n + 1) + 1, Len(old))
  <2>2. /\ ops \in Seq(DiffOp) /\ Len(ops) \in Nat /\ Len(new) \in Nat /\ n \in Nat
        /\ Tracks(a, old, ops, "insert", "old_line") /\ Tracks(z, new, ops, "delete", "new_line")
        /\ a[Len(ops)] = Len(old) /\ z[Len(ops)] = Len(new) /\ old \in Seq(Line) /\ new \in Seq(Line)
    BY <2>1, PlacesRun DEF Cutting
  <2>3. cursor \in 0..Len(ops) /\ Taken(n + 1) = a[cursor]
    <3>1. n + 1 \in 1..(Len(hunks) + 1) /\ n + 1 - 1 = n
      BY <2>2
    <3> QED BY <2>1, <3>1, ReaderTook
  <2>4. PrintsLike(F, new, 0, z[cursor])
    BY <2>1, PiecesPrint
  <2>5. Patched = F \o R
    BY DEF Patched, PieceOf
  <2> HIDE DEF a, z, F
  <2>6. PrintsLike(R, new, z[cursor], z[Len(ops)])
    <3>1. Len(ops) \in 0..Len(ops) /\ cursor <= Len(ops)
      BY <2>2, <2>3
    <3> QED BY <2>1, <2>2, <2>3, <3>1, CopiedIs
  <2> HIDE DEF n, R
  <2>7. z[cursor] \in Nat /\ z[cursor] <= z[Len(ops)] /\ 0 <= z[cursor]
    BY <2>2, <2>3 DEF Tracks
  <2>8. PrintsLike(Patched, new, 0, Len(new))
    BY <2>2, <2>4, <2>5, <2>6, <2>7, PrintsOn
  <2>9. DOMAIN Patched = 1..Len(new) /\ DOMAIN new = 1..Len(new)
        /\ \A m \in 1..Len(new) : Printed(Patched[m]) = Printed(new[m])
    <3>1. Patched \in Seq(Printable) /\ Len(Patched) = Len(new)
          /\ \A m \in 1..Len(Patched) : Printed(Patched[m]) = Printed(new[0 + m])
      BY <2>2, <2>8 DEF PrintsLike
    <3>2. \A m \in 1..Len(new) : 0 + m = m
      OBVIOUS
    <3> QED BY <2>2, <3>1, <3>2
  <2> QED BY <2>9 DEF PrintedText
<1>2. PlanInit => RewriteInv /\ TextsInv /\ DiffInv
  BY PlanBegins
<1>3. RewriteInv /\ TextsInv /\ DiffInv /\ [PlanNext]_<<diffVars, planVars>>
        => RewriteInv' /\ TextsInv' /\ DiffInv'
  BY RewriteStep, TextsStep, DiffStep
<1> QED BY <1>1, <1>2, <1>3, PTL DEF PlanSpec

-----------------------------------------------------------------------------
(* The table *)

\* What comes of the cells to the right and below, in a row of top cells.
CellIn(r, c, below, row, top) ==
  IF c = top THEN 0
  ELSE IF old[r + 1] = new[c + 1] THEN below[c + 2] + 1
                                  ELSE Larger(below[c + 1], row[c + 2])

CellOf(r, c, below, row) == CellIn(r, c, below, row, Len(new))

\* A row of top cells, counted from 0, is what its recursion says.
Rows(f, r, below, top) ==
  f = [c \in 0..top |->
         IF c = top THEN 0
         ELSE IF old[r + 1] = new[c + 1] THEN below[c + 2] + 1
                                         ELSE Larger(below[c + 1], f[c + 1])]

\* The recursion goes from right to left, so it has a solution.
LEMMA RowExists ==
  ASSUME NEW top \in Nat, NEW r, NEW below \in [1..(top + 1) -> Nat]
  PROVE  \E f \in [0..top -> Nat] : Rows(f, r, below, top)
<1> DEFINE S == 0..top
           rank == [c \in S |-> top - c]
           next(f) == [c \in S |-> IF c = top THEN 0
                                   ELSE IF old[r + 1] = new[c + 1] THEN below[c + 2] + 1
                                                                   ELSE Larger(below[c + 1], f[c + 1])]
           G == [f \in [S -> Nat] |-> next(f)]
<1>1. rank \in [S -> 0..top] /\ \A c \in S : rank[c] = top - c
  OBVIOUS
<1>2. ASSUME NEW f \in [S -> Nat] PROVE next(f) \in [S -> Nat]
  <2> SUFFICES ASSUME NEW c \in S PROVE next(f)[c] \in Nat
    OBVIOUS
  <2>1. CASE c # top
    <3>1. c + 1 \in S /\ c + 1 \in 1..(top + 1) /\ c + 2 \in 1..(top + 1)
      BY <2>1
    <3>2. f[c + 1] \in Nat /\ below[c + 1] \in Nat /\ below[c + 2] \in Nat
      BY <3>1
    <3> HIDE DEF S
    <3> QED BY <2>1, <3>2 DEF Larger
  <2> QED BY <2>1
<1>3. ASSUME NEW f \in [S -> Nat], NEW g \in [S -> Nat], NEW c \in S,
             \A d \in S : rank[d] < rank[c] => f[d] = g[d]
      PROVE  next(f)[c] = next(g)[c]
  <2>1. CASE c # top
    <3>1. c + 1 \in S /\ rank[c + 1] < rank[c]
      BY <1>1, <2>1
    <3>2. f[c + 1] = g[c + 1]
      BY <1>3, <3>1
    <3> QED BY <3>2
  <2> QED BY <2>1
<1>4. G \in [[S -> Nat] -> [S -> Nat]] /\ \A f \in [S -> Nat] : G[f] = next(f)
  <2> HIDE DEF S, next
  <2> QED BY <1>2
<1>5. Grounded(G, S, Nat, rank)
  <2> HIDE DEF S, next, G, rank
  <2> SUFFICES ASSUME NEW f \in [S -> Nat], NEW g \in [S -> Nat], NEW c \in S,
                      \A d \in S : rank[d] < rank[c] => f[d] = g[d]
               PROVE  G[f][c] = G[g][c]
    BY DEF Grounded
  <2> QED BY <1>3, <1>4
<1>6. \E f \in [S -> Nat] : f = G[f]
  <2> HIDE DEF S, next, G, rank
  <2>1. Recursion(G, S, Nat, rank, top)
    BY <1>1, <1>4, <1>5 DEF Recursion
  <2> QED BY <2>1, RecursionExists
<1>7. PICK f \in [S -> Nat] : f = G[f]
  BY <1>6
<1>8. f = next(f)
  <2> HIDE DEF next, G
  <2> QED BY <1>4, <1>7
<1> QED BY <1>8 DEF Rows

\* The recursion has no other solution.
LEMMA RowUnique ==
  ASSUME NEW top \in Nat, NEW r, NEW below, NEW f, NEW h,
         Rows(f, r, below, top), Rows(h, r, below, top), NEW c \in 0..top
  PROVE  f[c] = h[c]
<1> DEFINE T == {n \in 0..top : f[top - n] = h[top - n]}
<1>1. ASSUME NEW n \in 0..top, n = 0 \/ n - 1 \in T PROVE n \in T
  <2> DEFINE d == top - n
  <2>1. d \in 0..top /\ (n # 0 => d # top /\ d + 1 = top - (n - 1)) /\ (n = 0 => d = top)
    OBVIOUS
  <2> HIDE DEF d
  <2>2. n # 0 => f[d + 1] = h[d + 1]
    BY <1>1, <2>1
  <2>3. f[d] = h[d]
    BY <2>1, <2>2 DEF Rows
  <2> QED BY <2>3 DEF d
<1>2. top - c \in T
  <2> HIDE DEF T
  <2>1. top - c \in 0..top /\ 0 \in Nat
    OBVIOUS
  <2> QED BY <1>1, <2>1, CountUp
<1> QED BY <1>2

RowOf(row, f, top) == \A c \in 1..(top + 1) : row[c] = f[c - 1]

\* What the loop writes to a row of top cells.
LEMMA RowMeans ==
  ASSUME NEW top \in Nat, NEW r, NEW below \in [1..(top + 1) -> Nat],
         NEW f, Rows(f, r, below, top), NEW row, RowOf(row, f, top)
  PROVE  /\ \A c \in 1..(top + 1) : row[c] \in Nat
         /\ \A c \in 0..top : row[c + 1] = CellIn(r, c, below, row, top)
<1>1. PICK h \in [0..top -> Nat] : Rows(h, r, below, top)
  BY RowExists
<1>2. \A c \in 0..top : f[c] = h[c]
  BY <1>1, RowUnique
<1>3. \A c \in 0..top : row[c + 1] = h[c]
  <2> SUFFICES ASSUME NEW c \in 0..top PROVE row[c + 1] = h[c]
    OBVIOUS
  <2>1. c + 1 \in 1..(top + 1) /\ (c + 1) - 1 = c
    OBVIOUS
  <2> QED BY <1>2, <2>1 DEF RowOf
<1>4. \A m \in 1..(top + 1) : row[m] \in Nat
  <2> SUFFICES ASSUME NEW m \in 1..(top + 1) PROVE row[m] \in Nat
    OBVIOUS
  <2>1. m - 1 \in 0..top /\ (m - 1) + 1 = m
    OBVIOUS
  <2>2. h[m - 1] \in Nat
    BY <2>1
  <2> QED BY <1>3, <2>1, <2>2
<1>5. ASSUME NEW c \in 0..top PROVE row[c + 1] = CellIn(r, c, below, row, top)
  <2>1. CASE c = top
    BY <1>1, <1>3, <2>1 DEF Rows, CellIn
  <2>2. CASE c # top
    <3>1. c + 1 \in 0..top /\ (c + 1) + 1 = c + 2
      BY <2>2
    <3>2. row[c + 2] = h[c + 1] /\ row[c + 1] = h[c]
      BY <1>3, <3>1
    <3> QED BY <1>1, <2>2, <3>2 DEF Rows, CellIn
  <2> QED BY <2>1, <2>2
<1> QED BY <1>4, <1>5

\* What the loop writes to a row of the table.
LEMMA RowIs ==
  ASSUME Len(new) \in Nat, NEW r, NEW below \in [1..(Len(new) + 1) -> Nat]
  PROVE  /\ Row(r, below) \in [1..(Len(new) + 1) -> Nat]
         /\ \A c \in 0..Len(new) : Row(r, below)[c + 1] = CellOf(r, c, below, Row(r, below))
<1> DEFINE top == Len(new)
           f == CHOOSE g : Rows(g, r, below, top)
           row == Row(r, below)
<1>1. row = [c \in 1..(top + 1) |-> f[c - 1]]
  BY DEF Row, Rows
<1>2. top \in Nat /\ below \in [1..(top + 1) -> Nat]
  OBVIOUS
<1> HIDE DEF top, row
<1>3. Rows(f, r, below, top)
  BY <1>2, RowExists
<1> HIDE DEF f
<1>4. RowOf(row, f, top)
  BY <1>1 DEF RowOf
<1>5. /\ \A c \in 1..(top + 1) : row[c] \in Nat
      /\ \A c \in 0..top : row[c + 1] = CellIn(r, c, below, row, top)
  BY <1>2, <1>3, <1>4, RowMeans
<1>6. row \in [1..(top + 1) -> Nat]
  BY <1>1, <1>5
<1> QED BY <1>5, <1>6 DEF CellOf, top, row

\* The rows from n on, counted from 0, are filled; the last one is all zero.
Filled(n) ==
  /\ cell \in [1..(Len(old) + 1) -> [1..(Len(new) + 1) -> Nat]]
  /\ \A r \in n..Len(old) : \A c \in 0..Len(new) :
       cell[r + 1][c + 1] = IF r = Len(old) THEN 0 ELSE CellOf(r, c, cell[r + 2], cell[r + 1])

\* One more row is filled.
LEMMA FillStep ==
  ASSUME old \in Seq(Line), new \in Seq(Line), i \in 0..Len(old), Filled(i), FillRow
  PROVE  Filled(i)' /\ i' \in 0..Len(old)
<1>1. /\ Len(old) \in Nat /\ Len(new) \in Nat /\ i \in 1..Len(old) /\ i' = i - 1 /\ UNCHANGED <<old, new>>
      /\ cell' = [cell EXCEPT ![i] = Row(i - 1, cell[i + 1])]
  BY DEF FillRow
<1> DEFINE below == cell[i + 1]
           R == Row(i - 1, below)
<1>2. cell \in [1..(Len(old) + 1) -> [1..(Len(new) + 1) -> Nat]] /\ below \in [1..(Len(new) + 1) -> Nat]
  BY <1>1 DEF Filled
<1>3. /\ R \in [1..(Len(new) + 1) -> Nat]
      /\ \A c \in 0..Len(new) : R[c + 1] = CellOf(i - 1, c, below, R)
  <2> HIDE DEF below
  <2> QED BY <1>1, <1>2, RowIs
<1>4. cell' \in [1..(Len(old) + 1) -> [1..(Len(new) + 1) -> Nat]] /\ cell'[i] = R
      /\ \A r \in 1..(Len(old) + 1) : r # i => cell'[r] = cell[r]
  <2> HIDE DEF R
  <2> QED BY <1>1, <1>2, <1>3 DEF R
<1> HIDE DEF R
<1>5. ASSUME NEW r \in (i - 1)..Len(old), NEW c \in 0..Len(new)
      PROVE  cell'[r + 1][c + 1] = IF r = Len(old) THEN 0 ELSE CellOf(r, c, cell'[r + 2], cell'[r + 1])
  <2>1. CASE r = i - 1
    <3>1. r + 1 = i /\ r + 2 = i + 1 /\ r # Len(old) /\ i + 1 \in 1..(Len(old) + 1) /\ i + 1 # i
      BY <1>1, <2>1
    <3>2. cell'[r + 1] = R /\ cell'[r + 2] = below
      BY <1>4, <3>1
    <3> QED BY <1>3, <2>1, <3>1, <3>2
  <2>2. CASE r # i - 1
    <3>1. r \in i..Len(old) /\ r + 1 \in 1..(Len(old) + 1) /\ r + 1 # i
      BY <1>1, <2>2
    <3>2. r # Len(old) => r + 2 \in 1..(Len(old) + 1) /\ r + 2 # i
      BY <1>1, <3>1
    <3>3. cell'[r + 1] = cell[r + 1] /\ (r # Len(old) => cell'[r + 2] = cell[r + 2])
      BY <1>4, <3>1, <3>2
    <3>4. cell[r + 1][c + 1] = IF r = Len(old) THEN 0 ELSE CellOf(r, c, cell[r + 2], cell[r + 1])
      BY <3>1 DEF Filled
    <3> QED BY <3>3, <3>4
  <2> QED BY <2>1, <2>2
<1>6. (\A r \in i..Len(old) : \A c \in 0..Len(new) :
         cell[r + 1][c + 1] = IF r = Len(old) THEN 0 ELSE CellOf(r, c, cell[r + 2], cell[r + 1]))'
  BY <1>1, <1>5 DEF CellOf, CellIn
<1> QED BY <1>1, <1>4, <1>6 DEF Filled

\* What cells of a filled table are.
LEMMA CellIs ==
  ASSUME old \in Seq(Line), new \in Seq(Line), Filled(0), NEW r \in 0..Len(old), NEW c \in 0..Len(new)
  PROVE  /\ cell[r + 1][c + 1] \in Nat
         /\ r = Len(old) \/ c = Len(new) => cell[r + 1][c + 1] = 0
         /\ r < Len(old) /\ c < Len(new) =>
              /\ cell[r + 2][c + 2] \in Nat /\ cell[r + 2][c + 1] \in Nat /\ cell[r + 1][c + 2] \in Nat
              /\ old[r + 1] = new[c + 1] => cell[r + 1][c + 1] = cell[r + 2][c + 2] + 1
              /\ old[r + 1] # new[c + 1] =>
                   /\ cell[r + 1][c + 1] >= cell[r + 2][c + 1] /\ cell[r + 1][c + 1] >= cell[r + 1][c + 2]
                   /\ cell[r + 1][c + 1] \in {cell[r + 2][c + 1], cell[r + 1][c + 2]}
<1>1. Len(old) \in Nat /\ Len(new) \in Nat
  OBVIOUS
<1>2. \A m \in 1..(Len(old) + 1), n \in 1..(Len(new) + 1) : cell[m][n] \in Nat
  BY DEF Filled
<1>3. cell[r + 1][c + 1] = IF r = Len(old) THEN 0 ELSE CellOf(r, c, cell[r + 2], cell[r + 1])
  BY DEF Filled
<1>4. cell[r + 1][c + 1] \in Nat
  BY <1>1, <1>2
<1>5. CASE r = Len(old) \/ c = Len(new)
  BY <1>1, <1>3, <1>4, <1>5 DEF CellOf, CellIn
<1>6. CASE r < Len(old) /\ c < Len(new)
  <2>1. cell[r + 2][c + 2] \in Nat /\ cell[r + 2][c + 1] \in Nat /\ cell[r + 1][c + 2] \in Nat
    <3>1. r + 1 \in 1..(Len(old) + 1) /\ r + 2 \in 1..(Len(old) + 1) /\ c + 1 \in 1..(Len(new) + 1)
          /\ c + 2 \in 1..(Len(new) + 1)
      BY <1>1, <1>6
    <3> QED BY <1>2, <3>1
  <2>2. cell[r + 1][c + 1] = IF old[r + 1] = new[c + 1] THEN cell[r + 2][c + 2] + 1
                             ELSE Larger(cell[r + 2][c + 1], cell[r + 1][c + 2])
    BY <1>1, <1>3, <1>6 DEF CellOf, CellIn
  <2>3. Larger(cell[r + 2][c + 1], cell[r + 1][c + 2]) \in {cell[r + 2][c + 1], cell[r + 1][c + 2]}
        /\ Larger(cell[r + 2][c + 1], cell[r + 1][c + 2]) >= cell[r + 2][c + 1]
        /\ Larger(cell[r + 2][c + 1], cell[r + 1][c + 2]) >= cell[r + 1][c + 2]
    BY <2>1 DEF Larger
  <2> QED BY <1>4, <1>6, <2>1, <2>2, <2>3
<1> QED BY <1>1, <1>4, <1>5, <1>6

(* Nothing longer can be found in both texts from r and c on than their    *)
(* cell says.                                                              *)
LEMMA NothingLonger ==
  ASSUME old \in Seq(Line), new \in Seq(Line), Filled(0), NEW r \in 0..Len(old), NEW c \in 0..Len(new),
         NEW q \in Seq(Line), Within(q, old, r), Within(q, new, c)
  PROVE  Len(q) <= cell[r + 1][c + 1]
<1> DEFINE Longer(a, b, p) == /\ p \in Seq(Line) /\ Within(p, old, a) /\ Within(p, new, b)
                              /\ ~(Len(p) <= cell[a + 1][b + 1])
           Far(d) == \E a \in 0..Len(old), b \in 0..Len(new), p \in Seq(Line) : d = Len(old) - a + Len(new) - b /\ Longer(a, b, p)
           T == {d \in Nat : Far(d)}
<1>1. Len(old) \in Nat /\ Len(new) \in Nat
  OBVIOUS
<1> SUFFICES ASSUME T # {} PROVE FALSE
  <2> SUFFICES ASSUME ~(Len(q) <= cell[r + 1][c + 1]) PROVE T # {}
    OBVIOUS
  <2>1. Longer(r, c, q)
    OBVIOUS
  <2> HIDE DEF Longer
  <2>2. Len(old) - r + Len(new) - c \in T
    BY <1>1, <2>1
  <2> QED BY <2>2
<1>2. PICK d \in T : \A e \in T : d <= e
  <2> HIDE DEF T
  <2>1. T \in SUBSET Nat
    BY DEF T
  <2> QED BY <2>1, Least
<1>3. PICK a \in 0..Len(old), b \in 0..Len(new), p \in Seq(Line) : d = Len(old) - a + Len(new) - b /\ Longer(a, b, p)
  OBVIOUS
<1>4. \A m \in 0..Len(old), n \in 0..Len(new) :
        a <= m /\ b <= n /\ a + b < m + n => \A s : ~Longer(m, n, s)
  <2> SUFFICES ASSUME NEW m \in 0..Len(old), NEW n \in 0..Len(new), a + b < m + n, NEW s, Longer(m, n, s)
               PROVE  FALSE
    OBVIOUS
  <2>0. s \in Seq(Line)
    OBVIOUS
  <2> HIDE DEF Longer
  <2> DEFINE g == Len(old) - m + Len(new) - n
  <2>1. g \in T
    <3>1. g \in Nat
      BY <1>1
    <3>2. g = Len(old) - m + Len(new) - n
      OBVIOUS
    <3> HIDE DEF g
    <3>3. Far(g)
      BY <2>0, <3>2
    <3> HIDE DEF Far
    <3> QED BY <3>1, <3>3
  <2> HIDE DEF T
  <2>2. d <= Len(old) - m + Len(new) - n
    BY <1>2, <2>1
  <2> QED BY <1>1, <1>3, <2>2
<1>5. p \in Seq(Line) /\ Within(p, old, a) /\ Within(p, new, b) /\ ~(Len(p) <= cell[a + 1][b + 1])
  BY <1>3
<1>6. \A m \in 0..Len(old), n \in 0..Len(new) :
        a <= m /\ b <= n /\ a + b < m + n =>
          \A s \in Seq(Line) : Within(s, old, m) /\ Within(s, new, n) => Len(s) <= cell[m + 1][n + 1]
  BY <1>4
<1> HIDE DEF T, Far, Longer
<1>7. Len(p) \in Nat /\ cell[a + 1][b + 1] \in Nat
  BY <1>5, CellIs
<1>8. p # <<>>
  BY <1>5, <1>7
<1>9. a < Len(old) /\ b < Len(new) /\ Within(Tail(p), old, a + 1) /\ Within(Tail(p), new, b + 1)
  BY <1>5, <1>8, RestWithin
<1>10. a + 1 \in 0..Len(old) /\ b + 1 \in 0..Len(new) /\ (a + 1) + 1 = a + 2 /\ (b + 1) + 1 = b + 2
  BY <1>1, <1>9
<1>11. CASE old[a + 1] = new[b + 1]
  <2>1. Tail(p) \in Seq(Line) /\ Len(Tail(p)) = Len(p) - 1
    BY <1>5, <1>8, HeadTailProperties
  <2>2. Len(Tail(p)) <= cell[(a + 1) + 1][(b + 1) + 1]
    <3>1. a <= a + 1 /\ b <= b + 1 /\ a + b < (a + 1) + (b + 1)
      OBVIOUS
    <3> QED BY <1>6, <1>9, <1>10, <2>1, <3>1
  <2>3. cell[a + 1][b + 1] = cell[a + 2][b + 2] + 1 /\ cell[a + 2][b + 2] \in Nat
    BY <1>9, <1>11, CellIs
  <2> QED BY <1>5, <1>7, <1>10, <2>1, <2>2, <2>3
<1>12. CASE old[a + 1] # new[b + 1]
  <2>1. /\ cell[a + 1][b + 1] >= cell[a + 2][b + 1] /\ cell[a + 1][b + 1] >= cell[a + 1][b + 2]
        /\ cell[a + 2][b + 1] \in Nat /\ cell[a + 1][b + 2] \in Nat
    BY <1>9, <1>12, CellIs
  <2>2. CASE p[1] # old[a + 1]
    <3>1. Within(p, old, a + 1)
      BY <1>5, <1>8, <2>2, LaterWithin
    <3>2. a <= a + 1 /\ b <= b /\ a + b < (a + 1) + b
      OBVIOUS
    <3>3. Len(p) <= cell[(a + 1) + 1][b + 1]
      BY <1>5, <1>6, <1>10, <3>1, <3>2
    <3> DEFINE shared == Len(p)
               next == cell[a + 2][b + 1]
               here == cell[a + 1][b + 1]
    <3>4. shared <= next
      BY <1>10, <3>3
    <3>5. shared \in Nat /\ next \in Nat /\ here \in Nat /\ here >= next
      BY <1>7, <2>1
    <3>6. shared <= here
      <4> HIDE DEF shared, next, here
      <4> QED BY <3>4, <3>5
    <3> QED BY <1>5, <3>6
  <2>3. CASE p[1] # new[b + 1]
    <3>1. Within(p, new, b + 1)
      BY <1>5, <1>8, <2>3, LaterWithin
    <3>2. a <= a /\ b <= b + 1 /\ a + b < a + (b + 1)
      OBVIOUS
    <3>3. Len(p) <= cell[a + 1][(b + 1) + 1]
      BY <1>5, <1>6, <1>10, <3>1, <3>2
    <3> DEFINE shared == Len(p)
               next == cell[a + 1][b + 2]
               here == cell[a + 1][b + 1]
    <3>4. shared <= next
      BY <1>10, <3>3
    <3>5. shared \in Nat /\ next \in Nat /\ here \in Nat /\ here >= next
      BY <1>7, <2>1
    <3>6. shared <= here
      <4> HIDE DEF shared, next, here
      <4> QED BY <3>4, <3>5
    <3> QED BY <1>5, <3>6
  <2> QED BY <1>12, <2>2, <2>3
<1> QED BY <1>11, <1>12

-----------------------------------------------------------------------------
(* The lines around an edit *)

\* Lines start within their text.
LEMMA StartIs ==
  ASSUME NEW t \in Line, NEW n
  PROVE  StartOfLine(t, n) \in 0..Len(t)
<1> DEFINE S == {Len(t)} \cup {s \in LineStarts(t) : LineIndex(t, s) = n}
<1>1. Len(t) \in Nat
  BY DEF Line
<1>2. LineStarts(t) \in SUBSET (0..Len(t))
  BY <1>1 DEF LineStarts
<1>3. S \in SUBSET (0..Len(t)) /\ S # {}
  BY <1>1, <1>2
<1>4. StartOfLine(t, n) = Min(S)
  BY DEF StartOfLine
<1> HIDE DEF S
<1>5. S \in SUBSET Nat
  BY <1>3
<1> QED BY <1>3, <1>4, <1>5, LeastOf

\* What the review shows is made of texts.
LEMMA WindowTyped ==
  ASSUME RewriteInv, TextsInv, NEW e \in edits, Fits(e)
  PROVE  OldWindow(disk, e) \in Line /\ NewWindow(disk, e) \in Line
<1>1. /\ disk \in Line /\ e.replacement \in Line /\ e.begin \in Nat /\ e.end \in Nat
      /\ e.begin <= e.end /\ e.end <= Len(disk) /\ Len(disk) \in Nat
  BY EditIs DEF Line
<1>2. WindowBegin(disk, e) \in 0..Len(disk) /\ WindowEnd(disk, e) \in 0..Len(disk)
  BY <1>1, StartIs DEF WindowBegin, WindowEnd
<1>3. e.begin \in 0..Len(disk) /\ e.end \in 0..Len(disk)
  BY <1>1
<1>4. OldWindow(disk, e) \in Line
  BY <1>1, <1>2, PartTyped DEF OldWindow
<1>5. SubSeq(disk, WindowBegin(disk, e) + 1, e.begin) \in Line /\ SubSeq(disk, e.end + 1, WindowEnd(disk, e)) \in Line
  BY <1>1, <1>2, <1>3, PartTyped
<1>6. NewWindow(disk, e) \in Line
  BY <1>1, <1>5, ConcatProperties DEF NewWindow, Line
<1> QED BY <1>4, <1>6

\* So are the lines it shows.
LEMMA ShownAre == ASSUME NEW t \in Line PROVE ShownLines(t) \in Seq(Line)
<1>1. << <<>> >> \in Seq(Line)
  BY DEF Line
<1> QED BY <1>1, LinesAre DEF ShownLines

-----------------------------------------------------------------------------
(* The walk through the table *)

\* What is kept and what can still be kept is as much as can be kept at all.
KeptSoFar == Cardinality(Kept) + cell[i + 1][j + 1] = cell[1][1]

\* A line is changed only where the two texts differ.
Differing ==
  \A k \in DOMAIN ops :
    LET o == ops[k].old_line
        n == ops[k].new_line
    IN ops[k].kind # "equal" => ~(o <= Len(old) /\ n <= Len(new) /\ old[o] = new[n])

WalkInv ==
  \/ phase = "waiting" /\ j = 0 /\ ops = <<>>
  \/ /\ old \in Seq(Line) /\ new \in Seq(Line)
     /\ \/ phase = "table" /\ i \in 0..Len(old) /\ j = 0 /\ ops = <<>> /\ Filled(i)
        \/ /\ phase \in {"walk", "hunks", "done"} /\ Walked /\ Filled(0) /\ KeptSoFar /\ Differing
           /\ phase # "walk" => i = Len(old) /\ j = Len(new)

\* Nothing was kept before the walk.
LEMMA KeptFinite == ASSUME ops \in Seq(DiffOp) PROVE IsFiniteSet(Kept) /\ Cardinality(Kept) \in Nat
<1>1. Kept \subseteq 1..Len(ops) /\ IsFiniteSet(1..Len(ops))
  <2>1. Len(ops) \in Nat
    OBVIOUS
  <2>2. IsFiniteSet(1..Len(ops))
    BY <2>1, FS_Interval
  <2> QED BY <2>1, <2>2 DEF Kept
<1> QED BY <1>1, FS_Subset, FS_CardinalityType

\* Whatever the walk does, it keeps as much as it can.
LEMMA KeptStep ==
  ASSUME old \in Seq(Line), new \in Seq(Line), Walked, Filled(0), KeptSoFar, Keep \/ Delete \/ Insert
  PROVE  KeptSoFar'
<1>1. /\ ops \in Seq(DiffOp) /\ i \in 0..Len(old) /\ j \in 0..Len(new) /\ Len(old) \in Nat /\ Len(new) \in Nat
      /\ Len(ops) \in Nat
  BY DEF Walked
<1>2. IsFiniteSet(Kept) /\ Cardinality(Kept) \in Nat
  BY <1>1, KeptFinite
<1>3. ASSUME NEW kind, NEW line, ops' = Append(ops, Op(kind, line))
      PROVE  Cardinality(Kept)' = Cardinality(Kept) + (IF kind = "equal" THEN 1 ELSE 0)
  <2> DEFINE o == Op(kind, line)
  <2>1. o.kind = kind
    BY DEF Op
  <2> HIDE DEF o
  <2>2. /\ DOMAIN ops' = 1..(Len(ops) + 1) /\ DOMAIN ops = 1..Len(ops) /\ ops'[Len(ops) + 1] = o
        /\ \A k \in 1..Len(ops) : ops'[k] = ops[k]
    <3>1. ops' = Append(ops, o)
      BY <1>3 DEF o
    <3> QED BY <1>1, <3>1
  <2>3. CASE kind = "equal"
    <3>1. Kept' = Kept \cup {Len(ops) + 1}
      BY <1>1, <2>1, <2>2, <2>3 DEF Kept
    <3>2. Len(ops) + 1 \notin Kept
      BY <1>1, <2>2 DEF Kept
    <3>3. Cardinality(Kept \cup {Len(ops) + 1}) = Cardinality(Kept) + 1
      BY <1>2, <3>2, FS_AddElement
    <3> QED BY <2>3, <3>1, <3>3
  <2>4. CASE kind # "equal"
    <3>1. Kept' = Kept
      BY <1>1, <2>1, <2>2, <2>4 DEF Kept
    <3> QED BY <1>2, <2>4, <3>1
  <2> QED BY <2>3, <2>4
<1>4. Cardinality(Kept) + cell[i + 1][j + 1] = cell[1][1] /\ cell[i + 1][j + 1] \in Nat
  BY <1>1, CellIs DEF KeptSoFar
<1>5. CASE Keep
  <2>1. /\ i < Len(old) /\ j < Len(new) /\ old[i + 1] = new[j + 1] /\ i' = i + 1 /\ j' = j + 1
        /\ ops' = Append(ops, Op("equal", old[i + 1])) /\ cell' = cell
    BY <1>5 DEF Keep, Same, OldLeft, NewLeft
  <2>2. cell[i + 1][j + 1] = cell[i + 2][j + 2] + 1 /\ cell[i + 2][j + 2] \in Nat
    BY <1>1, <2>1, CellIs
  <2>3. Cardinality(Kept)' = Cardinality(Kept) + 1
    BY <1>3, <2>1
  <2>4. cell'[i' + 1][j' + 1] = cell[i + 2][j + 2] /\ cell'[1][1] = cell[1][1]
    <3>1. (i + 1) + 1 = i + 2 /\ (j + 1) + 1 = j + 2
      BY <1>1
    <3> QED BY <2>1, <3>1
  <2> DEFINE m == Cardinality(Kept)
             n == cell[i + 2][j + 2]
  <2>5. m \in Nat /\ n \in Nat /\ m + (n + 1) = cell[1][1]
    BY <1>2, <1>4, <2>2
  <2>6. Cardinality(Kept)' = m + 1 /\ cell'[i' + 1][j' + 1] = n /\ cell'[1][1] = cell[1][1]
    BY <2>3, <2>4
  <2> HIDE DEF m, n
  <2>7. (m + 1) + n = cell[1][1]
    BY <2>5
  <2> QED BY <2>6, <2>7 DEF KeptSoFar
<1>6. CASE Delete
  <2>1. /\ i < Len(old) /\ i' = i + 1 /\ j' = j /\ cell' = cell
        /\ ops' = Append(ops, Op("delete", old[i + 1]))
        /\ j < Len(new) => old[i + 1] # new[j + 1] /\ cell[i + 2][j + 1] >= cell[i + 1][j + 2]
    BY <1>6 DEF Delete, Same, DeleteFirst, OldLeft, NewLeft
  <2>2. cell[i + 1][j + 1] = cell[i + 2][j + 1]
    <3>1. CASE j < Len(new)
      BY <1>1, <2>1, <3>1, CellIs
    <3>2. CASE j = Len(new)
      <4>1. i + 1 \in 0..Len(old) /\ (i + 1) + 1 = i + 2
        BY <1>1, <2>1
      <4>2. cell[(i + 1) + 1][j + 1] = 0 /\ cell[i + 1][j + 1] = 0
        BY <1>1, <3>2, <4>1, CellIs
      <4> QED BY <4>1, <4>2
    <3> QED BY <1>1, <3>1, <3>2
  <2>3. Cardinality(Kept)' = Cardinality(Kept)
    <3>1. Cardinality(Kept)' = Cardinality(Kept) + 0
      BY <1>3, <2>1
    <3> QED BY <1>2, <3>1
  <2>4. cell'[i' + 1][j' + 1] = cell[i + 2][j + 1] /\ cell'[1][1] = cell[1][1]
    <3>1. (i + 1) + 1 = i + 2
      BY <1>1
    <3> QED BY <2>1, <3>1
  <2> QED BY <1>4, <2>2, <2>3, <2>4 DEF KeptSoFar
<1>7. CASE Insert
  <2>1. /\ j < Len(new) /\ j' = j + 1 /\ i' = i /\ cell' = cell
        /\ ops' = Append(ops, Op("insert", new[j + 1]))
        /\ i < Len(old) => old[i + 1] # new[j + 1] /\ ~(cell[i + 2][j + 1] >= cell[i + 1][j + 2])
    BY <1>7 DEF Insert, Same, DeleteFirst, OldLeft, NewLeft
  <2>2. cell[i + 1][j + 1] = cell[i + 1][j + 2]
    <3>1. CASE i < Len(old)
      <4>1. /\ cell[i + 1][j + 1] \in {cell[i + 2][j + 1], cell[i + 1][j + 2]}
            /\ cell[i + 1][j + 1] >= cell[i + 1][j + 2]
            /\ cell[i + 2][j + 1] \in Nat /\ cell[i + 1][j + 2] \in Nat
        BY <1>1, <2>1, <3>1, CellIs
      <4> QED BY <2>1, <3>1, <4>1
    <3>2. CASE i = Len(old)
      <4>1. j + 1 \in 0..Len(new) /\ (j + 1) + 1 = j + 2
        BY <1>1, <2>1
      <4>2. cell[i + 1][(j + 1) + 1] = 0 /\ cell[i + 1][j + 1] = 0
        BY <1>1, <3>2, <4>1, CellIs
      <4> QED BY <4>1, <4>2
    <3> QED BY <1>1, <3>1, <3>2
  <2>3. Cardinality(Kept)' = Cardinality(Kept)
    <3>1. Cardinality(Kept)' = Cardinality(Kept) + 0
      BY <1>3, <2>1
    <3> QED BY <1>2, <3>1
  <2>4. cell'[i' + 1][j' + 1] = cell[i + 1][j + 2] /\ cell'[1][1] = cell[1][1]
    <3>1. (j + 1) + 1 = j + 2
      BY <1>1
    <3> QED BY <2>1, <3>1
  <2> QED BY <1>4, <2>2, <2>3, <2>4 DEF KeptSoFar
<1> QED BY <1>5, <1>6, <1>7

\* A line is dropped or taken in only where the texts differ.
LEMMA DifferingStep ==
  ASSUME old \in Seq(Line), new \in Seq(Line), Walked, Differing, Keep \/ Delete \/ Insert
  PROVE  Differing'
<1>1. /\ ops \in Seq(DiffOp) /\ i \in 0..Len(old) /\ j \in 0..Len(new) /\ Len(old) \in Nat /\ Len(new) \in Nat
      /\ Len(ops) \in Nat
  BY DEF Walked
<1>2. ASSUME NEW kind, NEW line, ops' = Append(ops, Op(kind, line)), UNCHANGED <<old, new>>,
             kind # "equal" => ~Same
      PROVE  Differing'
  <2> DEFINE o == Op(kind, line)
  <2>1. o.kind = kind /\ o.old_line = i + 1 /\ o.new_line = j + 1
    BY DEF Op
  <2> HIDE DEF o
  <2>2. /\ DOMAIN ops' = 1..(Len(ops) + 1) /\ DOMAIN ops = 1..Len(ops) /\ ops'[Len(ops) + 1] = o
        /\ \A k \in 1..Len(ops) : ops'[k] = ops[k]
    <3>1. ops' = Append(ops, o)
      BY <1>2 DEF o
    <3> QED BY <1>1, <3>1
  <2>3. ASSUME NEW k \in 1..(Len(ops) + 1), ops'[k].kind # "equal"
        PROVE  ~(ops'[k].old_line <= Len(old) /\ ops'[k].new_line <= Len(new)
                   /\ old[ops'[k].old_line] = new[ops'[k].new_line])
    <3>1. CASE k \in 1..Len(ops)
      BY <2>2, <2>3, <3>1 DEF Differing
    <3>2. CASE k = Len(ops) + 1
      <4>1. ops'[k] = o
        BY <2>2, <3>2
      <4>2. ~(i < Len(old) /\ j < Len(new) /\ old[i + 1] = new[j + 1])
        BY <1>2, <2>1, <2>3, <4>1 DEF Same, OldLeft, NewLeft
      <4> QED BY <1>1, <2>1, <4>1, <4>2
    <3> QED BY <1>1, <3>1, <3>2
  <2> QED BY <1>2, <2>2, <2>3 DEF Differing
<1>3. CASE Keep
  <2>1. ops' = Append(ops, Op("equal", old[i + 1])) /\ UNCHANGED <<old, new>>
    BY <1>3 DEF Keep
  <2> QED BY <1>2, <2>1
<1>4. CASE Delete
  <2>1. ops' = Append(ops, Op("delete", old[i + 1])) /\ UNCHANGED <<old, new>> /\ ~Same
    BY <1>4 DEF Delete
  <2> QED BY <1>2, <2>1
<1>5. CASE Insert
  <2>1. ops' = Append(ops, Op("insert", new[j + 1])) /\ UNCHANGED <<old, new>> /\ ~Same
    BY <1>5 DEF Insert
  <2> QED BY <1>2, <2>1
<1> QED BY <1>3, <1>4, <1>5

\* A comparison starts with a table that is all zero.
LEMMA CompareStep ==
  ASSUME WalkInv, NEW before \in Seq(Line), NEW after \in Seq(Line), Compare(before, after)
  PROVE  WalkInv'
<1>1. /\ phase = "waiting" /\ phase' = "table" /\ old' = before /\ new' = after /\ i' = Len(before)
      /\ cell' = [r \in 1..(Len(before) + 1) |-> [c \in 1..(Len(after) + 1) |-> 0]]
      /\ UNCHANGED <<j, ops>> /\ Len(before) \in Nat /\ Len(after) \in Nat
  BY DEF Compare
<1>2. j = 0 /\ ops = <<>>
  BY <1>1 DEF WalkInv
<1>3. cell' \in [1..(Len(old') + 1) -> [1..(Len(new') + 1) -> Nat]]
  BY <1>1
<1>4. ASSUME NEW r \in i'..Len(old'), NEW c \in 0..Len(new') PROVE r = Len(old') /\ cell'[r + 1][c + 1] = 0
  BY <1>1
<1>5. Filled(i)'
  BY <1>3, <1>4 DEF Filled
<1>6. i' \in 0..Len(old')
  BY <1>1
<1> QED BY <1>1, <1>2, <1>5, <1>6 DEF WalkInv

\* The table and the walk do what they are for, whatever command they are part of.
LEMMA WalkInvStep ==
  RewriteInv /\ TextsInv /\ WalkInv /\ [PlanNext]_<<diffVars, planVars>> => WalkInv'
<1> SUFFICES ASSUME RewriteInv, TextsInv, WalkInv, [PlanNext]_<<diffVars, planVars>> PROVE WalkInv'
  OBVIOUS
<1>1. ASSUME UNCHANGED <<old, new, cell, i, j, ops>>,
             phase' = phase \/ (phase = "table" /\ phase' = "walk" /\ i = 0)
               \/ (phase \in {"walk", "hunks"} /\ phase' \in {"hunks", "done"} /\ ~OldLeft /\ ~NewLeft)
      PROVE  WalkInv'
  <2>1. /\ Filled(i) => Filled(i)'
        /\ Filled(0) => Filled(0)'
    BY <1>1 DEF Filled, CellOf, CellIn
  <2>7. Walked => Walked'
    BY <1>1 DEF Walked
  <2>8. KeptSoFar => KeptSoFar'
    BY <1>1 DEF KeptSoFar, Kept
  <2>9. Differing => Differing'
    BY <1>1 DEF Differing
  <2>2. CASE phase = "waiting"
    BY <1>1, <2>2 DEF WalkInv
  <2>3. CASE phase = "table" /\ phase' = "table"
    BY <1>1, <2>1, <2>3 DEF WalkInv
  <2>4. CASE phase = "table" /\ phase' = "walk" /\ i = 0
    <3>1. old \in Seq(Line) /\ new \in Seq(Line) /\ j = 0 /\ ops = <<>> /\ Filled(0)
      BY <2>4 DEF WalkInv
    <3>2. Len(old) \in Nat /\ Len(new) \in Nat
      BY <3>1
    <3>3. Walked
      <4>1. Came(<<>>, 0, old, "insert", "old_line") /\ Came(<<>>, 0, new, "delete", "new_line")
        BY <3>2, CameNowhere
      <4> QED BY <2>4, <3>1, <3>2, <4>1 DEF Walked
    <3>4. KeptSoFar
      <4>1. Kept = {}
        BY <3>1 DEF Kept
      <4>2. Cardinality(Kept) = 0 /\ cell[1][1] \in Nat
        <5>1. 0 \in 0..Len(old) /\ 0 \in 0..Len(new)
          BY <3>2
        <5>2. cell[0 + 1][0 + 1] \in Nat
          BY <3>1, <5>1, CellIs
        <5> QED BY <4>1, <5>2, FS_EmptySet
      <4> QED BY <2>4, <3>1, <4>2 DEF KeptSoFar
    <3>5. Differing
      BY <3>1 DEF Differing
    <3> QED BY <1>1, <2>1, <2>7, <2>8, <2>9, <2>4, <3>1, <3>3, <3>4, <3>5 DEF WalkInv
  <2>5. CASE phase \in {"walk", "hunks", "done"}
    <3>1. /\ old \in Seq(Line) /\ new \in Seq(Line) /\ Walked /\ Filled(0) /\ KeptSoFar /\ Differing
          /\ phase # "walk" => i = Len(old) /\ j = Len(new)
      BY <2>5 DEF WalkInv
    <3>2. ~OldLeft /\ ~NewLeft => i = Len(old) /\ j = Len(new)
      BY <3>1 DEF Walked, OldLeft, NewLeft
    <3>3. phase' \in {"walk", "hunks", "done"} /\ (phase' # "walk" => i' = Len(old') /\ j' = Len(new'))
      BY <1>1, <2>5, <3>1, <3>2
    <3> QED BY <1>1, <2>1, <2>7, <2>8, <2>9, <3>1, <3>3 DEF WalkInv
  <2> QED BY <1>1, <2>2, <2>3, <2>4, <2>5 DEF WalkInv
<1>2. CASE NothingProposed \/ Proposed \/ FileChanged \/ NothingToDiff \/ DiffRefused \/ DiffEnds
             \/ UNCHANGED <<diffVars, planVars>>
  <2>1. UNCHANGED diffVars
    BY <1>2 DEF NothingProposed, Proposed, FileChanged, NothingToDiff, DiffRefused, DiffEnds
  <2> QED BY <1>1, <2>1 DEF diffVars
<1>3. CASE DiffBegins
  <2>1. PICK e \in edits : Fits(e) /\ Compare(LinesOf(disk), LinesOf(Spliced(disk, e)))
    BY <1>3 DEF DiffBegins
  <2>2. LinesOf(disk) \in Seq(Line) /\ LinesOf(Spliced(disk, e)) \in Seq(Line)
    BY <2>1, EditTyped, LinesAre
  <2> QED BY <2>1, <2>2, CompareStep
<1>4. CASE Preview
  <2>1. PICK e \in edits : Fits(e) /\ Compare(ShownLines(OldWindow(disk, e)), ShownLines(NewWindow(disk, e)))
    BY <1>4 DEF Preview
  <2>2. ShownLines(OldWindow(disk, e)) \in Seq(Line) /\ ShownLines(NewWindow(disk, e)) \in Seq(Line)
    BY <2>1, WindowTyped, ShownAre
  <2> QED BY <2>1, <2>2, CompareStep
<1>5. CASE DiffNext
  <2>1. CASE FillRow
    <3>1. phase = "table" /\ UNCHANGED <<old, new, phase, j, ops>>
      BY <2>1 DEF FillRow
    <3>2. /\ old \in Seq(Line) /\ new \in Seq(Line) /\ i \in 0..Len(old) /\ j = 0 /\ ops = <<>> /\ Filled(i)
      BY <3>1 DEF WalkInv
    <3>3. Filled(i)' /\ i' \in 0..Len(old)
      BY <2>1, <3>2, FillStep
    <3> QED BY <3>1, <3>2, <3>3 DEF WalkInv
  <2>2. CASE Keep \/ Delete \/ Insert
    <3>1. phase = "walk"
      BY <2>2 DEF Keep, Delete, Insert
    <3>2. old \in Seq(Line) /\ new \in Seq(Line) /\ Walked /\ Filled(0) /\ KeptSoFar /\ Differing
      BY <3>1 DEF WalkInv
    <3>3. Walked' /\ UNCHANGED <<old, new, phase, cursor, hunks>>
      BY <2>2, <3>2, WalkStep
    <3>4. cell' = cell
      BY <2>2 DEF Keep, Delete, Insert
    <3>5. Filled(0)'
      BY <3>2, <3>3, <3>4 DEF Filled, CellOf, CellIn
    <3>6. KeptSoFar' /\ Differing'
      BY <2>2, <3>2, KeptStep, DifferingStep
    <3> QED BY <3>1, <3>2, <3>3, <3>5, <3>6 DEF WalkInv
  <2>3. CASE TableDone
    BY <1>1, <2>3 DEF TableDone
  <2>4. CASE WalkDone
    BY <1>1, <2>4 DEF WalkDone
  <2>5. CASE WriteHunk
    BY <1>1, <2>5 DEF WriteHunk
  <2>6. CASE HunksDone
    <3>1. phase = "hunks" /\ phase' = "done" /\ UNCHANGED <<old, new, cell, i, j, ops>>
      BY <2>6 DEF HunksDone
    <3>2. ~OldLeft /\ ~NewLeft
      <4>1. i = Len(old) /\ j = Len(new) /\ Len(old) \in Nat /\ Len(new) \in Nat
        BY <3>1 DEF WalkInv
      <4> QED BY <4>1 DEF OldLeft, NewLeft
    <3> QED BY <1>1, <3>1, <3>2
  <2> QED BY <1>5, <2>1, <2>2, <2>3, <2>4, <2>5, <2>6 DEF DiffNext
<1> QED BY <1>2, <1>3, <1>4, <1>5 DEF PlanNext

(* No lines but those that must be are deleted and inserted: no text that  *)
(* can be had from both by leaving lines out is longer than what is kept,  *)
(* for every pair of texts, in `moult diff` as in `moult review`.          *)
THEOREM DiffsAreShortest == PlanSpec => []ShortestDiff
<1>1. WalkInv => ShortestDiff
  <2> SUFFICES ASSUME WalkInv, phase \in {"hunks", "done"}, NEW q \in Subsequences(old) \cap Subsequences(new)
               PROVE  Len(q) <= Cardinality(Kept)
    BY DEF ShortestDiff
  <2>1. /\ old \in Seq(Line) /\ new \in Seq(Line) /\ Walked /\ Filled(0) /\ KeptSoFar
        /\ i = Len(old) /\ j = Len(new)
    BY DEF WalkInv
  <2>2. Len(old) \in Nat /\ Len(new) \in Nat /\ 0 \in 0..Len(old) /\ 0 \in 0..Len(new)
    BY <2>1
  <2>3. q \in Seq(Line) /\ Within(q, old, 0)
    <3>1. PICK left \in SUBSET DOMAIN old : q = Picked(old, left)
      BY DEF Subsequences
    <3> QED BY <2>1, <3>1, PickedWithin
  <2>4. Within(q, new, 0)
    <3>1. PICK left \in SUBSET DOMAIN new : q = Picked(new, left)
      BY DEF Subsequences
    <3> QED BY <2>1, <3>1, PickedWithin
  <2>5. Len(q) <= cell[0 + 1][0 + 1]
    BY <2>1, <2>2, <2>3, <2>4, NothingLonger
  <2>6. cell[i + 1][j + 1] = 0
    <3>1. i \in 0..Len(old) /\ j \in 0..Len(new)
      BY <2>1, <2>2
    <3> QED BY <2>1, <3>1, CellIs
  <2>7. Cardinality(Kept) + 0 = cell[1][1] /\ Cardinality(Kept) \in Nat
    <3>1. ops \in Seq(DiffOp)
      BY <2>1 DEF Walked
    <3> QED BY <2>1, <2>6, <3>1, KeptFinite DEF KeptSoFar
  <2> QED BY <2>5, <2>7
<1>2. PlanInit => RewriteInv /\ TextsInv /\ WalkInv
  <2>1. PlanInit => WalkInv
    BY DEF PlanInit, DiffInit, WalkInv
  <2> QED BY <2>1, PlanBegins
<1>3. RewriteInv /\ TextsInv /\ WalkInv /\ [PlanNext]_<<diffVars, planVars>>
        => RewriteInv' /\ TextsInv' /\ WalkInv'
  BY RewriteStep, TextsStep, WalkInvStep
<1> QED BY <1>1, <1>2, <1>3, PTL DEF PlanSpec

-----------------------------------------------------------------------------
(* The lines of a text *)

\* Where the lines of a text begin, counted from 1.
Beginnings(t) == {p \in DOMAIN t : p = 1 \/ t[p - 1] = "nl"}

\* A line that begins at p ends at n.
EndsAt(t, p, n) ==
  /\ n \in p..Len(t) /\ (n = Len(t) \/ t[n] = "nl")
  /\ \A k \in p..(n - 1) : t[k] # "nl"

\* Every line ends somewhere.
LEMMA LineEnds ==
  ASSUME NEW t \in Line, NEW p \in 1..Len(t)
  PROVE  LET n == Min({Len(t)} \cup {m \in p..Len(t) : t[m] = "nl"})
         IN EndsAt(t, p, n) /\ \A m : EndsAt(t, p, m) => m = n
<1> DEFINE S == {Len(t)} \cup {m \in p..Len(t) : t[m] = "nl"}
           n == Min(S)
<1>1. Len(t) \in Nat /\ p \in Nat /\ p <= Len(t)
  BY DEF Line
<1>2. n \in S /\ \A k \in S : n <= k
  <2>1. S \in SUBSET Nat /\ S # {}
    BY <1>1
  <2> HIDE DEF S
  <2> QED BY <2>1, LeastOf
<1> HIDE DEF n
<1>3. n \in p..Len(t) /\ (n = Len(t) \/ t[n] = "nl")
  BY <1>1, <1>2
<1>4. \A k \in p..(n - 1) : t[k] # "nl"
  <2> SUFFICES ASSUME NEW k \in p..(n - 1), t[k] = "nl" PROVE FALSE
    OBVIOUS
  <2>1. k \in S
    BY <1>1, <1>3
  <2> QED BY <1>1, <1>2, <1>3, <2>1
<1>5. EndsAt(t, p, n)
  BY <1>3, <1>4 DEF EndsAt
<1>6. ASSUME NEW m, EndsAt(t, p, m) PROVE m = n
  <2>1. m \in p..Len(t) /\ (m = Len(t) \/ t[m] = "nl") /\ \A k \in p..(m - 1) : t[k] # "nl"
    BY <1>6 DEF EndsAt
  <2>2. ~(m < n)
    BY <1>1, <1>3, <1>4, <2>1
  <2>3. ~(n < m)
    BY <1>1, <1>3, <2>1
  <2> QED BY <1>1, <1>3, <2>1, <2>2, <2>3
<1> QED BY <1>5, <1>6 DEF n

\* The line number goes up by one behind each newline.
LEMMA LineAtIs ==
  ASSUME NEW t \in Line
  PROVE  /\ LineAt(t, 0) = 1 /\ \A p \in 0..Len(t) : LineAt(t, p) \in Nat
         /\ \A p \in 1..Len(t) : LineAt(t, p) = LineAt(t, p - 1) + (IF t[p] = "nl" THEN 1 ELSE 0)
<1> DEFINE N == {0} \cup {p \in DOMAIN t : t[p] = "nl"}
           StartsTo(p) == {start \in N : start <= p}
<1>1. Len(t) \in Nat /\ DOMAIN t = 1..Len(t)
  BY DEF Line
<1>2. \A p \in Nat : LineAt(t, p) = Cardinality(StartsTo(p)) /\ IsFiniteSet(StartsTo(p))
  <2> SUFFICES ASSUME NEW p \in Nat PROVE IsFiniteSet(StartsTo(p))
    BY DEF LineAt
  <2>1. IsFiniteSet(0..p)
    BY FS_Interval
  <2>2. StartsTo(p) \subseteq 0..p
    BY <1>1
  <2> HIDE DEF StartsTo
  <2> QED BY <2>1, <2>2, FS_Subset
<1>3. LineAt(t, 0) = 1
  <2>1. StartsTo(0) = {0}
    BY <1>1
  <2>2. Cardinality({0}) = 1
    BY FS_Singleton
  <2> QED BY <1>2, <2>1, <2>2
<1>4. ASSUME NEW p \in 0..Len(t) PROVE LineAt(t, p) \in Nat
  <2>1. p \in Nat
    BY <1>1
  <2> HIDE DEF StartsTo
  <2> QED BY <1>2, <2>1, FS_CardinalityType
<1>5. ASSUME NEW p \in 1..Len(t) PROVE LineAt(t, p) = LineAt(t, p - 1) + (IF t[p] = "nl" THEN 1 ELSE 0)
  <2>1. p \in Nat /\ p - 1 \in Nat /\ p - 1 \in 0..Len(t) /\ p \in DOMAIN t
    BY <1>1
  <2>2. CASE t[p] = "nl"
    <3>1. StartsTo(p) = StartsTo(p - 1) \cup {p} /\ p \notin StartsTo(p - 1)
      BY <1>1, <2>1, <2>2
    <3>2. Cardinality(StartsTo(p - 1) \cup {p}) = Cardinality(StartsTo(p - 1)) + 1
      <4>1. IsFiniteSet(StartsTo(p - 1))
        BY <1>2, <2>1
      <4> HIDE DEF StartsTo
      <4> QED BY <3>1, <4>1, FS_AddElement
    <3> HIDE DEF StartsTo
    <3> QED BY <1>2, <2>1, <2>2, <3>1, <3>2
  <2>3. CASE t[p] # "nl"
    <3>1. StartsTo(p) = StartsTo(p - 1)
      BY <1>1, <2>1, <2>3
    <3> HIDE DEF StartsTo
    <3> QED BY <1>2, <1>4, <2>1, <2>3, <3>1
  <2> QED BY <2>2, <2>3
<1> QED BY <1>3, <1>4, <1>5

\* How many lines have begun after each character.
Begun(t) == [p \in 0..Len(t) |-> IF p = 0 THEN 0 ELSE LineAt(t, p - 1)]

\* The number of lines, and the place of each.
LEMMA LinesLocated ==
  ASSUME NEW t \in Line
  PROVE  /\ \A q : Len(q) = Len(t) => Counts(Begun(t), q, Beginnings(t))
         /\ Len(LinesOf(t)) = Begun(t)[Len(t)]
         /\ \A m \in 1..Len(LinesOf(t)) :
              \E p \in Beginnings(t), n \in Int : /\ LineAt(t, p - 1) = m /\ EndsAt(t, p, n)
                                          /\ LinesOf(t)[m] = SubSeq(t, p, n)
<1> DEFINE E(p) == Min({Len(t)} \cup {n \in p..Len(t) : t[n] = "nl"})
           s == [p \in 1..Len(t) |-> SubSeq(t, p, E(p))]
           X == {SubSeq(t, p, E(p)) : p \in 1..Len(t)}
           at == Begun(t)
<1>1. Len(t) \in Nat /\ DOMAIN t = 1..Len(t)
  BY DEF Line
<1>2. s \in Seq(X) /\ Len(s) = Len(t) /\ \A p \in 1..Len(t) : s[p] = SubSeq(t, p, E(p))
  <2> HIDE DEF E
  <2>1. s \in [1..Len(t) -> X] /\ \A p \in 1..Len(t) : s[p] = SubSeq(t, p, E(p))
    OBVIOUS
  <2> HIDE DEF s, X
  <2> QED BY <1>1, <2>1
<1>3. \A p \in 0..Len(t) : at[p] = (IF p = 0 THEN 0 ELSE LineAt(t, p - 1)) /\ at[p] \in Nat
  BY <1>1, LineAtIs DEF Begun
<1> HIDE DEF at
<1>4. \A p \in 1..Len(t) : at[p] = at[p - 1] + (IF p \in Beginnings(t) THEN 1 ELSE 0)
  <2> SUFFICES ASSUME NEW p \in 1..Len(t) PROVE at[p] = at[p - 1] + (IF p \in Beginnings(t) THEN 1 ELSE 0)
    OBVIOUS
  <2>1. CASE p = 1
    <3>1. at[1] = 1 /\ at[0] = 0 /\ 1 \in Beginnings(t)
      BY <1>1, <1>3, <2>1, LineAtIs DEF Beginnings
    <3> QED BY <2>1, <3>1
  <2>2. CASE p # 1
    <3>1. p - 1 \in 1..Len(t) /\ p - 1 \in 0..Len(t) /\ p \in 0..Len(t) /\ (p \in Beginnings(t) <=> t[p - 1] = "nl")
      BY <1>1, <2>2 DEF Beginnings
    <3>2. LineAt(t, p - 1) = LineAt(t, p - 1 - 1) + (IF t[p - 1] = "nl" THEN 1 ELSE 0)
      BY <3>1, LineAtIs
    <3>3. at[p] = LineAt(t, p - 1) /\ at[p - 1] = LineAt(t, p - 1 - 1)
      BY <1>1, <1>3, <2>2, <3>1
    <3> QED BY <3>1, <3>2, <3>3
  <2> QED BY <2>1, <2>2
<1>5. \A q : Len(q) = Len(t) => Counts(at, q, Beginnings(t))
  BY <1>3, <1>4 DEF Counts
<1>6. LinesOf(t) = Picked(s, Beginnings(t))
  BY DEF LinesOf, Beginnings
<1>7. Lined(LinesOf(t), s, Beginnings(t), at, Len(t))
  <2> HIDE DEF s
  <2> QED BY <1>2, <1>5, <1>6, PickedInOrder
<1>8. at[0] = 0
  BY <1>1, <1>3
<1>9. Len(LinesOf(t)) = at[Len(t)]
  <2>1. at[Len(t)] \in Nat
    BY <1>1, <1>3
  <2> QED BY <1>7, <1>8, <2>1 DEF Lined
<1>10. ASSUME NEW m \in 1..Len(LinesOf(t))
       PROVE  \E p \in Beginnings(t), n \in Int : LineAt(t, p - 1) = m /\ EndsAt(t, p, n) /\ LinesOf(t)[m] = SubSeq(t, p, n)
  <2>1. PICK p \in 1..Len(t) \cap Beginnings(t) : at[p] = at[0] + m /\ LinesOf(t)[m] = s[p]
    <3> HIDE DEF s
    <3> QED BY <1>7, <1>10 DEF Lined
  <2>2. p \in 1..Len(t) /\ p \in 0..Len(t) /\ p # 0
    BY <1>1
  <2>3. at[p] = LineAt(t, p - 1) /\ s[p] = SubSeq(t, p, E(p))
    <3> HIDE DEF E, s
    <3> QED BY <1>2, <1>3, <2>2
  <2>4. EndsAt(t, p, E(p))
    BY <2>2, LineEnds
  <2> HIDE DEF E, s
  <2>6. E(p) \in Int
    BY <2>4 DEF EndsAt
  <2>5. LineAt(t, p - 1) = m /\ LinesOf(t)[m] = SubSeq(t, p, E(p))
    BY <1>8, <2>1, <2>3
  <2> QED BY <2>1, <2>4, <2>5, <2>6
<1> QED BY <1>5, <1>9, <1>10 DEF at

\* The line number never falls, rises with a newline and with nothing else.
LEMMA LineAtGrows ==
  ASSUME NEW t \in Line, NEW a \in 0..Len(t), NEW c \in a..Len(t)
  PROVE  /\ LineAt(t, a) \in Nat /\ LineAt(t, c) \in Nat /\ LineAt(t, a) <= LineAt(t, c)
         /\ (\E k \in (a + 1)..c : t[k] = "nl") => LineAt(t, a) < LineAt(t, c)
         /\ (\A k \in (a + 1)..c : t[k] # "nl") => LineAt(t, a) = LineAt(t, c)
<1> DEFINE g == [k \in 0..Len(t) |-> LineAt(t, k)]
           N == {k \in 1..Len(t) : t[k] = "nl"}
<1>1. Len(t) \in Nat
  BY DEF Line
<1>2. \A k \in 0..Len(t) : g[k] = LineAt(t, k) /\ g[k] \in Nat
  BY LineAtIs
<1>3. Counts(g, t, N)
  <2>1. ASSUME NEW k \in 1..Len(t) PROVE g[k] = g[k - 1] + (IF k \in N THEN 1 ELSE 0)
    <3>1. k \in 0..Len(t) /\ k - 1 \in 0..Len(t) /\ (k \in N <=> t[k] = "nl")
      BY <1>1
    <3>2. LineAt(t, k) = LineAt(t, k - 1) + (IF t[k] = "nl" THEN 1 ELSE 0)
      BY LineAtIs
    <3> HIDE DEF g, N
    <3> QED BY <1>2, <3>1, <3>2
  <2> HIDE DEF g, N
  <2> QED BY <1>2, <2>1 DEF Counts
<1> HIDE DEF g
<1>4. \A x, y \in 0..Len(t) : x <= y => g[x] <= g[y]
  <2> HIDE DEF N
  <2> QED BY <1>1, <1>3, CountsGrow
<1>5. a \in Nat /\ c \in Nat /\ c \in 0..Len(t) /\ a <= c
  BY <1>1
<1>6. (\E k \in (a + 1)..c : t[k] = "nl") => g[a] < g[c]
  <2> SUFFICES ASSUME NEW k \in (a + 1)..c, t[k] = "nl" PROVE g[a] < g[c]
    OBVIOUS
  <2>1. k \in 1..Len(t) /\ k \in N /\ k - 1 \in 0..Len(t) /\ a <= k - 1 /\ k \in 0..Len(t) /\ k <= c
    BY <1>1, <1>5
  <2>2. g[k] = g[k - 1] + 1
    BY <1>3, <2>1 DEF Counts
  <2>3. g[a] <= g[k - 1] /\ g[k] <= g[c] /\ g[a] \in Nat /\ g[k - 1] \in Nat /\ g[k] \in Nat /\ g[c] \in Nat
    BY <1>2, <1>4, <1>5, <2>1
  <2> QED BY <2>2, <2>3
<1>7. (\A k \in (a + 1)..c : t[k] # "nl") => g[a] = g[c]
  <2> SUFFICES ASSUME \A k \in (a + 1)..c : t[k] # "nl" PROVE g[a] = g[c]
    OBVIOUS
  <2> DEFINE T == {k \in a..c : g[k] = g[a]}
  <2>1. ASSUME NEW k \in a..c, k = a \/ k - 1 \in T PROVE k \in T
    <3>1. CASE k # a
      <4>1. k \in 1..Len(t) /\ k \in (a + 1)..c /\ g[k - 1] = g[a] /\ k - 1 \in 0..Len(t)
        BY <1>1, <1>5, <2>1, <3>1
      <4>2. g[k] = g[k - 1] + 0
        <5>1. k \notin N
          BY <4>1
        <5> HIDE DEF N
        <5> QED BY <1>3, <4>1, <5>1 DEF Counts
      <4> QED BY <1>2, <4>1, <4>2
    <3> QED BY <3>1
  <2>2. c \in T
    <3> HIDE DEF T
    <3>1. \A k \in a..c : k = a \/ k - 1 \in T => k \in T
      BY <2>1
    <3>2. c \in a..c
      BY <1>5
    <3> QED BY <1>5, <3>1, <3>2, CountUp
  <2> QED BY <2>2
<1> QED BY <1>2, <1>4, <1>5, <1>6, <1>7

\* The line that begins at a place.
LEMMA LineIs ==
  ASSUME NEW t \in Line, NEW p \in Beginnings(t), NEW n, EndsAt(t, p, n)
  PROVE  LineAt(t, p - 1) \in 1..Len(LinesOf(t)) /\ LinesOf(t)[LineAt(t, p - 1)] = SubSeq(t, p, n)
<1> DEFINE at == Begun(t)
<1>1. Len(t) \in Nat /\ p \in 1..Len(t) /\ p \in 0..Len(t) /\ p - 1 \in 0..Len(t) /\ Len(t) \in 0..Len(t)
  BY DEF Line, Beginnings
<1>2. Counts(at, t, Beginnings(t)) /\ Len(LinesOf(t)) = at[Len(t)]
  BY LinesLocated
<1>3. \A k \in 1..Len(t) : at[k] = LineAt(t, k - 1)
  BY <1>1 DEF Begun
<1> HIDE DEF at
<1>4. \A x, y \in 0..Len(t) : x <= y => at[x] <= at[y] /\ at[x] \in Nat /\ at[y] \in Nat
  BY <1>1, <1>2, CountsGrow DEF Counts
<1>5. \A k \in Beginnings(t) : k \in 1..Len(t) /\ k - 1 \in 0..Len(t) /\ at[k] = at[k - 1] + 1
  <2> SUFFICES ASSUME NEW k \in Beginnings(t) PROVE k \in 1..Len(t) /\ k - 1 \in 0..Len(t) /\ at[k] = at[k - 1] + 1
    OBVIOUS
  <2>1. k \in 1..Len(t) /\ k - 1 \in 0..Len(t)
    BY <1>1 DEF Line, Beginnings
  <2> QED BY <1>2, <2>1 DEF Counts
<1>6. at[p] \in 1..Len(LinesOf(t))
  <2>1. at[p - 1] \in Nat /\ at[p] <= at[Len(t)] /\ at[p] = at[p - 1] + 1 /\ at[Len(t)] \in Nat
    BY <1>1, <1>4, <1>5
  <2> QED BY <1>2, <2>1
<1>7. PICK x \in Beginnings(t), y \in Int : /\ LineAt(t, x - 1) = at[p] /\ EndsAt(t, x, y)
                                    /\ LinesOf(t)[at[p]] = SubSeq(t, x, y)
  BY <1>6, LinesLocated
<1>8. \A k, m \in Beginnings(t) : k < m => at[k] < at[m]
  <2> SUFFICES ASSUME NEW k \in Beginnings(t), NEW m \in Beginnings(t), k < m PROVE at[k] < at[m]
    OBVIOUS
  <2>1. k \in 1..Len(t) /\ k \in 0..Len(t) /\ m - 1 \in 0..Len(t) /\ k <= m - 1
    BY <1>1, <1>5
  <2>2. at[k] <= at[m - 1] /\ at[m] = at[m - 1] + 1 /\ at[k] \in Nat /\ at[m - 1] \in Nat
    BY <1>4, <1>5, <2>1
  <2> QED BY <2>2
<1>9. x = p
  <2>1. x \in 1..Len(t) /\ at[x] = at[p] /\ at[p] \in Nat
    BY <1>1, <1>3, <1>4, <1>5, <1>7
  <2>2. ~(x < p) /\ ~(p < x)
    BY <1>8, <2>1
  <2> QED BY <1>1, <2>1, <2>2
<1>10. y = n
  BY <1>1, <1>7, <1>9, LineEnds
<1> QED BY <1>1, <1>3, <1>6, <1>7, <1>9, <1>10

\* Two texts begin alike.
Agree2(s, r, b) == b \in 0..Len(s) /\ b \in 0..Len(r) /\ \A k \in 1..b : s[k] = r[k]

\* Parts that are alike, from the place where they begin.
LEMMA SamePart ==
  ASSUME NEW s \in Line, NEW r \in Line, NEW p \in Nat \ {0}, NEW n \in Nat, NEW m \in Nat, p <= n, p <= m,
         n <= Len(s), m <= Len(r)
  PROVE  SubSeq(s, p, n) = SubSeq(r, p, m) <=> n = m /\ \A k \in p..n : s[k] = r[k]
<1> DEFINE a == p - 1
           x == n - a
           y == m - a
           S == SubSeq(s, p, n)
           R == SubSeq(r, p, m)
<1>1. /\ s \in Seq(Char) /\ r \in Seq(Char) /\ Len(s) \in Nat /\ Len(r) \in Nat
      /\ a \in Nat /\ x \in Nat /\ y \in Nat /\ a + 1 = p /\ a + x = n /\ a + y = m
  BY DEF Line
<1>2. S \in Seq(Char) /\ Len(S) = x /\ \A k \in 1..x : S[k] = s[a + k]
  <2>1. /\ SubSeq(s, a + 1, a + x) \in Seq(Char) /\ Len(SubSeq(s, a + 1, a + x)) = x
        /\ \A k \in 1..x : SubSeq(s, a + 1, a + x)[k] = s[a + k]
    <3> HIDE DEF a, x
    <3> QED BY <1>1, PartIs
  <2> HIDE DEF a, x
  <2> QED BY <1>1, <2>1
<1>3. R \in Seq(Char) /\ Len(R) = y /\ \A k \in 1..y : R[k] = r[a + k]
  <2>1. /\ SubSeq(r, a + 1, a + y) \in Seq(Char) /\ Len(SubSeq(r, a + 1, a + y)) = y
        /\ \A k \in 1..y : SubSeq(r, a + 1, a + y)[k] = r[a + k]
    <3> HIDE DEF a, y
    <3> QED BY <1>1, PartIs
  <2> HIDE DEF a, y
  <2> QED BY <1>1, <2>1
<1> HIDE DEF S, R
<1>4. S = R <=> x = y /\ \A k \in 1..x : S[k] = R[k]
  <2> HIDE DEF x, y
  <2> QED BY <1>2, <1>3, SeqEqual
<1>5. x = y <=> n = m
  BY <1>1
<1>6. ASSUME n = m PROVE (\A k \in 1..x : S[k] = R[k]) <=> \A k \in p..n : s[k] = r[k]
  <2>1. \A k \in 1..x : S[k] = s[a + k] /\ R[k] = r[a + k] /\ a + k \in p..n
    BY <1>1, <1>2, <1>3, <1>6
  <2>2. \A k \in p..n : k - a \in 1..x /\ a + (k - a) = k
    BY <1>1
  <2> HIDE DEF a, x
  <2> QED BY <2>1, <2>2
<1> HIDE DEF x, y
<1> QED BY <1>4, <1>5, <1>6 DEF S, R

\* So do their line numbers.
LEMMA LineAtAgrees ==
  ASSUME NEW s \in Line, NEW r \in Line, NEW b, Agree2(s, r, b), NEW c \in 0..b
  PROVE  LineAt(s, c) = LineAt(r, c)
<1> DEFINE T == {k \in 0..b : LineAt(s, k) = LineAt(r, k)}
<1>1. Len(s) \in Nat /\ Len(r) \in Nat /\ b \in 0..Len(s) /\ b \in 0..Len(r) /\ \A k \in 1..b : s[k] = r[k]
  BY DEF Line, Agree2
<1>2. ASSUME NEW k \in 0..b, k = 0 \/ k - 1 \in T PROVE k \in T
  <2>1. CASE k = 0
    BY <2>1, LineAtIs
  <2>2. CASE k # 0
    <3>1. k \in 1..Len(s) /\ k \in 1..Len(r) /\ s[k] = r[k] /\ LineAt(s, k - 1) = LineAt(r, k - 1)
      BY <1>1, <1>2, <2>2
    <3> QED BY <3>1, LineAtIs
  <2> QED BY <2>1, <2>2
<1>3. c \in T
  <2> HIDE DEF T
  <2>1. b \in Nat /\ 0 \in Nat
    BY <1>1
  <2> QED BY <1>2, <2>1, CountUp
<1> QED BY <1>3

\* The lines before the one that place b is in are the same in both.
LEMMA SharedLines ==
  ASSUME NEW s \in Line, NEW r \in Line, NEW b, Agree2(s, r, b), NEW m \in 1..(LineAt(s, b) - 1)
  PROVE  m \in 1..Len(LinesOf(s)) /\ m \in 1..Len(LinesOf(r)) /\ LinesOf(s)[m] = LinesOf(r)[m]
<1>1. Len(s) \in Nat /\ Len(r) \in Nat /\ b \in 0..Len(s) /\ b \in 0..Len(r) /\ \A k \in 1..b : s[k] = r[k]
  BY DEF Line, Agree2
<1>2. LineAt(s, b) \in Nat /\ m \in Nat /\ 1 <= m /\ m < LineAt(s, b)
  BY <1>1, LineAtIs
<1>3. b # 0 /\ b \in 1..Len(s)
  BY <1>1, <1>2, LineAtIs
<1>4. m <= Len(LinesOf(s)) /\ Len(LinesOf(s)) \in Nat
  <2>1. Len(LinesOf(s)) = LineAt(s, Len(s) - 1)
    <3>1. Len(s) \in 0..Len(s) /\ Len(s) # 0
      BY <1>1, <1>3
    <3>2. Begun(s)[Len(s)] = LineAt(s, Len(s) - 1)
      BY <3>1 DEF Begun
    <3> QED BY <3>2, LinesLocated
  <2>2. Len(s) - 1 \in 0..Len(s)
    BY <1>1, <1>3
  <2>3. CASE b = Len(s)
    <3>1. LineAt(s, b) = LineAt(s, Len(s) - 1) + (IF s[b] = "nl" THEN 1 ELSE 0)
      BY <1>3, <2>3, LineAtIs
    <3> QED BY <1>2, <2>1, <2>2, <3>1, LineAtIs
  <2>4. CASE b # Len(s)
    <3>1. Len(s) - 1 \in b..Len(s)
      BY <1>1, <2>4
    <3>2. LineAt(s, b) <= LineAt(s, Len(s) - 1) /\ LineAt(s, Len(s) - 1) \in Nat
      BY <1>1, <3>1, LineAtGrows
    <3> QED BY <1>2, <2>1, <3>2
  <2> QED BY <2>3, <2>4
<1>5. m \in 1..Len(LinesOf(s))
  BY <1>2, <1>4
<1>6. PICK p \in Beginnings(s), n \in Int : LineAt(s, p - 1) = m /\ EndsAt(s, p, n) /\ LinesOf(s)[m] = SubSeq(s, p, n)
  BY <1>5, LinesLocated
<1>7. p \in 1..Len(s) /\ p - 1 \in 0..Len(s) /\ (p = 1 \/ s[p - 1] = "nl")
      /\ n \in p..Len(s) /\ (n = Len(s) \/ s[n] = "nl") /\ \A k \in p..(n - 1) : s[k] # "nl"
  BY <1>1, <1>6 DEF Beginnings, EndsAt
<1>8. p <= b
  <2> SUFFICES ASSUME ~(p <= b) PROVE FALSE
    OBVIOUS
  <2>1. p - 1 \in b..Len(s)
    BY <1>1, <1>7
  <2>2. LineAt(s, b) <= LineAt(s, p - 1)
    BY <1>1, <2>1, LineAtGrows
  <2> QED BY <1>2, <1>6, <2>2
<1>9. \E k \in p..b : s[k] = "nl"
  <2> SUFFICES ASSUME \A k \in p..b : s[k] # "nl" PROVE FALSE
    OBVIOUS
  <2>1. b \in (p - 1)..Len(s) /\ (p - 1) + 1 = p
    BY <1>1, <1>7, <1>8
  <2>2. LineAt(s, p - 1) = LineAt(s, b)
    BY <1>7, <2>1, LineAtGrows
  <2> QED BY <1>2, <1>6, <2>2
<1>10. n <= b /\ s[n] = "nl"
  <2>1. PICK k \in p..b : s[k] = "nl"
    BY <1>9
  <2>2. n <= k
    BY <1>1, <1>7, <2>1
  <2>3. n <= b
    BY <1>1, <1>7, <2>1, <2>2
  <2>4. n = Len(s) => k = n
    BY <1>1, <1>7, <2>1, <2>2
  <2> QED BY <1>7, <2>1, <2>3, <2>4
<1>11. p \in Beginnings(r) /\ EndsAt(r, p, n)
  <2>1. p \in 1..Len(r) /\ (p = 1 \/ r[p - 1] = "nl")
    BY <1>1, <1>7, <1>8
  <2>2. n \in p..Len(r) /\ r[n] = "nl" /\ \A k \in p..(n - 1) : r[k] # "nl"
    BY <1>1, <1>7, <1>8, <1>10
  <2> QED BY <2>1, <2>2 DEF Beginnings, EndsAt, Line
<1>12. LineAt(r, p - 1) = m
  <2>1. p - 1 \in 0..b
    BY <1>1, <1>7, <1>8
  <2> QED BY <1>6, <2>1, LineAtAgrees
<1>13. m \in 1..Len(LinesOf(r)) /\ LinesOf(r)[m] = SubSeq(r, p, n)
  BY <1>11, <1>12, LineIs
<1>14. SubSeq(s, p, n) = SubSeq(r, p, n)
  <2>1. p \in Nat \ {0} /\ n \in Nat /\ p <= n /\ n <= Len(s) /\ n <= Len(r) /\ \A k \in p..n : s[k] = r[k]
    BY <1>1, <1>7, <1>10
  <2> QED BY <2>1, SamePart
<1> QED BY <1>5, <1>6, <1>13, <1>14

\* In a line that place b is in, nothing ends before it.
LEMMA LineOfPlace ==
  ASSUME NEW t \in Line, NEW b \in 0..Len(t), NEW p \in Beginnings(t), LineAt(t, p - 1) = LineAt(t, b)
  PROVE  p <= b + 1 /\ \A k \in p..b : t[k] # "nl"
<1>1. Len(t) \in Nat /\ p \in 1..Len(t) /\ p - 1 \in 0..Len(t) /\ (p = 1 \/ t[p - 1] = "nl")
  BY DEF Line, Beginnings
<1>2. p <= b + 1
  <2> SUFFICES ASSUME ~(p <= b + 1) PROVE FALSE
    OBVIOUS
  <2>1. p - 1 \in b..Len(t) /\ p - 1 \in (b + 1)..(p - 1) /\ t[p - 1] = "nl"
    BY <1>1
  <2>2. LineAt(t, b) < LineAt(t, p - 1) /\ LineAt(t, b) \in Nat
    BY <2>1, LineAtGrows
  <2> QED BY <2>2
<1>3. \A k \in p..b : t[k] # "nl"
  <2> SUFFICES ASSUME NEW k \in p..b, t[k] = "nl" PROVE FALSE
    OBVIOUS
  <2>1. b \in (p - 1)..Len(t) /\ k \in ((p - 1) + 1)..b
    BY <1>1
  <2>2. LineAt(t, p - 1) < LineAt(t, b) /\ LineAt(t, b) \in Nat
    BY <1>1, <2>1, LineAtGrows
  <2> QED BY <2>2
<1> QED BY <1>2, <1>3

(* The line where two texts part: one of them has it, and if both do, it   *)
(* is not the same.                                                        *)
LEMMA FirstDifference ==
  ASSUME NEW s \in Line, NEW r \in Line, s # r, NEW b, Agree2(s, r, b),
         ~(b < Len(s) /\ b < Len(r) /\ s[b + 1] = r[b + 1])
  PROVE  LET n == LineAt(s, b)
         IN /\ n <= Len(LinesOf(s)) \/ n <= Len(LinesOf(r))
            /\ ~(n <= Len(LinesOf(s)) /\ n <= Len(LinesOf(r)) /\ LinesOf(s)[n] = LinesOf(r)[n])
<1> DEFINE L == LineAt(s, b)
<1>1. Len(s) \in Nat /\ Len(r) \in Nat /\ b \in 0..Len(s) /\ b \in 0..Len(r) /\ \A k \in 1..b : s[k] = r[k]
  BY DEF Line, Agree2
<1>2. LineAt(r, b) = L /\ L \in Nat
  <2>1. b \in 0..b
    BY <1>1
  <2> QED BY <1>1, <2>1, LineAtAgrees, LineAtIs
<1>3. b < Len(s) \/ b < Len(r)
  <2> SUFFICES ASSUME b = Len(s), b = Len(r) PROVE FALSE
    BY <1>1
  <2>1. s \in Seq(Char) /\ r \in Seq(Char)
    BY DEF Line
  <2> QED BY <1>1, <2>1, SeqEqual
<1>4. \A t \in Line : b < Len(t) => LineAt(t, b) <= Len(LinesOf(t))
  <2> SUFFICES ASSUME NEW t \in Line, b < Len(t) PROVE LineAt(t, b) <= Len(LinesOf(t))
    OBVIOUS
  <2>1. Len(t) \in Nat /\ b \in 0..Len(t) /\ Len(t) - 1 \in b..Len(t) /\ Len(t) \in 0..Len(t) /\ Len(t) # 0
    BY <1>1 DEF Line
  <2>2. Len(LinesOf(t)) = LineAt(t, Len(t) - 1)
    BY <2>1, LinesLocated DEF Begun
  <2> QED BY <2>1, <2>2, LineAtGrows
<1>5. L <= Len(LinesOf(s)) \/ L <= Len(LinesOf(r))
  BY <1>2, <1>3, <1>4
<1>6. ASSUME L <= Len(LinesOf(s)), L <= Len(LinesOf(r)), LinesOf(s)[L] = LinesOf(r)[L] PROVE FALSE
  <2>1. L \in 1..Len(LinesOf(s)) /\ L \in 1..Len(LinesOf(r))
    <3>1. LineAt(s, 0) = 1 /\ 0 \in 0..Len(s) /\ b \in 0..Len(s)
      BY <1>1, LineAtIs
    <3>2. 1 <= L
      BY <1>1, <3>1, LineAtGrows
    <3>3. Len(LinesOf(s)) \in Nat /\ Len(LinesOf(r)) \in Nat
      BY LinesAre
    <3> QED BY <1>2, <1>6, <3>2, <3>3
  <2>2. PICK p \in Beginnings(s), n \in Int : LineAt(s, p - 1) = L /\ EndsAt(s, p, n) /\ LinesOf(s)[L] = SubSeq(s, p, n)
    BY <2>1, LinesLocated
  <2>3. PICK q \in Beginnings(r), m \in Int : LineAt(r, q - 1) = L /\ EndsAt(r, q, m) /\ LinesOf(r)[L] = SubSeq(r, q, m)
    BY <2>1, LinesLocated
  <2> HIDE DEF L
  <2>4. p <= b + 1 /\ \A k \in p..b : s[k] # "nl"
    BY <1>1, <2>2, LineOfPlace DEF L
  <2>5. q <= b + 1 /\ \A k \in q..b : r[k] # "nl"
    BY <1>1, <1>2, <2>3, LineOfPlace
  <2>6. /\ p \in 1..Len(s) /\ (p = 1 \/ s[p - 1] = "nl") /\ n \in p..Len(s) /\ (n = Len(s) \/ s[n] = "nl")
        /\ q \in 1..Len(r) /\ (q = 1 \/ r[q - 1] = "nl") /\ m \in q..Len(r) /\ (m = Len(r) \/ r[m] = "nl")
    <3>1. DOMAIN s = 1..Len(s) /\ DOMAIN r = 1..Len(r)
      BY DEF Line
    <3>2. p \in 1..Len(s) /\ (p = 1 \/ s[p - 1] = "nl") /\ n \in p..Len(s) /\ (n = Len(s) \/ s[n] = "nl")
      BY <2>2, <3>1 DEF Beginnings, EndsAt
    <3>3. q \in 1..Len(r) /\ (q = 1 \/ r[q - 1] = "nl") /\ m \in q..Len(r) /\ (m = Len(r) \/ r[m] = "nl")
      BY <2>3, <3>1 DEF Beginnings, EndsAt
    <3> QED BY <3>2, <3>3
  <2>7. p = q
    <3>1. ~(p < q)
      <4> SUFFICES ASSUME p < q PROVE FALSE
        OBVIOUS
      <4>1. q - 1 \in p..b /\ q - 1 \in 1..b /\ q # 1
        BY <1>1, <2>5, <2>6
      <4>2. r[q - 1] = "nl" /\ s[q - 1] = r[q - 1]
        BY <1>1, <2>6, <4>1
      <4> QED BY <2>4, <4>1, <4>2
    <3>2. ~(q < p)
      <4> SUFFICES ASSUME q < p PROVE FALSE
        OBVIOUS
      <4>1. p - 1 \in q..b /\ p - 1 \in 1..b /\ p # 1
        BY <1>1, <2>4, <2>6
      <4>2. s[p - 1] = "nl" /\ s[p - 1] = r[p - 1]
        BY <1>1, <2>6, <4>1
      <4> QED BY <2>5, <4>1, <4>2
    <3> QED BY <2>6, <3>1, <3>2
  <2>8. n = m /\ \A k \in p..n : s[k] = r[k]
    <3>1. SubSeq(s, p, n) = SubSeq(r, p, m)
      BY <1>6, <2>2, <2>3, <2>7
    <3>2. p \in Nat \ {0} /\ n \in Nat /\ m \in Nat /\ p <= n /\ p <= m /\ n <= Len(s) /\ m <= Len(r)
      BY <1>1, <2>6, <2>7
    <3> QED BY <3>1, <3>2, SamePart
  <2>9. CASE b < n
    <3>1. b + 1 \in p..n /\ b < Len(s) /\ b < Len(r)
      BY <1>1, <2>4, <2>6, <2>7, <2>8, <2>9
    <3> QED BY <2>8, <3>1
  <2>10. CASE ~(b < n)
    <3>1. n \in p..b /\ s[n] # "nl" /\ r[n] # "nl"
      BY <1>1, <2>4, <2>5, <2>6, <2>7, <2>10
    <3>2. n = Len(s) /\ n = Len(r)
      BY <2>6, <2>8, <3>1
    <3> QED BY <1>1, <1>3, <2>10, <3>2
  <2> QED BY <2>9, <2>10
<1> HIDE DEF L
<1> QED BY <1>5, <1>6 DEF L

\* After ops that change nothing both texts have come equally far.
LEMMA EqualStart ==
  ASSUME ops \in Seq(DiffOp), NEW a, NEW z, Len(old) \in Nat, Len(new) \in Nat,
         Tracks(a, old, ops, "insert", "old_line"), Tracks(z, new, ops, "delete", "new_line"),
         NEW m \in 0..Len(ops), Unchanged(1, m)
  PROVE  a[m] = m /\ z[m] = m
<1>1. a[0] = 0 /\ z[0] = 0
  BY DEF Tracks
<1>2. CASE m = 0
  BY <1>1, <1>2
<1>3. CASE m # 0
  <2>1. 0 \in 0..Len(ops) /\ 0 <= m /\ 0 + 1 = 1 /\ m - 0 = m /\ m \in 1..m /\ 0 + m = m
    BY <1>3
  <2>2. \A k \in 1..(m - 0) : a[0 + k] = a[0] + k /\ z[0 + k] = z[0] + k
    BY <2>1, EqualRun
  <2> QED BY <1>1, <2>1, <2>2
<1> QED BY <1>2, <1>3

(* The first change is where the two texts part: nothing is changed before *)
(* the line in which they differ, and that line is.                        *)
LEMMA FirstChange ==
  ASSUME old \in Seq(Line), new \in Seq(Line), Walked, i = Len(old), j = Len(new), Differing,
         NEW n \in Nat \ {0},
         \A m \in 1..(n - 1) : m <= Len(old) /\ m <= Len(new) /\ old[m] = new[m],
         n <= Len(old) \/ n <= Len(new), ~(n <= Len(old) /\ n <= Len(new) /\ old[n] = new[n])
  PROVE  n \in DOMAIN ops /\ ops[n].kind # "equal" /\ Unchanged(1, n - 1) /\ ops[n].old_line = n
<1> DEFINE a == OldPlaces
           z == NewPlaces
<1>1. /\ ops \in Seq(DiffOp) /\ Len(ops) \in Nat /\ Len(old) \in Nat /\ Len(new) \in Nat
      /\ Tracks(a, old, ops, "insert", "old_line") /\ Tracks(z, new, ops, "delete", "new_line")
  BY DEF Walked, Came, OldPlaces, NewPlaces
<1>2. a[Len(ops)] = Len(old) /\ z[Len(ops)] = Len(new)
  BY <1>1 DEF OldPlaces, NewPlaces, PlacesOf
<1> HIDE DEF a, z
<1>3. ASSUME NEW m \in 1..n, m - 1 \in 0..Len(ops), Unchanged(1, m - 1)
      PROVE  m \in 1..Len(ops) /\ ops[m].old_line = m /\ ops[m].new_line = m
  <2>1. a[m - 1] = m - 1 /\ z[m - 1] = m - 1
    BY <1>1, <1>3, EqualStart
  <2>2. m <= Len(old) \/ m <= Len(new)
    BY <1>3
  <2>3. m \in 1..Len(ops)
    <3>1. m - 1 # Len(ops)
      <4> SUFFICES ASSUME m - 1 = Len(ops) PROVE FALSE
        OBVIOUS
      <4>1. Len(old) = m - 1 /\ Len(new) = m - 1
        BY <1>2, <2>1
      <4> QED BY <1>3, <2>2, <4>1
    <3> QED BY <1>1, <1>3, <3>1
  <2>4. ops[m]["old_line"] = a[m - 1] + 1 /\ ops[m]["new_line"] = z[m - 1] + 1
    BY <1>1, <2>3 DEF Tracks
  <2> QED BY <2>1, <2>3, <2>4
<1> DEFINE T == {m \in 0..(n - 1) : m \in 0..Len(ops) /\ Unchanged(1, m)}
<1>4. ASSUME NEW m \in 0..(n - 1), m = 0 \/ m - 1 \in T PROVE m \in T
  <2>1. CASE m = 0
    BY <1>1, <2>1 DEF Unchanged
  <2>2. CASE m # 0
    <3>1. m - 1 \in 0..Len(ops) /\ Unchanged(1, m - 1) /\ m \in 1..n /\ m \in 1..(n - 1)
      BY <1>4, <2>2
    <3>2. m \in 1..Len(ops) /\ ops[m].old_line = m /\ ops[m].new_line = m
      BY <1>3, <3>1
    <3>3. m <= Len(old) /\ m <= Len(new) /\ old[m] = new[m]
      BY <3>1
    <3>4. ops[m].kind = "equal"
      BY <1>1, <3>2, <3>3 DEF Differing
    <3>5. Unchanged(1, m)
      BY <3>1, <3>4 DEF Unchanged
    <3> QED BY <3>2, <3>5
  <2> QED BY <2>1, <2>2
<1>5. n - 1 \in T
  <2> HIDE DEF T
  <2>1. 0 \in Nat /\ n - 1 \in Nat /\ n - 1 \in 0..(n - 1)
    OBVIOUS
  <2> QED BY <1>4, <2>1, CountUp
<1>6. n \in 1..Len(ops) /\ ops[n].old_line = n /\ ops[n].new_line = n /\ Unchanged(1, n - 1)
  BY <1>3, <1>5
<1>7. ops[n].kind # "equal"
  <2> SUFFICES ASSUME ops[n].kind = "equal" PROVE FALSE
    OBVIOUS
  <2>1. n \in 0..Len(ops) /\ Unchanged(1, n)
    BY <1>6 DEF Unchanged
  <2>2. a[n] = n /\ z[n] = n
    BY <1>1, <2>1, EqualStart
  <2>3. a[n] \in 0..Len(old) /\ z[n] \in 0..Len(new) /\ ops[n].line = old[a[n]] /\ ops[n].line = new[z[n]]
    BY <1>1, <1>6, <2>1 DEF Tracks
  <2> QED BY <2>2, <2>3
<1> QED BY <1>1, <1>6, <1>7

-----------------------------------------------------------------------------
(* What is compared *)

\* The two texts are those of the file without and with the edit, or what
\* the review shows of them.
Compared(e) ==
  \/ command = "diff" /\ old = LinesOf(disk) /\ new = LinesOf(Spliced(disk, e))
  \/ command = "review" /\ old = ShownLines(OldWindow(disk, e)) /\ new = ShownLines(NewWindow(disk, e))

ComparedInv ==
  /\ edits # {} => source # rewritten
  /\ phase # "waiting" => \A e \in edits : Fits(e) /\ Compared(e)
  /\ phase = "waiting" \/ command \in {"diff", "review"}

\* The file that is compared is not touched any more.
LEMMA ComparedStep == RewriteInv /\ ComparedInv /\ [PlanNext]_<<diffVars, planVars>> => ComparedInv'
<1> SUFFICES ASSUME RewriteInv, ComparedInv, [PlanNext]_<<diffVars, planVars>> PROVE ComparedInv'
  OBVIOUS
<1>1. ASSUME UNCHANGED <<source, rewritten, edits, disk, command, old, new>>,
             phase = "waiting" => phase' = "waiting"
      PROVE  ComparedInv'
  <2>1. ASSUME NEW e, Fits(e), Compared(e) PROVE Fits(e)' /\ Compared(e)'
    <3>1. Fits(e)'
      BY <1>1, <2>1 DEF Fits
    <3>2. Compared(e)'
      BY <1>1, <2>1 DEF Compared
    <3> QED BY <3>1, <3>2
  <2>2. \A e \in edits : Fits(e) /\ Compared(e) => Fits(e)' /\ Compared(e)'
    BY <2>1
  <2> QED BY <1>1, <2>2 DEF ComparedInv
<1>2. ASSUME phase = "waiting", phase' = "waiting", edits' # {} => source' # rewritten' PROVE ComparedInv'
  BY <1>2 DEF ComparedInv
<1>3. CASE NothingProposed \/ Proposed \/ FileChanged
  <2>1. phase = "waiting" /\ phase' = "waiting"
    BY <1>3 DEF NothingProposed, Proposed, FileChanged, ComparedInv, diffVars
  <2>2. edits' # {} => source' # rewritten'
    BY <1>3 DEF NothingProposed, Proposed, FileChanged, ComparedInv
  <2> QED BY <1>2, <2>1, <2>2
<1>4. CASE NothingToDiff \/ DiffRefused \/ DiffEnds \/ UNCHANGED <<diffVars, planVars>>
  BY <1>1, <1>4 DEF NothingToDiff, DiffRefused, DiffEnds, diffVars, planVars
<1>5. ASSUME NEW e \in edits, Fits(e), UNCHANGED <<source, rewritten, edits, disk>>, Compared(e)',
             command' \in {"diff", "review"}
      PROVE  ComparedInv'
  <2>1. edits = {e}
    BY <1>5 DEF RewriteInv
  <2>2. Fits(e)'
    BY <1>5 DEF Fits
  <2>3. \A d \in edits : Fits(d)' /\ Compared(d)'
    BY <1>5, <2>1, <2>2
  <2> QED BY <1>5, <2>3 DEF ComparedInv
<1>6. CASE DiffBegins
  <2>1. PICK e \in edits : Fits(e) /\ Compare(LinesOf(disk), LinesOf(Spliced(disk, e)))
                           /\ command' = "diff" /\ UNCHANGED <<source, rewritten, edits, disk>>
    BY <1>6 DEF DiffBegins
  <2>2. Compared(e)'
    <3>1. (command = "diff" /\ old = LinesOf(disk) /\ new = LinesOf(Spliced(disk, e)))'
      BY <2>1 DEF Compare
    <3> QED BY <3>1 DEF Compared
  <2> QED BY <1>5, <2>1, <2>2
<1>7. CASE Preview
  <2>1. PICK e \in edits : Fits(e) /\ Compare(ShownLines(OldWindow(disk, e)), ShownLines(NewWindow(disk, e)))
                           /\ command' = "review" /\ UNCHANGED <<source, rewritten, edits, disk>>
    BY <1>7 DEF Preview
  <2>2. Compared(e)'
    <3>1. (command = "review" /\ old = ShownLines(OldWindow(disk, e)) /\ new = ShownLines(NewWindow(disk, e)))'
      BY <2>1 DEF Compare
    <3> QED BY <3>1 DEF Compared
  <2> QED BY <1>5, <2>1, <2>2
<1>8. CASE DiffNext /\ UNCHANGED planVars
  <2>1. UNCHANGED <<old, new>> /\ phase # "waiting"
    BY <1>8 DEF DiffNext, FillRow, TableDone, Keep, Delete, Insert, WalkDone, WriteHunk, HunksDone
  <2> QED BY <1>1, <1>8, <2>1 DEF planVars
<1> QED BY <1>3, <1>4, <1>6, <1>7, <1>8 DEF PlanNext

(* The place that a report gives for an edit is where the patch begins to  *)
(* change the file, for every rewrite of a file that was not saved since.  *)
THEOREM ReportAndPatchAgree == PlanSpec => []PlacesAgree
<1> DEFINE Inv == RewriteInv /\ TextsInv /\ DiffInv /\ WalkInv /\ ComparedInv
<1>1. Inv => PlacesAgree
  <2> SUFFICES ASSUME Inv, phase = "done", disk = source, NEW e \in edits
               PROVE  \E k \in DOMAIN ops :
                        /\ ops[k].kind # "equal" /\ \A n \in 1..(k - 1) : ops[n].kind = "equal"
                        /\ ops[k].old_line = LineAt(disk, e.begin)
    BY DEF PlacesAgree
  <2>1. /\ old \in Seq(Line) /\ new \in Seq(Line) /\ Walked /\ Differing /\ i = Len(old) /\ j = Len(new)
    BY DEF WalkInv
  <2>2. command = "diff"
    BY DEF DiffInv
  <2>3. AreTexts /\ e = RewriteEdit /\ source # rewritten /\ rewritten \in Line
    BY DEF RewriteInv, ComparedInv, TextsInv
  <2>4. source \in Line /\ Fits(e) /\ old = LinesOf(disk) /\ new = LinesOf(Spliced(disk, e))
    <3>1. Fits(e) /\ Compared(e)
      BY DEF ComparedInv
    <3> QED BY <2>2, <3>1 DEF Compared, Fits, TextsInv
  <2>5. old = LinesOf(source) /\ new = LinesOf(rewritten)
    BY <2>3, <2>4, RewriteMakes
  <2>6. /\ Prefix \in Nat /\ Prefix <= Len(source) /\ Prefix <= Len(rewritten) /\ AgreeFirst(Prefix)
        /\ Len(source) \in Nat /\ Len(rewritten) \in Nat
        /\ \A n \in 0..Shorter : AgreeFirst(n) => n <= Prefix
        /\ Shorter = Len(source) \/ Shorter = Len(rewritten)
    BY <2>3, TrimmedIs, ShorterIs DEF AreTexts
  <2>7. Agree2(source, rewritten, Prefix)
    BY <2>6 DEF Agree2, AgreeFirst
  <2>8. ~(Prefix < Len(source) /\ Prefix < Len(rewritten) /\ source[Prefix + 1] = rewritten[Prefix + 1])
    <3> SUFFICES ASSUME Prefix < Len(source), Prefix < Len(rewritten), source[Prefix + 1] = rewritten[Prefix + 1]
                 PROVE  FALSE
      OBVIOUS
    <3>1. AgreeFirst(Prefix + 1)
      BY <2>6 DEF AgreeFirst
    <3>2. Prefix + 1 \in 0..Shorter
      BY <2>6
    <3> QED BY <2>6, <3>1, <3>2
  <2> DEFINE n == LineAt(source, Prefix)
  <2>9. n \in Nat \ {0}
    <3>1. 0 \in 0..Len(source) /\ Prefix \in 0..Len(source)
      BY <2>6
    <3>2. LineAt(source, 0) = 1 /\ LineAt(source, 0) <= n /\ n \in Nat
      BY <2>4, <3>1, LineAtIs, LineAtGrows
    <3> QED BY <3>2
  <2>10. \A m \in 1..(n - 1) : m <= Len(old) /\ m <= Len(new) /\ old[m] = new[m]
    BY <2>3, <2>4, <2>5, <2>7, SharedLines
  <2>11. (n <= Len(old) \/ n <= Len(new)) /\ ~(n <= Len(old) /\ n <= Len(new) /\ old[n] = new[n])
    BY <2>3, <2>4, <2>5, <2>7, <2>8, FirstDifference
  <2>12. n = LineAt(disk, e.begin)
    BY <2>3 DEF RewriteEdit
  <2> HIDE DEF n
  <2>13. n \in DOMAIN ops /\ ops[n].kind # "equal" /\ Unchanged(1, n - 1) /\ ops[n].old_line = n
    BY <2>1, <2>9, <2>10, <2>11, FirstChange
  <2> QED BY <2>12, <2>13 DEF Unchanged
<1>2. PlanInit => Inv
  <2>1. PlanInit => WalkInv /\ ComparedInv
    BY DEF PlanInit, DiffInit, WalkInv, ComparedInv
  <2> QED BY <2>1, PlanBegins
<1>3. Inv /\ [PlanNext]_<<diffVars, planVars>> => Inv'
  BY RewriteStep, TextsStep, DiffStep, WalkInvStep, ComparedStep
<1> QED BY <1>1, <1>2, <1>3, PTL DEF PlanSpec

\* An empty text has no lines, any other one as many as begin in it.
LEMMA LineCount ==
  ASSUME NEW t \in Line
  PROVE  /\ LinesOf(t) \in Seq(Line) /\ Len(t) \in Nat
         /\ t = <<>> => LinesOf(t) = <<>>
         /\ t # <<>> => Len(t) # 0 /\ Len(LinesOf(t)) = LineAt(t, Len(t) - 1)
<1>1. LinesOf(t) \in Seq(Line) /\ Len(t) \in Nat /\ Len(t) \in 0..Len(t)
  BY LinesAre DEF Line
<1>2. Len(LinesOf(t)) = IF Len(t) = 0 THEN 0 ELSE LineAt(t, Len(t) - 1)
  BY <1>1, LinesLocated DEF Begun
<1>3. t = <<>> <=> Len(t) = 0
  BY EmptySeq DEF Line
<1> QED BY <1>1, <1>2, <1>3, EmptySeq

\* The lines of a text go on with those of what is put behind it, unless its
\* last line goes on.
LEMMA LinesConcat ==
  ASSUME NEW x \in Line, NEW y \in Line, x = <<>> \/ y = <<>> \/ x[Len(x)] = "nl"
  PROVE  LinesOf(x \o y) = LinesOf(x) \o LinesOf(y)
<1> DEFINE t == x \o y
           n == Len(x)
           l == Len(LinesOf(x))
<1>1. /\ t \in Line /\ n \in Nat /\ Len(y) \in Nat /\ Len(t) = n + Len(y)
      /\ \A k \in 1..n : t[k] = x[k]
      /\ \A k \in 1..Len(y) : t[n + k] = y[k]
  BY ConcatProperties DEF Line
<1>2. LinesOf(x) \in Seq(Line) /\ LinesOf(y) \in Seq(Line) /\ LinesOf(t) \in Seq(Line) /\ l \in Nat
  BY <1>1, LineCount
<1>3. CASE x = <<>>
  <2>1. t = y /\ LinesOf(x) = <<>>
    BY <1>3, LineCount, ConcatEmptySeq DEF Line
  <2> QED BY <1>2, <2>1, ConcatEmptySeq
<1>4. CASE y = <<>>
  <2>1. t = x /\ LinesOf(y) = <<>>
    BY <1>4, LineCount, ConcatEmptySeq DEF Line
  <2> QED BY <1>2, <2>1, ConcatEmptySeq
<1>5. CASE x # <<>> /\ y # <<>>
  <2>1. n \in Nat \ {0} /\ l = LineAt(x, n - 1) /\ Len(y) # 0 /\ Len(LinesOf(y)) = LineAt(y, Len(y) - 1) /\ x[n] = "nl"
    BY <1>1, <1>5, LineCount
  <2> HIDE DEF t
  <2>2. Agree2(x, t, n) /\ n \in 1..n /\ n \in 0..n
    BY <1>1, <2>1 DEF Agree2
  <2>3. LineAt(x, n) = l + 1 /\ LineAt(t, n) = l + 1
    <3>1. LineAt(x, n) = l + 1
      BY <2>1, <2>2, LineAtIs
    <3> QED BY <1>1, <2>2, <3>1, LineAtAgrees
  <2>4. ASSUME NEW k \in 0..Len(y) PROVE LineAt(t, n + k) = l + LineAt(y, k)
    <3> DEFINE T == {m \in 0..Len(y) : LineAt(t, n + m) = l + LineAt(y, m)}
    <3>1. ASSUME NEW m \in 0..Len(y), m = 0 \/ m - 1 \in T PROVE m \in T
      <4>1. CASE m = 0
        <5>1. LineAt(y, 0) = 1 /\ n + 0 = n
          BY <1>1, LineAtIs
        <5> QED BY <2>3, <4>1, <5>1
      <4>2. CASE m # 0
        <5>1. m \in 1..Len(y) /\ n + m \in 1..Len(t) /\ n + m - 1 = n + (m - 1) /\ t[n + m] = y[m]
              /\ LineAt(t, n + (m - 1)) = l + LineAt(y, m - 1) /\ m - 1 \in 0..Len(y)
          BY <1>1, <3>1, <4>2
        <5>2. LineAt(y, m) = LineAt(y, m - 1) + (IF y[m] = "nl" THEN 1 ELSE 0) /\ LineAt(y, m - 1) \in Nat
          BY <1>1, <5>1, LineAtIs
        <5>3. LineAt(t, n + m) = LineAt(t, n + m - 1) + (IF t[n + m] = "nl" THEN 1 ELSE 0)
          BY <1>1, <5>1, LineAtIs
        <5>4. LineAt(t, n + m) = l + LineAt(y, m)
          BY <1>2, <5>1, <5>2, <5>3
        <5> QED BY <5>4
      <4> QED BY <4>1, <4>2
    <3>2. k \in T
      <4> HIDE DEF T
      <4>1. 0 \in Nat
        OBVIOUS
      <4> QED BY <1>1, <3>1, <4>1, CountUp
    <3> QED BY <3>2
  <2>5. Len(LinesOf(t)) = l + Len(LinesOf(y))
    <3>1. Len(t) - 1 = n + (Len(y) - 1) /\ Len(y) - 1 \in 0..Len(y) /\ Len(t) # 0
      BY <1>1, <2>1
    <3>2. t # <<>>
      BY <3>1
    <3> QED BY <1>1, <2>1, <2>4, <3>1, <3>2, LineCount
  <2>6. ASSUME NEW m \in 1..l PROVE LinesOf(t)[m] = LinesOf(x)[m]
    <3>1. m \in 1..(LineAt(x, n) - 1)
      BY <1>2, <2>3
    <3> QED BY <1>1, <2>2, <3>1, SharedLines
  <2>7. ASSUME NEW k \in 1..Len(LinesOf(y)) PROVE LinesOf(t)[l + k] = LinesOf(y)[k]
    <3>1. PICK p \in Beginnings(y), q \in Int : LineAt(y, p - 1) = k /\ EndsAt(y, p, q) /\ LinesOf(y)[k] = SubSeq(y, p, q)
      BY LinesLocated
    <3>2. p \in 1..Len(y) /\ (p = 1 \/ y[p - 1] = "nl")
          /\ q \in p..Len(y) /\ (q = Len(y) \/ y[q] = "nl") /\ \A c \in p..(q - 1) : y[c] # "nl"
      <4>1. DOMAIN y = 1..Len(y)
        BY DEF Line
      <4> QED BY <3>1, <4>1 DEF Beginnings, EndsAt
    <3> DEFINE b == n + p
               e == n + q
    <3>3. b \in Beginnings(t)
      <4>1. n + p \in 1..Len(t) /\ DOMAIN t = 1..Len(t)
        BY <1>1, <3>2 DEF Line
      <4>2. t[n + p - 1] = "nl"
        <5>1. CASE p = 1
          <6>1. n + p - 1 = n
            BY <2>1, <5>1
          <6> QED BY <1>1, <2>1, <2>2, <6>1
        <5>2. CASE p # 1
          <6>1. n + p - 1 = n + (p - 1) /\ p - 1 \in 1..Len(y)
            BY <1>1, <3>2, <5>2
          <6> QED BY <1>1, <3>2, <5>2, <6>1
        <5> QED BY <5>1, <5>2
      <4>3. b - 1 = n + (p - 1)
        BY <1>1, <3>2
      <4>4. b \in DOMAIN t /\ t[b - 1] = "nl"
        BY <4>1, <4>2, <4>3
      <4> HIDE DEF b
      <4> QED BY <4>4 DEF Beginnings
    <3>4. EndsAt(t, b, e)
      <4>0. q \in 1..Len(y) /\ p \in 1..Len(y) /\ p <= q /\ q <= Len(y)
        BY <1>1, <3>2
      <4>1. e \in b..Len(t) /\ t[e] = y[q] /\ (q = Len(y) => e = Len(t))
        <5>1. t[n + q] = y[q]
          BY <1>1, <4>0
        <5>2. n + q \in (n + p)..(n + Len(y))
          BY <1>1, <4>0
        <5> QED BY <1>1, <5>1, <5>2
      <4>2. ASSUME NEW c \in b..(e - 1) PROVE t[c] # "nl"
        <5>1. c - n \in p..(q - 1) /\ c - n \in 1..Len(y) /\ n + (c - n) = c
          BY <1>1, <3>2
        <5> QED BY <1>1, <3>2, <5>1
      <4> HIDE DEF b, e
      <4> QED BY <3>2, <4>1, <4>2 DEF EndsAt
    <3>5. LineAt(t, b - 1) = l + k
      <4>1. p - 1 \in 0..Len(y) /\ b - 1 = n + (p - 1)
        BY <1>1, <3>2
      <4> QED BY <2>4, <3>1, <4>1
    <3>6. LinesOf(t)[l + k] = SubSeq(t, n + p, n + q)
      <4>1. LinesOf(t)[LineAt(t, b - 1)] = SubSeq(t, b, e)
        <5> HIDE DEF b, e
        <5> QED BY <1>1, <3>3, <3>4, LineIs
      <4> QED BY <3>5, <4>1
    <3>7. SubSeq(t, n + p, n + q) = SubSeq(y, p, q)
      <4> DEFINE g == p - 1
                 a == n + g
                 c == q - g
      <4>1. /\ a \in Nat /\ g \in Nat /\ c \in Nat /\ a + c <= Len(t) /\ g + c <= Len(y)
            /\ a + 1 = n + p /\ a + c = n + q /\ g + 1 = p /\ g + c = q
        BY <1>1, <3>2
      <4>2. \A d \in 1..c : t[a + d] = y[g + d]
        <5> SUFFICES ASSUME NEW d \in 1..c PROVE t[a + d] = y[g + d]
          OBVIOUS
        <5>1. g + d \in 1..Len(y) /\ a + d = n + (g + d)
          BY <1>1, <3>2
        <5> HIDE DEF a, g
        <5> QED BY <1>1, <5>1
      <4> HIDE DEF a, g, c
      <4>3. MembersEqual(t, a, y, g, c)
        BY <4>2 DEF MembersEqual
      <4>4. PartsEqual(t, a, y, g, c)
        <5>1. t \in Seq(Char) /\ y \in Seq(Char)
          BY <1>1 DEF Line
        <5> QED BY <4>1, <4>3, <5>1, SameParts
      <4> QED BY <4>1, <4>4 DEF PartsEqual
    <3> QED BY <3>1, <3>6, <3>7
  <2> DEFINE R == LinesOf(x) \o LinesOf(y)
  <2>8. /\ R \in Seq(Line) /\ Len(R) = l + Len(LinesOf(y))
        /\ \A m \in 1..l : R[m] = LinesOf(x)[m]
        /\ \A k \in 1..Len(LinesOf(y)) : R[l + k] = LinesOf(y)[k]
    BY <1>2, ConcatProperties
  <2> HIDE DEF R, l
  <2>9. \A m \in 1..Len(R) : LinesOf(t)[m] = R[m]
    <3> SUFFICES ASSUME NEW m \in 1..Len(R) PROVE LinesOf(t)[m] = R[m]
      OBVIOUS
    <3>1. CASE m \in 1..l
      BY <2>6, <2>8, <3>1
    <3>2. CASE m \notin 1..l
      <4>1. m - l \in 1..Len(LinesOf(y)) /\ l + (m - l) = m
        <5>1. Len(LinesOf(y)) \in Nat
          BY <1>2
        <5> QED BY <1>2, <2>8, <3>2, <5>1
      <4> QED BY <2>7, <2>8, <4>1
    <3> QED BY <3>1, <3>2
  <2>10. LinesOf(t) = R
    BY <1>2, <2>5, <2>8, <2>9, SeqEqual
  <2> QED BY <2>10 DEF R, t
<1> QED BY <1>3, <1>4, <1>5

\* The greater of two numbers.
LEMMA GreaterOf ==
  ASSUME NEW a \in Int, NEW b \in Int
  PROVE  Max({a, b}) \in {a, b} /\ a <= Max({a, b}) /\ b <= Max({a, b})
<1>1. \E x \in {a, b} : \A y \in {a, b} : x >= y
  OBVIOUS
<1>2. Max({a, b}) \in {a, b} /\ \A y \in {a, b} : Max({a, b}) >= y
  BY <1>1 DEF Max
<1> QED BY <1>2

\* The length of a text, and the places in it.
LEMMA LengthIs ==
  ASSUME NEW t \in Line
  PROVE  Len(t) \in Nat /\ DOMAIN t = 1..Len(t) /\ (t # <<>> => Len(t) # 0) /\ LinesOf(<<>>) = <<>>
<1>1. Len(t) \in Nat /\ DOMAIN t = 1..Len(t)
  BY DEF Line
<1>2. t # <<>> => Len(t) # 0
  BY LineCount
<1>3. LinesOf(<<>>) = <<>>
  <2>1. <<>> \in Line
    BY DEF Line
  <2> QED BY <2>1, LineCount
<1> QED BY <1>1, <1>2, <1>3

\* The character at an offset, or the last one at the end of the text.
CharAt(t, p, q) == q \in 0..(Len(t) - 1) /\ (q = p \/ (p = Len(t) /\ q + 1 = p))

\* Within the text it is the character at the offset.
LEMMA CharHere == ASSUME NEW t, NEW p \in 0..(Len(t) - 1) PROVE CharAt(t, p, p)
BY DEF CharAt

\* line_index_for_offset and line_column count the same lines, one from 0 and
\* the other from 1, but for the end of the text.
LEMMA IndexIs ==
  ASSUME NEW t \in Line, t # <<>>, NEW p, NEW q, CharAt(t, p, q)
  PROVE  LineAt(t, q) \in Nat /\ LineIndex(t, p) = LineAt(t, q) - 1
<1> DEFINE L == Len(t)
           N == {k \in DOMAIN t : t[k] = "nl"}
<1>1. /\ L \in Nat /\ L # 0 /\ DOMAIN t = 1..L
      /\ q \in 0..(L - 1) /\ (q = p \/ (p = L /\ q + 1 = p))
  BY LengthIs DEF CharAt
<1> HIDE DEF L
<1>2. {s \in LineStarts(t) : s <= p} = {s \in {0} \cup N : s <= q}
  <2> SUFFICES ASSUME NEW s
               PROVE  (s \in LineStarts(t) /\ s <= p) <=> (s \in {0} \cup N /\ s <= q)
    OBVIOUS
  <2>1. LineStarts(t) = {0} \cup {k \in 1..(L - 1) : t[k] = "nl"}
    BY DEF LineStarts, L
  <2>2. N = {k \in 1..L : t[k] = "nl"}
    BY <1>1
  <2> HIDE DEF N
  <2>3. CASE s = 0
    BY <1>1, <2>1, <2>3
  <2>4. CASE s # 0
    <3>1. s \in 1..(L - 1) /\ s <= p <=> s \in 1..L /\ s <= q
      BY <1>1
    <3> QED BY <2>1, <2>2, <2>4, <3>1
  <2> QED BY <2>3, <2>4
<1>3. LineIndex(t, p) = LineAt(t, q) - 1
  BY <1>2 DEF LineIndex, LineAt
<1>4. q \in 0..Len(t)
  BY <1>1 DEF L
<1> QED BY <1>3, <1>4, LineAtIs

\* Where a line starts, if there is such a line.
LEMMA StartFound ==
  ASSUME NEW t \in Line, t # <<>>, NEW n \in Nat
  PROVE  LET s == StartOfLine(t, n)
         IN /\ s \in 0..Len(t)
            /\ s # Len(t) => s \in 0..(Len(t) - 1) /\ (s = 0 \/ t[s] = "nl") /\ LineAt(t, s) = n + 1
            /\ n < Len(LinesOf(t)) => s # Len(t)
<1> DEFINE S == {s \in LineStarts(t) : LineIndex(t, s) = n}
           s == StartOfLine(t, n)
<1>1. Len(t) \in Nat /\ Len(t) # 0 /\ DOMAIN t = 1..Len(t)
  BY LengthIs
<1>2. LineStarts(t) \subseteq 0..(Len(t) - 1) /\ \A x \in LineStarts(t) : x = 0 \/ t[x] = "nl"
  BY <1>1 DEF LineStarts
<1>3. \A x \in 0..(Len(t) - 1) : x \in 0..Len(t) /\ LineIndex(t, x) = LineAt(t, x) - 1 /\ LineAt(t, x) \in Nat
  <2> SUFFICES ASSUME NEW x \in 0..(Len(t) - 1)
               PROVE  x \in 0..Len(t) /\ LineIndex(t, x) = LineAt(t, x) - 1 /\ LineAt(t, x) \in Nat
    OBVIOUS
  <2>1. x \in 0..Len(t) /\ CharAt(t, x, x)
    <3> DEFINE L == Len(t)
    <3>1. L \in Nat /\ x \in 0..(L - 1)
      BY LengthIs
    <3> HIDE DEF L
    <3>2. x \in 0..L
      BY <3>1
    <3>3. CharAt(t, x, x)
      BY CharHere
    <3> QED BY <3>2, <3>3 DEF L
  <2> QED BY <2>1, IndexIs
<1>4. s \in {Len(t)} \cup S /\ \A x \in {Len(t)} \cup S : s <= x
  <2>1. {Len(t)} \cup S \in SUBSET Nat /\ {Len(t)} \cup S # {}
    BY <1>1, <1>2
  <2> HIDE DEF S
  <2>2. s = Min({Len(t)} \cup S)
    BY DEF StartOfLine, S
  <2> HIDE DEF s
  <2> QED BY <2>1, <2>2, LeastOf
<1> HIDE DEF s
<1>5. s \in 0..Len(t)
  BY <1>1, <1>2, <1>4
<1>6. s # Len(t) => s \in 0..(Len(t) - 1) /\ (s = 0 \/ t[s] = "nl") /\ LineAt(t, s) = n + 1
  <2> SUFFICES ASSUME s # Len(t) PROVE s \in 0..(Len(t) - 1) /\ (s = 0 \/ t[s] = "nl") /\ LineAt(t, s) = n + 1
    OBVIOUS
  <2>1. s \in LineStarts(t) /\ LineIndex(t, s) = n
    BY <1>4
  <2>2. s \in 0..(Len(t) - 1) /\ (s = 0 \/ t[s] = "nl")
    BY <1>2, <2>1
  <2> QED BY <1>3, <2>1, <2>2
<1>7. n < Len(LinesOf(t)) => s # Len(t)
  <2> SUFFICES ASSUME n < Len(LinesOf(t)) PROVE s # Len(t)
    OBVIOUS
  <2>1. n + 1 \in 1..Len(LinesOf(t))
    BY LineCount
  <2>2. PICK p \in Beginnings(t) : LineAt(t, p - 1) = n + 1
    BY <2>1, LinesLocated
  <2> DEFINE x == p - 1
  <2>3. x \in 0..(Len(t) - 1) /\ x \in LineStarts(t)
    <3>1. p \in 1..Len(t) /\ (p = 1 \/ t[p - 1] = "nl")
      BY <1>1 DEF Beginnings
    <3> QED BY <1>1, <3>1 DEF LineStarts
  <2>4. LineAt(t, x) = n + 1
    BY <2>2
  <2> HIDE DEF x
  <2>5. LineIndex(t, x) = n
    BY <1>3, <2>3, <2>4
  <2>6. s <= x
    BY <1>4, <2>3, <2>5
  <2>7. Len(t) \in Nat /\ x \in 0..(Len(t) - 1)
    BY <1>1, <2>3
  <2> HIDE DEF S
  <2>8. s \in 0..Len(t)
    BY <1>5
  <2> DEFINE L == Len(t)
  <2> HIDE DEF L
  <2>9. L \in Nat /\ x \in 0..(L - 1) /\ s \in 0..L
    BY <2>7, <2>8 DEF L
  <2>10. s # L
    BY <2>6, <2>9
  <2> QED BY <2>10 DEF L
<1> QED BY <1>5, <1>6, <1>7 DEF s

\* Whole lines are shown, and the edit lies within them.
LEMMA WindowIs ==
  ASSUME NEW t \in Line, NEW e, e.begin \in Nat, e.end \in Nat, e.begin <= e.end, e.end <= Len(t)
  PROVE  LET b == WindowBegin(t, e)
             z == WindowEnd(t, e)
         IN /\ b \in 0..Len(t) /\ z \in 0..Len(t) /\ b <= e.begin /\ e.end <= z
            /\ b = 0 \/ t[b] = "nl"
            /\ z = Len(t) \/ (e.end < z /\ t[z] = "nl")
            /\ FirstShown(t, e) \in Nat /\ Len(LinesOf(SubSeq(t, 1, b))) = FirstShown(t, e)
<1> DEFINE b == WindowBegin(t, e)
           z == WindowEnd(t, e)
           f == FirstShown(t, e)
           x == LineIndex(t, e.begin)
           o == Max({0, e.end - 1})
           a == AfterShown(t, e)
<1>1. Len(t) \in Nat /\ e.begin \in 0..Len(t) /\ e.end \in 0..Len(t)
  BY LineCount
<1>2. o \in Nat /\ (o = 0 \/ o = e.end - 1) /\ e.end - 1 <= o
  <2> DEFINE y == e.end - 1
  <2>1. 0 \in Int /\ y \in Int
    OBVIOUS
  <2> HIDE DEF y
  <2>2. Max({0, y}) \in {0, y} /\ 0 <= Max({0, y}) /\ y <= Max({0, y})
    BY <2>1, GreaterOf
  <2>3. Max({0, y}) \in Nat
    BY <2>1, <2>2
  <2> QED BY <2>2, <2>3 DEF y
<1>3. b = StartOfLine(t, f) /\ z = StartOfLine(t, a) /\ f = Max({0, x - 2}) /\ a = LineIndex(t, o) + 3
  <2>1. 2 + 1 = 3
    OBVIOUS
  <2>2. a = LineIndex(t, o) + 2 + 1
    BY DEF AfterShown, WindowContext
  <2>3. a = LineIndex(t, o) + 3
    <3>1. LineIndex(t, o) \in Int
      <4>1. Cardinality({s \in LineStarts(t) : s <= o}) \in Nat
        <5>1. IsFiniteSet(0..o)
          BY <1>2, FS_Interval
        <5>2. {s \in LineStarts(t) : s <= o} \subseteq 0..o
          BY <1>1, <1>2 DEF LineStarts
        <5> QED BY <5>1, <5>2, FS_Subset, FS_CardinalityType
      <4> QED BY <4>1 DEF LineIndex
    <3> QED BY <2>2, <3>1
  <2> QED BY <2>3 DEF WindowBegin, WindowEnd, FirstShown, WindowContext
<1> HIDE DEF b, z, f, o, a
<1>4. CASE t = <<>>
  <2>1. Len(t) = 0 /\ b \in 0..0 /\ z \in 0..0
    BY <1>3, <1>4, StartIs
  <2>2. x = 0
    <3>1. LineStarts(t) = {0} /\ e.begin = 0
      BY <1>1, <2>1 DEF LineStarts
    <3>2. {s \in LineStarts(t) : s <= e.begin} = {0}
      BY <3>1
    <3>3. Cardinality({0}) = 1
      BY FS_Singleton
    <3>4. LineIndex(t, e.begin) = Cardinality({0}) - 1
      BY <3>2 DEF LineIndex
    <3> QED BY <3>3, <3>4
  <2>3. f = 0
    <3> DEFINE y == x - 2
    <3>1. 0 \in Int /\ y \in Int /\ y < 0
      BY <2>2
    <3>2. f = Max({0, y})
      BY <1>3
    <3> HIDE DEF y
    <3>3. f \in {0, y} /\ 0 <= f
      BY <3>1, <3>2, GreaterOf
    <3> QED BY <3>1, <3>3
  <2>4. SubSeq(t, 1, b) = <<>> /\ LinesOf(<<>>) = <<>>
    BY <1>4, <2>1, SubSeqEmpty, LineCount
  <2>5. b = 0 /\ z = 0 /\ e.begin = 0 /\ e.end = 0 /\ Len(<<>>) = 0
    BY <1>1, <2>1
  <2>6. Len(LinesOf(SubSeq(t, 1, b))) = 0
    BY <2>4, <2>5
  <2> QED BY <2>1, <2>3, <2>5, <2>6 DEF b, z, f
<1>5. CASE t # <<>>
  <2>1. Len(t) # 0 /\ Len(LinesOf(t)) = LineAt(t, Len(t) - 1) /\ Len(t) - 1 \in 0..Len(t)
    BY <1>1, <1>5, LineCount
  <2> DEFINE c == IF e.begin = Len(t) THEN e.begin - 1 ELSE e.begin
  <2>2. c \in 0..(Len(t) - 1) /\ LineAt(t, c) \in Nat /\ x = LineAt(t, c) - 1
    <3>1. c \in 0..(Len(t) - 1) /\ (c = e.begin \/ (e.begin = Len(t) /\ c + 1 = e.begin))
      <4> DEFINE L == Len(t)
                 p == e.begin
      <4>1. L \in Nat /\ L # 0 /\ p \in 0..L
        BY <1>1, <2>1
      <4>2. c = IF p = L THEN p - 1 ELSE p
        OBVIOUS
      <4> HIDE DEF c, L, p
      <4>3. c \in 0..(L - 1) /\ (c = p \/ (p = L /\ c + 1 = p))
        BY <4>1, <4>2
      <4> QED BY <4>3 DEF L, p
    <3> HIDE DEF c
    <3>2. CharAt(t, e.begin, c)
      BY <3>1 DEF CharAt
    <3> QED BY <1>5, <3>1, <3>2, IndexIs
  <2>3. 1 <= LineAt(t, c) /\ LineAt(t, c) <= LineAt(t, Len(t) - 1) /\ LineAt(t, Len(t) - 1) \in Nat
    <3> HIDE DEF c
    <3>1. 0 \in 0..Len(t) /\ c \in 0..Len(t) /\ Len(t) - 1 \in c..Len(t)
      BY <1>1, <2>1, <2>2
    <3>2. LineAt(t, 0) = 1 /\ LineAt(t, 0) <= LineAt(t, c)
      BY <3>1, LineAtIs, LineAtGrows
    <3> QED BY <3>1, <3>2, LineAtGrows
  <2>4. f \in Nat /\ f <= x /\ x \in Nat
    <3> HIDE DEF c
    <3>1. x \in Nat
      BY <2>2, <2>3
    <3> DEFINE y == x - 2
    <3>2. 0 \in Int /\ y \in Int /\ y <= x
      BY <3>1
    <3>3. f = Max({0, y})
      BY <1>3
    <3> HIDE DEF y
    <3>4. f \in {0, y} /\ 0 <= f
      BY <3>2, <3>3, GreaterOf
    <3> QED BY <3>1, <3>2, <3>4
  <2>5. b \in 0..(Len(t) - 1) /\ (b = 0 \/ t[b] = "nl") /\ LineAt(t, b) = f + 1
    <3> HIDE DEF c
    <3>1. f < Len(LinesOf(t))
      BY <2>1, <2>2, <2>3, <2>4
    <3> QED BY <1>3, <1>5, <2>4, <3>1, StartFound
  <2>6. b <= e.begin
    <3> SUFFICES ASSUME e.begin < b PROVE FALSE
      BY <1>1, <2>5
    <3>1. c = e.begin /\ b \in (c + 1)..b /\ b \in c..Len(t) /\ c \in 0..Len(t) /\ t[b] = "nl"
      BY <1>1, <2>5
    <3> HIDE DEF c
    <3>2. LineAt(t, c) < LineAt(t, b)
      BY <3>1, LineAtGrows
    <3> QED BY <2>2, <2>4, <2>5, <3>2
  <2>7. Len(LinesOf(SubSeq(t, 1, b))) = f
    <3>1. CASE b = 0
      <4>1. f = 0
        BY <2>4, <2>5, <3>1, LineAtIs
      <4>2. SubSeq(t, 1, b) = <<>> /\ <<>> \in Line
        <5>1. SubSeq(t, 1, 0) = <<>>
          BY SubSeqEmpty
        <5> QED BY <3>1, <5>1 DEF Line
      <4>3. Len(<<>>) = 0 /\ LinesOf(<<>>) = <<>>
        BY LengthIs
      <4>4. LinesOf(SubSeq(t, 1, b)) = <<>>
        BY <4>2, <4>3
      <4> QED BY <4>1, <4>3, <4>4
    <3>2. CASE b # 0
      <4> DEFINE A == SubSeq(t, 1, b)
      <4>1. A \in Line /\ Len(A) = b /\ \A k \in 1..b : A[k] = t[k]
        <5>1. t \in Seq(Char) /\ b \in Nat /\ 0 + b <= Len(t)
          BY <1>1, <2>5 DEF Line
        <5>2. /\ SubSeq(t, 0 + 1, 0 + b) \in Seq(Char) /\ Len(SubSeq(t, 0 + 1, 0 + b)) = b
              /\ \A k \in 1..b : SubSeq(t, 0 + 1, 0 + b)[k] = t[0 + k]
          BY <5>1, PartIs
        <5>3. 0 + b = b
          BY <5>1
        <5> QED BY <5>2, <5>3 DEF Line
      <4> HIDE DEF A
      <4>2. Agree2(t, A, b) /\ b - 1 \in 0..b /\ b \in 1..Len(t) /\ A # <<>>
        BY <1>1, <2>5, <3>2, <4>1 DEF Agree2
      <4>3. Len(LinesOf(A)) = LineAt(A, b - 1)
        BY <4>1, <4>2, LineCount
      <4>4. LineAt(A, b - 1) = LineAt(t, b - 1)
        BY <4>1, <4>2, LineAtAgrees
      <4>5. LineAt(t, b) = LineAt(t, b - 1) + 1 /\ LineAt(t, b - 1) \in Nat
        <5>1. LineAt(t, b) = LineAt(t, b - 1) + (IF t[b] = "nl" THEN 1 ELSE 0)
          BY <4>2, LineAtIs
        <5>2. b - 1 \in 0..Len(t)
          BY <4>2
        <5> QED BY <2>5, <3>2, <5>1, <5>2, LineAtIs
      <4> QED BY <2>4, <2>5, <4>3, <4>4, <4>5 DEF A
    <3> QED BY <3>1, <3>2
  <2>8. o \in 0..(Len(t) - 1) /\ LineAt(t, o) \in Nat /\ LineIndex(t, o) = LineAt(t, o) - 1 /\ 1 <= LineAt(t, o)
    <3>1. o \in 0..(Len(t) - 1) /\ o \in 0..Len(t) /\ o # Len(t)
      BY <1>1, <1>2, <2>1
    <3>2. LineAt(t, o) \in Nat /\ LineIndex(t, o) = LineAt(t, o) - 1
      <4>1. CharAt(t, o, o)
        BY <3>1, CharHere
      <4> QED BY <1>5, <4>1, IndexIs
    <3>3. LineAt(t, 0) = 1 /\ 0 \in 0..Len(t)
      BY <1>1, LineAtIs
    <3>4. LineAt(t, 0) <= LineAt(t, o)
      BY <3>1, <3>3, LineAtGrows
    <3> QED BY <3>1, <3>2, <3>3, <3>4
  <2>9. a \in Nat /\ a = LineAt(t, o) + 2
    BY <1>3, <2>8
  <2>10. z \in 0..Len(t) /\ (z # Len(t) => z \in 0..(Len(t) - 1) /\ (z = 0 \/ t[z] = "nl") /\ LineAt(t, z) = a + 1)
    BY <1>3, <1>5, <2>9, StartFound
  <2>11. ASSUME z # Len(t) PROVE e.end < z /\ t[z] = "nl"
    <3>1. LineAt(t, z) = LineAt(t, o) + 3 /\ z \in 0..(Len(t) - 1) /\ (z = 0 \/ t[z] = "nl")
      BY <2>8, <2>9, <2>10, <2>11
    <3>2. z # 0
      BY <2>8, <3>1, LineAtIs
    <3>3. t[z] = "nl"
      BY <3>1, <3>2
    <3>4. e.end < z
      <4> SUFFICES ASSUME z <= e.end PROVE FALSE
        BY <1>1, <3>1
      <4>1. z - 1 \in 0..Len(t) /\ o \in (z - 1)..Len(t) /\ z \in 1..Len(t)
        BY <1>1, <1>2, <2>8, <3>1, <3>2
      <4>2. LineAt(t, z - 1) <= LineAt(t, o) /\ LineAt(t, z - 1) \in Nat
        BY <4>1, LineAtGrows
      <4>3. LineAt(t, z) = LineAt(t, z - 1) + (IF t[z] = "nl" THEN 1 ELSE 0)
        BY <4>1, LineAtIs
      <4> QED BY <2>8, <3>1, <3>3, <4>2, <4>3
    <3> QED BY <3>3, <3>4
  <2>12. e.end <= z
    BY <1>1, <2>10, <2>11
  <2>13. b \in 0..Len(t)
    BY <1>1, <2>5
  <2> QED BY <2>4, <2>5, <2>6, <2>7, <2>10, <2>11, <2>12, <2>13 DEF b, z, f
<1> QED BY <1>4, <1>5

\* Five texts in a row, the three in the middle taken together.
Together(a, h, r, m, c) == (a \o h) \o r \o (m \o c) = a \o (h \o r \o m) \o c

\* Three texts put together may be put together in any order, and so may five.
Tied(a, h, r) == (a \o h) \o r = a \o (h \o r)

\* They may, as joining texts is associative.
LEMMA ThreeTogether ==
  ASSUME NEW a \in Seq(Char), NEW h \in Seq(Char), NEW r \in Seq(Char)
  PROVE  Tied(a, h, r)
BY ConcatAssociative DEF Tied

\* The middle of five texts may be put together first.
LEMMA MiddleTogether ==
  ASSUME NEW a \in Seq(Char), NEW h \in Seq(Char), NEW r \in Seq(Char), NEW m \in Seq(Char), NEW c \in Seq(Char)
  PROVE  Together(a, h, r, m, c)
<1>1. h \o r \in Seq(Char) /\ a \o (h \o r) \in Seq(Char)
  OBVIOUS
<1>2. Tied(a, h, r) /\ Tied(a \o (h \o r), m, c) /\ Tied(a, h \o r, m)
  BY <1>1, ThreeTogether
<1> QED BY <1>2 DEF Tied, Together

\* Part of a text, and its last character.
LEMMA PartOf ==
  ASSUME NEW t \in Line, NEW b \in 0..Len(t), NEW z \in 0..Len(t), b <= z
  PROVE  /\ SubSeq(t, b + 1, z) \in Line /\ Len(SubSeq(t, b + 1, z)) = z - b
         /\ b < z => Len(SubSeq(t, b + 1, z)) # 0 /\ SubSeq(t, b + 1, z)[Len(SubSeq(t, b + 1, z))] = t[z]
<1> DEFINE n == z - b
<1>1. t \in Seq(Char) /\ Len(t) \in Nat /\ b \in Nat /\ n \in Nat /\ b + n = z /\ b + n <= Len(t) /\ (b < z => n \in 1..n /\ n # 0)
  BY LengthIs DEF Line
<1> HIDE DEF n
<1>2. /\ SubSeq(t, b + 1, b + n) \in Seq(Char) /\ Len(SubSeq(t, b + 1, b + n)) = n
      /\ \A k \in 1..n : SubSeq(t, b + 1, b + n)[k] = t[b + k]
  BY <1>1, PartIs
<1> QED BY <1>1, <1>2 DEF n, Line

\* The file and the file with the edit made: the same lines, then those
\* of the window, then the same lines again.
LEMMA WindowLines ==
  ASSUME NEW t \in Line, NEW e, e.begin \in Nat, e.end \in Nat, e.begin <= e.end, e.end <= Len(t),
         e.replacement \in Line
  PROVE  /\ OldWindow(t, e) \in Line /\ NewWindow(t, e) \in Line
         /\ \E x, y \in Seq(Line) :
              /\ Len(x) = FirstShown(t, e)
              /\ LinesOf(t) = x \o LinesOf(OldWindow(t, e)) \o y
              /\ LinesOf(Spliced(t, e)) = x \o LinesOf(NewWindow(t, e)) \o y
<1> DEFINE L == Len(t)
           b == WindowBegin(t, e)
           z == WindowEnd(t, e)
           A == SubSeq(t, 1, b)
           W == OldWindow(t, e)
           C == SubSeq(t, z + 1, L)
           H == SubSeq(t, b + 1, e.begin)
           r == e.replacement
           M == SubSeq(t, e.end + 1, z)
           N == NewWindow(t, e)
<1>1. /\ b \in 0..L /\ z \in 0..L /\ b <= e.begin /\ e.end <= z
      /\ b = 0 \/ t[b] = "nl"
      /\ z = L \/ (e.end < z /\ t[z] = "nl")
      /\ FirstShown(t, e) \in Nat /\ Len(LinesOf(A)) = FirstShown(t, e)
  BY WindowIs
<1>2. W = SubSeq(t, b + 1, z) /\ N = H \o r \o M
  BY DEF OldWindow, NewWindow
<1>3. Spliced(t, e) = SubSeq(t, 1, e.begin) \o r \o SubSeq(t, e.end + 1, L)
  BY DEF Spliced
<1> HIDE DEF b, z, W, N
<1>4. L \in Nat /\ t \in Seq(Char) /\ e.begin \in 0..L /\ e.end \in 0..L /\ 0 \in 0..L /\ L \in 0..L
      /\ b \in Nat /\ z \in Nat /\ b <= z /\ z <= L /\ b <= e.end
  BY <1>1, LengthIs DEF Line
<1>5. /\ A \in Line /\ Len(A) = b /\ (b # 0 => A[Len(A)] = "nl")
  <2>1. /\ SubSeq(t, 0 + 1, b) \in Line /\ Len(SubSeq(t, 0 + 1, b)) = b - 0
        /\ 0 < b => SubSeq(t, 0 + 1, b)[Len(SubSeq(t, 0 + 1, b))] = t[b]
    <3>1. 0 <= b
      BY <1>4
    <3> QED BY <1>1, <1>4, <3>1, PartOf
  <2>2. 0 + 1 = 1 /\ b - 0 = b /\ (b # 0 => 0 < b)
    BY <1>4
  <2> QED BY <1>1, <2>1, <2>2
<1>6. W \in Line /\ C \in Line /\ H \in Line /\ M \in Line /\ Len(M) = z - e.end /\ (z = L => Len(C) = 0)
  <2>1. W \in Line
    BY <1>1, <1>2, <1>4, PartOf
  <2>2. C \in Line /\ Len(C) = L - z
    <3> HIDE DEF L
    <3>1. z \in 0..Len(t) /\ L \in 0..Len(t) /\ z <= L
      BY <1>4 DEF L
    <3> QED BY <3>1, PartOf
  <2>3. H \in Line
    BY <1>1, <1>4, PartOf
  <2>4. M \in Line /\ Len(M) = z - e.end
    BY <1>1, <1>4, PartOf
  <2> QED BY <1>4, <2>1, <2>2, <2>3, <2>4
<1>7. z # L => Len(M) # 0 /\ M[Len(M)] = "nl" /\ Len(W) # 0 /\ W[Len(W)] = "nl"
  <2> SUFFICES ASSUME z # L PROVE Len(M) # 0 /\ M[Len(M)] = "nl" /\ Len(W) # 0 /\ W[Len(W)] = "nl"
    OBVIOUS
  <2>1. e.end < z /\ t[z] = "nl" /\ b < z
    BY <1>1, <1>4
  <2>2. Len(M) # 0 /\ M[Len(M)] = t[z]
    BY <1>1, <1>4, <2>1, PartOf
  <2>3. Len(W) # 0 /\ W[Len(W)] = t[z]
    BY <1>1, <1>2, <1>4, <2>1, PartOf
  <2> QED BY <2>1, <2>2, <2>3
<1>8. t = A \o W \o C
  BY <1>2, <1>4, ThreeParts
<1>9. SubSeq(t, 1, e.begin) = A \o H /\ SubSeq(t, e.end + 1, L) = M \o C
  <2>1. 1 \in 1..(Len(t) + 1) /\ b \in (1 - 1)..Len(t) /\ e.begin \in b..Len(t)
    BY <1>1, <1>4
  <2>2. e.end + 1 \in 1..(Len(t) + 1) /\ z \in (e.end + 1 - 1)..Len(t) /\ Len(t) \in z..Len(t)
    BY <1>1, <1>4
  <2>3. SubSeq(t, 1, b) \o SubSeq(t, b + 1, e.begin) = SubSeq(t, 1, e.begin)
    BY <1>4, <2>1, ConcatAdjacentSubSeq
  <2> DEFINE m == e.end + 1
  <2> HIDE DEF m
  <2>4. SubSeq(t, m, z) \o SubSeq(t, z + 1, Len(t)) = SubSeq(t, m, Len(t))
    <3>1. m \in 1..(Len(t) + 1) /\ z \in (m - 1)..Len(t)
      BY <2>2 DEF m
    <3> QED BY <1>4, <2>2, <3>1, ConcatAdjacentSubSeq
  <2> QED BY <2>3, <2>4 DEF m
<1> HIDE DEF A, C, H, M
<1>10. A \in Seq(Char) /\ W \in Seq(Char) /\ C \in Seq(Char) /\ H \in Seq(Char) /\ M \in Seq(Char) /\ r \in Seq(Char)
  BY <1>5, <1>6 DEF Line
<1> HIDE DEF r
<1>11. N \in Seq(Char) /\ H \o r \in Seq(Char)
  BY <1>2, <1>10
<1>12. Spliced(t, e) = A \o N \o C
  <2>1. Spliced(t, e) = (A \o H) \o r \o (M \o C)
    BY <1>3, <1>9
  <2>2. (A \o H) \o r \o (M \o C) = A \o (H \o r \o M) \o C
    <3>1. Together(A, H, r, M, C)
      BY <1>10, MiddleTogether
    <3> QED BY <3>1 DEF Together
  <2> QED BY <1>2, <2>1, <2>2
<1>13. A = <<>> \/ A[Len(A)] = "nl"
  BY <1>5, <1>10
<1>14. z # L => Len(N) # 0 /\ N[Len(N)] = "nl"
  <2> SUFFICES ASSUME z # L PROVE Len(N) # 0 /\ N[Len(N)] = "nl"
    OBVIOUS
  <2>1. N[Len(N)] = M[Len(M)]
    BY <1>2, <1>7, <1>10, <1>11, EndOfBoth
  <2>2. Len(N) = Len(H \o r) + Len(M) /\ Len(H \o r) \in Nat /\ Len(M) \in Nat
    BY <1>2, <1>10, <1>11
  <2> QED BY <1>7, <2>1, <2>2
<1>15. ASSUME NEW w \in Line, z # L => Len(w) # 0 /\ w[Len(w)] = "nl"
       PROVE  LinesOf(A \o w \o C) = LinesOf(A) \o LinesOf(w) \o LinesOf(C)
  <2>1. w \in Seq(Char) /\ A \o w \in Line
    BY <1>10 DEF Line
  <2>2. LinesOf(A \o w) = LinesOf(A) \o LinesOf(w)
    BY <1>5, <1>13, LinesConcat
  <2>3. C = <<>> \/ (A \o w)[Len(A \o w)] = "nl"
    <3>1. CASE z = L
      BY <1>6, <1>10, <3>1
    <3>2. CASE z # L
      BY <1>10, <1>15, <2>1, <3>2, EndOfBoth
    <3> QED BY <3>1, <3>2
  <2>4. LinesOf((A \o w) \o C) = LinesOf(A \o w) \o LinesOf(C)
    BY <1>6, <2>1, <2>3, LinesConcat
  <2> QED BY <2>2, <2>4
<1>16. N \in Line
  BY <1>11 DEF Line
<1>17. /\ LinesOf(t) = LinesOf(A) \o LinesOf(W) \o LinesOf(C)
       /\ LinesOf(Spliced(t, e)) = LinesOf(A) \o LinesOf(N) \o LinesOf(C)
  BY <1>6, <1>7, <1>8, <1>12, <1>14, <1>15, <1>16
<1>18. LinesOf(A) \in Seq(Line) /\ LinesOf(C) \in Seq(Line) /\ Len(LinesOf(A)) = FirstShown(t, e)
  BY <1>1, <1>5, <1>6, LinesAre DEF A
<1> QED BY <1>6, <1>16, <1>17, <1>18 DEF W, N

-----------------------------------------------------------------------------
(* What the review shows *)

\* All the ops there are show the whole text.
LEMMA WholeSide ==
  ASSUME NEW q \in Seq(DiffOp), NEW t \in Seq(Line), NEW other, NEW field, Came(q, Len(t), t, other, field)
  PROVE  Len(Side(q, other)) = Len(t) /\ Lines(Side(q, other)) = PrintedText(t)
<1> DEFINE at == PlacesOf(q, Len(t), field)
           F == Side(q, other)
<1>1. Tracks(at, t, q, other, field) /\ Len(q) \in Nat /\ Len(t) \in Nat /\ DOMAIN t = 1..Len(t)
  BY DEF Came
<1>2. at[Len(q)] = Len(t) /\ at[0] = 0
  BY <1>1 DEF PlacesOf, Tracks
<1> HIDE DEF at, F
<1>3. F \in Seq(DiffOp) /\ Len(F) = Len(t) /\ \A m \in 1..Len(F) : F[m].line = t[m]
  <2>1. CASE Len(q) = 0
    <3>1. Len(t) = 0 /\ q = <<>>
      BY <1>2, <2>1
    <3>2. F \in Seq(DiffOp)
      BY PickedMembers DEF F, Side
    <3>3. Len(F) = 0
      <4> DEFINE wanted == {k \in DOMAIN q : q[k].kind # other}
      <4>1. Counts(at, q, wanted)
        BY <1>1, <2>1 DEF Tracks, Counts
      <4> HIDE DEF wanted
      <4>2. Lined(Picked(q, wanted), q, wanted, at, Len(q))
        BY <4>1, PickedInOrder
      <4>3. F = Picked(q, wanted)
        BY DEF F, Side, wanted
      <4> QED BY <1>2, <2>1, <3>1, <4>2, <4>3 DEF Lined
    <3> QED BY <3>1, <3>2, <3>3
  <2>2. CASE Len(q) # 0
    <3>1. 0 \in 0..Len(q) /\ Len(q) \in 0..Len(q) /\ 0 < Len(q)
      BY <1>1, <2>2
    <3>2. /\ SideShows(Side(SubSeq(q, 0 + 1, Len(q)), other), at, t, 0, Len(q), field)
          /\ Side(SubSeq(q, 0 + 1, Len(q)), other) \in Seq(DiffOp)
      BY <1>1, <3>1, SideIs
    <3>3. SubSeq(q, 0 + 1, Len(q)) = q
      <4>1. 0 + 1 = 1
        OBVIOUS
      <4> QED BY <4>1, SubSeqFull
    <3>4. SideShows(F, at, t, 0, Len(q), field) /\ F \in Seq(DiffOp)
      BY <3>2, <3>3 DEF F
    <3>5. Len(F) = Len(t) - 0 /\ \A m \in 1..Len(F) : F[m].line = t[0 + m]
      BY <1>2, <3>4 DEF SideShows
    <3> QED BY <1>1, <3>4, <3>5
  <2> QED BY <2>1, <2>2
<1>4. DOMAIN F = 1..Len(t)
  BY <1>3
<1>5. Lines(F) = PrintedText(t)
  BY <1>1, <1>3, <1>4 DEF Lines, PrintedText
<1> QED BY <1>3, <1>5 DEF F

(* What the review shows beside an edit is what making the edit does: the  *)
(* lines on either side are those of the file without and with it, where   *)
(* the header says, and all the other lines are the same in both.          *)
THEOREM ReviewShowsTheEdit == PlanSpec => []ReviewShowsEdit
<1> DEFINE Inv == RewriteInv /\ TextsInv /\ WalkInv /\ ComparedInv
<1>1. Inv => ReviewShowsEdit
  <2> SUFFICES ASSUME Inv, phase = "hunks", command = "review", NEW e \in edits,
                      old # << <<>> >>, new # << <<>> >>
               PROVE  LET first == FirstShown(disk, e) + 1
                          Shows(side, lines) ==
                            Lines(side) = PrintedText(SubSeq(lines, first, first + Len(side) - 1))
                          Outside(side, lines) ==
                            <<SubSeq(lines, 1, first - 1), SubSeq(lines, first + Len(side), Len(lines))>>
                          made == LinesOf(Spliced(disk, e))
                      IN /\ Shows(Before(ops), LinesOf(disk)) /\ Shows(After(ops), made)
                         /\ Outside(Before(ops), LinesOf(disk)) = Outside(After(ops), made)
    BY DEF ReviewShowsEdit
  <2> DEFINE f == FirstShown(disk, e)
             b == Before(ops)
             a == After(ops)
             lines == LinesOf(disk)
             made == LinesOf(Spliced(disk, e))
  <2>1. old \in Seq(Line) /\ new \in Seq(Line) /\ Walked /\ i = Len(old) /\ j = Len(new)
    BY DEF WalkInv
  <2>2. /\ b = Side(ops, "insert") /\ a = Side(ops, "delete") /\ ops \in Seq(DiffOp)
        /\ Came(ops, Len(old), old, "insert", "old_line") /\ Came(ops, Len(new), new, "delete", "new_line")
    BY <2>1 DEF Before, After, Side, Walked
  <2>3. Len(b) = Len(old) /\ Lines(b) = PrintedText(old) /\ Len(a) = Len(new) /\ Lines(a) = PrintedText(new)
    BY <2>1, <2>2, WholeSide
  <2>4. Fits(e) /\ old = ShownLines(OldWindow(disk, e)) /\ new = ShownLines(NewWindow(disk, e))
    BY DEF ComparedInv, Compared
  <2>5. old = LinesOf(OldWindow(disk, e)) /\ new = LinesOf(NewWindow(disk, e))
    BY <2>4 DEF ShownLines
  <2>6. /\ disk \in Line /\ e.replacement \in Line /\ e.begin \in Nat /\ e.end \in Nat
        /\ e.begin <= e.end /\ e.end <= Len(disk)
    BY <2>4, EditIs
  <2>7. PICK x, y \in Seq(Line) : /\ Len(x) = f /\ lines = x \o old \o y /\ made = x \o new \o y
    BY <2>5, <2>6, WindowLines
  <2> HIDE DEF f, b, a, lines, made
  <2>8. f \in Nat /\ Len(old) \in Nat /\ Len(new) \in Nat
    BY <2>1, <2>7
  <2>9. Around(lines, x, old, y) /\ Around(made, x, new, y)
    <3>1. Around(x \o old \o y, x, old, y) /\ Around(x \o new \o y, x, new, y)
      BY <2>1, CutInThree
    <3> QED BY <2>7, <3>1
  <2> DEFINE first == f + 1
             bn == first + Len(b)
             an == first + Len(a)
             bz == first + Len(b) - 1
             az == first + Len(a) - 1
  <2>10. /\ first = Len(x) + 1 /\ first - 1 = Len(x)
         /\ bz = Len(x) + Len(old) /\ bn = Len(x) + Len(old) + 1
         /\ az = Len(x) + Len(new) /\ an = Len(x) + Len(new) + 1
    BY <2>3, <2>7, <2>8
  <2> HIDE DEF first, bn, an, bz, az
  <2>11. /\ SubSeq(lines, first, bz) = old /\ SubSeq(made, first, az) = new
         /\ SubSeq(lines, 1, first - 1) = SubSeq(made, 1, first - 1)
         /\ SubSeq(lines, bn, Len(lines)) = SubSeq(made, an, Len(made))
    BY <2>9, <2>10 DEF Around
  <2>12. /\ Lines(b) = PrintedText(SubSeq(lines, first, bz)) /\ Lines(a) = PrintedText(SubSeq(made, first, az))
         /\ <<SubSeq(lines, 1, first - 1), SubSeq(lines, bn, Len(lines))>>
              = <<SubSeq(made, 1, first - 1), SubSeq(made, an, Len(made))>>
    BY Zenon, <2>3, <2>11
  <2> QED BY Zenon, <2>12 DEF first, bn, an, bz, az, f, b, a, lines, made
<1>2. PlanInit => Inv
  <2>1. PlanInit => WalkInv /\ ComparedInv
    BY DEF PlanInit, DiffInit, WalkInv, ComparedInv
  <2> QED BY <2>1, PlanBegins
<1>3. Inv /\ [PlanNext]_<<diffVars, planVars>> => Inv'
  BY RewriteStep, TextsStep, WalkInvStep, ComparedStep
<1> QED BY <1>1, <1>2, <1>3, PTL DEF PlanSpec
=============================================================================
