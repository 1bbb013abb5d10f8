-------------------------- MODULE PlanSlicesProofs --------------------------
(***************************************************************************)
(* What slices of slices keep, for any plan, filters and names, however    *)
(* often and over whatever they are written.                               *)
(***************************************************************************)
EXTENDS PlanSlices, SubstitutionProofs

\* A plan that was read is what its filters select from w, and w itself without any.
SliceOfWhole(w, filters, p) ==
  /\ SelectedFrom(w, filters, p)
  /\ filters = {} => p = w
  /\ filters \subseteq Filters
  /\ Resolves(p) /\ Counted(p)

FromWhole(w) ==
  /\ DOMAIN plans = Names /\ DOMAIN lineage = Names
  /\ \A n \in Readable : SliceOfWhole(w, lineage[n], plans[n])

SliceInv == \E w \in Plans : FromWhole(w)

-----------------------------------------------------------------------------
\* The files of a filter are files, so that an item in no file is not in them.
LEMMA MatchingIsKept ==
  ASSUME NEW f \in Filters, NEW filters, NEW rule, NEW file
  PROVE  PlanItemMatches(f, rule, file) /\ Kept(filters, rule, file)
           <=> Kept(filters \cup {f}, rule, file)
BY FilterAssumption DEF PlanItemMatches, Kept

\* A slice of a plan whose references resolve has references that resolve.
LEMMA SlicesResolve ==
  ASSUME NEW p, NEW f, Resolves(p)
  PROVE  Resolves(SliceOf(p, f))
<1> SUFFICES ASSUME NEW q, q = SliceOf(p, f) PROVE Resolves(q)
  OBVIOUS
<1>0. /\ q.edits \subseteq p.edits /\ q.findings \subseteq p.findings
      /\ q.evidence = {v \in p.evidence : \E x \in Items(q) : x.evidence = v.id}
      /\ q.facts = {c \in p.facts : \E v \in q.evidence : c \in v.facts}
      /\ q.groups = FilterGroups(p.groups, q.edits, q.findings)
  BY DEF SliceOf, Items, Cited, Counted, Flag
<1>1. \A x \in Items(q) : \E v \in q.evidence : v.id = x.evidence
  BY <1>0 DEF Resolves, Items
<1>2. \A v \in q.evidence : v.facts \subseteq q.facts
  BY <1>0 DEF Resolves
<1>3. \A g \in q.groups :
        /\ g.edits \subseteq q.edits /\ g.findings \subseteq q.findings
        /\ \A r \in g.requires : \E h \in q.groups : h.id = r
  <2> DEFINE left == {h \in p.groups : (h.edits \cap q.edits) \cup (h.findings \cap q.findings) # {}}
             ids == {h.id : h \in left}
             rest(h) == [id |-> h.id, edits |-> h.edits \cap q.edits,
                         findings |-> h.findings \cap q.findings,
                         requires |-> h.requires \cap ids]
  <2>1. q.groups = {rest(h) : h \in left}
    BY <1>0 DEF FilterGroups
  <2>2. \A r \in ids : \E h \in q.groups : h.id = r
    <3> SUFFICES ASSUME NEW h \in left PROVE rest(h) \in q.groups /\ rest(h).id = h.id
      OBVIOUS
    <3>1. rest(h).id = h.id
      OBVIOUS
    <3> HIDE DEF rest
    <3> QED BY <2>1, <3>1
  <2>3. ASSUME NEW h \in left
        PROVE  /\ rest(h).edits \subseteq q.edits /\ rest(h).findings \subseteq q.findings
               /\ rest(h).requires \subseteq ids
    OBVIOUS
  <2> HIDE DEF rest, ids
  <2> QED BY <2>1, <2>2, <2>3
<1> QED BY <1>1, <1>2, <1>3, Zenon DEF Resolves

\* One more filter selects from the whole plan what all of them let through.
LEMMA SlicesOfSlices ==
  ASSUME NEW w, NEW filters, NEW p, NEW f \in Filters, SliceOfWhole(w, filters, p)
  PROVE  SliceOfWhole(w, filters \cup {f}, SliceOf(p, f))
<1> SUFFICES ASSUME NEW q, q = SliceOf(p, f),
                    NEW more, more = filters \cup {f}
             PROVE  SliceOfWhole(w, more, q)
  OBVIOUS
<1>0. /\ q.edits = {e \in p.edits : PlanItemMatches(f, e.rule, e.file)}
      /\ q.findings = {x \in p.findings : PlanItemMatches(f, x.rule, x.file)}
      /\ q.conflicts = {c \in p.conflicts : PlanItemMatches(f, ConflictRule, c.file)}
      /\ q.diagnostics = {d \in p.diagnostics : PlanItemMatches(f, d.code, d.file)}
      /\ q.evidence = {v \in p.evidence : \E x \in Items(q) : x.evidence = v.id}
      /\ q.facts = {c \in p.facts : \E v \in q.evidence : c \in v.facts}
      /\ Counted(q)
  BY DEF SliceOf, Items, Cited, Counted, Flag
<1>1. \A rule, file : PlanItemMatches(f, rule, file) /\ Kept(filters, rule, file)
                        <=> Kept(more, rule, file)
  BY MatchingIsKept
<1>2. /\ q.edits = {e \in w.edits : Kept(more, e.rule, e.file)}
      /\ q.findings = {x \in w.findings : Kept(more, x.rule, x.file)}
      /\ q.conflicts = {c \in w.conflicts : Kept(more, ConflictRule, c.file)}
      /\ q.diagnostics = {d \in w.diagnostics : Kept(more, d.code, d.file)}
  BY <1>0, <1>1 DEF SliceOfWhole, SelectedFrom
<1>3. Items(q) \subseteq Items(p)
  BY <1>0 DEF Items
<1>4. /\ q.evidence = {v \in w.evidence : \E x \in Items(q) : x.evidence = v.id}
      /\ q.facts = {c \in w.facts : \E v \in q.evidence : c \in v.facts}
  <2>1. CASE filters = {}
    BY <2>1, <1>0 DEF SliceOfWhole
  <2>2. CASE filters # {}
    <3>1. /\ p.evidence = {v \in w.evidence : \E x \in Items(p) : x.evidence = v.id}
          /\ p.facts = {c \in w.facts : \E v \in p.evidence : c \in v.facts}
      BY <2>2 DEF SliceOfWhole, SelectedFrom
    <3>2. q.evidence = {v \in w.evidence : \E x \in Items(q) : x.evidence = v.id}
      BY <3>1, <1>0, <1>3
    <3>3. q.evidence \subseteq p.evidence
      BY <1>0
    <3>4. q.facts = {c \in w.facts : \E v \in q.evidence : c \in v.facts}
      BY <3>1, <3>3, <1>0
    <3> QED BY <3>2, <3>4
  <2> QED BY <2>1, <2>2
<1>5. SelectedFrom(w, more, q)
  BY <1>2, <1>4 DEF SelectedFrom
<1>6. Resolves(q)
  BY SlicesResolve DEF SliceOfWhole
<1> QED BY <1>0, <1>5, <1>6 DEF SliceOfWhole

\* Whatever is written where, every plan that can be read comes from the whole one.
LEMMA FromWholeStep ==
  ASSUME NEW w \in Plans, FromWhole(w), [Next]_vars
  PROVE  FromWhole(w)'
<1>1. ASSUME NEW from \in Names, NEW to \in Names, NEW f \in Filters, Slice(from, to, f)
      PROVE  FromWhole(w)'
  <2>1. SliceOfWhole(w, lineage[from] \cup {f}, SliceOf(plans[from], f))
    BY <1>1, SlicesOfSlices DEF Slice, Readable, FromWhole
  <2>2. ASSUME NEW n \in Readable' PROVE SliceOfWhole(w, lineage'[n], plans'[n])
    BY <1>1, <2>1 DEF Slice, Readable, FromWhole
  <2>3. DOMAIN plans' = Names /\ DOMAIN lineage' = Names
    BY <1>1 DEF Slice, FromWhole
  <2> QED BY <2>2, <2>3 DEF FromWhole
<1>2. ASSUME NEW from \in Names, NEW to \in Names, SliceTorn(from, to) PROVE FromWhole(w)'
  BY <1>2 DEF SliceTorn, FromWhole, Readable
<1>3. ASSUME NEW n \in Names, Apply(n) PROVE FromWhole(w)'
  BY <1>3 DEF Apply, FromWhole, Readable
<1>4. CASE UNCHANGED vars
  BY <1>4 DEF vars, FromWhole, Readable
<1> QED BY <1>1, <1>2, <1>3, <1>4 DEF Next

\* At first there is the whole plan and no other.
LEMMA FromWholeInit ==
  ASSUME Init
  PROVE  \E w \in Plans : FromWhole(w)
<1>1. PICK w \in Plans : plans = [n \in Names |-> IF n = Whole THEN w ELSE NoPlan]
  BY DEF Init
<1>2. SelectedFrom(w, {}, w)
  BY DEF SelectedFrom, Kept
<1>3. SliceOfWhole(w, {}, w)
  BY <1>2, SliceAssumption DEF SliceOfWhole
<1> QED BY <1>1, <1>3 DEF Init, FromWhole, Readable

\* So there is always one plan that all of them come from.
LEMMA SliceInvHolds == Spec => []SliceInv
<1>1. Init => SliceInv
  BY FromWholeInit DEF SliceInv
<1>2. SliceInv /\ [Next]_vars => SliceInv'
  BY FromWholeStep DEF SliceInv
<1> QED BY <1>1, <1>2, PTL DEF Spec

\* Whatever was sliced out of it, what a plan keeps finds its evidence, facts and groups.
THEOREM SlicesAreClosed == Spec => []ReferencesResolve
<1>1. SliceInv => ReferencesResolve
  BY DEF SliceInv, FromWhole, ReferencesResolve, SliceOfWhole
<1> QED BY <1>1, SliceInvHolds, PTL

\* The counts and the flag of a slice are those of what is in it.
THEOREM CountsAreTrue == Spec => []CountsTrue
<1>1. SliceInv => CountsTrue
  BY DEF SliceInv, FromWhole, CountsTrue, SliceOfWhole
<1> QED BY <1>1, SliceInvHolds, PTL

\* A slice of slices is what all its filters let through, in whatever order.
THEOREM FiltersCommute == Spec => []SlicesSelect
<1>1. SliceInv => SlicesSelect
  BY DEF SliceInv, FromWhole, SlicesSelect, SliceOfWhole
<1> QED BY <1>1, SliceInvHolds, PTL

-----------------------------------------------------------------------------
(* Reports *)

\* What a plan that was read has in common with the whole one.
ItemBounds(p) ==
  /\ Counted(p)
  /\ IsFiniteSet(Entries(p))
  /\ \A x \in Entries(p) : x.file \in DOMAIN Text \cup {NoFile} /\ {x.rule} # Unfiltered

\* A report of a slice lists the entries of the slice, and those are what the filter lets through.
LEMMA SliceEntries ==
  ASSUME NEW p, NEW f
  PROVE  Listed(SliceOf(p, f), NoFilter) = Listed(p, f)
<1> SUFFICES ASSUME NEW q, q = SliceOf(p, f) PROVE Listed(q, NoFilter) = Listed(p, f)
  OBVIOUS
<1>1. /\ q.edits = {e \in p.edits : PlanItemMatches(f, e.rule, e.file)}
      /\ q.findings = {x \in p.findings : PlanItemMatches(f, x.rule, x.file)}
      /\ q.conflicts = {c \in p.conflicts : PlanItemMatches(f, ConflictRule, c.file)}
      /\ q.diagnostics = {d \in p.diagnostics : PlanItemMatches(f, d.code, d.file)}
  BY DEF SliceOf
<1>2. Listed(q, NoFilter) = Entries(q)
  BY DEF Listed, NoFilter, PlanItemMatches
<1>3. \A kind, rule, x : Entry(kind, rule, x).rule = rule /\ Entry(kind, rule, x).file = x.file
  BY DEF Entry
<1>4. \A x : x \in Entries(q) <=> x \in Entries(p) /\ PlanItemMatches(f, x.rule, x.file)
  <2> DEFINE edits(r) == {Entry("edit", e.rule, e) : e \in r.edits}
             manual(r) == {Entry("manual", w.rule, w) : w \in Manual(r.findings)}
             conflicts(r) == {Entry("conflict", ConflictRule, c) : c \in r.conflicts}
             diagnostics(r) == {Entry("diagnostic", d.code, d) : d \in r.diagnostics}
  <2>1. \A x : x \in edits(q) <=> x \in edits(p) /\ PlanItemMatches(f, x.rule, x.file)
    <3>1. \A e : e \in q.edits <=> e \in p.edits /\ PlanItemMatches(f, e.rule, e.file)
      BY <1>1 DEF Manual
    <3>2. ASSUME NEW x \in edits(q) PROVE x \in edits(p) /\ PlanItemMatches(f, x.rule, x.file)
      <4>1. PICK e \in q.edits : x = Entry("edit", e.rule, e)
        OBVIOUS
      <4> QED BY <4>1, <3>1, <1>3
    <3>3. ASSUME NEW x \in edits(p), PlanItemMatches(f, x.rule, x.file) PROVE x \in edits(q)
      <4>1. PICK e \in p.edits : x = Entry("edit", e.rule, e)
        OBVIOUS
      <4> QED BY <4>1, <3>1, <3>3, <1>3
    <3> QED BY <3>2, <3>3, Zenon
  <2>2. \A x : x \in manual(q) <=> x \in manual(p) /\ PlanItemMatches(f, x.rule, x.file)
    <3>1. \A w : w \in Manual(q.findings)
                <=> w \in Manual(p.findings) /\ PlanItemMatches(f, w.rule, w.file)
      BY <1>1 DEF Manual
    <3>2. ASSUME NEW x \in manual(q) PROVE x \in manual(p) /\ PlanItemMatches(f, x.rule, x.file)
      <4>1. PICK w \in Manual(q.findings) : x = Entry("manual", w.rule, w)
        OBVIOUS
      <4> QED BY <4>1, <3>1, <1>3
    <3>3. ASSUME NEW x \in manual(p), PlanItemMatches(f, x.rule, x.file) PROVE x \in manual(q)
      <4>1. PICK w \in Manual(p.findings) : x = Entry("manual", w.rule, w)
        OBVIOUS
      <4> QED BY <4>1, <3>1, <3>3, <1>3
    <3> QED BY <3>2, <3>3, Zenon
  <2>3. \A x : x \in conflicts(q) <=> x \in conflicts(p) /\ PlanItemMatches(f, x.rule, x.file)
    <3>1. \A c : c \in q.conflicts
                <=> c \in p.conflicts /\ PlanItemMatches(f, ConflictRule, c.file)
      BY <1>1 DEF Manual
    <3>2. ASSUME NEW x \in conflicts(q) PROVE x \in conflicts(p) /\ PlanItemMatches(f, x.rule, x.file)
      <4>1. PICK c \in q.conflicts : x = Entry("conflict", ConflictRule, c)
        OBVIOUS
      <4> QED BY <4>1, <3>1, <1>3
    <3>3. ASSUME NEW x \in conflicts(p), PlanItemMatches(f, x.rule, x.file) PROVE x \in conflicts(q)
      <4>1. PICK c \in p.conflicts : x = Entry("conflict", ConflictRule, c)
        OBVIOUS
      <4> QED BY <4>1, <3>1, <3>3, <1>3
    <3> QED BY <3>2, <3>3, Zenon
  <2>4. \A x : x \in diagnostics(q) <=> x \in diagnostics(p) /\ PlanItemMatches(f, x.rule, x.file)
    <3>1. \A d : d \in q.diagnostics
                <=> d \in p.diagnostics /\ PlanItemMatches(f, d.code, d.file)
      BY <1>1 DEF Manual
    <3>2. ASSUME NEW x \in diagnostics(q) PROVE x \in diagnostics(p) /\ PlanItemMatches(f, x.rule, x.file)
      <4>1. PICK d \in q.diagnostics : x = Entry("diagnostic", d.code, d)
        OBVIOUS
      <4> QED BY <4>1, <3>1, <1>3
    <3>3. ASSUME NEW x \in diagnostics(p), PlanItemMatches(f, x.rule, x.file) PROVE x \in diagnostics(q)
      <4>1. PICK d \in p.diagnostics : x = Entry("diagnostic", d.code, d)
        OBVIOUS
      <4> QED BY <4>1, <3>1, <3>3, <1>3
    <3> QED BY <3>2, <3>3, Zenon
  <2> HIDE DEF edits, manual, conflicts, diagnostics
  <2>5. \A r : Entries(r) = edits(r) \cup manual(r) \cup conflicts(r) \cup diagnostics(r)
    BY DEF Entries, edits, manual, conflicts, diagnostics
  <2> QED BY <2>1, <2>2, <2>3, <2>4, <2>5
<1> QED BY <1>2, <1>4 DEF Listed

\* The image of a finite set is finite.
LEMMA FiniteImage ==
  ASSUME NEW F, IsFiniteSet(DOMAIN F)
  PROVE  IsFiniteSet({F[x] : x \in DOMAIN F})
<1>1. [x \in DOMAIN F |-> F[x]] \in Surjection(DOMAIN F, {F[x] : x \in DOMAIN F})
  BY DEF Surjection
<1> QED BY <1>1, FS_Surjection

\* A plan that was read has finitely many entries, about files, under rules with a name.
LEMMA PlanBounds ==
  ASSUME NEW w \in Plans, NEW filters, NEW p, SliceOfWhole(w, filters, p)
  PROVE  ItemBounds(p)
<1>1. /\ p.edits \subseteq w.edits /\ p.findings \subseteq w.findings
      /\ p.conflicts \subseteq w.conflicts /\ p.diagnostics \subseteq w.diagnostics
  BY DEF SliceOfWhole, SelectedFrom
<1>2. /\ IsFiniteSet(p.edits) /\ IsFiniteSet(Manual(p.findings))
      /\ IsFiniteSet(p.conflicts) /\ IsFiniteSet(p.diagnostics)
  <2>1. Manual(p.findings) \subseteq w.findings
    BY <1>1 DEF Manual
  <2> QED BY <1>1, <2>1, SliceAssumption, FS_Subset
<1>3. IsFiniteSet(Entries(p))
  <2> DEFINE E == [e \in p.edits |-> Entry("edit", e.rule, e)]
             M == [m \in Manual(p.findings) |-> Entry("manual", m.rule, m)]
             C == [c \in p.conflicts |-> Entry("conflict", ConflictRule, c)]
             D == [d \in p.diagnostics |-> Entry("diagnostic", d.code, d)]
  <2>1. /\ IsFiniteSet({E[e] : e \in DOMAIN E}) /\ IsFiniteSet({M[m] : m \in DOMAIN M})
        /\ IsFiniteSet({C[c] : c \in DOMAIN C}) /\ IsFiniteSet({D[d] : d \in DOMAIN D})
    <3>1. IsFiniteSet(DOMAIN E) /\ IsFiniteSet(DOMAIN M) /\ IsFiniteSet(DOMAIN C) /\ IsFiniteSet(DOMAIN D)
      BY <1>2
    <3> HIDE DEF E, M, C, D
    <3> QED BY <3>1, FiniteImage
  <2>2. /\ {E[e] : e \in DOMAIN E} = {Entry("edit", e.rule, e) : e \in p.edits}
        /\ {M[m] : m \in DOMAIN M} = {Entry("manual", m.rule, m) : m \in Manual(p.findings)}
        /\ {C[c] : c \in DOMAIN C} = {Entry("conflict", ConflictRule, c) : c \in p.conflicts}
        /\ {D[d] : d \in DOMAIN D} = {Entry("diagnostic", d.code, d) : d \in p.diagnostics}
    OBVIOUS
  <2> HIDE DEF E, M, C, D
  <2> QED BY <2>1, <2>2, FS_Union DEF Entries
<1>4. ASSUME NEW x \in Entries(p)
      PROVE  x.file \in DOMAIN Text \cup {NoFile} /\ {x.rule} # Unfiltered
  <2>1. \A y \in p.edits \cup Manual(p.findings) \cup p.conflicts \cup p.diagnostics :
          y.file \in DOMAIN Text \cup {NoFile}
    BY <1>1, SliceAssumption DEF Manual
  <2>2. \A y \in p.edits \cup Manual(p.findings) : y.rule \in RulesIn(w)
    BY <1>1 DEF Manual, RulesIn, Items
  <2>3. ConflictRule \in RulesIn(w) /\ \A y \in p.diagnostics : y.code \in RulesIn(w)
    BY <1>1 DEF RulesIn
  <2>4. x.file \in DOMAIN Text \cup {NoFile} /\ x.rule \in RulesIn(w)
    <3>1. \A kind, rule, y : Entry(kind, rule, y).file = y.file /\ Entry(kind, rule, y).rule = rule
      BY DEF Entry
    <3>2. CASE \E y \in p.edits \cup Manual(p.findings) :
                 x = Entry("edit", y.rule, y) \/ x = Entry("manual", y.rule, y)
      BY <3>1, <3>2, <2>1, <2>2
    <3>3. CASE \E y \in p.conflicts : x = Entry("conflict", ConflictRule, y)
      BY <3>1, <3>3, <2>1, <2>3
    <3>4. CASE \E y \in p.diagnostics : x = Entry("diagnostic", y.code, y)
      BY <3>1, <3>4, <2>1, <2>3
    <3> QED BY <3>2, <3>3, <3>4, Zenon DEF Entries
  <2> QED BY <2>4, FilterAssumption
<1> QED BY <1>3, <1>4 DEF ItemBounds, SliceOfWhole

\* What apply is advised for: a plan that is listed in full and has neither conflicts nor errors.
LEMMA ApplyAdvice ==
  ASSUME NEW p, NEW f, Counted(p), Report(p, f).recommended = "apply"
  PROVE  /\ ~PlanHasErrors(p.conflicts, p.diagnostics)
         /\ p.edits = {x.item : x \in {y \in Listed(p, f) : y.kind = "edit"}}
<1>1. /\ ~p.has_errors
      /\ f # NoFilter => Listed(p, f) = {}
      /\ OfKind("edit", Listed(p, f)) > 0
  BY DEF Report, Recommended
<1>2. {x \in Listed(p, f) : x.kind = "edit"} # {}
  BY <1>1, FS_EmptySet DEF OfKind
<1>3. Listed(p, f) = Entries(p)
  <2>1. f = NoFilter
    BY <1>1, <1>2
  <2> QED BY <2>1 DEF Listed, NoFilter, PlanItemMatches
<1>4. ASSUME NEW x \in Entries(p), x.kind = "edit" PROVE x.item \in p.edits
  BY <1>4 DEF Entries, Entry
<1>5. ASSUME NEW e \in p.edits PROVE \E x \in Entries(p) : x.kind = "edit" /\ x.item = e
  <2>1. Entry("edit", e.rule, e) \in Entries(p)
    BY DEF Entries
  <2>2. Entry("edit", e.rule, e).kind = "edit" /\ Entry("edit", e.rule, e).item = e
    BY DEF Entry
  <2> QED BY <2>1, <2>2
<1> QED BY <1>1, <1>3, <1>4, <1>5 DEF Counted

\* The busiest rule or directory is one of the table, and no other has more.
LEMMA TopIsBusiest ==
  ASSUME NEW b, NEW n \in Nat, \A k \in DOMAIN b : b[k] \in Nat /\ b[k] <= n, Top(b) # NoFile
  PROVE  Top(b) \in DOMAIN b /\ \A k \in DOMAIN b \ {NoFile} : b[k] <= b[Top(b)]
<1> DEFINE D == DOMAIN b \ {NoFile}
<1>1. D # {}
  BY DEF Top
<1>2. PICK m \in {b[k] : k \in D} : \A k \in {b[q] : q \in D} : k <= m
  <2>1. {b[k] : k \in D} \in SUBSET Nat /\ {b[k] : k \in D} # {}
    BY <1>1
  <2>2. \A m \in {b[k] : k \in D} : m <= n
    OBVIOUS
  <2> QED BY <2>1, <2>2, Greatest
<1>3. \E k \in D : \A q \in D : b[q] <= b[k]
  BY <1>2
<1>4. Top(b) = CHOOSE k \in D : \A q \in D : b[q] <= b[k]
  BY <1>1 DEF Top
<1> QED BY <1>3, <1>4

\* The entries under a rule, or in a directory, are as many as the table says.
LEMMA TablesCount ==
  ASSUME NEW items, IsFiniteSet(items)
  PROVE  /\ \A k \in DOMAIN ByRule(items) :
              /\ ByRule(items)[k] = Cardinality({x \in items : x.rule = k})
              /\ ByRule(items)[k] \in Nat /\ ByRule(items)[k] <= Cardinality(items)
         /\ \A d \in DOMAIN ByDirectory(items) :
              /\ ByDirectory(items)[d] = Cardinality({x \in items : DirectoryOf(x) = d})
              /\ ByDirectory(items)[d] \in Nat /\ ByDirectory(items)[d] <= Cardinality(items)
         /\ DOMAIN ByRule(items) = {x.rule : x \in items}
<1>1. \A k : {x \in items : x.rule = k} \subseteq items
             /\ {x \in items : DirectoryOf(x) = k} \subseteq items
  OBVIOUS
<1>2. \A S \in SUBSET items : Cardinality(S) \in Nat /\ Cardinality(S) <= Cardinality(items)
  BY FS_Subset, FS_CardinalityType
<1> QED BY <1>1, <1>2 DEF ByRule, ByDirectory

\* The filters that are recommended show the busiest rule and directory.
LEMMA NarrowerShows ==
  ASSUME NEW p, NEW f, ItemBounds(p), NEW g \in Narrower(Listed(p, f))
  PROVE  Shows(p, g, Listed(p, f),
               IF g.rules = Unfiltered THEN ByDirectory(Listed(p, f)) ELSE ByRule(Listed(p, f)))
<1> DEFINE items == Listed(p, f)
<1>0. IsFiniteSet(items) /\ items \subseteq Entries(p) /\ Cardinality(items) \in Nat
  BY FS_Subset, FS_CardinalityType DEF Listed, ItemBounds
<1>1. ASSUME NEW S, S \subseteq Listed(p, g), S \subseteq items
      PROVE  /\ Cardinality(S) <= Cardinality(Listed(p, g) \cap items)
             /\ Cardinality(Listed(p, g) \cap items) \in Nat
  <2>1. IsFiniteSet(Listed(p, g) \cap items)
    BY <1>0, FS_Subset
  <2> QED BY <2>1, <1>1, FS_Subset, FS_CardinalityType
<1>2. ASSUME NEW d, d = Top(ByDirectory(items)), d # NoFile,
             g = [rules |-> Unfiltered, files |-> DirectoryGlob(d)]
      PROVE  Shows(p, g, items, ByDirectory(items))
  <2>1. d \in DOMAIN ByDirectory(items) /\ \A k \in DOMAIN ByDirectory(items) \ {NoFile} :
          ByDirectory(items)[k] <= ByDirectory(items)[d]
    BY <1>0, <1>2, TablesCount, TopIsBusiest
  <2> DEFINE S == {x \in items : DirectoryOf(x) = d}
  <2>2. S \subseteq Listed(p, g) /\ S \subseteq items
    BY <1>0, <1>2, FilterAssumption DEF ItemBounds, DirectoryOf, DirectoryGlob, Listed, PlanItemMatches
  <2>3. ByDirectory(items)[d] = Cardinality(S)
    BY <2>1, <1>0, TablesCount
  <2> HIDE DEF S
  <2>4. /\ ByDirectory(items)[d] <= Cardinality(Listed(p, g) \cap items)
        /\ Cardinality(Listed(p, g) \cap items) \in Nat
    BY <2>2, <2>3, <1>1
  <2>5. \A k \in DOMAIN ByDirectory(items) : ByDirectory(items)[k] \in Nat
    BY <1>0, TablesCount
  <2> HIDE DEF items
  <2>6. ASSUME NEW k \in DOMAIN ByDirectory(items) \ {NoFile}
        PROVE  ByDirectory(items)[k] <= Cardinality(Listed(p, g) \cap items)
    BY <2>1, <2>4, <2>5
  <2> QED BY <2>6 DEF Shows
<1>3. ASSUME NEW r, r = Top(ByRule(items)), r # NoFile, g = [rules |-> {r}, files |-> Unfiltered]
      PROVE  Shows(p, g, items, ByRule(items)) /\ g.rules # Unfiltered
  <2>1. r \in DOMAIN ByRule(items) /\ \A k \in DOMAIN ByRule(items) \ {NoFile} :
          ByRule(items)[k] <= ByRule(items)[r]
    BY <1>0, <1>3, TablesCount, TopIsBusiest
  <2> DEFINE S == {x \in items : x.rule = r}
  <2>2. S \subseteq Listed(p, g) /\ S \subseteq items
    BY <1>0, <1>3 DEF Listed, PlanItemMatches
  <2>3. ByRule(items)[r] = Cardinality(S) /\ \E x \in items : x.rule = r
    <3>1. r \in {x.rule : x \in items}
      BY <2>1, <1>0, TablesCount
    <3> QED BY <2>1, <3>1, <1>0, TablesCount
  <2> HIDE DEF S
  <2>4. /\ ByRule(items)[r] <= Cardinality(Listed(p, g) \cap items)
        /\ Cardinality(Listed(p, g) \cap items) \in Nat
    BY <2>2, <2>3, <1>1
  <2>5. \A k \in DOMAIN ByRule(items) : ByRule(items)[k] \in Nat
    BY <1>0, TablesCount
  <2>6. {r} # Unfiltered
    BY <2>3, <1>0 DEF ItemBounds
  <2> HIDE DEF items
  <2>7. ASSUME NEW k \in DOMAIN ByRule(items) \ {NoFile}
        PROVE  ByRule(items)[k] <= Cardinality(Listed(p, g) \cap items)
    BY <2>1, <2>4, <2>5
  <2> QED BY <2>6, <2>7, <1>3 DEF Shows
<1> QED BY <1>2, <1>3 DEF Narrower

\* A report can be acted on: its slice shows the same, and its advice is sound.
THEOREM ReportsCanBeActedOn == Spec => []ReportsStand
<1>1. SliceInv => ReportsStand
  <2> SUFFICES ASSUME SliceInv, NEW n \in Readable, NEW f \in Filters \cup {NoFilter},
                      NEW report, report = Report(plans[n], f)
               PROVE  /\ report.listed = Report(SliceOf(plans[n], f), NoFilter).listed
                      /\ report.recommended = "apply" =>
                           /\ ~PlanHasErrors(plans[n].conflicts, plans[n].diagnostics)
                           /\ plans[n].edits = {x.item : x \in {y \in report.listed : y.kind = "edit"}}
                      /\ report.recommended = "narrow down" =>
                           \A g \in report.narrower :
                             Shows(plans[n], g, report.listed,
                                   IF g.rules = Unfiltered THEN report.directories ELSE report.rules)
    BY Zenon DEF ReportsStand
  <2>1. ItemBounds(plans[n])
    BY PlanBounds DEF SliceInv, FromWhole
  <2>2. \A p, h : /\ Report(p, h).listed = Listed(p, h)
                 /\ Report(p, h).rules = ByRule(Listed(p, h))
                 /\ Report(p, h).directories = ByDirectory(Listed(p, h))
                 /\ Report(p, h).narrower = Narrower(Listed(p, h))
    BY DEF Report
  <2>3. Counted(plans[n])
    BY <2>1 DEF ItemBounds
  <2>4. Report(plans[n], f).listed = Report(SliceOf(plans[n], f), NoFilter).listed
    BY <2>2, SliceEntries
  <2>5. Report(plans[n], f).recommended = "apply" =>
          /\ ~PlanHasErrors(plans[n].conflicts, plans[n].diagnostics)
          /\ plans[n].edits = {x.item : x \in {y \in Listed(plans[n], f) : y.kind = "edit"}}
    BY <2>3, ApplyAdvice
  <2>6. \A g \in Narrower(Listed(plans[n], f)) :
          Shows(plans[n], g, Listed(plans[n], f),
                IF g.rules = Unfiltered THEN ByDirectory(Listed(plans[n], f))
                ELSE ByRule(Listed(plans[n], f)))
    BY <2>1, NarrowerShows
  <2>7. /\ report.listed = Listed(plans[n], f)
        /\ report.rules = ByRule(Listed(plans[n], f))
        /\ report.directories = ByDirectory(Listed(plans[n], f))
        /\ report.narrower = Narrower(Listed(plans[n], f))
    BY <2>2
  <2>8. report.listed = Report(SliceOf(plans[n], f), NoFilter).listed
    BY <2>4
  <2>9. report.recommended = "apply" =>
          /\ ~PlanHasErrors(plans[n].conflicts, plans[n].diagnostics)
          /\ plans[n].edits = {x.item : x \in {y \in report.listed : y.kind = "edit"}}
    BY <2>5, <2>7, Zenon
  <2>10. \A g \in report.narrower :
           Shows(plans[n], g, report.listed,
                 IF g.rules = Unfiltered THEN report.directories ELSE report.rules)
    BY <2>6, <2>7, Zenon
  <2> QED BY <2>8, <2>9, <2>10, Zenon
<1> QED BY <1>1, SliceInvHolds, PTL

-----------------------------------------------------------------------------
(* Applying slices *)

AppliedTo(f) == {e \in applied : e.file = f}

\* Only slices by file were applied.
ByFileOnly == \A f \in used : f.rules = Unfiltered

(* Slices by file make either none or all of the edits of a file, so no    *)
(* edit meets a text that others have shifted.                             *)
AllOrNone(w) ==
  /\ disk = [f \in DOMAIN Text |-> disk[f]]
  /\ ByFileOnly =>
       \A f \in DOMAIN Text :
         /\ disk[f] = Substitute(Text[f], AppliedTo(f))
         /\ AppliedTo(f) # {} => AppliedTo(f) = {e \in w.edits : e.file = f}

\* A slice by file has all the edits of a file or none.
LEMMA SliceByFile ==
  ASSUME NEW w, NEW filters, NEW p, SliceOfWhole(w, filters, p),
         \A f \in filters : f.rules = Unfiltered, NEW file
  PROVE  LET mine == {e \in p.edits : e.file = file}
         IN  mine # {} => mine = {e \in w.edits : e.file = file}
<1>1. p.edits = {e \in w.edits : Kept(filters, e.rule, e.file)}
  BY DEF SliceOfWhole, SelectedFrom
<1>2. \A r, s : Kept(filters, r, file) <=> Kept(filters, s, file)
  BY DEF Kept
<1> QED BY <1>1, <1>2

\* Applying one more slice by file does to each file all or nothing.
LEMMA ApplyAllOrNone ==
  ASSUME NEW w \in Plans, FromWhole(w), AllOrNone(w), NEW n \in Names, Apply(n)
  PROVE  AllOrNone(w)'
<1>1. /\ plans[n] # NoPlan /\ plans[n].edits \cap applied = {}
      /\ disk' = [f \in DOMAIN disk |-> Patched(plans[n], f)]
      /\ used' = used \cup lineage[n]
      /\ applied' = applied \cup plans[n].edits
  BY DEF Apply
<1>2. DOMAIN disk = DOMAIN Text
  BY DEF AllOrNone
<1>3. disk' = [f \in DOMAIN Text |-> disk'[f]]
  BY <1>1, <1>2
<1>4. ASSUME ByFileOnly', NEW f \in DOMAIN Text
      PROVE  /\ disk'[f] = Substitute(Text[f], AppliedTo(f)')
             /\ AppliedTo(f)' # {} => AppliedTo(f)' = {e \in w.edits : e.file = f}
  <2> DEFINE mine == {e \in plans[n].edits : e.file = f}
  <2>1. ByFileOnly /\ \A g \in lineage[n] : g.rules = Unfiltered
    BY <1>1, <1>4 DEF ByFileOnly
  <2>2. /\ disk[f] = Substitute(Text[f], AppliedTo(f))
        /\ AppliedTo(f) # {} => AppliedTo(f) = {e \in w.edits : e.file = f}
    BY <2>1 DEF AllOrNone
  <2>3. SliceOfWhole(w, lineage[n], plans[n])
    BY <1>1 DEF FromWhole, Readable
  <2>4. mine # {} => mine = {e \in w.edits : e.file = f}
    BY <2>1, <2>3, SliceByFile
  <2>5. disk'[f] = Substitute(disk[f], mine)
    BY <1>1, <1>2 DEF Patched
  <2>6. AppliedTo(f)' = AppliedTo(f) \cup mine
    BY <1>1 DEF AppliedTo
  <2>7. Text[f] \in Seq(Bytes)
    BY SliceAssumption
  <2>8. CASE mine = {}
    <3>1. disk[f] \in Seq(Bytes)
      <4>1. AllTexts(Bytes, AppliedTo(f))
        <5>1. AppliedTo(f) \subseteq w.edits
          BY <2>2
        <5> QED BY <5>1, SliceAssumption DEF AllTexts
      <4> QED BY <2>2, <2>7, <4>1, SubstituteText
    <3>2. disk'[f] = disk[f]
      BY <2>5, <2>8, <3>1, NothingToSubstitute
    <3>3. AppliedTo(f)' = AppliedTo(f)
      BY <2>6, <2>8
    <3> HIDE DEF mine
    <3> QED BY <2>2, <3>2, <3>3
  <2>9. CASE mine # {}
    <3>1. mine \cap AppliedTo(f) = {}
      BY <1>1 DEF AppliedTo
    <3>2. AppliedTo(f) = {}
      <4> HIDE DEF mine
      <4> QED BY <2>2, <2>4, <2>9, <3>1
    <3>3. disk[f] = Text[f]
      BY <2>2, <2>7, <3>2, NothingToSubstitute
    <3> HIDE DEF mine
    <3> QED BY <2>4, <2>5, <2>6, <2>9, <3>2, <3>3
  <2> QED BY <2>8, <2>9
<1> QED BY <1>3, <1>4 DEF AllOrNone

\* Every step leaves a file with all of its edits made or with none.
LEMMA AllOrNoneStep ==
  ASSUME NEW w \in Plans, FromWhole(w), AllOrNone(w), [Next]_vars
  PROVE  AllOrNone(w)'
<1>1. ASSUME UNCHANGED <<disk, used, applied>> PROVE AllOrNone(w)'
  BY <1>1 DEF AllOrNone, ByFileOnly, AppliedTo
<1>2. ASSUME NEW n \in Names, Apply(n) PROVE AllOrNone(w)'
  BY <1>2, ApplyAllOrNone
<1> QED BY <1>1, <1>2 DEF Next, Slice, SliceTorn, vars

\* Slices by file, in any order and however they were made, together do to
\* the files what their edits mean.
THEOREM FileSlicesAddUp == Spec => []FileSlicesCompose
<1> DEFINE Inv == \E w \in Plans : FromWhole(w) /\ AllOrNone(w)
<1>1. Init => Inv
  <2> SUFFICES ASSUME Init PROVE Inv
    OBVIOUS
  <2>1. PICK w \in Plans : FromWhole(w)
    BY FromWholeInit
  <2>2. disk = Text /\ applied = {} /\ Text = [f \in DOMAIN Text |-> Text[f]]
    BY SliceAssumption DEF Init
  <2>3. ASSUME NEW f \in DOMAIN Text PROVE AppliedTo(f) = {} /\ Text[f] = Substitute(Text[f], {})
    BY <2>2, SliceAssumption, NothingToSubstitute DEF AppliedTo
  <2>4. AllOrNone(w)
    BY <2>2, <2>3 DEF AllOrNone
  <2> QED BY <2>1, <2>4
<1>2. Inv /\ [Next]_vars => Inv'
  BY FromWholeStep, AllOrNoneStep
<1>3. Inv => FileSlicesCompose
  BY DEF AllOrNone, FileSlicesCompose, AsOneByOne, ByFileOnly, AppliedTo
<1> HIDE DEF Inv
<1> QED BY <1>1, <1>2, <1>3, PTL DEF Spec
=============================================================================
