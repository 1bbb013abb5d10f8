------------------------ MODULE ReviewSessionsProofs ------------------------
(***************************************************************************)
(* Proofs about ReviewSessions.tla: however many sessions run side by side *)
(* over however many plans, and wherever they are killed or fail.          *)
(***************************************************************************)
EXTENDS ReviewSessions, SubstitutionProofs

Modes == {"open", "saving", "saving_to_export", "to_export", "exporting"}

\* What run_review_tui may keep.
Running ==
  [mode : Modes, plan : Plans, decisions : Decisions, filter : Labels,
   selected : Nat, touched : SUBSET Ids, fresh : BOOLEAN]

Typed ==
  /\ session \in [Sessions -> Running \cup {Closed}]
  /\ review \in Decisions \cup {Absent, Torn}
  /\ good \in Decisions

\* A decision on an edit or a finding is one the user made.
Made(d, by) == \A id \in DOMAIN d : id[1] \in {"edit", "finding"} => <<id, d[id]>> \in by

OnScreen(v) == v.selected = 0 \/ v.selected < Len(Visible(v))

UsersInv ==
  /\ \A s \in Sessions : session[s] # Closed => Made(session[s].decisions, judged) /\ OnScreen(session[s])
  /\ review \in Decisions => Made(review, judged)

\* v has every decision of d, but for those made in the session.
HasRest(v, d) == \A id \in DOMAIN d \ v.touched : id \in DOMAIN v.decisions /\ v.decisions[id] = d[id]

RestInv ==
  /\ review = Absent => good = <<>>
  /\ review \in Decisions => review = good
  /\ \A s \in Sessions : session[s] # Closed /\ session[s].fresh => HasRest(session[s], good)

\* Plan q is p without the edits that d rejects.
Agrees(p, q, d) ==
  \A k \in DOMAIN p.edits :
    LET e == p.edits[k]
    IN (\E j \in DOMAIN q.edits : q.edits[j] = e)
         <=> ~(<<"edit", e>> \in DOMAIN d /\ d[<<"edit", e>>] = "rejected")

\* The session that wrote both files, before and after the second.
PairInv ==
  paired # Absent =>
    /\ paired.by \in Sessions
    /\ session[paired.by].mode \notin {"saving", "saving_to_export"}
    /\ IF session[paired.by].mode \in {"to_export", "exporting"}
         THEN session[paired.by].plan = paired.plan /\ session[paired.by].decisions = review
         ELSE Agrees(paired.plan, reviewed, review)

-----------------------------------------------------------------------------
(* Items *)

\* A sequence is one of its own members.
LEMMA OwnMembers == ASSUME NEW X, NEW q \in Seq(X) PROVE q \in Seq(ToSet(q))
<1>1. q \in [1..Len(q) -> ToSet(q)] /\ Len(q) \in Nat
  BY DEF ToSet
<1> QED BY <1>1

\* Two sequences put together are a sequence, whatever their members.
LEMMA TwoTogether ==
  ASSUME NEW X, NEW Y, NEW a \in Seq(X), NEW b \in Seq(Y)
  PROVE  a \o b \in Seq(X \cup Y)
<1>1. a \in Seq(X \cup Y) /\ b \in Seq(X \cup Y)
  OBVIOUS
<1> QED BY <1>1, ConcatProperties

\* The lists of a plan are sequences.
LEMMA ListIsSeq == ASSUME NEW p \in Plans, NEW l \in Lists PROVE p[l] \in Seq(ToSet(p[l]))
BY PlansAssumption

\* The items of a plan are a sequence.
LEMMA ItemsAreSeq == ASSUME NEW p \in Plans PROVE ItemsOf(p) \in Seq(ToSet(ItemsOf(p)))
<1> DEFINE w == {k \in DOMAIN p.findings : ~p.findings[k].planned}
           manual == Picked(p.findings, w)
           named == [k \in DOMAIN manual |-> manual[k].id]
<1>1. manual \in Seq(ToSet(p.findings))
  <2>1. p.findings \in Seq(ToSet(p.findings))
    BY ListIsSeq DEF Lists
  <2> HIDE DEF w
  <2> QED BY <2>1, PickedMembers
<1>2. named \in Seq(ToSet(named))
  <2> HIDE DEF manual
  <2>1. DOMAIN manual = 1..Len(manual) /\ Len(manual) \in Nat
    BY <1>1
  <2>2. named \in [1..Len(manual) -> ToSet(named)]
    BY <2>1 DEF ToSet
  <2> HIDE DEF named
  <2> QED BY <2>1, <2>2
<1>3. ASSUME NEW kind, NEW q, q \in Seq(ToSet(q))
      PROVE  ById(kind, q) \in Seq(ToSet(ById(kind, q))) /\ ByIndex(kind, q) \in Seq(ToSet(ByIndex(kind, q)))
  <2>1. DOMAIN q = 1..Len(q) /\ Len(q) \in Nat
    OBVIOUS
  <2>2. /\ ById(kind, q) \in [1..Len(q) -> ToSet(ById(kind, q))]
        /\ ByIndex(kind, q) \in [1..Len(q) -> ToSet(ByIndex(kind, q))]
    BY <2>1 DEF ToSet, ById, ByIndex
  <2> QED BY <2>1, <2>2
<1> DEFINE a == ById("edit", p.edits)
           b == ById("finding", named)
           c == ByIndex("conflict", p.conflicts)
           d == ByIndex("diagnostic", p.diagnostics)
<1>4. p.edits \in Seq(ToSet(p.edits)) /\ p.conflicts \in Seq(ToSet(p.conflicts))
      /\ p.diagnostics \in Seq(ToSet(p.diagnostics))
  BY ListIsSeq DEF Lists
<1>5. a \in Seq(ToSet(a)) /\ b \in Seq(ToSet(b)) /\ c \in Seq(ToSet(c)) /\ d \in Seq(ToSet(d))
  <2> HIDE DEF named
  <2> QED BY <1>2, <1>3, <1>4
<1>6. ItemsOf(p) = ((a \o b) \o c) \o d
  BY DEF ItemsOf
<1> HIDE DEF a, b, c, d
<1>7. ((a \o b) \o c) \o d \in Seq(((ToSet(a) \cup ToSet(b)) \cup ToSet(c)) \cup ToSet(d))
  BY <1>5, TwoTogether
<1> QED BY <1>6, <1>7, OwnMembers

\* The list on the screen has a length.
LEMMA ListIsFinite == ASSUME NEW v, v.plan \in Plans PROVE Len(Visible(v)) \in Nat
<1> DEFINE items == ItemsOf(v.plan)
           w == {k \in DOMAIN items : v.filter \in {"all", items[k].kind}}
<1>1. Visible(v) = Picked(items, w) /\ items \in Seq(ToSet(items))
  BY ItemsAreSeq DEF Visible
<1>2. Visible(v) \in Seq(ToSet(items))
  <2> HIDE DEF items, w
  <2> QED BY <1>1, PickedMembers
<1> QED BY <1>2

\* What is listed is an item, whatever the filter.
LEMMA ListedIsItem ==
  ASSUME NEW v, v.plan \in Plans, v.selected \in Nat, Visible(v) # <<>>
  PROVE  Target(v) \in Ids
<1> DEFINE items == ItemsOf(v.plan)
           w == {k \in DOMAIN items : v.filter \in {"all", items[k].kind}}
<1>1. items \in Seq(ToSet(items))
  BY ItemsAreSeq
<1>2. Visible(v) = Picked(items, w)
  BY DEF Visible
<1>3. Visible(v) \in Seq(ToSet(items)) /\ ToSet(Visible(v)) = {items[k] : k \in DOMAIN items \cap w}
  <2> HIDE DEF items, w
  <2> QED BY <1>1, <1>2, PickedMembers
<1>4. Len(Visible(v)) \in Nat \ {0} /\ DOMAIN Visible(v) = 1..Len(Visible(v))
  BY <1>3
<1>5. Selected(v) \in ToSet(Visible(v))
  BY <1>4 DEF Selected, ToSet
<1>6. PICK k \in DOMAIN items : Selected(v) = items[k]
  BY <1>3, <1>5
<1> QED BY <1>6 DEF Target, Ids

-----------------------------------------------------------------------------
(* Every step is one session's: it, or it alone, moves on. *)

\* A closed session is no open one.
LEMMA ClosedIsNotRunning == Closed \notin Running
BY DEF Closed, Running, Modes

\* What it takes to be a set of decisions.
LEMMA DecisionsAreFunctions ==
  ASSUME NEW d
  PROVE  d \in Decisions <=> DOMAIN d \in SUBSET Ids /\ d \in [DOMAIN d -> {"accepted", "rejected"}]
BY DEF Decisions

\* No decisions at all.
LEMMA NothingDecided == <<>> \in Decisions
<1>1. DOMAIN <<>> = {} /\ <<>> \in [{} -> {"accepted", "rejected"}]
  OBVIOUS
<1> QED BY <1>1 DEF Decisions

\* A session that is not closed runs.
LEMMA OpenIsRunning ==
  ASSUME Typed, NEW s \in Sessions, session[s] # Closed \/ session[s].mode \in Modes
  PROVE  session[s] \in Running /\ session[s] # Closed
<1>1. Closed.mode \notin Modes
  BY DEF Closed, Modes
<1>2. session[s] \in Running \cup {Closed}
  BY DEF Typed
<1> QED BY <1>1, <1>2

\* What a write of review.json makes of the sessions.
LEMMA WriteTyped ==
  ASSUME Typed, NEW s \in Sessions, session[s] \in Running, NEW content, NEW mode \in Modes,
         WriteState(s, content, mode), UNCHANGED good \/ good' \in Decisions,
         content \in Decisions \cup {Torn}
  PROVE  Typed'
<1>1. [session[s] EXCEPT !.mode = mode, !.fresh = @ \/ content # Torn] \in Running
  BY DEF Running
<1>2. ASSUME NEW r \in Sessions, session[r] # Closed PROVE [session[r] EXCEPT !.fresh = FALSE] \in Running
  <2>1. session[r] \in Running
    BY <1>2 DEF Typed
  <2> QED BY <2>1 DEF Running
<1>3. session' \in [Sessions -> Running \cup {Closed}]
  BY <1>1, <1>2 DEF WriteState
<1> QED BY <1>3 DEF WriteState, Typed

\* A session that stays a session.
LEMMA UpdateTyped ==
  ASSUME Typed, NEW s \in Sessions, NEW v \in Running \cup {Closed}, Update(s, v), UNCHANGED <<review, good>>
  PROVE  Typed'
<1>1. session' \in [Sessions -> Running \cup {Closed}]
  BY DEF Typed, Update
<1> QED BY <1>1 DEF Typed

\* A new decision is a decision.
LEMMA DecidedIsDecisions ==
  ASSUME NEW d \in Decisions, NEW id \in Ids, NEW x \in {"accepted", "rejected"}
  PROVE  /\ [i \in DOMAIN d \ {id} |-> d[i]] \in Decisions
         /\ [i \in DOMAIN d \cup {id} |-> IF i = id THEN x ELSE d[i]] \in Decisions
<1>1. DOMAIN d \in SUBSET Ids /\ d \in [DOMAIN d -> {"accepted", "rejected"}]
  BY DecisionsAreFunctions
<1> DEFINE f == [i \in DOMAIN d \ {id} |-> d[i]]
           g == [i \in DOMAIN d \cup {id} |-> IF i = id THEN x ELSE d[i]]
<1>2. f \in [DOMAIN d \ {id} -> {"accepted", "rejected"}] /\ DOMAIN d \ {id} \in SUBSET Ids
  BY <1>1
<1>3. g \in [DOMAIN d \cup {id} -> {"accepted", "rejected"}] /\ DOMAIN d \cup {id} \in SUBSET Ids
  BY <1>1
<1> HIDE DEF f, g
<1>4. f \in Decisions
  BY <1>2 DEF Decisions
<1>5. g \in Decisions
  BY <1>3 DEF Decisions
<1> QED BY <1>4, <1>5 DEF f, g

\* Everything has its type in the beginning ...
LEMMA TypedInit == Init => Typed
BY NothingDecided DEF Init, Typed

\* ... and through every step.
LEMMA TypedStep == ASSUME Typed, [Next]_vars PROVE Typed'
<1>1. CASE UNCHANGED vars
  BY <1>1 DEF Typed, vars, files, observers
<1>2. ASSUME NEW s \in Sessions, NEW p \in Plans, Open(s, p) PROVE Typed'
  <2>1. LoadState(p) \in Decisions
    BY NothingDecided DEF LoadState, Typed
  <2>2. [mode |-> "open", plan |-> p, decisions |-> LoadState(p), filter |-> "all", selected |-> 0,
         touched |-> {}, fresh |-> review # Torn] \in Running
    BY <2>1 DEF Running, Modes, Labels
  <2> QED BY <1>2, <2>2, UpdateTyped DEF Open, files, observers
<1>3. ASSUME NEW s \in Sessions, Down(s) \/ Up(s) \/ Tab(s) PROVE Typed'
  <2>1. session[s] \in Running
    BY <1>3, OpenIsRunning DEF Down, Up, Tab, IsOpen, Modes
  <2>2. /\ [session[s] EXCEPT !.selected = @ + 1] \in Running
        /\ session[s].selected > 0 => [session[s] EXCEPT !.selected = @ - 1] \in Running
    BY <2>1 DEF Running
  <2>3. NextFilter[session[s].filter] \in Labels
    <3>1. session[s].filter \in Labels
      BY <2>1 DEF Running
    <3> QED BY <3>1 DEF Labels, Kinds, NextFilter
  <2>4. [session[s] EXCEPT !.filter = NextFilter[@], !.selected = 0] \in Running
    BY <2>1, <2>3 DEF Running
  <2> QED BY <1>3, <2>2, <2>4, UpdateTyped DEF Down, Up, Tab, Move, files, observers
<1>4. ASSUME NEW s \in Sessions, NEW d \in {"accepted", "rejected", Unset}, Decide(s, d) PROVE Typed'
  <2> DEFINE v == session[s]
             id == Target(v)
             x == IF d = Unset THEN "accepted" ELSE d
             ds == IF d = Unset THEN [i \in DOMAIN v.decisions \ {id} |-> v.decisions[i]]
                   ELSE [i \in DOMAIN v.decisions \cup {id} |-> IF i = id THEN d ELSE v.decisions[i]]
  <2>1. v \in Running
    BY <1>4, OpenIsRunning DEF Decide, IsOpen, Modes
  <2>2. id \in Ids
    BY <1>4, <2>1, ListedIsItem DEF Decide, Running
  <2>3. ds \in Decisions
    <3>1. x \in {"accepted", "rejected"} /\ (d # Unset => x = d) /\ v.decisions \in Decisions
      BY <2>1 DEF Unset, Running
    <3> HIDE DEF x, id, v
    <3> QED BY <2>2, <3>1, DecidedIsDecisions
  <2>4. [v EXCEPT !.decisions = ds, !.touched = @ \cup {id}] \in Running
    <3> HIDE DEF ds, id
    <3> QED BY <2>1, <2>2, <2>3 DEF Running
  <2>5. Update(s, [v EXCEPT !.decisions = ds, !.touched = @ \cup {id}])
    BY <1>4 DEF Decide
  <2>6. UNCHANGED <<review, good>>
    BY <1>4 DEF Decide, files
  <2> HIDE DEF v, ds, id
  <2> QED BY <2>4, <2>5, <2>6, UpdateTyped
<1>5. ASSUME NEW s \in Sessions, NEW m \in {"saving", "saving_to_export"}, SaveOpens(s, m) PROVE Typed'
  <2>1. session[s] \in Running
    BY <1>5, OpenIsRunning DEF SaveOpens, IsOpen, Modes
  <2> QED BY <1>5, <2>1, WriteTyped DEF SaveOpens, Modes
<1>6. ASSUME NEW s \in Sessions, SaveEnds(s) PROVE Typed'
  <2>1. session[s] \in Running
    BY <1>6, OpenIsRunning DEF SaveEnds, Saving, Modes
  <2>2. session[s].decisions \in Decisions /\ AfterSave(s) \in Modes
    BY <2>1 DEF Running, AfterSave, Modes
  <2>3. WriteState(s, session[s].decisions, AfterSave(s)) /\ good' = session[s].decisions
    BY <1>6 DEF SaveEnds, WriteState
  <2> QED BY <2>1, <2>2, <2>3, WriteTyped
<1>7. ASSUME NEW s \in Sessions,
             SaveBreaks(s) \/ SaveRefused(s) \/ ExportOpens(s) \/ ExportEnds(s) \/ ExportBreaks(s)
      PROVE  Typed'
  <2>1. session[s] \in Running
    BY <1>7, OpenIsRunning
       DEF SaveBreaks, Saving, SaveRefused, IsOpen, ExportOpens, ExportEnds, ExportBreaks, Modes
  <2>2. \A m \in Modes : [session[s] EXCEPT !.mode = m] \in Running
    BY <2>1 DEF Running
  <2>3. PICK m \in Modes : Update(s, [session[s] EXCEPT !.mode = m])
    BY <1>7 DEF SaveBreaks, SaveRefused, ExportOpens, ExportEnds, ExportBreaks, AfterSave, Modes
  <2>4. UNCHANGED <<review, good>>
    BY <1>7 DEF SaveBreaks, SaveRefused, ExportOpens, ExportEnds, ExportBreaks, files, observers
  <2> QED BY <2>2, <2>3, <2>4, UpdateTyped
<1>8. ASSUME NEW s \in Sessions, Close(s) PROVE Typed'
  BY <1>8, UpdateTyped DEF Close, files
<1> QED BY <1>1, <1>2, <1>3, <1>4, <1>5, <1>6, <1>7, <1>8 DEF Next

-----------------------------------------------------------------------------
(* Decisions are the user's *)

\* A session that moves on, with decisions of the user's.
LEMMA UpdateMade ==
  ASSUME Typed, UsersInv, NEW s \in Sessions, NEW v, Update(s, v), UNCHANGED review, judged \subseteq judged',
         v # Closed => Made(v.decisions, judged') /\ OnScreen(v)
  PROVE  UsersInv'
<1>1. \A r \in Sessions : session'[r] = IF r = s THEN v ELSE session[r]
  BY DEF Typed, Update
<1>2. \A d : Made(d, judged) => Made(d, judged')
  BY DEF Made
<1> QED BY <1>1, <1>2 DEF UsersInv

\* What is listed depends on the plan and the filter.
LEMMA SameList ==
  ASSUME NEW v, NEW w, v.plan = w.plan, v.filter = w.filter
  PROVE  Visible(v) = Visible(w)
BY DEF Visible

\* A write of review.json with the session's own decisions, or with none.
LEMMA WriteMade ==
  ASSUME Typed, UsersInv, NEW s \in Sessions, session[s] \in Running, NEW content, NEW mode,
         WriteState(s, content, mode), UNCHANGED judged,
         content = Torn \/ content = session[s].decisions
  PROVE  UsersInv'
<1>1. session[s] # Closed
  BY ClosedIsNotRunning
<1>2. ASSUME NEW r \in Sessions, session'[r] # Closed
      PROVE  /\ session'[r].decisions = session[r].decisions /\ session[r] # Closed
             /\ session'[r].plan = session[r].plan /\ session'[r].filter = session[r].filter
             /\ session'[r].selected = session[r].selected
  <2>1. session[r] \in Running \cup {Closed}
    BY DEF Typed
  <2>2. CASE r = s
    <3>1. session'[r] = [session[s] EXCEPT !.mode = mode, !.fresh = @ \/ content # Torn]
      BY <2>2 DEF WriteState
    <3> QED BY <3>1, <2>2, <1>1 DEF Running
  <2>3. CASE r # s
    <3>1. session[r] \in Running /\ session'[r] = [session[r] EXCEPT !.fresh = FALSE] /\ session[r] # Closed
      BY <1>2, <2>1, <2>3 DEF WriteState
    <3> QED BY <3>1 DEF Running
  <2> QED BY <2>2, <2>3
<1>3. \A r \in Sessions : session'[r] # Closed => Made(session'[r].decisions, judged) /\ OnScreen(session'[r])
  BY <1>2, SameList DEF UsersInv, OnScreen
<1>4. review' \in Decisions => Made(review', judged)
  BY <1>1, FileAssumption DEF WriteState, UsersInv
<1> QED BY <1>3, <1>4 DEF UsersInv

\* The decisions are the user's in the beginning ...
LEMMA UsersInit == Init => UsersInv
BY FileAssumption DEF Init, UsersInv, Closed

\* ... and through every step.
LEMMA UsersStep == ASSUME Typed, UsersInv, [Next]_vars PROVE UsersInv'
<1>1. CASE UNCHANGED vars
  BY <1>1 DEF UsersInv, vars, files, observers
<1>2. ASSUME NEW s \in Sessions, NEW p \in Plans, Open(s, p) PROVE UsersInv'
  <2> DEFINE v == [mode |-> "open", plan |-> p, decisions |-> LoadState(p), filter |-> "all", selected |-> 0,
                   touched |-> {}, fresh |-> review # Torn]
  <2>1. Made(LoadState(p), judged)
    BY DEF LoadState, Typed, UsersInv, Made
  <2>2. v.decisions = LoadState(p) /\ OnScreen(v)
    BY DEF OnScreen
  <2>3. Update(s, v) /\ UNCHANGED <<review, judged>>
    BY <1>2 DEF Open, files, observers
  <2> HIDE DEF v
  <2> QED BY <2>1, <2>2, <2>3, UpdateMade
<1>3. ASSUME NEW s \in Sessions, Down(s) \/ Up(s) \/ Tab(s) PROVE UsersInv'
  <2>1. session[s] \in Running /\ session[s] # Closed
    BY <1>3, OpenIsRunning DEF Down, Up, Tab, IsOpen, Modes
  <2>2. PICK v : Move(s, v) /\ v.decisions = session[s].decisions /\ OnScreen(v)
    <3>1. CASE Down(s)
      <4> DEFINE v == [session[s] EXCEPT !.selected = @ + 1]
      <4>1. /\ v.plan = session[s].plan /\ v.filter = session[s].filter /\ v.decisions = session[s].decisions
            /\ v.selected = session[s].selected + 1
        BY <2>1 DEF Running
      <4>2. v.selected < Len(Visible(session[s])) /\ Move(s, v)
        BY <3>1, <4>1 DEF Down
      <4> HIDE DEF v
      <4> QED BY <4>1, <4>2, SameList DEF OnScreen
    <3>2. CASE Up(s)
      <4> DEFINE v == [session[s] EXCEPT !.selected = @ - 1]
      <4>1. /\ v.plan = session[s].plan /\ v.filter = session[s].filter /\ v.decisions = session[s].decisions
            /\ v.selected = session[s].selected - 1
        BY <2>1 DEF Running
      <4>2. session[s].selected > 0 /\ session[s].selected \in Nat /\ Move(s, v)
        BY <3>2, <2>1 DEF Up, Running
      <4>3. session[s].selected < Len(Visible(session[s]))
        BY <2>1, <4>2 DEF UsersInv, OnScreen
      <4>4. Visible(v) = Visible(session[s]) /\ Len(Visible(session[s])) \in Nat
        <5>1. session[s].plan \in Plans
          BY <2>1 DEF Running
        <5> QED BY <4>1, <5>1, SameList, ListIsFinite
      <4> HIDE DEF v
      <4> QED BY <4>1, <4>2, <4>3, <4>4 DEF OnScreen
    <3>3. CASE Tab(s)
      <4> DEFINE v == [session[s] EXCEPT !.filter = NextFilter[@], !.selected = 0]
      <4>1. v.decisions = session[s].decisions /\ v.selected = 0 /\ Move(s, v)
        BY <2>1, <3>3 DEF Running, Tab
      <4> HIDE DEF v
      <4> QED BY <4>1 DEF OnScreen
    <3> QED BY <1>3, <3>1, <3>2, <3>3
  <2>3. Update(s, v) /\ UNCHANGED <<review, judged>> /\ Made(v.decisions, judged')
    BY <2>1, <2>2 DEF Move, files, observers, UsersInv
  <2> QED BY <2>2, <2>3, UpdateMade
<1>4. ASSUME NEW s \in Sessions, NEW d \in {"accepted", "rejected", Unset}, Decide(s, d) PROVE UsersInv'
  <2> DEFINE v == session[s]
             id == Target(v)
             ds == IF d = Unset THEN [i \in DOMAIN v.decisions \ {id} |-> v.decisions[i]]
                   ELSE [i \in DOMAIN v.decisions \cup {id} |-> IF i = id THEN d ELSE v.decisions[i]]
             w == [v EXCEPT !.decisions = ds, !.touched = @ \cup {id}]
  <2>1. v \in Running /\ v # Closed
    BY <1>4, OpenIsRunning DEF Decide, IsOpen, Modes
  <2>2. Made(v.decisions, judged) /\ OnScreen(v)
    BY <2>1 DEF UsersInv
  <2>3. judged' = judged \cup {<<id, d>>}
    BY <1>4 DEF Decide, Target
  <2>4. Made(ds, judged')
    <3> HIDE DEF v, id
    <3> QED BY <2>2, <2>3 DEF Made
  <2>5. Update(s, w) /\ UNCHANGED review
    BY <1>4 DEF Decide, files
  <2>6. w.decisions = ds /\ w.plan = v.plan /\ w.filter = v.filter /\ w.selected = v.selected
    <3> HIDE DEF ds, id
    <3> QED BY <2>1 DEF Running
  <2> HIDE DEF w, v, ds, id
  <2>7. OnScreen(w)
    BY <2>2, <2>6, SameList DEF OnScreen
  <2> QED BY <2>3, <2>4, <2>5, <2>6, <2>7, UpdateMade
<1>5. ASSUME NEW s \in Sessions, NEW m \in {"saving", "saving_to_export"}, SaveOpens(s, m) PROVE UsersInv'
  <2>1. session[s] \in Running
    BY <1>5, OpenIsRunning DEF SaveOpens, IsOpen, Modes
  <2> QED BY <1>5, <2>1, WriteMade DEF SaveOpens
<1>6. ASSUME NEW s \in Sessions, SaveEnds(s) PROVE UsersInv'
  <2>1. session[s] \in Running
    BY <1>6, OpenIsRunning DEF SaveEnds, Saving, Modes
  <2> QED BY <1>6, <2>1, WriteMade DEF SaveEnds
<1>7. ASSUME NEW s \in Sessions,
             SaveBreaks(s) \/ SaveRefused(s) \/ ExportOpens(s) \/ ExportEnds(s) \/ ExportBreaks(s)
      PROVE  UsersInv'
  <2>1. session[s] \in Running /\ session[s] # Closed
    BY <1>7, OpenIsRunning
       DEF SaveBreaks, Saving, SaveRefused, IsOpen, ExportOpens, ExportEnds, ExportBreaks, Modes
  <2>2. PICK m \in Modes : Update(s, [session[s] EXCEPT !.mode = m])
    BY <1>7 DEF SaveBreaks, SaveRefused, ExportOpens, ExportEnds, ExportBreaks, AfterSave, Modes
  <2>3. UNCHANGED <<review, judged>>
    BY <1>7 DEF SaveBreaks, SaveRefused, ExportOpens, ExportEnds, ExportBreaks, files, observers
  <2> DEFINE v == [session[s] EXCEPT !.mode = m]
  <2>4. /\ v.decisions = session[s].decisions /\ v.plan = session[s].plan /\ v.filter = session[s].filter
        /\ v.selected = session[s].selected
    BY <2>1 DEF Running
  <2>5. Update(s, v)
    BY <2>2
  <2> HIDE DEF v
  <2>6. Made(v.decisions, judged) /\ OnScreen(v)
    BY <2>1, <2>4, SameList DEF UsersInv, OnScreen
  <2> QED BY <2>3, <2>5, <2>6, UpdateMade
<1>8. ASSUME NEW s \in Sessions, Close(s) PROVE UsersInv'
  BY <1>8, UpdateMade DEF Close, files
<1> QED BY <1>1, <1>2, <1>3, <1>4, <1>5, <1>6, <1>7, <1>8 DEF Next

\* Each decision on an edit or a finding was made by the user on that very item, and the selection is listed.
THEOREM DecisionsAreMade == Spec => []DecisionsAreTheUsers
<1>1. Typed /\ UsersInv => DecisionsAreTheUsers
  <2> SUFFICES ASSUME Typed, UsersInv, NEW s \in Sessions, session[s] # Closed
               PROVE  /\ OnScreen(session[s])
                      /\ \A id \in DOMAIN session[s].decisions :
                           /\ session[s].decisions[id] \in {"accepted", "rejected"}
                           /\ id[1] \in {"edit", "finding"} => <<id, session[s].decisions[id]>> \in judged
    BY DEF DecisionsAreTheUsers, OnScreen
  <2>1. session[s].decisions \in Decisions
    BY OpenIsRunning DEF Running
  <2>2. \A id \in DOMAIN session[s].decisions : session[s].decisions[id] \in {"accepted", "rejected"}
    BY <2>1, DecisionsAreFunctions
  <2> QED BY <2>2 DEF UsersInv, Made
<1> QED BY <1>1, TypedInit, TypedStep, UsersInit, UsersStep, PTL DEF Spec

-----------------------------------------------------------------------------
(* A save keeps the rest *)

\* What saves must keep is there in the beginning ...
LEMMA RestInit == Init => RestInv
BY FileAssumption DEF Init, RestInv, Closed

\* A session that moves on and has still read, or decided on, all there is.
LEMMA UpdateRest ==
  ASSUME Typed, RestInv, NEW s \in Sessions, NEW v, Update(s, v), UNCHANGED <<review, good>>,
         v # Closed /\ v.fresh => HasRest(v, good)
  PROVE  RestInv'
<1>1. \A r \in Sessions : session'[r] = IF r = s THEN v ELSE session[r]
  BY DEF Typed, Update
<1> QED BY <1>1 DEF RestInv

\* A session that runs on with the decisions it has.
LEMMA SameRest ==
  ASSUME Typed, RestInv, NEW s \in Sessions, session[s] # Closed, NEW v,
         v.decisions = session[s].decisions, v.touched = session[s].touched, v.fresh = session[s].fresh
  PROVE  v # Closed /\ v.fresh => HasRest(v, good)
BY DEF RestInv, HasRest

\* ... and through every step.
LEMMA RestStep == ASSUME Typed, RestInv, [Next]_vars PROVE RestInv'
<1>1. CASE UNCHANGED vars
  BY <1>1 DEF RestInv, vars, files, observers
<1>2. ASSUME NEW s \in Sessions, NEW p \in Plans, Open(s, p) PROVE RestInv'
  <2> DEFINE v == [mode |-> "open", plan |-> p, decisions |-> LoadState(p), filter |-> "all", selected |-> 0,
                   touched |-> {}, fresh |-> review # Torn]
  <2>1. ASSUME review # Torn PROVE HasRest(v, good)
    <3>1. CASE review = Absent
      <4>1. DOMAIN good = {}
        BY <3>1 DEF RestInv
      <4> QED BY <4>1 DEF HasRest
    <3>2. CASE review \in Decisions
      <4>1. LoadState(p) = good
        BY <3>2, FileAssumption DEF LoadState, RestInv
      <4> QED BY <4>1 DEF HasRest
    <3> QED BY <2>1, <3>1, <3>2 DEF Typed
  <2>2. Update(s, v) /\ UNCHANGED <<review, good>> /\ v.fresh = (review # Torn)
    BY <1>2 DEF Open, files, observers
  <2> HIDE DEF v
  <2> QED BY <2>1, <2>2, UpdateRest
<1>3. ASSUME NEW s \in Sessions,
             \/ Down(s) \/ Up(s) \/ Tab(s)
             \/ SaveBreaks(s) \/ SaveRefused(s) \/ ExportOpens(s) \/ ExportEnds(s) \/ ExportBreaks(s)
      PROVE  RestInv'
  <2>1. session[s] \in Running /\ session[s] # Closed
    BY <1>3, OpenIsRunning
       DEF Down, Up, Tab, SaveBreaks, Saving, SaveRefused, IsOpen, ExportOpens, ExportEnds, ExportBreaks, Modes
  <2>2. PICK v : /\ Update(s, v)
                 /\ v.decisions = session[s].decisions /\ v.touched = session[s].touched
                 /\ v.fresh = session[s].fresh
    <3>1. /\ [session[s] EXCEPT !.selected = @ + 1].decisions = session[s].decisions
          /\ [session[s] EXCEPT !.selected = @ + 1].touched = session[s].touched
          /\ [session[s] EXCEPT !.selected = @ + 1].fresh = session[s].fresh
      BY <2>1 DEF Running
    <3>2. /\ [session[s] EXCEPT !.selected = @ - 1].decisions = session[s].decisions
          /\ [session[s] EXCEPT !.selected = @ - 1].touched = session[s].touched
          /\ [session[s] EXCEPT !.selected = @ - 1].fresh = session[s].fresh
      BY <2>1 DEF Running
    <3>3. /\ [session[s] EXCEPT !.filter = NextFilter[@], !.selected = 0].decisions = session[s].decisions
          /\ [session[s] EXCEPT !.filter = NextFilter[@], !.selected = 0].touched = session[s].touched
          /\ [session[s] EXCEPT !.filter = NextFilter[@], !.selected = 0].fresh = session[s].fresh
      BY <2>1 DEF Running
    <3>4. \A m : /\ [session[s] EXCEPT !.mode = m].decisions = session[s].decisions
                 /\ [session[s] EXCEPT !.mode = m].touched = session[s].touched
                 /\ [session[s] EXCEPT !.mode = m].fresh = session[s].fresh
      BY <2>1 DEF Running
    <3>5. CASE Down(s) \/ Up(s) \/ Tab(s)
      BY <3>5, <3>1, <3>2, <3>3 DEF Down, Up, Tab, Move
    <3>6. CASE SaveBreaks(s) \/ SaveRefused(s) \/ ExportOpens(s) \/ ExportEnds(s) \/ ExportBreaks(s)
      <4>1. \E m : Update(s, [session[s] EXCEPT !.mode = m])
        BY <3>6 DEF SaveBreaks, SaveRefused, ExportOpens, ExportEnds, ExportBreaks
      <4> QED BY <4>1, <3>4
    <3> QED BY <1>3, <3>5, <3>6
  <2>3. UNCHANGED <<review, good>>
    BY <1>3 DEF Down, Up, Tab, Move, SaveBreaks, SaveRefused, ExportOpens, ExportEnds, ExportBreaks, files, observers
  <2> QED BY <2>1, <2>2, <2>3, SameRest, UpdateRest
<1>4. ASSUME NEW s \in Sessions, NEW d \in {"accepted", "rejected", Unset}, Decide(s, d) PROVE RestInv'
  <2> DEFINE v == session[s]
             id == Target(v)
             ds == IF d = Unset THEN [i \in DOMAIN v.decisions \ {id} |-> v.decisions[i]]
                   ELSE [i \in DOMAIN v.decisions \cup {id} |-> IF i = id THEN d ELSE v.decisions[i]]
             w == [v EXCEPT !.decisions = ds, !.touched = @ \cup {id}]
  <2>1. v \in Running /\ v # Closed
    BY <1>4, OpenIsRunning DEF Decide, IsOpen, Modes
  <2>2. v.fresh => HasRest(v, good)
    BY <2>1 DEF RestInv
  <2>3. Update(s, w) /\ UNCHANGED <<review, good>>
    BY <1>4 DEF Decide, files
  <2>4. w.decisions = ds /\ w.touched = v.touched \cup {id} /\ w.fresh = v.fresh
    <3> HIDE DEF ds, id
    <3> QED BY <2>1 DEF Running
  <2>5. HasRest(v, good) => HasRest(w, good)
    <3> HIDE DEF w, v, id
    <3> QED BY <2>4 DEF HasRest
  <2> HIDE DEF w, v, ds, id
  <2> QED BY <2>2, <2>3, <2>4, <2>5, UpdateRest
<1>5. ASSUME NEW s \in Sessions, NEW m \in {"saving", "saving_to_export"}, SaveOpens(s, m) PROVE RestInv'
  <2>1. session[s] \in Running /\ session[s] # Closed
    BY <1>5, OpenIsRunning DEF SaveOpens, IsOpen, Modes
  <2>2. review' = Torn /\ good' = good
    BY <1>5 DEF SaveOpens, WriteState
  <2>3. ASSUME NEW r \in Sessions, session'[r] # Closed, session'[r].fresh PROVE HasRest(session'[r], good)
    <3>1. CASE r = s
      <4>1. session'[r] = [session[s] EXCEPT !.mode = m, !.fresh = @ \/ Torn # Torn]
        BY <1>5, <3>1 DEF SaveOpens, WriteState
      <4>2. /\ session'[r].decisions = session[s].decisions /\ session'[r].touched = session[s].touched
            /\ session'[r].fresh = session[s].fresh
        BY <4>1, <2>1 DEF Running
      <4> QED BY <4>2, <2>1, <2>3, SameRest
    <3>2. CASE r # s
      <4>1. session[r] # Closed /\ session'[r] = [session[r] EXCEPT !.fresh = FALSE]
        BY <1>5, <2>3, <3>2 DEF SaveOpens, WriteState
      <4>2. session[r] \in Running
        BY <4>1, OpenIsRunning
      <4> QED BY <2>3, <4>1, <4>2 DEF Running
    <3> QED BY <3>1, <3>2
  <2> QED BY <2>2, <2>3, FileAssumption DEF RestInv
<1>6. ASSUME NEW s \in Sessions, SaveEnds(s) PROVE RestInv'
  <2>1. session[s] \in Running /\ session[s] # Closed
    BY <1>6, OpenIsRunning DEF SaveEnds, Saving, Modes
  <2>2. review' = session[s].decisions /\ good' = review' /\ review' \in Decisions
    BY <1>6, <2>1 DEF SaveEnds, WriteState, Running
  <2>3. ASSUME NEW r \in Sessions, session'[r] # Closed, session'[r].fresh PROVE HasRest(session'[r], good')
    <3>1. CASE r = s
      <4>1. session'[r].decisions = session[s].decisions
        BY <1>6, <2>1, <3>1 DEF SaveEnds, WriteState, Running
      <4> QED BY <4>1, <2>2 DEF HasRest
    <3>2. CASE r # s
      <4>1. session[r] # Closed /\ session'[r] = [session[r] EXCEPT !.fresh = FALSE]
        BY <1>6, <2>3, <3>2 DEF SaveEnds, WriteState
      <4>2. session[r] \in Running
        BY <4>1, OpenIsRunning
      <4> QED BY <2>3, <4>1, <4>2 DEF Running
    <3> QED BY <3>1, <3>2
  <2> QED BY <2>2, <2>3, FileAssumption DEF RestInv
<1>7. ASSUME NEW s \in Sessions, Close(s) PROVE RestInv'
  BY <1>7, UpdateRest DEF Close, files
<1> QED BY <1>1, <1>2, <1>3, <1>4, <1>5, <1>6, <1>7 DEF Next

\* A save that comes after no other session's write since the session read keeps all decisions it did not change.
THEOREM NothingIsLost == Spec => SavesKeepTheRest
<1> DEFINE Kept ==
      \A s \in Sessions :
        SaveEnds(s) /\ session[s].fresh =>
          \A id \in DOMAIN good \ session[s].touched : id \in DOMAIN review' /\ review'[id] = good[id]
<1>1. ASSUME Typed, RestInv, [Next]_vars PROVE [Kept]_vars
  <2> SUFFICES ASSUME NEW s \in Sessions, SaveEnds(s), session[s].fresh
               PROVE  \A id \in DOMAIN good \ session[s].touched : id \in DOMAIN review' /\ review'[id] = good[id]
    OBVIOUS
  <2>1. session[s] # Closed /\ review' = session[s].decisions
    BY <1>1, OpenIsRunning DEF SaveEnds, WriteState, Saving, Modes
  <2>2. HasRest(session[s], good)
    BY <1>1, <2>1 DEF RestInv
  <2> QED BY <2>1, <2>2 DEF HasRest
<1> QED BY <1>1, TypedInit, TypedStep, RestInit, RestStep, PTL DEF Spec, SavesKeepTheRest

-----------------------------------------------------------------------------
(* The two files agree *)

\* The plan that is exported lacks the edits that were rejected, and only those.
LEMMA ExportedAgrees ==
  ASSUME NEW v, v.plan \in Plans
  PROVE  Agrees(v.plan, Exported(v), v.decisions)
<1> DEFINE q == v.plan.edits
           w == {k \in DOMAIN q : DecisionFor(v, <<"edit", q[k]>>) # "rejected"}
<1>1. q \in Seq(ToSet(q)) /\ "edits" \in DOMAIN v.plan
  BY ListIsSeq, PlansAssumption DEF Lists
<1>2. Exported(v).edits = Picked(q, w)
  BY <1>1 DEF Exported
<1>3. ToSet(Picked(q, w)) = {q[k] : k \in DOMAIN q \cap w}
  <2> HIDE DEF q, w
  <2> QED BY <1>1, PickedMembers
<1>4. ASSUME NEW k \in DOMAIN q
      PROVE  (\E j \in DOMAIN Exported(v).edits : Exported(v).edits[j] = q[k])
               <=> DecisionFor(v, <<"edit", q[k]>>) # "rejected"
  <2>1. (\E j \in DOMAIN Exported(v).edits : Exported(v).edits[j] = q[k]) <=> q[k] \in ToSet(Picked(q, w))
    BY <1>2 DEF ToSet
  <2> QED BY <1>3, <2>1
<1>5. \A e : DecisionFor(v, <<"edit", e>>) # "rejected"
              <=> ~(<<"edit", e>> \in DOMAIN v.decisions /\ v.decisions[<<"edit", e>>] = "rejected")
  BY DEF DecisionFor, Unset
<1> QED BY <1>4, <1>5 DEF Agrees

\* No export has been made in the beginning ...
LEMMA PairInit == Init => PairInv
BY DEF Init, PairInv

\* A step of another session that leaves both files alone, or one that ends the pair.
LEMMA PairOfOther ==
  ASSUME Typed, PairInv, NEW s \in Sessions, NEW v, Update(s, v), UNCHANGED review,
         paired' = paired \/ paired' = Absent, paired' # Absent => paired.by # s /\ UNCHANGED reviewed
  PROVE  PairInv'
<1>1. \A r \in Sessions : r # s => session'[r] = session[r]
  BY DEF Typed, Update
<1> QED BY <1>1 DEF PairInv

\* A step between reads and writes.
LEMMA PairStays ==
  ASSUME Typed, PairInv, NEW s \in Sessions, NEW v, Update(s, v), UNCHANGED <<files, paired>>,
         session[s].mode \in {"open", "closed"}, v.mode \in {"open", "closed"}
  PROVE  PairInv'
<1>1. \A r \in Sessions : session'[r] = IF r = s THEN v ELSE session[r]
  BY DEF Typed, Update
<1> QED BY <1>1 DEF PairInv, files

\* ... and every step keeps what an export wrote together.
LEMMA PairStep == ASSUME Typed, PairInv, [Next]_vars PROVE PairInv'
<1>1. CASE UNCHANGED vars
  BY <1>1 DEF PairInv, Agrees, vars, files, observers
<1>2. ASSUME NEW s \in Sessions, NEW p \in Plans, Open(s, p) PROVE PairInv'
  BY <1>2, PairStays DEF Open, Closed, observers
<1>3. ASSUME NEW s \in Sessions, Down(s) \/ Up(s) \/ Tab(s) PROVE PairInv'
  <2>1. session[s] \in Running /\ session[s].mode = "open"
    BY <1>3, OpenIsRunning DEF Down, Up, Tab, IsOpen, Modes
  <2>2. /\ [session[s] EXCEPT !.selected = @ + 1].mode = "open"
        /\ [session[s] EXCEPT !.selected = @ - 1].mode = "open"
        /\ [session[s] EXCEPT !.filter = NextFilter[@], !.selected = 0].mode = "open"
    BY <2>1 DEF Running
  <2>3. PICK v : v.mode = "open" /\ Move(s, v)
    BY <1>3, <2>2 DEF Down, Up, Tab
  <2> QED BY <2>1, <2>3, PairStays DEF Move, observers
<1>4. ASSUME NEW s \in Sessions, NEW d \in {"accepted", "rejected", Unset}, Decide(s, d) PROVE PairInv'
  <2>1. session[s] \in Running /\ session[s].mode = "open"
    BY <1>4, OpenIsRunning DEF Decide, IsOpen, Modes
  <2>2. PICK ds, t : Update(s, [session[s] EXCEPT !.decisions = ds, !.touched = t])
    BY <1>4 DEF Decide
  <2>3. [session[s] EXCEPT !.decisions = ds, !.touched = t].mode = "open"
    BY <2>1 DEF Running
  <2>4. UNCHANGED <<files, paired>>
    BY <1>4 DEF Decide
  <2> QED BY <2>1, <2>2, <2>3, <2>4, PairStays
<1>5. ASSUME NEW s \in Sessions, NEW m, SaveOpens(s, m) \/ SaveRefused(s) PROVE PairInv'
  BY <1>5 DEF SaveOpens, SaveRefused, PairInv
<1>6. ASSUME NEW s \in Sessions, SaveEnds(s) PROVE PairInv'
  <2>1. session[s] \in Running
    BY <1>6, OpenIsRunning DEF SaveEnds, Saving, Modes
  <2>2. /\ session'[s].mode = AfterSave(s) /\ session'[s].plan = session[s].plan
        /\ session'[s].decisions = session[s].decisions /\ review' = session[s].decisions
    BY <1>6, <2>1 DEF SaveEnds, WriteState, Running
  <2>3. paired' # Absent => AfterSave(s) = "to_export" /\ paired'.by = s /\ paired'.plan = session[s].plan
    BY <1>6 DEF SaveEnds
  <2> QED BY <2>2, <2>3 DEF PairInv
<1>7. ASSUME NEW s \in Sessions, SaveBreaks(s) PROVE PairInv'
  <2>1. paired # Absent => paired.by # s
    BY <1>7 DEF SaveBreaks, Saving, PairInv
  <2> QED BY <1>7, <2>1, PairOfOther DEF SaveBreaks, files, observers
<1>8. ASSUME NEW s \in Sessions, ExportOpens(s) PROVE PairInv'
  <2>1. session[s] \in Running
    BY <1>8, OpenIsRunning DEF ExportOpens, Modes
  <2>2. /\ session'[s].mode = "exporting" /\ session'[s].plan = session[s].plan
        /\ session'[s].decisions = session[s].decisions
    BY <1>8, <2>1 DEF ExportOpens, Update, Typed, Running
  <2> QED BY <1>8, <2>2 DEF ExportOpens, PairedBy, PairInv
<1>9. ASSUME NEW s \in Sessions, ExportEnds(s) PROVE PairInv'
  <2>1. session[s] \in Running
    BY <1>9, OpenIsRunning DEF ExportEnds, Modes
  <2>2. session'[s].mode = "open" /\ reviewed' = Exported(session[s]) /\ review' = review
    BY <1>9, <2>1 DEF ExportEnds, Update, Typed, Running
  <2>3. Agrees(session[s].plan, Exported(session[s]), session[s].decisions)
    BY <2>1, ExportedAgrees DEF Running
  <2> QED BY <1>9, <2>2, <2>3 DEF ExportEnds, PairedBy, PairInv
<1>10. ASSUME NEW s \in Sessions, ExportBreaks(s) PROVE PairInv'
  BY <1>10, PairOfOther DEF ExportBreaks, PairedBy, files
<1>11. ASSUME NEW s \in Sessions, Close(s) PROVE PairInv'
  <2>1. CASE IsOpen(s)
    BY <1>11, <2>1, PairStays DEF Close, IsOpen, Closed
  <2>2. CASE ~IsOpen(s)
    BY <1>11, <2>2, PairOfOther DEF Close, PairedBy, files
  <2> QED BY <2>1, <2>2
<1> QED BY <1>1, <1>2, <1>3, <1>4, <1>5, <1>6, <1>7, <1>8, <1>9, <1>10, <1>11 DEF Next

\* Two files that one export wrote agree: the reviewed plan lacks exactly the edits review.json rejects.
THEOREM ExportsAgree == Spec => []ReviewedAgrees
<1>1. PairInv => ReviewedAgrees
  BY DEF PairInv, ReviewedAgrees, Agrees
<1> QED BY <1>1, TypedInit, TypedStep, PairInit, PairStep, PTL DEF Spec
=============================================================================
