--------------------------- MODULE ReviewSessions ---------------------------
(***************************************************************************)
(* `moult review` (src/apps/moult_review.cpp): sessions that read a plan   *)
(* and the review.json beside it, let the user decide on its items, and    *)
(* write review.json and plan.reviewed.json back in place.  All plans of a *)
(* directory share the two files, whatever their own name; sessions may    *)
(* run side by side, and be killed or fail in the middle of a write.       *)
(*                                                                         *)
(* What is drawn on the screen, the evidence and the patch shown with an   *)
(* item among it, is left out, except for which item is the selected one.  *)
(***************************************************************************)
EXTENDS Selections

CONSTANTS
  Sessions,         \* terminals
  Plans,            \* the plans in the directory, over time: [edits, findings, conflicts, diagnostics]
  Absent, Torn,     \* no file, or one cut short
  MaxKeys           \* bound: keys pressed in all, but for q

VARIABLES
  review,           \* review.json: the decisions, by item id
  reviewed,         \* plan.reviewed.json
  session,          \* per terminal: Closed, or what run_review_tui keeps, with two
                    \* observers: touched, the ids decided in this session, and
                    \* fresh, whether review.json is as it last read or wrote it
  keys,             \* how many were pressed so far
  judged,           \* observer: what the user decided: <<item shown, decision>>
  good,             \* observer: review.json as it last was in full
  paired            \* observer: the export that last wrote both files: [by, plan]

files == <<review, reviewed>>
observers == <<judged, good, paired>>
vars == <<files, session, keys, observers>>

Closed == [mode |-> "closed"]
Unset == "unset"
Kinds == {"edit", "finding", "conflict", "diagnostic"}
Labels == Kinds \cup {"all"}

Init ==
  /\ review = Absent /\ reviewed = Absent
  /\ session = [s \in Sessions |-> Closed]
  /\ keys = 0
  /\ judged = {} /\ good = <<>> /\ paired = Absent

-----------------------------------------------------------------------------
(* Items *)

(* Edits and findings have ids made from their content; conflicts and      *)
(* diagnostics go by their number.                                         *)
ById(kind, q) == [k \in DOMAIN q |-> [kind |-> kind, id |-> <<kind, q[k]>>]]
ByIndex(kind, q) == [k \in DOMAIN q |-> [kind |-> kind, id |-> <<kind, k - 1>>]]

\* load_plan: a finding whose edit is planned is not an item.
ItemsOf(p) ==
  LET manual == Picked(p.findings, {k \in DOMAIN p.findings : ~p.findings[k].planned})
  IN ById("edit", p.edits)
       \o ById("finding", [k \in DOMAIN manual |-> manual[k].id])
       \o ByIndex("conflict", p.conflicts)
       \o ByIndex("diagnostic", p.diagnostics)

\* What may be in review.json.
Ids == UNION {{ItemsOf(p)[k].id : k \in DOMAIN ItemsOf(p)} : p \in Plans}
Decisions == UNION {[D -> {"accepted", "rejected"}] : D \in SUBSET Ids}

Lists == {"edits", "findings", "conflicts", "diagnostics"}

ASSUME PlansAssumption == \A p \in Plans : Lists \subseteq DOMAIN p /\ \A l \in Lists : p[l] \in Seq(ToSet(p[l]))

ASSUME FileAssumption == Absent # Torn /\ Absent \notin Decisions /\ Torn \notin Decisions

\* next_filter.
NextFilter ==
  [all |-> "edit", edit |-> "finding", finding |-> "conflict",
   conflict |-> "diagnostic", diagnostic |-> "all"]

\* visible_items, as the items themselves.
Visible(v) ==
  LET items == ItemsOf(v.plan)
  IN Picked(items, {k \in DOMAIN items : v.filter \in {"all", items[k].kind}})

\* The item that is drawn as selected and that a key decides.
Selected(v) == Visible(v)[IF v.selected < Len(Visible(v)) THEN v.selected + 1 ELSE Len(Visible(v))]

DecisionFor(v, id) == IF id \in DOMAIN v.decisions THEN v.decisions[id] ELSE Unset

-----------------------------------------------------------------------------
(* A session *)

IsOpen(s) == session[s].mode = "open"

Update(s, v) == session' = [session EXCEPT ![s] = v]

\* Mutation: decisions on items of other plans are not taken over.
DecisionsOfPlan(p) ==
  IF review \in {Absent, Torn} THEN <<>>
  ELSE LET ids == {ItemsOf(p)[k].id : k \in DOMAIN ItemsOf(p)}
       IN [id \in DOMAIN review \cap ids |-> review[id]]

\* load_state: a file that cannot be read or parsed holds no decisions.
LoadState(p) == IF review \in {Absent, Torn} THEN <<>> ELSE review

\* The session starts with any plan of the directory.
Open(s, p) ==
  /\ session[s] = Closed
  /\ Update(s, [mode |-> "open", plan |-> p, decisions |-> LoadState(p),
                filter |-> "all", selected |-> 0,
                touched |-> {}, fresh |-> review # Torn])
  /\ UNCHANGED <<files, keys, observers>>

\* read_key.
Press == keys < MaxKeys /\ keys' = keys + 1

Move(s, v) ==
  /\ IsOpen(s) /\ Press
  /\ Update(s, v)
  /\ UNCHANGED <<files, observers>>

Down(s) ==
  /\ IsOpen(s) /\ session[s].selected + 1 < Len(Visible(session[s]))
  /\ Move(s, [session[s] EXCEPT !.selected = @ + 1])

Up(s) ==
  /\ IsOpen(s) /\ session[s].selected > 0
  /\ Move(s, [session[s] EXCEPT !.selected = @ - 1])

Tab(s) == IsOpen(s) /\ Move(s, [session[s] EXCEPT !.filter = NextFilter[@], !.selected = 0])

\* Mutation: the selection is taken for a position among all items.
TargetUnfiltered(v) == ItemsOf(v.plan)[v.selected + 1].id

\* The item that set_decision changes.
Target(v) == Selected(v).id

\* set_decision: keys a, r and u.
Decide(s, d) ==
  LET v == session[s]
      id == Target(v)
  IN /\ IsOpen(s) /\ Visible(v) # <<>> /\ Press
     /\ Update(s, [v EXCEPT
           !.decisions = IF d = Unset THEN [i \in DOMAIN @ \ {id} |-> @[i]]
                         ELSE [i \in DOMAIN @ \cup {id} |-> IF i = id THEN d ELSE @[i]],
           !.touched = @ \cup {id}])
     /\ judged' = judged \cup {<<Selected(v).id, d>>}
     /\ UNCHANGED <<files, good, paired>>

\* A write of review.json: what the other sessions have read is out of date.
WriteState(s, content, mode) ==
  /\ review' = content
  /\ session' = [r \in Sessions |->
       IF r = s THEN [session[s] EXCEPT !.mode = mode, !.fresh = @ \/ content # Torn]
       ELSE IF session[r] = Closed THEN Closed ELSE [session[r] EXCEPT !.fresh = FALSE]]

\* Key w, and the first half of key x: opening review.json truncates it.
SaveOpens(s, mode) ==
  /\ IsOpen(s) /\ Press
  /\ WriteState(s, Torn, mode)
  /\ paired' = Absent
  /\ UNCHANGED <<reviewed, judged, good>>

Saving(s) == session[s].mode \in {"saving", "saving_to_export"}

AfterSave(s) == IF session[s].mode = "saving" THEN "open" ELSE "to_export"

\* save_state.
SaveEnds(s) ==
  /\ Saving(s)
  /\ WriteState(s, session[s].decisions, AfterSave(s))
  /\ good' = review'
  /\ paired' = IF AfterSave(s) = "to_export" THEN [by |-> s, plan |-> session[s].plan] ELSE Absent
  /\ UNCHANGED <<reviewed, keys, judged>>

\* The write fails half way; key x goes on to the export all the same.
SaveBreaks(s) ==
  /\ Saving(s)
  /\ Update(s, [session[s] EXCEPT !.mode = AfterSave(s)])
  /\ UNCHANGED <<files, keys, observers>>

\* review.json cannot be opened at all.
SaveRefused(s) ==
  /\ IsOpen(s) /\ Press
  /\ Update(s, [session[s] EXCEPT !.mode = "to_export"])
  /\ paired' = Absent
  /\ UNCHANGED <<files, judged, good>>

PairedBy(s) == paired # Absent /\ paired.by = s

\* Key x, second half: opening plan.reviewed.json truncates it.
ExportOpens(s) ==
  /\ session[s].mode = "to_export"
  /\ reviewed' = Torn
  /\ Update(s, [session[s] EXCEPT !.mode = "exporting"])
  /\ paired' = IF PairedBy(s) THEN paired ELSE Absent
  /\ UNCHANGED <<review, keys, judged, good>>

\* Mutation: an edit nobody decided on is left out.
ExportAccepted(v) ==
  [v.plan EXCEPT !.edits =
     Picked(@, {k \in DOMAIN v.plan.edits : DecisionFor(v, <<"edit", v.plan.edits[k]>>) = "accepted"})]

\* export_reviewed_plan: the plan without the edits that were rejected.
Exported(v) ==
  [v.plan EXCEPT !.edits =
     Picked(@, {k \in DOMAIN v.plan.edits : DecisionFor(v, <<"edit", v.plan.edits[k]>>) # "rejected"})]

\* Of two exports at once, the one that ends last is what remains.
ExportEnds(s) ==
  /\ session[s].mode = "exporting"
  /\ reviewed' = Exported(session[s])
  /\ Update(s, [session[s] EXCEPT !.mode = "open"])
  /\ paired' = IF PairedBy(s) THEN paired ELSE Absent
  /\ UNCHANGED <<review, keys, judged, good>>

ExportBreaks(s) ==
  /\ session[s].mode \in {"to_export", "exporting"}
  /\ Update(s, [session[s] EXCEPT !.mode = "open"])
  /\ paired' = IF PairedBy(s) THEN Absent ELSE paired
  /\ UNCHANGED <<files, keys, judged, good>>

\* Key q, without a question; or the process is killed, at any point.
Close(s) ==
  /\ session[s] # Closed
  /\ Update(s, Closed)
  /\ paired' = IF PairedBy(s) /\ ~IsOpen(s) THEN Absent ELSE paired
  /\ UNCHANGED <<files, keys, judged, good>>

Next ==
  \E s \in Sessions :
    \/ \E p \in Plans : Open(s, p)
    \/ Down(s) \/ Up(s) \/ Tab(s)
    \/ \E d \in {"accepted", "rejected", Unset} : Decide(s, d)
    \/ \E m \in {"saving", "saving_to_export"} : SaveOpens(s, m)
    \/ SaveEnds(s) \/ SaveBreaks(s) \/ SaveRefused(s)
    \/ ExportOpens(s) \/ ExportEnds(s) \/ ExportBreaks(s)
    \/ Close(s)

Spec == Init /\ [][Next]_vars

-----------------------------------------------------------------------------
(* An edit or a finding is marked only as the user marked that very item   *)
(* when it was the one on the screen, in this session or an earlier one,   *)
(* under this plan or another of the directory; conflicts and diagnostics  *)
(* are known by position only and left out.  And something is on the       *)
(* screen: the selection never leaves the list, whichever filter is on, so *)
(* that the clamp in the loop is never needed.                             *)
DecisionsAreTheUsers ==
  \A s \in Sessions : session[s] # Closed =>
    LET v == session[s]
    IN /\ v.selected = 0 \/ v.selected < Len(Visible(v))
       /\ \A id \in DOMAIN v.decisions :
            /\ v.decisions[id] \in {"accepted", "rejected"}
            /\ id[1] \in {"edit", "finding"} => <<id, v.decisions[id]>> \in judged

(* "save review.json" (README.md) loses nobody's decisions: unless another *)
(* session has written the file since this one read it, or it was torn by  *)
(* then, what a save does not change on purpose is in the file as it was   *)
(* before, decisions on items of other plans included.                     *)
SavesKeepTheRest ==
  [][\A s \in Sessions :
       SaveEnds(s) /\ session[s].fresh =>
         \A id \in DOMAIN good \ session[s].touched :
           id \in DOMAIN review' /\ review'[id] = good[id]]_vars

(* "export plan.reviewed.json with rejected edits removed" (README.md):    *)
(* when the two files come from one export that went through, the reviewed *)
(* plan lacks exactly the edits that review.json says were rejected.       *)
ReviewedAgrees ==
  paired # Absent /\ session[paired.by].mode \notin {"to_export", "exporting"} =>
    \A k \in DOMAIN paired.plan.edits :
      LET e == paired.plan.edits[k]
      IN (\E j \in DOMAIN reviewed.edits : reviewed.edits[j] = e)
           <=> ~(<<"edit", e>> \in DOMAIN review /\ review[<<"edit", e>>] = "rejected")
=============================================================================
