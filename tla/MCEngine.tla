----------------------------- MODULE MCEngine ------------------------------
(* One file of three bytes; the two capsules Moult ships, one modernisation *)
(* rule that edits and one that reviews, the transpilers' capsule, and     *)
(* facts and offers of every class a rule tells apart.                     *)
EXTENDS Engine, TLC

CONSTANTS f1, f2, x, y, r1, r2, edit_rule, review_rule, accept_rule, cpp, legacy

MCFiles == {f1, f2}
MCLoaded == {f1}
MCSizeOf == f1 :> 3
MCReplacements == {x, y}
MCRules == {r1, r2, edit_rule, review_rule, accept_rule}

Rule(id, object) == [id |-> id, object |-> object, targets |-> {cpp}]

MCCapsules ==
  << [id |-> "modernisation", targets |-> {cpp, legacy},
      rules |-> <<Rule(edit_rule, "use-nullptr"), Rule(review_rule, "review-raw-new")>>],
     [id |-> "transpiler", targets |-> {},
      rules |-> <<[id |-> accept_rule, object |-> NoAttr, targets |-> {}]>>] >>

Opt(target, enabled, minimum) ==
  [target |-> target, enabled |-> enabled, minimum |-> minimum]

MCOptions ==
  { Opt(cpp, {}, 50), Opt(NoTarget, {}, 75),
    Opt(cpp, {"transpiler"}, 50), Opt(NoTarget, {"modernisation"}, 75) }

Span(f, b, e) == [file |-> f, begin |-> b, end |-> e]
G(name, status) == [name |-> name, status |-> status]

Offer(kind, range, text, guards, confidence) ==
  [kind |-> kind, range |-> range, replacement |-> text, rule |-> r1, subject |-> <<range, text>>,
   guards |-> guards, confidence |-> confidence]

MCOffers ==
  { Offer("edit", Span(f1, 0, 2), x, {}, 75),
    Offer("edit", Span(f1, 0, 2), x, {G("g", "unknown")}, 75),
    Offer("edit", Span(f1, 1, 3), y, 
          {G("g", "passed"), G("h", "not_applicable"), G("", "failed")}, 50),
    Offer("edit", Span(f1, 2, 4), y, {}, 75),
    Offer("finding", Span(f1, 2, 4), NoAttr, {G("g", "failed")}, Garbled),
    Offer("finding", Span(f1, 0, 1), NoAttr, {}, 25) }

Opportunity(range, object, capable, digest, confidence) ==
  [kind |-> "opportunity", object |-> object, subject |-> range, range |-> range,
   replacement |-> x, rule |-> edit_rule, confidence |-> confidence, guards |-> {},
   digest |-> digest, edit_capable |-> capable]

RawEdit(range, text, digest, confidence) ==
  [kind |-> "edit", object |-> NoAttr, subject |-> "raw", range |-> range,
   replacement |-> text, rule |-> r2, confidence |-> confidence, guards |-> {},
   digest |-> digest, edit_capable |-> TRUE]

MCAdapterFacts ==
  { Opportunity(Span(f1, 0, 2), "use-nullptr", TRUE, "same", 75),
    Opportunity(Span(f1, 1, 3), "use-nullptr", TRUE, "same", 50),
    Opportunity(Span(f1, 0, 2), "review-raw-new", FALSE, "same", NoAttr),
    Opportunity(NoRange, "use-nullptr", TRUE, "same", 75),
    Opportunity(Span(f1, 2, 3), "use-nullptr", TRUE, "other", 75),
    Opportunity(Span(f1, 0, 2), "another", TRUE, "same", 75),
    RawEdit(Span(f1, 2, 3), y, "same", NoAttr),
    RawEdit(Span(f1, 2, 3), y, "other", 75),
    RawEdit(Span(f1, 2, 3), y, NoAttr, 75),
    RawEdit(Span(f1, 0, 1), NoAttr, "same", 75),
    RawEdit(NoRange, x, "same", 75),
    RawEdit(Span(f1, 0, 1), x, "same", Garbled) }
=============================================================================
