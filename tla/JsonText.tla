------------------------------ MODULE JsonText ------------------------------
(***************************************************************************)
(* The JSON that moult writes and reads: JsonObjectWriter and json_escape  *)
(* of src/json.cpp, the plan in plan.cpp and edits.cpp, the JsonParser of  *)
(* src/apps/moult.cpp and what apply takes from a plan.                    *)
(*                                                                         *)
(* A text is a sequence of symbols: brackets, commas and colons, "dq" and  *)
(* "bs", digits and letters, control characters ("nl", "ff", ..., "ctl"    *)
(* for one without an escape of its own).  A literal, and a word such as   *)
(* the name of a field, is one symbol.  Numbers do not overflow.           *)
(***************************************************************************)
EXTENDS Integers, PlanErrors

Digits == <<"0", "1", "2", "3", "4", "5", "6", "7", "8", "9">>

\* The characters json_escape has an escape for, and the letter of each.
Escapes ==
  "dq" :> "dq" @@ "bs" :> "bs" @@ "bsp" :> "b" @@ "ff" :> "f" @@ "nl" :> "n" @@ "cr" :> "r" @@ "tab" :> "t"

-----------------------------------------------------------------------------
(* Writing *)

\* json_escape.
Escape(string) ==
  FlattenSeq([k \in DOMAIN string |->
    LET c == string[k] IN
      IF c \in DOMAIN Escapes THEN <<"bs", Escapes[c]>>
      ELSE IF c = "ctl" THEN <<"bs", "u", "0", "0", "1", "b">> ELSE <<c>>])

StringText(string) == <<"dq">> \o Escape(string) \o <<"dq">>

RECURSIVE NumberText(_)
NumberText(n) ==
  IF n < 10 THEN <<Digits[n + 1]>> ELSE NumberText(n \div 10) \o <<Digits[(n % 10) + 1]>>

BoolText(b) == IF b THEN <<"true">> ELSE <<"false">>

\* Texts with a comma between any two.
Commas(texts) ==
  FlattenSeq([k \in DOMAIN texts |-> IF k = 1 THEN texts[k] ELSE <<",">> \o texts[k]])

ArrayText(texts) == <<"[">> \o Commas(texts) \o <<"]">>

\* JsonObjectWriter, of pairs of a name and the text of a value.
ObjectText(fields) ==
  <<"{">> \o Commas([k \in DOMAIN fields |-> StringText(<<fields[k][1]>>) \o <<":">> \o fields[k][2]])
    \o <<"}">>

Each(Text(_), list) == ArrayText([k \in DOMAIN list |-> Text(list[k])])

\* The members of an object that are strings, as pairs of a name and a string.
Members(strings) == [k \in DOMAIN strings |-> <<strings[k][1], StringText(strings[k][2])>>]

Attributes(strings) == IF strings = <<>> THEN <<>> ELSE << <<"attributes", ObjectText(Members(strings))>> >>

RangeText(range) ==
  ObjectText(<< <<"file", StringText(range.file)>>, <<"begin", NumberText(range.begin)>>,
                <<"end", NumberText(range.end)>> >>)

\* A range that may be missing, as a sequence of at most one.
RangeOf(ranges) == [k \in DOMAIN ranges |-> <<"range", RangeText(ranges[k])>>]

EditText(e) ==
  ObjectText(Members(<< <<"id", e.id>>, <<"rule_id", e.rule_id>>, <<"evidence_id", e.evidence_id>>,
                        <<"confidence", e.confidence>> >>)
             \o << <<"range", RangeText(e.range)>>, <<"replacement", StringText(e.replacement)>> >>
             \o Attributes(e.attributes))

ConflictText(c) ==
  ObjectText(<< <<"existing_edit_id", StringText(c.existing.id)>>, <<"proposed_edit_id", StringText(c.proposed.id)>>,
                <<"existing_range", RangeText(c.existing.range)>>, <<"proposed_range", RangeText(c.proposed.range)>>,
                <<"message", StringText(c.message)>> >>)

EditsText(edits) == Each(EditText, edits)

ConflictsText(conflicts) == Each(ConflictText, conflicts)

\* Facts, diagnostics and guards: `strings` has those members that are not empty.
ItemText(i) == ObjectText(Members(i.strings) \o RangeOf(i.range) \o Attributes(i.attributes))

\* Findings: those without evidence have no evidence_id.
FindingText(f) ==
  ObjectText(Members(f.strings) \o RangeOf(f.range) \o Members(f.evidence_id) \o Attributes(f.attributes))

EvidenceText(v) ==
  ObjectText(Members(v.strings) \o RangeOf(v.range)
             \o << <<"fact_ids", Each(StringText, v.fact_ids)>>, <<"guards", Each(ItemText, v.guards)>> >>
             \o Attributes(v.attributes))

GroupText(g) ==
  ObjectText(Members(g.strings)
             \o << <<"edit_ids", Each(StringText, g.edit_ids)>>, <<"finding_ids", Each(StringText, g.finding_ids)>>,
                   <<"requires", Each(StringText, g.requires_ids)>> >>
             \o Attributes(g.attributes))

(* plan_to_json; the edits of p are in the order of EditSet::sorted.  The  *)
(* facts are there if they were asked for.                                 *)
PlanText(p) ==
  ObjectText(Members(<< <<"target", p.target>>, <<"action", p.action>> >>)
             \o << <<"has_errors", BoolText(HasErrors(p))>>,
                   <<"accepted_edit_count", NumberText(Len(p.edits))>>,
                   <<"conflict_count", NumberText(Len(p.conflicts))>>,
                   <<"edits", EditsText(p.edits)>>,
                   <<"edit_conflicts", ConflictsText(p.conflicts)>>,
                   <<"findings", Each(FindingText, p.findings)>>,
                   <<"evidence", Each(EvidenceText, p.evidence)>>,
                   <<"groups", Each(GroupText, p.groups)>>,
                   <<"diagnostics", Each(ItemText, p.diagnostics)>> >>
             \o [k \in DOMAIN p.facts |-> <<"facts", Each(ItemText, p.facts[k])>>])

-----------------------------------------------------------------------------
(* Reading: each step yields a value and the place behind it, or fails     *)
(* where the parser throws.                                                *)
Got(value, next) == [ok |-> TRUE, value |-> value, next |-> next]
Failed == [ok |-> FALSE]

At(text, p) == IF p \in DOMAIN text THEN text[p] ELSE "eof"

\* skip_ws.
RECURSIVE Skip(_, _)
Skip(text, p) == IF At(text, p) \in {" ", "tab", "nl", "cr", "ff"} THEN Skip(text, p + 1) ELSE p

Follows(first, rest) == IF rest.ok THEN Got(first \o rest.value, rest.next) ELSE Failed

\* parse_string, from behind the quote: what a \u stands for is lost.
RECURSIVE Characters(_, _)
Characters(text, p) ==
  CASE At(text, p) = "eof" -> Failed
    [] At(text, p) = "dq" -> Got(<<>>, p + 1)
    [] At(text, p) = "bs" ->
         LET escape == At(text, p + 1)
             meant == {c \in DOMAIN Escapes : Escapes[c] = escape} \cup ({"/"} \cap {escape})
         IN IF escape = "u" /\ p + 5 <= Len(text) THEN Follows(<<"?">>, Characters(text, p + 6))
            ELSE IF meant # {} THEN Follows(SetToSeq(meant), Characters(text, p + 2)) ELSE Failed
    [] At(text, p) \notin {"eof", "dq", "bs"} -> Follows(<<text[p]>>, Characters(text, p + 1))

String(text, p) ==
  LET q == Skip(text, p) IN IF At(text, q) = "dq" THEN Characters(text, q + 1) ELSE Failed

RECURSIVE Number(_, _, _)
Number(text, p, n) ==
  IF At(text, p) \in ToSet(Digits) THEN Number(text, p + 1, 10 * n + SelectInSeq(Digits, LAMBDA d : d = text[p]) - 1)
  ELSE Got(n, p)

Typed(type, result) == IF result.ok THEN Got([type |-> type, value |-> result.value], result.next) ELSE Failed

\* What stands behind a value that was read, and the place behind that.
Mark(text, result) == IF result.ok THEN At(text, Skip(text, result.next)) ELSE "none"
Behind(text, result) == Skip(text, result.next) + 1

RECURSIVE Value(_, _), Items(_, _), Fields(_, _)

\* parse_array: on with the next item, or out.
ItemsFrom(text, item) ==
  CASE Mark(text, item) = "," -> Follows(<<item.value>>, Items(text, Behind(text, item)))
    [] Mark(text, item) = "]" -> Got(<<item.value>>, Behind(text, item))
    [] Mark(text, item) \notin {",", "]"} -> Failed

Items(text, p) == ItemsFrom(text, Value(text, p))

\* The first field of a name remains.
WithField(name, value, rest) ==
  IF rest.ok THEN Got(name :> value @@ rest.value, rest.next) ELSE Failed

\* Mutation: the end of the text closes an object as well.
FieldsFromUnclosed(text, name, item) ==
  CASE Mark(text, item) = "," -> WithField(name, item.value, Fields(text, Behind(text, item)))
    [] Mark(text, item) \in {"}", "eof"} -> Got(name :> item.value, Behind(text, item))
    [] Mark(text, item) \notin {",", "}", "eof"} -> Failed

\* parse_object: likewise.
FieldsFrom(text, name, item) ==
  CASE Mark(text, item) = "," -> WithField(name, item.value, Fields(text, Behind(text, item)))
    [] Mark(text, item) = "}" -> Got(name :> item.value, Behind(text, item))
    [] Mark(text, item) \notin {",", "}"} -> Failed

FieldFrom(text, key) ==
  IF Mark(text, key) = ":" THEN FieldsFrom(text, key.value, Value(text, Behind(text, key))) ELSE Failed

Fields(text, p) == FieldFrom(text, String(text, p))

Closes(text, p, bracket) == At(text, Skip(text, p)) = bracket

Nothing(text, p) == Got(<<>>, Skip(text, p) + 1)

\* parse_value, at its first symbol.
ValueAt(text, p) ==
  CASE At(text, p) = "dq" -> Typed("string", String(text, p))
    [] At(text, p) = "{" -> Typed("object", IF Closes(text, p + 1, "}") THEN Nothing(text, p + 1) ELSE Fields(text, p + 1))
    [] At(text, p) = "[" -> Typed("array", IF Closes(text, p + 1, "]") THEN Nothing(text, p + 1) ELSE Items(text, p + 1))
    [] At(text, p) \in ToSet(Digits) -> Typed("number", Number(text, p, 0))
    [] At(text, p) \in {"true", "false"} -> Typed("bool", Got(At(text, p) = "true", p + 1))
    [] At(text, p) = "null" -> Typed("null", Got(<<>>, p + 1))
    [] At(text, p) \notin ToSet(Digits) \cup {"dq", "{", "[", "true", "false", "null"} -> Failed

Value(text, p) == ValueAt(text, Skip(text, p))

\* JsonParser::parse: nothing may follow.
Whole(text, root) == IF root.ok /\ Skip(text, root.next) > Len(text) THEN root ELSE Failed

Parse(text) == Whole(text, Value(text, 1))

-----------------------------------------------------------------------------
(* What apply takes from a plan *)

\* The fields of an object that have a value of the type.
Has(object, type, names) ==
  object.type = "object" /\ \A n \in names : <<n>> \in DOMAIN object.value /\ object.value[<<n>>].type = type

Get(object, name) == object.value[<<name>>].value

IsRange(range) == Has(range, "string", {"file"}) /\ Has(range, "number", {"begin", "end"})

IsEdit(edit) ==
  /\ Has(edit, "object", {"range"}) /\ IsRange(edit.value[<<"range">>])
  /\ Has(edit, "string", {"id", "rule_id", "evidence_id", "confidence", "replacement"})
  /\ Get(edit, "confidence") \in {<<"low">>, <<"medium">>, <<"high">>, <<"proven">>}

EditOf(edit) ==
  LET range == edit.value[<<"range">>]
  IN [id |-> Get(edit, "id"), rule_id |-> Get(edit, "rule_id"), evidence_id |-> Get(edit, "evidence_id"),
      confidence |-> Get(edit, "confidence"), replacement |-> Get(edit, "replacement"),
      range |-> [file |-> Get(range, "file"), begin |-> Get(range, "begin"), end |-> Get(range, "end")]]

\* edits_from_plan_json.
EditsOf(edits) ==
  IF \A k \in DOMAIN edits : IsEdit(edits[k]) THEN Got([k \in DOMAIN edits |-> EditOf(edits[k])], 0) ELSE Failed

EditsIn(root) ==
  IF root.ok /\ Has(root.value, "array", {"edits"}) THEN EditsOf(Get(root.value, "edits")) ELSE Failed

EditsFromPlan(text) == EditsIn(Parse(text))

-----------------------------------------------------------------------------
(* What slice writes: write_json_value, with the members in the order of a *)
(* std::map, for which any fixed one stands.                               *)
RECURSIVE ValueText(_)
ValueText(v) ==
  CASE v.type = "string" -> StringText(v.value)
    [] v.type = "number" -> NumberText(v.value)
    [] v.type = "bool" -> BoolText(v.value)
    [] v.type = "null" -> <<"null">>
    [] v.type = "array" -> Each(ValueText, v.value)
    [] v.type = "object" ->
         LET names == FoldSet(LAMBDA name, list : Append(list, name), <<>>, DOMAIN v.value)
         IN <<"{">> \o Commas([k \in DOMAIN names |-> StringText(names[k]) \o <<":">> \o ValueText(v.value[names[k]])])
              \o <<"}">>
=============================================================================
