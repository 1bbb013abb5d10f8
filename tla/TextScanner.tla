---------------------------- MODULE TextScanner ----------------------------
(***************************************************************************)
(* The textual adapter's pass over one source (scan_source in              *)
(* src/cpp/modernization.cpp): a single loop that jumps over directives,   *)
(* comments and literals and reports the constructs it meets in between.   *)
(* What it reports is compared with the lexical structure that C++ gives   *)
(* the same text.                                                          *)
(*                                                                         *)
(* A text is a sequence of symbols.  A token the scanner looks for, or the *)
(* name of a type, is one symbol; "a" stands for any other letter of an    *)
(* identifier, "1" for a digit, "sp" for a space and "nl" for the end of a *)
(* line.                                                                   *)
(***************************************************************************)
EXTENDS Integers, SequencesExt

CONSTANT Texts      \* the sources to scan

ASSUME TextsAssumption == \A t \in Texts : t \in Seq(ToSet(t))

VARIABLES
  text,             \* the source
  pos,              \* where the loop stands; the next symbol is text[pos + 1]
  facts             \* the opportunities: [token, begin, end]

vars == <<text, pos, facts>>

Blanks == {"sp", "tab"}
Tokens == {"NULL", "throw()", "register"}
Qualifiers == {"const"}
TypeWords == {"int", "void"} \cup Qualifiers
IdentifierChars == {"a", "1", "R", "NULL", "register"} \cup TypeWords

MaxDelimiter == 16
MaxCastType == 64

Init ==
  /\ text \in Texts
  /\ pos = 0
  /\ facts = {}

-----------------------------------------------------------------------------
(* Reading the text; places count from 0 *)

StartsWith(p, word) ==
  p + Len(word) <= Len(text) /\ SubSeq(text, p + 1, p + Len(word)) = word

Places(word, from) == {p \in from..Len(text) : StartsWith(p, word)}

\* text.find(word, from), and what the scanner makes of it: the end of the word, or of the text.
Past(word, from) ==
  IF Places(word, from) = {} THEN Len(text) ELSE Min(Places(word, from)) + Len(word)

\* has_identifier_boundaries; the last symbol of "throw()" needs no boundary.
Bounded(begin, end) ==
  /\ begin > 0 => text[begin] \notin IdentifierChars
  /\ end < Len(text) /\ text[end] # "throw()"
       => text[end + 1] \notin IdentifierChars \cup {"throw()"}

\* is_preprocessor_directive_start: only blanks before it on its line.
DirectiveStart(p) ==
  /\ StartsWith(p, <<"#">>)
  /\ \E b \in 0..p : /\ b > 0 => text[b] = "nl"
                     /\ \A k \in (b + 1)..p : text[k] \in Blanks

\* The characters of a symbol that may stand in a cast, and of a type without the blanks around it.
Width(c) == IF c = "const" THEN 5 ELSE IF c = "void" THEN 4 ELSE IF c = "int" THEN 3 ELSE 1

CastWidth(q) ==
  LET solid == {k \in DOMAIN q : q[k] \notin Blanks \cup {"nl"}}
  IN MapThenSumSet(LAMBDA k : Width(q[k]), Min(solid)..Max(solid))

(* is_builtin_c_style_cast_type: a built-in type and its qualifiers, the   *)
(* words kept apart, but not void alone, and not too long.                 *)
CastType(q) ==
  /\ \A k \in DOMAIN q : q[k] \in TypeWords \cup Blanks \cup {"nl", "*", "&"}
  /\ \A k \in 1..(Len(q) - 1) : ~(q[k] \in TypeWords /\ q[k + 1] \in TypeWords)
  /\ \E k \in DOMAIN q : q[k] \in TypeWords \ Qualifiers
  /\ SelectSeq(q, LAMBDA c : c \notin Blanks \cup {"nl"}) # <<"void">>
  /\ CastWidth(q) <= MaxCastType

\* What may not follow a cast.
NoOperand == {";", ",", ")", "]", "{"}

(* c_style_cast_range_end: the ends of the cast that begins at p, one or   *)
(* none.                                                                   *)
CastEnds(p) ==
  {end \in {Past(<<")">>, p + 1)} :
     /\ StartsWith(p, <<"(">>) /\ Places(<<")">>, p + 1) # {}
     /\ CastType(SubSeq(text, p + 2, end - 1))
     /\ \E n \in end..(Len(text) - 1) :
          /\ \A k \in end..(n - 1) : text[k + 1] \in Blanks \cup {"nl"}
          /\ text[n + 1] \notin Blanks \cup {"nl"} \cup NoOperand}

-----------------------------------------------------------------------------
(* Where each jump ends *)

\* Mutation: a delimiter is not asked for.
SkipUndelimited(p) == Past(<<")", "dq">>, p + 2)

\* Mutation: nothing is skipped where no literal begins.
SkipRawStays(p) ==
  LET open == Places(<<"(">>, p + 2)
  IN IF open = {} THEN p
     ELSE Past(<<")">> \o SubSeq(text, p + 3, Min(open)) \o <<"dq">>, Min(open) + 1)

\* skip_raw_string
SkipRaw(p) ==
  LET open == Places(<<"(">>, p + 2)
  IN IF open = {} \/ Min(open) - (p + 2) > MaxDelimiter THEN p + 2
     ELSE Past(<<")">> \o SubSeq(text, p + 3, Min(open)) \o <<"dq">>, Min(open) + 1)

\* skip_quoted
SkipQuoted(p, quote) ==
  LET skip[k \in 0..Len(text)] ==
        IF k = Len(text) THEN k
        ELSE IF text[k + 1] = "bs" THEN skip[IF k + 1 < Len(text) THEN k + 2 ELSE k + 1]
        ELSE IF text[k + 1] = quote THEN k + 1
        ELSE skip[k + 1]
  IN skip[p + 1]

\* What the scanner jumps over begins at p.
Opaque(p) ==
  \/ DirectiveStart(p)
  \/ \E word \in {<<"/", "/">>, <<"/", "*">>, <<"R", "dq">>, <<"dq">>, <<"sq">>} : StartsWith(p, word)

\* The range of a token; a blank goes with `register`.
TokenEnd(p) ==
  IF text[p + 1] = "register" /\ p + 1 < Len(text) /\ text[p + 2] \in Blanks THEN p + 2 ELSE p + 1

IsToken(p) == text[p + 1] \in Tokens /\ Bounded(p, p + 1)

-----------------------------------------------------------------------------
(* scan_source *)

Jump(end) == pos' = end /\ UNCHANGED <<text, facts>>

SkipDirective == DirectiveStart(pos) /\ Jump(Past(<<"nl">>, pos + 1))
SkipLineComment == StartsWith(pos, <<"/", "/">>) /\ Jump(Past(<<"nl">>, pos + 2))
SkipBlockComment == StartsWith(pos, <<"/", "*">>) /\ Jump(Past(<<"*", "/">>, pos + 2))
SkipRawString == StartsWith(pos, <<"R", "dq">>) /\ Jump(SkipRaw(pos))
SkipLiteral == \E quote \in {"dq", "sq"} : StartsWith(pos, <<quote>>) /\ Jump(SkipQuoted(pos, quote))

\* add_opportunity, and on to the end of its range.
Report(end) ==
  /\ facts' = facts \cup {[token |-> text[pos + 1], begin |-> pos, end |-> end]}
  /\ pos' = end
  /\ UNCHANGED text

ReportCast ==
  /\ pos < Len(text) /\ ~Opaque(pos)
  /\ \E end \in CastEnds(pos) : Report(end)

ReportToken ==
  /\ pos < Len(text) /\ ~Opaque(pos) /\ IsToken(pos)
  /\ Report(TokenEnd(pos))

Step ==
  /\ pos < Len(text) /\ ~Opaque(pos) /\ CastEnds(pos) = {} /\ ~IsToken(pos)
  /\ pos' = pos + 1
  /\ UNCHANGED <<text, facts>>

Next ==
  \/ SkipDirective \/ SkipLineComment \/ SkipBlockComment \/ SkipRawString \/ SkipLiteral
  \/ ReportCast \/ ReportToken \/ Step

Spec == Init /\ [][Next]_vars

-----------------------------------------------------------------------------
(* The reference: what C++ takes each symbol for.  A state is where the    *)
(* lexer is, with the delimiter of a raw literal and what was read since   *)
(* its last parenthesis; "beyond" is a text that this reference, or the    *)
(* language, has no rule for, and where it stays.                          *)
At(where) == [in |-> where, delim |-> <<>>, since |-> <<>>]

Code(c, before) ==
  IF c = "nl" THEN At("start")
  ELSE IF c = "/" THEN At("slash")
  ELSE IF c = "dq" THEN At(IF before = "R" THEN "beyond" ELSE "string")
  ELSE IF c = "sq" THEN At(IF before = "1" THEN "beyond" ELSE "char")
  ELSE IF c \in {"#", "bs"} THEN At("beyond")
  ELSE IF c = "R" /\ before \notin IdentifierChars THEN At("prefix")
  ELSE At("code")

Literal(c, quote, where, escape) ==
  IF c = quote THEN At("code") ELSE IF c = "bs" THEN At(escape)
  ELSE IF c = "nl" THEN At("beyond") ELSE At(where)

React(s, c, before) ==
  CASE s.in = "beyond" -> s
    [] s.in = "start" /\ c = "#" -> At("directive")
    [] s.in = "start" /\ c \in Blanks -> s
    [] s.in \in {"start", "code"} /\ ~(s.in = "start" /\ c \in Blanks \cup {"#"}) -> Code(c, before)
    [] s.in = "slash" /\ c = "/" -> At("line")
    [] s.in = "slash" /\ c = "*" -> At("block")
    [] s.in = "slash" /\ c \notin {"/", "*"} -> Code(c, before)
    [] s.in \in {"line", "directive"} /\ c = "nl" -> At(IF before = "bs" THEN "beyond" ELSE "start")
    [] s.in = "line" /\ c # "nl" -> s
    [] s.in = "directive" /\ c # "nl" -> At(IF c = "*" /\ before = "/" THEN "beyond" ELSE "directive")
    [] s.in = "block" -> IF c = "*" THEN At("star") ELSE s
    [] s.in = "star" -> IF c = "/" THEN At("code") ELSE IF c = "*" THEN s ELSE At("block")
    [] s.in = "string" -> Literal(c, "dq", "string", "string_escape")
    [] s.in = "char" -> Literal(c, "sq", "char", "char_escape")
    [] s.in = "string_escape" -> At(IF c = "nl" THEN "beyond" ELSE "string")
    [] s.in = "char_escape" -> At(IF c = "nl" THEN "beyond" ELSE "char")
    [] s.in = "prefix" /\ c = "dq" -> At("raw_open")
    [] s.in = "prefix" /\ c # "dq" -> Code(c, before)
    [] s.in = "raw_open" ->
         IF c = "(" THEN [s EXCEPT !.in = "raw"]
         ELSE IF c \in {")", "bs", "nl", "sp", "tab", "dq"} \/ Len(s.delim) = MaxDelimiter
           THEN At("beyond")
         ELSE [s EXCEPT !.delim = Append(@, c)]
    [] s.in = "raw" -> IF c = ")" THEN [s EXCEPT !.in = "raw_close", !.since = <<>>] ELSE s
    [] s.in = "raw_close" ->
         IF c = "dq" /\ s.since = s.delim THEN At("code")
         ELSE IF c = ")" THEN [s EXCEPT !.since = <<>>]
         ELSE [s EXCEPT !.since = Append(@, c)]

\* Where the lexer is before each symbol, and at the end.
Lexed ==
  LET state[k \in 0..Len(text)] ==
        IF k = 0 THEN At("start")
        ELSE React(state[k - 1], text[k], IF k = 1 THEN "nl" ELSE text[k - 1])
  IN state

InCode(s) == s.in \in {"start", "code", "slash", "prefix"}

\* What the scanner should report: the casts and the tokens in code.
Opportunities ==
  LET lexed == Lexed
      code == {p \in 0..(Len(text) - 1) : InCode(lexed[p])}
  IN {[token |-> text[p + 1], begin |-> p, end |-> TokenEnd(p)] : p \in {q \in code : IsToken(q)}}
       \cup UNION {{[token |-> "(", begin |-> p, end |-> end] : end \in CastEnds(p)} : p \in code}

-----------------------------------------------------------------------------
(* "It skips comments and string/character literals, emits modernisation   *)
(* opportunity facts" (README.md): in a complete C++ text it reports each  *)
(* construct in code and nothing else.  Left out ("beyond") are texts with *)
(* a digit separator, a spliced line, a comment begun in a directive, a    *)
(* `#` behind a block comment on its line, and a literal right behind an   *)
(* identifier that ends in R.  What a cast is, CastEnds says for both.     *)
FindsExactly ==
  LET last == Lexed[Len(text)]
  IN pos = Len(text) /\ (InCode(last) \/ last.in \in {"line", "directive"}) => facts = Opportunities
=============================================================================
