----------------------------- MODULE MCAdapters -----------------------------
(* For the textual adapter every text of a few pieces: the beginnings and  *)
(* ends of comments, literals, directives and lines, tokens and casts; and *)
(* the pieces of raw literals within one that has a delimiter.             *)
(* For libclang a source that includes a header of the store and one that  *)
(* is not in it, the header as a source of its own, and a file in C.       *)
EXTENDS AdapterAgreement

MCOf(pieces, n) == {FlattenSeq(q) : q \in UNION {[1..k -> pieces] : k \in 0..n}}

MCPieces ==
  {<<"NULL">>, <<"register">>, <<"(", "int", ")">>, <<"a">>, <<"sp">>, <<"nl">>,
   <<"#">>, <<"/", "/">>, <<"/", "*">>, <<"*", "/">>, <<"dq">>, <<"sq">>, <<"bs">>, <<"R", "dq">>}

MCRawPieces == {<<"R", "dq">>, <<"(">>, <<")">>, <<"a">>, <<"dq">>, <<"NULL">>}

\* Casts to types of 64 characters and of one more.
MCLong(stars) ==
  <<"(">> \o FlattenSeq([k \in 1..10 |-> <<"const", "sp">>]) \o <<"int">> \o stars \o <<")", "a">>

MCTexts ==
  MCOf(MCPieces, 4) \cup MCOf({<<"throw()">>, <<"a">>, <<"/", "*">>, <<"sp">>}, 3) \cup
    MCOf({<<"(">>, <<")">>, <<"int">>, <<"void">>, <<"const">>, <<"sp">>}, 4) \cup
    {<<"R", "dq", "a", "(">> \o q \o <<")", "a", "dq">> : q \in MCOf(MCRawPieces, 4)} \cup
    {MCLong(<<"*">>), MCLong(<<"*", "*">>)}

-----------------------------------------------------------------------------
MCCursor(kind, begin, end) ==
  [kind |-> kind, name |-> "a", register |-> FALSE, auto_ptr |-> FALSE, begin |-> begin, end |-> end]

MCNull(begin) == [MCCursor("macro", begin, begin + 1) EXCEPT !.name = "NULL"]

\* Declarations, with their cursors.
MCRegister ==
  [text |-> <<"int", "sp", "register", "tab", "a", ";">>,
   cursors |-> <<[MCCursor("declaration", 0, 5) EXCEPT !.register = TRUE]>>]
MCThrows ==
  [text |-> <<"void", "sp", "a", "(", "register", "sp", "int", "sp", "a", ")", "sp", "throw()", ";">>,
   cursors |-> <<MCCursor("function", 0, 12), [MCCursor("declaration", 4, 9) EXCEPT !.register = TRUE]>>]
MCBody ==
  [text |-> <<"int", "sp", "a", "(", ")", "{", "a", "(", "NULL", ")", ";", "}">>,
   cursors |-> <<MCNull(8), MCCursor("function", 0, 12), MCCursor("call", 6, 10), [MCCursor("reference", 8, 9) EXCEPT !.name = "NULL"]>>]
MCLocal ==
  [text |-> <<"int", "sp", "a", "(", ")", "{", "a", "a", "(", ")", "throw()", ";", "}">>,
   cursors |-> <<MCCursor("function", 0, 13)>>]
MCComment ==
  [text |-> <<"a", "(", "/", "*", "throw()", "*", "/", ")", ";">>, cursors |-> <<MCCursor("function", 0, 8)>>]
MCInside ==
  [text |-> <<"register", "a", "sp", "register", "sp", "a", ";">>,
   cursors |-> <<[MCCursor("declaration", 0, 6) EXCEPT !.register = TRUE]>>]
MCLines ==
  [text |-> <<"/", "/", "NULL", "nl", "#", "a", "NULL", "nl">>, cursors |-> <<MCCursor("include", 4, 7)>>]
MCTypes ==
  [text |-> <<"typedef", "sp", "std::auto_ptr", "sp", "a", ";">>,
   cursors |-> <<MCCursor("typedef", 0, 5), [MCCursor("declaration", 2, 5) EXCEPT !.auto_ptr = TRUE]>>]
MCAllocation ==
  [text |-> <<"delete", "(", "int", "*", ")", "new", "sp", "int", ";">>,
   cursors |-> <<MCCursor("delete", 0, 8), MCCursor("c cast", 1, 8), MCCursor("new", 5, 8), MCCursor("other", 7, 8)>>]
MCMacro ==
  [text |-> <<"a", "(", "a", ")", ";">>,
   cursors |-> <<MCCursor("macro", 0, 4), [MCCursor("declaration", 0, 4) EXCEPT !.register = TRUE, !.auto_ptr = TRUE],
                 MCCursor("typedef", 0, 4), MCCursor("cast", 0, 4)>>]

MCShifted(cursors, by) ==
  [k \in DOMAIN cursors |-> [cursors[k] EXCEPT !.begin = @ + by, !.end = @ + by]]

MCTogether(x, y) == [text |-> x.text \o y.text, cursors |-> x.cursors \o MCShifted(y.cursors, Len(x.text))]

MCNothing == [text |-> <<>>, cursors |-> <<>>]

MCUnits ==
  {MCRegister, MCThrows, MCBody, MCLocal, MCComment, MCInside, MCLines, MCTypes, MCAllocation, MCMacro, MCNothing}

MCHeaders ==
  {MCTogether(MCLines, MCBody), MCTogether(MCBody, MCRegister), MCThrows}

MCMains == MCUnits \cup {MCTogether(MCLines, x) : x \in MCUnits}

MCKnown == MCMains \cup MCHeaders

MCTextsOf(known) == {x.text : x \in known}

MCSources == 1..3
MCCxx == 1..2
MCIncluded == <<<<2, 4>>, <<>>, <<2>>>>
MCVersions == <<MCTextsOf(MCMains), MCTextsOf(MCHeaders), {MCTypes.text}, {MCRegister.text}>>
MCCursors == [t \in MCTextsOf(MCKnown) |-> (CHOOSE x \in MCKnown : x.text = t).cursors]
=============================================================================
