--------------------------- MODULE MCUnifiedDiff ---------------------------
(* Rewrites of short texts over two characters and newlines, of texts of a *)
(* few lines, and of texts that keep a long run of lines with a change     *)
(* before it, after it, or both.                                           *)
EXTENDS DiffPlan

Words(S, n) == UNION {[1..k -> S] : k \in 0..n}

MCTextsOf(lines, n) == {FlattenSeq(q) : q \in Words(lines, n)}

MCA == <<"a", "nl">>
MCB == <<"b", "nl">>

MCChars == Words({"a", "b", "nl"}, 3)
MCLines == MCTextsOf({MCA, MCB}, 4)

\* Lines that are all different.
MCNames == <<"c", "d", "e", "f", "g", "h", "k", "l">>
MCRun(k) == FlattenSeq([n \in 1..k |-> <<MCNames[n], "nl">>])

MCLong(K) ==
  {<<p \o MCRun(k) \o s, q \o MCRun(k) \o t>> :
     p \in MCTextsOf({MCA}, 1), q \in MCTextsOf({MCA, MCB}, 1),
     s \in MCTextsOf({MCA}, 1), t \in MCTextsOf({MCA, MCB}, 1), k \in K}

MCRewrites == (MCChars \X MCChars) \cup (MCLines \X MCLines) \cup MCLong(0..8)
MCApart == MCLong({3, 4, 5, 6})
=============================================================================
