-------------------------- MODULE AdapterAgreement --------------------------
(* What the two adapters of Adapters.tla say of one text, compared.        *)
EXTENDS Adapters

Scanner(t) == INSTANCE TextScanner WITH Texts <- {t}, text <- t, pos <- 0, facts <- {}

\* The tokens that are replaced, as the textual adapter finds them in a text.
Replaced(t) == {o \in Scanner(t)!Opportunities : o.token \in Tokens}

\* A comment lies within a declaration of the text.
CommentInside(t) ==
  \E k \in DOMAIN Cursors[t] :
    \E p \in Cursors[t][k].begin..(Cursors[t][k].end - 2) : t[p + 1] = "/" /\ t[p + 2] \in {"*", "/"}

\* A token that would be replaced is part of a longer identifier.
TokenInside(t) ==
  \E p \in 1..(Len(t) - 1) :
    {t[p], t[p + 1]} \subseteq IdentifierChars /\ {t[p], t[p + 1]} \cap Tokens # {}

(* "emits modernisation opportunity facts consumed by the shared rule      *)
(* capsule" (README.md): the libclang adapter would have nothing replaced  *)
(* that the textual one would not, range for range.  Its search takes the  *)
(* first occurrence in a declaration, so this does not hold where that may *)
(* be in a comment or in a longer name, nor for a file saved meanwhile.    *)
AdaptersAgree ==
  \A s \in sites :
    s.token \in Tokens /\ s.file \notin resaved
      /\ ~CommentInside(stored[s.file]) /\ ~TokenInside(stored[s.file])
      => [token |-> s.token, begin |-> s.begin, end |-> s.end] \in Replaced(stored[s.file])
=============================================================================
