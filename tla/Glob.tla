-------------------------------- MODULE Glob --------------------------------
(***************************************************************************)
(* The patterns of --include, --exclude and --file (glob_match and what is *)
(* built on it in src/apps/moult.cpp), and what they mean.  A path is a    *)
(* sequence of names, "/" and extensions, a pattern may hold "*" and "?"   *)
(* as well; a backslash is "bs".                                           *)
(***************************************************************************)
EXTENDS Selections

\* normalise_glob_pattern: a slash behind another is dropped.
Normalise(pattern) ==
  LET slashed == [k \in 1..Len(pattern) |-> IF pattern[k] = "bs" THEN "/" ELSE pattern[k]]
  IN Picked(slashed, {k \in DOMAIN slashed : slashed[k] = "/" => k = 1 \/ slashed[k - 1] # "/"})

\* Where the stars end that begin at position pi, which counts from 0.
AfterStars(pattern, pi) ==
  Min({n \in (pi + 1)..Len(pattern) : n = Len(pattern) \/ pattern[n + 1] # "*"})

\* Mutation: a single star does not stop at a slash.
GlobMatchAllDeep(pattern, text) ==
  LET match[pi \in 0..Len(pattern)] == [ti \in 0..Len(text) |->
        IF pi = Len(pattern) THEN ti = Len(text)
        ELSE IF pattern[pi + 1] = "*"
          THEN \E n \in ti..Len(text) : match[AfterStars(pattern, pi)][n]
        ELSE /\ ti < Len(text)
             /\ pattern[pi + 1] = text[ti + 1] \/ (pattern[pi + 1] = "?" /\ text[ti + 1] # "/")
             /\ match[pi + 1][ti + 1]]
  IN match[0][0]

(* glob_match: two stars or more are deep, they cross slashes, and with a  *)
(* slash behind them they also match nothing at all.                       *)
GlobMatch(pattern, text) ==
  LET match[pi \in 0..Len(pattern)] == [ti \in 0..Len(text) |->
        IF pi = Len(pattern) THEN ti = Len(text)
        ELSE IF pattern[pi + 1] = "*" THEN
          LET next == AfterStars(pattern, pi)
              deep == next > pi + 1
          IN \/ deep /\ next < Len(pattern) /\ pattern[next + 1] = "/" /\ match[next + 1][ti]
             \/ \E n \in ti..Len(text) :
                  /\ deep \/ \A k \in (ti + 1)..n : text[k] # "/"
                  /\ match[next][n]
        ELSE /\ ti < Len(text)
             /\ pattern[pi + 1] = text[ti + 1] \/ (pattern[pi + 1] = "?" /\ text[ti + 1] # "/")
             /\ match[pi + 1][ti + 1]]
  IN match[0][0]

Slashes(path) == {k \in DOMAIN path : path[k] = "/"}

FileName(path) == SubSeq(path, Max(Slashes(path) \cup {0}) + 1, Len(path))

\* glob_matches_path.
GlobMatchesPath(given, path) ==
  LET pattern == Normalise(given)
      anywhere == GlobMatch(<<"*", "*", "/">> \o pattern, path)
  IN /\ pattern # <<>>
     /\ \/ Slashes(pattern) = {} /\ (GlobMatch(pattern, FileName(path)) \/ anywhere)
        \/ Slashes(pattern) # {} /\ GlobMatch(pattern, path)
        \/ Slashes(pattern) # {} /\ Head(pattern) # "/" /\ anywhere

\* matches_any_pattern.
MatchesAny(patterns, path) == \E p \in patterns : GlobMatchesPath(p, path)

-----------------------------------------------------------------------------
(* What a pattern means, without an algorithm: the text can be cut so that *)
(* each symbol of the pattern has its piece.  Cut k is where the piece of  *)
(* symbol k ends.                                                          *)
Cuts(pattern, text) ==
  {cut \in [0..Len(pattern) -> 0..Len(text)] :
     /\ cut[0] = 0 /\ cut[Len(pattern)] = Len(text)
     /\ \A k \in DOMAIN pattern :
          /\ cut[k - 1] <= cut[k]
          /\ pattern[k] # "*" => cut[k] <= cut[k - 1] + 1}

Star(pattern, k) == k \in DOMAIN pattern /\ pattern[k] = "*"
Deep(pattern, k) == Star(pattern, k) /\ (Star(pattern, k - 1) \/ Star(pattern, k + 1))

\* The text from b to e is a piece for symbol k.
PieceFits(pattern, text, k, b, e) ==
  LET piece == SubSeq(text, b + 1, e)
  IN \/ piece = <<pattern[k]>>
     \/ pattern[k] = "?" /\ Len(piece) = 1 /\ piece # <<"/">>
     \/ Deep(pattern, k)
     \/ Star(pattern, k) /\ Slashes(piece) = {}

\* A slash behind deep stars that have nothing stands for nothing; they begin after symbol from.
Void(pattern, k, cut, from) ==
  /\ pattern[k] = "/" /\ Deep(pattern, k - 1)
  /\ \A j \in (from + 1)..k : (\A i \in j..(k - 1) : Star(pattern, i)) => cut[j - 1] = cut[k]

Fits(pattern, text, cut) ==
  \A k \in DOMAIN pattern : PieceFits(pattern, text, k, cut[k - 1], cut[k]) \/ Void(pattern, k, cut, 0)

Means(pattern, text) == \E cut \in Cuts(pattern, text) : Fits(pattern, text, cut)

(* "Relative patterns match at any depth" (README.md): a relative pattern  *)
(* is meant for the path, or for what follows one of its slashes.  One     *)
(* without a symbol is meant for nothing.                                  *)
Reaches(pattern, path) ==
  /\ pattern # <<>>
  /\ \/ Means(pattern, path)
     \/ Head(pattern) # "/" /\ \E k \in Slashes(path) : Means(pattern, SubSeq(path, k + 1, Len(path)))
=============================================================================
