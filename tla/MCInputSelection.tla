-------------------------- MODULE MCInputSelection --------------------------
(* A directory with one below it, where sources in C and C++ and headers   *)
(* of every kind may be or not; overlapping, repeated and missing inputs;  *)
(* every form of pattern; databases that name files twice, from different  *)
(* directories, with paths joined to their options and not, near the       *)
(* inputs, asked for, or broken.                                           *)
EXTENDS InputSelection, FiniteSets

D == <<"d">>
V == <<"d", "/", "vendor">>
Root == <<"/", "w">>
Of(dir, name, ext) == dir \o <<"/", name, ext>>

MCDirs == {D, V}
A == Of(D, "a", ".cpp")
M == Of(D, "m", ".c")
F == Of(V, "f", ".cc")
HeaderD == Of(D, "b", ".h")
HeaderV == Of(V, "e", ".h")
Optional == {A, M, F, Of(V, "m", ".c"), Of(V, "n", ".txt")}
Texts == {{"cxx"}, {"abi", "cxx"}, {"c"}, {}}

MCDisks ==
  {[f \in S \cup {HeaderD, HeaderV} |-> IF f = HeaderD THEN t ELSE IF f = HeaderV THEN u ELSE {}] :
     S \in SUBSET Optional, t \in Texts, u \in {{"cxx"}, {"c"}}}

MCFallback == <<Word("-x", <<>>), Word("", <<"c++">>), Word("-std=", <<"c++14">>)>>

\* A word that is only a name or a path, and an option alone.
T(text) == Word("", text)
B(opt) == Word(opt, <<>>)

\* The last field is what a compiler takes the file for.
Entry(directory, file, form, words, language) ==
  [directory |-> directory, file |-> file, form |-> form, words |-> words, language |-> language]

Valid(entries) == [valid |-> TRUE, entries |-> entries]
Broken == [valid |-> FALSE, entries |-> <<>>]

\* Built in d, the compiler's output and the source as they come.
EntryA ==
  Entry(Root \o <<"/", "d">>, <<"a", ".cpp">>, "command",
        <<T(<<"g++">>), B("-I"), T(<<"inc">>), Word("-I", <<"gen">>), T(<<>>), Word("-I", <<"/", "usr">>),
          B("-c"), B("-o"), T(<<"a", ".o">>), T(<<"a", ".cpp">>)>>, "c++")

\* The file is a word before the options, the output is joined.
EntryF ==
  Entry(<<"d">>, <<"vendor", "/", "f", ".cc">>, "arguments",
        <<T(<<"clang++">>), T(<<"vendor", "/", "f", ".cc">>), Word("-o", <<"f", ".o">>), B("-isystem"), T(<<"sys">>),
          Word("-D", <<"X">>), T(<<>>)>>, "c++")

\* The header, compiled on its own.
EntryE == Entry(<<".">>, HeaderV, "arguments", <<T(<<"g++">>), Word("--sysroot=", <<"sdk">>), T(HeaderV)>>, "c++")

\* C sources by their names, in C or C++ by what is said of them.
EntryM(words, language) == Entry(Root, M, "arguments", words \o <<B("-c"), T(M)>>, language)
LikeM ==
  {EntryM(<<T(<<"gcc">>)>>, "c"), EntryM(<<T(<<"g++">>)>>, "c++"), EntryM(<<T(<<"ccache">>), T(<<"g++">>)>>, "c++"),
   EntryM(<<T(<<"gcc">>), B("-x"), T(<<"c++">>)>>, "c++"),
   EntryM(<<T(<<"g++">>), Word("-x", <<"c++">>), Word("-x", <<"c">>), B("-x")>>, "c")}

MCEntries == {<<EntryA, EntryF, EntryM(<<T(<<"gcc">>)>>, "c"), e>> : e \in LikeM}
One == <<EntryA, EntryE, EntryF, Entry(Root, A, "neither", <<T(<<"g++">>)>>, "c++")>>

P(include, exclude) == [include |-> include, exclude |-> exclude, vendored |-> FALSE]
Everything == P({}, {})

MCFilters ==
  {Everything, [Everything EXCEPT !.vendored = TRUE], P({<<"*", ".h">>, <<"d", "/", "*">>}, {<<"e", "?">>}),
   P({<<"*", "*", "/", "?", ".h">>}, {}), P({<<"d", "bs", "/", "*", "*", "/", "*", ".cc">>}, {}),
   P({<<"/", "d", "/", "*", "*">>}, {}), P({<<"*", "*">>}, {<<"*", "/", "e", "*">>})}

Call(in, some, adapter, explicit, placed) ==
  [inputs |-> in, filters |-> some, adapter |-> adapter, explicit |-> explicit, placed |-> placed]

Nowhere == [place \in {} |-> Broken]
At(place, database) == [p \in {Canonical(place)} |-> database]

\* Selecting sources, without a database.
Selecting ==
  {Call(in, some, "textual", <<>>, Nowhere) : some \in MCFilters,
     in \in {<<D>>, <<V>>, <<V, D>>, <<D, HeaderV>>, <<HeaderV, D>>, <<HeaderD>>, <<A, D>>, <<D, <<"x">>>>}}

\* A database for input, from the root or from the directory it is in.
Listed ==
  {Call(<<>>, some, adapter, place, At(place, Valid(q))) :
     some \in {Everything, P({}, {<<"vendor", "/", "*", "*">>})}, adapter \in {"textual", "clang"},
     place \in {Here, Root}, q \in MCEntries \cup {One}}

\* Both: a database that was asked for, one that is found, or one in the way.
Found ==
  {Call(in, Everything, "clang", explicit, placed) :
     in \in {<<V>>, <<D>>}, explicit \in {<<>>, Root},
     placed \in {Nowhere, At(Root, Valid(One)), At(Root, Broken), At(<<"build">>, Broken), At(V \o <<"/", "build">>, Valid(One)),
                 [p \in {Canonical(V), Canonical(D)} |-> IF p = Canonical(V) THEN Valid(<<EntryF>>) ELSE Broken]}}

Few == {d \in MCDisks : Cardinality(DOMAIN d) \in {3, 6} /\ "cxx" \in d[HeaderD]}

MCWorlds == {[disks |-> MCDisks, calls |-> Selecting], [disks |-> Few, calls |-> Listed \cup Found]}

\* The hypotheses of the theorems about the selection hold of these calls.
ASSUME HypothesesHold == LanguagesInferred /\ CommandsProper
=============================================================================
