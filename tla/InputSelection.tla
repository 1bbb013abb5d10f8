--------------------------- MODULE InputSelection ---------------------------
(***************************************************************************)
(* Which files `moult plan` and `moult scan` work on, and how each of them *)
(* is to be parsed (main in src/apps/moult.cpp, with collect_input_files,  *)
(* apply_path_filters and the languages of source.cpp): the inputs are     *)
(* collected one by one, or the translation units of a compile database if *)
(* none is given; what was found twice is dropped, patterns include and    *)
(* exclude, each file that is left is loaded with a language, and the      *)
(* adapter gets the arguments the database has for it.                     *)
(*                                                                         *)
(* A path is a sequence of names, "/" and extensions (Glob.tla).  The text *)
(* of a header is the set of the markers it has: "abi", "cxx", "c".        *)
(***************************************************************************)
EXTENDS CompileCommands

CONSTANTS
  Dirs,             \* the directories
  Worlds            \* what the command is run on and with: records [disks, calls] of sets

(* A disk has the text of each file.  A call has the inputs in order, the  *)
(* patterns [include, exclude, vendored], the adapter, the place that      *)
(* --compile-commands names or <<>>, and the database at each place that   *)
(* has one, as [valid, entries].                                           *)
\* vendored_exclude_patterns: two of the directories, for all of them.
VendoredPatterns == {<<"vendor", "/", "*", "*">>, <<"third_party", "/", "*", "*">>}

ExcludedBy(some) == some.exclude \cup (IF some.vendored THEN VendoredPatterns ELSE {})

\* A path or a pattern, as a sequence.
IsPath(path) == path \in Seq(ToSet(path))

(* A file has one path on a disk, it is no directory, and nothing is below *)
(* it; a text has no other markers than those of headers.                  *)
DiskAssumption ==
  \A d \in UNION {w.disks : w \in Worlds} :
    /\ \A f \in DOMAIN d : IsPath(f) /\ d[f] \subseteq {"abi", "cxx", "c"}
    /\ \A f, g \in DOMAIN d : (SamePath(f, g) => f = g) /\ ~IsStrictPrefix(f \o <<"/">>, g)
    /\ \A dir \in Dirs : IsPath(dir) /\ dir # <<>> /\ dir \notin DOMAIN d

VARIABLES
  disk, call,       \* what the command is run with
  stage,            \* "reading", "collecting", "filtering", "loading", "planned", "failed"
  next,             \* the input to collect next
  files,            \* the SourceInputs: [path, language]; a set, main sorts them anyway
  sources,          \* the SourceStore: the language of each file loaded
  commands          \* the arguments libclang will have for each C++ source

given == <<disk, call>>
selectVars == <<given, stage, next, files, sources, commands>>

inputs == call.inputs
filters == call.filters

\* What a call was asked to read, if it is there.
Entries(c) == c.placed[Canonical(c.explicit)].entries

Asks(c) == c.explicit # <<>> /\ Canonical(c.explicit) \in DOMAIN c.placed

\* Inputs, patterns and the paths in a database are texts.
CallAssumption ==
  \A c \in UNION {w.calls : w \in Worlds} :
    /\ c.inputs \in Seq(ToSet(c.inputs))
    /\ \A p \in c.filters.include \cup ExcludedBy(c.filters) : IsPath(p)
    /\ Asks(c) => /\ Entries(c) \in Seq(ToSet(Entries(c)))
                  /\ \A e \in ToSet(Entries(c)) : IsPath(SourceFile(c.explicit, e))

ASSUME SelectionAssumption == DiskAssumption /\ CallAssumption

\* compile_command_entries, of a place with a valid database; of none if there is no place.
EntriesAt(place) ==
  IF place = <<>> THEN <<>> ELSE ParseDatabase(place, call.placed[Canonical(place)])

Readable(place) == Canonical(place) \in DOMAIN call.placed /\ call.placed[Canonical(place)].valid

SelectInit ==
  /\ \E world \in Worlds : disk \in world.disks /\ call \in world.calls
  /\ stage = "reading" /\ next = 1
  /\ files = {} /\ sources = <<>> /\ commands = <<>>

-----------------------------------------------------------------------------
\* infer_source_language(path, text), of a header: the markers in the order they are looked for.
TextLanguage(path, markers) ==
  CASE ~Header(path) -> PathLanguage(path)
    [] Header(path) /\ "abi" \in markers -> "c"
    [] Header(path) /\ "abi" \notin markers /\ "cxx" \in markers -> "c++"
    [] Header(path) /\ markers = {"c"} -> "c"
    [] Header(path) /\ markers = {} -> "unknown"

-----------------------------------------------------------------------------
(* Collecting *)

Below(dir) == {f \in DOMAIN disk : IsStrictPrefix(dir \o <<"/">>, f)}

\* source_input_from_path, of a file or of none: only the text tells what a header is.
SourceInputs(paths) ==
  {[path |-> f, language |-> IF Header(f) THEN "unknown" ELSE "c++"] :
     f \in {g \in paths : PathLanguage(g) = "c++"}}

\* A header in a directory with sources in C and none in C++.
CSide(dir, f) ==
  LET around == {g \in Below(dir) : Parent(g) = Parent(f)}
  IN Header(f) /\ (\E g \in around : CSource(g)) /\ ~\E g \in around : CxxSource(g)

Collected(found) ==
  /\ files' = files \cup found
  /\ next' = next + 1
  /\ UNCHANGED <<given, stage, sources, commands>>

Fail ==
  /\ stage' = "failed"
  /\ UNCHANGED <<given, next, files, sources, commands>>

\* The database that was asked for is read before anything is collected.
ReadDatabase ==
  /\ stage = "reading"
  /\ call.explicit = <<>> \/ Readable(call.explicit)
  /\ stage' = "collecting"
  /\ UNCHANGED <<given, next, files, sources, commands>>

DatabaseUnreadable ==
  stage = "reading" /\ call.explicit # <<>> /\ ~Readable(call.explicit) /\ Fail

Collecting == stage = "collecting" /\ next <= Len(inputs)

CollectFile == Collecting /\ inputs[next] \in DOMAIN disk /\ Collected(SourceInputs({inputs[next]}))

CollectDirectory ==
  /\ Collecting /\ inputs[next] \in Dirs
  /\ LET dir == inputs[next] IN Collected(SourceInputs({f \in Below(dir) : ~CSide(dir, f)}))

\* The walk through a directory breaks off; what it found so far is of no use.
ScanBreaks == Collecting /\ inputs[next] \in Dirs /\ Fail

CollectMissing == Collecting /\ inputs[next] \notin DOMAIN disk \cup Dirs /\ Fail

\* source_files_from_compile_commands.
CollectDatabase ==
  /\ stage = "collecting" /\ inputs = <<>>
  /\ files' = {[path |-> e.file, language |-> "c++"] :
                 e \in {d \in ToSet(EntriesAt(call.explicit)) : d.language = "c++"}}
  /\ stage' = "filtering"
  /\ UNCHANGED <<given, next, sources, commands>>

AllCollected ==
  /\ stage = "collecting" /\ inputs # <<>> /\ next > Len(inputs)
  /\ stage' = "filtering"
  /\ UNCHANGED <<given, next, files, sources, commands>>

-----------------------------------------------------------------------------
(* Filtering and loading *)

\* std::sort and std::unique: any one of the inputs with a path remains.
OnePerPath(some) ==
  /\ some \subseteq files
  /\ \A f \in files : \E g \in some : g.path = f.path
  /\ \A f, g \in some : f.path = g.path => f = g

\* apply_path_filters.
Passes(path) ==
  /\ filters.include = {} \/ MatchesAny(filters.include, path)
  /\ ~MatchesAny(ExcludedBy(filters), path)

Filter ==
  /\ stage = "filtering"
  /\ \E some \in SUBSET files :
       /\ OnePerPath(some)
       /\ files' = {f \in some : Passes(f.path)}
  /\ stage' = IF files' = {} THEN "failed" ELSE "loading"
  /\ UNCHANGED <<given, next, sources, commands>>

Left == {f \in files : f.path \notin DOMAIN sources}

\* SourceStore::load_file.
LoadFile ==
  /\ stage = "loading"
  /\ \E f \in Left, found \in DOMAIN disk :
       /\ SamePath(found, f.path)
       /\ sources' = [g \in DOMAIN sources \cup {f.path} |->
            IF g # f.path THEN sources[g]
            ELSE IF f.language # "unknown" THEN f.language ELSE TextLanguage(g, disk[found])]
  /\ UNCHANGED <<given, stage, next, files, commands>>

LoadFails == stage = "loading" /\ Left # {} /\ Fail

AllLoaded == stage = "loading" /\ Left = {}

\* The textual scanner needs no arguments.
StartTextual ==
  /\ AllLoaded /\ call.adapter = "textual"
  /\ stage' = "planned"
  /\ UNCHANGED <<given, next, files, sources, commands>>

\* The place whose database the Clang adapter is to use; <<>> if there is none.
PlaceFor(c) ==
  LET found == FoundAt(c.inputs, Dirs, DOMAIN c.placed)
  IN IF c.explicit # <<>> THEN c.explicit ELSE IF found # <<>> THEN Head(found) ELSE <<>>

UsedPlace == PlaceFor(call)

Cxx == {f \in DOMAIN sources : sources[f] = "c++"}

\* A database is looked for if none was asked for; analyze takes C++ sources only.
StartClang ==
  /\ AllLoaded /\ call.adapter = "clang"
  /\ UsedPlace = <<>> \/ Readable(UsedPlace)
  /\ LET map == CommandMap(EntriesAt(UsedPlace))
     IN commands' \in {c \in [Cxx -> UNION {ArgsFor(f, map) : f \in Cxx}] :
                         \A f \in Cxx : c[f] \in ArgsFor(f, map)}
  /\ stage' = "planned"
  /\ UNCHANGED <<given, next, files, sources>>

\* A database that was found and cannot be read ends the command, late as it is.
FoundUnreadable ==
  AllLoaded /\ call.adapter = "clang" /\ UsedPlace # <<>> /\ ~Readable(UsedPlace) /\ Fail

SelectNext ==
  \/ ReadDatabase \/ DatabaseUnreadable
  \/ CollectFile \/ CollectDirectory \/ ScanBreaks \/ CollectMissing \/ CollectDatabase \/ AllCollected
  \/ Filter \/ LoadFile \/ LoadFails
  \/ StartTextual \/ StartClang \/ FoundUnreadable

SelectSpec == SelectInit /\ [][SelectNext]_selectVars

-----------------------------------------------------------------------------
(* What the patterns mean, for every path there may be. *)
PathsListed(c) ==
  IF c.inputs # <<>> \/ Canonical(c.explicit) \notin DOMAIN c.placed THEN {}
  ELSE {SourceFile(c.explicit, e) : e \in ToSet(c.placed[Canonical(c.explicit)].entries)}

PathsOf(w) == (UNION {DOMAIN d : d \in w.disks}) \cup (UNION {PathsListed(c) : c \in w.calls})

PatternsOf(w) == UNION {c.filters.include \cup ExcludedBy(c.filters) : c \in w.calls}

AllPaths == UNION {PathsOf(w) : w \in Worlds}
AllPatterns == UNION {PatternsOf(w) : w \in Worlds}
Meant ==
  [p \in AllPatterns |->
     {f \in UNION {PathsOf(w) : w \in {v \in Worlds : p \in PatternsOf(v)}} : Reaches(Normalise(p), f)}]

Selected(f) ==
  /\ filters.include = {} \/ \E p \in filters.include : f \in Meant[p]
  /\ ~\E p \in ExcludedBy(filters) : f \in Meant[p]

\* "looks like C++": by the name, or for a header by the text.
LooksCxx(f) ==
  IF Header(f) THEN "cxx" \in disk[f] /\ "abi" \notin disk[f] ELSE PathLanguage(f) = "c++"

\* "C-only directories": a header there is C's, unless it was asked for by name.
InCOnly(f) ==
  /\ Header(f)
  /\ \E g \in DOMAIN disk : CSource(g) /\ Parent(g) = Parent(f)
  /\ ~\E g \in DOMAIN disk : CxxSource(g) /\ Parent(g) = Parent(f)

Asked(f) ==
  \/ \E k \in DOMAIN inputs : inputs[k] = f
  \/ \E k \in DOMAIN inputs : IsStrictPrefix(inputs[k] \o <<"/">>, f) /\ ~InCOnly(f)

\* The entries with a command for file f, as the compiler takes them: see MCInputSelection.
Listing(place, f) ==
  {e \in ToSet(call.placed[Canonical(place)].entries) :
     e.form # "neither" /\ SamePath(SourceFile(place, e), f)}

CompiledAsCxx(f) ==
  \E e \in Listing(call.explicit, f) : SourceFile(call.explicit, e) = f /\ e.language = "c++"

Wanted ==
  {f \in AllPaths : Selected(f) /\ (IF inputs # <<>> THEN f \in DOMAIN disk /\ Asked(f) /\ LooksCxx(f)
                                    ELSE CompiledAsCxx(f))}

(* "Exclude patterns win over include patterns" and C headers "are skipped *)
(* by default" (README.md): if the command gets as far as a plan, it       *)
(* analyses exactly the C++ files that the inputs name or lie above, or    *)
(* the database compiles as C++, and the patterns leave, whatever the      *)
(* order of the inputs, and although they may overlap; nothing that was    *)
(* wanted is missing from a plan.                                          *)
AnalysesWanted == stage = "planned" => Cxx = Wanted

\* CommandLanguage takes a command for C++ if a compiler takes its file for C++.
LanguagesInferred ==
  \A c \in UNION {w.calls : w \in Worlds} :
    Asks(c) => \A e \in ToSet(Entries(c)) :
      e.form # "neither" =>
        (CommandLanguage(CommandWords(e), SourceFile(c.explicit, e)) = "c++" <=> e.language = "c++")

-----------------------------------------------------------------------------
(* What words tell a parser: every path an option takes is one file or     *)
(* directory, however it is spelled.                                       *)
Takes(words, k) == words[k] \in Bare(TakesPath) /\ k < Len(words)

Said(words, k, directory) ==
  LET path == IF Takes(words, k) THEN words[k + 1].text ELSE words[k].text
  IN <<words[k].opt, IF Takes(words, k) \/ (words[k].opt \in TakesPath \cup JoinsPath /\ path # <<>>)
                       THEN Canonical(In(directory, path)) ELSE path>>

Told(words, directory) ==
  FlattenSeq([k \in 1..Len(words) |->
    IF k > 1 /\ Takes(words, k - 1) THEN <<>> ELSE <<Said(words, k, directory)>>])

\* The words a driver acts on itself: what to run, what to write, what to read.
Driver(words, source, directory) ==
  {k \in DOMAIN words :
     \/ k = 1 \/ words[k] = Word("-c", <<>>) \/ words[k].opt = "-o"
     \/ k > 1 /\ words[k - 1] = Word("-o", <<>>)
     \/ /\ words[k].opt = "" /\ words[k].text # <<>> /\ SamePath(In(directory, words[k].text), source)
        /\ k > 1 => words[k - 1] \notin Bare(TakesPath)}

Frontend(place, e) ==
  LET directory == CommandDirectory(place, e)
      words == CommandWords(e)
  IN Told(Picked(words, DOMAIN words \ Driver(words, SourceFile(place, e), directory)), directory)

(* Moult "normalises relative include/source paths against each entry's    *)
(* compile directory" (README.md): each source is parsed with what a       *)
(* command that the database has for it tells the compiler, from wherever  *)
(* moult is run and however the source was named, and with the defaults if *)
(* there is no such command or no database.  The compiler's word behind a  *)
(* launcher stays: no source of such a command is spoken of.               *)
ParsedAsCompiled ==
  stage = "planned" /\ call.adapter = "clang" =>
    \A f \in Cxx :
      LET mine == IF UsedPlace = <<>> THEN {} ELSE Listing(UsedPlace, f)
      IN \/ mine = {} /\ commands[f] = Fallback
         \/ \E e \in mine :
              Launched(e.words) \/ Told(commands[f], Here) = Frontend(UsedPlace, e)

(* A command as compilers have them: it begins with a name, options that   *)
(* take a path are followed by one, -o has what it writes, and no word is  *)
(* the source from where moult runs but another file from where the        *)
(* compiler does.  An option whose joined path Sanitize leaves alone, like *)
(* -isystem, stands apart from it.                                         *)
ProperCommand(words, source, d) ==
  /\ words \in Seq(ToSet(words)) /\ IsPath(d)
  /\ \A k \in DOMAIN words : words[k] = Word(words[k].opt, words[k].text) /\ IsPath(words[k].text)
  /\ words # <<>> => words[1].opt = ""
  /\ \A k \in DOMAIN words :
       /\ words[k] \in Bare(TakesPath) /\ k < Len(words) => words[k + 1].opt = ""
       /\ words[k] = Word("-o", <<>>) => k < Len(words) /\ words[k + 1].opt = ""
       /\ words[k].opt \in TakesPath \ JoinsPath => words[k].text = <<>>
       /\ words[k].opt = "" /\ words[k].text # <<>> /\ SamePath(words[k].text, source) =>
            SamePath(In(d, words[k].text), source)

\* Such are the commands of the database that a call uses, but for those of launchers.
CommandsProper ==
  \A c \in UNION {w.calls : w \in Worlds} :
    LET place == PlaceFor(c)
        entries == c.placed[Canonical(place)].entries
    IN place # <<>> /\ Canonical(place) \in DOMAIN c.placed =>
         /\ entries \in Seq(ToSet(entries))
         /\ \A e \in ToSet(entries) :
              e.form # "neither" /\ ~Launched(e.words) =>
                ProperCommand(CommandWords(e), SourceFile(place, e), CommandDirectory(place, e))
=============================================================================
