--------------------------- MODULE CompileCommands ---------------------------
(***************************************************************************)
(* What `moult plan` takes from a compile database (src/apps/moult.cpp):   *)
(* where the database is found, the commands it lists, the language a      *)
(* command compiles its file as, and the arguments libclang is given for a *)
(* source (args_for_source in src/clang/adapter.cpp).                      *)
(*                                                                         *)
(* A word of a command is an option and the text behind it, either of      *)
(* which may be empty: "-I" alone, "-Iinc", "a.cpp".  A database is a      *)
(* record [valid, entries], an entry as it is in the file a record         *)
(* [directory, file, form, words].  Links are not followed: the canonical  *)
(* form of a path is the absolute one.                                     *)
(***************************************************************************)
EXTENDS Glob

CONSTANTS
  Cwd,              \* the directory the command runs in, absolute
  Fallback          \* the arguments for a source no command names

ASSUME CwdAssumption == Cwd \in Seq(ToSet(Cwd))

Word(opt, text) == [opt |-> opt, text |-> text]

Bare(opts) == {Word(o, <<>>) : o \in opts}

-----------------------------------------------------------------------------
(* Paths *)

IsAbsolute(path) == path # <<>> /\ Head(path) = "/"

\* std::filesystem's operator /, of a directory that has a name.
In(directory, path) == IF IsAbsolute(path) THEN path ELSE directory \o <<"/">> \o path

\* weakly_canonical(absolute(path)).
Canonical(path) ==
  LET full == In(Cwd, path) IN Normalise(Picked(full, {k \in DOMAIN full : full[k] # "."}))

\* same_path_loose, and path_matches of the adapter.
SamePath(a, b) == Canonical(a) = Canonical(b)

Parent(path) == SubSeq(path, 1, Max(Slashes(path) \cup {1}) - 1)

-----------------------------------------------------------------------------
(* Finding a database: a place is the directory a compile_commands.json is in. *)

Here == <<".">>

\* The directories from base upwards, as far as its name goes.
Upwards(base) ==
  LET slashes == SetToSortSeq(Slashes(base), >)
  IN <<base>> \o [k \in DOMAIN slashes |-> SubSeq(base, 1, Max({1, slashes[k] - 1}))]

\* Base: the input if it is a directory, and the directory it is in if not.
Base(input, dirs) ==
  IF input \in dirs THEN input ELSE IF Parent(input) = <<>> THEN Here ELSE Parent(input)

\* The places find_compile_commands tries, in order.
Candidates(inputs, dirs) ==
  LET withBuild(dir) == <<dir, In(dir, <<"build">>)>>
  IN <<Here, <<"build">>>> \o
       FlattenSeq([k \in DOMAIN inputs |->
         FlattenSeq([j \in DOMAIN Upwards(Base(inputs[k], dirs)) |->
           withBuild(Upwards(Base(inputs[k], dirs))[j])])])

\* Those of them where there is a database; the first is used.
FoundAt(inputs, dirs, placed) ==
  LET tried == Candidates(inputs, dirs)
  IN SelectSeq(tried, LAMBDA place : Canonical(place) \in placed)

-----------------------------------------------------------------------------
(* The language of a command *)

Extension(path) == Last(path)
CSource(path) == Extension(path) = ".c"

\* is_unambiguous_cxx_source_extension.
CxxSource(path) == Extension(path) \in {".cc", ".cpp", ".cxx", ".c++", ".ixx"}
Header(path) == Extension(path) = ".h"

\* infer_source_language(path).
PathLanguage(path) ==
  CASE CSource(path) -> "c"
    [] CxxSource(path) \/ Header(path) \/ Extension(path) = ".hpp" -> "c++"
    [] OTHER -> "unknown"

\* language_from_x_value, of a whole word or of what is joined to -x.
XLanguage(text) ==
  CASE text \in {<<"c">>, <<"c-header">>, <<"objective-c">>} -> "c"
    [] text \in {<<"c++">>, <<"c++-header">>, <<"objective-c++">>} -> "c++"
    [] OTHER -> "unknown"

\* The languages that -x options give, each where it stands.
XOptions(words) ==
  {k \in DOMAIN words : words[k].opt = "-x" /\ (words[k].text # <<>> \/ k < Len(words))}

XOption(words, k) == XLanguage(IF words[k].text # <<>> THEN words[k].text ELSE words[k + 1].text)

\* explicit_language_from_args: the last one that is known counts.
ExplicitLanguage(words) ==
  LET known == {k \in XOptions(words) : XOption(words, k) # "unknown"}
  IN IF known = {} THEN "none" ELSE XOption(words, Max(known))

\* compiler_name_is_cxx, of the file name of a word.
NamesCxxCompiler(word) == FileName(word.text) \in {<<"c++">>, <<"g++">>, <<"clang++">>}

Launchers == {<<"ccache">>, <<"sccache">>, <<"distcc">>}

Launched(words) == Len(words) > 1 /\ FileName(words[1].text) \in Launchers

HasCxxStandard(words) ==
  \E k \in DOMAIN words : words[k].opt = "-std=" /\ words[k].text \in {<<"c++14">>, <<"gnu++17">>}

\* infer_source_language_from_compile_command.
CommandLanguage(words, file) ==
  LET compiler == words[IF Launched(words) THEN 2 ELSE 1]
  IN IF ExplicitLanguage(words) # "none" THEN ExplicitLanguage(words)
     ELSE IF CSource(file) /\ words # <<>> /\ (NamesCxxCompiler(compiler) \/ HasCxxStandard(words)) THEN "c++"
     ELSE PathLanguage(file)

-----------------------------------------------------------------------------
(* The words that are left of a command *)

\* option_has_separate_path_argument.
TakesPath == {"-I", "-isystem", "-iquote", "-idirafter", "-include", "-imacros", "-F", "-iframework", "-isysroot"}

\* The options whose joined path is made absolute.
JoinsPath == {"-I", "-F", "--sysroot="}

\* is_compile_source_argument.
NamesSource(word, source, directory) ==
  /\ word.opt = "" /\ word.text # <<>>
  /\ SamePath(word.text, source) \/ SamePath(In(directory, word.text), source)

\* A joined path, and the path that is a word of its own, from the directory.
Rebased(word, directory) == [word EXCEPT !.text = In(directory, @)]

Operand(word, directory) ==
  Word("", In(directory, IF word.opt = "" THEN word.text ELSE <<word.opt>> \o word.text))

\* Mutation: the operand of -o is left behind.
SanitizeOutputStays(words, source, directory) ==
  LET rest[k \in 2..(Len(words) + 2)] ==
        IF k > Len(words) THEN <<>>
        ELSE LET word == words[k] IN
          CASE word \in Bare({"-c", "-o"}) -> rest[k + 1]
            [] NamesSource(word, source, directory) -> rest[k + 1]
            [] word \in Bare(TakesPath) /\ k < Len(words) -> <<word, Operand(words[k + 1], directory)>> \o rest[k + 2]
            [] word.opt \in JoinsPath /\ word.text # <<>> -> <<Rebased(word, directory)>> \o rest[k + 1]
            [] OTHER -> <<word>> \o rest[k + 1]
  IN IF words = <<>> THEN <<>> ELSE rest[2]

\* sanitize_compile_command: the words from the second on, one or two at a time.
Sanitize(words, source, directory) ==
  LET rest[k \in 2..(Len(words) + 2)] ==
        IF k > Len(words) THEN <<>>
        ELSE LET word == words[k]
                 more == k < Len(words) IN
          IF word = Word("-c", <<>>) THEN rest[k + 1]
          ELSE IF word = Word("-o", <<>>) /\ more THEN rest[k + 2]
          ELSE IF word.opt = "-o" /\ word.text # <<>> THEN rest[k + 1]
          ELSE IF NamesSource(word, source, directory) THEN rest[k + 1]
          ELSE IF word \in Bare(TakesPath) /\ more THEN <<word, Operand(words[k + 1], directory)>> \o rest[k + 2]
          ELSE IF word.opt \in JoinsPath /\ word.text # <<>> THEN <<Rebased(word, directory)>> \o rest[k + 1]
          ELSE <<word>> \o rest[k + 1]
  IN IF words = <<>> THEN <<>> ELSE rest[2]

-----------------------------------------------------------------------------
(* The entries of a database *)

(* The directory of an entry; one that is not absolute is taken from where *)
(* the database is, also when it is that place itself.                     *)
CommandDirectory(place, entry) ==
  In(place, IF entry.directory = <<>> THEN place ELSE entry.directory)

SourceFile(place, entry) == In(CommandDirectory(place, entry), entry.file)

\* split_command_line loses the words that are empty, a list of arguments keeps them.
CommandWords(entry) ==
  IF entry.form = "command"
    THEN Picked(entry.words, {k \in DOMAIN entry.words : entry.words[k] # Word("", <<>>)})
    ELSE entry.words

\* parse_compile_commands_file, of a valid database: an entry without a command is passed over.
ParseDatabase(place, database) ==
  LET listed == Picked(database.entries, {k \in DOMAIN database.entries : database.entries[k].form # "neither"})
  IN [k \in DOMAIN listed |->
       LET e == listed[k]
           file == SourceFile(place, e)
       IN [file |-> file,
           args |-> Sanitize(CommandWords(e), file, CommandDirectory(place, e)),
           language |-> CommandLanguage(CommandWords(e), file)]]

\* compile_command_map_from_entries: of the entries of one path the last remains.
CommandMap(entries) ==
  [file \in {entries[k].file : k \in DOMAIN entries} |->
     entries[Max({k \in DOMAIN entries : entries[k].file = file})].args]

(* args_for_source.  Of several paths that lead to one file the first in   *)
(* the order of the map is taken; any of them may be that one.             *)
ArgsFor(path, map) ==
  LET same == {file \in DOMAIN map : SamePath(file, path)}
  IN CASE path \in DOMAIN map -> {map[path]}
       [] path \notin DOMAIN map /\ same # {} -> {map[file] : file \in same}
       [] same = {} -> {Fallback}
=============================================================================
