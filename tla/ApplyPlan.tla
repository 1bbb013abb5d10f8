----------------------------- MODULE ApplyPlan -----------------------------
(***************************************************************************)
(* `moult apply` (apply_plan in src/apps/moult.cpp) against a disk, over   *)
(* several invocations: read the plan and its files, refuse the whole plan *)
(* or compute every new text in memory, then file by file copy the backup  *)
(* and overwrite the file in place.  The process may be killed between any *)
(* two steps; the user may run it again, on any plan, put the backups back *)
(* or save a file from an editor, also while a run is under way.           *)
(*                                                                         *)
(* A content counts the times edits have been made to a text: 0 is the one *)
(* plans are computed from, 1 the result, 2 edits made to that.  A text of *)
(* the user's is a number too, from which the count goes on.  Torn is      *)
(* anything a truncated or partly written file holds.  The texts           *)
(* themselves are ApplyEdits.tla's matter.                                 *)
(***************************************************************************)
EXTENDS Integers, FiniteSets

CONSTANTS
  Paths,            \* the paths a plan may name, numbered in std::map order
  Files,            \* the files on disk
  FileOf,           \* FileOf[p]: the file path p leads to
  Torn,             \* a content that is neither old nor new
  Absent,           \* no file
  Lossy,            \* the files where a write error can surface only at close
  UserTexts,        \* UserTexts[f]: what the user may save in file f
  MaxRuns           \* bound: invocations of moult apply

ASSUME PlanAssumption ==
  /\ Paths \subseteq Nat
  /\ FileOf \in [Paths -> Files]
  /\ Torn \notin Int /\ Absent \notin Int /\ Torn # Absent
  /\ Lossy \subseteq Files
  /\ UserTexts \in [Files -> SUBSET Nat]
  /\ MaxRuns \in Nat

VARIABLES
  plan,             \* the plan of the latest invocation
  disk,             \* disk[f]: content of file f
  bak,              \* bak[f]: content of f.moult.bak
  runs,             \* invocations so far
  options,          \* [dry_run, backup] of the latest invocation
  pc,               \* where that invocation is
  queue,            \* the paths of `modified` it has still to write
  loaded,           \* loaded[p]: the content it read
  exit,             \* its exit code, once it has one
  pre, preBak,      \* observers: disk and bak when the latest invocation began,
                    \* with what the user has saved since
  saved,            \* observer: the files the user has saved since then
  late              \* observer: those of them saved between their backup and their write

observers == <<pre, preBak, saved, late>>
vars == <<plan, disk, bak, runs, options, pc, queue, loaded, exit, observers>>
world == <<disk, bak>>
call == <<plan, runs, options, observers>>

(* A plan file: the paths it has edits for; whether it can be read, and    *)
(* whether its edits are apart and in range.                               *)
Plans == [paths: SUBSET Paths, whole: BOOLEAN, clean: BOOLEAN]

Contents == Nat \cup {Torn}
NoExit == 2
Steps == {"idle", "preparing", "next", "copying", "copied", "writing"}

Init ==
  /\ plan = [paths |-> {}, whole |-> TRUE, clean |-> TRUE]
  /\ disk \in [Files -> {0, Absent}]
  /\ bak = [f \in Files |-> Absent]
  /\ runs = 0
  /\ options = [dry_run |-> FALSE, backup |-> FALSE]
  /\ pc = "idle"
  /\ queue = {}
  /\ loaded = [p \in Paths |-> Absent]
  /\ exit = NoExit
  /\ pre = disk
  /\ preBak = bak
  /\ saved = {}
  /\ late = {}

-----------------------------------------------------------------------------
\* The content after the edits of a plan.
Patched(c) == IF c = Torn THEN Torn ELSE c + 1

\* The range-for over `modified` takes paths in order.
Current(p) == p \in queue /\ \A q \in queue : p <= q

Exit(code) == pc' = "idle" /\ exit' = code

\* The user runs moult apply on a plan file.
Invoke(file, dry_run, backup) ==
  /\ pc = "idle"
  /\ runs < MaxRuns
  /\ runs' = runs + 1
  /\ plan' = file
  /\ options' = [dry_run |-> dry_run, backup |-> backup]
  /\ pc' = "preparing"
  /\ queue' = file.paths
  /\ exit' = NoExit
  /\ pre' = disk
  /\ preBak' = bak
  /\ saved' = {}
  /\ late' = {}
  /\ UNCHANGED <<disk, bak, loaded>>

\* The plan cannot be read, or what was read is no plan.
PlanUnreadable ==
  /\ pc = "preparing"
  /\ ~plan.whole
  /\ Exit(1)
  /\ UNCHANGED <<call, world, queue, loaded>>

\* A plan without edits ends at once: "no edits to apply".
PrepareNothing ==
  /\ pc = "preparing"
  /\ plan.whole
  /\ plan.paths = {}
  /\ Exit(0)
  /\ UNCHANGED <<call, world, queue, loaded>>

(* A file that cannot be read, an edit add() does not accept, or one that  *)
(* apply_to_memory finds out of range ends the run before anything is      *)
(* written.  Edits made for content 0 may or may not fit another one.  All *)
(* files are read in one step: what is saved while they are read counts as *)
(* saved before this step or after it, depending on the file.              *)
Missing == \E p \in plan.paths : disk[FileOf[p]] = Absent

PrepareRefused ==
  /\ pc = "preparing"
  /\ plan.whole
  /\ plan.paths # {}
  /\ \/ Missing
     \/ ~plan.clean
     \/ \E p \in plan.paths : disk[FileOf[p]] # 0
  /\ Exit(1)
  /\ UNCHANGED <<call, world, queue, loaded>>

PrepareAccepted ==
  /\ pc = "preparing"
  /\ plan.whole
  /\ plan.paths # {}
  /\ ~Missing
  /\ plan.clean
  /\ loaded' = [p \in Paths |-> IF p \in plan.paths THEN disk[FileOf[p]] ELSE Absent]
  /\ pc' = "next"
  /\ UNCHANGED <<call, world, queue, exit>>

\* --dry-run: "would update", and on to the next file.
DryRun(p) ==
  /\ pc = "next" /\ Current(p) /\ options.dry_run
  /\ queue' = queue \ {p}
  /\ UNCHANGED <<call, world, pc, loaded, exit>>

\* --backup: copy_file with overwrite_existing truncates the old backup.
BackupOpen(p) ==
  /\ pc = "next" /\ Current(p) /\ ~options.dry_run /\ options.backup
  /\ bak' = [bak EXCEPT ![FileOf[p]] = Torn]
  /\ pc' = "copying"
  /\ UNCHANGED <<call, disk, queue, loaded, exit>>

\* A file saved while it is copied may give a copy of neither text.
BackupDone(p) ==
  /\ pc = "copying" /\ Current(p)
  /\ \E copy \in {disk[FileOf[p]]} \cup (IF FileOf[p] \in late THEN {Torn} ELSE {}) :
       bak' = [bak EXCEPT ![FileOf[p]] = copy]
  /\ pc' = "copied"
  /\ UNCHANGED <<call, disk, queue, loaded, exit>>

\* The backup cannot be opened, or the copy stops half way.
BackupFails(p) ==
  /\ Current(p)
  /\ \/ pc = "next" /\ ~options.dry_run /\ options.backup
     \/ pc = "copying"
  /\ Exit(1)
  /\ UNCHANGED <<call, world, queue, loaded>>

\* Mutation: the file may be written before its backup.
ReadyBeforeBackup(p) ==
  /\ Current(p) /\ ~options.dry_run
  /\ pc \in {"copied", "next"}

\* Mutation: --dry-run is not looked at.
ReadyEvenIfDry(p) ==
  /\ Current(p)
  /\ \/ pc = "copied"
     \/ pc = "next" /\ ~options.backup

\* A file's turn to be written: its backup, if one was asked for, is there.
ReadyToWrite(p) ==
  /\ Current(p) /\ ~options.dry_run
  /\ \/ pc = "copied"
     \/ pc = "next" /\ ~options.backup

\* Opening the std::ofstream truncates the file.
WriteOpen(p) ==
  /\ ReadyToWrite(p)
  /\ disk' = [disk EXCEPT ![FileOf[p]] = Torn]
  /\ pc' = "writing"
  /\ UNCHANGED <<call, bak, queue, loaded, exit>>

\* Mutation: a file that cannot be opened is passed over.
WriteOpenIgnored(p) ==
  /\ ReadyToWrite(p)
  /\ queue' = queue \ {p}
  /\ pc' = "next"
  /\ UNCHANGED <<call, world, loaded, exit>>

WriteOpenFails(p) ==
  /\ ReadyToWrite(p)
  /\ Exit(1)
  /\ UNCHANGED <<call, world, queue, loaded>>

(* If the user has saved the file since it was opened, the new text, the   *)
(* user's or a mixture of them remains.                                    *)
WriteDone(p) ==
  /\ pc = "writing" /\ Current(p)
  /\ \E text \in {Patched(loaded[p])} \cup
                 (IF disk[FileOf[p]] # Torn THEN {Torn, disk[FileOf[p]]} ELSE {}) :
       disk' = [disk EXCEPT ![FileOf[p]] = text]
  /\ queue' = queue \ {p}
  /\ pc' = "next"
  /\ UNCHANGED <<call, bak, loaded, exit>>

\* Mutation: the run goes on after a failed write.
WriteFailIgnored(p) ==
  /\ pc = "writing" /\ Current(p)
  /\ queue' = queue \ {p}
  /\ pc' = "next"
  /\ UNCHANGED <<call, world, loaded, exit>>

\* The stream is bad after the insertion: the file stays as far as it got.
WriteFails(p) ==
  /\ pc = "writing" /\ Current(p)
  /\ Exit(1)
  /\ UNCHANGED <<call, world, queue, loaded>>

(* write_text_file looks at the stream before the ofstream flushes and     *)
(* closes: bytes lost there are lost without an error, and the run goes on.*)
WriteLost(p) ==
  /\ pc = "writing" /\ Current(p)
  /\ FileOf[p] \in Lossy
  /\ queue' = queue \ {p}
  /\ pc' = "next"
  /\ UNCHANGED <<call, world, loaded, exit>>

Finish ==
  /\ pc = "next"
  /\ queue = {}
  /\ Exit(0)
  /\ UNCHANGED <<call, world, queue, loaded>>

\* The process is killed.
Crash ==
  /\ pc # "idle"
  /\ pc' = "idle"
  /\ UNCHANGED <<call, world, queue, loaded, exit>>

\* Between two runs the user puts every complete backup back.
Undo ==
  /\ pc = "idle"
  /\ disk' = [f \in Files |-> IF bak[f] \in Nat THEN bak[f] ELSE disk[f]]
  /\ exit' = NoExit
  /\ pre' = disk'
  /\ preBak' = bak
  /\ UNCHANGED <<plan, bak, runs, options, pc, queue, loaded, saved, late>>

(* The user saves a file, at any time.  It is too late for its backup from *)
(* the moment that is opened, and too early for its write.                 *)
TooLate(f) ==
  /\ pc \in {"copying", "copied", "writing"}
  /\ \E p \in queue : Current(p) /\ FileOf[p] = f

UserSaves(f, text) ==
  /\ disk' = [disk EXCEPT ![f] = text]
  /\ pre' = [pre EXCEPT ![f] = text]
  /\ saved' = saved \cup {f}
  /\ late' = IF TooLate(f) THEN late \cup {f} ELSE late \ {f}
  /\ UNCHANGED <<plan, bak, runs, options, pc, queue, loaded, exit, preBak>>

\* What may happen besides an invocation.
Step ==
  \/ PlanUnreadable \/ PrepareNothing \/ PrepareRefused \/ PrepareAccepted
  \/ \E p \in Paths :
       \/ DryRun(p)
       \/ BackupOpen(p) \/ BackupDone(p) \/ BackupFails(p)
       \/ WriteOpen(p) \/ WriteOpenFails(p)
       \/ WriteDone(p) \/ WriteFails(p) \/ WriteLost(p)
  \/ Finish
  \/ Crash
  \/ Undo
  \/ \E f \in Files : \E text \in UserTexts[f] : UserSaves(f, text)

Next == (\E file \in Plans, d, b \in BOOLEAN : Invoke(file, d, b)) \/ Step

Spec == Init /\ [][Next]_vars

-----------------------------------------------------------------------------
\* Each variable's range; a run holds the text of every file it may write.
TypeOK ==
  /\ plan \in Plans
  /\ disk \in [Files -> Contents \cup {Absent}]
  /\ bak \in [Files -> Contents \cup {Absent}]
  /\ runs \in Nat
  /\ options \in [dry_run: BOOLEAN, backup: BOOLEAN]
  /\ pc \in Steps
  /\ queue \subseteq plan.paths
  /\ loaded \in [Paths -> Contents \cup {Absent}]
  /\ exit \in {0, 1, NoExit}
  /\ pre \in [Files -> Contents \cup {Absent}]
  /\ preBak \in [Files -> Contents \cup {Absent}]
  /\ late \subseteq saved /\ saved \subseteq Files
  /\ pc \in {"next", "copying", "copied", "writing"} =>
       \A p \in plan.paths : loaded[p] \in Contents

(* "`--backup` to write <file>.moult.bak before each file is modified"     *)
(* (README): from the moment such a run starts, through failures and       *)
(* crashes, what the user last had in a file of the plan is in the file or *)
(* in its backup, unless it was saved while the file was being replaced:   *)
(* a text saved after the files were read is overwritten, but copied first.*)
(* The promise begins anew with each run: one that finds a text torn by an *)
(* earlier one takes that for the user's, and for the backup.              *)
Recoverable ==
  options.backup =>
    \A p \in plan.paths :
      LET f == FileOf[p] IN f \in late \/ pre[f] \in {disk[f], bak[f]}

(* A run that was refused, or asked to write nothing, wrote nothing: not   *)
(* even the files that came before the bad one.                            *)
UntouchedUnlessAccepted ==
  (options.dry_run \/ ~plan.whole \/ ~plan.clean \/ \E p \in plan.paths : pre[FileOf[p]] = Absent)
     => disk = pre /\ bak = preBak

(* Files are replaced one after another: wherever a run stops, the files   *)
(* before the first unfinished one are new and those after it untouched,   *)
(* so at most one is torn, and those where an error stayed hidden or that  *)
(* the user saved meanwhile.                                               *)
StopsInOrder ==
  \A p, q \in plan.paths :
    p < q /\ disk[FileOf[q]] # pre[FileOf[q]] /\ FileOf[p] \notin Lossy \cup saved =>
      disk[FileOf[p]] = Patched(pre[FileOf[p]])

(* "`apply` ... applies accepted, conflict-free edits to disk" (README):   *)
(* when a run that writes ends with exit code 0, every file of the plan    *)
(* whose write errors can be seen, and that the user left alone, holds its *)
(* new text.                                                               *)
ExitZeroMeansApplied ==
  exit = 0 /\ ~options.dry_run =>
    \A p \in plan.paths :
      FileOf[p] \notin Lossy \cup saved => disk[FileOf[p]] = Patched(pre[FileOf[p]])
=============================================================================
