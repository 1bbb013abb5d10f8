-------------------------- MODULE ApplyPlanProofs --------------------------
(***************************************************************************)
(* What a run of `moult apply` leaves behind, for any number of files and  *)
(* of runs, provided no two paths of a plan lead to one file: with         *)
(* FileOf[1] = FileOf[2] the second backup is taken of a modified file.    *)
(***************************************************************************)
EXTENDS WriteOutputs, SequenceTheorems, TLAPS

Apart == \A p, q \in Paths : p # q => FileOf[p] # FileOf[q]

Active == pc \in {"next", "copying", "copied", "writing"}

\* What a run knows about the files that are done and those still to come.
RunInv ==
  /\ pc # "idle" => exit = NoExit
  /\ pc = "preparing" => disk = pre /\ bak = preBak /\ queue = plan.paths
  /\ Active =>
       /\ plan.clean /\ plan.whole
       /\ \A p \in plan.paths :
            /\ FileOf[p] \notin saved => loaded[p] = pre[FileOf[p]]
            /\ pre[FileOf[p]] # Absent
       /\ \A p \in queue : disk[FileOf[p]] = pre[FileOf[p]] \/ (pc = "writing" /\ Current(p))
       /\ \A p \in plan.paths \ queue, q \in queue : p < q
  /\ options.dry_run =>
       /\ pc \in {"idle", "preparing", "next"}
       /\ disk = pre
       /\ bak = preBak
  /\ pc \in {"copying", "copied"} => options.backup
  /\ pc = "writing" => \A p \in queue : Current(p) => FileOf[p] \in saved \/ disk[FileOf[p]] = Torn
  /\ pc \in {"copied", "writing"} /\ options.backup =>
       \A p \in queue : Current(p) => FileOf[p] \in late \/ bak[FileOf[p]] = pre[FileOf[p]]

\* What is off the queue is written, where write errors are seen.
WrittenInv ==
  Active /\ ~options.dry_run =>
    \A p \in plan.paths \ queue :
      FileOf[p] \notin Lossy \cup saved => disk[FileOf[p]] = Patched(pre[FileOf[p]])

-----------------------------------------------------------------------------
\* A file in the middle of the queue is not the current one twice.
LEMMA OneCurrent ==
  ASSUME TypeOK, NEW p \in Paths, NEW q \in Paths, Current(p), Current(q)
  PROVE  p = q
<1>1. p \in Nat /\ q \in Nat
  BY PlanAssumption
<1> QED BY <1>1 DEF Current

\* What the proofs below need of the constants.
LEMMA Consts ==
  /\ Paths \subseteq Nat
  /\ FileOf \in [Paths -> Files]
  /\ Torn \notin Nat /\ Absent \notin Nat /\ Torn # Absent
  /\ UserTexts \in [Files -> SUBSET Nat]
BY PlanAssumption

\* Each variable keeps its range.
THEOREM TypeCorrect == Spec => []TypeOK
<1>1. Init => TypeOK
  BY Consts DEF Init, TypeOK, Contents, NoExit, Steps, Plans
<1>2. TypeOK /\ [Next]_vars => TypeOK'
  <2> SUFFICES ASSUME TypeOK, [Next]_vars PROVE TypeOK'
    OBVIOUS
  <2> USE Consts DEF TypeOK, Contents, NoExit, Steps, Exit, call, world, observers
  <2>1. ASSUME NEW file \in Plans, NEW d \in BOOLEAN, NEW b \in BOOLEAN, Invoke(file, d, b)
        PROVE  TypeOK'
    BY <2>1 DEF Invoke, Plans
  <2>2. CASE PlanUnreadable \/ PrepareNothing \/ PrepareRefused \/ Finish \/ Crash
    BY <2>2 DEF PlanUnreadable, PrepareNothing, PrepareRefused, Finish, Crash
  <2>3. CASE PrepareAccepted
    BY <2>3 DEF PrepareAccepted, Missing, Plans
  <2>4. ASSUME NEW p \in Paths,
               \/ DryRun(p) \/ BackupFails(p) \/ WriteOpenFails(p)
               \/ WriteFails(p) \/ WriteLost(p)
        PROVE  TypeOK'
    BY <2>4 DEF DryRun, BackupFails, WriteOpenFails, WriteFails, WriteLost
  <2>5. ASSUME NEW p \in Paths, BackupOpen(p) \/ BackupDone(p) PROVE TypeOK'
    BY <2>5 DEF BackupOpen, BackupDone
  <2>6. ASSUME NEW p \in Paths, WriteOpen(p) PROVE TypeOK'
    BY <2>6 DEF WriteOpen, ReadyToWrite
  <2>7. ASSUME NEW p \in Paths, WriteDone(p) PROVE TypeOK'
    <3>1. loaded[p] \in Contents
      BY <2>7 DEF WriteDone, Current
    <3>2. Patched(loaded[p]) \in Contents
      BY <3>1 DEF Patched
    <3>3. PICK text \in {Patched(loaded[p]), Torn, disk[FileOf[p]]} :
            disk' = [disk EXCEPT ![FileOf[p]] = text]
      BY <2>7 DEF WriteDone
    <3>4. disk' \in [Files -> Contents \cup {Absent}]
      BY <3>2, <3>3
    <3> QED BY <2>7, <3>4 DEF WriteDone
  <2>8. CASE Undo
    BY <2>8 DEF Undo
  <2>9. ASSUME NEW f \in Files, NEW text \in UserTexts[f], UserSaves(f, text) PROVE TypeOK'
    BY <2>9 DEF UserSaves
  <2>10. CASE UNCHANGED vars
    BY <2>10 DEF vars
  <2> QED BY <2>1, <2>2, <2>3, <2>4, <2>5, <2>6, <2>7, <2>8, <2>9, <2>10 DEF Next, Step
<1> QED BY <1>1, <1>2, PTL DEF Spec

-----------------------------------------------------------------------------
\* RunInv survives every step: each step touches the current file only.
LEMMA RunInvStep ==
  ASSUME Apart, TypeOK, RunInv, [Next]_vars
  PROVE  RunInv'
<1> USE DEF RunInv, Active, call, world, observers
<1>1. ASSUME NEW file \in Plans, NEW d \in BOOLEAN, NEW b \in BOOLEAN, Invoke(file, d, b)
      PROVE  RunInv'
  BY <1>1 DEF Invoke
<1>2. CASE PlanUnreadable \/ PrepareNothing \/ PrepareRefused \/ Finish \/ Crash
  BY <1>2 DEF PlanUnreadable, PrepareNothing, PrepareRefused, Finish, Crash, Exit
<1>3. CASE PrepareAccepted
  BY <1>3, Consts DEF PrepareAccepted, Missing, TypeOK, Plans
<1>4. ASSUME NEW p \in Paths, BackupFails(p) \/ WriteOpenFails(p) \/ WriteFails(p)
      PROVE  RunInv'
  BY <1>4 DEF BackupFails, WriteOpenFails, WriteFails, Exit
<1>5. ASSUME NEW p \in Paths, DryRun(p) PROVE RunInv'
  <2>1. queue' = queue \ {p} /\ pc' = "next" /\ pc = "next"
    BY <1>5 DEF DryRun
  <2>2. \A x \in plan.paths \ queue', q \in queue' : x < q
    BY <1>5, <2>1, Consts DEF DryRun, Current, TypeOK, Plans
  <2> QED BY <1>5, <2>1, <2>2 DEF DryRun
<1>6. ASSUME NEW p \in Paths, BackupOpen(p) PROVE RunInv'
  BY <1>6 DEF BackupOpen, Current
<1>7. ASSUME NEW p \in Paths, BackupDone(p) PROVE RunInv'
  <2>1. pc = "copying" /\ p \in queue /\ pc' = "copied"
    BY <1>7 DEF BackupDone, Current
  <2>2. FileOf[p] \in late \/ bak'[FileOf[p]] = disk[FileOf[p]]
    BY <1>7, Consts DEF BackupDone, TypeOK
  <2>3. disk[FileOf[p]] = pre[FileOf[p]]
    BY <2>1
  <2>4. \A q \in queue : Current(q) => q = p
    BY <1>7, OneCurrent DEF BackupDone, TypeOK, Plans
  <2>5. UNCHANGED <<plan, disk, queue, loaded, exit, runs, options, observers>>
    BY <1>7 DEF BackupDone
  <2> QED BY <2>1, <2>2, <2>3, <2>4, <2>5 DEF Current
<1>8. ASSUME NEW p \in Paths, WriteOpen(p) PROVE RunInv'
  <2>1. /\ Current(p) /\ ~options.dry_run /\ pc' = "writing"
        /\ disk' = [disk EXCEPT ![FileOf[p]] = Torn]
        /\ pc = "copied" \/ (pc = "next" /\ ~options.backup)
        /\ UNCHANGED <<plan, bak, queue, loaded, exit, runs, options, observers>>
    BY <1>8 DEF WriteOpen, ReadyToWrite
  <2>2. \A q \in queue : q # p => disk'[FileOf[q]] = disk[FileOf[q]]
    BY <2>1, Consts DEF Apart, Current, TypeOK, Plans
  <2>3. disk'[FileOf[p]] = Torn
    BY <2>1, Consts DEF Current, TypeOK, Plans
  <2>4. \A q \in queue : Current(q) => q = p
    BY <2>1, OneCurrent DEF TypeOK, Plans
  <2>5. \A q \in queue : disk'[FileOf[q]] = pre[FileOf[q]] \/ Current(q)
    BY <2>1, <2>2
  <2>6. pc \in {"copied", "next"} /\ (options.backup => pc = "copied")
    BY <2>1
  <2> QED BY <2>1, <2>3, <2>4, <2>5, <2>6 DEF Current
<1>9. ASSUME NEW p \in Paths, WriteDone(p) \/ WriteLost(p) PROVE RunInv'
  <2>1. /\ pc = "writing" /\ Current(p)
        /\ queue' = queue \ {p} /\ pc' = "next"
        /\ UNCHANGED <<plan, bak, loaded, exit, runs, options, observers>>
    BY <1>9 DEF WriteDone, WriteLost
  <2>2. \A q \in queue' : disk'[FileOf[q]] = disk[FileOf[q]]
    BY <1>9, <2>1, Consts DEF WriteDone, WriteLost, Apart, Current, TypeOK, Plans
  <2>3. \A q \in queue' : ~Current(q)
    BY <1>9, <2>1, OneCurrent DEF TypeOK, Plans
  <2>4. \A x \in plan.paths \ queue', q \in queue' : x < q
    <3> SUFFICES ASSUME NEW x \in plan.paths \ queue', NEW q \in queue' PROVE x < q
      OBVIOUS
    <3>1. q \in queue /\ q # p /\ p <= q /\ p \in Nat /\ q \in Nat
      BY <2>1, Consts DEF Current, TypeOK, Plans
    <3>2. CASE x \in queue
      BY <2>1, <3>1, <3>2
    <3>3. CASE x \notin queue
      BY <2>1, <3>1, <3>3 DEF RunInv, Active
    <3> QED BY <3>2, <3>3
  <2>5. ~options.dry_run
    BY <2>1
  <2> QED BY <2>1, <2>2, <2>3, <2>4, <2>5
<1>10. CASE Undo
  BY <1>10 DEF Undo
<1>11. ASSUME NEW f \in Files, NEW text \in UserTexts[f], UserSaves(f, text) PROVE RunInv'
  <2>1. /\ disk' = [disk EXCEPT ![f] = text]
        /\ pre' = [pre EXCEPT ![f] = text]
        /\ saved' = saved \cup {f}
        /\ late' = IF TooLate(f) THEN late \cup {f} ELSE late \ {f}
        /\ UNCHANGED <<plan, bak, runs, options, pc, queue, loaded, exit, preBak>>
    BY <1>11 DEF UserSaves
  <2>2. \A g \in Files : /\ disk'[g] = IF g = f THEN text ELSE disk[g]
                         /\ pre'[g] = IF g = f THEN text ELSE pre[g]
    BY <2>1 DEF TypeOK
  <2>3. \A p \in plan.paths : FileOf[p] \in Files
    BY Consts DEF TypeOK, Plans
  <2>4. text # Absent
    BY Consts
  <2>5. Active => \A p \in plan.paths :
                    /\ FileOf[p] \notin saved' => loaded[p] = pre'[FileOf[p]]
                    /\ pre'[FileOf[p]] # Absent
    BY <2>1, <2>2, <2>3, <2>4
  <2>6. Active => \A p \in queue : \/ disk'[FileOf[p]] = pre'[FileOf[p]]
                                   \/ pc = "writing" /\ Current(p)
    BY <2>1, <2>2, <2>3 DEF TypeOK
  <2>7. pc \in {"copied", "writing"} /\ options.backup =>
          \A p \in queue : Current(p) => FileOf[p] \in late' \/ bak[FileOf[p]] = pre'[FileOf[p]]
    BY <2>1, <2>2, <2>3 DEF TypeOK, TooLate
  <2>8. disk = pre => disk' = pre'
    BY <2>1
  <2> QED BY <2>1, <2>5, <2>6, <2>7, <2>8 DEF Current
<1>12. CASE UNCHANGED vars
  BY <1>12 DEF vars, Current
<1> QED BY <1>1, <1>2, <1>3, <1>4, <1>5, <1>6, <1>7, <1>8, <1>9, <1>10, <1>11, <1>12 DEF Next, Step

\* RunInv holds from the start.
LEMMA RunInvHolds ==
  ASSUME Apart
  PROVE  Spec => []RunInv
<1>1. Init => RunInv
  BY DEF Init, RunInv, Active
<1>2. TypeOK /\ RunInv /\ [Next]_vars => RunInv'
  BY RunInvStep
<1> QED BY <1>1, <1>2, TypeCorrect, PTL DEF Spec

-----------------------------------------------------------------------------
\* A backup is overwritten only while the file still holds what the run
\* found there, and a file only when its backup holds it.
LEMMA RecoverableStep ==
  ASSUME Apart, TypeOK, RunInv, Recoverable, [Next]_vars
  PROVE  Recoverable'
<1> USE DEF Recoverable, call, world, observers
<1>1. CASE (\E file \in Plans, d, b \in BOOLEAN : Invoke(file, d, b)) \/ Undo
  BY <1>1, Consts DEF Invoke, Undo
<1>2. CASE UNCHANGED <<plan, options, pre, late, disk, bak>>
  BY <1>2
<1>3. ASSUME NEW p \in Paths, BackupOpen(p) \/ BackupDone(p) PROVE Recoverable'
  <2>1. /\ p \in queue /\ p \in plan.paths
        /\ pc \in {"next", "copying"}
        /\ UNCHANGED <<plan, options, pre, late, disk>>
    BY <1>3 DEF BackupOpen, BackupDone, Current, TypeOK
  <2>2. disk[FileOf[p]] = pre[FileOf[p]]
    BY <2>1 DEF RunInv, Active
  <2>3. \A f \in Files : f # FileOf[p] => bak'[f] = bak[f]
    BY <1>3 DEF BackupOpen, BackupDone, TypeOK
  <2>4. \A q \in plan.paths : FileOf[q] \in Files
    BY Consts DEF TypeOK, Plans
  <2> QED BY <2>1, <2>2, <2>3, <2>4
<1>4. ASSUME NEW p \in Paths, WriteOpen(p) \/ WriteDone(p) \/ WriteLost(p)
      PROVE  Recoverable'
  <2>1. /\ p \in queue /\ Current(p)
        /\ options.backup => pc \in {"copied", "writing"}
        /\ UNCHANGED <<plan, options, pre, late, bak>>
    BY <1>4 DEF WriteOpen, ReadyToWrite, WriteDone, WriteLost, Current
  <2>2. options.backup => FileOf[p] \in late \/ bak[FileOf[p]] = pre[FileOf[p]]
    BY <2>1 DEF RunInv
  <2>3. \A f \in Files : f # FileOf[p] => disk'[f] = disk[f]
    BY <1>4 DEF WriteOpen, WriteDone, WriteLost, TypeOK
  <2>4. \A q \in plan.paths : FileOf[q] \in Files
    BY Consts DEF TypeOK, Plans
  <2> QED BY <2>1, <2>2, <2>3, <2>4
<1>5. ASSUME NEW f \in Files, NEW text \in UserTexts[f], UserSaves(f, text) PROVE Recoverable'
  <2>1. \A q \in plan.paths : FileOf[q] \in Files
    BY Consts DEF TypeOK, Plans
  <2> QED BY <1>5, <2>1 DEF UserSaves, TypeOK
<1>6. \/ \E file \in Plans, d, b \in BOOLEAN : Invoke(file, d, b)
      \/ Undo
      \/ \E f \in Files : \E text \in UserTexts[f] : UserSaves(f, text)
      \/ UNCHANGED <<plan, options, pre, late, disk, bak>>
      \/ \E p \in Paths : \/ BackupOpen(p) \/ BackupDone(p)
                          \/ WriteOpen(p) \/ WriteDone(p) \/ WriteLost(p)
  BY DEF Next, Step, PlanUnreadable, PrepareNothing, PrepareRefused, PrepareAccepted, DryRun,
         BackupFails, WriteOpenFails, WriteFails, Finish, Crash, vars
<1> QED BY <1>1, <1>2, <1>3, <1>4, <1>5, <1>6

\* A run with --backup never loses what a file held, wherever it stops.
THEOREM BackupsRecover ==
  ASSUME Apart
  PROVE  Spec => []Recoverable
<1>1. Init => Recoverable
  BY Consts DEF Init, Recoverable
<1>2. TypeOK /\ RunInv /\ Recoverable /\ [Next]_vars => Recoverable'
  BY RecoverableStep
<1> QED BY <1>1, <1>2, TypeCorrect, RunInvHolds, PTL DEF Spec

-----------------------------------------------------------------------------
\* Only an accepted run that is not dry reaches a step that writes.
LEMMA UntouchedStep ==
  ASSUME TypeOK, RunInv, UntouchedUnlessAccepted, [Next]_vars
  PROVE  UntouchedUnlessAccepted'
<1> USE DEF UntouchedUnlessAccepted, call, world, observers
<1>1. CASE (\E file \in Plans, d, b \in BOOLEAN : Invoke(file, d, b)) \/ Undo
  BY <1>1 DEF Invoke, Undo
<1>2. CASE UNCHANGED <<plan, options, pre, preBak, disk, bak>>
  BY <1>2
<1>3. ASSUME NEW p \in Paths,
             \/ BackupOpen(p) \/ BackupDone(p)
             \/ WriteOpen(p) \/ WriteDone(p) \/ WriteLost(p)
      PROVE  UntouchedUnlessAccepted'
  <2>1. /\ Active
        /\ ~options.dry_run
        /\ UNCHANGED <<plan, options, pre>>
    BY <1>3 DEF BackupOpen, BackupDone, WriteOpen, ReadyToWrite, WriteDone,
                WriteLost, Active, RunInv
  <2> QED BY <2>1 DEF RunInv
<1>4. ASSUME NEW f \in Files, NEW text \in UserTexts[f], UserSaves(f, text)
      PROVE  UntouchedUnlessAccepted'
  <2>1. \A q \in plan.paths : pre'[FileOf[q]] = Absent => pre[FileOf[q]] = Absent
    BY <1>4, Consts DEF UserSaves, TypeOK, Plans
  <2> QED BY <1>4, <2>1 DEF UserSaves
<1>5. \/ \E file \in Plans, d, b \in BOOLEAN : Invoke(file, d, b)
      \/ Undo
      \/ \E f \in Files : \E text \in UserTexts[f] : UserSaves(f, text)
      \/ UNCHANGED <<plan, options, pre, preBak, disk, bak>>
      \/ \E p \in Paths : \/ BackupOpen(p) \/ BackupDone(p)
                          \/ WriteOpen(p) \/ WriteDone(p) \/ WriteLost(p)
  BY DEF Next, Step, PlanUnreadable, PrepareNothing, PrepareRefused, PrepareAccepted, DryRun,
         BackupFails, WriteOpenFails, WriteFails, Finish, Crash, vars
<1> QED BY <1>1, <1>2, <1>3, <1>4, <1>5

\* A refused run and a dry run leave every file and every backup alone.
THEOREM RefusedTouchesNothing ==
  ASSUME Apart
  PROVE  Spec => []UntouchedUnlessAccepted
<1>1. Init => UntouchedUnlessAccepted
  BY DEF Init, UntouchedUnlessAccepted
<1>2. TypeOK /\ RunInv /\ UntouchedUnlessAccepted /\ [Next]_vars
        => UntouchedUnlessAccepted'
  BY UntouchedStep
<1> QED BY <1>1, <1>2, TypeCorrect, RunInvHolds, PTL DEF Spec

-----------------------------------------------------------------------------
\* A path leaves the queue of a writing run only with its new text on disk.
LEMMA WrittenStep ==
  ASSUME Apart, TypeOK, RunInv, WrittenInv, [Next]_vars
  PROVE  WrittenInv'
<1> USE DEF WrittenInv, Active, call, world, observers
<1>1. CASE \/ \E file \in Plans, d, b \in BOOLEAN : Invoke(file, d, b)
           \/ PlanUnreadable \/ PrepareNothing \/ PrepareRefused \/ Finish \/ Crash \/ Undo
  BY <1>1 DEF Invoke, PlanUnreadable, PrepareNothing, PrepareRefused, Finish, Crash, Undo, Exit, RunInv
<1>2. CASE PrepareAccepted
  BY <1>2 DEF PrepareAccepted, RunInv
<1>3. ASSUME NEW p \in Paths,
             \/ DryRun(p) \/ BackupOpen(p) \/ BackupDone(p) \/ BackupFails(p)
             \/ WriteOpenFails(p) \/ WriteFails(p) \/ WriteLost(p)
      PROVE  WrittenInv'
  BY <1>3 DEF DryRun, BackupOpen, BackupDone, BackupFails, WriteOpenFails,
              WriteFails, WriteLost, Exit
<1>4. ASSUME NEW p \in Paths, WriteOpen(p) PROVE WrittenInv'
  <2>1. /\ p \in queue
        /\ disk' = [disk EXCEPT ![FileOf[p]] = Torn]
        /\ pc \in {"next", "copied"}
        /\ UNCHANGED <<plan, queue, options, pre, saved>>
    BY <1>4 DEF WriteOpen, ReadyToWrite, Current
  <2>2. \A q \in plan.paths \ queue : disk'[FileOf[q]] = disk[FileOf[q]]
    BY <2>1, Consts DEF Apart, TypeOK, Plans
  <2> QED BY <2>1, <2>2
<1>5. ASSUME NEW p \in Paths, WriteDone(p) PROVE WrittenInv'
  <2>1. /\ p \in queue /\ p \in plan.paths
        /\ queue' = queue \ {p}
        /\ pc = "writing"
        /\ \E text : disk' = [disk EXCEPT ![FileOf[p]] = text]
        /\ UNCHANGED <<plan, options, pre, saved>>
    BY <1>5 DEF WriteDone, Current, TypeOK
  <2>2. \A q \in plan.paths \ queue : disk'[FileOf[q]] = disk[FileOf[q]]
    BY <2>1, Consts DEF Apart, TypeOK, Plans
  <2>3. FileOf[p] \notin saved => disk[FileOf[p]] = Torn
    BY <1>5, <2>1 DEF RunInv, WriteDone
  <2>4. FileOf[p] \notin saved => disk'[FileOf[p]] = Patched(pre[FileOf[p]])
    BY <1>5, <2>1, <2>3, Consts DEF WriteDone, RunInv, TypeOK
  <2> QED BY <2>1, <2>2, <2>4
<1>6. ASSUME NEW f \in Files, NEW text \in UserTexts[f], UserSaves(f, text) PROVE WrittenInv'
  <2>1. \A p \in plan.paths : FileOf[p] \in Files
    BY Consts DEF TypeOK, Plans
  <2>2. \A g \in Files \ {f} : disk'[g] = disk[g] /\ pre'[g] = pre[g]
    BY <1>6 DEF UserSaves, TypeOK
  <2> QED BY <1>6, <2>1, <2>2 DEF UserSaves
<1>7. CASE UNCHANGED vars
  BY <1>7 DEF vars
<1> QED BY <1>1, <1>2, <1>3, <1>4, <1>5, <1>6, <1>7 DEF Next, Step

\* While a run is under way its queue tells which files it has changed.
LEMMA OrderFromQueue ==
  TypeOK /\ RunInv /\ WrittenInv /\ pc # "idle" => StopsInOrder
<1> SUFFICES ASSUME TypeOK, RunInv, WrittenInv, pc # "idle"
             PROVE  StopsInOrder
  OBVIOUS
<1> USE DEF StopsInOrder
<1>1. CASE pc = "preparing" \/ options.dry_run
  BY <1>1 DEF RunInv
<1>2. CASE Active /\ ~options.dry_run
  <2> SUFFICES ASSUME NEW p \in plan.paths, NEW q \in plan.paths, p < q,
                      disk[FileOf[q]] # pre[FileOf[q]], FileOf[p] \notin Lossy \cup saved
               PROVE  disk[FileOf[p]] = Patched(pre[FileOf[p]])
    OBVIOUS
  <2>1. p \in Nat /\ q \in Nat
    BY Consts DEF TypeOK, Plans
  <2>2. q \notin queue \/ Current(q)
    BY <1>2 DEF RunInv
  <2>3. p \notin queue
    BY <1>2, <2>1, <2>2 DEF Current, RunInv
  <2> QED BY <1>2, <2>3 DEF WrittenInv
<1> QED BY <1>1, <1>2 DEF Active, TypeOK, Steps

\* Wherever it stops, a run leaves a prefix of its files new and the rest,
\* but for one, as they were.
THEOREM RunsStopInOrder ==
  ASSUME Apart
  PROVE  Spec => []StopsInOrder
<1> DEFINE Stopped == pc = "idle" => StopsInOrder
<1>1. Init => WrittenInv /\ Stopped
  BY DEF Init, WrittenInv, Active, StopsInOrder
<1>2. TypeOK /\ RunInv /\ WrittenInv /\ Stopped /\ [Next]_vars
        => WrittenInv' /\ Stopped'
  <2> SUFFICES ASSUME TypeOK, RunInv, WrittenInv, Stopped, [Next]_vars, pc' = "idle"
               PROVE  StopsInOrder'
    BY WrittenStep
  <2>1. \/ disk' = pre'
        \/ UNCHANGED <<plan, disk, pre, saved>>
        \/ \E f \in Files : \E text \in UserTexts[f] : UserSaves(f, text)
    BY DEF Next, Step, Invoke, PlanUnreadable, PrepareNothing, PrepareRefused, PrepareAccepted,
         DryRun, BackupOpen, BackupDone, BackupFails, WriteOpen, WriteDone, WriteLost,
         WriteOpenFails, WriteFails, Finish, Crash, Undo, vars, call, world, observers, Exit
  <2>2. StopsInOrder
    BY OrderFromQueue
  <2>3. CASE disk' = pre'
    BY <2>3 DEF StopsInOrder
  <2>4. CASE UNCHANGED <<plan, disk, pre, saved>>
    BY <2>2, <2>4 DEF StopsInOrder, Patched
  <2>5. ASSUME NEW f \in Files, NEW text \in UserTexts[f], UserSaves(f, text)
        PROVE  StopsInOrder'
    <3>1. \A p \in plan.paths : FileOf[p] \in Files
      BY Consts DEF TypeOK, Plans
    <3>2. \A g \in Files : /\ disk'[g] = IF g = f THEN text ELSE disk[g]
                           /\ pre'[g] = IF g = f THEN text ELSE pre[g]
      BY <2>5 DEF UserSaves, TypeOK
    <3>3. plan' = plan /\ saved' = saved \cup {f}
      BY <2>5 DEF UserSaves
    <3> QED BY <2>2, <3>1, <3>2, <3>3 DEF StopsInOrder, Patched
  <2> QED BY <2>1, <2>3, <2>4, <2>5
<1>3. TypeOK /\ RunInv /\ WrittenInv /\ Stopped => StopsInOrder
  BY OrderFromQueue
<1> HIDE DEF Stopped
<1> QED BY <1>1, <1>2, <1>3, TypeCorrect, RunInvHolds, PTL DEF Spec

\* Exit code 0 means that the plan was applied to every file where write
\* errors are seen.
THEOREM ExitCodeIsHonest ==
  ASSUME Apart
  PROVE  Spec => []ExitZeroMeansApplied
<1>1. Init => WrittenInv /\ ExitZeroMeansApplied
  BY DEF Init, WrittenInv, Active, ExitZeroMeansApplied, NoExit
<1>2. TypeOK /\ RunInv /\ WrittenInv /\ ExitZeroMeansApplied /\ [Next]_vars
        => WrittenInv' /\ ExitZeroMeansApplied'
  <2> SUFFICES ASSUME TypeOK, RunInv, WrittenInv, ExitZeroMeansApplied, [Next]_vars
               PROVE  ExitZeroMeansApplied'
    BY WrittenStep
  <2> USE DEF ExitZeroMeansApplied, NoExit, call, world, observers, Exit
  <2>1. CASE Finish
    BY <2>1 DEF Finish, WrittenInv, Active
  <2>2. CASE PrepareNothing
    BY <2>2 DEF PrepareNothing
  <2>3. CASE exit' # 0
    BY <2>3
  <2>4. CASE UNCHANGED <<plan, options, exit, pre, saved, disk>>
    BY <2>4 DEF Patched
  <2>5. ASSUME NEW f \in Files, NEW text \in UserTexts[f], UserSaves(f, text)
        PROVE  ExitZeroMeansApplied'
    <3>1. \A p \in plan.paths : FileOf[p] \in Files
      BY Consts DEF TypeOK, Plans
    <3>2. \A g \in Files : /\ disk'[g] = IF g = f THEN text ELSE disk[g]
                           /\ pre'[g] = IF g = f THEN text ELSE pre[g]
      BY <2>5 DEF UserSaves, TypeOK
    <3>3. UNCHANGED <<plan, options, exit>> /\ saved' = saved \cup {f}
      BY <2>5 DEF UserSaves
    <3> QED BY <3>1, <3>2, <3>3 DEF Patched
  <2>6. \/ Finish \/ PrepareNothing
        \/ exit' # 0
        \/ \E f \in Files : \E text \in UserTexts[f] : UserSaves(f, text)
        \/ UNCHANGED <<plan, options, exit, pre, saved, disk>>
    BY DEF Next, Step, Invoke, PlanUnreadable, PrepareRefused, PrepareAccepted, DryRun, BackupOpen,
           BackupDone, BackupFails, WriteOpen, ReadyToWrite, WriteDone, WriteLost,
           WriteOpenFails, WriteFails, Crash, Undo, vars, RunInv
  <2> QED BY <2>1, <2>2, <2>3, <2>4, <2>5, <2>6
<1> QED BY <1>1, <1>2, TypeCorrect, RunInvHolds, PTL DEF Spec

-----------------------------------------------------------------------------
(* moult plan and moult slice around it *)

\* What moult apply does beside moult plan and moult slice is what it does alone.
THEOREM WritersKeepOut == WriteSpec => Spec
<1>1. WriteInit => Init
  BY DEF WriteInit
<1>2. [WriteNext]_<<vars, writing>> => [Next]_vars
  <2> SUFFICES ASSUME [WriteNext]_<<vars, writing>> PROVE [Next]_vars
    OBVIOUS
  <2>1. ASSUME NEW file \in Plans, NEW d \in BOOLEAN, NEW b \in BOOLEAN, InvokeWith(file, d, b) PROVE Next
    BY <2>1 DEF InvokeWith, Next
  <2>2. CASE PlanOrSlice
    BY <2>2 DEF PlanOrSlice, PlanWrites, NoDirectory, OutputOpens, OutputWritten, OutputRefused,
                OutputBreaks, OutputLost, Onward, PlanEnds, Killed, SliceOpens, SliceWritten
  <2>3. CASE Step
    BY <2>3 DEF Next
  <2> QED BY <2>1, <2>2, <2>3 DEF WriteNext
<1> QED BY <1>1, <1>2, PTL DEF WriteSpec, Spec

\* An output is the whole one of the run that moult plan is in, or was in last.
Whole(o) == o \in LossyOutputs \/ (outputs[o].part = "whole" /\ outputs[o].by = Len(made))

\* As long as nothing went wrong, every output before the next one is whole.
OutputsInv ==
  /\ DOMAIN outputs = ToSet(Outputs) /\ at \in Nat \ {0}
  /\ step \in {"idle", "next", "open", "slicing"} /\ told \in {0, 1, NoExit}
  /\ step # "idle" => told = NoExit
  /\ step = "open" => at <= Len(Outputs)
  /\ step \in {"next", "open"} /\ ok => \A n \in 1..(at - 1) : n <= Len(Outputs) => Whole(Outputs[n])
  /\ told = 0 => ~HasErrors(Last(made)) /\ \A o \in ToSet(Outputs) : Whole(o)

\* The outputs have places, each a name of its own.
LEMMA OutputPlaces ==
  /\ Len(Outputs) \in Nat /\ DOMAIN Outputs = 1..Len(Outputs)
  /\ ToSet(Outputs) = {Outputs[n] : n \in 1..Len(Outputs)}
BY OutputsAssumption, LenProperties DEF ToSet

\* Writing one output leaves the others whole.
LEMMA PutLeaves ==
  ASSUME OutputsInv, step \in {"next", "open"}, at <= Len(Outputs), NEW part, Put(part), UNCHANGED made
  PROVE  /\ DOMAIN outputs' = ToSet(Outputs)
         /\ outputs'[Outputs[at]] = Output(part, Len(made), "plan")
         /\ ok => \A n \in 1..(at - 1) : Whole(Outputs[n])'
<1>1. at \in DOMAIN Outputs /\ Outputs[at] \in DOMAIN outputs
  BY OutputPlaces DEF OutputsInv
<1>2. ASSUME ok, NEW n \in 1..(at - 1) PROVE Whole(Outputs[n])'
  <2>1. n \in DOMAIN Outputs /\ n # at /\ Whole(Outputs[n])
    BY <1>1, <1>2, OutputPlaces DEF OutputsInv
  <2>2. Outputs[n] # Outputs[at]
    BY <1>1, <2>1, OutputsAssumption
  <2>3. outputs'[Outputs[n]] = outputs[Outputs[n]]
    BY <1>1, <2>1, <2>2, OutputPlaces DEF Put, OutputsInv
  <2> QED BY <2>1, <2>3 DEF Whole
<1> QED BY <1>1, <1>2 DEF Put, OutputsInv

\* Every step of moult plan, slice and apply keeps the outputs whole that were.
LEMMA OutputsStep == OutputsInv /\ [WriteNext]_<<vars, writing>> => OutputsInv'
<1> SUFFICES ASSUME OutputsInv, [WriteNext]_<<vars, writing>> PROVE OutputsInv'
  OBVIOUS
<1>1. CASE UNCHANGED writing
  BY <1>1 DEF OutputsInv, Whole, writing
<1>2. ASSUME NEW file \in Plans, NEW d \in BOOLEAN, NEW b \in BOOLEAN, InvokeWith(file, d, b) PROVE OutputsInv'
  BY <1>2 DEF InvokeWith, OutputsInv, Whole, NoExit
<1>3. ASSUME NEW m \in Made, PlanWrites(m) PROVE OutputsInv'
  BY <1>3 DEF PlanWrites, OutputsInv, NoExit
<1>4. ASSUME NEW m \in Made, NoDirectory(m) PROVE OutputsInv'
  BY <1>4 DEF NoDirectory, OutputsInv
<1>5. CASE OutputOpens
  <2>1. /\ step = "next" /\ step' = "open" /\ at <= Len(Outputs) /\ Put("torn")
        /\ UNCHANGED <<made, at, ok, told>>
    BY <1>5 DEF OutputOpens
  <2>2. /\ DOMAIN outputs' = ToSet(Outputs)
        /\ ok => \A n \in 1..(at - 1) : Whole(Outputs[n])'
    BY <2>1, PutLeaves
  <2>3. told = NoExit
    BY <2>1 DEF OutputsInv
  <2> QED BY <2>1, <2>2, <2>3 DEF OutputsInv, NoExit
<1>6. CASE OutputWritten
  <2>1. /\ step = "open" /\ step' = "next" /\ at' = at + 1 /\ Put("whole") /\ ok' = (ok /\ TRUE)
        /\ UNCHANGED <<made, told>>
    BY <1>6 DEF OutputWritten, Onward
  <2>2. /\ at \in Nat \ {0} /\ at <= Len(Outputs) /\ told = NoExit
    BY <2>1 DEF OutputsInv
  <2>3. /\ DOMAIN outputs' = ToSet(Outputs)
        /\ outputs'[Outputs[at]] = Output("whole", Len(made), "plan")
        /\ ok => \A n \in 1..(at - 1) : Whole(Outputs[n])'
    BY <2>1, <2>2, PutLeaves
  <2>4. \A n \in 1..Len(Outputs) : n = at => Whole(Outputs[n])'
    BY <2>1, <2>3 DEF Whole, Output
  <2>5. ok' => \A n \in 1..(at' - 1) : Whole(Outputs[n])'
    <3>1. ASSUME ok', NEW n \in 1..(at' - 1) PROVE Whole(Outputs[n])'
      <4>1. CASE n = at
        BY <2>2, <2>4, <4>1
      <4>2. CASE n # at
        <5>1. n \in 1..(at - 1)
          BY <2>1, <2>2, <3>1, <4>2
        <5>2. ok
          BY <2>1, <3>1
        <5> QED BY <2>3, <5>1, <5>2
      <4> QED BY <4>1, <4>2
    <3> QED BY <3>1
  <2> QED BY <2>1, <2>2, <2>3, <2>5 DEF OutputsInv, NoExit
<1>7. CASE OutputRefused \/ OutputBreaks
  <2>1. /\ step \in {"next", "open"} /\ step' = "next" /\ at' = at + 1 /\ ok' = (ok /\ FALSE)
        /\ UNCHANGED <<made, outputs, told>>
    BY <1>7 DEF OutputRefused, OutputBreaks, Onward
  <2>2. /\ DOMAIN outputs' = ToSet(Outputs) /\ at' \in Nat \ {0} /\ told' = NoExit
        /\ step' \in {"idle", "next", "open", "slicing"} /\ step' # "open"
    BY <2>1 DEF OutputsInv
  <2>3. step' \in {"next", "open"} /\ ok' => \A n \in 1..(at' - 1) : n <= Len(Outputs) => Whole(Outputs[n])'
    BY <2>1
  <2>4. told' = 0 => ~HasErrors(Last(made))' /\ \A o \in ToSet(Outputs) : Whole(o)'
    BY <2>2 DEF NoExit
  <2> QED BY <2>2, <2>3, <2>4 DEF OutputsInv
<1>8. CASE OutputLost
  <2>1. /\ step = "open" /\ step' = "next" /\ at' = at + 1 /\ ok' = (ok /\ TRUE)
        /\ Outputs[at] \in LossyOutputs /\ UNCHANGED <<made, outputs, told>>
    BY <1>8 DEF OutputLost, Onward
  <2>2. /\ at \in Nat \ {0} /\ at <= Len(Outputs) /\ told = NoExit
        /\ ok => \A n \in 1..(at - 1) : n <= Len(Outputs) => Whole(Outputs[n])
    BY <2>1 DEF OutputsInv
  <2>3. \A o \in ToSet(Outputs) : Whole(o)' <=> Whole(o)
    BY <2>1 DEF Whole
  <2>4. ok' => \A n \in 1..(at' - 1) : n <= Len(Outputs) => Whole(Outputs[n])'
    <3>1. ASSUME ok', NEW n \in 1..(at' - 1), n <= Len(Outputs) PROVE Whole(Outputs[n])'
      <4>1. CASE n = at
        BY <2>1, <4>1 DEF Whole
      <4>2. CASE n # at
        <5>1. n \in 1..(at - 1)
          BY <2>1, <2>2, <3>1, <4>2
        <5>2. ok
          BY <2>1, <3>1
        <5> QED BY <2>1, <2>2, <3>1, <5>1, <5>2 DEF Whole
      <4> QED BY <4>1, <4>2
    <3> QED BY <3>1
  <2> QED BY <2>1, <2>2, <2>4 DEF OutputsInv, NoExit
<1>9. CASE PlanEnds
  <2>1. /\ step = "next" /\ at > Len(Outputs) /\ told' = ExitCode
        /\ step' = "idle" /\ at' = 1 /\ UNCHANGED <<made, outputs>>
    BY <1>9 DEF PlanEnds
  <2>2. ASSUME told' = 0 PROVE ~HasErrors(Last(made)) /\ \A o \in ToSet(Outputs) : Whole(o)
    <3>1. ok /\ ~HasErrors(Last(made))
      BY <2>1, <2>2 DEF ExitCode
    <3>2. \A n \in 1..Len(Outputs) : Whole(Outputs[n])
      BY <2>1, <3>1, OutputPlaces DEF OutputsInv
    <3> QED BY <3>1, <3>2, OutputPlaces
  <2>3. (\A o \in ToSet(Outputs) : Whole(o)) => \A o \in ToSet(Outputs) : Whole(o)'
    BY <2>1 DEF Whole
  <2>4. told' \in {0, 1}
    BY <2>1 DEF ExitCode
  <2> QED BY <2>1, <2>2, <2>3, <2>4 DEF OutputsInv
<1>10. CASE Killed
  BY <1>10 DEF Killed, OutputsInv, Whole, NoExit
<1>11. CASE SliceOpens
  BY <1>11 DEF SliceOpens, OutputsInv, NoExit
<1>12. CASE SliceWritten
  BY <1>12 DEF SliceWritten, OutputsInv, NoExit
<1> QED BY <1>1, <1>2, <1>3, <1>4, <1>5, <1>6, <1>7, <1>8, <1>9, <1>10, <1>11, <1>12 DEF WriteNext, PlanOrSlice

(* Once moult plan has said with exit code 0 that it went well, the plan   *)
(* has no errors and each of its outputs is the whole one of that run,     *)
(* except where write errors stay hidden, whatever earlier runs and crashes*)
(* left and however many outputs there are.                                *)
THEOREM PlanExitCodeIsHonest == WriteSpec => []ExitZeroMeansWritten
<1>1. WriteInit => OutputsInv
  BY DEF WriteInit, OutputsInv, NoExit
<1>2. OutputsInv => ExitZeroMeansWritten
  BY DEF OutputsInv, ExitZeroMeansWritten, Whole
<1> QED BY <1>1, <1>2, OutputsStep, PTL DEF WriteSpec
=============================================================================
