-------------------------- MODULE ApplyEditsProofs --------------------------
(***************************************************************************)
(* Why the descending order is safe, for every text and every set of       *)
(* accepted edits in which no two edits of a file begin at one offset: a   *)
(* splice leaves everything before its range alone, and whatever comes     *)
(* later ends there.  MCApplyTiedShift shows that the assumption is needed.*)
(***************************************************************************)
EXTENDS ApplyEdits, SubstitutionProofs

\* No two edits of one file begin at the same offset.
Untied ==
  \A S \in EditSets : \A a, b \in S :
    a # b /\ a.file = b.file => a.begin # b.begin

-----------------------------------------------------------------------------
\* A splice keeps the bytes before its range and is a text again.
LEMMA SpliceKeepsPrefix ==
  ASSUME NEW t \in Seq(Bytes), NEW b \in Nat, NEW n \in Nat, b <= n, n <= Len(t),
         NEW e, e.begin = b, e.end = n, e.replacement \in Seq(Bytes)
  PROVE  /\ Splice(t, e) \in Seq(Bytes)
         /\ \A i \in 1..b : i \in DOMAIN Splice(t, e) /\ Splice(t, e)[i] = t[i]
<1> DEFINE p == SubSeq(t, 1, b)
           r == e.replacement
           q == SubSeq(t, n + 1, Len(t))
<1>1. p \in Seq(Bytes) /\ Len(p) = b /\ \A i \in 1..b : p[i] = t[i]
  OBVIOUS
<1>2. q \in Seq(Bytes)
  OBVIOUS
<1> HIDE DEF p, q
<1>3. p \o r \in Seq(Bytes) /\ Len(p \o r) = b + Len(r)
      /\ \A i \in 1..b : (p \o r)[i] = p[i]
  BY <1>1
<1>4. (p \o r) \o q \in Seq(Bytes)
      /\ \A i \in 1..b : /\ i \in DOMAIN ((p \o r) \o q)
                         /\ ((p \o r) \o q)[i] = (p \o r)[i]
  BY <1>2, <1>3
<1>5. Splice(t, e) = (p \o r) \o q
  BY DEF Splice, p, q
<1> QED BY <1>1, <1>3, <1>4, <1>5

-----------------------------------------------------------------------------
\* Facts about the constants that every step needs.
LEMMA EditFacts ==
  ASSUME NEW S \in EditSets, NEW e \in S
  PROVE  /\ e.file \in Files /\ e.file \in Nat
         /\ e.begin \in Nat /\ e.end \in Nat /\ e.begin <= e.end
         /\ e.replacement \in Seq(Bytes)
BY ApplyAssumption DEF EditsOver

\* Every variable keeps its type, and no file is visited twice.
THEOREM TypeCorrect == Spec => []TypeOK
<1>1. Init => TypeOK
  BY EditFacts DEF Init, TypeOK, Phases
<1>2. TypeOK /\ [Next]_vars => TypeOK'
  <2> SUFFICES ASSUME TypeOK, [Next]_vars PROVE TypeOK'
    OBVIOUS
  <2> USE DEF TypeOK, Phases
  <2>1. CASE Enter
    BY <2>1 DEF Enter
  <2>2. CASE Visit
    <3>1. PICK f \in pending :
            IF f \in DOMAIN Text
              THEN /\ phase' = "editing"
                   /\ file' = f
                   /\ text' = Text[f]
                   /\ todo' = EditsOf(f)
                   /\ pending' = pending \ {f}
              ELSE /\ Throw
                   /\ UNCHANGED <<pending, file, todo, text>>
      BY <2>2 DEF Visit
    <3>2. UNCHANGED <<edits, conflicted, result>>
      BY <2>2 DEF Visit
    <3>3. CASE f \in DOMAIN Text
      BY <3>1, <3>2, <3>3, ApplyAssumption DEF EditsOf
    <3>4. CASE f \notin DOMAIN Text
      BY <3>1, <3>2, <3>4 DEF Throw
    <3> QED BY <3>3, <3>4
  <2>3. CASE ApplyOne
    <3>1. PICK e \in todo :
            IF InBounds(e)
              THEN text' = Splice(text, e) /\ todo' = todo \ {e} /\ UNCHANGED phase
              ELSE Throw /\ UNCHANGED <<text, todo>>
      BY <2>3 DEF ApplyOne
    <3>2. InBounds(e) => Splice(text, e) \in Seq(Bytes)
      BY EditFacts, SpliceKeepsPrefix DEF InBounds
    <3> QED BY <2>3, <3>1, <3>2 DEF ApplyOne, Throw
  <2>4. CASE FinishFile
    BY <2>4 DEF FinishFile
  <2>5. CASE Return
    BY <2>5 DEF Return
  <2>6. CASE UNCHANGED vars
    BY <2>6 DEF vars
  <2> QED BY <2>1, <2>2, <2>3, <2>4, <2>5, <2>6 DEF Next
<1> QED BY <1>1, <1>2, PTL DEF Spec

-----------------------------------------------------------------------------
\* Of two accepted edits of one file, the one that begins first ends before
\* the other begins.
LEMMA EarlierEndsBefore ==
  ASSUME Untied, NEW S \in EditSets, NEW d \in S, NEW e \in S,
         d # e, d.file = e.file, d.begin <= e.begin
  PROVE  d.end <= e.begin /\ d.begin < e.begin
<1>1. d.begin # e.begin
  BY DEF Untied
<1>2. ~Overlap(d, e)
  BY ApplyAssumption DEF Acceptable
<1>3. /\ d.begin \in Nat /\ d.end \in Nat /\ d.begin <= d.end
      /\ e.begin \in Nat /\ e.end \in Nat /\ e.begin <= e.end
  BY EditFacts
<1> QED BY <1>1, <1>2, <1>3 DEF Overlap

\* The step at the heart of the claim: a splice disturbs no range that is
\* still to be edited.
LEMMA UnshiftedStep ==
  ASSUME Untied, TypeOK, LaterRangesUnshifted, [Next]_vars
  PROVE  LaterRangesUnshifted'
<1> USE DEF LaterRangesUnshifted
<1>1. CASE Visit
  <2>1. phase' = "editing" => text' = Text[file']
    BY <1>1 DEF Visit, Throw
  <2>2. phase' = "editing" => file' \in DOMAIN Text
    BY <1>1 DEF Visit, Throw
  <2> QED BY <2>1, <2>2
<1>2. CASE ApplyOne
  <2>1. PICK e \in todo :
          /\ DescendingNext(e)
          /\ IF InBounds(e)
               THEN text' = Splice(text, e) /\ todo' = todo \ {e} /\ UNCHANGED phase
               ELSE Throw /\ UNCHANGED <<text, todo>>
    BY <1>2 DEF ApplyOne
  <2>2. phase = "editing" /\ UNCHANGED <<edits, file>>
    BY <1>2 DEF ApplyOne
  <2>3. CASE InBounds(e)
    <3> SUFFICES ASSUME NEW d \in todo', NEW i \in 1..d.end, i \in DOMAIN Text[file]
                 PROVE  i \in DOMAIN text' /\ text'[i] = Text[file][i]
      BY <2>2
    <3>1. d \in todo /\ d # e
      BY <2>1, <2>3
    <3>2. d.end <= e.begin
      BY <2>1, <3>1, EarlierEndsBefore DEF TypeOK, DescendingNext
    <3>3. /\ d.end \in Nat /\ e.begin \in Nat /\ e.end \in Nat
          /\ e.begin <= e.end /\ e.end <= Len(text)
          /\ e.replacement \in Seq(Bytes) /\ text \in Seq(Bytes)
      BY <2>3, <3>1, EditFacts DEF TypeOK, InBounds
    <3>4. i \in 1..e.begin
      BY <3>2, <3>3
    <3>5. i \in DOMAIN Splice(text, e) /\ Splice(text, e)[i] = text[i]
      BY <3>3, <3>4, SpliceKeepsPrefix
    <3>6. text[i] = Text[file][i]
      BY <2>2, <3>1
    <3> QED BY <2>1, <2>3, <3>5, <3>6
  <2>4. CASE ~InBounds(e)
    BY <2>1, <2>4 DEF Throw
  <2> QED BY <2>3, <2>4
<1>3. CASE Enter
  BY <1>3 DEF Enter
<1>4. CASE FinishFile
  BY <1>4 DEF FinishFile
<1>5. CASE Return
  BY <1>5 DEF Return
<1>6. CASE UNCHANGED vars
  BY <1>6 DEF vars
<1> QED BY <1>1, <1>2, <1>3, <1>4, <1>5, <1>6 DEF Next

\* "... which prevents earlier edits from shifting later ranges": true of
\* every plan in which no two edits of a file begin at the same offset.
THEOREM DescendingOrderIsSafe ==
  ASSUME Untied
  PROVE  Spec => []LaterRangesUnshifted
<1>1. Init => LaterRangesUnshifted
  BY DEF Init, LaterRangesUnshifted
<1>2. TypeOK /\ LaterRangesUnshifted /\ [Next]_vars => LaterRangesUnshifted'
  BY UnshiftedStep
<1> QED BY <1>1, <1>2, TypeCorrect, PTL DEF Spec

-----------------------------------------------------------------------------
\* The range of e lies in the text its file came with.
InFile(e) == e.file \in DOMAIN Text /\ e.end <= Len(Text[e.file])

\* The edits of the current file that have been applied.
Applied == {e \in edits : e.file = file} \ todo

(* What has been looked at was in range: files left behind, and the edits  *)
(* applied to the current one, which all begin after those still to come.  *)
Progress ==
  /\ phase = "called" => pending = {e.file : e \in edits}
  /\ phase \in {"visiting", "editing", "returned"} =>
       /\ ~conflicted
       /\ \A e \in edits :
            e.file \in pending \/ (phase = "editing" /\ e.file = file) \/ InFile(e)
  /\ phase = "editing" =>
       /\ \A d \in Applied : InFile(d) /\ \A e \in todo : e.begin < d.begin
       /\ Applied = {} => text = Text[file]
  /\ phase = "returned" => pending = {}
  /\ phase = "threw" => ~Appliable

\* With the ranges ahead unshifted, the check against the running text
\* decides as a check against the file's own text would.
LEMMA BoundsCheckExact ==
  ASSUME Untied, TypeOK, LaterRangesUnshifted, Progress, phase = "editing",
         NEW e \in todo
  PROVE  InBounds(e) <=> InFile(e)
<1>1. /\ e \in edits /\ e.file = file /\ file \in DOMAIN Text
      /\ text \in Seq(Bytes) /\ Text[file] \in Seq(Bytes)
      /\ e.begin \in Nat /\ e.end \in Nat /\ e.begin <= e.end
  BY EditFacts, ApplyAssumption DEF TypeOK
<1>2. ASSUME InFile(e) PROVE InBounds(e)
  <2>1. CASE e.end = 0
    BY <1>1, <2>1 DEF InBounds
  <2>2. CASE e.end # 0
    <3>1. e.end \in 1..e.end /\ e.end \in DOMAIN Text[file]
      BY <1>1, <1>2, <2>2 DEF InFile
    <3>2. e.end \in DOMAIN text
      BY <3>1 DEF LaterRangesUnshifted
    <3> QED BY <1>1, <3>2 DEF InBounds
  <2> QED BY <2>1, <2>2
<1>3. ASSUME InBounds(e) PROVE InFile(e)
  <2>1. CASE Applied = {}
    BY <1>1, <1>3, <2>1 DEF Progress, InBounds, InFile
  <2>2. CASE Applied # {}
    <3>1. PICK d \in Applied : InFile(d) /\ e.begin < d.begin
      BY <2>2 DEF Progress
    <3>2. d \in edits /\ d # e /\ d.file = e.file
      BY <1>1, <3>1 DEF Applied
    <3>3. d.begin \in Nat /\ d.end \in Nat /\ d.begin <= d.end
      BY <3>2, EditFacts DEF TypeOK
    <3>4. e.end <= d.begin
      BY <1>1, <3>1, <3>2, <3>3, EarlierEndsBefore DEF TypeOK
    <3>5. d.end <= Len(Text[file]) /\ Len(Text[file]) \in Nat
      BY <1>1, <3>1, <3>2 DEF InFile
    <3> QED BY <1>1, <3>3, <3>4, <3>5 DEF InFile
  <2> QED BY <2>1, <2>2
<1> QED BY <1>2, <1>3

\* Every step keeps what the loop knows of what it has done and has still to do.
LEMMA ProgressStep ==
  ASSUME Untied, TypeOK, LaterRangesUnshifted, Progress, [Next]_vars
  PROVE  Progress'
<1>1. CASE Enter
  BY <1>1 DEF Enter, Progress, Appliable, InFile
<1>2. CASE Visit
  <2>1. PICK f \in pending :
          IF f \in DOMAIN Text
            THEN /\ phase' = "editing"
                 /\ file' = f
                 /\ text' = Text[f]
                 /\ todo' = EditsOf(f)
                 /\ pending' = pending \ {f}
            ELSE /\ Throw
                 /\ UNCHANGED <<pending, file, todo, text>>
    BY <1>2 DEF Visit
  <2>2. phase = "visiting" /\ UNCHANGED <<edits, conflicted, result>>
    BY <1>2 DEF Visit
  <2>3. CASE f \in DOMAIN Text
    <3>1. Applied' = {}
      BY <2>1, <2>2, <2>3 DEF Applied, EditsOf
    <3> QED BY <2>1, <2>2, <2>3, <3>1 DEF Progress, InFile
  <2>4. CASE f \notin DOMAIN Text
    <3>1. PICK e \in edits : e.file = f
      BY DEF TypeOK
    <3>2. ~Appliable
      BY <2>4, <3>1 DEF Appliable
    <3> QED BY <2>1, <2>2, <2>4, <3>2 DEF Progress, Throw, Appliable
  <2> QED BY <2>3, <2>4
<1>3. CASE ApplyOne
  <2>1. PICK e \in todo :
          /\ DescendingNext(e)
          /\ IF InBounds(e)
               THEN text' = Splice(text, e) /\ todo' = todo \ {e} /\ UNCHANGED phase
               ELSE Throw /\ UNCHANGED <<text, todo>>
    BY <1>3 DEF ApplyOne
  <2>2. phase = "editing" /\ UNCHANGED <<edits, conflicted, pending, file, result>>
    BY <1>3 DEF ApplyOne
  <2>3. e \in edits /\ e.file = file
    BY DEF TypeOK
  <2>4. InBounds(e) <=> InFile(e)
    BY <2>2, BoundsCheckExact
  <2>5. CASE InBounds(e)
    <3>1. Applied' = Applied \cup {e}
      BY <2>1, <2>2, <2>3, <2>5 DEF Applied
    <3>2. ASSUME NEW d \in todo' PROVE d.begin < e.begin
      <4>1. d \in todo /\ d # e
        BY <2>1, <2>5
      <4>2. d.file = e.file /\ d \in edits /\ d.begin <= e.begin
        BY <2>1, <4>1 DEF DescendingNext, TypeOK
      <4> QED BY <2>3, <4>1, <4>2, EarlierEndsBefore DEF TypeOK
    <3>3. todo' \subseteq todo
      BY <2>1, <2>5
    <3>4. \A d \in Applied' : InFile(d)' /\ \A c \in todo' : c.begin < d.begin
      BY <2>2, <2>4, <2>5, <3>1, <3>2, <3>3 DEF Progress, InFile
    <3> QED BY <2>1, <2>2, <2>5, <3>1, <3>4 DEF Progress, InFile
  <2>6. CASE ~InBounds(e)
    <3>1. ~Appliable
      BY <2>3, <2>4, <2>6 DEF Appliable, InFile
    <3> QED BY <2>1, <2>2, <2>6, <3>1 DEF Progress, Throw, Appliable
  <2> QED BY <2>5, <2>6
<1>4. CASE FinishFile
  <2>1. \A e \in edits : e.file = file => InFile(e)
    BY <1>4 DEF FinishFile, Progress, Applied
  <2> QED BY <1>4, <2>1 DEF FinishFile, Progress, InFile
<1>5. CASE Return
  BY <1>5 DEF Return, Progress, InFile
<1>6. CASE UNCHANGED vars
  BY <1>6 DEF vars, Progress, Applied, InFile, Appliable
<1> QED BY <1>1, <1>2, <1>3, <1>4, <1>5, <1>6 DEF Next

\* The call throws exactly when it should: on recorded conflicts, on a
\* missing file and on a range outside the file's own text.
THEOREM ThrowsWhenItShould ==
  ASSUME Untied
  PROVE  Spec => []ThrowsExactly
<1>1. Init => Progress /\ LaterRangesUnshifted
  BY DEF Init, Progress, LaterRangesUnshifted
<1>2. TypeOK /\ LaterRangesUnshifted /\ Progress /\ [Next]_vars
        => LaterRangesUnshifted' /\ Progress'
  BY UnshiftedStep, ProgressStep
<1>3. Progress => ThrowsExactly
  BY DEF Progress, ThrowsExactly, Appliable, InFile
<1> QED BY <1>1, <1>2, <1>3, TypeCorrect, PTL DEF Spec

-----------------------------------------------------------------------------
\* The files with edits that are behind.
Finished == {e.file : e \in edits} \ (pending \cup {f \in {file} : phase = "editing"})

(* The text at hand is what the edits made so far mean, and a file that is *)
(* finished has the text that all its edits mean.  The descending order is *)
(* what makes the next splice one more edit in front of those (SpliceOne). *)
MeansApplied ==
  /\ phase = "editing" => /\ text = Substitute(Text[file], Applied)
                          /\ \E e \in edits : e.file = file
  /\ phase # "threw" => DOMAIN result = Finished
  /\ \A f \in DOMAIN result : result[f] = Substituted(f)

\* One splice more is one edit more.
LEMMA ApplyOneMeans ==
  ASSUME Untied, TypeOK, LaterRangesUnshifted, Progress, phase = "editing",
         text = Substitute(Text[file], Applied),
         NEW e \in todo, DescendingNext(e), InBounds(e)
  PROVE  Splice(text, e) = Substitute(Text[file], Applied \cup {e})
<1>1. /\ e \in edits /\ e.file = file /\ edits \in EditSets
      /\ Text[file] \in Seq(Bytes)
      /\ e.begin \in Nat /\ e.end \in Nat /\ e.begin <= e.end /\ e.replacement \in Seq(Bytes)
  BY EditFacts, ApplyAssumption DEF TypeOK
<1>2. e.end \in 0..Len(Text[file])
  <2>1. InFile(e)
    BY BoundsCheckExact
  <2> QED BY <1>1, <2>1 DEF InFile
<1>3. Behind(Bytes, Applied, e)
  <2> SUFFICES ASSUME NEW d \in Applied
               PROVE  /\ d.begin \in Nat /\ d.end \in Nat /\ d.replacement \in Seq(Bytes)
                      /\ d.begin > e.begin /\ d.begin >= e.end /\ d.begin <= d.end
    BY DEF Behind
  <2>1. d \in edits /\ d.file = file /\ d # e
    BY DEF Applied
  <2>2. /\ d.begin \in Nat /\ d.end \in Nat /\ d.begin <= d.end
        /\ d.replacement \in Seq(Bytes)
    BY <1>1, <2>1, EditFacts
  <2>3. e.begin < d.begin
    BY DEF Progress
  <2>4. e.end <= d.begin
    BY <1>1, <2>1, <2>2, <2>3, EarlierEndsBefore
  <2> QED BY <1>1, <2>2, <2>3, <2>4
<1>4. Substitute(Text[file], Applied \cup {e}) = OneSplice(Substitute(Text[file], Applied), e)
  BY <1>1, <1>2, <1>3, SpliceOne
<1> QED BY <1>4 DEF Splice, OneSplice

\* What is applied so far stays what the edits so far mean.
LEMMA MeansStep ==
  ASSUME Untied, TypeOK, LaterRangesUnshifted, Progress, MeansApplied, [Next]_vars
  PROVE  MeansApplied'
<1> USE DEF MeansApplied, Finished
<1>1. CASE Enter
  BY <1>1 DEF Enter, Substituted, EditsOf, Applied
<1>2. CASE Visit
  <2>1. PICK f \in pending :
          IF f \in DOMAIN Text
            THEN /\ phase' = "editing"
                 /\ file' = f
                 /\ text' = Text[f]
                 /\ todo' = EditsOf(f)
                 /\ pending' = pending \ {f}
            ELSE /\ Throw
                 /\ UNCHANGED <<pending, file, todo, text>>
    BY <1>2 DEF Visit
  <2>2. phase = "visiting" /\ UNCHANGED <<edits, conflicted, result>>
    BY <1>2 DEF Visit
  <2>3. \A g \in DOMAIN result' : result'[g] = Substituted(g)'
    BY <2>2 DEF Substituted, EditsOf
  <2>4. CASE f \in DOMAIN Text
    <3>1. Applied' = {} /\ text' = Text[file']
      BY <2>1, <2>2, <2>4 DEF Applied, EditsOf
    <3>2. Text[file'] \in Seq(Bytes)
      BY <2>1, <2>4, ApplyAssumption
    <3>3. text' = Substitute(Text[file'], Applied')
      BY <3>1, <3>2, NothingToSubstitute
    <3>4. f \in {e.file : e \in edits}
      BY DEF TypeOK
    <3>6. \E e \in edits' : e.file = file'
      BY <2>1, <2>2, <2>4, <3>4
    <3>5. DOMAIN result' = Finished'
      BY <2>1, <2>2, <2>4, <3>4 DEF Finished
    <3> QED BY <2>3, <3>3, <3>5, <3>6
  <2>5. CASE f \notin DOMAIN Text
    BY <2>1, <2>2, <2>3, <2>5 DEF Throw
  <2> QED BY <2>4, <2>5
<1>3. CASE ApplyOne
  <2>1. PICK e \in todo :
          /\ DescendingNext(e)
          /\ IF InBounds(e)
               THEN text' = Splice(text, e) /\ todo' = todo \ {e} /\ UNCHANGED phase
               ELSE Throw /\ UNCHANGED <<text, todo>>
    BY <1>3 DEF ApplyOne
  <2>2. phase = "editing" /\ UNCHANGED <<edits, conflicted, pending, file, result>>
    BY <1>3 DEF ApplyOne
  <2>3. \A g \in DOMAIN result' : result'[g] = Substituted(g)'
    BY <2>2 DEF Substituted, EditsOf
  <2>4. CASE InBounds(e)
    <3>1. e \in edits /\ e.file = file
      BY DEF TypeOK
    <3>2. Applied' = Applied \cup {e}
      BY <2>1, <2>2, <2>4, <3>1 DEF Applied
    <3>3. Splice(text, e) = Substitute(Text[file], Applied \cup {e})
      BY <2>1, <2>2, <2>4, ApplyOneMeans
    <3>4. text' = Substitute(Text[file'], Applied')
      BY <2>1, <2>2, <2>4, <3>2, <3>3
    <3> QED BY <2>1, <2>2, <2>3, <2>4, <3>4
  <2>5. CASE ~InBounds(e)
    BY <2>1, <2>2, <2>3, <2>5 DEF Throw
  <2> QED BY <2>4, <2>5
<1>4. CASE FinishFile
  <2>1. /\ phase = "editing" /\ todo = {} /\ phase' = "visiting"
        /\ UNCHANGED <<edits, conflicted, pending, file, todo, text>>
        /\ result' = [f \in DOMAIN result \cup {file} |-> IF f = file THEN text ELSE result[f]]
    BY <1>4 DEF FinishFile
  <2>2. Applied = EditsOf(file)
    BY <2>1 DEF Applied, EditsOf
  <2>3. text = Substituted(file)
    BY <2>1, <2>2 DEF Substituted
  <2>4. \A g : Substituted(g)' = Substituted(g)
    BY <2>1 DEF Substituted, EditsOf
  <2>5. \A g \in DOMAIN result' : result'[g] = Substituted(g)'
    BY <2>1, <2>3, <2>4
  <2>6. file \in {e.file : e \in edits} \ pending
    <3>1. file \notin pending
      BY <2>1 DEF TypeOK
    <3>2. \E e \in edits : e.file = file
      BY <2>1
    <3> QED BY ONLY <3>1, <3>2
  <2> QED BY <2>1, <2>5, <2>6
<1>5. CASE Return
  BY <1>5 DEF Return, Substituted, EditsOf, Applied
<1>6. CASE UNCHANGED vars
  BY <1>6 DEF vars, Substituted, EditsOf, Applied
<1> QED BY <1>1, <1>2, <1>3, <1>4, <1>5, <1>6 DEF Next

\* The call returns, for exactly the files the edits touch, the text the
\* edits mean, whatever the texts and the edits are.
THEOREM ResultIsTheSubstitution ==
  ASSUME Untied
  PROVE  Spec => []ResultIsSubstitution
<1>1. Init => MeansApplied /\ Progress /\ LaterRangesUnshifted
  BY DEF Init, MeansApplied, Finished, Progress, LaterRangesUnshifted
<1>2. TypeOK /\ LaterRangesUnshifted /\ Progress /\ MeansApplied /\ [Next]_vars
        => LaterRangesUnshifted' /\ Progress' /\ MeansApplied'
  BY UnshiftedStep, ProgressStep, MeansStep
<1>3. Progress /\ MeansApplied => ResultIsSubstitution
  <2> SUFFICES ASSUME Progress, MeansApplied, phase = "returned"
               PROVE  /\ DOMAIN result = {e.file : e \in edits}
                      /\ \A f \in DOMAIN result : result[f] = Substituted(f)
    BY DEF ResultIsSubstitution
  <2>1. pending = {}
    BY DEF Progress
  <2> QED BY <2>1 DEF MeansApplied, Finished
<1> QED BY <1>1, <1>2, <1>3, TypeCorrect, PTL DEF Spec

=============================================================================
