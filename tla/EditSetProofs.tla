--------------------------- MODULE EditSetProofs ---------------------------
(***************************************************************************)
(* What EditSet guarantees for every set of proposals, files and sources.  *)
(* AcceptedDisjoint is inductive with the type invariant.  The rest needs  *)
(* to know where accepted edits and conflict records come from (Ledgered): *)
(* accepted edits were proposed, and a conflict pairs an accepted edit     *)
(* with a different proposal that overlaps it.                             *)
(***************************************************************************)
EXTENDS EditSet, TLAPS

\* Accepted edits were proposed; a conflict has an accepted edit on one
\* side and a different, overlapping proposal on the other.
Ledgered ==
  /\ \A i \in DOMAIN edits : edits[i] \in proposed
  /\ \A k \in DOMAIN conflicts :
       /\ \E i \in DOMAIN edits : edits[i] = conflicts[k].existing
       /\ conflicts[k].proposed \in proposed
       /\ Overlap(conflicts[k].existing, conflicts[k].proposed)
       /\ ~SameEdit(conflicts[k].existing, conflicts[k].proposed)

Inv == TypeOK /\ AcceptedDisjoint /\ Ledgered /\ NothingDropped

-----------------------------------------------------------------------------
\* Overlap and SameEdit do not care which edit is named first.
LEMMA RelationsSymmetric ==
  ASSUME NEW a, NEW b
  PROVE  (Overlap(a, b) <=> Overlap(b, a)) /\ (SameEdit(a, b) <=> SameEdit(b, a))
BY DEF Overlap, SameEdit

\* Equal changes overlap the same edits.
LEMMA SameEditOverlaps ==
  ASSUME NEW a, NEW b, NEW c, SameEdit(a, b)
  PROVE  /\ Overlap(a, c) <=> Overlap(b, c)
         /\ SameEdit(a, c) <=> SameEdit(b, c)
BY DEF Overlap, SameEdit

\* Appending to a list keeps what it held and adds one element at the end.
LEMMA Appended ==
  ASSUME NEW S, NEW s \in Seq(S), NEW e
  PROVE  /\ DOMAIN Append(s, e) = DOMAIN s \cup {Len(s) + 1}
         /\ \A i \in DOMAIN s : Append(s, e)[i] = s[i]
         /\ Append(s, e)[Len(s) + 1] = e
OBVIOUS

-----------------------------------------------------------------------------
\* The lists hold valid proposals in every reachable state.
THEOREM TypeCorrect == Spec => []TypeOK
<1>1. Init => TypeOK
  BY DEF Init, TypeOK
<1>2. TypeOK /\ [Next]_vars => TypeOK'
  <2> SUFFICES ASSUME TypeOK, [Next]_vars
               PROVE  TypeOK'
    OBVIOUS
  <2>1. CASE UNCHANGED vars
    BY <2>1 DEF vars, TypeOK
  <2>2. ASSUME NEW e \in Proposals, NEW withSources \in BOOLEAN, Add(e, withSources)
        PROVE  TypeOK'
    <3> USE DEF TypeOK, Result, Outcomes, Valid
    <3>1. CASE AddInvalid(e, withSources)
      BY <3>1 DEF AddInvalid
    <3>2. CASE AddDuplicate(e, withSources)
      <4>1. PICK i \in DOMAIN edits : Result("Duplicate", edits[i])
        BY <3>2 DEF AddDuplicate
      <4>2. edits[i] \in Proposals
        BY DEF AddDuplicate
      <4> QED BY <3>2, <4>1, <4>2 DEF AddDuplicate, WellFormed
    <3>3. CASE AddConflict(e, withSources)
      <4>1. PICK i \in DOMAIN edits :
              conflicts' = Append(conflicts, [existing |-> edits[i], proposed |-> e])
        BY <3>3 DEF AddConflict
      <4>2. e \in Valid /\ edits[i] \in Valid
        BY <3>3 DEF AddConflict, WellFormed
      <4>3. conflicts' \in Seq([existing: Valid, proposed: Valid])
        BY <4>1, <4>2
      <4> QED BY <3>3, <4>2, <4>3 DEF AddConflict
    <3>4. CASE AddAccepted(e, withSources)
      BY <3>4 DEF AddAccepted, WellFormed
    <3> QED BY <2>2, <3>1, <3>2, <3>3, <3>4 DEF Add
  <2> QED BY <2>1, <2>2 DEF Next
<1> QED BY <1>1, <1>2, PTL DEF Spec

-----------------------------------------------------------------------------
\* A new edit is accepted only when the scan found nothing, so it is apart
\* from every accepted edit; no other step touches the list.
LEMMA DisjointStep ==
  ASSUME TypeOK, AcceptedDisjoint, [Next]_vars
  PROVE  AcceptedDisjoint'
<1>1. CASE UNCHANGED edits
  BY <1>1 DEF AcceptedDisjoint
<1>2. ASSUME NEW e \in Proposals, NEW withSources \in BOOLEAN,
             AddAccepted(e, withSources)
      PROVE  AcceptedDisjoint'
  <2>1. edits \in Seq(Valid) /\ edits' = Append(edits, e)
    BY <1>2 DEF AddAccepted, TypeOK
  <2>2. /\ DOMAIN edits' = DOMAIN edits \cup {Len(edits) + 1}
        /\ \A i \in DOMAIN edits : edits'[i] = edits[i]
        /\ edits'[Len(edits) + 1] = e
    BY <2>1, Appended
  <2>3. \A i \in DOMAIN edits : ~Overlap(edits[i], e) /\ ~SameEdit(edits[i], e)
    BY <1>2 DEF AddAccepted, Hits
  <2>4. \A i \in DOMAIN edits : ~Overlap(e, edits[i]) /\ ~SameEdit(e, edits[i])
    BY <2>3, RelationsSymmetric
  <2> SUFFICES ASSUME NEW i \in DOMAIN edits', NEW j \in DOMAIN edits', i # j
               PROVE  ~Overlap(edits'[i], edits'[j]) /\ ~SameEdit(edits'[i], edits'[j])
    BY DEF AcceptedDisjoint
  <2>5. CASE i \in DOMAIN edits /\ j \in DOMAIN edits
    BY <2>2, <2>5 DEF AcceptedDisjoint
  <2>6. CASE i \in DOMAIN edits /\ j = Len(edits) + 1
    BY <2>2, <2>3, <2>6
  <2>7. CASE i = Len(edits) + 1 /\ j \in DOMAIN edits
    BY <2>2, <2>4, <2>7
  <2> QED BY <2>2, <2>5, <2>6, <2>7
<1>3. UNCHANGED edits \/ \E e \in Proposals, withSources \in BOOLEAN :
                            AddAccepted(e, withSources)
  BY DEF Next, Add, AddInvalid, AddDuplicate, AddConflict, vars
<1> QED BY <1>1, <1>2, <1>3

\* The accepted edits never overlap and never repeat.
THEOREM Disjoint == Spec => []AcceptedDisjoint
<1>1. Init => AcceptedDisjoint
  BY DEF Init, AcceptedDisjoint
<1>2. TypeOK /\ AcceptedDisjoint /\ [Next]_vars => AcceptedDisjoint'
  BY DisjointStep
<1> QED BY <1>1, <1>2, TypeCorrect, PTL DEF Spec

-----------------------------------------------------------------------------
\* A conflict record always has an accepted edit behind it.
LEMMA LedgeredStep ==
  ASSUME TypeOK, Ledgered, [Next]_vars
  PROVE  Ledgered'
<1> USE DEF Ledgered
<1>1. CASE UNCHANGED <<edits, conflicts>> /\ proposed \subseteq proposed'
  BY <1>1
<1>2. ASSUME NEW e \in Proposals, NEW withSources \in BOOLEAN,
             AddAccepted(e, withSources)
      PROVE  Ledgered'
  <2>1. /\ edits \in Seq(Valid)
        /\ edits' = Append(edits, e)
        /\ conflicts' = conflicts
        /\ proposed' = proposed \cup {e}
    BY <1>2 DEF AddAccepted, TypeOK
  <2>2. /\ DOMAIN edits' = DOMAIN edits \cup {Len(edits) + 1}
        /\ \A i \in DOMAIN edits : edits'[i] = edits[i]
        /\ edits'[Len(edits) + 1] = e
    BY <2>1, Appended
  <2> QED BY <2>1, <2>2
<1>3. ASSUME NEW e \in Proposals, NEW withSources \in BOOLEAN,
             AddConflict(e, withSources)
      PROVE  Ledgered'
  <2>1. PICK i \in DOMAIN edits :
          /\ FirstHit(i, e)
          /\ ~SameEdit(edits[i], e)
          /\ conflicts' = Append(conflicts, [existing |-> edits[i], proposed |-> e])
    BY <1>3 DEF AddConflict
  <2> DEFINE c == [existing |-> edits[i], proposed |-> e]
  <2>2. Overlap(edits[i], e)
    BY <2>1 DEF FirstHit, Hits
  <2>3. conflicts \in Seq([existing: Valid, proposed: Valid])
    BY DEF TypeOK
  <2>4. /\ DOMAIN conflicts' = DOMAIN conflicts \cup {Len(conflicts) + 1}
        /\ \A k \in DOMAIN conflicts : conflicts'[k] = conflicts[k]
        /\ conflicts'[Len(conflicts) + 1] = c
    BY <2>1, <2>3, Appended
  <2>5. edits' = edits /\ proposed' = proposed \cup {e}
    BY <1>3 DEF AddConflict
  <2>6. ASSUME NEW k \in DOMAIN conflicts'
        PROVE  /\ \E j \in DOMAIN edits' : edits'[j] = conflicts'[k].existing
               /\ conflicts'[k].proposed \in proposed'
               /\ Overlap(conflicts'[k].existing, conflicts'[k].proposed)
               /\ ~SameEdit(conflicts'[k].existing, conflicts'[k].proposed)
    <3>1. CASE k \in DOMAIN conflicts
      BY <2>4, <2>5, <3>1
    <3>2. CASE k = Len(conflicts) + 1
      BY <2>1, <2>2, <2>4, <2>5, <3>2
    <3> QED BY <2>4, <3>1, <3>2
  <2> QED BY <2>5, <2>6
<1>4. \/ UNCHANGED <<edits, conflicts>> /\ proposed \subseteq proposed'
      \/ \E e \in Proposals, withSources \in BOOLEAN :
           AddAccepted(e, withSources) \/ AddConflict(e, withSources)
  BY DEF Next, Add, AddInvalid, AddDuplicate, vars
<1> QED BY <1>1, <1>2, <1>3, <1>4

\* No well-formed proposal is lost by a step.
LEMMA NothingDroppedStep ==
  ASSUME TypeOK, NothingDropped, [Next]_vars
  PROVE  NothingDropped'
<1> USE DEF NothingDropped
<1>1. CASE UNCHANGED <<edits, conflicts, proposed>>
  BY <1>1
<1>2. ASSUME NEW e \in Proposals, NEW withSources \in BOOLEAN,
             AddDuplicate(e, withSources)
      PROVE  NothingDropped'
  <2>1. PICK i \in DOMAIN edits : SameEdit(edits[i], e)
    BY <1>2 DEF AddDuplicate
  <2> QED BY <1>2, <2>1 DEF AddDuplicate
<1>3. ASSUME NEW e \in Proposals, NEW withSources \in BOOLEAN,
             AddConflict(e, withSources)
      PROVE  NothingDropped'
  <2>1. PICK i \in DOMAIN edits :
          conflicts' = Append(conflicts, [existing |-> edits[i], proposed |-> e])
    BY <1>3 DEF AddConflict
  <2> DEFINE c == [existing |-> edits[i], proposed |-> e]
  <2>2. conflicts \in Seq([existing: Valid, proposed: Valid])
    BY DEF TypeOK
  <2>3. /\ DOMAIN conflicts' = DOMAIN conflicts \cup {Len(conflicts) + 1}
        /\ \A k \in DOMAIN conflicts : conflicts'[k] = conflicts[k]
        /\ conflicts'[Len(conflicts) + 1] = c
    BY <2>1, <2>2, Appended
  <2>4. edits' = edits /\ proposed' = proposed \cup {e}
    BY <1>3 DEF AddConflict
  <2>5. c.proposed = e /\ c.existing = edits[i]
    OBVIOUS
  <2> SUFFICES ASSUME NEW p \in proposed'
               PROVE  \/ \E j \in DOMAIN edits' : SameEdit(edits'[j], p)
                      \/ \E k \in DOMAIN conflicts' :
                           /\ conflicts'[k].proposed = p
                           /\ \E j \in DOMAIN edits' : edits'[j] = conflicts'[k].existing
    OBVIOUS
  <2>6. CASE p = e
    BY <2>3, <2>4, <2>5, <2>6
  <2>7. CASE p \in proposed
    BY <2>3, <2>4, <2>7
  <2> QED BY <2>4, <2>6, <2>7
<1>4. ASSUME NEW e \in Proposals, NEW withSources \in BOOLEAN,
             AddAccepted(e, withSources)
      PROVE  NothingDropped'
  <2>1. /\ edits \in Seq(Valid)
        /\ edits' = Append(edits, e)
        /\ conflicts' = conflicts
        /\ proposed' = proposed \cup {e}
    BY <1>4 DEF AddAccepted, TypeOK
  <2>2. /\ DOMAIN edits' = DOMAIN edits \cup {Len(edits) + 1}
        /\ \A i \in DOMAIN edits : edits'[i] = edits[i]
        /\ edits'[Len(edits) + 1] = e
    BY <2>1, Appended
  <2>3. SameEdit(e, e)
    BY DEF SameEdit
  <2> QED BY <2>1, <2>2, <2>3
<1>5. \/ UNCHANGED <<edits, conflicts, proposed>>
      \/ \E e \in Proposals, withSources \in BOOLEAN :
           \/ AddDuplicate(e, withSources)
           \/ AddConflict(e, withSources)
           \/ AddAccepted(e, withSources)
  BY DEF Next, Add, AddInvalid, vars
<1> QED BY <1>1, <1>2, <1>3, <1>4, <1>5

\* The invariant everything else follows from.
THEOREM InvHolds == Spec => []Inv
<1>1. Init => Inv
  <2>1. Init => Ledgered /\ NothingDropped /\ AcceptedDisjoint
    BY DEF Init, Ledgered, NothingDropped, AcceptedDisjoint
  <2>2. Init => TypeOK
    BY DEF Init, TypeOK
  <2> QED BY <2>1, <2>2 DEF Inv
<1>2. TypeOK /\ TypeOK' /\ Inv /\ [Next]_vars => Inv'
  BY DisjointStep, LedgeredStep, NothingDroppedStep DEF Inv
<1> QED BY <1>1, <1>2, TypeCorrect, PTL DEF Spec

-----------------------------------------------------------------------------
\* Every well-formed proposal is accepted, or recorded against an accepted
\* edit: nothing is silently dropped.
THEOREM NothingIsDropped == Spec => []NothingDropped
BY InvHolds, PTL DEF Inv

\* The conflict gate does not depend on the order of the proposals.
LEMMA GateFromInv == Inv => ConflictGateExact
<1> SUFFICES ASSUME Inv PROVE ConflictGateExact
  OBVIOUS
<1>1. ASSUME conflicts # <<>>
      PROVE  \E p, q \in proposed : Overlap(p, q) /\ ~SameEdit(p, q)
  <2>1. 1 \in DOMAIN conflicts
    BY <1>1 DEF Inv, TypeOK
  <2>2. PICK i \in DOMAIN edits : edits[i] = conflicts[1].existing
    BY <2>1 DEF Inv, Ledgered
  <2>3. conflicts[1].existing \in proposed /\ conflicts[1].proposed \in proposed
    BY <2>1, <2>2 DEF Inv, Ledgered
  <2> QED BY <2>1, <2>3 DEF Inv, Ledgered
<1>2. ASSUME NEW p \in proposed, NEW q \in proposed,
             Overlap(p, q), ~SameEdit(p, q), conflicts = <<>>
      PROVE  FALSE
  <2>1. DOMAIN conflicts = {}
    BY <1>2
  <2>2. PICK i \in DOMAIN edits : SameEdit(edits[i], p)
    BY <2>1 DEF Inv, NothingDropped
  <2>3. PICK j \in DOMAIN edits : SameEdit(edits[j], q)
    BY <2>1 DEF Inv, NothingDropped
  <2>4. Overlap(edits[i], edits[j]) /\ ~SameEdit(edits[i], edits[j])
    BY <1>2, <2>2, <2>3 DEF Overlap, SameEdit
  <2>5. i # j
    BY <2>4 DEF SameEdit
  <2> QED BY <2>4, <2>5 DEF Inv, AcceptedDisjoint
<1> QED BY <1>1, <1>2 DEF ConflictGateExact

\* has_conflicts() is true exactly when two different proposals overlap.
THEOREM GateIsExact == Spec => []ConflictGateExact
BY InvHolds, GateFromInv, PTL

\* A change that was turned down is never among the accepted ones.
LEMMA RejectedFromInv == Inv => RejectedNeverAccepted
<1> SUFFICES ASSUME Inv, NEW k \in DOMAIN conflicts, NEW i \in DOMAIN edits,
                    SameEdit(edits[i], conflicts[k].proposed)
             PROVE  FALSE
  BY DEF RejectedNeverAccepted
<1>1. PICK j \in DOMAIN edits : edits[j] = conflicts[k].existing
  BY DEF Inv, Ledgered
<1>2. /\ Overlap(edits[j], conflicts[k].proposed)
      /\ ~SameEdit(edits[j], conflicts[k].proposed)
  BY <1>1 DEF Inv, Ledgered
<1>3. Overlap(edits[j], edits[i]) /\ ~SameEdit(edits[j], edits[i])
  BY <1>2 DEF Overlap, SameEdit
<1>4. i # j
  BY <1>3 DEF SameEdit
<1> QED BY <1>3, <1>4 DEF Inv, AcceptedDisjoint

\* What add() reported as a conflict is not among the edits it accepted.
THEOREM RejectedStaysOut == Spec => []RejectedNeverAccepted
BY InvHolds, RejectedFromInv, PTL

-----------------------------------------------------------------------------
\* The changes the ledger sees, after an edit is appended.
LEMMA AcceptedGrows ==
  ASSUME NEW s \in Seq(Valid), NEW e
  PROVE  {Change(Append(s, e)[i]) : i \in DOMAIN Append(s, e)}
           = {Change(s[i]) : i \in DOMAIN s} \cup {Change(e)}
<1>1. /\ DOMAIN Append(s, e) = DOMAIN s \cup {Len(s) + 1}
      /\ \A i \in DOMAIN s : Append(s, e)[i] = s[i]
      /\ Append(s, e)[Len(s) + 1] = e
  BY Appended
<1> QED BY <1>1

\* Every step of EditSet is a step of the ledger, or none.
LEMMA StepRefines ==
  ASSUME Inv, [Next]_vars
  PROVE  [Ledger!LedgerNext]_(Ledger!ledgerVars)
<1> DEFINE acc == {Change(edits[i]) : i \in DOMAIN edits}
<1> USE DEF Ledger!ledgerVars, Ledger!LedgerNext
<1>1. CASE UNCHANGED <<edits, conflicts>>
  BY <1>1
<1>2. ASSUME NEW e \in Proposals, NEW withSources \in BOOLEAN,
             AddAccepted(e, withSources)
      PROVE  \E c \in {Change(p) : p \in Proposals} : Ledger!Admit(c)
  <2>1. edits \in Seq(Valid) /\ edits' = Append(edits, e) /\ conflicts' = conflicts
    BY <1>2 DEF AddAccepted, Inv, TypeOK
  <2>2. {Change(edits'[i]) : i \in DOMAIN edits'} = acc \cup {Change(e)}
    BY <2>1, AcceptedGrows
  <2>3. \A i \in DOMAIN edits : ~Overlap(edits[i], e)
    BY <1>2 DEF AddAccepted, Hits
  <2>4. \A a \in acc : ~Ledger!Overlap(a, Change(e))
    BY <2>3 DEF Change, Overlap, Ledger!Overlap
  <2>5. Ledger!Admit(Change(e))
    BY <2>1, <2>2, <2>4 DEF Ledger!Admit
  <2> QED BY <2>5
<1>3. ASSUME NEW e \in Proposals, NEW withSources \in BOOLEAN,
             AddConflict(e, withSources)
      PROVE  \E c \in {Change(p) : p \in Proposals} : Ledger!TurnDown(c)
  <2>1. PICK i \in DOMAIN edits :
          /\ FirstHit(i, e)
          /\ ~SameEdit(edits[i], e)
          /\ conflicts' = Append(conflicts, [existing |-> edits[i], proposed |-> e])
    BY <1>3 DEF AddConflict
  <2>2. Overlap(edits[i], e)
    BY <2>1 DEF FirstHit, Hits
  <2>3. \A j \in DOMAIN edits : ~SameEdit(edits[j], e)
    <3> SUFFICES ASSUME NEW j \in DOMAIN edits, SameEdit(edits[j], e) PROVE FALSE
      OBVIOUS
    <3>1. Overlap(edits[i], edits[j]) /\ ~SameEdit(edits[i], edits[j])
      BY <2>1, <2>2 DEF Overlap, SameEdit
    <3>2. i # j
      BY <3>1 DEF SameEdit
    <3> QED BY <3>1, <3>2 DEF Inv, AcceptedDisjoint
  <2>4. Change(e) \notin acc
    BY <2>3 DEF Change, SameEdit
  <2>5. Change(edits[i]) \in acc /\ Ledger!Overlap(Change(edits[i]), Change(e))
    BY <2>2 DEF Change, Overlap, Ledger!Overlap
  <2>6. conflicts' # <<>> /\ edits' = edits
    <3>1. conflicts \in Seq([existing: Valid, proposed: Valid])
      BY DEF Inv, TypeOK
    <3>2. Len(conflicts') = Len(conflicts) + 1
      BY <2>1, <3>1
    <3> QED BY <1>3, <3>1, <3>2 DEF AddConflict
  <2>7. Ledger!TurnDown(Change(e))
    BY <2>4, <2>5, <2>6 DEF Ledger!TurnDown
  <2> QED BY <2>7
<1>4. \/ UNCHANGED <<edits, conflicts>>
      \/ \E e \in Proposals, withSources \in BOOLEAN :
           AddAccepted(e, withSources) \/ AddConflict(e, withSources)
  BY DEF Next, Add, AddInvalid, AddDuplicate, vars
<1> QED BY <1>1, <1>2, <1>3, <1>4

\* EditSet implements the ledger: whatever the order of the proposals, the
\* scan admits only disjoint changes and raises the flag for nothing else.
THEOREM Refinement == Spec => ImplementsLedger
<1>1. Init => Ledger!LedgerInit
  BY DEF Init, Ledger!LedgerInit
<1>2. Inv /\ [Next]_vars => [Ledger!LedgerNext]_(Ledger!ledgerVars)
  BY StepRefines
<1> QED BY <1>1, <1>2, InvHolds, PTL DEF Spec, ImplementsLedger, Ledger!LedgerSpec

=============================================================================
