------------------------------ MODULE EditSet ------------------------------
(***************************************************************************)
(* EditSet (src/edits.cpp, include/moult/core/edits.hpp): the list of      *)
(* accepted edits and the list of recorded conflicts of one plan.  Rules   *)
(* propose edits in the order they meet facts; `moult apply` proposes the  *)
(* edits of a plan.json again.  Each call of add() is one step that ends   *)
(* in one of four outcomes.                                                *)
(***************************************************************************)
EXTENDS TextEdits, Sequences

CONSTANTS
  Files,            \* file names
  Replacements,     \* replacement texts
  Rules,            \* rule ids
  Proposals,        \* the edits a caller may propose
  NoFile,           \* the empty file name
  Loaded,           \* the files the SourceStore holds
  SizeOf,           \* SizeOf[f]: the bytes of file f in the store
  MaxConflicts      \* bound: conflicts recorded before callers stop adding more

ASSUME ProposalsAssumption ==
  /\ Proposals \subseteq EditsOver(Files, Nat, Replacements, Rules)
  /\ SizeOf \in [Loaded -> Nat]
  /\ MaxConflicts \in Nat

VARIABLES
  edits,            \* edits_: the accepted edits, in the order they came
  conflicts,        \* conflicts_: pairs [existing, proposed], in order
  last,             \* the EditAddResult of the latest call
  proposed          \* observer: the well-formed edits proposed so far

vars == <<edits, conflicts, last, proposed>>

Outcomes == {"Accepted", "Duplicate", "Conflict", "Invalid"}
NoCall == [outcome |-> "None"]

Init ==
  /\ edits = <<>>
  /\ conflicts = <<>>
  /\ last = NoCall
  /\ proposed = {}

-----------------------------------------------------------------------------
\* SourceBuffer::contains, for a file the store holds.
Contains(e) == e.file \in Loaded /\ e.begin <= e.end /\ e.end <= SizeOf[e.file]

(* add() rejects a malformed range outright and, when it was given the     *)
(* sources, a range outside them.                                          *)
WellFormed(e, withSources) ==
  /\ ValidRange(e, NoFile)
  /\ withSources => Contains(e)

\* Mutation: only the edit accepted last is looked at.
HitsOfLast(e) ==
  {i \in DOMAIN edits : i = Len(edits) /\ (SameEdit(edits[i], e) \/ Overlap(edits[i], e))}

\* The scan of add() stops at the first accepted edit it equals or overlaps.
Hits(e) == {i \in DOMAIN edits : SameEdit(edits[i], e) \/ Overlap(edits[i], e)}

FirstHit(i, e) == i \in Hits(e) /\ \A j \in Hits(e) : i <= j

Result(outcome, e) == last' = [outcome |-> outcome, edit |-> e]

AddInvalid(e, withSources) ==
  /\ ~WellFormed(e, withSources)
  /\ Result("Invalid", e)
  /\ UNCHANGED <<edits, conflicts, proposed>>

\* Mutation: equal ranges make a duplicate, whatever the replacement.
AddDuplicateByRange(e, withSources) ==
  /\ WellFormed(e, withSources)
  /\ \E i \in DOMAIN edits :
       /\ FirstHit(i, e)
       /\ edits[i].begin = e.begin /\ edits[i].end = e.end
       /\ Result("Duplicate", edits[i])
  /\ proposed' = proposed \cup {e}
  /\ UNCHANGED <<edits, conflicts>>

AddDuplicate(e, withSources) ==
  /\ WellFormed(e, withSources)
  /\ \E i \in DOMAIN edits :
       /\ FirstHit(i, e)
       /\ SameEdit(edits[i], e)
       /\ Result("Duplicate", edits[i])
  /\ proposed' = proposed \cup {e}
  /\ UNCHANGED <<edits, conflicts>>

\* Mutation: the conflict is returned and never recorded.
AddConflictUnrecorded(e, withSources) ==
  /\ WellFormed(e, withSources)
  /\ \E i \in DOMAIN edits : FirstHit(i, e) /\ ~SameEdit(edits[i], e)
  /\ Result("Conflict", e)
  /\ proposed' = proposed \cup {e}
  /\ UNCHANGED <<edits, conflicts>>

\* Mutation: overlap is tested before equality.
AddConflictFirst(e, withSources) ==
  /\ WellFormed(e, withSources)
  /\ Len(conflicts) < MaxConflicts
  /\ \E i \in DOMAIN edits :
       /\ FirstHit(i, e)
       /\ Overlap(edits[i], e)
       /\ conflicts' = Append(conflicts, [existing |-> edits[i], proposed |-> e])
  /\ Result("Conflict", e)
  /\ proposed' = proposed \cup {e}
  /\ UNCHANGED edits

AddConflict(e, withSources) ==
  /\ WellFormed(e, withSources)
  /\ Len(conflicts) < MaxConflicts
  /\ \E i \in DOMAIN edits :
       /\ FirstHit(i, e)
       /\ ~SameEdit(edits[i], e)
       /\ conflicts' = Append(conflicts, [existing |-> edits[i], proposed |-> e])
  /\ Result("Conflict", e)
  /\ proposed' = proposed \cup {e}
  /\ UNCHANGED edits

AddAccepted(e, withSources) ==
  /\ WellFormed(e, withSources)
  /\ Hits(e) = {}
  /\ edits' = Append(edits, e)
  /\ Result("Accepted", e)
  /\ proposed' = proposed \cup {e}
  /\ UNCHANGED conflicts

Add(e, withSources) ==
  \/ AddInvalid(e, withSources)
  \/ AddDuplicate(e, withSources)
  \/ AddConflict(e, withSources)
  \/ AddAccepted(e, withSources)

Next == \E e \in Proposals, withSources \in BOOLEAN : Add(e, withSources)

Spec == Init /\ [][Next]_vars

-----------------------------------------------------------------------------
\* The proposals whose range is a range.
Valid == {e \in Proposals : ValidRange(e, NoFile)}

\* The lists hold proposed edits with a valid range, and nothing else is kept.
TypeOK ==
  /\ edits \in Seq(Valid)
  /\ conflicts \in Seq([existing: Valid, proposed: Valid])
  /\ last \in {NoCall} \cup [outcome: Outcomes, edit: Proposals]
  /\ proposed \subseteq Valid

(* The accepted edits of a plan can all be applied: no two of them overlap *)
(* and none is listed twice, however the proposals were ordered.           *)
AcceptedDisjoint ==
  \A i, j \in DOMAIN edits :
    i # j => ~Overlap(edits[i], edits[j]) /\ ~SameEdit(edits[i], edits[j])

(* "Conflicting edits are recorded rather than silently dropped"           *)
(* (docs/architecture.md): every well-formed proposal is either present    *)
(* among the accepted edits or named in a conflict with one of them.       *)
NothingDropped ==
  \A p \in proposed :
    \/ \E i \in DOMAIN edits : SameEdit(edits[i], p)
    \/ \E k \in DOMAIN conflicts :
         /\ conflicts[k].proposed = p
         /\ \E i \in DOMAIN edits : edits[i] = conflicts[k].existing

(* has_conflicts(), the gate of apply_to_memory and of Plan::has_errors,   *)
(* does not depend on the order of the proposals: it is raised exactly     *)
(* when two different edits among all those proposed overlap.              *)
ConflictGateExact ==
  (conflicts # <<>>) <=>
    \E p, q \in proposed : Overlap(p, q) /\ ~SameEdit(p, q)

(* A change that was turned down is never among the accepted ones, before  *)
(* or after: a plan cannot both make a change and report it as a conflict. *)
RejectedNeverAccepted ==
  \A k \in DOMAIN conflicts, i \in DOMAIN edits :
    ~SameEdit(edits[i], conflicts[k].proposed)

-----------------------------------------------------------------------------
\* The change an edit asks for, whoever asked.
Change(e) == [file |-> e.file, begin |-> e.begin, end |-> e.end,
              replacement |-> e.replacement]

Ledger == INSTANCE EditLedger WITH
  Changes <- {Change(e) : e \in Proposals},
  accepted <- {Change(edits[i]) : i \in DOMAIN edits},
  clash <- conflicts # <<>>

\* The scan through two lists does what the ledger promises, no more.
ImplementsLedger == Ledger!LedgerSpec
=============================================================================
