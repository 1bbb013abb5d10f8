----------------------------- MODULE EditLedger -----------------------------
(***************************************************************************)
(* What EditSet promises the rules that feed it and the code that applies  *)
(* it, with no lists and no scan order: a set of changes that never        *)
(* overlap, and one flag that is raised, for good, when a change was       *)
(* turned down because it would have overlapped an accepted one.  A change *)
(* asked for again is no news.                                             *)
(***************************************************************************)
EXTENDS TextEdits

CONSTANT Changes        \* the changes that may be asked for: [file, begin, end, replacement]

VARIABLES
  accepted,             \* the changes the ledger holds
  clash                 \* whether a change was ever turned down

ledgerVars == <<accepted, clash>>

LedgerInit ==
  /\ accepted = {}
  /\ clash = FALSE

Admit(c) ==
  /\ \A a \in accepted : ~Overlap(a, c)
  /\ accepted' = accepted \cup {c}
  /\ UNCHANGED clash

TurnDown(c) ==
  /\ c \notin accepted
  /\ \E a \in accepted : Overlap(a, c)
  /\ clash' = TRUE
  /\ UNCHANGED accepted

LedgerNext == \E c \in Changes : Admit(c) \/ TurnDown(c)

LedgerSpec == LedgerInit /\ [][LedgerNext]_ledgerVars
=============================================================================
