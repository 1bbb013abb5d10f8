----------------------------- MODULE MCEditSet -----------------------------
(* EditSet on one loaded file of three bytes, with every kind of pair of   *)
(* ranges: equal, nested, touching, an insertion inside and at an edge,    *)
(* and each way a proposal is refused.                                     *)
EXTENDS EditSet, TLC

CONSTANTS f1, f2, x, y, r1, r2

E(f, b, e, t, r) ==
  [file |-> f, begin |-> b, end |-> e, replacement |-> t, rule |-> r]

MCFiles == {f1, f2, NoFile}
MCLoaded == {f1}
MCSizeOf == f1 :> 3
MCReplacements == {x, y}
MCRules == {r1, r2}

MCProposals ==
  { E(f1, 0, 2, x, r1),        \* a replacement,
    E(f1, 0, 2, x, r2),        \* the same from another rule,
    E(f1, 0, 2, y, r1),        \* another text for the same range,
    E(f1, 1, 4, x, r1),        \* overlapping on one side, past the end of the file,
    E(f1, 2, 3, x, r1),        \* touching, nested in the previous one,
    E(f1, 1, 1, x, r1),        \* an insertion inside, or at an edge,
    E(f1, 2, 2, y, r1),        \* an insertion at an edge, or inside,
    E(f1, 2, 1, x, r1),        \* end before begin,
    E(f2, 0, 2, x, r1),        \* a file the store does not hold,
    E(NoFile, 0, 1, x, r1) }   \* no file at all

=============================================================================
