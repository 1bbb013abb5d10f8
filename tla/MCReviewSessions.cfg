\* Two sessions side by side, over a plan and a slice of it.
SPECIFICATION Spec
CONSTANTS
  s1 = s1
  s2 = s2
  e1 = e1
  e2 = e2
  w1 = w1
  w2 = w2
  c1 = c1
  d1 = d1
  Sessions <- MCSessions
  Plans <- MCPlans
  Absent = Absent
  Torn = Torn
  MaxKeys = 4
SYMMETRY Alike
INVARIANTS
  DecisionsAreTheUsers
  ReviewedAgrees
PROPERTIES
  SavesKeepTheRest
