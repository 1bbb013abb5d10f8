\* Short texts, and long ones with changes up to eight equal lines apart.
SPECIFICATION PlanSpec
CONSTANTS
  Rewrites <- MCRewrites
  FrontLine <- MCB
  NoText = NoText
CHECK_DEADLOCK FALSE
INVARIANTS
  ShortestDiff
  HeadersTrue
  PatchYieldsNew
  RewriteIsSmallest
  PlacesAgree
  ReviewShowsEdit
