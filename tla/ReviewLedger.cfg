SPECIFICATION Spec
CONSTANTS
  Candidates = {d1, d2}
  Material = {d1}
  ChangeIds = {x1, x2}
  SystemsKnown = FALSE
  MaxReviews = 4
INVARIANT TypeOK
INVARIANT HistoryIsChain
INVARIANT ChangesComeWithReviews
INVARIANT SilenceIsDecided
PROPERTY DecisionsStand
