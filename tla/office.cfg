SPECIFICATION MCSpec
CONSTANTS
  h1 = h1
  h2 = h2
  x1 = x1
  x2 = x2
  w1 = w1
  w2 = w2
  v1 = v1
  v2 = v2
  r1 = r1
  r2 = r2
  Staff = {h1, h2}
  Texts = {x1, x2}
  Weeklies = {w1, w2}
  Visitors = {v1, v2}
  MaxBadRuns = 1
  Rows = {r1, r2}
  MaxNotices = 2
  Records <- MCRecords
  Seeded <- MCSeeded
  PageSize = 2
  MaxRetries = 2
CHECK_DEADLOCK FALSE
INVARIANTS
  PublishedIsReviewed
  ReportsAreSound
  SyncFetchesAll
PROPERTIES
  ReferralCompletes
