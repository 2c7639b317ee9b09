SPECIFICATION MCSpec
CONSTANTS
  s1 = s1
  a1 = a1
  a2 = a2
  r1 = r1
  r2 = r2
  k1 = k1
  k2 = k2
  l1 = l1
  l2 = l2
  l3 = l3
  c1 = c1
  c2 = c2
  c3 = c3
  Nobody = Nobody
  NoRecord = NoRecord
  Sellers = {s1}
  Agents = {a1, a2}
  Requests = {r1, r2}
  Records = {k1, k2}
  MaxFlats = 1
  AccountRequests = {r1, r2}
  NoLink = NoLink
  Links = {l1, l2, l3}
  CodeIds = {c1, c2, c3}
  MaxSetups = 2
  MaxAttempts = 3
  MaxCount = 6
SYMMETRY Symmetry
CHECK_DEADLOCK FALSE
INVARIANTS
  OutcomeIsBacked
  InactiveHasNoWork
  TokensWorkOnce
  LoginIsSound
PROPERTIES
  EngagementFollowsRules
