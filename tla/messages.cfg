SPECIFICATION MCSpec
CONSTANTS
  s1 = s1
  v1 = v1
  v2 = v2
  h1 = h1
  h2 = h2
  Sends = {s1}
  Items = {v1, v2}
  Handlers = {h1, h2}
  MaxRetries = 2
  MaxLate = 1
  Horizon = 10
  MaxNotices = 3
CHECK_DEADLOCK FALSE
INVARIANTS
  DeliveryIsSound
  RemindersAreSound
PROPERTIES
  FailureIsFollowedUp
  InvoiceIsSound
