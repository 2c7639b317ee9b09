SPECIFICATION Spec
CONSTANTS
  t = t
  p = p
  l = l
  r1 = r1
  r2 = r2
  NoTransaction = NoTransaction
  Transactions = {t}
  Properties = {p}
  Listings = {l}
  Requests = {r1, r2}
  PropertyOf <- MCPropertyOf
  ListingOf <- MCListingOf
  CoBroke = {}
  EaaConfirmed = {t}
  BuyerVerified = {t}
SYMMETRY RequestSymmetry
INVARIANTS
  OptionIsSound
  SubmittedIsExercised
  FallenThroughIsWithdrawn
PROPERTIES
  ImplementsSale
  StepsAreGated
  CascadeExpiresOtp
