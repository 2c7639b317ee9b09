SPECIFICATION Spec
CHECK_DEADLOCK FALSE
CONSTANTS
  o1 = o1
  o2 = o2
  o3 = o3
  p = p
  r1 = r1
  r2 = r2
  r3 = r3
  NoOffer = NoOffer
  Offers = {o1, o2, o3}
  Properties = {p}
  Requests = {r1, r2, r3}
  PropertyOf <- MCPropertyOf
CONSTRAINT OneAnalysis
SYMMETRY OfferSymmetry
INVARIANTS
  NegotiationIsSound
PROPERTIES
  SharedOnlyReviewed
  OutcomeIsFinal
