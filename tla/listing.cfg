SPECIFICATION Spec
CONSTANTS
  l1 = l1
  x1 = x1
  x2 = x2
  r1 = r1
  r2 = r2
  NoListing = NoListing
  NoText = NoText
  NoRow = NoRow
  Listings = {l1}
  Texts = {x1, x2}
  Requests = {r1, r2}
  PORTALS <- MCPortals
SYMMETRY ListingSymmetry
INVARIANTS
  ListingIsSound
  PortalsCarryDescription
PROPERTIES
  FollowsTransitions
