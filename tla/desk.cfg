SPECIFICATION MCSpec
CONSTANTS
  h1 = h1
  h2 = h2
  d1 = d1
  g1 = g1
  p1 = p1
  p2 = p2
  p3 = p3
  k1 = k1
  k2 = k2
  Dates = {d1}
  Quarters = 2
  Handlers = {h1, h2}
  PerDay = 2
  MaxActive = 2
  MaxViewed = 1
  PhotoRequests = {h1, h2}
  NoListing = NoListing
  NoPhoto = NoPhoto
  Listings = {g1}
  Photos = {p1, p2, p3}
  Hashes = {k1, k2}
  HashOf <- MCHashOf
  MAX_PHOTOS = 2
  MaxOrder = 2
SYMMETRY Symmetry
CHECK_DEADLOCK FALSE
INVARIANTS
  CalendarIsSound
  PhotosAreSound
PROPERTIES
  
  LeavesAfterItsFiles
