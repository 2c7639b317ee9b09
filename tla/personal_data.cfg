SPECIFICATION MCSpec
CONSTANTS
  d1 = d1
  d2 = d2
  d3 = d3
  r1 = r1
  r2 = r2
  p1 = p1
  p2 = p2
  q1 = q1
  q2 = q2
  NoDoc = NoDoc
  NoDeletion = NoDeletion
  Deletions = {q1, q2}
  NoPaper = NoPaper
  Docs = {d1, d2, d3}
  Requests = {r1, r2}
  Papers = {p1, p2}
  MaxFiles = 1
  MaxCdd = 1
SYMMETRY Symmetry
CHECK_DEADLOCK FALSE
INVARIANTS
  DocumentsAreSound
  PapersAreSound
  ConsentIsSound
  ErasureIsSound
