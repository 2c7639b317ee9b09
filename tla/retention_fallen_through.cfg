SPECIFICATION Spec
CONSTANTS
  s1 = s1
  t1 = t1
  t2 = t2
  NoSeller = NoSeller
  Sellers = {s1}
  Txs = {t1, t2}
  SellerOf <- MCSellerOf
  MaxFailures = 0
  Scenarios <- MCScenarios
PROPERTIES
  FallenThroughIsForgotten
