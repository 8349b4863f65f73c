SPECIFICATION Spec
CONSTANTS
  Requests = {"r1", "r2", "r3"}
  Customers = {"c1", "c2"}
  Products <- TwoAndAnAlias
  CatalogId <- Named
  CustomerOf <- AllOfOne
  MaxQuantity = 2
  MaxItems = 2
  ModelMax = 2
  NoCart = NoCart
  Overlap = FALSE
  OthersWrite = FALSE
CHECK_DEADLOCK FALSE
PROPERTIES
  ImplementsAtomicCart
