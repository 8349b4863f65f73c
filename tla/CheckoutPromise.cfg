SPECIFICATION FairSpec
CONSTANTS
  Requests = {"r1", "r2"}
  Customers = {"c1", "c2"}
  Products <- TwoProducts
  Emails = {"e1", "e2"}
  Carts <- MCCarts
  NoCart = NoCart
  NoKey = NoKey
  NoEmail = NoEmail
  NoOrder = NoOrder
  EmptyKey = EmptyKey
  CustomerOf <- PairCustomer
  EmailOf <- PairEmail
  KeyOf <- SameKey
  InitialStock <- MCStock
  InitialMirror <- OwnRows
  MaxAttempts = 2
CHECK_DEADLOCK FALSE
PROPERTIES
  ImplementsOrderPlacement
  EveryRequestEnds
