SPECIFICATION Spec
CONSTANTS
  Requests = {"r1", "r2", "r3"}
  Customers = {"c1", "c2"}
  Products <- TwoProducts
  Emails = {"e1", "e2"}
  Carts <- FullCarts
  NoCart = NoCart
  NoKey = NoKey
  NoEmail = NoEmail
  NoOrder = NoOrder
  EmptyKey = EmptyKey
  CustomerOf <- RetryCustomer
  EmailOf <- RetryEmail
  KeyOf <- RetryKey
  InitialStock <- MCStock
  InitialMirror <- NoRows
  MaxAttempts = 1
CHECK_DEADLOCK FALSE
INVARIANTS
  TypeOK
  StockConserved
  NoOversell
  OneOrderPerKey
  MirrorEmailsUnique
  AnswersAreTrue
PROPERTIES
  CartClearedOnlyWhenInvoiced
