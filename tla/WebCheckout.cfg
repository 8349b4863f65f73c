SPECIFICATION FairSpec
CONSTANTS
  Tabs = {"t1"}
  Customers = {"c1"}
  Owner <- OneCustomer
  Products = {"p1"}
  Lines = {"l1", "l2"}
  ProductOf <- OneProduct
  Carts <- SmallCarts
  TypedStocks <- Typed
  InitStock <- Stocks
  Slots = {1, 2}
  MaxUnits = 2
  MaxVisits = 2
  MaxFaults = 1
  Calls = {1}
  MaxChanges = 1
ACTION_CONSTRAINT Separately
CHECK_DEADLOCK FALSE
INVARIANTS
  TypeOK
  PaymentsAreToldTruly
  StockMatchesOrders
PROPERTIES
  EveryPaymentEnds
