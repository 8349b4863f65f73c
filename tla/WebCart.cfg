SPECIFICATION Spec
CONSTANTS
  Tabs = {t1}
  Products = {p1, p2}
  Slots = {s1, s2}
  MaxClicks = 3
  MaxFaults = 1
SYMMETRY Symmetry
CHECK_DEADLOCK FALSE
INVARIANTS
  TypeOK
  UnitsChangeOnlyIfDisturbed
  CartPageIsCurrent
