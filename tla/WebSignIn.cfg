SPECIFICATION Spec
CONSTANTS
  Users = {"ann", "bob"}
  Registered = {"ann"}
  Nobody = "nobody"
  Slots = {s1, s2}
  MaxClicks = 3
  MaxFaults = 1
SYMMETRY Symmetry
INVARIANTS
  TypeOK
  CodesWorkOnce
  NewestResetCodeWorks
  BlockShownIsTrue
  DetailsAreOfLastClicked
  SignedInAsMeant
