SPECIFICATION Spec
CONSTANTS
  Users = {ann, bob}
  Nobody = nobody
  Unset = unset
  Slots = {s1, s2}
  MaxSaves = 2
  MaxFaults = 1
SYMMETRY Symmetry
CONSTRAINT Promised
ACTION_CONSTRAINT SignedInForTwoSaves
INVARIANTS
  TypeOK
  ProfilesAreOwn
  FormsAreCurrent
