SPECIFICATION Spec
CONSTANTS
    Phytomer = {p1, p2}  Pollen = {local, remote}  Key = {k1, k2}  Intent = {i1, i2}
INVARIANTS
    SettledLeavesNothingUnresolved FruitCarriesEveryIntent
PROPERTIES
    AcceptedIntentIsPermanent SettledIsFinal
CHECK_DEADLOCK FALSE
