SPECIFICATION Spec

CONSTANTS
    Phytomer = {p1}
    Pollen = {local}
    Key = {k1, k2}
    Intent = {i1, i2}
    Process = {serve, mcp}
    MaxIterations = 2
    MaxFaults = 1

SYMMETRY Symmetry

CHECK_DEADLOCK FALSE

INVARIANTS
    NoIntentIsStranded
    GrowthIsAccountable

PROPERTIES
    PromiseKept
