SPECIFICATION Spec

CONSTANTS
    Phytomer = {p1}
    Pollen = {local}
    Key = {k1}
    Intent = {i1}
    Process = {serve, mcp}
    MaxIterations = 2
    MaxFaults = 0

CHECK_DEADLOCK FALSE

PROPERTIES
    ReconcileSparesLiveGrowth
