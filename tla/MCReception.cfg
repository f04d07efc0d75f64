SPECIFICATION MCSpec
CONSTANTS
    q1 = q1  q2 = q2  Pollens = {q1, q2}  Operator = Operator  Substrates = {"s"}
    Watchers = {w1}  Commands = {c1}  NoSeed = NoSeed  MaxRuns = 2  MaxChanges = 2
    d1 = d1  d2 = d2  Serving = {d1, d2}  Ports = {"p1", "p2"}  Inodes = {1, 2}
    NoKey = NoKey  EnvKey = EnvKey  Outsiders = TRUE  MaxStarts = 3  MaxRequests = 1
    g1 = g1  g2 = g2  Clients = {g1, g2}  Parts = 2  Burst = 1  MaxTime = 2
    Limit <- MCLimit
    m1 = m1  m2 = m2  Grafting = {m1, m2}  MaxWork = 2  MaxGrafts = 2  MaxKeys = 2
    Crashes = TRUE
SYMMETRY Alike
INVARIANTS SeenByItsOwner IngressIsBounded
PROPERTIES ServiceIsOrderly GraftsAreGoverned
CHECK_DEADLOCK FALSE
