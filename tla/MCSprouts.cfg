SPECIFICATION MCSpec
CONSTANTS
    Process = {serve, mcp}  Identity = {id1}  Digest = {d1, d2}
    Phytomer = {q1, q2, q3}  Absent = Absent  MaxFaults = 2
    plan = plan  check = check  land = land  x1 = x1  x2 = x2
    r1 = r1  s1 = s1  s2 = s2  lone = lone  elsewhere = elsewhere  past = past  main = main
    e1 = e1  e2 = e2
    local = local  unknown = unknown  None = None
    MaxTurns = 3  MaxCalls = 2
    Addresses = 2  Offered = 2  Pieces = 2  Dialects = {"anthropic", "openai"}  Buffer = 2
    Providers = {local, hosted}  Choosers = {r1}  Dearest = 2  MaxDiscoveries = 1
    Files = {1, 2}  Tests = {2}  Readers = {r1}
    MaxBytes = 3  ItemMaxBytes = 2  MaxItems = 2  MaxRevisions = 2  MaxScans = 3
    Runs = {r1, r2}  Watchers = {r1}  MaxRetained = 1  MaxSigns = 2  MaxFiles = 1
INVARIANTS
    OpenedOnce
    StepsAreTrue TurnsAreHonest AnswersAreWhole
    ConstraintsYieldInOrder ContextIsSound
PROPERTIES
    PlanIsFollowed SilenceIsReportedOnce
CHECK_DEADLOCK FALSE
