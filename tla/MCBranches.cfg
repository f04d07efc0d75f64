SPECIFICATION MCSpec
CONSTANTS
    r1 = r1  r2 = r2  Legacy = Legacy  NoRun = NoRun
    p1 = p1  p2 = p2  feat = feat  c1 = c1  c2 = c2  Foreign = Foreign
    Absent = Absent  Calls = {c1, c2}  MaxTries = 2  MaxForeign = 1
    Callers = {c1, c2}  Purposes = {"fetch", "start", "run", "track", "own", "look"}
    Outsiders = TRUE  MaxPublished = 2  MaxEdits = 1
    Sprouts = {s1, s2}  Main = main  Unsaved = {e1, e2}  Untracked = {e2}  Namesakes = {s1}  Candidates = {{}, {s2}}
    Awaiting = {TRUE, FALSE}  MaxTrouble = 1  MaxDeaths = 1
SYMMETRY Alike
INVARIANTS FetchesHold PublishedOnce CheckoutIsRespected
PROPERTIES RunWorkIsKept DelegatedWorkIsKept
CHECK_DEADLOCK FALSE
