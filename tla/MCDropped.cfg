SPECIFICATION MCSpec
CONSTANTS
    r1 = r1  r2 = r2  Legacy = Legacy  NoRun = NoRun
    p1 = p1  p2 = p2  feat = feat  c1 = c1  c2 = c2  Foreign = Foreign
    Absent = Absent  Calls = {c1}  MaxTries = 0  MaxForeign = 0
    Callers = {c1}  Purposes = {"look"}
    Outsiders = FALSE  MaxPublished = 1  MaxEdits = 0
    Sprouts = {s1, s2}  Main = main  Unsaved = {e1, e2}  Untracked = {e2}  Namesakes = {s1}  Candidates = {{}}
    Awaiting = {TRUE, FALSE}  MaxTrouble = 0  MaxDeaths = 0
INVARIANT DroppedIsRedundant
CHECK_DEADLOCK FALSE
