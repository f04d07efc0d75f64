SPECIFICATION MCClockSpec
CONSTANTS
    Name = {nightly}
    Entry = {queueing}
    Queue = {queueing}
    Worker = {w1}
    Retries = 0
    MaxEdits = 0
    Absent = Absent
    Bad = Bad
    Zones <- MCFallBack
    Starts <- MCStart
    c1 = c1  c2 = c2  u1 = u1
    a = a  b = b  url1 = url1  url2 = url2  secret = secret  g1 = g1
    NoName = NoName  NoDoc = NoDoc  Broken = Broken
INVARIANTS
    SearchEnds
CHECK_DEADLOCK FALSE
