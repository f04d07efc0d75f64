SPECIFICATION MCSpec
CONSTANTS
    Name = {nightly}
    Entry = {skipping, queueing}
    Queue = {queueing}
    Worker = {w1, w2, w3}
    Retries = 1
    MaxEdits = 2
    Absent = Absent
    Bad = Bad
    Zones <- MCZones
    Starts <- MCStarts
    c1 = c1  c2 = c2  u1 = u1
    a = a  b = b  url1 = url1  url2 = url2  secret = secret  g1 = g1
    NoName = NoName  NoDoc = NoDoc  Broken = Broken
INVARIANTS
    OneRunAtATime
PROPERTIES
    QueuedFireIsGrown
    SchedulesAreKept SessionIsDurableAlone RegistryIsKept
CHECK_DEADLOCK FALSE
