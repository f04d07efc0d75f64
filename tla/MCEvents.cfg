SPECIFICATION MCSpec
CONSTANTS
    p1 = p1  p2 = p2
    Publisher = {p1, p2}  Handler = {h1, h2}  Sink = {s1, s2}
    Buffer = 1  MaxEvents = 2  OneShot = TRUE
    Type = {t1, t2}  Session = {a, b}  Scope = a  Unscoped = Unscoped
    Capacity = 2  Window = 1  FeedEvents = 3
    Stems = {stem}  Prober = {q1, q2}  Transport = "redis"
    MaxSize = 2  Keep = 2  Attempts = 2  LogEvents = 6  MaxPosts = 3  MaxRuns = 4
INVARIANTS EveryEventIsAccountedFor ShutdownIsClean WhatIsShownIsTrue
PROPERTIES NothingIsHeldUp
CHECK_DEADLOCK FALSE
