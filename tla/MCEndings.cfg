SPECIFICATION MCSpec
CONSTANTS
    local = local  key = key  intent = intent  serve = serve  mcp = mcp
    id1 = id1  d1 = d1  d2 = d2  q1 = q1  q2 = q2  q3 = q3  Absent = Absent
    plan = plan  check = check  land = land  x1 = x1  x2 = x2
    r1 = r1  r2 = r2  s1 = s1  s2 = s2  lone = lone  abroad = abroad  past = past  main = main
    None = None
PROPERTIES WhatBeginsEnds
CHECK_DEADLOCK FALSE
