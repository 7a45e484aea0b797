SPECIFICATION Spec
CONSTANTS
    s1 = s1
    s2 = s2
    s3 = s3
    s4 = s4
    g = g
    m1 = m1
    m2 = m2
    MAX_SLAVES = 2
    Pids = {s1, s2, s3, g}
    NO_PID = NO_PID
    Home <- Collide
    Garbage = g
    Masters = {m1, m2}
    MaxTest = 2
    MasterFirst = FALSE
    Overfill = TRUE
INVARIANTS
    MasterUnique
\* The pids of the processes run out.
CHECK_DEADLOCK FALSE
