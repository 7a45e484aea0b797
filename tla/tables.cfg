SPECIFICATION Spec
CONSTANTS
    s1 = s1
    s2 = s2
    s3 = s3
    s4 = s4
    g = g
    m1 = m1
    m2 = m2
    MAX_SLAVES = 3
    Pids = {s1, s2, s3, s4, g}
    NO_PID = NO_PID
    Home <- Wrap
    Garbage = g
    Masters = {m1, m2}
    MaxTest = 3
    MasterFirst = TRUE
    Overfill = FALSE
INVARIANTS
    TypeOK
    RegistryExact
    IndexFound
    OneServer
    NothingLeftBehind
PROPERTIES
    DirectorySpec
    RecordKept
\* The pids of the processes run out.
CHECK_DEADLOCK FALSE
