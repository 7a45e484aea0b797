SPECIFICATION FairSpec
CONSTANTS
    s1 = s1
    s2 = s2
    s3 = s3
    s4 = s4
    Slaves = {s1, s2, s3, s4}
    NoPid = NoPid
    BaseName <- Overlapping
    Segments = 1
    ChangeNameMax = 2
    MaxTokens = 3
    MaxSpawned = 1
    Stale = {"nobody"}
    Commands = {"CONNECT_SLAVE", "DISCONNECT_SLAVE"}
    MaxCommands = 7
    Prompt = TRUE
INVARIANTS
    UniqueNames
PROPERTIES
    ConnectCompletes
    TimeoutJustified
\* The user may stop giving commands.
CHECK_DEADLOCK FALSE
