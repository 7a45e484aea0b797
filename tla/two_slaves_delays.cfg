SPECIFICATION Spec
CONSTANTS
    s1 = s1
    s2 = s2
    s3 = s3
    s4 = s4
    Slaves = {s1, s2}
    NoPid = NoPid
    BaseName <- OneWord
    Segments = 1
    ChangeNameMax = 1
    MaxTokens = 2
    MaxSpawned = 1
    Stale = {s1, s2, "nobody", "group", "negative"}
    Commands = {"CONNECT_SLAVE", "DISCONNECT_SLAVE"}
    MaxCommands = 4
    Prompt = FALSE
SYMMETRY AnySlave
INVARIANTS
    NamesKeptApart
\* The user may stop giving commands.
CHECK_DEADLOCK FALSE
