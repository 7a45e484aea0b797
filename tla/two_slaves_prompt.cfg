SPECIFICATION Spec
CONSTANTS
    s1 = s1
    s2 = s2
    s3 = s3
    s4 = s4
    Slaves = {s1, s2}
    NoPid = NoPid
    BaseName <- OneWord
    Segments = 1
    ChangeNameMax = 1
    MaxTokens = 3
    MaxSpawned = 1
    Stale = {"nobody"}
    Commands = {"CONNECT_SLAVE", "DISCONNECT_SLAVE", "START_SLAVE_CYCLE", "STOP_SLAVE_CYCLE",
                "DELETE_SLAVE", "OTHER"}
    MaxCommands = 7
    Prompt = TRUE
SYMMETRY AnySlave
INVARIANTS
    OneProcessor
    LinkLockBinary
    FirstRequest
    NoSignalLeftOver
    NoLateAnswer
    Conversation
PROPERTIES
    SessionSpec
\* The user may stop giving commands.
CHECK_DEADLOCK FALSE
