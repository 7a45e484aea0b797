SPECIFICATION Spec
CONSTANTS
    Segments = 2
    ErrorSize = 2
    Rounds = 3
    MaxLosses = 0
    MaxPosts = 2
    MaxPauses = 0
    Prompt = FALSE
PROPERTIES
    UndefinedNotRecorded
