SPECIFICATION FairSpec
CONSTANTS
    Segments = 5
    ErrorSize = 2
    Rounds = 3
    MaxLosses = 2
    MaxPosts = 1
    MaxPauses = 2
    Prompt = TRUE
INVARIANTS
    TypeOK
    SampleWhole
    SampleTaken
    ErrorsAccounted
    ErrorsJustified
PROPERTIES
    LossesLogged
    ExchangeGoesOn
