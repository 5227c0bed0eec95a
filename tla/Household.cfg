SPECIFICATION FairSpec
CONSTANTS
    None = None
    Slug <- AsItIs
    Files <- TheFiles
    File <- Catalogue
    Late = {2}
    Length = 10
    Places = {0, 4, 9}
    Fit = {"PG"}
    MaxEvents = 3
INVARIANTS TypeOK EveryFileIsWalkedPast WhatIsOfferedOpens
PROPERTIES ForgottenTitleLeaves FinishingNeverSetsBack SeenThrough
CHECK_DEADLOCK FALSE
