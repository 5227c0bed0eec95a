SPECIFICATION FairSpec
CONSTANTS
    None = None
    Ids = {1}
    Workers = {w1, w2}
    LocalStage = TRUE
    Limit = 2
    Wordless = {1}
    MaxEvents = 1
INVARIANTS TypeOK RowsAreServable
PROPERTIES EverySilentFileIsHeard TextFollowsTheFile
