SPECIFICATION FairSpec
CONSTANTS
    None = None
    Keys = {1, 2}
    Titles = {"film", "short", "home"}
    Profiles = {}
    MaxId = 4
    MaxSeq = 1000
    MaxState = 0
    Rounds = {r1, r2}
    Identify <- Paths
    Lookup <- TheTwo
    BatchSize = 2
    MaxBuild = 3
    ProbeVersion <- SameButLast
    EnrichmentVersion <- SameButLast
    MaxEvents = 2
VIEW Uncounted
INVARIANTS TypeOK MediaIsNotOlder
PROPERTIES OverrideSticks NothingPresentIsLost LibraryConverges EnrichmentConverges
