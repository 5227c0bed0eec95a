SPECIFICATION FairSpec
CONSTANTS
    None = None
    Keys = {1, 2}
    Titles = {"show", "film"}
    Profiles = {p}
    MaxId = 2
    MaxSeq = 3
    MaxState = 1
    Scans <- OneShow
    Enrichments <- TheFilm
    Positions = {1}
PROPERTIES WorksCatchUp
