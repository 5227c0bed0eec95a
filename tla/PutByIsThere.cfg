SPECIFICATION Spec
CONSTANTS
    None = None
    Slug <- AsItIs
    Files <- TheFiles
    File <- Catalogue
    Late = {2}
    Length = 10
    Places = {0, 4}
    Fit = {"PG"}
    MaxEvents = 3
PROPERTY PutByIsThere
CHECK_DEADLOCK FALSE
