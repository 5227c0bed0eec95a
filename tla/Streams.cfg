SPECIFICATION LiveSpec
CONSTANTS
  None = None  show = show  book = book  chris = chris  kay = kay
  Sessions = {s1, s2}  Threads = {t1, t2}  Profiles = {chris}  Works = {show}
  Items <- Film  Order <- OneFile  Methods <- Transcode
  PassageInputs <- NoPassages  MarkInputs <- NoMarksMade
  PlaceWriters = {}  Vanishing = {s1, s2}  Chapters <- NoChapters  Snap = 0  Extras = {}
  MaxIdle = 1  MarkMemoTTL = 0  ReadIdle = 1  PlaylistWait = 1
INVARIANTS NoOrphanProcess StreamHasOwner
PROPERTY VanishedClientIsReaped
