SPECIFICATION Spec
CONSTANTS
  None = None  show = show  book = book  chris = chris  kay = kay
  Sessions = {s1}  Threads = {t1}  Profiles = {chris}  Works = {show}
  Items <- Episodes  Order <- TwoFiles  Methods <- Direct
  PassageInputs <- RunOfTwo  MarkInputs <- NoMarksMade
  PlaceWriters = {chris}  Vanishing = {}  Chapters <- NoChapters  Snap = 0  Extras = {}
  MaxIdle = 0  MarkMemoTTL = 0  ReadIdle = 0  PlaylistWait = 0
PROPERTY PlaceHeldByPassage
