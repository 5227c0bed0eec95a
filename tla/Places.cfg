SPECIFICATION Spec
CONSTANTS
  None = None  show = show  book = book  chris = chris  kay = kay
  Sessions = {s1, s2}  Threads = {t1, t2}  Profiles = {chris}  Works = {show, book}
  Items <- AndBonus  Order <- WithBook  Methods <- FilmAndBook
  PassageInputs <- SceneAndText  MarkInputs <- NoMarksMade
  PlaceWriters = {chris}  Vanishing = {}  Chapters <- NoChapters  Snap = 0  Extras = {3}
  MaxIdle = 0  MarkMemoTTL = 0  ReadIdle = 1  PlaylistWait = 0
INVARIANTS TypeOK OwnPassageHolds
PROPERTY SessionsKeepTheirItem
SYMMETRY Interchangeable
