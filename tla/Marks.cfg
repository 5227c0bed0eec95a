SPECIFICATION Spec
CONSTANTS
  None = None  show = show  book = book  chris = chris  kay = kay
  Sessions = {s1, s2}  Threads = {t1}  Profiles = {chris, kay}  Works = {show}
  Items <- Episodes  Order <- TwoFiles  Methods <- Direct
  PassageInputs <- NoPassages  MarkInputs <- OwnSeconds
  PlaceWriters = {}  Vanishing = {}  Chapters <- NoChapters  Snap = 0  Extras = {}
  MaxIdle = 0  MarkMemoTTL = 0  ReadIdle = 0  PlaylistWait = 0
INVARIANTS MarksStayHome MarksMintAWholePassage
SYMMETRY Interchangeable
