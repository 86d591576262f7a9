SPECIFICATION Spec
CONSTANTS
  p1 = p1
  p2 = p2
  ann = ann
  bob = bob
  adm = adm
  duo = duo
  None = None
  Procs = {p1, p2}
  Users = {ann}
  Staff = {}
  Bands <- MCBands
  Members <- Solo
  Owners <- Solo
  Muted = {}
  Slots <- Short
  BookingIds = {1, 2}
  EntryIds = {1, 2}
  MaxEntries = 1
  SettingsChoices <- Changing
  MaxTime = 1
  Operations = {"create", "join", "take", "delete", "deleteBand", "moderate"}
  DayUnits = 5
  WeekDays = 7
  HorizonDays = 1
  PriorityDays = 1
  Step = 1
  WeeklyPlanning = FALSE
SYMMETRY Symmetry
INVARIANTS WaitlistBounded
PROPERTIES EntryKept
