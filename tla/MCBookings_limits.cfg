SPECIFICATION Spec
CONSTANTS
  p1 = p1
  p2 = p2
  ann = ann
  bob = bob
  adm = adm
  duo = duo
  None = None
  Procs = {p1, p2}
  Users = {ann, bob}
  Staff = {}
  Bands <- MCBands
  Members <- MCMembers
  Owners <- MCOwners
  Muted = {}
  Slots <- TwoDays
  BookingIds = {1, 2, 3}
  EntryIds = {}
  MaxEntries = 1
  SettingsChoices <- Tight
  MaxTime = 3
  Operations = {"create", "update", "delete"}
  DayUnits = 5
  WeekDays = 7
  HorizonDays = 1
  PriorityDays = 1
  Step = 1
  WeeklyPlanning = FALSE
SYMMETRY Symmetry
INVARIANTS BandsWithinLimits
