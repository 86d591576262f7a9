SPECIFICATION FairSpec
CONSTANTS
  p1 = p1
  p2 = p2
  ann = ann
  bob = bob
  adm = adm
  duo = duo
  None = None
  Procs = {p1, p2}
  Users = {ann, adm}
  Staff = {adm}
  Bands = {}
  Members <- Nobody
  Owners <- Nobody
  Muted = {}
  Slots <- Short
  BookingIds = {1}
  EntryIds = {1}
  MaxEntries = 1
  SettingsChoices <- Generous
  MaxTime = 1
  Operations = {"create", "join", "take", "ban"}
  DayUnits = 5
  WeekDays = 7
  HorizonDays = 1
  PriorityDays = 1
  Step = 1
  WeeklyPlanning = FALSE
PROPERTIES BanReleases EveryRequestAnswered
