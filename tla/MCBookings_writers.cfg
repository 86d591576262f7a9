SPECIFICATION Spec
CONSTANTS
  p1 = p1
  p2 = p2
  ann = ann
  bob = bob
  adm = adm
  duo = duo
  None = None
  Procs = {p1, p2}
  Users = {adm}
  Staff = {adm}
  Bands = {}
  Members <- Nobody
  Owners <- Nobody
  Muted = {}
  Slots <- Today
  BookingIds = {1, 2, 3}
  EntryIds = {1}
  MaxEntries = 1
  SettingsChoices <- Generous
  MaxTime = 0
  Operations = {"create", "staff", "priority", "update", "join", "delete"}
  DayUnits = 5
  WeekDays = 7
  HorizonDays = 1
  PriorityDays = 1
  Step = 1
  WeeklyPlanning = FALSE
SYMMETRY Symmetry
INVARIANTS BookingsInv
PROPERTIES ImplementsCalendar WaiterTold OfferTakeable
