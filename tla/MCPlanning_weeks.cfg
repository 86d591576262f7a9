SPECIFICATION FairSpec
CONSTANTS
  p1 = p1
  p2 = p2
  duo = duo
  trio = trio
  None = None
  Procs = {p1, p2}
  Bands = {duo, trio}
  RequestIds = {1, 2}
  BookingIds = {1, 2, 3}
  RequestChoices <- MCRequests
  HandChoices <- MCHand
  SettingsChoices <- MCSettings
  WeekDays = 2
  DayEnd = 1
  AllocationTime = 1
  FirstDay = 1
  MaxDay = 3
  LastWeek = 2
  MaxCrashes = 1
  STEP = 1
INVARIANTS WeeksInv
PROPERTIES NothingPast OvershootIsRaced DueWeekPublished ImplementsCalendar
CHECK_DEADLOCK FALSE
