SPECIFICATION FairSpec
CONSTANTS
  p1 = p1
  p2 = p2
  job = job
  ann = ann
  bob = bob
  cat = cat
  b1 = b1
  b2 = b2
  b3 = b3
  None = None
  Procs = {p1, job}
  Job = job
  Users = {ann, bob}
  Privileged = {}
  Bands = {}
  BookingIds = {1, 2}
  About <- OfAnn
  Slots <- Apart
  RequestIds = {1, 2}
  Ttl = 3
  MaxPending = 1
  Settings <- Open
  MaxTime = 3
  Offered = {"ask", "accept", "decline", "withdraw", "elsewhere", "ban"}
  DayUnits = 8
  WeekDays = 7
  HorizonDays = 1
  PriorityDays = 1
  Step = 1
  WeeklyPlanning = FALSE
PROPERTIES EveryAskCloses
