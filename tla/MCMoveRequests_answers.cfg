SPECIFICATION Spec
CONSTANTS
  p1 = p1
  p2 = p2
  job = job
  ann = ann
  bob = bob
  cat = cat
  b1 = b1
  b2 = b2
  b3 = b3
  None = None
  Procs = {p1, p2, job}
  Job = job
  Users = {ann, bob, cat}
  Privileged = {}
  Bands = {}
  BookingIds = {b1, b2, b3}
  About <- OfAnn
  Slots <- Apart
  RequestIds = {1, 2, 3}
  Ttl = 3
  MaxPending = 2
  Settings <- Open
  MaxTime = 0
  Offered = {"ask", "accept", "decline", "elsewhere"}
  DayUnits = 8
  WeekDays = 7
  HorizonDays = 1
  PriorityDays = 1
  Step = 1
  WeeklyPlanning = FALSE
SYMMETRY Symmetry
CONSTRAINT OneStory
INVARIANTS RequestsInv AsksBounded
PROPERTIES AnsweredOnce AcceptSettles ImplementsCalendar
