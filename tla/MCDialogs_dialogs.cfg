SPECIFICATION Spec
CONSTANTS
  duo = duo
  trio = trio
  ann = ann
  bob = bob
  cat = cat
  gala = gala
  ball = ball
  self = self
  this = this
  that = that
  None = None
  Menus <- MCMenus
  Bands = {duo, trio}
  PlanBands = {duo}
  Crew <- MCCrew
  Purposes = {self}
  Durations = {1, 2}
  Lengths = {1, 2}
  Days = {0, 1}
  MaxPriorities = 2
  Concerts = {gala, ball}
  Applications = {1, 2}
  Listed <- MCListed
  OwnEvents = {1, 2}
  Texts = {this, that}
  MaxInFlight = 2
PROPERTIES SentAsTold PlanFits NothingAfterCancel
CHECK_DEADLOCK FALSE
