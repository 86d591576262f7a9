SPECIFICATION ClubSpec
CONSTANTS
  p1 = p1
  p2 = p2
  chief = chief
  moderator = moderator
  newcomer = newcomer
  north = north
  south = south
  None = None
  Admin = Admin
  Procs = {p1, p2}
  Users = {chief, moderator, newcomer}
  Initial = {chief}
  Groups = {north, south}
  RoleIds = {1, 2}
  AssignmentIds = {1, 2, 3, 4}
  Permissions <- MCPermissions
  GroupPermissions = {"users.moderate", "bands.manage"}
  RoleNames <- MCNames
  PermissionChoices <- MCChoices
  LimitChoices = {1}
  Clubs <- MCClubs
  MaxRequests = 2
  BandIds = {1, 2}
  MemberIds = {1, 2, 3}
  Concerts = {1, 2}
  ApplicationIds = {1, 2}
SYMMETRY Symmetry
INVARIANTS ClubInv InitialAdminsKeepRole
PROPERTIES RulesKeptAlone NobodyRises
CHECK_DEADLOCK FALSE
