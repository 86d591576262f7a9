SPECIFICATION FairSpec
CONSTANTS
  duo = duo
  ann = ann
  bob = bob
  None = None
  BookingIds = {1, 2}
  Slots <- MCSlots
  Bands = {duo}
  People = {ann, bob}
  Responsible <- MCResponsible
  Founders = {duo, ann}
  Holders <- MCHolders
  AddedLines <- MCAdded
  WeekDays = 2
  Horizon = 0
  Batch = 1
  Budgets <- MCBudgets
  MaxDay = 1
INVARIANTS BackupInv AppendedOnce
PROPERTIES RestoringOnlyAdds HistoryReachesSheet ScheduleReachesSheet
CHECK_DEADLOCK FALSE
