SPECIFICATION FairSpec
CONSTANTS
  s1 = s1
  s2 = s2
  job = job
  None = None
  Sessions = {s1}
  Job = job
  Events <- Three
  Changes = {2, 3}
  Batch = 1
  MaxAttempts = 2
  Faults <- Kinds
  MaxFaults = 2
  Weight <- MCWeight
INVARIANTS DeliveryInv InBatchOrder DeliveredOnce
PROPERTIES ImplementsCourier EveryPromiseKept EveryChangeShown
CHECK_DEADLOCK FALSE
