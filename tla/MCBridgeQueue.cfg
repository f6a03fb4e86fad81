CONSTANTS
  Tasks = {t1, t2, t3, t4}
  Drains = {d1, d2}
  MaxPendings <- Bounds

SPECIFICATION QueueSpec
INVARIANTS QueueTypeOK WithinCapacity NothingLostOrRepeated BatchesInArrivalOrder
PROPERTIES ImplementsLedger TakenTasksEnd
