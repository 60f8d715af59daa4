SPECIFICATION ReviewSpec
CONSTANTS RunStatuses={"success","partial"} MaxEvents=3 MaxCrashes=1
INVARIANTS MarkedIsWhole IndexedIsReviewed RepairableAtRest AcknowledgedIsCurrent
