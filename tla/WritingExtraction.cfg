SPECIFICATION ExtractSpec
CONSTANTS NDocs=2 MinPilot=2 ExtractRuns=2 MaxSrc=2 MaxBundle=2 MaxUpsets=2
INVARIANTS RecordedIsCheckpointed MarkerNeverAhead  MadeFromSelection
PROPERTIES RunsFinish
CHECK_DEADLOCK FALSE
