SPECIFICATION FairSpec
CONSTANTS
  NDocs = 2
  Procs <- MCProcs
  Commands <- MCCommands
  Versions <- MCVersions
  MaxPublished = 2
  MaxChunker = 2
  MaxFaults = 1
  SourceMoves = FALSE
  None = None
INVARIANTS ReadyIsIndexed  ConsumedIsApplied
PROPERTY Converges
