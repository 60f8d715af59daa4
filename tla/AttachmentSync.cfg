SPECIFICATION AttachmentSpec
CONSTANTS
    NKeys = 1
    MaxVersion = 3
    Size <- MCSize
    Names = {"a", "b", "c"}
    Members <- MCMembers
    Broken = {3}
    MaxMeta = 2
    MaxSyncs = 3
    MaxWrites = 4
INVARIANTS
    ReadyIsFromArchive
    ReadyHasFile
    ScanIsComplete
CHECK_DEADLOCK FALSE
