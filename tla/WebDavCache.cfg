SPECIFICATION CacheSpec
CONSTANTS
    NKeys = 1
    MaxVersion = 4
    MaxRefresh = 3
    MaxFaults = 2
    Size <- MCSize
    Options = {{}, {"prune"}, {"adopt", "prune"}}
    Servers = {{"listTags", "getTags", "sizes"}, {"listTags", "sizes"}, {"sizes"}, {"listTags", "getTags"}}
INVARIANTS
    IndexNeverAhead
    RefreshMirrors
PROPERTIES
    RefreshIsMirror
CHECK_DEADLOCK FALSE
