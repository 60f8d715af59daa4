SPECIFICATION RetentionSpec
CONSTANTS Collections={b,c,o} Base=b Candidates={c} NoColl=none Keys={k} Expiry=1 Grace=1 MaxNow=2 MaxDeaths=1
INVARIANTS AliasHasItsFiles ServedExists QuarantinedIsUnreferenced
PROPERTIES SwitchIsAtomic 
CHECK_DEADLOCK FALSE
