SPECIFICATION Spec
CONSTANTS
  Libraries = {l1}
  Candidates = {c1, c2}
  Prod = Prod
  None = None
  Pieces = 1
  MaxRev = 2
  MaxRuns = 3
  MaxSnaps = 1
  MaxFaults = 1
  MaxJobs = 2
  MaxOps = 5
  CleanRaces = FALSE
INVARIANTS VerifiedIsComplete ServedIsComplete 
SYMMETRY MCSymmetry
CHECK_DEADLOCK FALSE
