SPECIFICATION Spec
CONSTANTS
    MaxLsn <- LsnBound
    MaxFaults = 1
    Modes = {"finite", "service"}
INVARIANTS QuiescentRetirement CompleteOnSuccess
  
