SPECIFICATION Spec
CONSTANTS
    Modes = {"service", "bounded"}
    MaxWal = 1
    MaxGens = 2
    MaxFaults = 1
    HangTicks = 1
    Backoff <- MCBackoff
    Prompt = 1
    SampleStale = 1
    ProgressStale = 1
    DarkAfter = 2
    Stable = 2
    IdleTicks = 3
INVARIANTS RenewalIsOurs DarkIsReported IdleIsHonest
