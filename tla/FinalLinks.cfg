SPECIFICATION Spec
CONSTANTS
    MaxSpecs = 0
    MaxFixpoint = 1
    MaxRuns = 1
    PevalOptions <- Alone
    Options <- TwoRuns
INVARIANT FinalLinkResolves
