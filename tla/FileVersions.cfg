SPECIFICATION FairSpec
CONSTANTS
    MaxSpecs = 2
    MaxFixpoint = 2
    MaxRuns = 2
    PevalOptions <- AllPasses
    Options <- Everything
INVARIANTS PevalHandsOutBitcode EffectsKept FinalIsWhole
PROPERTY SlashEnds
