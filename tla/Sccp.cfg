\* Modules with a main function and integer initializers.
CONSTANTS
    pr = pr  er = er  cr = cr  c1 = c1  c2 = c2  xr = xr  yr = yr  zr = zr
    lr = lr  kr = kr  wr = wr  rr = rr  dr = dr  Undef = Undef
    AllOnes = 3
    Fold <- IntFold
    FoldCast <- IntFoldCast
    Registers <- SccpRegisters
    Globals = {"g", "h"}
    Functions = {"main", "f", "get", "external"}
    Blocks = {"m0", "m1", "m2", "m3", "f0", "f1", "f2", "f3"}
    Programs <- SomePrograms
    MaxPhi = 2
    MaxDepth = 4
SPECIFICATION Spec
INVARIANTS SolveReachesFixpoint SameValues
PROPERTY AnalysisProgresses
