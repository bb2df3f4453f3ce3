\* Modules with recursion, all policies, at most two copies when bounded.
\* peval stops when a pass makes no progress.
CONSTANTS
    main = main  fn = fn  gn = gn  hn = hn  one = one  two = two
    Functions = {main, fn, gn, hn}
    Exported = {main}
    AddressTaken = {gn}
    Arity <- MCArity
    Constants = {one, two, hn}
    Text <- OwnText
    Programs <- MCPrograms
    Policies = {"aggressive", "nonrec-aggressive", "bounded", "onlyonce"}
    Threshold = 2
SPECIFICATION FairSpec
INVARIANTS CallsKeepMeaning CopiesBounded RecursionNotCopied OneCopyIfOnlyOnce
PROPERTY Terminates
CHECK_DEADLOCK FALSE
