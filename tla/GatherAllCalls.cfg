\* Programs of two modules, with recursion, callbacks and calls by pointer.
\* The passes stop when deep returns.
CONSTANTS
    main = main  hlp = hlp  cb = cb  fn = fn  gn = gn  one = one  two = two
    NModules = 2
    Functions = {main, hlp, cb, fn, gn}
    Constants = {one, two}
    Arity <- MCArity
    MainCalls <- MCMainCalls
    Programs <- TwoModules
SPECIFICATION Spec
INVARIANT AllCallsInInterface
CHECK_DEADLOCK FALSE
