\* gn is called once directly, and by pointer.
CONSTANTS
    main = main  fn = fn  gn = gn  hn = hn  one = one  two = two
    Functions = {main, fn, gn, hn}
    Exported = {main}
    AddressTaken = {gn}
    Arity <- MCArity
    Constants = {one, two, hn}
    Text <- OwnText
    Programs <- TakenPrograms
    Policies = {"onlyonce"}
    Threshold = 2
SPECIFICATION Spec
INVARIANTS AtMostOneCopy
CHECK_DEADLOCK FALSE
