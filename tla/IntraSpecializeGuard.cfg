\* fn calls hn through its parameter, and is called by hn.
CONSTANTS
    main = main  fn = fn  gn = gn  hn = hn  one = one  two = two
    Functions = {main, fn, gn, hn}
    Exported = {main}
    AddressTaken = {gn}
    Arity <- MCArity
    Constants = {one, two, hn}
    Text <- OwnText
    Programs <- GuardPrograms
    Policies = {"nonrec-aggressive"}
    Threshold = 2
SPECIFICATION Spec
PROPERTY NeverRecursive
CHECK_DEADLOCK FALSE
