\* Two modules export the specialization of a function of which each has its own.
\* slash stops when the program is linked.
CONSTANTS
    main = main  lib = lib  cb = cb  hlp = hlp  var = var  ali = ali
    Functions = {main, lib, cb, hlp}
    Variables = {var}
    Aliases = {ali}
    MainInterface = {main}
    Jobs <- NamesakeJobs
SPECIFICATION Spec
INVARIANTS LinkableAgain
CHECK_DEADLOCK FALSE
