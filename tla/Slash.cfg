\* All programs of two modules of MCSlash for one round of the main loop, some
\* of them for two, the chain of three modules for up to four rounds and the two
\* calls of which the rewriter may miss one for up to three, and for one round the
\* programs with two functions of one name.
\* slash stops when the program is linked.
CONSTANTS
    main = main  lib = lib  cb = cb  hlp = hlp  var = var  ali = ali
    Functions = {main, lib, cb, hlp}
    Variables = {var}
    Aliases = {ali}
    MainInterface = {main}
    Jobs <- SlashJobs
SPECIFICATION Spec
INVARIANTS TypeOK LinkClosed NoDuplicateSymbols MeaningPreserved RewritesFinished
CHECK_DEADLOCK FALSE
