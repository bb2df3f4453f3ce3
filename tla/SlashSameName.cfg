\* A call of a static function is rewritten by the rule of another module.
\* slash stops when the program is linked.
CONSTANTS
    main = main  lib = lib  cb = cb  hlp = hlp  var = var  ali = ali
    Functions = {main, lib, cb, hlp}
    Variables = {var}
    Aliases = {ali}
    MainInterface = {main}
    Jobs <- SameNameJobs
SPECIFICATION Spec
INVARIANTS RewritesExternalCallees
CHECK_DEADLOCK FALSE
