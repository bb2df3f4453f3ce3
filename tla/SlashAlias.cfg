\* test/weak-linkage-2: the alias and its aliasee are removed.
\* slash stops when the program is linked.
CONSTANTS
    main = main  lib = lib  cb = cb  hlp = hlp  var = var  ali = ali
    Functions = {main, lib, cb, hlp}
    Variables = {var}
    Aliases = {ali}
    MainInterface = {main}
    Jobs <- AliasJobs
SPECIFICATION Spec
INVARIANTS AliasAndAliaseeKept
CHECK_DEADLOCK FALSE
