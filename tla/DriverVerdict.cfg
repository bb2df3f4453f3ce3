\* The call of passes.seahorn.
CONSTANTS
    Calls = {"buffer"}
    Scripts <- SeaHornScripts
    NonAscii = {}
    MaxLines = 3
    Capacity = 2
SPECIFICATION Spec
INVARIANT CounterexampleIsReal
CHECK_DEADLOCK FALSE
