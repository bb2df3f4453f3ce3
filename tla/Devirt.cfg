\* C and C++ programs with all options of the pass.
CONSTANTS
    Programs <- Everything
    Options <- AllOptions
SPECIFICATION Spec
INVARIANTS CallsKeepTheirCallee DirectCallsMatch ChaCoversDispatch
