\* C++ programs with the class hierarchy analysis.
CONSTANTS
    Programs <- Hierarchies
    Options <- ChaOptions
SPECIFICATION Spec
INVARIANT ChaResolvesFirst
