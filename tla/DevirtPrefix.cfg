\* Calls of one type whose targets overlap, without options.
CONSTANTS
    Programs <- Overlapping
    Options <- DefaultOptions
SPECIFICATION Spec
INVARIANT ResolvedMeansAllCallees
