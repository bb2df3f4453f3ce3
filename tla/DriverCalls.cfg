\* All calls, all children that print up to three lines, pipes of one line.
\* A child that prints more to stdout than the pipe holds blocks for ever; so does one that goes on
\* printing to a pipe whose thread died on a line that is not ASCII.
CONSTANTS
    Calls = {"progress", "run", "buffer"}
    Scripts <- MCScripts
    NonAscii = {"accent"}
    MaxLines = 3
    Capacity = 1
SPECIFICATION FairSpec
INVARIANTS TypeOK ProgressIsComplete BlockedOnUnreadPipe
PROPERTY Returns
CHECK_DEADLOCK FALSE
