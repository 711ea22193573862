SPECIFICATION JobsSpec
CONSTANTS
    None = None
    Job = {j1, j2}
    Click = {c1, c2}
    Change = {e1}
    Keep = 1
    MaxAsks = 2
INVARIANTS OneKnownJobWorks
 
