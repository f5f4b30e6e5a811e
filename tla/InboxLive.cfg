SPECIFICATION LiveSpec
CONSTANTS
    Workers = {w1, w2}
    Environments <- Jobs
    h1 = h1
    h2 = h2
    Houses = {h1, h2}
    MaxIssues = 2
    Crashes = 0
    None = None
PROPERTIES JobEnds
