SPECIFICATION Spec
CONSTANTS
    Workers = {w1, w2}
    Environments <- Everyday
    h1 = h1
    h2 = h2
    Houses = {h1, h2}
    MaxIssues = 2
    Crashes = 1
    None = None
INVARIANTS HandledHasIssue HandledOnce JobWorksAlone CancelHolds
SYMMETRY WorkerSymmetry
