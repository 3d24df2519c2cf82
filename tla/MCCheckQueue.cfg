CONSTANTS
    w1 = w1  w2 = w2  m = m
    c1 = c1  c2 = c2  c3 = c3  c4 = c4
    Workers = {w1, w2}
    Master = m
    Checks = {c1, c2, c3, c4}
    Bad = {c4}
    nBatchSize = 2
SPECIFICATION LiveSpec
INVARIANTS Drained IdleAtStart
PROPERTIES ImplementsVerdict WaitReturns
