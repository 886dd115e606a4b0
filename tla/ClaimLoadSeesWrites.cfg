SPECIFICATION Spec
CONSTANTS
    Nothing = Nothing
    u1 = u1  u2 = u2  corpus = corpus  r1 = r1  r2 = r2  w1 = w1  w2 = w2
    Users = {u1, u2}
    Corpus = corpus
    Files = {1, 2}
    Loads = {r1, r2}
    Writes = {w1}
    Filled <- Some
    MaxChanges = 2
    MaxFaults = 0
INVARIANT LoadSeesWrites
CHECK_DEADLOCK FALSE
