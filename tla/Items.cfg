SPECIFICATION Spec
CONSTANTS
    None = None
    Old = Old
    Bare = Bare
    Users = {u1, u2}
    Admins = {u2}
    Requests = {q1, q2, q3}
    MaxFaults = 1
SYMMETRY Interchangeable
INVARIANTS TypeOK OneHome LiveHasContent ConfirmedIsAudited
PROPERTIES Isolation OnlyCreateRevives
CHECK_DEADLOCK FALSE
