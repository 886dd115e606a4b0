SPECIFICATION FairSpec
CONSTANTS
    None = None
    k1 = k1  k2 = k2  p1 = p1  p2 = p2  ra = ra  rb = rb
    view = view  edit = edit  r1 = r1  r2 = r2  e1 = e1
    Keys = {k1, k2, p1, p2}
    PublicKeys = {p1, p2}
    Resources = {ra, rb}
    ResourceOf <- Abouts
    Bits = {view, edit}
    Requests = {r1, r2}
    Programs <- EveryOperation
    Earlier = {e1}
    Tables <- SomeGrants
    MaxItems = 2
    MaxClock = 2
    MaxIncidents = 1
INVARIANTS TypeOK ExpiredStaysExpired
PROPERTIES AllOrNothing ExpiryOnlyEarlier RequestEnds
CHECK_DEADLOCK FALSE
