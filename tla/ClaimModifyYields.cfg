SPECIFICATION Spec
CONSTANTS
    None = None
    k1 = k1  k2 = k2  p1 = p1  p2 = p2  ra = ra  rb = rb
    view = view  edit = edit  r1 = r1  r2 = r2  e1 = e1
    Keys = {k1}
    PublicKeys = {}
    Resources = {ra}
    ResourceOf <- About1
    Bits = {view, edit}
    Requests = {r1, r2}
    Programs <- OneKey
    Earlier = {e1}
    Tables <- Lasting
    MaxItems = 1
    MaxClock = 2
    MaxIncidents = 0
PROPERTIES ModifyYields
CHECK_DEADLOCK FALSE
