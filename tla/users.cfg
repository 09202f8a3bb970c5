CONSTANTS
    Carriers = {c1, c2}
    Users = {u1, u2, u3}
    Drivers = {d1, d2}
    Slots = {s1, s2}
    MaxLimit = 2
    MaxRequests = 4
    none = none
SPECIFICATION Spec
SYMMETRY RegistrySymmetry
INVARIANTS OneFirstMaster RolesFit
PROPERTY LimitHeld
CHECK_DEADLOCK FALSE
