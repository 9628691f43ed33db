CONSTANTS
    Records = {s1, s2}
    Users = {u1, u2}
    Requests = {r1, r2, r3, r4}
    BrowserIds = {b1}
    Nobody = Nobody
    NoId = NoId
SPECIFICATION Spec
SYMMETRY Symmetry
INVARIANTS
    TypeOK
    ClaimKept
PROPERTIES
    OneOwner
