SPECIFICATION FairSpec
CONSTANTS
    Students = {s1}
    Codes = {c1, c2}
    Urls = {u1, u2}
    Phones = {p1, p2}
    Workers = {w1, w2}
    None = None
INVARIANTS
    TypeOK
    LocksAreOwned
    BoundPhoneClaimedACode
PROPERTIES
    ImplementsPhoneBinding
    RequestsFinish
