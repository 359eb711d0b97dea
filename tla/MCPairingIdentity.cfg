SPECIFICATION Spec
CONSTANTS
    Students = {s1}
    Codes = {c1, c2}
    Urls = {u1, u2}
    Phones = {p1}
    Workers = {w1, w2}
    None = None
PROPERTIES
    CodeTiedToIdentity
