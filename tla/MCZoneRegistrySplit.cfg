CONSTANTS
    a1 = a1
    a2 = a2
    m1 = m1
    m2 = m2
    Accepted <- MCAccepted
    Masters = {m1}
    Zones = {1}
    Dynamic = TRUE
    MaxFdbs = 6
SPECIFICATION Spec
SYMMETRY MCSymmetry
VIEW View
INVARIANT ZoneMembership
