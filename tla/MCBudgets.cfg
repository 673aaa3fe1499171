CONSTANTS
    p1 = p1
    p2 = p2
    d1 = d1
    d2 = d2
    d3 = d3
    g1 = g1
    g2 = g2
    i1 = i1
    i2 = i2
    Root = Root
    Absent = Absent
    Procs = {p1, p2}
    Docs = {d1, d2, d3}
    First = d1
    Groups = {g1, g2}
    Items = {i1, i2}
    Quantities = {1, 2}
    Workloads <- Loads
SYMMETRY Symmetry
SPECIFICATION Spec
INVARIANT OfficialIsClosed VersionChain
PROPERTY RevisionCopiesOrigin ClosesComplete
CHECK_DEADLOCK FALSE
