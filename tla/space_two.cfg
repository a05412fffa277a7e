SPECIFICATION Spec
CONSTANTS
    Procs = {p1, p2}
    s1 = s1
    s2 = s2
    rb = rb
    Systems = {s1, s2}
    Sources = {a, b}
    Revs = {ra1, ra2, rb}
    SystemOf <- MCSystemOf
    None = None
SYMMETRY Symmetry
INVARIANTS
    TypeOK
    DanglingOnlyIfExposed
    WaitingEnds
PROPERTIES
    CatalogSpec
    InspectFailsOnlyIfMoved
