SPECIFICATION Spec
CONSTANTS
    Procs = {p1, p2}
    s1 = s1
    s2 = s2
    rb = rb
    Systems = {s1, s2}
    Sources = {a}
    Revs = {ra1, rb}
    SystemOf <- MCSystemOf
    None = None
PROPERTIES
    GCSparesReferenced
