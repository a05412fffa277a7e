SPECIFICATION Spec
CONSTANTS
    r1 = r1
    r2 = r2
    sys = sys
    Run = {r1, r2}
    System = {sys}
    SystemOf <- MCSystemOf
    Secretive = {r1}
PROPERTIES
    InvalidateClearsLeftovers
