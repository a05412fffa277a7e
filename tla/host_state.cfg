\* Three runs, two of them at a time, two sign-ins and one clean.
SPECIFICATION Spec
CONSTANTS
    Runs = {r1, r2, r3}
    MaxAlive = 2
    MaxLogins = 2
    MaxCleans = 1
SYMMETRY Symmetry
CHECK_DEADLOCK FALSE
INVARIANTS
    TypeOK
    LoginKept
    CopiesExclude
    StrayOnlyIfKilled
PROPERTIES
    NeverGoesBackP
