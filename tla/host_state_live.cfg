\* Two runs at a time, two sign-ins, nothing cleaned.
SPECIFICATION FairSpec
CONSTANTS
    Runs = {r1, r2}
    MaxAlive = 2
    MaxLogins = 2
    MaxCleans = 0
CHECK_DEADLOCK FALSE
PROPERTIES
    LoginReachesStore
