\* Two runs that share the profile of Claude Code, a clean, and a run of Codex.
SPECIFICATION Spec
CONSTANTS
    c1 = c1
    c2 = c2
    x = x
    Run = {c1, c2, x}
    Host = {"claude-code", "codex"}
    HostOf <- MCHostOf
    Instructions <- MCInstructions
    Path <- MCPath
    Words <- MCWords
    Name <- MCName
    StartsWith <- MCStartsWith
    Slots <- MCSlots
    Refs <- MCRefs
    MaxCleans = 1
CHECK_DEADLOCK FALSE
INVARIANTS
    TypeOK
    SlotsServed
    OwnInstructions
