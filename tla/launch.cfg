\* Two commands, and one change of the world at any point between their steps.
SPECIFICATION Spec
CONSTANTS
    skill = skill
    context = context
    server = server
    hook = hook
    tool = tool
    other = other
    token = token
    Declaration <- MCDeclaration
    CommandLine <- MCCommandLine
    MaxCommands = 2
    MaxChanges = 1
CHECK_DEADLOCK FALSE
INVARIANTS
    TypeOK
    StartsAsAgreed
    AdmittedProjects
    NoTraceOfRefusal
    CheckPredictsRun
    SessionWithinDeclaration
    SecretsConfined
    RequiredIsOffered
    ShortfallIsSaid
