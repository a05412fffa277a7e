\* As launch: is every promise of the permissions guide kept on every host?
SPECIFICATION Spec
CONSTANTS
    skill = skill
    context = context
    server = server
    hook = hook
    tool = tool
    other = other
    token = token
    Declaration <- MCDeclaration
    CommandLine <- MCCommandLine
    MaxCommands = 2
    MaxChanges = 1
CHECK_DEADLOCK FALSE
INVARIANTS
    GuideKept
