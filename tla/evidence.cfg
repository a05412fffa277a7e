\* Every pair of changes to a fully evidenced report.
SPECIFICATION Spec
CONSTANTS
    skill = skill
    context = context
    server = server
    hook = hook
    secret = secret
    Id <- MCId
    Word <- MCWord
    Declared <- MCDeclared
    Asserted <- MCAsserted
    Value <- MCValue
    MaxChanges = 2
CHECK_DEADLOCK FALSE
INVARIANTS
    TypeOK
    RequiredNeverOmitted
    NothingHidden
    HardGatesFailClosed
PROPERTY LessNeverHelpsP
