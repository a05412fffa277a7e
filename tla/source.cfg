\* Any state of the files, one mistake in the documents, two edits while the tree is registered.
SPECIFICATION Spec
CONSTANTS
    Segment <- MCSegment
    Portable <- MCPortable
    Lower <- MCLower
    SopName = {"a.sop.md"}
    SkillName = {"k.skill.md"}
    Name = {"a", "b", "k", "srv", "t", "u", "v"}
    Versions <- MCVersions
    Trees <- MCTrees
    MaxEdits = 2
    MaxRegisters = 1
CHECK_DEADLOCK FALSE
INVARIANTS
    TypeOK
    BuildMeetsNoSurprise
    StoredAsChecked
    ResolveMeetsNoGap
    SkillToolsOffered
    LocalTokensBound
