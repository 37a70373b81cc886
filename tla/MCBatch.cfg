SPECIFICATION Spec
CONSTANTS
    Files <- MCFiles
    PiFiles = {"two"}
    ExtFiles = {"one"}
    SkillLists = {"none", "s", "t"}
    MaxInvocations = 3
    MaxChanges = 1
    MaxCrashes = 1
INVARIANTS
    BatchIsInOrder
PROPERTIES
    CopyIsWhole
CHECK_DEADLOCK FALSE
