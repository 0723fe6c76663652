SPECIFICATION TextSpec
CONSTANTS
    NameCharacter = {"a", "b"}
    Separator = {","}
    MaxLength = 6
INVARIANTS
    ParsesNames
CHECK_DEADLOCK FALSE
