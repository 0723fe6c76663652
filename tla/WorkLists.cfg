SPECIFICATION FairSpec
CONSTANTS
    NodeId <- FourNames
    Typings <- FourTypings
    MaxLeft = 1
INVARIANTS
    MarkingFindsNodes
PROPERTIES
    MarkDirtyMarksOnce
    SearchForgetsTheLast
    LoopsEnd
CHECK_DEADLOCK FALSE
