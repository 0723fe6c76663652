SPECIFICATION FairSpec
CONSTANTS
    NodeId <- ThreeNodes
    NodeValue <- MCNodeValueSigned
    Zero = 0
    Formula = {"v", "v+c", "f"}
    Refs <- ThreeRefs
    Undefined = {}
    Operation = {"SUM"}
    Apply <- MCApply
    NoFormula = NoFormula
    NoNode = NoNode
    NaN = NaN
    MinusZero = MinusZero
    IllFormed = {"("}
    BadOperation = {"99"}
    DependencyLists <- ThreeLists
    SameValue <- MCSameValue
    Inputs <- SignedInputs
    Naming <- ThreeNaming
    EvaluationTypes = {"Iterative", "Recursive"}
    MaxListed = 3
INVARIANTS
    TypeOK
    GraphWellFormed
    DependencyChecksExact
    FormulaBindings
    DirtyPropagated
    CacheCorrect
    WalkOnDirtyNodes
    StackBounded
PROPERTIES
    FailedCallChangesNothing
    OnlyDownstreamMarked
    OnlyUpstreamComputed
    SweepCleansLeaves
    StepsDescend
    EvaluationTerminates
