SPECIFICATION FairSpec
CONSTANTS
    NodeId <- FourNodes
    NodeValue <- MCNodeValueNaN
    Zero = 0
    Formula = {"v", "f+v", "foo(v)"}
    Refs <- FourRefs
    Undefined = {"foo(v)"}
    Operation = {"SUM"}
    Apply <- MCApply
    NoFormula = NoFormula
    NoNode = NoNode
    NaN = NaN
    MinusZero = MinusZero
    IllFormed = {}
    BadOperation = {}
    DependencyLists <- FourLists
    SameValue <- MCSameValue
    Inputs <- SpoiltInputs
    Naming <- FourNaming
    EvaluationTypes = {}
    MaxListed = 1
PROPERTIES
    EvaluationTerminates
    ImplementsSpreadsheet
