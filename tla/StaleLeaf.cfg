SPECIFICATION Spec
CONSTANTS
    NodeId <- ThreeNodes
    NodeValue <- MCNodeValue
    Zero = 0
    Formula = {"v", "v+c", "f"}
    Refs <- ThreeRefs
    Undefined = {}
    Operation = {"SUM"}
    Apply <- MCApply
    NoFormula = NoFormula
    NoNode = NoNode
    NaN = NaN
    MinusZero = MinusZero
    IllFormed = {}
    BadOperation = {}
    DependencyLists <- ThreeLists
    SameValue <- MCSameValue
    Inputs = {0, 1}
    Naming <- ThreeNaming
    EvaluationTypes = {}
    MaxListed = 3
INVARIANTS
    NeverAborts
