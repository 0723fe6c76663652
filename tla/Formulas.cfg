SPECIFICATION Spec
CONSTANTS
    NaN = NaN
    PlusInfinity = PlusInfinity
    MinusInfinity = MinusInfinity
    Largest = 8
    Letter = {"a", "b", "true", "root"}
    DigitValue <- MCDigitValue
    Space = {" "}
    Unknown = {"$"}
    Texts <- MCTexts
    Held <- MCHeld
INVARIANTS
    ParsesByGrammar
    RefusesNoFormula
    StaysWithinTokens
    FoldingAgrees
    RefusesConstantZeroDivisors
    DependenciesSuffice
    DumpsHideOnlyDigits
PROPERTIES
    TakesLongestToken
