SPECIFICATION Spec
CONSTANTS
    Number <- MCNumber
    NaN = NaN
    MaxOperands = 4
INVARIANTS
    MedianSplits
    MeansWithinOperands
    NaNInExtremes
    ExtremesBound
    OrderInvisible
