SPECIFICATION Spec
CONSTANTS
    Engine = {e1, e2}
    Null = Null
    Sheet = {empty, edited}
    Empty = empty
    KernelError = {"NODE_NOT_FOUND"}
    Number = {0, 1}
PROPERTIES
    InvalidStateIsFinal
