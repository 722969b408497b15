SPECIFICATION Spec
CONSTANTS
    Data = {1, 2, 3}
    NULL = 0
INVARIANT DeleteReturns
