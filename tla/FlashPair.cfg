CONSTANTS
    A = A
    B = B
    Runs <- TwoRuns
    Options <- CommandLines
SYMMETRY Symmetry
SPECIFICATION Spec
INVARIANTS WrapperInv RuleWhileFlashing WritesAreAcknowledged SuccessIsComplete
