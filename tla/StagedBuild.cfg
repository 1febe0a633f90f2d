CONSTANTS
    A = A
    B = B
    N = N
    Nobody = Nobody
    Runs <- TwoRuns
    Names <- OneName
SYMMETRY Symmetry
SPECIFICATION Spec
INVARIANTS  SuccessIsDelivered
PROPERTIES OutputHasOneOwner
