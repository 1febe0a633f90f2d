CONSTANTS
    MaxFaults <- ThreeFaults
SPECIFICATION Spec
INVARIANTS FailureLeavesNoMarker
