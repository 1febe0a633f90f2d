CONSTANTS
    MaxFaults <- ThreeFaults
SPECIFICATION FairSpec
INVARIANTS MarkerMeansGrown MarkerIsWhole
PROPERTIES SuccessIsFinal ImplementsProvisioning EventuallyReady
