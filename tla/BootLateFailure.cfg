CONSTANTS
    Enabled <- LinkOnly
    Mode = "cycle"
    HasMarker = FALSE
    Duration = 1
    SetupTime = 1
    Slack = 1
SPECIFICATION Spec
INVARIANTS CarrierFailureIsError
