CONSTANTS
    Enabled <- LinkAndSsh
    Mode = "cycle"
    HasMarker = FALSE
    Duration = 1
    SetupTime = 1
    Slack = 1
    MaxSamples = 2
    MaxChunks = 0
SPECIFICATION MeasuredSpec
INVARIANTS EvidenceAfterReference CarrierWithinDuration LinkHistoryIsVisible ReadyIsComplete SupplyLossIsReported CleanCaptureIsEligible PublishedIsSound SummaryAgrees
PROPERTIES PowerOnFromDown ImplementsRecord
