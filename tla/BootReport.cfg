CONSTANTS
    Enabled <- ConsoleAndSsh
    Mode = "on"
    HasMarker = TRUE
    Duration = 1
    SetupTime = 0
    Slack = 0
    MaxSamples = 0
    MaxChunks = 2
SPECIFICATION MeasuredSpec
INVARIANTS SummaryAgrees FirstBootOnly
