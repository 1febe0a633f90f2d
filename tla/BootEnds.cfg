CONSTANTS
    Enabled <- LinkAndHttp
    Mode = "cycle"
    HasMarker = FALSE
    Duration = 1
    SetupTime = 0
    Slack = 0
SPECIFICATION FairSpec
PROPERTIES Terminates
