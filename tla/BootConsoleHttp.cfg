CONSTANTS
    Enabled <- ConsoleAndHttp
    Mode = "none"
    HasMarker = TRUE
    Duration = 1
    SetupTime = 1
    Slack = 1
SPECIFICATION FairSpec
 
PROPERTIES Terminates RecordFrozen
