CONSTANTS
    D = D
    Directories <- OneDirectory
    MaxBoots = 2
    MaxRestarts = 1
    Restarted = {"cuda"}
SPECIFICATION BenchSpec
INVARIANTS OneWorkload
PROPERTIES SameBootSpeaksForAll ReportIsConsistent
CHECK_DEADLOCK FALSE
