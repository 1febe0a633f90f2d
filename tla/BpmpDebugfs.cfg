SPECIFICATION FairSpec
INVARIANTS TransportWhileUsed NothingLeftBehind AnnouncedTreeIsWhole
PROPERTIES ReleaseEnds
