CONSTANTS
    N = 3
    Eligible = {1, 3}
    Entries <- MCEntries
    Capacity = 1
    Wanted = "fabric1-node1"
    Calls = {"Discover", "DiscoverAllComissioned", "DiscoverComissioned", "DiscoverAllComissionable"}
    MaxAnswers = 2
SPECIFICATION FairSpec
INVARIANTS DiscoverTypeOK InTimeIsReported OneDevicePerHost
PROPERTIES DiscoverEnds GoroutinesEnd
CHECK_DEADLOCK FALSE
