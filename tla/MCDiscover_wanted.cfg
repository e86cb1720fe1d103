CONSTANTS
    N = 1
    Eligible = {1}
    Entries <- MCEntries
    Capacity = 4
    Wanted = "fabric1-node1"
    Calls = {"DiscoverComissioned"}
    MaxAnswers = 2
SPECIFICATION FairSpec
INVARIANT WantedIsFound
CHECK_DEADLOCK FALSE
