CONSTANTS
    t1 = t1
    t2 = t2
    c1 = c1
    c2 = c2
    Tabs <- MCTabs
    Calls <- MCCalls
    TabOf <- MCTabOf
    Kinds = {"reset", "block", "activate"}
    MaxCommits = 2
SPECIFICATION SessionSpec
INVARIANT OldPairsRefused
PROPERTIES SessionEndedOnlyWhenRefused CallsEnd
CHECK_DEADLOCK FALSE
