SPECIFICATION FairSpec
CONSTANTS
    w1 = w1
    w2 = w2
    f1 = f1
    f2 = f2
    Webhooks = {w1}
    Feed <- OneFeed
    Configs <- MCConfigs
    Partitions = {1, 2}
    MaxOutages = 1
    Crashes = TRUE
CHECK_DEADLOCK FALSE
INVARIANTS AckedKept
PROPERTIES ImplementsDelivery OrderKept  PublishReturns SwitchBackUnlessCut
