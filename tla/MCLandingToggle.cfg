CONSTANTS
    t1 = t1
    t2 = t2
    plain = plain
    edited = edited
    garbled = garbled
    stopped = stopped
    Tabs = {t1, t2}
    Paths = {file}
    Keys = {stopped}
    Texts = {plain, edited, garbled}
    BrokenTexts = {garbled}
    NoFile = NoFile
    Unread = Unread
    Failed = Failed
    InitialFile <- MCInitialFile
    Pushes <- MCPushes
    MaxLoads <- MCTwice
    MaxClicks <- MCTwice
    MaxPushes = 1
SPECIFICATION FairSpec
INVARIANTS
    TrueAnswers
PROPERTIES
    FlipsTheSwitch
    EveryClickEnds
CHECK_DEADLOCK FALSE
