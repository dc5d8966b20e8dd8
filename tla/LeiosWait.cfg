SPECIFICATION FairSpec
CONSTANTS
    e1 = e1
    e2 = e2
    Nil = Nil
    Points <- MCPoints
    NotifyScripts <- WaitScripts
    NotifyCount = 2
    NotifyTimeout = FALSE
    FetchLists <- MCFetchLists
    FetchScripts <- MCFetchScripts
    MayDrop = FALSE
CHECK_DEADLOCK FALSE
PROPERTY WaitThenResponds
