SPECIFICATION FairSpec
CONSTANTS
    e1 = e1
    e2 = e2
    Nil = Nil
    Points <- MCPoints
    NotifyScripts <- MCNotifyScripts
    NotifyCount = 2
    NotifyTimeout = TRUE
    FetchLists <- MCFetchLists
    FetchScripts <- MCFetchScripts
    MayDrop = TRUE
CHECK_DEADLOCK FALSE
INVARIANT TypeOK
INVARIANT NotifiedInOrder
INVARIANT OneRequestOpen
INVARIANT FetchedAsServed
PROPERTY CompletedGoesOn
PROPERTY BothSidesEnd
