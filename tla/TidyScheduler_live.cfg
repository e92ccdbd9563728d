SPECIFICATION FairSpec
CONSTANTS
    scan = scan
    change = change
    analysis1 = analysis1
    analysis2 = analysis2
    photos = photos
    videos = videos
    Work <- OneAndTwo
    Root = {photos, videos}
    RootOf <- Folders
    AskedFor <- Asked
    Cancellable = {analysis1}
    Pausable = {analysis1}
    Items = 1
    CheckNow = {}
    Forget = {photos}
    MaxPauses = 1
INVARIANT TurnFindsATaker
PROPERTIES EveryWorkEnds StopWorkOnReturns
CHECK_DEADLOCK FALSE
