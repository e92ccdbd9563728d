SPECIFICATION Spec
CONSTANTS
    scan = scan
    change = change
    analysis1 = analysis1
    analysis2 = analysis2
    photos = photos
    videos = videos
    Work <- TwoAndOne
    Root = {photos, videos}
    RootOf <- Folders
    AskedFor <- Asked
    Cancellable = {analysis1, scan}
    Pausable = {analysis1, scan}
    Items = 1
    CheckNow = {photos}
    Forget = {photos}
    MaxPauses = 1
INVARIANTS TypeOK OneAtATime NoOvertaking NoLostWakeup
CHECK_DEADLOCK FALSE
