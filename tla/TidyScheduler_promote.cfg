SPECIFICATION Spec
CONSTANTS
    scan = scan
    change = change
    analysis1 = analysis1
    analysis2 = analysis2
    photos = photos
    videos = videos
    Work <- TwoAndOne
    Root = {photos, videos}
    RootOf <- Folders
    AskedFor <- Asked
    Cancellable = {}
    Pausable = {}
    Items = 1
    CheckNow = {photos}
    Forget = {}
    MaxPauses = 0
INVARIANT AskedForNeverAside
CHECK_DEADLOCK FALSE
