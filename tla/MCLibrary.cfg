SPECIFICATION Spec
CONSTANTS
    MaxRequests = 2
    FrameCount = 2
    GalleryFrames = 3
    PageSize = 2
    Side = 1
    MaxScale = 6
    PlayerFrames = 3
    MaxFiles = 3
    PresetNames = {"", "a"}
    MaxPresets = 2
    MaxFilms = 2
    CaptureInterval = 1
    Views = {"v"}
    MaxAsks = 3
INVARIANTS
    LibraryTypeOK
    ListIsFirstPages
    PictureFits
    PageAsStored
PROPERTIES
    NoFrameSkipped
    PlaybackEnds
CHECK_DEADLOCK FALSE
