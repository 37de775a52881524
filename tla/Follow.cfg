SPECIFICATION FollowSpec
CONSTANTS
    WatchedRuns = {r1, r2}
    None = None
    Outcomes = {"completed"}
    MaxInFlight = 2
    MaxRuns = 2
    MaxDocs = 2
    MaxDecisions = 2
    MaxTexts = 2
    MaxMessages = 3
INVARIANTS
    FollowTypesOK
    PanelShowsItsRun 
    CorrespondenceIsOnTheCase
PROPERTIES
    PanelCatchesUp ModalCatchesUp BannerNeverGoesBack CaseCatchesUp
CHECK_DEADLOCK FALSE
