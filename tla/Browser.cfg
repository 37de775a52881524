SPECIFICATION BrowserSpec
CONSTANTS
    Tabs = {"t1", "t2"}
    Queries <- MCQueries
    NeedsCode = TRUE
    MaxPairs = 2
    MaxMoves = 1
    AccountTabs = {"t1", "t2"}
    MaxCreds = 2
    Policies = {p1, p2}
    Files = {f1, f2}
    MaxClicks = 2
    Admins = {"a1", "a2"}
    Guests = {"g1"}
    MaxInvites = 2
    MaxLinks = 3
    MaxEdits = 1
    Curators = {"u1", "u2"}
    Texts = {"some"}
    MaxDrops = 2
    MaxSamples = 2
    MaxSaves = 2
    MaxCrashes = 1
    RuleNames = {"total", "date"}
    Verdicts = {"pass"}
    MaxPolicyRules = 3
    MaxRuleEdits = 2
INVARIANTS
    BrowserTypesOK
    RefreshIsShared TimeKeepsSession LoadingIsAwaited
    LoginStaysPossible ConfirmedIsEnforced OnePendingEnrollment
    NoSilentOrphan RunIsTheClick EvidenceIsOfTheRule
    SpentLinksStaySpent PictureHasItsFile
CHECK_DEADLOCK FALSE
