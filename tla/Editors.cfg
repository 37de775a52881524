SPECIFICATION EditorsSpec
CONSTANTS
    Rules = {"signed", "dated"}
    Ai <- MCAi
    Optional = {"dated"}
    Reviewers = {"page", "drawer"}
    Drawers = {"drawer"}
    Picked = {"uncertain"}
    MaxActs = 2
    Editors = {"e1", "e2"}
    Parts = {"node"}
    MaxVersions = 3
    MaxEdits = 1
    Desks = {"d1", "d2"}
    Names = {"a", "b"}
    Criteria = {"x", "y"}
    Seeded = 2
    MaxIds = 4
    MaxCalls = 2
    MaxTries = 2
    Cards = {"start", "mail", "check", "test", "ask"}
    KindOf <- MCKinds
    Deselects = {"from"}
    MaxWires = 3
    MaxInserts = 1
    Values = {"pass", "a word"}
    DocTypes = {"t1", "t2"}
    TypeNames = {"id card", "invoice"}
    Panels = {"here", "elsewhere"}
    Policies = {"p1", "p2"}
    RulesOf <- MCRules
    RuleNames = {"x", "y"}
    PolicyOwners = {"policy"}
    WorkflowOwners = {"workflow"}
    BoxUsers = {"ann", "ben"}
    MaxLocal = 2
    MaxBoxActs = 4
INVARIANTS
    EditorsTypesOK
    OverallMatchesFindings ReviewIsKept
    MailReachesItsBox
    NewestIsCurrent CanvasIsWhatIsSaved
    RulesOnlyLeaveByDecision TypingIsKept
    InsertedResolves CardsSayWhatRuns RuleShowsItsOwn
CHECK_DEADLOCK FALSE
