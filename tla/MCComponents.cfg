SPECIFICATION Spec
CONSTANTS
    Components = {"timing", "audience", "letters", "analytics", "listing", "api", "renderer"}
    \* ScheduleTiming
    Margin = 2
    Slack = 3
    PersistTimeout = 1
    ProviderTimeout = 1
    RevertTimeout = 1
    DefaultJobTimeout = 3
    MinCancelBuffer = 3
    HorizonCap = 4
    RawJobTimeouts = {1}
    RawStuckTTLs = {0}
    RawLeads = {0}
    RawBuffers = {0}
    RawHorizons = {0}
    Skew = 1
    LastMoment = 6
    \* Audience
    Committees <- MCCommittees
    Boxes = {"a", "b", "x"}
    Malformed = {"x"}
    Rosters <- MCRosters
    Projects = {"p", "q"}
    MaxRounds = 2
    \* Letters
    Keys = {"k1", "k2"}
    Kinds = {"a", "b"}
    Deployments <- MCDeployments
    Pods = {"p", "q"}
    Recipients = {"r", "s"}
    \* Analytics
    Mailings = {"m"}
    People = {"a", "b"}
    Members <- MCMembers
    Hours = {1, 2}
    URLs = {"u"}
    Rows <- MCMailingRows
    MaxOpensPerRecipient = 1
    MaxTopLinks = 1
    MaxEvents = 2
    \* Listing
    Times = {1, 2}
    Ids = {1, 2, 3}
    PageSize = 1
    Filters = {"", "sent", "committee"}
    Readers = {"a"}
    Channels = {"copy"}
    MaxWrites = 2
    FirstRows <- MCFirstRows
    \* Api
    MaxCalls = 2
    MaxVersion = 3
    \* Renderer
    Editions <- MCEditions
    EditionFields <- MCEditionFields
    MaxLayoutBlocks = 4
    MaxLayoutDepth = 2
    MaxLayoutItems = 3
INVARIANTS
    TypesOK
    ArmedBeforeRelease SweepSparesLiveJobs CancelBeatsRelease
    OptOutsAreKept WholeAudience
    BodyFollowsLayout EveryLetterOptsOut NothingUnresolved
    ReportIsOfThisMailing CompleteMeansEveryone
    PagingMissesNothing MarksBelongToSent
    ActsOnceOnWhatWasSeen AnswersAreTrue
    LayoutIsKept
CHECK_DEADLOCK FALSE
