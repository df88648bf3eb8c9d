SPECIFICATION FairSpec
CONSTANTS
    MaxInt64 = 536870911
    Before <- MCBefore
    Value <- MCValue
    Files <- MCFiles
    Configuration <- MCConfiguration
    Entries <- MCEntries
    Advert <- MCAdvert
    Level <- MCLevel
    Reader = {"c1", "ticker"}
    Client = {"c1"}
    Document <- MCDocument
    Content <- MCContent
    Form <- MCForm
    Namespace = {"ci"}
    MaxVersions = 2
    Asks <- MCAsks
    Starts <- MCStarts
INVARIANTS
    TypeOK
    DispatchesCurrent
    RefusedForCause
    BlankNeverBlamed
    RetryableMissesNothing
    NoneDominated
    FreeIsWhatIsLeft
PROPERTIES
    UsageCatchesUp
