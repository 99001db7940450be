SPECIFICATION FairSpec
CONSTANTS
    None = None
    Request = {p1, p2}
    User = {alice}
    Url = {u1}
    Replica = {r1}
    UpstreamTimeout = 1
    TTL = 1
    LookupTimeout = 1
    HandlerTimeout = 2
    Lag = 0
    MaxRows = 1
    MaxTime = 5
INVARIANTS
    RowsAreRecent
PROPERTIES
    CachedAnswersAreFresh
    QuotaIsSpared
    ReapSparesTheLive
    ReadingsHardlyGoBack
    DeadEntriesGo
