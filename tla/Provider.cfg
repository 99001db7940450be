SPECIFICATION ProviderSpec
CONSTANTS
    None = None
    Deployment <- Deployments
    UpstreamTimeout = 2
    TikTokAttempts = 3
    TikTokBackoff = 1
    MetaAttempts = 2
    MetaBackoff = 2
    LookupTimeout = 7
    Slack = 1
    WriteTimeout = 5
    ShutdownTimeout = 4
    Counter = {0, 3}
    Glyph <- Glyphs
    MaxCaption = 2
INVARIANTS
    HandlerCoversFetches
    RequestsAreBounded
    ErrorsAreFinal
    ViewsAreMeasured
    PostsAreReadWhole
PROPERTIES
    PlatformsAreSpared
    EveryCallEnds
