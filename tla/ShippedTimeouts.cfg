SPECIFICATION Spec
CONSTANTS
    None = None
    Deployment <- Deployments
    UpstreamTimeout = 4
    TikTokAttempts = 4
    TikTokBackoff = 1
    MetaAttempts = 3
    MetaBackoff = 1
    LookupTimeout = 15
    Slack = 1
    WriteTimeout = 10
    ShutdownTimeout = 8
    Counter = {0, 3}
INVARIANT
    ResponseWaits
