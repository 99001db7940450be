SPECIFICATION FairSpec
CONSTANTS
    Replica = {r1, r2}
    Body <- Bodies
    Build <- Builds
    Free = free
    Orphan = orphan
    NoFile = nofile
    MaxFaults = 2
    MaxDeploys = 1
INVARIANTS
    LedgerIsTheSchema
    LosersDoNotFail
    ServingIsMigrated
    RefusalIsJustified
PROPERTIES
    ImplementsHistory
    EveryReplicaSettles
CHECK_DEADLOCK FALSE
