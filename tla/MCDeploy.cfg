SPECIFICATION DeploySpec
CONSTANTS
    Configs <- Deployments
    OptionSets <- FourOptions
    IntLimit = 1024
    MaxFaults = 1
    MaxCrashes = 2
    MaxSsds = 2
    MaxCaches = 1
    MaxGeometries = 2
    Null = Null
    Uninit = Uninit
INVARIANTS DslabsMatchBlocks BlocksKeepTheirData CreatedSsdUsable RunningCacheHoldsDb ClassTableSound ConstructorMeetsModel
CHECK_DEADLOCK FALSE
