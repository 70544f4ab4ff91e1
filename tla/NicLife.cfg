SPECIFICATION FairSpec
CONSTANTS
    Setups <- MCSetups
    Speeds = {1000, 2500}
INVARIANTS DeviceQuiet NothingLeft NapiPaired
PROPERTIES CarrierFollows QueuesAwake
