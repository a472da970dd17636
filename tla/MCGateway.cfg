CONSTANTS
    Services = 3
    Backoffs <- MCBackoffs
    MaxAttempts = 7
    MaxSignals = 1
SPECIFICATION FairSpec
INVARIANT ErrorResponseFollowsSpec
INVARIANT PanicsOnlyOnFatalError
PROPERTY GatewayEventuallyServes
 
