CONSTANTS
    Services = 3
    Backoffs <- MCBackoffs
    MaxAttempts = 1
    MaxSignals = 1
SPECIFICATION FairSpec
PROPERTY SignalEndsProcess
