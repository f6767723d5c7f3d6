\* Safety of the control loop with up to two console commands, and liveness
\* under the fairness of the main program.
SPECIFICATION FairSpec
CONSTANTS
    N = 6
    Temp <- MCTemp
    Pins <- MCPins
    Networks <- MCNetworks
    MaxCmds = 2
INVARIANTS
    TypeOK
    PinMatchesActive
    CommandMatchesController
    PassSettles
    DecisionReachesPin
PROPERTIES
    EnabledOnlyBySetup
    DisabledIsFrozen
    RuleReachesPin
