CONSTANTS
    h1 = h1
    h2 = h2
    none = none
    None = none
    Handlers = {h1, h2}
    Pollers = {h1}
    Keys = {"k1", "k2"}
    Requests <- MCRequests
    Jobs = {"j1"}
    MaxTime = 2
    UpstreamBeat = 1
    UpstreamPoll = 1
    AuthWindow = 1
    MaxRestarts = 1
SPECIFICATION Spec
INVARIANTS
    VerifiesAtOrchestrator
    TrailsOrchestrator
    HeartbeatForwardedOnce
    NeverHandedBack
PROPERTY
    WatermarksNeverFall
