CONSTANTS
    h1 = h1
    h2 = h2
    none = none
    None = none
    Handlers = {h1, h2}
    Pollers = {h1, h2}
    Keys = {"k1"}
    Requests <- MCPollingRequests
    Jobs = {"j1"}
    MaxTime = 2
    UpstreamBeat = 1
    UpstreamPoll = 1
    AuthWindow = 1
    MaxRestarts = 0
SPECIFICATION Spec
INVARIANT
    NeverHandedBack
