CONSTANTS
    enroll = enroll
    keygen = keygen
    none = none
    absent = absent
    torn = torn
    None = none
    Absent = absent
    Torn = torn
    Tools = {enroll, keygen}
    Enrollers = {enroll}
    KeyIndexCount = 3
    MaxGen = 4
    MaxCode = 5
    Found <- MCFound
    CodeSource = "prompt"
    MaxFailures = 2
    MaxClock = 3
SPECIFICATION Spec
INVARIANTS
    NoMixedKeyset
    RegisteredKeysAreKept
PROPERTIES
    SeqAdvances
    EnrolmentCompletes
