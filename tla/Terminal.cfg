SPECIFICATION FairSpec
CONSTANTS
    Sessions = {s1}
    Callers = {c1, c2}
    Labels = {l1}
    NoLabel = NoLabel
    NoSession = NoSession
    NoCaller = NoCaller
    MAX_ACTIVE = 1
    MaxShutdowns = 1
INVARIANTS RegistryInv
PROPERTIES StoppedIsRetired CapturesReturn
CHECK_DEADLOCK FALSE
