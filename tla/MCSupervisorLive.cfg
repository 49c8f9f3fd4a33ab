SPECIFICATION FairSpec
CONSTANTS
    None = None
    N = 1
    Objects = {a, b}
    Strategy = "OneForOne"
    MaxRestarts = 2
    RestartPeriod = 2
    MailboxSize = 1
INVARIANTS
    RestartIntensity
PROPERTIES
    SelfHealing
    StopEnds
