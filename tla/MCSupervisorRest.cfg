SPECIFICATION Spec
CONSTANTS
    None = None
    N = 2
    Objects = {a, b}
    Strategy = "RestForOne"
    MaxRestarts = 1
    RestartPeriod = 1
    MailboxSize = 0
SYMMETRY Symmetry
PROPERTIES
    NoCollateralRestart
