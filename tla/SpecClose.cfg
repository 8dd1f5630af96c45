SPECIFICATION Spec
CONSTANTS
    a = a
    b = b
    Eos = Eos
    NoToken = NoToken
    Token = {a, b, Eos}
    NGen = 3
    Width = 3
    TreeBudget = 2
    Burst = 2
    FastThreshold = 2
    HintCount = 1
    Close <- MCClose
    HardLimit = 2
    ToolPrefix <- MCToolPrefix
    Floor = 2
    RepeatGuard = 3
    Periods <- MCPeriods
INVARIANTS
    CloseKeepsRows
CHECK_DEADLOCK FALSE
