SPECIFICATION Spec
CONSTANTS
    Token = {a}
    NoTok = NoTok
    MinPrompt = 1
    MaxPrompt = 3
    MaxCtx = 4
    MaxRec = 4
    Ubatch = 2
    KvFlash = TRUE
    PoolTokens = 3
    Slots = {s1}
    NoSlot = NoSlot
    Restores = TRUE
    Failures = TRUE
SYMMETRY Symmetry
INVARIANTS
    BoundaryWithinHistory
