SPECIFICATION Spec
CONSTANTS
    Token = {a, b}
    NoTok = NoTok
    MinPrompt = 2
    MaxPrompt = 2
    MaxCtx = 4
    MaxRec = 5
    Ubatch = 2
    KvFlash = TRUE
    PoolTokens = 4
    Slots = {s1}
    NoSlot = NoSlot
    Restores = FALSE
    Failures = FALSE
SYMMETRY Symmetry
INVARIANTS
    ServedRecurrent
