SPECIFICATION Spec
CONSTANTS
    Token = {a,b}
    NoTok = NoTok
    MinPrompt = 3
    MaxPrompt = 4
    MaxCtx = 5
    MaxRec = 5
    Ubatch = 2
    KvFlash = FALSE
    PoolTokens = 5
    Slots = {s1}
    NoSlot = NoSlot
    Restores = TRUE
    Failures = TRUE
SYMMETRY Symmetry
INVARIANTS
    TypeOK
    ServedKv
    ServedRecurrent
    FirstTokenOfPrompt
    SnapshotFaithful
