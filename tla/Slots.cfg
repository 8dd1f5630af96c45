SPECIFICATION Spec
CONSTANTS
    Prompt <- MCPrompt
    Served <- StableServed
    Answer = 9
    Blank = 0
    Inline = {i1, i2}
    Full = {f1}
    Staging = staging
    NoSlot = NoSlot
    MaxDisk = 1
SYMMETRY Symmetry
INVARIANTS
    TypeOK
    
    RecordsAgree
    DiskFaithful
