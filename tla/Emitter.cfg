SPECIFICATION Spec
CONSTANTS
    Vocabularies <- MCVocabularies
    TokenText <- MCTokenText
    Tags = {"O", "C"}
    Controls = {"M", "X"}
    Ends = {"X"}
    Formats = {"openai", "anthropic", "responses"}
    NameLimit = 3
    MaxTokens = 5
INVARIANTS
    TypeOK
    
    DeltasAddUp
    CutAnywhere
    StopHonoured
    
    CallsApart
    UndeclaredHidden
    
CHECK_DEADLOCK FALSE
