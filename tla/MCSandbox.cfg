SPECIFICATION MCSpec
CONSTANTS
    NoLayer = NoLayer
    Nil = Nil
    Callers = {1, 2, 3}
    Process <- ProcessOf
    Id <- ProcessOf
    Nobody = 0
    MaxInodes = 4
    MaxKills = 1
INVARIANTS
    
    
    ExecOwned
    SourcesExact
    
    FinalComplete
    
    PublishedExact
    CapturedExact
    OwnerKeepsRunDir
