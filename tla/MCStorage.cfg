SPECIFICATION Spec
CONSTANTS
    Clients = {c1, c2}
    Paths <- AliasPaths
    Residue <- Zero
    Moves <- AliasMoves
    MaxPosts = 3
    MaxCardMoves = 3
    CardTrouble = FALSE
CHECK_DEADLOCK FALSE
INVARIANTS
    HandleOwnsEntry
PROPERTIES
    
    CardNoticed
