SPECIFICATION ExportSpec
CONSTANTS
    p1 = p1
    p2 = p2
    x1 = x1
    None = None
    Passages <- TwoPassages
    Invented <- OneInvented
    Modules <- SmallModules
    MaxAttempts = 2
    Shapes <- ManyShapes
    EditedShapes <- SomeEdits
    OldContents <- OldOnes
    MaxColumns = 2
INVARIANT SavedIsGrounded
INVARIANT CallsBounded
INVARIANT CitationsResolve
INVARIANT ExportsAgree
INVARIANT ExportsWhole
CHECK_DEADLOCK FALSE
