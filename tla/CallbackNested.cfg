SPECIFICATION Spec
CONSTANTS
    Objects = {o1, o2, o3}
    MaxDepth = 2
    Behaviours = {}
INVARIANTS TypeOK ResultsTyped UsableInContext
PROPERTIES ImplementsCells
SYMMETRY Symmetry
