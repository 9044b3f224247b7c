SPECIFICATION Spec
CONSTANTS
    Objects = {o1, o2}
    MaxDepth = 2
    Behaviours = {"exit"}
INVARIANTS OwnFrame
SYMMETRY Symmetry
