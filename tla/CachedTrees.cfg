\* One read at a time, of two depths, with employees or without; a mutation anywhere.
SPECIFICATION Spec
CONSTANTS
    DeptId = {d1, d2, d3}
    EmpId = {e1}
    Name = {n1, n2}
    Profile = {p1}
    Null = null
    Loader = {l1}
    MaxDepth = 2
    MaxWrites = 1
    LoadFails = TRUE
    Root = {d1}
    Depth = {1, 2}
    Include = {FALSE, TRUE}
SYMMETRY Symmetry
VIEW Silent
INVARIANTS
    TypeOK
    SettledPayloadsExact
    BuiltTreesValid
    StablePathsShown
    ShownWasThere
PROPERTIES
    AnswersCurrent
