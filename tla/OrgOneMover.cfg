\* Two requests overlap, only r1 moves departments; liveness, so without symmetry.
SPECIFICATION FairSpec
CONSTANTS
    DeptId = {d1, d2, d3}
    EmpId = {}
    Name = {n1, n2}
    Profile = {}
    Request = {r1, r2}
    Movers = {r1}
    DeptOps = {"createDept", "patchDept", "cascade", "reassign"}
    EmpOps = {}
    Slips = {}
    Null = null
    Absent = absent
    Blank = blank
    BadDate = badDate
    Zero = zero
    StoreFails = FALSE
INVARIANTS
    AcyclicHierarchy
PROPERTIES
    CycleRefusalJustified
    ConflictJustified
    ReassignKeepsMoved
    EveryRequestAnswered
