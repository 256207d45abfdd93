\* The code against the documentation: two moves overlap (README.md:241).
SPECIFICATION Spec

CONSTANTS
    DeptId = {d1, d2, d3}
    EmpId = {e1}
    Name = {n1, n2}
    Profile = {p1}
    Request = {r1, r2}
    Movers = {r1, r2}
    DeptOps = {"patchDept"}
    EmpOps = {}
    Slips = {}
    Null = null
    Absent = absent
    Blank = blank
    BadDate = badDate
    Zero = zero
    StoreFails = FALSE

SYMMETRY Symmetry
VIEW Silent
INVARIANTS
    AcyclicHierarchy
