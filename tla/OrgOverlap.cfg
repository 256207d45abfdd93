\* Reassigns, cascades, creates and employee requests overlap, and may fail.
SPECIFICATION Spec
CONSTANTS
    DeptId = {d1, d2, d3}
    EmpId = {e1}
    Name = {n1, n2}
    Profile = {p1}
    Request = {r1, r2}
    Movers = {r1, r2}
    DeptOps = {"createDept", "cascade", "reassign"}
    EmpOps = {"createEmp", "patchEmp", "deleteEmp"}
    Slips = {}
    Null = null
    Absent = absent
    Blank = blank
    BadDate = badDate
    Zero = zero
    StoreFails = TRUE

SYMMETRY Symmetry
VIEW Silent
INVARIANTS
    ReferentialIntegrity
    SiblingNamesUnique
    PendingReassignSound
