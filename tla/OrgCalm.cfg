\* Every operation overlaps with every other, without a clash, and may fail.
SPECIFICATION CalmSpec
CONSTANTS
    DeptId = {d1, d2, d3}
    EmpId = {e1}
    Name = {n1, n2}
    Profile = {p1}
    Request = {r1, r2}
    Movers = {r1, r2}
    DeptOps = {"createDept", "patchDept", "cascade", "reassign"}
    EmpOps = {"createEmp", "patchEmp", "deleteEmp"}
    Slips = {}
    Null = null
    Absent = absent
    Blank = blank
    BadDate = badDate
    Zero = zero
    StoreFails = TRUE

SYMMETRY Symmetry
VIEW Silent
PROPERTIES
    Atomic
    DeletedStaysDeleted
    ReassignDeletesOne
