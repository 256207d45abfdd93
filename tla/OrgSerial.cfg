\* One request at a time, every operation and every malformed input.
SPECIFICATION Spec

CONSTANTS
    DeptId = {d1, d2, d3}
    EmpId = {e1}
    Name = {n1, n2}
    Profile = {p1}
    Request = {r1}
    Movers = {r1}
    DeptOps = {"createDept", "patchDept", "cascade", "reassign", "otherMode"}
    EmpOps = {"createEmp", "patchEmp", "deleteEmp"}
    Slips = {blank, badDate, zero}
    Null = null
    Absent = absent
    Blank = blank
    BadDate = badDate
    Zero = zero
    StoreFails = FALSE

SYMMETRY IdSymmetry
INVARIANTS
    TypeOK
    NoInternalError
PROPERTIES
    Atomic
    OmittedFieldsKept
