----------------------------- MODULE HttpAnswers -----------------------------
(***************************************************************************)
(* What the HTTP handlers answer: the refusals of their own, the errors of *)
(* the services and the two switches that map them to a status and a code, *)
(* and the response writer that the access log wraps around all of it.     *)
(*                                                                         *)
(* An error value is the set of the sentinels that errors.Is finds in its  *)
(* chain; the texts of messages are reduced to shown or hidden.            *)
(***************************************************************************)
EXTENDS Naturals

Mutations ==
    {"createDept", "patchDept", "deleteDept", "createEmp", "patchEmp", "deleteEmp"}

Reads == {"getTree", "listEmps", "getEmp"}

Endpoints == Mutations \cup Reads \cup {"health"}

\* The codes of the 400s that a handler writes before it calls the service.
GetDepartmentRefuses ==
    {"invalid_department_id", "invalid_depth", "invalid_include_employees"}
PatchDepartmentRefuses ==
    {"invalid_department_id", "invalid_request_body", "invalid_name", "invalid_parent_id"}
DeleteDepartmentRefuses == {"invalid_department_id", "invalid_reassign_to_department_id"}
CreateEmployeeRefuses == {"invalid_department_id", "invalid_request_body"}
PatchEmployeeRefuses == {"invalid_employee_id", "invalid_request_body"}
EmployeeIdRefuses == {"invalid_employee_id"}

BadInput ==
    [createDept |-> {"invalid_request_body"},
     getTree |-> GetDepartmentRefuses,
     patchDept |-> PatchDepartmentRefuses,
     deleteDept |-> DeleteDepartmentRefuses,
     createEmp |-> CreateEmployeeRefuses,
     patchEmp |-> PatchEmployeeRefuses,
     getEmp |-> EmployeeIdRefuses,
     deleteEmp |-> EmployeeIdRefuses,
     listEmps |-> {},
     health |-> {}]

\* The sentinels of the services that a call can come back with.
Refusals ==
    [createDept |->
         {"ErrValidation", "ErrInvalidParentDepartmentID", "ErrParentDepartmentNotFound",
          "ErrDepartmentAlreadyExists"},
     getTree |-> {"ErrInvalidDepth", "ErrDepartmentNotFound"},
     patchDept |->
         {"ErrDepartmentNotFound", "ErrNothingToUpdate", "ErrValidation",
          "ErrInvalidParentDepartmentID", "ErrDepartmentCannotBeParentOfItself",
          "ErrParentDepartmentNotFound", "ErrDepartmentMoveWouldCreateCycle",
          "ErrDepartmentAlreadyExists"},
     deleteDept |->
         {"ErrDepartmentNotFound", "ErrReassignTargetRequired", "ErrCannotReassignToSelf",
          "ErrReassignTargetNotFound", "ErrDepartmentWouldCreateCycle",
          "ErrDepartmentAlreadyExists", "ErrInvalidDeleteMode"},
     createEmp |-> {"ErrValidation", "ErrInvalidHiredAt", "ErrDepartmentNotFound"},
     patchEmp |->
         {"ErrNothingToUpdate", "ErrEmployeeNotFound", "ErrValidation",
          "ErrInvalidDepartmentID", "ErrDepartmentNotFound", "ErrInvalidHiredAt"},
     getEmp |-> {"ErrEmployeeNotFound"},
     deleteEmp |-> {"ErrEmployeeNotFound"},
     listEmps |-> {}]

\* What comes up from the database: nothing known, a context that is done, or
\* both kinds of it in the error of a connection attempt.
Failures == {{}, {"DeadlineExceeded"}, {"Canceled"}, {"DeadlineExceeded", "Canceled"}}

Errors(e) == {{x} : x \in Refusals[e]} \cup Failures

-----------------------------------------------------------------------------
NotFound ==
    {"ErrDepartmentNotFound", "ErrReassignTargetNotFound", "ErrParentDepartmentNotFound",
     "ErrEmployeeNotFound"}

Invalid ==
    {"ErrValidation", "ErrNothingToUpdate", "ErrInvalidDepartmentID", "ErrInvalidEmployeeID",
     "ErrInvalidDepth", "ErrInvalidDeleteMode", "ErrReassignTargetRequired",
     "ErrCannotReassignToSelf", "ErrDepartmentWouldCreateCycle",
     "ErrInvalidParentDepartmentID", "ErrDepartmentCannotBeParentOfItself",
     "ErrDepartmentMoveWouldCreateCycle", "ErrInvalidHiredAt"}

\* Mutant: a sentinel that only one of the two switches knows.
StatusButHiredAt(err) ==
    IF err \cap NotFound # {} THEN 404
    ELSE IF "ErrDepartmentAlreadyExists" \in err THEN 409
    ELSE IF err \cap (Invalid \ {"ErrInvalidHiredAt"}) # {} THEN 400
    ELSE IF "DeadlineExceeded" \in err THEN 504
    ELSE IF "Canceled" \in err THEN 408
    ELSE 500

\* serviceErrorStatus
Status(err) ==
    IF err \cap NotFound # {} THEN 404
    ELSE IF "ErrDepartmentAlreadyExists" \in err THEN 409
    ELSE IF err \cap Invalid # {} THEN 400
    ELSE IF "DeadlineExceeded" \in err THEN 504
    ELSE IF "Canceled" \in err THEN 408
    ELSE 500

CodeOfSentinel ==
    [ErrDepartmentNotFound |-> "department_not_found",
     ErrReassignTargetNotFound |-> "reassign_target_not_found",
     ErrParentDepartmentNotFound |-> "parent_department_not_found",
     ErrEmployeeNotFound |-> "employee_not_found",
     ErrDepartmentAlreadyExists |-> "department_already_exists",
     ErrNothingToUpdate |-> "nothing_to_update",
     ErrInvalidDepartmentID |-> "invalid_department_id",
     ErrInvalidEmployeeID |-> "invalid_employee_id",
     ErrInvalidDepth |-> "invalid_depth",
     ErrInvalidDeleteMode |-> "invalid_delete_mode",
     ErrReassignTargetRequired |-> "reassign_target_required",
     ErrCannotReassignToSelf |-> "cannot_reassign_to_self",
     ErrDepartmentWouldCreateCycle |-> "department_cycle_detected",
     ErrDepartmentMoveWouldCreateCycle |-> "department_cycle_detected",
     ErrInvalidParentDepartmentID |-> "invalid_parent_department_id",
     ErrDepartmentCannotBeParentOfItself |-> "department_cannot_be_parent_of_itself",
     ErrInvalidHiredAt |-> "invalid_hired_at",
     ErrValidation |-> "validation_error"]

\* serviceErrorCode; no error has two sentinels of the services.
Code(err) ==
    IF err \cap DOMAIN CodeOfSentinel # {}
    THEN CodeOfSentinel[CHOOSE x \in err \cap DOMAIN CodeOfSentinel : TRUE]
    ELSE IF "DeadlineExceeded" \in err THEN "request_deadline_exceeded"
    ELSE IF "Canceled" \in err THEN "request_canceled"
    ELSE "internal_server_error"

\* Every code that an answer can have; "none" for those that are no error.
Codes ==
    {"none", "request_deadline_exceeded", "request_canceled", "internal_server_error"}
        \cup (UNION {BadInput[e] : e \in Endpoints})
        \cup {CodeOfSentinel[x] : x \in DOMAIN CodeOfSentinel}

\* writeServiceError
Refuse(err) ==
    [status |-> Status(err), code |-> Code(err),
     message |-> IF Status(err) = 500 THEN "hidden" ELSE "shown"]

\* writeJSONError of a handler
RefuseInput(code) == [status |-> 400, code |-> code, message |-> "shown"]

Success(e) ==
    [status |-> IF e \in {"createDept", "createEmp"} THEN 201 ELSE 200,
     code |-> "none", message |-> "none"]

\* writeUnavailableResponse
Unavailable == [status |-> 503, code |-> "none", message |-> "none"]

-----------------------------------------------------------------------------
(***************************************************************************)
(* The response writer: what responseRecorder remembers, and the status    *)
(* line that net/http has sent below it, where the first header counts.    *)
(* 0 is no status yet.                                                     *)
(***************************************************************************)
Blank == [recorded |-> 0, sent |-> 0]

\* Mutant: the last status is remembered.
WriteEveryHeader(w, status) ==
    [recorded |-> status, sent |-> IF w.sent = 0 THEN status ELSE w.sent]

WriteHeader(w, status) ==
    IF w.recorded # 0 THEN w
    ELSE [recorded |-> status, sent |-> IF w.sent = 0 THEN status ELSE w.sent]

WriteBody(w) == IF w.recorded = 0 THEN WriteHeader(w, 200) ELSE w

\* http.Error(w, "Failed to encode response", 500)
HttpError(w) == WriteBody(WriteHeader(w, 500))

\* The status in the line of the access log.
LogStatus(w) == IF w.recorded = 0 THEN 200 ELSE w.recorded
=============================================================================
