SPECIFICATION PlanSpec
CONSTANTS
    Resource <- Resource3
    Variable = {port}
    Undeclared = unknown
    Request <- Requests
    Probed <- Probed1
    Mistakable <- Mistakable2
INVARIANTS
    PlanTypeOK
    SearchIsExact
    OrderIsCorrect
    PlanIsSound
CHECK_DEADLOCK FALSE
