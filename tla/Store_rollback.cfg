SPECIFICATION Spec
CONSTANTS
    p1 = p1
    p2 = p2
    p3 = p3
    i1 = i1
    i2 = i2
    i3 = i3
    d1 = d1
    n1 = n1
    n2 = n2
    v1 = v1
    v2 = v2
    None = None
    Proc <- Procs
    Id <- Ids
    Carried <- CarriedIds
    Project <- Projects
    Name <- Names
    ProjectName <- ProjectNames
    Rev <- Revs
SYMMETRY Symmetric
INVARIANT RollbackIsUnregistered
CHECK_DEADLOCK FALSE
