SPECIFICATION Spec
CONSTANTS
    Name = {n1, n2}
    Token = {k1}
    Region = {g1}
    Account = {a1}
    Instance = uuid
    Absent = Absent
    NoColon = NoColon
INVARIANT
    ServiceNameAgrees
CHECK_DEADLOCK FALSE
