\* A context is reused before the record that points to it is handled.
CONSTANTS
    None = None
    r1 = r1
    r2 = r2
    u1 = u1
    u2 = u2
    Requests = {r1, r2}
    UserOf <- TwoUsers
    Groups = {g1}
    Contexts = {c1}
    MaxAttempts = 1
SPECIFICATION Spec
INVARIANTS RowsNameTheirUser
CHECK_DEADLOCK FALSE
