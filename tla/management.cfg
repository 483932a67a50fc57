\* The requests are bounded in number and a start comes to its end.
SPECIFICATION Spec
CONSTANTS
    b1 = b1  b2 = b2  r1 = r1  r2 = r2  n1 = n1  n2 = n2  g1 = g1  g2 = g2
    None = None  NoSeq = NoSeq
    User = {u1, u2, u3}
    Role = {o1}
    First = u1
    Account = {a1, a2, a3}
    AccessPoint = {x1}
    Phone = {b1}
    Phone2 = {b1, b2}
    FormGateway = {a1, a2, a3}
    Triple = {b1, b2}
    FormNode = {n1, n2}
    NewsNode = {b1, b2}
    Gateway = {g1, g2}
    RenamedGateway = {g1, g2, g3}
    Listed <- MCListed
    StartNode = {n1, n2}
    StartGateway = {g1, g2}
    OldNodes <- MCOldNodes
    Owner0 <- MCOwner0
    Missing0 = {"roles_tables", "sys_user_role_code", "roles_builtin_seed", "builtin_role_perm_seed",
                "gateway_node_table", "gateway_node_backfill", "account_number_not_null", "cost_columns", "cost_columns+"}
    Overlapping = {r1, r2}
    Single = r1
    MaxNumbers = 6
    MaxPhones = 7
    MaxForms = 7
    MaxStartFaults = 2
SYMMETRY Symmetry
INVARIANTS
    SomeSuperStays
    PhoneIsOfItsAccount
    TriplesUnique
    ChangeReachesNodes
PROPERTIES
    StartsAreSafe
CHECK_DEADLOCK FALSE
