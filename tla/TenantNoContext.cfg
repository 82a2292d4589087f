SPECIFICATION Spec
CONSTANTS
    Tenants = {ta, tb}
    Txs = {x1, x2}
    AppConns = {c1}
    BypassConns = {b1}
    NoTenant = NoTenant
    EmptyString = EmptyString
    NoConn = NoConn
SYMMETRY Symmetry
CHECK_DEADLOCK FALSE
INVARIANTS
    NoContextReadsNothing
