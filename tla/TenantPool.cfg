SPECIFICATION Spec
CONSTANTS
    Tenants = {ta, tb}
    Txs = {x1, x2, x3}
    AppConns = {c1, c2}
    BypassConns = {b1}
    NoTenant = NoTenant
    EmptyString = EmptyString
    NoConn = NoConn
SYMMETRY Symmetry
CHECK_DEADLOCK FALSE
INVARIANTS
    TypeOK
    ReadsOwnTenant
    RowsBelongToWriter
    IdleConnsCarryNoTenant
PROPERTIES
    ForeignRowsSurvive
