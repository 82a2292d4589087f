SPECIFICATION FairSpec
CONSTANTS
    Signups = {s1, s2, s3}
    Logins = {l1}
    Emails = {e1, e2}
    Nobody = Nobody
    Symbols = {hex1, hex2}
    Colon = Colon
    Plaintexts = {secret}
    Nonces = {nonce}
    InvalidTag = InvalidTag
    ValueError = ValueError
CHECK_DEADLOCK FALSE
INVARIANTS
    TypeOK
    WorkspacesWhole
    OneAccountPerEmail
    TokensNeedConfirmedMail
    StaffGateHolds
    LoginSawGoodStanding
PROPERTIES
    SignupsAnswered
