SPECIFICATION AccountsFairSpec
CONSTANTS
    ann = ann
    r1 = r1
    r2 = r2
    r3 = r3
    Null = Null
    Emails = {"e", "f"}
    Passwords = {"p", "q", "s"}
    AccountSeeds = {ann}
    InitialUsers <- MCUsers
    InitialTokens <- MCTokens
    AccessLife = 1
    RefreshLife = 2
    Horizon = 2
    Requests = {r1, r2, r3}
    PoolLimit = 2
    AccountWorkload <- MCWorkload
INVARIANTS
    AccountsTypeOK
    UniqueEmails
    RegistrationKept
    OldPasswordDead
    RowsHaveOwner
PROPERTIES
    TokensForLiveAccounts
    InactiveStays
    AllAccountsAnswered
CHECK_DEADLOCK FALSE
