SPECIFICATION Spec
CONSTANTS
    c1 = c1
    c2 = c2
    a1 = a1
    a2 = a2
    nginx = nginx
    Clients <- MCClients
    Emails <- MCEmails
    Accounts <- MCAccounts
    Addresses = {nginx}
    Address <- MCAddress
    Second = 3
    TTL = 3
    Limit = 1
    Window = 3
    Grain = 3
    FailOpen = FALSE
    MaxTime = 5
    MaxRequests = 3
CHECK_DEADLOCK FALSE
INVARIANTS
    IdentityIsProven
    AccountsLast
    RefusedForOwnTraffic
    ShieldedFromBursts
    RetryAfterIsEnough
