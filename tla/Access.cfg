SPECIFICATION Spec
CONSTANTS
    HeaderKeys = {key}
    ApiKey = key
    Burst = 4
    Cost = 2
    Rate = 1
    MaxTime = 5
    Handlers = {h1, h2}
    Emails = {alice, bob}
    Passwords = {pw}
    None = None
    Expiry = 2
    MaxAccounts = 2
    MaxTokens = 1
    MaxStarts = 2
INVARIANTS
    ConfirmedAccount
    RevokedStaysOut
    RateBound
