SPECIFICATION LiveSpec
CONSTANTS
    c3 = c3
    h1 = h1
    h2 = h2
    Callers = {c1, c2, c3}
    Background = {c2, c3}
    Hosts = {h1, h2}
    Host <- MCHost
    None = None
    MaxExpiries = 2
    MaxGrants = 2
    MaxManual = 1
    MaxFaults = 1
    Perils = {"redisDown", "lockExpires", "providerFails", "answerLate",
              "dbFails", "crash", "edit", "revokes"}
INVARIANTS
    OneAtProvider
    StoredTokenWorks
    HealthyStaysEnabled
    
PROPERTIES
    ExpiringIsRefreshed
CHECK_DEADLOCK FALSE
