CONSTANTS
    c1 = c1
    c2 = c2
    MaxUsers = 2
    Emails = {"e1", "e2"}
    Items = {}
    Roles = {"admin", "developer"}
    Clients <- TwoClients
    DbFails = FALSE
    None = "none"
SPECIFICATION FairSpec
PROPERTY DisabledLockedOut
