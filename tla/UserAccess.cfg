CONSTANTS
    c1 = c1
    c2 = c2
    MaxUsers = 2
    Emails = {"e1", "e2"}
    Items = {"i1"}
    Roles = {"admin", "developer"}
    Clients <- TwoClients
    DbFails = TRUE
    None = "none"
SPECIFICATION Spec
SYMMETRY ClientSymmetry
INVARIANT TypeOK
INVARIANT UniqueEmail
INVARIANT AuditTruthful
PROPERTY AdminsAreMade
