CONSTANTS
    c1 = c1
    c2 = c2
    n1 = n1
    NoName = NoName
    DefaultName = DefaultName
    Clients <- TwoClients
    Names <- TwoNames
    MaxRows = 4
SPECIFICATION Spec
INVARIANT TypeOK
PROPERTY DefaultSettles
