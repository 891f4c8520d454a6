SPECIFICATION Spec
CONSTANTS
    u1 = u1
    u2 = u2
    n1 = n1
    n2 = n2
    x = x
    y = y
    k1 = k1
    User = {u1, u2}
    Note = {n1}
    Text = {x, y}
    Key = {k1}
    Request = {r1, r2}
    Owner <- OneOwner
    Order <- OneUser
    NoKey = NoKey
    NoText = NoText
    NoClaim = NoClaim
    NoResult = NoResult
    NoOrder = NoOrder
PROPERTIES
    NotFoundIsFinal
