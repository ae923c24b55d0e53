SPECIFICATION Spec
CONSTANTS
    owner = owner
    operator = operator
    admin = admin
    People <- Staff
    Owner = owner
    Role <- RoleOf
    Nobody = Nobody
    Activations = {a1, a2}
    Approvals = {x1, x2}
    LiveOrders = {o1}
INVARIANTS
    TypeOK
    TwoPeople
PROPERTIES
    LiveOrderHasTwoSigners
    WithdrawnStays
SYMMETRY Symmetry
