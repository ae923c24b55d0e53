SPECIFICATION Spec
CONSTANTS
    i1 = i1
    ClientIds = {i1}
    Legs = {}
    Parent <- LegOfOne
    Foreign = {f1}
    Requests = {q1}
    RequestId <- OneId
    Reconcilers = {r1}
    BrokerUses = {"filled"}
    Qty = 2
    MaxAttempts = 1
PROPERTY OrphanKeepsSwitch
CHECK_DEADLOCK FALSE
