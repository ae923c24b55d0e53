SPECIFICATION Spec
CONSTANTS
    i1 = i1
    ClientIds = {i1}
    Legs = {}
    Parent <- LegOfOne
    Foreign = {}
    Requests = {q1}
    RequestId <- OneId
    Reconcilers = {r1}
    BrokerUses = {"partially_filled", "filled"}
    Qty = 2
    MaxAttempts = 1
PROPERTY DelayedAcceptIgnored
CHECK_DEADLOCK FALSE
