SPECIFICATION FairLedgerSpec
CONSTANTS
    i1 = i1
    ClientIds = {i1}
    Legs = {}
    Parent <- LegOfOne
    Foreign = {}
    Requests = {q1}
    RequestId <- OneId
    Reconcilers = {r1}
    BrokerUses = {"filled"}
    Qty = 2
    MaxAttempts = 1
PROPERTY UnknownIsDiscovered
CHECK_DEADLOCK FALSE
