SPECIFICATION FairLedgerSpec
CONSTANTS
    i1 = i1
    ClientIds = {i1}
    Legs = {l1}
    Parent <- LegOfOne
    Foreign = {}
    Requests = {q1, q2}
    RequestId <- OneId
    Reconcilers = {r1}
    BrokerUses = {"partially_filled", "filled"}
    Qty = 2
    MaxAttempts = 2
INVARIANTS TypeOK SubmittedOnce LedgerNeverAhead
PROPERTIES ImplementsProtocol LegConverges
CHECK_DEADLOCK FALSE
