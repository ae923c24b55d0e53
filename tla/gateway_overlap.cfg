SPECIFICATION Spec
CONSTANTS
    i1 = i1
    ClientIds = {i1}
    Legs = {}
    Parent <- LegOfOne
    Foreign = {f1}
    Requests = {q1}
    RequestId <- OneId
    Reconcilers = {r1, r2}
    BrokerUses = {"filled", "canceled"}
    Qty = 1
    MaxAttempts = 1
SYMMETRY Symmetry
INVARIANTS DurableBeforeSubmit TerminalIsTrue OrphanIsForeign 
PROPERTIES ReconcileNeverRegresses
CHECK_DEADLOCK FALSE
