---------------------------- MODULE PortfolioSim ----------------------------
(***************************************************************************)
(* portfolioBacktest (backtestAdvanced.js): the trades of the legs, each    *)
(* simulated alone, replayed in the order of their entries against one pool *)
(* of cash with a ceiling on the positions open at a time; and the reshuffle *)
(* of the trades, monteCarloTrades.  A step is one iteration of the loop.   *)
(***************************************************************************)
EXTENDS Integers, Sequences, FiniteSets, FiniteSetsExt, SequencesExt

CONSTANTS
    LegTrades,       \* sets of trades the legs may have made
    MaxConcurrent, PoolPct, PoolCash

ASSUME PortfolioAssumption ==
    /\ MaxConcurrent \in Nat \ {0} /\ PoolPct \in 1 .. 100 /\ PoolCash \in Nat
    /\ \A ts \in LegTrades : IsFiniteSet(ts) /\ \A t \in ts :
            /\ t \in [id : Nat, entry : Nat, exit : Nat, bought : Nat \ {0}, sold : Nat]
            /\ t.entry <= t.exit
            /\ \A u \in ts : u.id = t.id => u = t

VARIABLES
    queue,           \* trades not looked at yet, by entry
    open,            \* accepted trades whose exit is not booked, by exit
    cash,
    accepted,        \* every accepted trade, with its shares
    refused,         \* the trades refused for the ceiling
    endings          \* monteCarloTrades: ending equities of the shuffles run

poolVars == <<queue, open, cash, accepted, refused, endings>>

ByEntry(a, b) == a.entry < b.entry
ByExit(a, b) == a.exit < b.exit

\* allTrades.sort by entry, which is stable: trades are numbered in the order of the legs.
InOrder(s) == \A m, n \in DOMAIN s : m < n => ByEntry(s[m], s[n]) \/ (s[m].entry = s[n].entry /\ s[m].id < s[n].id)

PoolInit ==
    /\ \E ts \in LegTrades : queue \in {s \in SetToSeqs(ts) : InOrder(s)}
    /\ open = <<>> /\ cash = PoolCash /\ accepted = {} /\ refused = {} /\ endings = {}

Value(t) == t.shares * t.sold
Cost(t) == t.shares * t.bought
Taken(t, shares) ==
    [id |-> t.id, entry |-> t.entry, exit |-> t.exit, bought |-> t.bought, sold |-> t.sold, shares |-> shares]
Values(s) == SumFunction([n \in DOMAIN s |-> Value(s[n])])
Profits(s) == SumFunction([n \in DOMAIN s |-> Value(s[n]) - Cost(s[n])])

\* The first of some positions of a sequence, or the one after its last.
First(positions, s) == Min(positions \union {Len(s) + 1})

\* The trades at the head of open whose exit predates the entry are booked.
Due(entry) == First({n \in DOMAIN open : open[n].exit >= entry}, open)
Booked(entry) == SubSeq(open, 1, Due(entry) - 1)
Remaining(entry) == SubSeq(open, Due(entry), Len(open))

\* Mutant: an accepted trade goes to the end, and the head is not the first to exit.
PlacedLast(s, t) == Append(s, t)

\* open.sort by exit, which is stable.
Placed(s, t) == InsertAt(s, First({n \in DOMAIN s : ByExit(t, s[n])}, s), t)

Replay ==
    /\ queue # <<>>
    /\ queue' = Tail(queue)
    /\ LET trade == Head(queue)
           funds == cash + Values(Booked(trade.entry))
           shares == (funds * PoolPct) \div (100 * trade.bought)
           taken == Taken(trade, shares)
           full == Len(Remaining(trade.entry)) >= MaxConcurrent
       IN  IF full \/ shares = 0
           THEN /\ open' = Remaining(trade.entry) /\ cash' = funds
                /\ refused' = IF full THEN refused \union {trade} ELSE refused
                /\ UNCHANGED accepted
           ELSE /\ open' = Placed(Remaining(trade.entry), taken)
                /\ cash' = funds - Cost(taken)
                /\ accepted' = accepted \union {taken}
                /\ UNCHANGED refused
    /\ UNCHANGED endings

\* The open trades that are left are booked at their exits.
Drain ==
    /\ queue = <<>> /\ open # <<>>
    /\ cash' = cash + Values(open)
    /\ open' = <<>>
    /\ UNCHANGED <<queue, accepted, refused, endings>>

\* monteCarloTrades: the profits of all trades, added in a random order.
Shuffle ==
    /\ queue = <<>> /\ open = <<>> /\ accepted # {}
    /\ \E order \in SetToSeqs(accepted) :
            endings' = endings \union {PoolCash + Profits(order)}
    /\ UNCHANGED <<queue, open, cash, accepted, refused>>

PoolNext == Replay \/ Drain \/ Shuffle
PoolSpec == PoolInit /\ [][PoolNext]_poolVars

(***************************************************************************)
(* Properties                                                              *)
(***************************************************************************)

PoolTypeOK ==
    /\ Len(open) <= MaxConcurrent /\ cash \in Int
    /\ ToSet(open) \subseteq accepted
    /\ endings \subseteq Int

\* A trade whose exit is not before the entry still holds its place.
Live(t, at) == t.entry <= at /\ at <= t.exit

\* The ceiling is exact: at the entry of an accepted trade no more than MaxConcurrent are
\* live, and a trade is refused for it only when that many are.  An exit is booked in time,
\* in whatever order the legs entered.
CeilingExact ==
    /\ \A t \in accepted : Cardinality({u \in accepted : Live(u, t.entry)}) <= MaxConcurrent
    /\ \A t \in refused : Cardinality({u \in accepted : Live(u, t.entry)}) = MaxConcurrent
=============================================================================
