--------------------------- MODULE AccountExposure ---------------------------
(***************************************************************************)
(* The account limits behind a paper entry.                                *)
(*                                                                         *)
(* Orchestrator._execute_owned asks read_exposure what the account has     *)
(* already committed, and RiskEngine.assess whether one more entry fits.   *)
(* The answer is pieced together from broker reads that are not one        *)
(* snapshot, while entries fill, protection sells and answers get lost.    *)
(*                                                                         *)
(* One step is one broker read, one ledger transaction or one event at the *)
(* broker.  Shares cost one unit of equity each, at every moment: a market *)
(* that moves between the reads is not modelled.  Refusals for reasons     *)
(* other than the account (quotes, losses, approval) may come at any time. *)
(***************************************************************************)
EXTENDS Integers, FiniteSets, FiniteSetsExt, Shares

CONSTANTS
    Proposals, Symbols,
    SymbolOf,    \* [Proposals -> Symbols]
    Qty,         \* [Proposals -> shares of the proposal]
    Equity,      \* account equity, in shares
    MaxOpen,     \* settings.max_open_positions
    MaxTrades,   \* settings.max_paper_trades_per_day
    Senders,     \* processes that execute proposals
    Nobody

ASSUME ExposureAssumption ==
    /\ IsFiniteSet(Proposals) /\ IsFiniteSet(Symbols)
    /\ SymbolOf \in [Proposals -> Symbols] /\ Qty \in [Proposals -> Nat \ {0}]
    /\ {Equity, MaxOpen, MaxTrades} \subseteq Nat
    /\ Nobody \notin Proposals \cup Senders

VARIABLES
    \* the broker
    entry,       \* the entry order of a proposal
    filled,      \* shares it bought
    sold,        \* shares its protection, or an exit, sold again
    \* the ledger
    intent,      \* the paper_orders row of the entry
    booked,      \* qty of the open positions row (0: there is none)
    \* the senders
    pc, prop,
    first,       \* the first read of the positions, per symbol
    open,        \* the read of the open entry orders: what is left to fill
    last,        \* the second read of the positions
    owner        \* who holds entry_submission_lock and monitor_ownership

broker == <<entry, filled, sold>>
ledger == <<intent, booked>>
sender == <<pc, prop, first, open, last>>
vars == <<broker, ledger, sender, owner>>

Held(p) == filled[p] - sold[p]
OfSymbol(x) == {p \in Proposals : SymbolOf[p] = x}

\* list_positions and list_open_orders as they stand now
Positions == [x \in Symbols |-> Total([p \in OfSymbol(x) |-> Held(p)])]
OpenEntries == [p \in Proposals |-> IF entry[p] = "working" THEN Qty[p] - filled[p] ELSE 0]
HeldIn(positions) == {x \in Symbols : positions[x] > 0}

\* Whether the answer to p's POST is still open (PENDING_PHASES).
Unresolved(p) == intent[p] = "pending"

\* Mutant of NoneUnresolved: what nobody has answered is not committed.
UnresolvedIsFree == TRUE

\* pending_entry_intent: read_exposure refuses while one is unresolved.
NoneUnresolved == \A p \in Proposals : ~Unresolved(p)

Init ==
    /\ entry = [p \in Proposals |-> "none"] /\ intent = [p \in Proposals |-> "none"]
    /\ filled = [p \in Proposals |-> 0] /\ sold = filled /\ booked = filled
    /\ pc = [s \in Senders |-> "idle"] /\ prop = [s \in Senders |-> Nobody]
    /\ first = [s \in Senders |-> [x \in Symbols |-> 0]] /\ last = first
    /\ open = [s \in Senders |-> [p \in Proposals |-> 0]]
    /\ owner = Nobody

-----------------------------------------------------------------------------
(* The sender: read_exposure, assess, and the entry *)

Goto(s, at) == pc' = [pc EXCEPT ![s] = at]

\* Mutant of Begin: the account is not owned during the check.
BeginUnowned(s, p) ==
    /\ pc[s] = "idle" /\ intent[p] = "none" /\ \A t \in Senders : prop[t] # p
    /\ NoneUnresolved
    /\ prop' = [prop EXCEPT ![s] = p] /\ Goto(s, "account")
    /\ UNCHANGED <<broker, ledger, first, open, last, owner>>

\* _execute: both locks, or the entry is deferred; then the pending intents,
\* and the account, whose equity does not move.
Begin(s, p) ==
    /\ pc[s] = "idle" /\ intent[p] = "none" /\ owner = Nobody
    /\ NoneUnresolved
    /\ owner' = s /\ prop' = [prop EXCEPT ![s] = p] /\ Goto(s, "account")
    /\ UNCHANGED <<broker, ledger, first, open, last>>

ReadPositions(s) ==
    /\ pc[s] = "account"
    /\ first' = [first EXCEPT ![s] = Positions] /\ Goto(s, "positions")
    /\ UNCHANGED <<broker, ledger, prop, open, last, owner>>

ReadOrders(s) ==
    /\ pc[s] = "positions"
    /\ open' = [open EXCEPT ![s] = OpenEntries] /\ Goto(s, "orders")
    /\ UNCHANGED <<broker, ledger, prop, first, last, owner>>

\* Mutant of ReadAgain: one read of the positions, before the orders.
ReadOnce(s) ==
    /\ pc[s] = "orders"
    /\ last' = [last EXCEPT ![s] = first[s]] /\ Goto(s, "read")
    /\ UNCHANGED <<broker, ledger, prop, first, open, owner>>

\* A position that changed during the reads makes them worthless.
ReadAgain(s) ==
    /\ pc[s] = "orders" /\ Positions = first[s]
    /\ last' = [last EXCEPT ![s] = Positions] /\ Goto(s, "read")
    /\ UNCHANGED <<broker, ledger, prop, first, open, owner>>

\* verified_live_roles of the bracket of p for q shares: the whole entry has
\* filled, and both legs still cover exactly q.
Protected(p, q) == entry[p] = "filled" /\ Held(p) = q

Origins(x) == {p \in OfSymbol(x) : booked[p] > 0}

\* verify_symbol_attribution: several origins explain one position together.
Attributed(x) ==
    /\ Total([p \in Origins(x) |-> booked[p]]) = Positions[x]
    /\ \A p \in Origins(x) : Protected(p, booked[p])
    /\ \A p \in OfSymbol(x) : booked[p] = 0 /\ entry[p] = "working" => filled[p] = 0

\* Every held symbol is the ledger's, share by share, and is protected.
Reconciled(s) ==
    \A x \in HeldIn(last[s]) :
        \/ Cardinality(Origins(x)) > 1 /\ Attributed(x) /\ Positions[x] = last[s][x]
        \/ \E p \in Proposals :
              /\ Origins(x) = {p}
              /\ booked[p] = last[s][x] /\ Protected(p, last[s][x])

\* summarize_exposure: which open entries take a slot of their own.
PendingSlots(s) ==
    Cardinality({p \in Proposals :
        open[s][p] > 0 /\ (open[s][p] = Qty[p] \/ SymbolOf[p] \notin HeldIn(last[s]))})

Committed(s) == Total(last[s]) + Total(open[s])

OpenPositions(s) ==
    Max({Cardinality(HeldIn(last[s])), Cardinality({p \in Proposals : booked[p] > 0})})
    + PendingSlots(s)

TradesToday == Cardinality({p \in Proposals : intent[p] # "none"})

\* RiskEngine.assess and size_position, on the account's limits.
Fits(s) ==
    /\ OpenPositions(s) < MaxOpen /\ TradesToday < MaxTrades
    /\ Qty[prop[s]] <= Equity - Committed(s)

Assess(s) ==
    /\ pc[s] = "read" /\ Reconciled(s) /\ Fits(s)
    /\ Goto(s, "cleared")
    /\ UNCHANGED <<broker, ledger, prop, first, open, last, owner>>

\* The sender is done with the proposal; its reads mean nothing any more.
Leave(s) ==
    /\ Goto(s, "idle") /\ prop' = [prop EXCEPT ![s] = Nobody]
    /\ first' = [first EXCEPT ![s] = [x \in Symbols |-> 0]]
    /\ last' = [last EXCEPT ![s] = [x \in Symbols |-> 0]]
    /\ open' = [open EXCEPT ![s] = [p \in Proposals |-> 0]]
    /\ owner' = IF owner = s THEN Nobody ELSE owner

\* A block or a deferral at any of the gates, or the death of the process.
Refuse(s) == pc[s] # "idle" /\ Leave(s) /\ UNCHANGED <<broker, ledger>>

\* execute_proposal: the row, then the one POST; its answer may get lost.
Submit(s) ==
    LET p == prop[s] IN
    /\ pc[s] = "cleared" /\ intent[p] = "none"
    /\ \E outcome \in {<<"acknowledged", "working">>, <<"pending", "wire">>, <<"settled", "none">>} :
          /\ intent' = [intent EXCEPT ![p] = outcome[1]]
          /\ entry' = [entry EXCEPT ![p] = outcome[2]]
    /\ Leave(s)
    /\ UNCHANGED <<filled, sold, booked>>

-----------------------------------------------------------------------------
(* The broker, and the monitor that books what happened there *)

Deliver(p) ==
    /\ entry[p] = "wire"
    /\ entry' = [entry EXCEPT ![p] = "working"]
    /\ UNCHANGED <<filled, sold, ledger, sender, owner>>

Fill(p) ==
    /\ entry[p] = "working"
    /\ filled' = [filled EXCEPT ![p] = @ + 1]
    /\ entry' = [entry EXCEPT ![p] = IF filled'[p] = Qty[p] THEN "filled" ELSE @]
    /\ UNCHANGED <<sold, ledger, sender, owner>>

Cancel(p) ==
    /\ entry[p] = "working"
    /\ entry' = [entry EXCEPT ![p] = "cancelled"]
    /\ UNCHANGED <<filled, sold, ledger, sender, owner>>

\* Nothing sells an entry that is still buying: its protection is not activated
\* until it completes (protection_watchdog.py:197), and every closing pass refuses
\* it (time_exit_lifecycle.py:520) or cancels it first (alpaca_client.py:587).
Sell(p) ==
    /\ entry[p] # "working" /\ Held(p) > 0
    /\ sold' = [sold EXCEPT ![p] = @ + 1]
    /\ UNCHANGED <<entry, filled, ledger, sender, owner>>

\* The monitor's visit of one entry: acknowledged once the broker knows it, and
\* the position booked as it stands.  It needs monitor_ownership.
Reconcile(p) ==
    /\ owner = Nobody /\ entry[p] \notin {"none", "wire"}
    /\ intent' = [intent EXCEPT ![p] = "acknowledged"]
    /\ booked' = [booked EXCEPT ![p] = Held(p)]
    /\ UNCHANGED <<broker, sender, owner>>

SenderStep(s) ==
    \/ \E p \in Proposals : Begin(s, p)
    \/ ReadPositions(s) \/ ReadOrders(s) \/ ReadAgain(s) \/ Assess(s)
    \/ Submit(s) \/ Refuse(s)

BrokerStep(p) == Deliver(p) \/ Fill(p) \/ Cancel(p) \/ Sell(p)

Next ==
    \/ \E s \in Senders : SenderStep(s)
    \/ \E p \in Proposals : BrokerStep(p) \/ Reconcile(p)

Spec == Init /\ [][Next]_vars

-----------------------------------------------------------------------------
Entries == {"none", "wire", "working", "filled", "cancelled"}
Intents == {"none", "pending", "acknowledged", "settled"}
Pcs == {"idle", "account", "positions", "orders", "read", "cleared"}

\* The day's entries stay within max_paper_trades_per_day, refused ones included:
\* several senders may hold a count that still had room.
TradesWithinLimit == TradesToday <= MaxTrades

\* Every variable keeps its type, an entry never buys more than it asked for or
\* sells more than it bought, only the owner of the account checks it, and the
\* day's count is never overrun.
ExposureInv ==
    /\ entry \in [Proposals -> Entries] /\ intent \in [Proposals -> Intents]
    /\ {filled, sold, booked} \subseteq [Proposals -> Nat]
    /\ \A p \in Proposals : {sold[p], booked[p]} \subseteq 0..filled[p] /\ filled[p] <= Qty[p]
    /\ \A p \in Proposals : filled[p] > 0 => intent[p] # "none"
    /\ pc \in [Senders -> Pcs] /\ prop \in [Senders -> Proposals \cup {Nobody}]
    /\ \A s \in Senders : (pc[s] # "idle") = (owner = s) /\ (prop[s] = Nobody) = (pc[s] = "idle")
    /\ TradesWithinLimit

\* What the broker may still buy: on the wire or working.
Coming(p) == entry[p] \in {"wire", "working"}

\* However fills, sales and lost answers fall between the reads, held symbols
\* and entries that may still open one never exceed max_open_positions.
SlotsWithinLimit ==
    Cardinality(HeldIn(Positions))
    + Cardinality({p \in Proposals : Coming(p) /\
                     (filled[p] = 0 \/ SymbolOf[p] \notin HeldIn(Positions))}) <= MaxOpen

\* No leverage: everything held plus everything that may still fill is paid for
\* by the account's own equity, although it is never read in one piece.
NoLeverage ==
    Total([p \in Proposals |-> IF Coming(p) THEN Qty[p] - sold[p] ELSE Held(p)]) <= Equity

=============================================================================
