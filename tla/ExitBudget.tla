---------------------------- MODULE ExitBudget -----------------------------
(***************************************************************************)
(* What the exits of a position promise.  The lot that was bought is       *)
(* offered for sale at most once at a time, and only for what is still     *)
(* held; a sale is booked at most once; and the position is closed when    *)
(* all of it is sold and booked and nothing is on offer.                   *)
(***************************************************************************)
EXTENDS Integers

CONSTANT Lot    \* the shares of the position

VARIABLES
    held,       \* shares not sold yet
    offered,    \* shares that an exit order may still sell
    booked,     \* sold shares in the ledger
    closed

vars == <<held, offered, booked, closed>>

Init == held = Lot /\ offered = Lot /\ booked = 0 /\ closed = FALSE

Offer ==
    /\ ~closed /\ held > 0 /\ offered = 0
    /\ offered' = held
    /\ UNCHANGED <<held, booked, closed>>

Sell ==
    /\ offered > 0 /\ offered' = offered - 1 /\ held' = held - 1
    /\ UNCHANGED <<booked, closed>>

Withdraw ==
    /\ offered > 0 /\ offered' = 0
    /\ UNCHANGED <<held, booked, closed>>

Book ==
    /\ ~closed /\ booked' \in (booked + 1)..(Lot - held)
    /\ UNCHANGED <<held, offered, closed>>

Close ==
    /\ ~closed /\ held = 0 /\ offered = 0 /\ booked = Lot
    /\ closed' = TRUE
    /\ UNCHANGED <<held, offered, booked>>

Next == Offer \/ Sell \/ Withdraw \/ Book \/ Close

Spec == Init /\ [][Next]_vars
=============================================================================
