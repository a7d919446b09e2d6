--------------------------- MODULE CumulativeFills ---------------------------
(***************************************************************************)
(* What the ledger promises about the fills of one broker order            *)
(* (ledger_ops.record_cumulative_fill): the booked quantity follows the    *)
(* broker's cumulative quantity, whoever books and however often an answer *)
(* is read, and never overtakes it, shrinks or counts a fill twice.        *)
(***************************************************************************)
EXTENDS Integers

CONSTANT Qty        \* the order's quantity

VARIABLES
    filled,         \* the broker's cumulative filled_qty
    booked,         \* the sum of the order's rows in paper_fills
    dead            \* the order is terminal at the broker

vars == <<filled, booked, dead>>

Init == filled = 0 /\ booked = 0 /\ dead = FALSE

\* The broker fills one more share; a full order is terminal.
Fill ==
    /\ ~dead /\ filled < Qty
    /\ filled' = filled + 1 /\ dead' = (filled + 1 = Qty)
    /\ UNCHANGED booked

\* The broker ends the order: canceled, expired or rejected.
End == ~dead /\ dead' = TRUE /\ UNCHANGED <<filled, booked>>

\* The ledger books what some answer of the broker reported beyond booked.
Book ==
    /\ booked' \in (booked + 1)..filled
    /\ UNCHANGED <<filled, dead>>

Next == Fill \/ End \/ Book

Spec == Init /\ [][Next]_vars
=============================================================================
