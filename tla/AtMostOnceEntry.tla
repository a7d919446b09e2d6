-------------------------- MODULE AtMostOnceEntry --------------------------
(***************************************************************************)
(* What the entry path of AlphaOS promises its account.                    *)
(*                                                                         *)
(* An entry is opened, sent at most once, and decided: placed, when the    *)
(* broker has the order, or void, when the broker can never have it.  An   *)
(* undecided entry closes the gate: nothing else is opened or sent.  The   *)
(* order travels on its own time, and a placed entry may be doubted again. *)
(***************************************************************************)
EXTENDS Naturals

CONSTANT Entries

VARIABLES
    intent,   \* idle, open, placed or void
    order     \* none, flying, live or gone (refused or lost)

vars == <<intent, order>>

Undecided(e) == intent[e] = "open"
GateOpenFor(e) == \A f \in Entries \ {e} : ~Undecided(f)

Init ==
    /\ intent = [e \in Entries |-> "idle"]
    /\ order = [e \in Entries |-> "none"]

Decide(e, from, to) == intent[e] = from /\ intent' = [intent EXCEPT ![e] = to]

Open(e) == GateOpenFor(e) /\ Decide(e, "idle", "open") /\ UNCHANGED order

Send(e) ==
    /\ Undecided(e) /\ GateOpenFor(e) /\ order[e] = "none"
    /\ order' = [order EXCEPT ![e] = "flying"]
    /\ UNCHANGED intent

Arrive(e) ==
    /\ order[e] = "flying"
    /\ \E o \in {"live", "gone"} : order' = [order EXCEPT ![e] = o]
    /\ UNCHANGED intent

Place(e) == order[e] = "live" /\ Decide(e, "open", "placed") /\ UNCHANGED order

Void(e) == order[e] \in {"none", "gone"} /\ Decide(e, "open", "void") /\ UNCHANGED order

Doubt(e) == Decide(e, "placed", "open") /\ UNCHANGED order

Next == \E e \in Entries :
    Open(e) \/ Send(e) \/ Arrive(e) \/ Place(e) \/ Void(e) \/ Doubt(e)

Spec == Init /\ [][Next]_vars
=============================================================================
