------------------------------ MODULE TimeExit ------------------------------
(***************************************************************************)
(* The reduction of one due paper position: the monitor's pass            *)
(* (OrderManager.reconcile and enforce_time_exits), the durable closing   *)
(* intents of TimeExitLifecycle, and the broker's protective and closing   *)
(* orders.  A stop/target pair is one protective order.  One step is one   *)
(* broker call or one ledger transaction.                                  *)
(***************************************************************************)
EXTENDS Integers, FiniteSets, Shares

CONSTANTS
    Passes,        \* monitor passes that may run
    Qty,           \* the position's shares
    MaxIntents,    \* bound: durable intents of each purpose
    MaxCrashes,    \* bound: deaths of a pass
    Ownership,     \* passes run under monitor_ownership
    LateDelivery   \* a POST may reach the broker after a lookup said 404

ASSUME SizesAssumption == Qty \in Nat \ {0} /\ MaxIntents \in Nat /\ MaxCrashes \in Nat
ASSUME SwitchAssumption == Ownership \in BOOLEAN /\ LateDelivery \in BOOLEAN

Bracket  == <<"bracket", 0>>
Closes   == {"time_exit"} \X (1..MaxIntents)
Ocos     == {"reprotect"} \X (1..MaxIntents)
Intents  == Closes \cup Ocos
Guards   == {Bracket} \cup Ocos
Orders   == Intents \cup {Bracket}
NoOrder  == <<"none", 0>>
Nobody   == "nobody"
ASSUME NobodyAssumption == Nobody \notin Passes

ActivePhases == {"canceling", "submitting", "working", "unknown"}
Phases  == ActivePhases \cup {"none", "terminal", "protected", "complete"}

VARIABLES
    phase,      \* the phase of each durable intent
    known,      \* the intent's broker_order_id is saved
    size,       \* the intent's quantity
    booked,     \* cumulative fills of each exit order in paper_fills
    position,   \* positions.status
    guard,      \* positions.broker_order_id: the protection's parent
    incident,   \* a blocking protection incident is open
    live,       \* the broker's view of each exit order
    filled,     \* its cumulative filled_qty
    session,    \* the regular session is open
    posts,      \* POSTs handed to the transport for each intent
    pc, row,    \* each pass's control point and its time_exit intent
    oco,        \* the reprotect intent it works on
    seen,       \* what it last read at the broker
    lock,       \* monitor_ownership
    crashes

ledgerVars == <<phase, known, size, booked, position, guard>>
brokerVars == <<live, filled, posts>>
passVars   == <<pc, row, oco, seen>>
vars == <<ledgerVars, incident, brokerVars, session, passVars, lock, crashes>>

Size(o)  == IF o = Bracket THEN Qty ELSE size[o]
Residual == Qty - Total(booked)      \* positions.qty
Held     == Qty - Total(filled)      \* the broker's position
Working(o) == live[o] \in {"live", "pending"}
Active(kinds) == {i \in kinds : phase[i] \in ActivePhases}
Issued(kinds) == {i \in kinds : phase[i] # "none"}

\* TimeExitLifecycle._fresh: quantity, and no order besides the allowed ones.
Fresh(allowed) ==
    /\ Residual > 0 /\ Held = Residual
    /\ \A o \in Orders \ allowed : ~Working(o)

Books == {"enforce", "fresh", "verified", "refresh", "observed"}
Pcs == {"idle", "reconcile", "enforce", "book", "flat", "close", "settle", "watch",
        "lookup", "absent", "observe", "observed", "session", "protection", "fresh", "elect",
        "cancel", "verify", "verified", "unverified", "free", "still", "claim", "post", "ask",
        "confirm", "poll", "recover", "relookup", "reread", "refresh", "reelect", "repost",
        "reask", "adopt", "check", "protect"}
NoSeen == [order |-> NoOrder, filled |-> 0, dead |-> FALSE, qty |-> 0, back |-> "enforce"]

TypeOK ==
    /\ phase \in [Intents -> Phases] /\ known \in [Intents -> BOOLEAN]
    /\ size \in [Intents -> 0..Qty] /\ booked \in [Orders -> 0..Qty]
    /\ position \in {"open", "closed"} /\ guard \in Guards
    /\ incident \in BOOLEAN /\ session \in BOOLEAN
    /\ live \in [Orders -> {"none", "wire", "live", "pending", "dead"}]
    /\ filled \in [Orders -> 0..Qty] /\ posts \in [Intents -> Nat]
    /\ pc \in [Passes -> Pcs] /\ row \in [Passes -> Closes \cup {NoOrder}]
    /\ oco \in [Passes -> Ocos \cup {NoOrder}]
    /\ seen \in [Passes -> [order : Orders \cup {NoOrder}, filled : 0..Qty, dead : BOOLEAN,
                            qty : 0..Qty, back : Books]]
    /\ lock \in Passes \cup {Nobody} /\ crashes \in 0..MaxCrashes

Init ==
    /\ phase = [i \in Intents |-> "none"] /\ known = [i \in Intents |-> FALSE]
    /\ size = [i \in Intents |-> 0] /\ booked = [o \in Orders |-> 0]
    /\ position = "open" /\ guard = Bracket /\ incident = FALSE
    /\ live = [o \in Orders |-> IF o = Bracket THEN "live" ELSE "none"]
    /\ filled = [o \in Orders |-> 0] /\ posts = [i \in Intents |-> 0]
    /\ session \in BOOLEAN
    /\ pc = [p \in Passes |-> "idle"] /\ row = [p \in Passes |-> NoOrder]
    /\ oco = [p \in Passes |-> NoOrder] /\ seen = [p \in Passes |-> NoSeen]
    /\ lock = Nobody /\ crashes = 0

-----------------------------------------------------------------------------
(* Moves of a pass.                                                        *)

Goto(p, at) == pc' = [pc EXCEPT ![p] = at] /\ UNCHANGED <<row, oco, seen>>

\* The lifecycle returns; the pass goes on to the protection watchdog.
Leave(p) ==
    /\ pc' = [pc EXCEPT ![p] = "watch"]
    /\ row' = [row EXCEPT ![p] = NoOrder] /\ oco' = [oco EXCEPT ![p] = NoOrder]
    /\ seen' = [seen EXCEPT ![p] = NoSeen]

\* TimeExitLifecycle.incident, and the return that follows it.
Flag(p) == incident' = TRUE /\ Leave(p)

\* The order o as the broker reports it now.
Read(p, o, back) ==
    seen' = [seen EXCEPT ![p] = [order |-> o, filled |-> filled[o], dead |-> live[o] = "dead",
                                 qty |-> 0, back |-> back]]

\* Read the order and book what it has filled before going on at back.
ReadAndBook(p, o, back) ==
    /\ Read(p, o, back)
    /\ pc' = [pc EXCEPT ![p] = IF filled[o] > 0 THEN "book" ELSE back]
    /\ UNCHANGED <<row, oco>>

\* Recovery reached an end that finishes a canceling intent, if there is one.
Settling(p) ==
    IF row[p] = NoOrder THEN Leave(p) ELSE Goto(p, "settle")

\* What the callers of _record_broker_exit make of its exception.
BookingFailed(p) ==
    \/ seen[p].back = "enforce" /\ incident' = TRUE /\ Goto(p, "enforce")
    \/ seen[p].back = "verified" /\ Goto(p, "unverified") /\ UNCHANGED incident
    \/ seen[p].back \notin {"enforce", "verified"} /\ Flag(p)

\* What the callers make of a position that is closed now.
BookedClosed(p) ==
    \/ seen[p].back \in {"enforce", "observed"} /\ Leave(p)
    \/ seen[p].back \notin {"enforce", "observed"} /\ Settling(p)

Quiet == UNCHANGED <<session, lock, crashes>>

-----------------------------------------------------------------------------
(* The pass and the accounting of exit fills.                              *)

Start(p) ==
    /\ pc[p] = "idle" /\ position = "open"
    /\ IF Ownership THEN lock = Nobody /\ lock' = p ELSE UNCHANGED lock
    /\ Goto(p, "reconcile")
    /\ UNCHANGED <<ledgerVars, incident, brokerVars, session, crashes>>

\* OrderManager.reconcile reads the position's current protection.
Reconcile(p) ==
    /\ pc[p] = "reconcile"
    /\ \/ ReadAndBook(p, guard, "enforce") /\ UNCHANGED incident
       \/ Goto(p, "enforce") /\ incident' = (incident \/ guard # Bracket)
    /\ UNCHANGED <<ledgerVars, brokerVars>> /\ Quiet

\* Bug: books the cumulative quantity again instead of its increment.
BookFillAgain(p) ==
    /\ pc[p] = "book" /\ position = "open"
    /\ booked' = [booked EXCEPT ![seen[p].order] = @ + seen[p].filled]
    /\ Goto(p, IF Residual <= seen[p].filled THEN "flat" ELSE seen[p].back)
    /\ UNCHANGED <<phase, known, size, position, guard, incident, brokerVars>> /\ Quiet

\* _record_broker_exit, its first transaction: the cumulative fill.
BookFill(p) ==
    LET o == seen[p].order
        rest == Residual + booked[o] - seen[p].filled IN
    /\ pc[p] = "book"
    /\ \/ /\ position = "open" /\ seen[p].filled >= booked[o] /\ rest >= 0
          /\ booked' = [booked EXCEPT ![o] = seen[p].filled]
          /\ Goto(p, IF rest = 0 THEN "flat" ELSE seen[p].back)
          /\ UNCHANGED incident
       \/ /\ position = "open" /\ (seen[p].filled < booked[o] \/ rest < 0)
          /\ BookingFailed(p)
          /\ UNCHANGED booked
       \/ /\ position = "closed"
          /\ IF seen[p].back = "observed" THEN Goto(p, "observed") ELSE BookedClosed(p)
          /\ UNCHANGED <<booked, incident>>
    /\ UNCHANGED <<phase, known, size, position, guard, brokerVars>> /\ Quiet

\* The fills account for the whole position: is the broker flat?
CheckFlat(p) ==
    /\ pc[p] = "flat"
    /\ \/ Held = 0 /\ Goto(p, "close") /\ UNCHANGED incident
       \/ Held # 0 /\ incident' = TRUE /\ Goto(p, seen[p].back)
       \/ BookingFailed(p)
    /\ UNCHANGED <<ledgerVars, brokerVars>> /\ Quiet

\* close_position and its finalize hook: one transaction.
ClosePosition(p) ==
    LET o == seen[p].order IN
    /\ pc[p] = "close"
    /\ IF position = "open"
       THEN /\ position' = "closed"
            /\ phase' = IF o \in Closes THEN [phase EXCEPT ![o] = "complete"] ELSE phase
            /\ BookedClosed(p)
       ELSE /\ Goto(p, seen[p].back)
            /\ UNCHANGED <<position, phase>>
    /\ UNCHANGED <<known, size, booked, guard, incident, brokerVars>> /\ Quiet

\* The transaction after the fact that ends a canceling intent.
Settle(p) ==
    /\ pc[p] = "settle"
    /\ phase' = [phase EXCEPT ![row[p]] = "terminal"]
    /\ Leave(p)
    /\ UNCHANGED <<known, size, booked, position, guard, incident, brokerVars>> /\ Quiet

\* Bug: the watchdog compares quantities and does not look at the orders.
ExposedQuantity == position = "open" /\ (Held = 0 \/ Held # Residual)

\* Bug: the watchdog looks at the orders and does not compare quantities.
ExposedOrders == position = "open" /\ live[guard] # "live"

\* check_position: anything but both legs live for exactly what is held.
Exposed ==
    /\ position = "open"
    /\ \/ Held = 0 \/ Held # Residual
       \/ live[guard] # "live" \/ Size(guard) - filled[guard] # Held

\* The protection watchdog reads the position or fails; the pass then ends.
Watchdog(p) ==
    /\ pc[p] = "watch"
    /\ incident' \in {incident, Exposed}
    /\ Goto(p, "idle")
    /\ lock' = IF lock = p THEN Nobody ELSE lock
    /\ UNCHANGED <<ledgerVars, brokerVars, session, crashes>>

-----------------------------------------------------------------------------
(* advance: an intent already submitted.                                   *)

\* The bound on intents: a pass makes at most one of each purpose, and none of a
\* purpose it found an active intent for.
Room ==
    LET busy == Cardinality({q \in Passes : pc[q] # "idle"}) IN
    \/ Active(Ocos) # {}
    \/ /\ Cardinality(Issued(Ocos)) + busy <= MaxIntents
       /\ Active(Closes) # {} \/ Cardinality(Issued(Closes)) + busy <= MaxIntents

Enforce(p) ==
    /\ pc[p] = "enforce"
    /\ \/ Leave(p)      \* not due, disabled, or the preflight read failed
       \/ /\ Room /\ position = "open"
          /\ Active(Intents) # {} \/ session
          /\ IF Active(Ocos) # {}
             THEN \E i \in Active(Ocos) :
                     /\ oco' = [oco EXCEPT ![p] = i]
                     /\ pc' = [pc EXCEPT ![p] = "relookup"]
                     /\ UNCHANGED row
             ELSE IF Active(Closes) # {}
             THEN \E i \in Active(Closes) :
                     /\ row' = [row EXCEPT ![p] = i]
                     /\ pc' = [pc EXCEPT ![p] = IF phase[i] = "canceling" THEN "session"
                                                ELSE "lookup"]
                     /\ UNCHANGED oco
             ELSE pc' = [pc EXCEPT ![p] = "session"] /\ UNCHANGED <<row, oco>>
          /\ seen' = [seen EXCEPT ![p] = NoSeen]
    /\ UNCHANGED <<ledgerVars, incident, brokerVars>> /\ Quiet

\* _lookup of the closing order: by broker id, else by client id.
Lookup(p) ==
    LET i == row[p] IN
    /\ pc[p] = "lookup"
    /\ \/ Flag(p)
       \/ /\ live[i] \in {"live", "pending", "dead"}
          /\ Read(p, i, "observed") /\ pc' = [pc EXCEPT ![p] = "observe"]
          /\ UNCHANGED <<row, oco, incident>>
       \/ /\ live[i] \in {"none", "wire"} /\ ~known[i]
          /\ Goto(p, "absent") /\ UNCHANGED incident
    /\ UNCHANGED <<ledgerVars, brokerVars>> /\ Quiet

\* A 404: the intent is terminal and the position returns to protection.
Absent(p) ==
    /\ pc[p] = "absent"
    /\ phase' = [phase EXCEPT ![row[p]] = "terminal"]
    /\ row' = [row EXCEPT ![p] = NoOrder] /\ pc' = [pc EXCEPT ![p] = "recover"]
    /\ UNCHANGED <<known, size, booked, position, guard, incident, brokerVars, oco, seen>> /\ Quiet

\* _observe_close: the identity and phase first, then the fills.
Observe(p) ==
    LET i == row[p] IN
    /\ pc[p] = "observe"
    /\ phase' = [phase EXCEPT ![i] = "working"] /\ known' = [known EXCEPT ![i] = TRUE]
    /\ Goto(p, IF seen[p].filled > 0 THEN "book" ELSE "observed")
    /\ UNCHANGED <<size, booked, position, guard, incident, brokerVars>> /\ Quiet

\* _observe_close, once its fills are booked and the position is not closed.
Observed(p) ==
    /\ pc[p] = "observed"
    /\ IF Residual > 0 /\ seen[p].dead
       THEN /\ phase' = [phase EXCEPT ![row[p]] = "terminal"]
            /\ row' = [row EXCEPT ![p] = NoOrder] /\ pc' = [pc EXCEPT ![p] = "recover"]
            /\ UNCHANGED <<incident, oco, seen>>
       ELSE Flag(p) /\ UNCHANGED phase
    /\ UNCHANGED <<known, size, booked, position, guard, brokerVars>> /\ Quiet

-----------------------------------------------------------------------------
(* advance: cancel the protection, verify, submit the close.               *)

CheckSession(p) ==
    /\ pc[p] = "session"
    /\ \/ Flag(p)
       \/ /\ UNCHANGED incident
          /\ IF session THEN Goto(p, "protection")
             ELSE IF row[p] # NoOrder THEN Goto(p, "recover") ELSE Leave(p)
    /\ UNCHANGED <<ledgerVars, brokerVars>> /\ Quiet

\* _read_protection and _book_protective_fills.
ReadProtection(p) ==
    /\ pc[p] = "protection"
    /\ \/ Flag(p)
       \/ ReadAndBook(p, guard, "fresh") /\ UNCHANGED incident
    /\ UNCHANGED <<ledgerVars, brokerVars>> /\ Quiet

\* Ownership is fresh; a protection that ended in partial fills is restored.
FreshProtected(p) ==
    /\ pc[p] = "fresh"
    /\ \/ Flag(p)
       \/ /\ Fresh({seen[p].order})
          /\ UNCHANGED incident
          /\ IF row[p] # NoOrder THEN Goto(p, "cancel")
             ELSE IF seen[p].filled > 0 /\ seen[p].dead THEN Goto(p, "recover")
             ELSE Goto(p, "elect")
    /\ UNCHANGED <<ledgerVars, brokerVars>> /\ Quiet

\* _new("time_exit", "canceling") elects one owner.
Elect(p) ==
    LET i == <<"time_exit", Cardinality(Issued(Closes)) + 1>> IN
    /\ pc[p] = "elect"
    /\ \/ /\ Active(Closes) = {}
          /\ i \in Closes /\ phase[i] = "none"      \* UNIQUE order_id
          /\ phase' = [phase EXCEPT ![i] = "canceling"]
          /\ size' = [size EXCEPT ![i] = Residual]
          /\ row' = [row EXCEPT ![p] = i] /\ pc' = [pc EXCEPT ![p] = "cancel"]
          /\ UNCHANGED <<oco, seen>>
       \/ Active(Closes) # {} /\ Leave(p) /\ UNCHANGED <<phase, size>>
    /\ UNCHANGED <<known, booked, position, guard, incident, brokerVars>> /\ Quiet

\* Bug: trusts the cancel request and submits the close without verifying it.
CancelTrusted(p) ==
    LET o == seen[p].order IN
    /\ pc[p] = "cancel"
    /\ live' = IF live[o] = "live" THEN [live EXCEPT ![o] = "pending"] ELSE live
    /\ seen' = [seen EXCEPT ![p].qty = Residual] /\ pc' = [pc EXCEPT ![p] = "still"]
    /\ UNCHANGED <<ledgerVars, row, oco, incident, filled, posts>> /\ Quiet

\* cancel_order on the legs: the broker takes the request, or it fails.
Cancel(p) ==
    LET o == seen[p].order IN
    /\ pc[p] = "cancel"
    /\ \/ ~seen[p].dead /\ live[o] = "live" /\ live' = [live EXCEPT ![o] = "pending"]
       \/ UNCHANGED live
    /\ Goto(p, "verify")
    /\ UNCHANGED <<ledgerVars, incident, filled, posts>> /\ Quiet

\* _verify_cancellation: one read of the legs, its fills booked.
Verify(p) ==
    /\ pc[p] = "verify"
    /\ \/ ReadAndBook(p, seen[p].order, "verified")
       \/ Goto(p, "unverified")
    /\ UNCHANGED <<ledgerVars, incident, brokerVars>> /\ Quiet

Verified(p) ==
    /\ pc[p] = "verified"
    /\ Goto(p, IF seen[p].dead THEN "free" ELSE "unverified")
    /\ UNCHANGED <<ledgerVars, incident, brokerVars>> /\ Quiet

\* Another of the bounded attempts, or the last one is over.
Unverified(p) ==
    /\ pc[p] = "unverified"
    /\ \/ Goto(p, "verify") /\ UNCHANGED incident
       \/ Flag(p)
    /\ UNCHANGED <<ledgerVars, brokerVars>> /\ Quiet

\* After the cancellation nothing may reserve the position.
FreshCancelled(p) ==
    /\ pc[p] = "free"
    /\ \/ Flag(p)
       \/ /\ Fresh({})
          /\ seen' = [seen EXCEPT ![p].qty = Held] /\ pc' = [pc EXCEPT ![p] = "still"]
          /\ UNCHANGED <<row, oco, incident>>
    /\ UNCHANGED <<ledgerVars, brokerVars>> /\ Quiet

StillRegular(p) ==
    /\ pc[p] = "still"
    /\ \/ Flag(p)
       \/ Goto(p, IF session THEN "claim" ELSE "recover") /\ UNCHANGED incident
    /\ UNCHANGED <<ledgerVars, brokerVars>> /\ Quiet

\* Bug: the intent keeps the quantity it was prepared with.
ClaimUnshrunk(p) ==
    /\ pc[p] = "claim" /\ phase[row[p]] = "canceling"
    /\ phase' = [phase EXCEPT ![row[p]] = "submitting"]
    /\ Goto(p, "post")
    /\ UNCHANGED <<known, size, booked, position, guard, incident, brokerVars>> /\ Quiet

\* _set(row, "submitting", qty, expected_phase="canceling").
ClaimClose(p) ==
    LET i == row[p] IN
    /\ pc[p] = "claim"
    /\ IF phase[i] = "canceling" /\ seen[p].qty \in 1..size[i]
       THEN /\ phase' = [phase EXCEPT ![i] = "submitting"]
            /\ size' = [size EXCEPT ![i] = seen[p].qty]
            /\ Goto(p, "post") /\ UNCHANGED incident
       ELSE Flag(p) /\ UNCHANGED <<phase, size>>
    /\ UNCHANGED <<known, booked, position, guard, brokerVars>> /\ Quiet

\* A POST under the intent's client id: answered, answer lost, refused, or
\* (LateDelivery) still on its way when it times out.
Post(p, i, answered, asking) ==
    /\ posts' = [posts EXCEPT ![i] = @ + 1]
    /\ \/ /\ live[i] = "none" /\ live' = [live EXCEPT ![i] = "live"]
          /\ \/ /\ Read(p, i, "observed") /\ pc' = [pc EXCEPT ![p] = answered]
                /\ UNCHANGED <<row, oco>>
             \/ Goto(p, asking)
       \/ /\ LateDelivery /\ live[i] = "none" /\ live' = [live EXCEPT ![i] = "wire"]
          /\ Goto(p, asking)
       \/ UNCHANGED live /\ Goto(p, asking)
    /\ UNCHANGED <<ledgerVars, incident, filled>> /\ Quiet

PostClose(p) == pc[p] = "post" /\ Post(p, row[p], "confirm", "ask")

\* Bug: a 404 is taken for a proof that the POST never left.
AskRetries(p) ==
    LET i == row[p] IN
    /\ pc[p] = "ask"
    /\ \/ phase' = [phase EXCEPT ![i] = "unknown"] /\ Flag(p)
       \/ /\ live[i] \in {"live", "pending", "dead"}
          /\ Read(p, i, "observed") /\ pc' = [pc EXCEPT ![p] = "confirm"]
          /\ UNCHANGED <<row, oco, phase, incident>>
       \/ /\ live[i] \in {"none", "wire"}
          /\ Goto(p, "post")
          /\ UNCHANGED <<phase, incident>>
    /\ UNCHANGED <<known, size, booked, position, guard, brokerVars>> /\ Quiet

\* The lookup after a failed submission.
Ask(p) ==
    LET i == row[p] IN
    /\ pc[p] = "ask"
    /\ \/ phase' = [phase EXCEPT ![i] = "unknown"] /\ Flag(p)
       \/ /\ live[i] \in {"live", "pending", "dead"}
          /\ Read(p, i, "observed") /\ pc' = [pc EXCEPT ![p] = "confirm"]
          /\ UNCHANGED <<row, oco, phase, incident>>
       \/ /\ live[i] \in {"none", "wire"}
          /\ Goto(p, "absent")
          /\ UNCHANGED <<phase, incident>>
    /\ UNCHANGED <<known, size, booked, position, guard, brokerVars>> /\ Quiet

\* _confirm_submitted_close: save the identity, then poll for fills.
Confirm(p) ==
    LET i == row[p] IN
    /\ pc[p] = "confirm"
    /\ phase' = [phase EXCEPT ![i] = "working"] /\ known' = [known EXCEPT ![i] = TRUE]
    /\ Goto(p, IF seen[p].dead THEN "observe" ELSE "poll")
    /\ UNCHANGED <<size, booked, position, guard, incident, brokerVars>> /\ Quiet

Poll(p) ==
    /\ pc[p] = "poll"
    /\ \/ Flag(p)
       \/ /\ Read(p, row[p], "observed") /\ pc' = [pc EXCEPT ![p] = "observe"]
          /\ UNCHANGED <<row, oco, incident>>
    /\ UNCHANGED <<ledgerVars, brokerVars>> /\ Quiet

-----------------------------------------------------------------------------
(* recover: restore the protection of what is still held.                  *)

Recover(p) ==
    /\ pc[p] = "recover"
    /\ IF Active(Ocos) = {} THEN Goto(p, "reread")
       ELSE \E i \in Active(Ocos) :
               /\ oco' = [oco EXCEPT ![p] = i] /\ pc' = [pc EXCEPT ![p] = "relookup"]
               /\ UNCHANGED <<row, seen>>
    /\ UNCHANGED <<ledgerVars, incident, brokerVars>> /\ Quiet

\* A protection intent is looked up; absent, it is terminal and reported.
Relookup(p) ==
    LET i == oco[p] IN
    /\ pc[p] = "relookup"
    /\ \/ Flag(p) /\ UNCHANGED phase
       \/ /\ live[i] \in {"live", "pending", "dead"}
          /\ Goto(p, "adopt") /\ UNCHANGED <<phase, incident>>
       \/ /\ live[i] \in {"none", "wire"} /\ ~known[i]
          /\ phase' = [phase EXCEPT ![i] = "terminal"]
          /\ Flag(p)
    /\ UNCHANGED <<known, size, booked, position, guard, brokerVars>> /\ Quiet

\* The prior protection must be terminal; its fills are booked.
Reread(p) ==
    /\ pc[p] = "reread"
    /\ \/ Flag(p)
       \/ live[guard] = "dead" /\ ReadAndBook(p, guard, "refresh") /\ UNCHANGED incident
    /\ UNCHANGED <<ledgerVars, brokerVars>> /\ Quiet

Refresh(p) ==
    /\ pc[p] = "refresh"
    /\ \/ Flag(p)
       \/ /\ Fresh({})
          /\ seen' = [seen EXCEPT ![p].qty = Held] /\ pc' = [pc EXCEPT ![p] = "reelect"]
          /\ UNCHANGED <<row, oco, incident>>
    /\ UNCHANGED <<ledgerVars, brokerVars>> /\ Quiet

\* _new("reprotect", "submitting") elects one owner; another looks it up.
Reelect(p) ==
    LET i == <<"reprotect", Cardinality(Issued(Ocos)) + 1>> IN
    /\ pc[p] = "reelect"
    /\ \/ /\ Active(Ocos) = {}
          /\ i \in Ocos /\ phase[i] = "none"        \* UNIQUE order_id
          /\ phase' = [phase EXCEPT ![i] = "submitting"]
          /\ size' = [size EXCEPT ![i] = seen[p].qty]
          /\ oco' = [oco EXCEPT ![p] = i] /\ pc' = [pc EXCEPT ![p] = "repost"]
       \/ /\ \E owned \in Active(Ocos) : oco' = [oco EXCEPT ![p] = owned]
          /\ pc' = [pc EXCEPT ![p] = "relookup"]
          /\ UNCHANGED <<phase, size>>
    /\ UNCHANGED <<row, seen>>
    /\ UNCHANGED <<known, booked, position, guard, incident, brokerVars>> /\ Quiet

PostOco(p) == pc[p] = "repost" /\ Post(p, oco[p], "adopt", "reask")

AskOco(p) ==
    LET i == oco[p] IN
    /\ pc[p] = "reask"
    /\ \/ phase' = [phase EXCEPT ![i] = "unknown"] /\ Flag(p)
       \/ /\ live[i] \in {"live", "pending", "dead"}
          /\ Goto(p, "adopt") /\ UNCHANGED <<phase, incident>>
       \/ /\ live[i] \in {"none", "wire"}
          /\ phase' = [phase EXCEPT ![i] = "terminal"]
          /\ Flag(p)
    /\ UNCHANGED <<known, size, booked, position, guard, brokerVars>> /\ Quiet

\* _adopt_protection: save the identity, re-read both legs, switch the parent.
Adopt(p) ==
    LET i == oco[p] IN
    /\ pc[p] = "adopt"
    /\ phase' = [phase EXCEPT ![i] = "working"] /\ known' = [known EXCEPT ![i] = TRUE]
    /\ Goto(p, "check")
    /\ UNCHANGED <<size, booked, position, guard, incident, brokerVars>> /\ Quiet

CheckOco(p) ==
    /\ pc[p] = "check"
    /\ \/ Flag(p)
       \/ /\ live[oco[p]] = "live" /\ Fresh({oco[p]})
          /\ Size(oco[p]) - filled[oco[p]] = Residual
          /\ Goto(p, "protect") /\ UNCHANGED incident
    /\ UNCHANGED <<ledgerVars, brokerVars>> /\ Quiet

Protect(p) ==
    /\ pc[p] = "protect"
    /\ guard' = oco[p] /\ phase' = [phase EXCEPT ![oco[p]] = "protected"]
    /\ Settling(p)
    /\ UNCHANGED <<known, size, booked, position, incident, brokerVars>> /\ Quiet

-----------------------------------------------------------------------------
(* Deaths, the broker and the clock.                                       *)

Crash(p) ==
    /\ pc[p] # "idle" /\ crashes < MaxCrashes
    /\ crashes' = crashes + 1
    /\ pc' = [pc EXCEPT ![p] = "idle"] /\ row' = [row EXCEPT ![p] = NoOrder]
    /\ oco' = [oco EXCEPT ![p] = NoOrder] /\ seen' = [seen EXCEPT ![p] = NoSeen]
    /\ lock' = IF lock = p THEN Nobody ELSE lock
    /\ UNCHANGED <<ledgerVars, incident, brokerVars, session>>

\* One more share of a working order fills; a full order is terminal.
Fill(o) ==
    /\ Working(o) /\ filled[o] < Size(o)
    /\ filled' = [filled EXCEPT ![o] = @ + 1]
    /\ live' = IF filled[o] + 1 = Size(o) THEN [live EXCEPT ![o] = "dead"] ELSE live
    /\ UNCHANGED <<ledgerVars, incident, posts, session, passVars, lock, crashes>>

\* A cancellation completes, or a working order is rejected or expires.
Expire(o) ==
    /\ Working(o)
    /\ live' = [live EXCEPT ![o] = "dead"]
    /\ UNCHANGED <<ledgerVars, incident, filled, posts, session, passVars, lock, crashes>>

\* A delayed POST arrives.
Arrive(o) ==
    /\ live[o] = "wire" /\ live' = [live EXCEPT ![o] = "live"]
    /\ UNCHANGED <<ledgerVars, incident, filled, posts, session, passVars, lock, crashes>>

Clock ==
    /\ session' = ~session
    /\ UNCHANGED <<ledgerVars, incident, brokerVars, passVars, lock, crashes>>

Work(p) ==
    \/ Reconcile(p) \/ BookFill(p) \/ CheckFlat(p) \/ ClosePosition(p) \/ Settle(p) \/ Watchdog(p)
    \/ Enforce(p) \/ Lookup(p) \/ Absent(p) \/ Observe(p) \/ Observed(p)
    \/ CheckSession(p) \/ ReadProtection(p) \/ FreshProtected(p) \/ Elect(p) \/ Cancel(p)
    \/ Verify(p) \/ Verified(p) \/ Unverified(p) \/ FreshCancelled(p) \/ StillRegular(p)
    \/ ClaimClose(p) \/ PostClose(p) \/ Ask(p) \/ Confirm(p) \/ Poll(p)
    \/ Recover(p) \/ Relookup(p) \/ Reread(p) \/ Refresh(p) \/ Reelect(p) \/ PostOco(p)
    \/ AskOco(p) \/ Adopt(p) \/ CheckOco(p) \/ Protect(p)

Broker(o) == Fill(o) \/ Expire(o) \/ Arrive(o)

Next ==
    \/ \E p \in Passes : Start(p) \/ Work(p) \/ Crash(p)
    \/ \E o \in Orders : Broker(o)
    \/ Clock

Spec == Init /\ [][Next]_vars

\* The monitor is scheduled for ever and its reads succeed some time; the
\* verification loop is bounded (CANCEL_VERIFY_ATTEMPTS).
Fairness ==
    \A p \in Passes :
        /\ WF_vars(Start(p)) /\ WF_vars(Work(p))
        /\ SF_vars(Unverified(p) /\ pc'[p] = "watch")
        /\ SF_vars(Watchdog(p) /\ incident' = Exposed)
FairSpec == Spec /\ Fairness

-----------------------------------------------------------------------------
(* Properties.                                                             *)

MayFill(o) == live[o] \in {"wire", "live", "pending"}

\* "An unknown broker view never authorizes a second order": at no time may two
\* exit orders of the position be alive (time_exit_lifecycle.py:3).
OneExitOrder == \A o, q \in Orders : MayFill(o) /\ MayFill(q) => o = q

\* What each exit order may still sell.
Left == [o \in Orders |-> IF MayFill(o) THEN Size(o) - filled[o] ELSE 0]

\* Whatever fills, the exit orders cannot sell more than the position holds.
NeverOversold == Total(filled) + Total(Left) <= Qty

\* The ledger never books an exit fill the broker does not have, and a closed
\* position is flat with no exit order left to fill.
ClosedIsFlat ==
    /\ \A o \in Orders : booked[o] <= filled[o]
    /\ position = "closed" => Held = 0 /\ Residual = 0 /\ \A o \in Orders : ~MayFill(o)

\* An intent is submitted at most once, by whichever pass claims it.
OneSubmission == \A i \in Intents : posts[i] <= 1

\* A submission is made only for exactly what the broker still holds, with no
\* exit order alive (the checks and the POST are separate calls).
PostsAreBacked ==
    [][\A i \in Intents : posts'[i] # posts[i] =>
          size[i] = Held /\ \A o \in Orders : ~MayFill(o)]_vars

Budget == INSTANCE ExitBudget WITH
    Lot <- Qty, held <- Held, offered <- Total(Left), booked <- Total(booked),
    closed <- position = "closed"

\* The monitor's exits keep the promise of ExitBudget: cancelling, submitting, booking
\* and closing are separate calls, yet what is held is offered once at a time, a sale
\* is booked once, and the position is closed after all of it.
ImplementsExitBudget == Budget!Spec

\* "Future closes atomically complete their intent": a closed position has no
\* unfinished intent (time_exit_lifecycle.py:450).
ClosedIsComplete ==
    position = "closed" /\ (\A p \in Passes : pc[p] = "idle") => Active(Intents) = {}

Naked == Held > 0 /\ \A o \in Orders : ~MayFill(o)

\* A position that is left without any exit order, by a crash at any point or by
\* the broker, is protected again, closed, or blocks new entries.
NakedIsFlagged == Naked ~> (incident \/ ~Naked)

\* What the broker has sold is booked and, all of it sold, the position closed;
\* or an incident says that it is not.
SaleIsAccounted ==
    (Held # Residual \/ (Held = 0 /\ position = "open"))
        ~> (incident \/ (Held = Residual /\ (Held = 0 => position = "closed")))
=============================================================================
