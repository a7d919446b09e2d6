# AlphaOS, specified and checked in TLA+

AlphaOS is a paper-trading research system: it scans a universe of stocks, turns
candidates into trade proposals, submits approved proposals to the Alpaca paper
broker as bracket orders, watches the resulting positions, and runs a nightly
research and reporting pipeline over one SQLite ledger. This directory holds TLA+
models of the parts in which independent processes meet, TLC configurations that
check them on small instances, and TLAPS proofs about them.

Everything else hangs on this: **what the broker may have must never be sent twice,
forgotten, or taken for granted.** An uncertain submission is never repeated and keeps
the account's entry gate closed until somebody has established what happened to it; a
fill is booked exactly once; a position never has two exit orders alive.

Line numbers refer to `src/alphaos/`; abbreviations: OM `execution/order_manager.py`,
ES `execution/entry_submission.py`, EIR `execution/entry_intent_resolution.py`,
TEL `execution/time_exit_lifecycle.py`, ORC `orchestrator.py`, JR `scheduler/job_runner.py`,
MR `scheduler/monitor_recovery.py`, MN `scheduler/monitor_notifications.py`,
PW `execution/protection_watchdog.py`, AE `risk/account_exposure.py`, APR `approval.py`.

## 1. Inventory

### How the parts interact

Processes (the worker that runs scheduled jobs, CLI commands, the console API, the
dashboard) share **no memory**: they meet in the SQLite ledger and at the broker. Two
file-and-row locks (`scheduler/ownership.py`) are meant to serialise them:
`entry_submission_lock` around an entry and `monitor_ownership` around a monitor pass.
A ledger transaction is atomic (`ledger_ops.atomic`, BEGIN IMMEDIATE); no transaction is
held across a broker call. A process may die between any two of these. A broker request
may be refused, fail before or after it left the machine, lose its answer, or arrive late.

| Component | State it keeps | Operations | Hard behaviours | What makes it correct |
| --- | --- | --- | --- | --- |
| Entry submission (ES, OM, ORC) | the `paper_orders` row: phase, dispatch mark, proof, broker id | create, claim, send, look up, observe, doubt, finish | lost answer, death after the claim, two senders, late 404 | at most one POST; no order without a row; a doubt closes the gate and is resolved |
| Intent resolution (EIR) | phase `abandoned_*` | read twice, apply | a sender or monitor between the reads | nothing that may still be sent is written off |
| Process ownership | lock rows and files with owner pid and start time | acquire, release, reclaim | owner dies; pid reuse | one owner; always free again |
| Partial fills, entry cancellation (OM, ES) | state, fills, position, proposal status | reconcile, stale cancel, operator cancel | cancel races fill; answers out of order; death between sync and booking | no fill is dropped, doubled or expired |
| Time exits (TEL, OM) | closing and protective intents with phases | advance, cancel, verify, submit, recover, adopt | cancel races fill; POST in doubt; death with protection off | one exit order alive; never oversold; never naked unnoticed |
| Protection watchdog | `protection_checks` incidents | check, escalate, resolve, acknowledge | read failures, flapping, orphans | an exposed position is flagged, an incident is not closed early |
| Position manager | `positions` | open, close, mark to market | close in two transactions | closed means flat |
| Job runner and worker | `job_runs`, locks, fuse | claim, run, reap, retry | dead job, late finish after reaping | one run at a time; no run lost silently |
| Monitor health and notifications | notification rows, recovery marks | record, persist, send, recover | death between send and mark | an alert is not lost |
| Proposal lifecycle and approval | `trade_proposals.status`, approvals | approve, reject, supersede, expire | check-then-write, caps counted then inserted | terminal statuses stay; caps hold |
| Risk engine and exposure | – (reads the ledger and broker) | read_exposure, check | a pending entry is invisible exposure | no entry beside an unresolved one |
| Scan pipeline, AI evaluation | candidates, scores | scan, score, propose | – (sequential) | – |
| Canary, cards, hypotheses, outcomes, research | append-only evidence, small status machines | record, promote, demote, resume | resumption after an interrupted run | a decision rests on recorded evidence |
| Ledger store, market data, configuration, console | tables; caches; settings | – | – | – |

`PROJECT.json` lists all 22 components with the files they consist of, what of them is
modelled and why the rest is not, and under `hazards` every place, by line, where this
code is hard to test, with the properties that watch it.

## 2. Plan

In order of what matters most to the account:

| | Module | State |
| --- | --- | --- |
| 1 | `EntrySubmission` with `AtMostOnceEntry` (abstract) | checked; invariant, what the locks guard, and refinement proved |
| 2 | `TimeExit` with `ExitBudget` (abstract) | checked; safety and refinement proved |
| 3 | `EntryFills` with `CumulativeFills` (abstract) | checked; refinement proved |
| 4 | `MonitorRuns`: ownership, recovery, fuse, readiness | checked; safety proved |
| 5 | `MonitorPages`: the notification file | checked; safety proved |
| 6 | `ProtectionWatchdog`: incidents and who may end them | checked; safety proved |
| 7 | `ProposalApproval`: supersession, caps, consent | checked; safety proved |
| 8 | `AccountExposure`: limits from torn broker reads | checked; safety proved |

What is left, in order:

- Abstract specifications of `MonitorRuns` (one pass at a time, its rows resolved) and of
  `AccountExposure` (one entry granted at a time out of a budget), with their refinements.
- `JobRunner`'s research jobs (age-based reaping, cost budget, one research lock for all
  types), attribution of one symbol to several positions in `TimeExit`, and the small status
  machines of the research side (cards, hypotheses, the canary's resumable run).

## 3. The modules

Conventions common to all of them: one step is one ledger transaction or one broker call
(a broker read is one step, however many HTTP requests it needs: `lookup` reads by client
id and then with legs); a process is a control point in `pc` (or `mon`, `op`, `cancel`) that names the
code position it is at; `Crash` drops everything a process holds in memory and keeps the
ledger and the broker; definitions commented "Bug" or "Mutant" are never used by the specification: they
are the mutations that show each property can fail.

### EntrySubmission — the one-POST entry

Senders (a manual approval, an unattended scan) carry a proposal from
`Orchestrator._execute` to the acknowledged row; the monitor visits rows; the operator
resolves intents. `phase, dispatched, proof, bound, ostate` are the row, `wire, posts,
broker` the network and what the broker knows, `entryLock, monLock` the two locks
(`Ownership = FALSE` bypasses them, as EIR 84-85 expects of "direct callers"). Besides, an
operator may cancel a working entry **under no lock** (`cancel` is what he holds in memory,
`cancelled` the trace in `order_events`; `MaxCancelled` bounds how many entries he cancels).

| Action | Code |
| --- | --- |
| `Approve`, `Recheck`, `TakeEntryLock`, `TakeMonitorLock`, `Assess`, `Check`, `Consent`, `RecordStatus` | ORC `approve_proposal`, `_execute`, the two locks |
| `Preflight`, `Create`, `Claim`, `Post`, `Answer`, `SaveUnsafe`, `SaveProof`, `SaveDoubt`, `SaveAlarm`, `Lookup`, `Observe`, `OpenPosition`, `Finish` | OM `_submit_alpaca_paper`, ES |
| `MonRead`, `MonObserve`, `MonOpenPosition`, `MonFinish`, `MonDoubt`, `MonAlarm` | OM `reconcile`, ES `observe`, `finish`, `uncertain`, `incident` |
| `OpRead`, `OpApply` | EIR `resolve_entry_intent` |
| `CancelRead`, `CancelOpen`, `CancelWrite`, `CancelGivesUp` | OM `cancel_order_operator`, `_cancel_order_row` |

The broker's order works, is `filled`, is `cut` (cancelled or expired with a part of it filled)
or ends with `zero` filled. The row of a `cut` order is `cancelled` or `expired`, like one that
bought nothing, because `map_status` looks at the status alone (`order_mapping.py:48`).
`WrittenOffIsOver` therefore says that a written-off row can buy nothing *any more*; that what
was cut has its position is the subject of `EntryFills` (and of the finding in section 6).

Abstractions: "something filled" stands for quantities, and the part that a working order
has filled is not seen before it ends (`EntryFills` has both); the reads, the request and the
re-read of a cancel are one step, `CancelRead`, whose answers without consequence for the
ledger are left out; a death of the cancel is `CancelGivesUp`; the monitor's own cancel of
stale entries, the same code under its lock, is in `EntryFills`; the checks
of market, risk and health are nondeterministic refusals; `superseded` and `expired` are one
status; a monitor pass is a sequence of independent visits to rows; `RecordStatus` merges a
read and the write that follows it, and the operator's two lock acquisitions are one.

`AtMostOnceEntry` is what the path promises: an entry is opened, sent at most once, and
decided (placed or void); an undecided one closes the gate for all others.

### TimeExit — reducing a due position

One pass of the monitor over one position: booking of exit fills
(`_record_broker_exit`, two transactions), the closing intent (`canceling` → `submitting` →
`working` → `complete`), cancellation of the protection and its verification, the close's
POST and the lookup after a failure, and `recover`, which puts a new OCO under what is
left. `guard` is `positions.broker_order_id`, `live` and `filled` the broker's orders.

Abstractions: a stop/target pair is one order; `_fresh`'s three reads are one (it reads the
position before and after its order reads and the holding only shrinks, so equal readings
mean it did not change between); `_set` and the incident written with it are one; the
confirmation polls are one read; the bounded verification attempts are "again or give up"
with strong fairness for giving up; the watchdog's reads are one step; the incident is one
Boolean; the accounting of prices is left out. `Residual` and `Held` are sums, not
variables, because that is how the code derives them (`Shares` counts them one by one, so
that the sums can be reasoned about without recursion). `Room` keeps the number of intents
within `MaxIntents` and is the only guard that is not the code's.

`ExitBudget` is what the reduction promises: the lot that was bought is offered at most once
at a time and only for what is still held, a sale is booked at most once, and the position is
closed when all of it is sold and booked and nothing is on offer. A submission that reaches
the broker is `Offer`, a fill `Sell`, the end of an order `Withdraw`, `BookFill` is `Book`,
`ClosePosition` is `Close`; asking for a cancellation is none of them, and all other calls
stutter.

### EntryFills — fills and cancellation of an acknowledged entry

One order of `Qty` shares that the broker fills share by share, cancels or expires.
Monitors reconcile it (`Visit`, `ReadOrder`, `Observe`, `Open`, `Mark`, `Verify`, `Finish`,
`Alarm`), then run the staleness cancel (`Stale` into `Cancel`, `Reread`, `RacedOpen`,
`RacedRecord`, `Expire`); operators run the same cancel **without any lock**
(`cancel_order_operator`). `seen[a]` is the broker answer actor `a` holds while others act.
A position exists exactly when something is booked, since both are written in one
transaction (OM 351-376). The staleness decision is nondeterministic; rejection by the
broker after acceptance is the same as expiry. `Command` and `Stale` merge the reads of
order and position rows. Closing the position belongs to `TimeExit`.

`CumulativeFills` is the ledger's promise: booked follows the broker's cumulative quantity,
never shrinks, overtakes it or counts a share twice.

### MonitorRuns — who runs the monitor, and what a death leaves behind

Agents enter as the launchd worker, a scheduler tick, a manual job or a console pass.
`holder, epoch` are the OS lock of `monitor_ownership` and the identity of its scope; `jobs`
and `passes` the `started` rows of `job_runs` and `scheduler_runs`; `streak, since, taken,
troubled, fuseTold` what the fuse, the due rule, the lock key and the health read from the
newest finished rows. Time is counted in monitor intervals (`Tick`).

| Action | Code |
| --- | --- |
| `Begin`, `Own`, `Busy`, `Leave` | `worker.run_role`, `worker_ownership`, `monitor_ownership` |
| `Dispatch` (due, `HandleFuse`) | JR `_dispatch_scheduled_job`, `cadence.is_fused` |
| `Recover` (`FailAbandoned`) | MR `recover_interrupted_monitor`: every started row of another epoch fails |
| `Gate`, `Finish`, `Fail` | JR `_run_job_owned`: fuse again, lock key, the job row and its end |
| `Adopt`, `OpenPass`, `Work`, `ClosePass` | ORC `_run_monitor_owned` |
| `Crash`, `Tick` | death (the OS frees the lock), time |

Epochs are uuids; the model reuses one that no row or lock carries any more. `IssueCodes`
and `EntryReady` translate `monitor_health`, which reads without the lock.

### MonitorPages — the pages a person gets

`active, pending, observed` is the private state file as last written, `readable` whether it
still holds that, `writer` its lock, `step, saw` each heartbeat's place and the health it read
before. `ReadHealth`, `OwnerBusy`, `Reset`, `Unavailable`, `Recovered`, `Unchanged`, `Persist`,
`Deliver`, `SendFails`, `SaveOutcome` and `Die` are the steps of JR `heartbeat_check` and MN
`notify_monitor_transition`. A failed second write leaves the page pending, a damaged file is
rebuilt as if nobody had been told, and one that cannot be read or written ends the heartbeat.
`told` is history: the worst level delivered in this incident. `Drift` lets the health be
anything next, so that whatever `MonitorRuns` can produce is a special case; `Damage` lets
the file be.

### ProtectionWatchdog — exposed positions block entries

The positions of one symbol: `local` is the ledger's row, `broker` what the broker has of it,
`incidents` the blocking rows, `streak` the unverifying checks that count for escalation.
The pass is `Reconcile` → `ExitFails`/`NoExit` → `Sweep` → `List` → (`Check` →
`RecordVerdict`)*; the operator reads an incident and ends it later (`Read`, `ResolveClose`,
`MarkResolved`, `OperatorDies`); `EntryFilled` and `BrokerMoves` are the environment.
Verdicts depend on how many origins the symbol has: one origin is checked leg by leg, several
only by attributing the whole holding (`proof` is the set of origins that was attributed;
PW voids it if the set changed). A sibling whose exit fills are all booked is attributed with
nothing left, and claims no protection of its own. `verified` is history. A pass that dies leaves no state of its
own behind, which is why there is no action for it: every prefix of a pass is a behaviour in
which the environment moves meanwhile. Once the ledger has closed a position, what the broker
may still hold of it can only be flattened; the watchdog looks at open rows.

### ProposalApproval — from a scan's proposal to a consented entry

`status, risky, lapsed` are the `trade_proposals` row, `receipts` the day's approvals,
`ordered` the existence of an entry order. Scans go `Insert` → `Supersede` → `Handle` →
`Own` → `Check` → `Grant` → `Receipt` → `MarkApproved` → `Send` → `RecordOrder` or
`RecordBlock`; operators enter at `ReadRow`/`Approve`, reject at any time, or create an
override (`Insert`). The row and the supersession of its siblings are two transactions, hence
`inserted`, and `torn` (history) for symbols whose creator died between the two. `Lapse` is
the clock.

Abstractions: a rejection's receipt and status are one step, as are `_record_execution_block`'s
read and write; the research switch that makes high-risk narratives manual-only is on (its
default); paper execution at the broker is modelled, the mock fill path is not.

### AccountExposure — limits from reads that are no snapshot

`entry, filled, sold` are the broker's side, `intent, booked` the ledger's. A sender takes
both locks (`Begin`), reads the positions, the open orders and the positions again
(`ReadPositions`, `ReadOrders`, `ReadAgain`), reconciles them with the ledger and asks the
risk engine (`Assess`), and submits with an answer, without one, or with a final refusal
(`Submit`). `Deliver`, `Fill`, `Cancel`, `Sell` and the monitor's `Reconcile` happen between
any two of these; an entry that is still buying is not sold, because its protection is not
activated before it completes (PW 197) and every closing pass refuses it (TEL 520) or cancels
it first (`broker/alpaca_client.py:587`). One share is one unit of equity at every moment; exit orders and legs in
the list of open orders only add refusals and are left out.

### Composition

`EntrySubmission` is the hub: its locks are those `MonitorRuns` and `ProposalApproval` model
from their own side, its `Check` and `Consent` are refined by `AccountExposure`'s `Assess` and
`ProposalApproval`'s `Check` and `Grant`, and the row it acknowledges is the order with which
`EntryFills` begins; the position `EntryFills` opens is the one `TimeExit` reduces and
`ProtectionWatchdog` verifies. Each module gives its neighbours' steps their full freedom
(refusals at any time, health that is anything next), so what it shows does not depend on the
neighbour's detail. The refinements that are checked by tool are those of the three abstract
modules. `Shares` (sums by counting) is used by `TimeExit` and `AccountExposure`.

## 4. The runs

Numbers are distinct states and typical seconds with two workers.

| Run | Instance | Shows | Size |
| --- | --- | --- | --- |
| entry_guarded | 1 proposal, 2 senders, 1 cancel under no lock, 2 deaths | the inductive invariant; what is written off is over; no incident without a doubt; a slower reader undoes only what the cancel has written | 230k, 15 s |
| entry_crashes | 2 proposals, 1 sender, 2 deaths | one POST each, the gate beside a doubt, and the refinement of `AtMostOnceEntry` | 1.1M, 115 s |
| entry_live | 1 proposal, 1 cancel, 1 death, fair | doubts end, unsent intents are released, locks come free | 17k, 105 s |
| exit_crashes | 2 shares, 2 intents of each kind, 1 death, fair | never oversold, closed is flat, posts are backed; the refinement of `ExitBudget`; a naked position is flagged, a sale is accounted for | 166k, 95 s |
| exit_delayed | 1 share, late POSTs | no intent is submitted twice even when POSTs are late | 136k, 30 s |
| fills_race | 3 shares, monitor and operator, 2 deaths, fair | expired is flat; the ledger's promise; a doubt is flagged; without a death every fill is booked | 102k, 35 s |
| fills_crash | 2 shares, 1 death | the finding of section 6 | small |
| monitor_runs | 2 agents in four roles, 2 epochs, fuse at 2, 2 deaths, fair | one pass at a time and no scan beside it; the fuse holds; an interrupted pass is recovered | 235k, 35 s |
| monitor_pages | 2 heartbeats, 5 readings of the health, 1 death, a file that may be damaged or unavailable, fair | the file never says more than was delivered; lasting trouble is paged | 34k, 75 s |
| watchdog | 2 positions, escalation at 2, fair | one incident per position, none ended without cause; trouble blocks; orphans go | 312k, 95 s |
| account_exposure | 4 proposals in 3 symbols, equity 3, 2 slots, 3 trades, 2 senders | slots, trades and equity are never overrun | 164k, 15 s |
| proposal_approval | 2 proposals of a symbol, 2 scans, 1 operator, caps of 1 | one open proposal, caps, consent, decisions that stay | 3.0M, 135 s |

Why the bounds suffice. `entry_guarded` checks what is said of each row alone, with
everybody who may write it; `entry_crashes` what is said of a row and "the others": the monitor
may put one entry in doubt while a sender is on its way with the other. That two senders
carry two different entries is left to the theorems of section 5. Two deaths allow one during
the recovery of another; the exit path, which restarts from its durable intents alone, gets
one. Two shares
distinguish nothing, part and all of an order; three in `fills_race` let an answer be
overtaken twice. Two intents of each kind let a close fail, protection be restored, and a
second close follow. Two agents let a dead run's rows meet a live one, and two failures let
recovery itself trip the fuse; two epochs suffice because an unused one comes back. The
readings of `monitor_pages` have no trouble, levels 2 to 4, and two of the gravest for
different reasons (level 1 behaves as 2). Two positions of a symbol are the difference between one origin
and several. In `account_exposure` the same symbol has two entries, the third trade may be
refused for each of the three limits alone, and none is so wide that it never refuses. With
caps of one, two scans meet both caps at their edge.
Senders, proposals and scans are interchangeable in every definition, hence
the symmetry sets (not used with liveness).
Deadlock checking is off where the model, like the system, has nothing left to do once every
proposal is settled.

Configurations of two senders without locks, and of several passes or monitors, are not run:
`EntryInvariant`, `SubmittedOnce`, `ExpiryIsSafe` and `LedgerImplemented` (section 5) cover
them for any number, as `NoOrphan`, `Positions`, `NoFillDropped`, `OneAlive` and
`TypeCorrect` of `TimeExit` cover properties that no run repeats.

### Fairness

*Scheduling*: the worker runs the monitor every minute for ever, launchd starts it again, and
a process that runs goes on (its broker calls have time-outs): weak fairness of passes, steps,
heartbeats and senders, nothing for an operator or the user in `EntryFills`, `TimeExit` and
`ProtectionWatchdog`. *Environment*: a broker read or a booking that is tried again and again
succeeds some time, and so do the writing of the notification file and the delivery of a
page: strong fairness of the successful branch. In `entry_live` the operator also resolves what can be resolved, because the code
leaves `UnsentIsReleased` to him. In `TimeExit` the only reads assumed to succeed are the
watchdog's; `ProtectionWatchdog` assumes none. In `monitor_runs` time passes. The broker is
never assumed to fill, cancel or end anything, and no fairness is put on deaths or arrivals.

## 5. What is proved

For every value of the constants (any number of proposals, senders, passes, monitors,
operators, agents, heartbeats, positions, shares, deaths), from the named assumptions in the
modules, which TLC evaluates:

| Theorem | Module | States |
| --- | --- | --- |
| `EntryInvariant`, `TypeCorrect` | EntrySubmissionProofs | the inductive invariant and types, with or without locks, beside any number of lock-free cancels |
| `AtMostOnce` | | a proposal is handed to the transport at most once |
| `NoOrphan` | | whatever the broker may have has a row whose send right is consumed |
| `WriteOff` | | a written-off entry can buy nothing any more: its order is over, nothing is on the wire, nobody may send it |
| `Positions` | | a position exists only for an entry of which something filled |
| `OwnershipInvariant` * | | the inductive invariant of the locks: who is between taking and leaving them is alone at work, and finds its row as it read it, but for the state a lock-free cancel may have written |
| `Alarms` * | | an incident never outlives the doubt that raised it |
| `GateBeforePost` * | | no entry is handed to the network while another is in doubt |
| `SettledStays` * | | no abandoned intent is revived; a final state is undone only if a lock-free cancel had written it, and then its row is visited again |
| `Implementation` * | | every step is one of `AtMostOnceEntry`, or none |
| `TypesHold`, `TypeCorrect` | TimeExitProofs | types; no pass works on an intent it does not have, nothing is booked that is not filled; with or without lock and prompt delivery |
| `SafetyHolds` ** | | the inductive invariant: what a pass checked is still true when it submits |
| `OneAlive` ** | | at most one exit order may fill (`OneExitOrder`) |
| `SoldIsHeld` ** | | the exit orders cannot sell more than is held |
| `FlatWhenClosed` ** | | a closed position is flat, and nothing is booked that was not filled |
| `Backed` ** | | a submission is for exactly what is held, with no exit order alive |
| `Implementation` ** | | every step is one of `ExitBudget`, or none |
| `SubmittedOnce` | | no closing or protective intent is submitted twice, even without ownership or prompt delivery |
| `FillsTyped` | EntryFillsProofs | the types, from the inductive invariant `FillsInv` |
| `ExpiryIsSafe` | | a proposal is expired only if nothing of its order filled or can fill |
| `LedgerImplemented` | | the bookings implement `CumulativeFills` |
| `NoFillDropped` | | one monitor at a time, and no process has died so far: no fill is left to nobody (`FillsAreKept`) |
| `RunsInvariant` | MonitorRunsProofs | the inductive invariant: who is past the ownership check holds the lock and finds the rows it opened |
| `OnePassAlways` | | one pass at a time, its rows the only ones, no scan admitted beside it |
| `FuseAlwaysHolds` | | no scheduled run under a tripped fuse, if the fuse can be read |
| `PagesInvariant` | MonitorPagesProofs | the inductive invariant: one writer, and a page is pending until after its send |
| `ToldAlwaysWasDelivered` | | what the file calls told was delivered |
| `WatchdogInvariant` | ProtectionWatchdogProofs | types, and one blocking incident per position |
| `IncidentsEndForCause` | | an incident of an open position ends after its stop was seen working, or by a person |
| `OneOpenAlways` | ProposalApprovalProofs | one approvable proposal per symbol, but for creators between their transactions |
| `CapsAlwaysHold` | | both daily caps |
| `OrdersAreConsented` | | no order without a receipt, none of a high-risk narrative without the user's |
| `DecisionsAreKept` | | a proposal decided against before the last check is never sent |
| `AccountInvariant` | AccountExposureProofs | the inductive invariant: the owner is alone, and what it read overstates what may be held |
| `ExposureAlways` | | types, orders within what they asked for, one owner, the day's count |
| `SlotsHold` | | held symbols and entries that may open one within `max_open_positions` |
| `NeverLevered` | | everything held or still to fill is paid for by the equity |

\* assumes `Ownership`, as the CLI, the worker and the console run it; the theorems without
it cover direct callers too. \** assumes `Ownership` and `~LateDelivery`: a POST that failed
either reached the broker before the lookup or never does. `ExitLate.cfg` (section 6) shows
that the second assumption cannot be dropped.

**The arguments.** *Entry*: a send right is the row's `dispatched` mark, set by a
compare-and-set from `prepared`. `EntryInv` says who may hold it: at most one sender is past
the claim of a row, a row is `prepared` exactly while nothing has been posted, and the
operator's and monitor's views are of rows that still exist; `CoreInv` is that part. An operator's
cancel writes only the state of a row, its position and its proposal, so it needs `CancelInv`
alone: the row is bound and the broker's answer that it holds is final, hence still true.
`AtMostOnePost` alone is not
inductive: it needs to know that a sender about to post is the row's only claimant. Under the
locks `OwnershipInv` adds that whoever is between taking a lock and leaving it holds it, and
so is the only one there; that the row it read is as it read it, since only holders write rows
but for a lock-free cancel, which leaves phase, marks and proofs alone and writes a state only
when the order is over at the broker; and that nobody else is in doubt beside a sender between creating its row and its POST.
A step of the promise is then read off the row before and after it. `WriteOff` needs no lock:
`OpApply` compares the row with what the operator read in the transaction that abandons it.
`SettledStays` excuses a row that such a cancel has written: a monitor that holds "accepted"
from before writes it back.

*TimeExit*: an intent leaves its unsent phase in the transaction that makes a pass its
sender, and never returns to it; so at most one pass is ever about to post it, and only if
it has not been posted. Quantities and locks play no part. `TypeInv` says, again for any
passes, that what a pass read was true when it read it and that fills only grow; hence no
booking exceeds the broker. `SafeInv` is about the calls between a check and the POST:
`_fresh` found no order alive and the holding equal to the ledger's, and both stay so, because
only a live order can fill, only a POST makes one, only the pass that runs posts, and the lock
says there is one. That `ledger = broker` holds only at the checks is why it cannot be an
invariant by itself: between them the broker sells and nothing is booked. At most one order is
alive, so what is on offer is what that order has left; it shrinks with the holding, share by
share, and the refinement compares the two before and after each call.

*EntryFills*: an answer in an actor's hands was once true; quantities only grow and a dead
order never changes, so an old answer may be too low but is right about a dead order. That
gives the expiry theorem (who expires holds a dead answer with nothing filled) and the
refinement (`_open_real_position` refuses an answer below what is booked, and no answer
exceeds the broker). For `NoFillDropped` one adds that a row in a terminal state without its
fill is in the monitor's hands or in doubt, and that nobody verifying a doubt away
has such a row before him; one monitor keeps a second from verifying while the first is
about to record, and `fills_crash` shows that the absence of deaths cannot be dropped.

*MonitorRuns*: `OnePass` needs to know, for every control point, which rows its agent will
find. `RowsAsExpected` says so, and it is preserved because only the holder of the lock writes
rows and a new scope has an epoch no started row carries. The fuse is read again after the
recovery that may trip it, by the holder; the later failures of that same holder end its run.

*MonitorPages*: a writer finds on the file what it wrote (`active`, `pending`, its own
reading), also when the file is damaged meanwhile, since it writes from memory; so a page is
counted as told only by the step that follows its delivery.

*ProtectionWatchdog*: a healthy verdict on its way to being recorded is evidence that the stop
was seen since the present incident opened (a proof by attribution is void at the record if
the open origins changed), and a row marked as read is the one the operator's command is
about.

*ProposalApproval*: the caps are counted and used by the owner of the entry lock alone, so what
a scan was granted still fits when it writes its receipt; a scan that is past `Handle`
carries a proposal that is not risky; who is past `Receipt` has a receipt.

*AccountExposure*: the stake of a proposal is what it holds or may still fill, counted share by
share. The reads are not one snapshot, but the open entries are read before the second list of
positions: a share that fills in between is counted in both, one that filled earlier is in the
positions, so the two together overstate the stake. Between the reads the stake only falls, because a working entry is not sold and only the
owner adds entries; so what the risk engine grants still fits when it is submitted. That the
two reads of the positions agree, and that they agree with the ledger, is not needed for the
limits (it makes the code refuse more).

**Only model-checked**: the liveness properties (`DoubtIsResolved`, `UnsentIsReleased`,
`LocksAreReleased`, `NakedIsFlagged`, `SaleIsAccounted`, `FillIsBooked`, `DoubtIsFlagged`,
`InterruptedIsResolved`, `TroubleIsPaged`, `TroubleBlocks`, `OrphansAreSwept`): fairness and
ENABLED are beyond the prover. Every safety property of a passing run has a theorem.

## 6. Findings and divergences

The finding, with a run whose counterexample shows it (details in `PROJECT.json`):

- **fills_crash** — `NoFillIsDropped`: the state sync and the opening of the position are
  two transactions. If the order ended partly filled, a death between them leaves a
  terminal row without position that `reconcile` skips for ever: shares at the broker that
  have no ledger position, no incident and no managed exit.

Places where the code does not keep what it says of itself. The first four have a
configuration whose counterexample reproduces them:

- `EntryTerminal.cfg` (`TerminalStatusStays`): a status checked at the execution chokepoint
  (ORC 2166) is overwritten after broker calls (2246); a rejection or supersession in between
  is lost, although `ProposalStatus.terminal` (`constants.py:584`) promises statuses "a
  proposal never leaves".
- `FillsCancel.cfg` (`CancelCompletes`): a deferred cancel does not converge as OM 864-868
  documents. The next pass's sync writes `cancelled` before the staleness query (OM 667) looks
  for live states, and the proposal stays `submitted`.
- `ExitLate.cfg` (`OneExitOrder`): one 404 after a failed POST is taken for an answer (TEL
  588-592); if the POST is still on its way, the close and the restored protection are alive
  together. For entries the repository refuses to draw that conclusion.
- `ExitComplete.cfg` (`ClosedIsComplete`): a stop or target fill booked by `reconcile` closes
  the position (OM 467) and leaves the canceling intent unfinished; the entry gate reports it.
- A cancel under no lock and a slower reader (OM 956-959, ES 192-204): `observe` compares
  nothing, so a monitor that read "accepted" before the operator's cancel writes it over the
  `cancelled` or `filled` that the cancel has written. The broker's order is over and the row
  is visited again (`SettledRowsStay`), so the next pass repairs the state, unless a person has
  closed the position meanwhile.
- `_entry_result` (OM 288-296) reports an order that was cut short as blocked, also when the part
  that filled has a position.
- Supersession is not atomic with creation (ORC 761, 845-868). Two creators that run at once
  may supersede each other and leave the symbol without an approvable proposal; one that dies
  between the two leaves two. `OneOpenPerSymbol` says exactly how far the rule goes.
- APR 84-88 explains why the caps need no lock by there being one scan at a time. Scans are
  separate processes; what protects the caps is that they are counted again under the entry
  lock (`CapsAlwaysHold`).
- OM 831-833 says `order_mapping` folds `pending_cancel` into CANCELLED;
  `broker/order_mapping.py:40` maps it to SUBMITTED.

## 7. Not modelled, and why

The map covers about a seventeenth of the implementation's lines. Most of the rest is
presentation, provider I/O, configuration and statistics, with no shared state that a model
checker would have anything to say about; the transactions at which processes meet are in the
modules above.

- Sequential computation without shared state: scan pipeline, scoring, AI evaluation,
  costs, attribution arithmetic, statistics (floating point is also out of TLC's reach).
- Pure I/O: HTTP, market data, reports, console; of the SQL schema only the tables that are
  state.
- The research side (canary, cards, hypotheses, outcomes, collection): one daily or weekly job
  under one lock writes evidence rows that reach no order. The research jobs of the runner
  share the code `MonitorRuns` models but have their own keys, age-based reaping and budget,
  which are not in it.
- Attribution of one symbol to several positions, and accounting receipts: `TimeExit` has a
  single position per symbol (`ProtectionWatchdog` and `AccountExposure` have several).
- The mock broker's fill path and legacy rows without an entry intent.
- Prices: `AccountExposure` prices every share alike at every moment, so what a moving market
  does to equity and market value between two reads is not in it.
- Reads of the fuse that fail: `cadence.is_fused` (306-313) takes them for "not fused", by intent,
  so `FuseHolds` is about a fuse that can be read.
- Refusals of the monitor's recovery over rows without a valid receipt or with a replaced lock
  file: they change nothing and wait for a person.

## 8. Running

    tlc -workers 2 -config EntryCrashes.cfg MCEntrySubmission.tla
    tlc -workers 2 -config FillsRace.cfg EntryFills.tla
    tlc -workers 2 -config ProposalApproval.cfg MCProposalApproval.tla
    tlapm TimeExitProofs.tla
