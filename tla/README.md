# A verification of NiftyShield's paper-trading core

NiftyShield records option strategies on the NIFTY index in a paper ledger. A
daemon watches the positions during market hours, asks a human about some
signals, acts on others by itself, and shares its SQLite database with cron
scripts and a command line. Nothing here trades real money, but every P&L
report, gate and later decision reads the same tables, so a position that is
closed twice, half closed, or closed in the table and not in fact, is a wrong
answer for weeks. The modules in this directory model the parts of the system
that write those tables while something else may write them too.

Paths below are relative to the repository (`src/src/...` is its Python package,
`src/scripts/...` its entry points).

## 1. Inventory

### 1.1 What is modelled

| Part | State | Operations | Hard behaviours | What makes it correct |
|---|---|---|---|---|
| **Paper ledger** `src/paper/store.py` | `paper_trades`: rows (leg, date, side, quantity, state), unique per leg, date and side | `record_trade(s)`, `mark_trade_closed`, `mark_trade_defended`, `delete_trade`, `get_position(s)`, `get_trade_state`, `find_stale_flat_legs` | insert and mark are two transactions; a duplicate is skipped silently; readers in other processes | closes never exceed opens; a live leg has an open row; a flat leg does not keep one unnoticed |
| **Executors** `src/strategy/executor.py`, `overlay_closer.py` | none of their own | read position, price it, insert the close, mark the rows | two of them run at once in the daemon (monitor task, worker thread of an approval) | as above, for every interleaving |
| **Expiry settlement and startup scans** `src/strategy/expiry_settlement.py`, `scripts/monitor_daemon.py` | report of settled and failed legs | settle expired legs at start, scan for half-closed legs | past-dated trades against the unique key; missing closes, timeout, exceptions | an expired leg is flat or somebody was told |
| **Cash-secured put** `csp_nifty_v1.py`, `csp_roll_executor.py` | the leg's rows and lifecycle state OPEN, DEFENDED, CLOSED | close, close and roll, defensive roll, rollback | five transactions with awaits between them, failures at each | one live lot; one defensive roll per put |
| **Collar overlay** `collar_overlay_v1.py`, `overlay_closer.py`, `auto_close.py`, the entry and snapshot scripts | rows of a call and a put; `paper_exit_events` | enter, close, re-enter a pair; create and resolve exit events | three processes; a batch of which single trades are skipped | never half a collar, never two |
| **Approval flow** `telegram_gateway.py`, callbacks and shutdown of `monitor_daemon.py` | `pending_approvals`; Telegram's update queue and offset | send and insert, poll, approve, reject, scan, shut down | redelivery after a restart, double presses, expiry during a handler, lost ids | one decision, at most one execution, no row pending for ever |
| **Iron condor** `ic_nifty_v2.py`, `ic_close_executor.py`, `profit_lock_engine.py`, `paper_ic_entry_v2.py` | rows of four roles; `original_entry_credit`; `profit_lock_state` | build a condor leg by leg, verify, compensate; roll a side, lock both wings, close | the entry is five processes long; batches with skipped trades; the roll and its record are two transactions | a short never without its wing; no leg turned round; one lock per condor, against its own credit |
| **Signal track** `signal_track_v1.py`, `signal_exit.py`, the morning pipeline and evening job | rows of one long option; `paper_signal_entries`, exit events, the signal of the day | open, exit on a level or at 15:00, pair the outcome | two openers, four transactions, retries on another day | entries and SELLs pair; an outcome is the entry's own; closed by 15:00 |
| **Nifty calendar** (monthly) `nifty_calendar/`, `nifty_calendar_v1.py` | nothing but rows: position, cycle and plan are rebuilt on every tick | plan, open, re-centre, hard exit | two processes, a crash between two legs, duplicates of the day | whole or flat; governed by the plan of its own cycle |
| **Gamma scanner** `scripts/gamma_scan.py`, `src/gamma/` | rows of one long option per direction; `gamma_signal_log` | scan: at most one entry per direction, exits | cron, a lock file, gates by the clock, failed writes, settlement and an operator who know nothing of the log | log and ledger agree; one position per direction; closed in time |
| **Monitor's WARN deduplication** `src/strategy/monitor.py` | `warn_signal_state` | tick, route, set active, reconcile | conditions change during awaits; skipped groups, aborted ticks, crashes | one alert per breach, armed again after recovery |

How they interact: `StrategyMonitor._tick` reads positions, awaits option chains,
calls `check_signals` and routes each event: a WARN to Telegram, an ACTION either
to the strategy's own `apply_action` (auto execution) or to an approval request.
The gateway's callback for a pressed button runs in the same event loop and hands
the store calls and the executor to worker threads. Cron scripts (entries, the
snapshot with its auto-close, `record_paper_trade.py`) write the same database
from other processes. There is no lock anywhere but SQLite's: every store method
is one transaction (`src/db.py`), and a sequence of them is not atomic.

### 1.2 What is not modelled, and why

| Part | State and operations | Why not (yet) |
|---|---|---|
| Covered call, protective put, `reentry_mixin.py` | one leg each; re-entry rules | the close is the ledger's closer; re-entry is planned |
| Track comparison, tenor, track snapshots | derived from positions | reporting |
| Iron condor V1, the biweekly calendar | as V2, and as the monthly variant | V1 is superseded; the two calendar variants differ in their policy numbers and share no rows |
| Gamma daily watch, signal stack, depth | watchlist, snapshots, layers 0-4 | one writer a day; thresholds over prices, left open as "a signal fires" |
| `mvp/` | pending marks and their backfill | one writer, keyed upserts; its hazards are data gaps, not orders of steps |
| `signals/`, `council/` | LLM and market calls, one insert a day | scoring; the stored signal of the day is in SignalTrack |
| `portfolio/`, `mf/`, `reporting/`, `payoff/` | snapshots, P&L arithmetic, charts | one writer, numeric |
| `client/`, `auth/`, `dhan/`, `nuvama/` | network adapters, source health | I/O; the chain-source failover is planned as a small module |
| `risk/` | pure gates over prices | their verdict is the nondeterminism of entries and signals |
| `backtest/`, `far_expiry/`, `intraday/` | batch ingestion keyed by date | idempotent upserts |
| `instruments/`, `market_calendar/`, `models/`, `utils/`, `config/` | lookups, value types | no interacting state |
| `notifications/` formatting | text | only delivery matters, and is modelled |

`PROJECT.json` lists the same parts under `components`, and under `hazards` the
places in this code that are hard to test, each at its line.

The map covers a small share of the repository's lines, and cannot cover a
large one: most of its Python is tests, one-off reproduction scripts
(`scratch/`), reports, charts, backtests, network adapters and price
arithmetic. What is shared, concurrent, persistent or retried is small beside
that, and it is what the modules are about.

## 2. Modules

    PaperTrades            the table as operators: one operator, one transaction
      PaperTradesProofs    what they do to rows and net quantities
      PaperLedger          all legs, two closers, entries, settlement, scans
      CspRoll              one strategy's multi-step roll on one role
        CspRollProofs      its inductive invariant and theorems
      CollarPair           two roles that must move together, three processes
        CollarPairProofs   its inductive invariant and theorems
      IronCondor           four roles, an entry script and a monitor
      GammaScan            cron scans, a signal log beside the ledger
        GammaInv           its inductive invariant
    SignalTrack            four processes around one long option
    CalendarCycle          a structure whose state is only its rows
      CalendarInv          its inductive invariant
    ApprovalLifecycle      what the approval flow promises about a row
      Approvals            how gateway, handlers, scanner and shutdown do it
        ApprovalsProofs    Approvals implements ApprovalLifecycle; types
    MonitorWarn            the tick and warn_signal_state
      MonitorWarnProofs    theorems; MCMonitorWarn, the instance for TLC
    MCLedgerCollar         PaperLedger beside CollarPairProofs
      PaperLedgerProofs    theorems about the ledger, and about the collar in it
    MCCondorPut            IronCondor beside CspRollProofs
      IronCondorProofs     theorems about the condor, and about the put beside it
    MCTracks               SignalTrack beside CalendarInv and GammaInv
      TracksProofs         theorems about the three of them

`MCLedgerCollar`, `MCCondorPut` and `MCTracks` put strategies side by side that
share neither rows nor process state: the ledger and the collar, the condor and the put, the signal
track, the calendar and the gamma scan. A variable `running`, chosen in the
initial state, says which of them a behaviour is about; the others keep their
initial state, so nothing is multiplied and each is checked as if it were
alone. A leg is `(strategy_name, leg_role, instrument_key)` and every query of
these strategies names its own strategy, which is why they can be checked apart.

Some definitions come in two versions, the second with a longer name
(`ClosingTradeOneLot`, `CloseNamedLeg`, `RouteAlertAlways`...) and a comment
saying what was forgotten in it. These are plausible bugs, not part of any
specification: substituting one for the definition below it makes TLC refute a
property, which shows that the property depends on that code.

### 2.1 PaperTrades

The table is a set of records. A *leg* stands for the triple (strategy_name,
leg_role, instrument_key). Prices and notes are left out: they never guard a
write. `RecordTrade` is `INSERT ... ON CONFLICT DO NOTHING`; `RecordTrades` is the
batch, in which *each* duplicate is skipped and the rest is committed;
`MarkTradeClosed` flips every OPEN or DEFENDED row of a leg; `DeleteTrade` deletes
by the unique key and leaves the other rows as they are.

### 2.2 PaperLedger

| Variable | Code |
|---|---|
| `paper_trades`, `net_qty` | the table, and what `get_positions` adds up from it |
| `today`, `daemon` | `market_today()`; down, in `settle_expired_legs_at_startup`, in its session |
| `closer[c]` | local variables of a running close: leg and quantity read, next write |
| `to_settle`, `to_mark`, `left_open` | the settlement loop: legs left, leg inserted but not marked, legs reported |
| `stale_legs`, `scan` | what `warn_stale_flat_legs_at_startup` or a logged exception told the operator |
| `overtaken` | history: legs entered while a closer was on them |

`ReadPosition`, `RecordClose`, `MarkClosed` are the three steps of
`OverlayCloser.close_single_leg` and of the closing loop of `PaperExecutor.apply`
(the strategies close the same way), with `NoPrice` and `MarkFails` as their
error exits. `StartDaemon`, `SettleLeg`, `SettleFails`, `SettleMark`,
`SettlementAborts`, `OpenSession`, `ScanFails` are the start of the daemon.
`DaemonEnds` is a shutdown or a crash between any two transactions: local state
is lost, rows stay. `Enter` is an entry by anybody.

The net quantity is kept in a variable beside the table, and every action that
inserts a row adjusts it by that row: two closers of many legs are the largest
instance here, and adding up rows in every state is what TLC would spend its
time on. The other modules add up, as the query does.

### 2.3 CspRoll

`roll` holds the program counter and the locals of `CSPNiftyV1.apply_action`:
`close` -> `mark` -> `open` -> `defend`, with `rollback` and `failed` on the error
path of `roll_down_and_out`. Signals are any action the strategy could choose for
the live put; the one rule that depends on state is kept: a delta breach rolls an
OPEN leg and closes a DEFENDED one, and which it is comes from `GetTradeState`,
modelled as the query is (newest row of the *role*). `sells` records the order of
SELL rows, because that query orders by id.

The three history variables name what the code does not protect itself against:
`overtaken` (another process wrote during an action), `skipped` (a trade was
dropped by the unique key and the action went on), `interrupted` (a crash or a
failed write in the middle). Properties say exactly which of them excuse them.

### 2.4 CollarPair

`tick` is the monitor's `CollarOverlayV1.apply_action` (close both legs in one
batch, mark what was inserted, select, re-enter). `cron` is the snapshot script:
it reads the live calls and today's open events, creates an event, and
`close_collar_all` reads both roles again, writes its batch, raises *after* the
commit if a trade was skipped, marks and resolves the event ACTED. `EnterPair` is
the entry script behind its bootstrap gate; it reads the gate and writes in one
step, since its process does nothing in between but price its own trades.

### 2.5 ApprovalLifecycle and Approvals

`ApprovalLifecycle` is the promise: none -> PENDING -> APPROVED, REJECTED or
EXPIRED; EXPIRED may still be overtaken by a decision whose handler had already
looked the row up; executed at most once, only if APPROVED.

`Approvals` is the event loop. Pressed buttons queue up in `updates`; `confirmed`
is what Telegram will not deliver again (it learns an offset from the *next*
`getUpdates`), `batch` what the last poll returned, `offset` what was handled. A
restart starts from offset 0, so everything unconfirmed comes again. A handler is
two steps: the lookup, and after its await the UPDATE in a worker thread that
does not look at the status. The scanner or the shutdown may run between the two.
`linked` holds rows whose message id came back: a lost answer stores NULL and the
row can never be found by a press. `Shutdown` cancels the tasks but not the worker
thread; `Exit` waits for it. `Actionable` are rows whose stored payload has an
`actions` list.

`Approvals` maps to `ApprovalLifecycle` by `status <- pending_approvals`,
`executed <- executed`; every other step is a stutter.

### 2.6 MonitorWarn

`tick` carries the locals of `_tick`: groups left, events of the current group,
`warn_fired`, and the message under way. `Breach` and `Recover` are the market and
may happen between any two steps. `SkipGroup` is a group with no chain or whose
`check_signals` raised; `AbortTick` an exception that only `run()` catches;
`DaemonEnds` a stop. `alerted`, `repeated`, `forgotten`, `delivered` are history.

### 2.7 IronCondor

`entry` is `paper_ic_entry_v2.py`: the duplicate guard and the cleared credit
(`BeginEntry`), one `record_paper_trade` process per leg (`PlaceLeg`), the
verification of what is persisted (`Verify`), the reversal of a broken basket leg
by leg (`Compensate`), and the credit once all four stand (`SetCredit`). `monitor`
is the tick: `ReadPositions`, the chain's reading with the decision
(`DecideClose`, `DecideLock`, `DecideMilestone`, `DecideRoll`, `Hold`), one batch
of closes and opens (`WriteBatch`, or `WriteNothing` when it is refused or
raises), one mark per inserted close (`MarkLegs`), and for a wing roll the lock
state (`WriteLock`). `ActionStops` is a mark or a lock that raised, or the daemon
stopping in the middle. A strike is its rank away from the money; the deltas, the
captured share of the credit and the strikes the selectors return are any that
the code's own comparisons allow.

The history variables are of one condor and reset by the next entry: `skipped`
(a batch lost a trade to the daily unique key), `uncovered` (a wing roll opened
fewer wings than it closed, because a replacement had no instrument key),
`reused` (a leg was opened again before its close was marked), `interrupted` (a
wing roll whose record was lost), `abandoned` (an entry given up half built).

### 2.8 SignalTrack

`opener[o]` is `open_signal_paper_entry` in the morning pipeline and in the
manual script: the guards up to the quote, the BUY row, and the entry, each a
transaction. `Tick` reads the open entry and decides; `RecordSell` and
`CloseEntry` are the two calls of `_close_position`; `CallRaises` is either of
them raising. `fired` is the set the daemon keeps in its memory, and a crash
forgets. The id of a row is its index, because the queries of the outcome order
by id. `soldBy` records which entry inserted which SELL row.

### 2.9 CalendarCycle

Nothing is persisted but rows, so the model has no cycle variable: `CycleOrigin`,
`PlanDay`, `Resolved` are computed from `ledger` as the code computes them.
`job[p]` is what a process is doing and which legs it has left. `PlanEntry` holds
the guards of `plan_entry`, `OpenStructure` the second look before the writes,
`OpenLeg` and `CloseLeg` one transaction each. `cycleStart` and `upsets` are
history. An exit that is due is made before the day ends (`NextDay`), and a
structure is not opened and closed while another plan waits for its chains: a
plan waits seconds, ticks are minutes apart.

### 2.10 GammaScan

Cron fires at the even instants of a day; a scan's `datetime.now` is the odd
instant after it (`Reading`), which is what decides the time stop. `StartScan` is
everything up to the first write: the gate, the positions read once, the
evaluation, and the choice of at most one contract per direction. `Enter` and
`Exit` are the two `BEGIN IMMEDIATE` transactions, each of which writes the ledger
and the log together; `EnterFails`, `Unexited`, `ScanDies`, `MissScan` are what
may go wrong around them. `Settle` is the daemon's settlement and `Operator`
`record_paper_trade.py`, both writing the ledger only.

`upsets` names what a property excuses: `blind` (a scan in which a position had
to be sold was missed, did not see it, or failed), `swallowed` (an exit's SELL was
dropped as the duplicate of an earlier one of that day), `hand` (the operator).

## 3. Runs

| Run | Module, bounds | Checks | Shows |
|---|---|---|---|
| `ledger_collar` | MCLedgerCollar: 2 legs (one short, one long, different expiries), 2 closers, 4 days, 2 lots | `NoOverClose`, `LiveLegSettleable`, `HalfClosedIsKnown`, `ExpiredLegsSettled`, `CarriedLegClosable` | racing closers, crashes and settlement are safe; the one exception of `LiveLegSettleable` is an entry under a closer |
| | or 2 calls, 2 puts, 2 signals, 2 days, 4 opening trades | `PartialOnlyByDuplicate`, `OnePair`, `ActedIsFlat` | only a skipped trade of a batch, or an entry in the middle of a close, breaks the pair |
| `collar_partial` | CollarPair | `NeverPartial`, **violated** | and a skipped trade does break it |
| `condor_put` | MCCondorPut: 3 put strikes, 2 call strikes, 2 days, 1 roll per side, 3 condors and batches | `ShortsAreCovered`, `NeverReversed`, `OneLegPerRole`, `CreditIsOwn`, `LockOnce`, `LiveLegsAreOpen` | a condor survives partial batches, compensation, crashes and restarts, each property up to the excuses it names |
| | or 3 puts, 4 sells, 2 days | `OneLivePut`, `NoSecondRoll`, `TradeStateIsOwn` | the roll is safe unless another writer, the duplicate guard or (for the second roll) an interruption intervenes |
| `condor_lock` | IronCondor: 2 strikes a side, 4 condors and batches | `LockIsOwn`, **violated** | a new condor starts with the executed lock of an earlier one |
| `csp_rollback` | CspRoll: 2 puts, 1 day | `RollbackRestores`, **violated** | the rollback does not undo the CLOSED mark |
| `tracks` | MCTracks: signal track: 2 options, 2 days, 1 crash, blind ticks and failing calls | `SellsPair`, `OutcomeIsOwn`, `EntryCloses` | entries and SELLs pair and end by 15:00 |
| | or calendar: 5 days, an expiry every 4, 3 plans, 1 crash | `WholeOrFlat`, `OwnPlan` | four legs or none, under the right plan |
| | or gamma: 1 direction, 2 strikes, 3 days with an expiry on the second, 5 scans a day, 3 positions, every fault | `LogIsLedger`, `OnePerDirection`, `NoneOutlivesContract` | log and ledger stay together and no direction is blocked for ever, up to the excuses |
| `signal_retry` | SignalTrack: 2 days, failing calls | `SoldOnce`, **violated** | the retry comes on the next day and sells again |
| `gamma_stop` | GammaScan: no fault, 1 position | `OvernightIsCarried`, **violated** | the 15:00 time stop of the day before expiry never runs |
| `approvals` | Approvals: 2 rows, 3 presses, 1 stop | `LifecycleSpec`, `NoRequestPendsForever` | the flow implements the lifecycle; every row ends |
| `approvals_payload` | Approvals: no row Actionable, as the monitor writes them | `ApprovedIsExecuted`, **violated** | an approval executes nothing |
| `warn` | MCMonitorWarn: 3 conditions in 2 groups, 1 fault | `AlertOnce`, `BreachBecomesActive`, `RecoveryClears` | one alert per breach unless a fault hid it, and no breach or recovery is missed for ever |
| `warn_lost` | MCMonitorWarn | `ActiveWasDelivered`, **violated** | a failed send counts as sent |

Every passing run also checks the types (`TypeOK`, `CollarTypeOK`, `CspTypeOK`,
`TracksTypeOK`), which besides the types of
the variables ties a few together (a queue's offsets are in order, a closer is
marking exactly while it has something to mark).

**Bounds.** Ledger: two legs because no operator of the ledger relates three,
two closers because the daemon has two, four days so that both expiries pass with
a day before and after, two lots so that an entry can add to a position while a
closer holds its old quantity; the two closers do the same, so they are
interchanged by symmetry. CspRoll: a roll needs two instruments and the next
one a third; four sells are an entry, two rolls and a re-entry. CollarPair: two
strikes a side, because a re-entry may pick the same or another one; two pairs.
IronCondor: a third put strike gives that side somewhere to roll to while the
call side has nowhere; three pieces of work are a condor with two batches, or
two condors with one; a second day makes yesterday's unique keys harmless. Only
`condor_lock` needs four, on fewer strikes. SignalTrack: two options can be held
on two days in either order, and a second day is what a failed exit waits for.
CalendarCycle: five days hold a whole cycle and the first day of the next.
GammaScan: five scans a day are three before the last entry (buy, sell, buy
again), one after it and one at the end; positions are compared within a
direction only, so one direction is enough; the first day is the day before an
expiry, the second the expiry, the third the day before the next.
Approvals: two rows share one update queue, three presses are a decision, a
contradicting one and one for the other row, one stop makes every press
redeliverable; the theorem below has no bound. MonitorWarn: a group of two, a
group of one; one fault at a time is what the history variable `forgotten` speaks
of. Symmetry is used for safety only. `LastDay`, `FinalDay`, `MaxLots`, `MaxSells`,
`MaxOpens`, `MaxWork`, `MaxPlans`, `MaxSignals`, `MaxPresses`, `MaxStops`,
`MaxFaults`, `MaxFailures`, `MaxCrashes` are the bounds in the modules; each
stands in guards (and in types) and nowhere else. Deadlock is checked except in
`tracks`, `signal_retry` and `gamma_stop`, whose days end: after the last one,
with nothing open and cron done, the system does stop. In the other runs the
daemon can always be started or stopped, or a condition appear.

**Fairness.** Three runs need it. `Approvals`: time passes (`Overdue`), the
scanner's loop turns every five minutes while the gateway runs
(`ScanExpiredApprovals`), a store call in a worker thread returns or raises, the
shutdown coroutine goes on to its end, and cron starts the daemon on the next
trading day (`StartDaemon`). Nothing is assumed about the user, about Telegram or
about the monitor's requests. `MonitorWarn`: `run()` is an endless loop whose
awaits have timeouts (`TickStep`), and again cron. Faults are finite in number,
by the bound; a market feed that fails for ever would hide a breach for ever.
`SignalTrack`: cron starts the daemon, it ticks and now and then sees a price
(`Tick(FALSE)`, one that hits no level), its calls return or raise, and 15:00
comes (`SquareOff`). That a price hits a level is not assumed; the time exit is.

**Assumptions about the environment.** The daemon runs from 09:15 to 15:30 and
the snapshot's auto-close from 15:35 (header of `monitor_daemon.py`); CollarPair
therefore starts the snapshot only while the daemon is down, and the day changes
only while it is down. Cron starts a gamma scan at the full minute and the scan
reads the clock afterwards. SQLite transactions are atomic and serialised. In the
collar model the covered call's exemption in the exit-event dedup is left out.

## 4. What was found

Seven runs end in a counterexample on purpose; `PROJECT.json` quotes the lines.

1. `roll_down_and_out` rolls a failed roll back by deleting the closing trade. The
   CLOSED mark, a transaction of its own, stays: the put is live with no OPEN row,
   invisible to `get_trade_state` and to the expiry settlement.
2. `record_trades` skips each duplicate on its own, while the entry script's
   comment says that a partial insert cannot occur. After a close and an entry on
   the same day, half a collar can be live.
3. The monitor stores a signal's payload, the approval callback looks for an
   `actions` list in it, and no producer writes one: APPROVED, never executed.
4. A WARN whose message could not be sent is recorded as active and is not sent
   again while the condition lasts.
5. A close of a signal entry that raises after its SELL is not retried by the next
   tick, as the comment says: the entry is already in `_exit_fired_trade_ids`. The
   next day's daemon sells again, on another date, which no unique key refuses.
6. `reset_profit_lock_state` has no caller. The lock of one condor stays on record
   for the next one, whose own wings are never locked.
7. The time stop of the day before an expiry is due from 15:00:00 and scans are
   let through until 15:00:00. The scan cron starts then reads the clock a moment
   later: the rule never runs, and losers are held overnight.

Two more places show up only as excuses in the gamma properties. A contract that
was carried, sold and bought again on one day has its second SELL dropped; the
log row is exited, the ledger stays long, and `net_qty` then refuses every entry
of that direction until the settlement (section 9 of the strategy's document
rules out the re-entry after a stop, the code does not). And a position that no
scan could mark or resolve on its last afternoon stays open in the log for ever.

## 5. Proofs

TLAPS checks eight modules. Every invariant a run checks is a theorem for every
value of the constants, and so are the action
property `ActedIsFlat` and the refinement of `ApprovalLifecycle`. The constants
have the types the modules' assumptions give them; beyond types they assume only
that there is a first day, that a call is not a put, and what is said of a
timetable and a policy below.

**PaperTradesProofs.** The net quantity of a leg is a fold over a set of rows,
and an induction theorem over finite sets cannot be instantiated here. It is not
needed: in a collection of subsets of a finite set there is a minimal member
(`MinimalSubset`), and a sum that went wrong for some set of rows would go wrong
for a minimal one, whose proper subsets are summed right. From that follow
`NetQtyType`, `NetQtyAdd`, `NetQtyRemove`, `NetQtyUnion`, `NetQtyRewrite` (a mark
changes states and no quantity) and `NetQtySign`. The rest are facts about the operators of
PaperTrades in those terms: `RecordTradeTable` and `RecordTradesTable` (the keys
stay unique; a leg gains the trade's quantity, or nothing if it is a duplicate),
`MarkTradeClosedTable`, `DeleteTradeTable`, `HeldHasOpener` (a live leg has a row of
its opening side), `FlatRows`. All strategies' proofs use these and none unfolds
the sum again.

**PaperLedgerProofs** proves, for any set of legs and closers, any expiries, any
number of days and lots, `Spec => []P` for `TypeOK`, `NoOverClose`,
`LiveLegSettleable`, `HalfClosedIsKnown` and `ExpiredLegsSettled`. None of the five
is inductive alone. The invariant that is (`IInv`) has, beside them:

- `ExposureBounded`: a position lies between zero and MaxLots on its opening side.
- `CloserViews`: the heart of the argument. A closer that is about to insert holds
  a quantity that was the position when it read it. Either the position is still
  at least that quantity (exactly that quantity, when no entry overtook the
  closer), or a close of that leg dated today is in the table; and then its own
  insert is a duplicate. A closer about to mark has a flat leg, with the same
  proviso. This is why two racing closers never
  over-close: the ON CONFLICT clause, not any lock, stops the second.
- `ClosersInSession`, `SettlementScope`: closers act only in a session and the
  settlement only before one, so they never meet; the legs the settlement holds
  are live and expired.
- `ExpiredHandled`: during the settlement every expired live leg is still to be
  settled, or was reported, or has no open row.

`CarriedLegClosable` stands on top of `IInv`, with an invariant (`DayInv`) about
today's rows: none is dated in the future (`Dated`), a leg that was closed today
and is live was also entered today (`LiveAfterClose`), and a closer about to insert
flattens the leg, or its insert is refused, or somebody entered the leg today
(`ClosesWhatItRead`). Without the last a close could leave a rest of the position
that today's key then locks in.

**CspRollProofs** proves the four put properties (`CspTypeOK`, `OneLivePut`,
`NoSecondRoll`, `TradeStateIsOwn`). Its invariant `CspInv` says, for each phase of a
roll nobody interfered with, what is short: the put being rolled, nothing, or its
successor (`Position`). A rollback deletes by the unique key, so `CloseRecorded` is
part of it: the row the rollback would delete is the one this roll inserted.
`get_trade_state` answers with the newest row of the role, hence `SellsAreRows`
(the order of ids against the table) and `LatestIsLive` (the put sold last is the
live one, or the one a rollback would make live). `ClosedInOrder` is what
re-selling the same put on another day costs: a mark closes every row of the leg,
so no earlier row of it is open when a later one is closed. `Defended` then counts rolls.

**CollarPairProofs** proves `CollarTypeOK`, `PartialOnlyByDuplicate`, `OnePair` and
`ActedIsFlat`. `CollarInv` says that a closer's batch is that of what is held
(`ClosesAreCurrent`; only an entry can write between its reading and its writing,
since monitor and snapshot are never up together), that the pair is whole or flat
and a batch has both of its legs (`CollarPosition`), and that a snapshot closes the
one call it saw (`SeenIsClosed`), which is what makes an event ACTED rightly.
Proving it for any number of entries showed that an earlier form of
`PartialOnlyByDuplicate` held only within the run's bounds: once an entry runs in the middle of a
close there are two collars, and a later re-entry may pick a leg of the other.
The property now excuses that entry, as `OnePair` does.

**IronCondorProofs** proves the six invariants of the condor and its types.
`CreditIsOwn` is inductive as it stands. `LockOnce` needs that a wing roll that was
written is on record or is still being recorded by the tick that wrote it, unless
the record was lost (`RolledIsRecorded`), and that a tick about to write one saw no
lock on record and nobody else records one (`UndecidedLock`): the second is why
reading the state before an await and writing after it is safe, the monitor being
its only writer. The other four share one invariant, `CondorInv`:

- `RowsInv`: one lot of a leg, one leg of a role, an open row of each live leg.
- `EntryInv`: what the script's stage says about the rows. A role that is live was
  begun by this entry, unless its short was rolled since (`BasketInv`); what the
  compensation has dealt with is flat and a short it leaves has its wing
  (`UndoInv`); otherwise every short has a wing (`Covered`).
- `MonitorInv`: what a tick knows. Of what it read as held, at least that much is
  held still or a close of it is a duplicate by now (`ReadHolds`): this is where a stale
  decision meets the compensation that overtook it. A decided action is a ticket
  (`RollTicket`, `LockTicket`, `CloseTicket`) that is closed under losing its
  duplicates: a roll opens a wing for its short, a close takes no wing
  without its short, and a lock moves the wings of a whole condor only, which it
  knows because an entry under way has cleared the credit (`CreditIsOwn`).

Here too the proof corrected a property: with a fourth strike a stale roll can be
written while the *next* entry is placing its legs, and that entry's compensation,
which goes by roles, then reverses a strike it never placed. It takes a trade lost to the
unique key, and `NeverReversed` now says so; the close rows of a batch are written
before its opening rows, as in the code.

**TracksProofs**, the signal track, for any options, days, crashes and faults.
`SellsPair` counts: closed entries (and the one about to be closed) and SELL rows
are matched by `soldBy`, which the invariant shows to be one to one, so their
cardinalities agree. `Table` says rows are unique and in the order of their dates,
`Opening` that one entry is open at a time and what an opener in the middle
knows, `Pairing` that every SELL has its entry and, if nothing was swallowed,
every closed entry its SELL. `OutcomeIsOwn` needs the order too: a SELL comes after
its BUY and before any BUY of a later day (`Ordering`), so the first SELL after
an opening row is that entry's own. The types bound the number of rows: the
unique key maps them one to one into options, days and sides (`RowsBounded`).

The gamma scan: `LogIsLedger`, `OnePerDirection`, `NoneOutlivesContract`, from the
invariant of `GammaInv`. A signal's BUY row is the only one of its contract and day
(`LogInv`), so an entry that is a duplicate in the ledger is one in the log. The
scan in progress looks only at signals that are still open, nobody else exiting
them (`ScanInv`). The ledger holds one lot of an open signal's contract, one contract of a
direction, and nothing without a signal unless a SELL was dropped (`HeldInv`). What is open on
its last day was not yet due at the last scan, or the scan in progress will look
at it (`SoldInv`). `Timetable` assumes that some expiry always lies ahead, that cron
fires at even instants and that a last scan comes after the last entry; with scans ending
at the last entry the third property would be false.

The calendar: `WholeOrFlat` and `OwnPlan`, from the invariant of `CalendarInv`. A
leg is flat or was opened once more than it was closed (`Balanced`). While a job
runs the other process waits, what an opening has written is of today, and a plan
that waits either finds something held, which the second look at the positions
rejects, or may still be entered (`Orderly`). What is held is then
what the legs a job has left leave over, which are those of the last roles
(`Whole`). That the hard exit leaves before the near expiry (`NearInv`) needs that
all that is held is of one expiry and of the next one after its trade. `Policy`
assumes a cycle of more than one day.

`OwnPlan` relates what the monitor reads out of all the rows to a day no variable
of the code keeps. `cycle_origin_date` takes the first short call sold after the
last close that was no re-centre, up to the entry of the structure; so the shorts
that are held have to be the ones sold last (`SoldLast`), every sale before
`cycleStart` has to have been ended by a real close, and no real close may have
come since (`CycleGoesOn`, `SoldAtStart`). While the call is not held, the cycle
has ended (`AllEnded`) or was re-centred today and may go on today only
(`RecentredToday`). These hold even when a process dies between two legs, since
the call is both the first leg opened and the first closed. Proving it corrected
the property's excuse, which ended with any close of the stranded structure: it
is the short call's row that ends a cycle, and only if the unique key lets it in
(`EndsCycle`).

`MCLedgerCollar`, `MCCondorPut` and `MCTracks` run one of several strategies in a
behaviour, so the last theorems of those modules lift each strategy's theorem to
them: a step of the composition is a step of the strategy or leaves its variables
alone (`CollarBehaviour`, `PutBehaviour`, `CalendarBehaviour`, `GammaBehaviour`).

**MonitorWarnProofs** proves `TypeOK` and `AlertOnce` of MonitorWarn for any
conditions, groups and number of faults. The invariant, each part for conditions
no fault has hidden: an alerted breach is on record in `active`, or the tick is
just about to write it (`AlertRecorded`); a tick under way has evaluated it, still
has its group before it, or skipped that group (`AlertSeen`), so the
reconciliation at the end of the tick does not clear it; and an event that was
alerted before is active when the monitor decides whether to send (`NoSecondSend`).
`TickOrder` keeps these apart: a group is evaluated once in a tick.

**ApprovalsProofs** proves `Spec => Lifecycle!Spec` (`ApprovalsImplementLifecycle`)
for any rows, presses and stops: initial states map to initial states, and every
step maps to a lifecycle step or a stutter, under an invariant that says what a
handler knows: a handler about to resolve has a row that is PENDING or EXPIRED,
one about to apply has a row that is APPROVED and not yet executed. That is what
the lookup's `AND status = 'PENDING'` buys, together with there being a single
handler at a time. `ApprovalsTypeOK` is proved beside it: the types, and the order
of the two offsets, are inductive together with what a handler knows.

Model-checked only: the liveness properties
(`NoRequestPendsForever`, `BreachBecomesActive`, `RecoveryClears`, `EntryCloses`),
which are out of the prover's reach, as are ENABLED and induction over recursive
data. No module declares a RECURSIVE operator. The runs that end in a
counterexample need no proof.

## 6. Plan

Done: the ledger and its settlement, the approval flow and its refinement, WARN
deduplication, the cash-secured put, the collar, the iron condor, the signal
track, the monthly calendar, the gamma scan.

Next, extending the model:

1. *Closers in other processes* in the ledger (`record_paper_trade.py --close`, the
   snapshot's single-leg auto-close), with their own position read.
2. *Several approval requests for one position*, joined with the ledger, once a
   payload makes an approval execute anything.
3. *Covered call and protective put*: re-entry rules, entry gates, exit events with
   ACKNOWLEDGED and the dedup exemption.
4. *Cadence* of `_due_strategies` as operators checked against a definition.
5. *Chain source failover* (`source_health.py`): an authentication failure during an
   open transport circuit is not reported until the circuit closes.
6. `mvp/`: pending marks and their backfill.

No invariant of a run waits for a proof; the proofs to come are those of the
parts above.
