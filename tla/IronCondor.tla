----------------------------- MODULE IronCondor -----------------------------
(***************************************************************************)
(* The monthly iron condor (IronCondorV2): the entry script builds four    *)
(* legs one subprocess at a time, and the monitor task rolls a side, locks *)
(* in profit by rolling both wings inward, or closes the whole condor.     *)
(*                                                                         *)
(* The monitor reads the positions at the start of a tick, awaits the      *)
(* option chain, decides, awaits quotes and writes one batch; the marks of *)
(* the closed rows and the profit-lock state are transactions of their     *)
(* own.  The entry script runs in another process meanwhile, any write may *)
(* raise and either process may die.  Prices and deltas are readings the   *)
(* market is free to choose; a strike is its rank away from the money.     *)
(***************************************************************************)
EXTENDS PaperTrades, Sequences, FiniteSetsExt

CONSTANTS
    MaxRolls,     \* max_rolls_per_side_per_cycle
    PutStrikes,   \* strikes of the put side
    CallStrikes,  \* strikes of the call side
    LastDay,      \* bound: the days explored
    MaxWork       \* bound: condors entered and batches written, in all

ASSUME CondorAssumption ==
    /\ MaxRolls \in Nat
    /\ PutStrikes \subseteq Int /\ CallStrikes \subseteq Int
    /\ LastDay \in Nat \ {0} /\ MaxWork \in Nat

VARIABLES
    paper_trades,  \* rows of the four roles
    credit,        \* original_entry_credit: the condor it is of, 0 for NULL
    lock,          \* profit_lock_zone and zone2_lock_executed
    today,
    entry,         \* the entry script
    monitor,       \* what the tick is doing; "down" without a daemon
    rolls,         \* _rolls_executed, in the daemon's memory
    cycle,         \* history: the number of the condor last entered
    batches,       \* history: batches written
    locks,         \* history: wing rolls written for that condor
    interrupted,   \* history: a wing roll lost its state to a crash or failure
    skipped,       \* history: a batch lost a trade to the daily unique key
    uncovered,     \* history: a wing roll opened fewer wings than it closed
    reused,        \* history: a leg was opened before its last close was marked
    abandoned      \* history: an entry was left half built

tables == <<paper_trades, credit, lock>>
history == <<cycle, batches, locks, interrupted, skipped, uncovered, reused,
             abandoned>>
vars == <<tables, today, entry, monitor, rolls, history>>

Days == 1 .. LastDay
Sides == {"put", "call"}
Strikes(side) == IF side = "put" THEN PutStrikes ELSE CallStrikes

\* leg_role is the kind with the side, as in short_put or long_put_hedge.
Leg(kind, side, strike) == [kind |-> kind, side |-> side, strike |-> strike]
Legs == UNION {{Leg(kind, side, k) : kind \in {"short", "long"},
                                     k \in Strikes(side)} : side \in Sides}
Role(leg) == <<leg.kind, leg.side>>

Opener(leg) == IF leg.kind = "short" THEN "SELL" ELSE "BUY"
OpenTrade(leg) == Trade(leg, today, Opener(leg), 1)
UndoTrade(leg) == Trade(leg, today, Opposite(Opener(leg)), 1)

\* get_positions: the legs that are not flat.
Net(leg) == NetQty(RowsOf(paper_trades, leg))
Live == {leg \in Legs : Net(leg) # 0}
HasRole(legs, kind, side) == \E leg \in legs : Role(leg) = <<kind, side>>
NetOf(kind, side) ==
    NetQty({r \in paper_trades : Role(r.leg) = <<kind, side>>})

\* _position_for_role: one leg of every role; which one, when a role has two,
\* is left open.
Picks(legs) ==
    {s \in SUBSET legs :
       /\ {Role(leg) : leg \in s} = {Role(leg) : leg \in legs}
       /\ \A a, b \in s : Role(a) = Role(b) => a = b}

Resting == [pc |-> "rest"]
Down == [pc |-> "down"]
NoEntry == [pc |-> "none"]
NoLock == [zone |-> 0, executed |-> FALSE]

Init ==
    /\ paper_trades = {}
    /\ credit = 0
    /\ lock = NoLock
    /\ today = 1
    /\ entry = NoEntry
    /\ monitor = Down
    /\ rolls = [side \in Sides |-> 0]
    /\ cycle = 0 /\ batches = 0 /\ locks = 0
    /\ interrupted = FALSE /\ skipped = FALSE /\ uncovered = FALSE
    /\ reused = FALSE /\ abandoned = FALSE

-----------------------------------------------------------------------------
(* The entry script.                                                       *)

\* Shorts and their wings, in the order the script places them.
Baskets ==
    {<<Leg("short", "put", k[1]), Leg("long", "put", k[2]),
       Leg("short", "call", k[3]), Leg("long", "call", k[4])>> :
       k \in {x \in PutStrikes \X PutStrikes \X CallStrikes \X CallStrikes :
                x[1] < x[2] /\ x[3] < x[4]}}

\* The excuses are those of the condor they happened to.
FreshHistory ==
    /\ locks' = 0
    /\ interrupted' = FALSE /\ skipped' = FALSE /\ uncovered' = FALSE
    /\ reused' = FALSE /\ abandoned' = FALSE

\* Leaving the last condor's credit in place while the next one is built.
BeginEntryKeepsCredit(basket) ==
    /\ entry = NoEntry
    /\ Live = {}
    /\ cycle + batches < MaxWork
    /\ entry' = [pc |-> "place", basket |-> basket, placed |-> 0]
    /\ cycle' = cycle + 1
    /\ FreshHistory
    /\ UNCHANGED <<tables, today, monitor, rolls, batches>>

\* The duplicate guard, and the last condor's credit cleared before any leg.
BeginEntry(basket) ==
    /\ entry = NoEntry
    /\ Live = {}
    /\ cycle + batches < MaxWork
    /\ credit' = 0
    /\ entry' = [pc |-> "place", basket |-> basket, placed |-> 0]
    /\ cycle' = cycle + 1
    /\ FreshHistory
    /\ UNCHANGED <<paper_trades, lock, today, monitor, rolls, batches>>

\* One record_paper_trade process: inserted, and the next leg is due.
PlaceLeg ==
    /\ entry.pc = "place"
    /\ LET t == OpenTrade(entry.basket[entry.placed + 1])
       IN  /\ ~Duplicate(paper_trades, t)
           /\ paper_trades' = RecordTrade(paper_trades, t)
    /\ entry' = IF entry.placed = 3
                  THEN [pc |-> "verify", basket |-> entry.basket, ok |-> TRUE]
                  ELSE [entry EXCEPT !.placed = @ + 1]
    /\ reused' = (reused \/ (monitor.pc = "mark" /\
                             entry.basket[entry.placed + 1] \in monitor.todo))
    /\ UNCHANGED <<credit, lock, today, monitor, rolls, cycle, batches, locks,
                   interrupted, skipped, uncovered, abandoned>>

\* A duplicate or a gate makes it exit with an error: no further leg is tried.
PlaceLegFails ==
    /\ entry.pc = "place"
    /\ entry' = [pc |-> "verify", basket |-> entry.basket, ok |-> FALSE]
    /\ UNCHANGED <<tables, today, monitor, rolls, history>>

\* The legs of the basket whose role is not flat.
Persisted == {i \in 1 .. 4 :
                LET leg == entry.basket[i]
                IN  HasRole(Live, leg.kind, leg.side)}

\* Every role must be there and every subprocess have succeeded.
Verify ==
    /\ entry.pc = "verify"
    /\ entry' = IF entry.ok /\ Persisted = 1 .. 4
                  THEN [entry EXCEPT !.pc = "credit"]
                  ELSE IF Persisted = {} THEN NoEntry
                  ELSE [pc |-> "undo", basket |-> entry.basket,
                        left |-> Persisted]
    /\ UNCHANGED <<tables, today, monitor, rolls, history>>

\* The database cannot be read: nothing is compensated, only an alert.
VerifyFails ==
    /\ entry.pc = "verify"
    /\ entry' = NoEntry
    /\ abandoned' = TRUE
    /\ UNCHANGED <<tables, today, monitor, rolls, cycle, batches,
                   locks, interrupted, skipped, uncovered, reused>>

\* _compensate_legs: the next persisted leg of the basket.
Undoing == entry.basket[CHOOSE i \in entry.left : \A j \in entry.left : i <= j]
AfterUndo ==
    LET i == CHOOSE n \in entry.left : \A j \in entry.left : n <= j
    IN  IF entry.left = {i} THEN NoEntry
        ELSE [entry EXCEPT !.left = @ \ {i}]

\* A table that would take the reversing trade twice.
CompensateTwice ==
    /\ entry.pc = "undo"
    /\ LET t == UndoTrade(Undoing)
           again == [t EXCEPT !.qty = 1 +
                       Cardinality({r \in paper_trades : SameKey(r, t)})]
       IN  paper_trades' = {r \in paper_trades : ~SameKey(r, t)} \cup {again}
    /\ entry' = AfterUndo
    /\ UNCHANGED <<credit, lock, today, monitor, rolls, history>>

\* A reversing trade, and the mark of the leg when that made it flat.
Compensate ==
    /\ entry.pc = "undo"
    /\ LET t == UndoTrade(Undoing)
       IN  /\ ~Duplicate(paper_trades, t)
           /\ paper_trades' = IF Net(t.leg) + Signed(t.action, 1) = 0
                THEN MarkTradeClosed(RecordTrade(paper_trades, t), t.leg)
                ELSE RecordTrade(paper_trades, t)
    /\ entry' = AfterUndo
    /\ UNCHANGED <<credit, lock, today, monitor, rolls, history>>

\* A duplicate, of the monitor's close or of an earlier close of that day, or
\* refused: a leg that is still live is left to the operator.
CompensateFails ==
    /\ entry.pc = "undo"
    /\ abandoned' = (abandoned \/ Net(Undoing) # 0)
    /\ entry' = AfterUndo
    /\ UNCHANGED <<tables, today, monitor, rolls, cycle, batches,
                   locks, interrupted, skipped, uncovered, reused>>

\* set_original_entry_credit, once the four legs are verified.
SetCredit ==
    /\ entry.pc = "credit"
    /\ credit' = cycle
    /\ entry' = NoEntry
    /\ UNCHANGED <<paper_trades, lock, today, monitor, rolls, history>>

\* It failed; the entry stands without it.
SetCreditFails ==
    /\ entry.pc = "credit"
    /\ entry' = NoEntry
    /\ UNCHANGED <<tables, today, monitor, rolls, history>>

EntryDies ==
    /\ entry.pc \in {"place", "verify", "undo"}
    /\ entry' = NoEntry
    /\ abandoned' = TRUE
    /\ UNCHANGED <<tables, today, monitor, rolls, cycle, batches,
                   locks, interrupted, skipped, uncovered, reused>>

-----------------------------------------------------------------------------
(* The monitor task: one tick.                                             *)

StartDaemon ==
    /\ monitor = Down
    /\ monitor' = Resting
    /\ rolls' = [side \in Sides |-> 0]
    /\ UNCHANGED <<tables, today, entry, history>>

\* The positions of the tick, read before the option chain is awaited.
ReadPositions ==
    /\ monitor = Resting
    /\ Live # {}
    /\ cycle + batches < MaxWork
    /\ monitor' = [pc |-> "decide", seen |-> [leg \in Live |-> Net(leg)],
                   building |-> entry # NoEntry]
    /\ UNCHANGED <<tables, today, entry, rolls, history>>

Seen == DOMAIN monitor.seen

\* What the chain shows: whether the expiry is near, the delta of each short,
\* and how much of the entry credit has been captured.  Legs read while they
\* are being built are seconds old and show no profit of their own; measured
\* against a credit on record they may, when that is of another condor or
\* when the call side is not among them yet.
Readings ==
    {m \in [near : BOOLEAN,
            delta : [Sides -> {"calm", "breach", "extreme"}],
            captured : {"little", "zone1", "zone2", "target"}] :
       \/ m.captured = "little"
       \/ ~monitor.building
       \/ credit \notin {0, cycle}
       \/ credit # 0 /\ ~HasRole(Seen, "short", "call")}

ShortDelta(m, side) ==
    IF HasRole(Seen, "short", side) THEN m.delta[side] ELSE "calm"
Breached(m) == {side \in Sides : ShortDelta(m, side) = "breach"}

\* Hard close near expiry, extreme delta, or a breach of a side whose rolls
\* are exhausted: ahead of everything else.
Forced(m) ==
    \/ m.near
    \/ \E side \in Sides : ShortDelta(m, side) = "extreme"
    \/ \E side \in Breached(m) : rolls[side] >= MaxRolls

LockDue(m) ==
    /\ m.captured = "zone2"
    /\ ~lock.executed
    /\ \A side \in Sides : HasRole(Seen, "short", side)

MilestoneDue(m) == m.captured = "zone1" /\ lock.zone < 1

\* The side that is rolled: the put side first.
Challenged(m) == IF "put" \in Breached(m) THEN "put" ELSE "call"

Write(action, closed, opened) ==
    [pc |-> "write", action |-> action,
     close |-> [leg \in closed |-> monitor.seen[leg]], open |-> opened]

\* CLOSE_FULL: a forced close, the profit target, a lock the engine refuses, or
\* a breach no guard lets roll.
DecideClose ==
    /\ monitor.pc = "decide"
    /\ \E m \in Readings :
         \/ Forced(m)
         \/ m.captured = "target"
         \/ LockDue(m)
         \/ ~MilestoneDue(m) /\ Breached(m) # {}
    /\ \E closed \in Picks(Seen) :
         monitor' = Write("CLOSE_FULL", closed, {})
    /\ UNCHANGED <<tables, today, entry, rolls, history>>

\* ZONE2_LOCK: both wings of the condor roll to strikes picked by their delta,
\* one of them at least beyond its short; a wing whose instrument key cannot
\* be resolved is left out of the legs to open.
DecideLock ==
    /\ monitor.pc = "decide"
    /\ \E m \in Readings : LockDue(m) /\ ~Forced(m)
    /\ \E closed \in Picks({leg \in Seen : leg.kind = "long"}),
          shorts \in Picks({leg \in Seen : leg.kind = "short"}),
          wings \in Picks({leg \in Legs : leg.kind = "long"}),
          resolved \in SUBSET Sides :
         /\ \E short \in shorts, wing \in wings :
              short.side = wing.side /\ wing.strike > short.strike
         /\ monitor' = Write("PROFIT_LOCK_ZONE2", closed,
                             {wing \in wings : wing.side \in resolved})
    /\ UNCHANGED <<tables, today, entry, rolls, history>>

\* A milestone that is passed again on every tick, each time a zone further.
DecideMilestoneAgain ==
    /\ monitor.pc = "decide"
    /\ \E m \in Readings : m.captured = "zone1" /\ ~Forced(m)
    /\ lock' = [lock EXCEPT !.zone = @ + 1]
    /\ monitor' = Resting
    /\ UNCHANGED <<paper_trades, credit, today, entry, rolls, history>>

\* PROFIT_LOCK_ZONE1 is a milestone that is only written down.
DecideMilestone ==
    /\ monitor.pc = "decide"
    /\ \E m \in Readings : MilestoneDue(m) /\ ~Forced(m)
    /\ lock' = [lock EXCEPT !.zone = 1]
    /\ monitor' = Resting
    /\ UNCHANGED <<paper_trades, credit, today, entry, rolls, history>>

\* Replacements of a side's legs: a short farther from the money, its delta
\* being below the breach, and a wing beyond it, no wider than before.
Replacements(short, wing) ==
    {s \in SUBSET {leg \in Legs : leg.side = short.side} :
       \E new \in s, hedge \in s :
         /\ s = {new, hedge}
         /\ new.kind = "short" /\ hedge.kind = "long"
         /\ new.strike > short.strike
         /\ new.strike < hedge.strike
         /\ hedge.strike - new.strike <= Magnitude(wing.strike - short.strike)}

\* A roll that names the challenged short only, as it once did (BUG-073).
DecideRollShortOnly ==
    /\ monitor.pc = "decide"
    /\ \E m \in Readings :
         /\ ~Forced(m) /\ ~MilestoneDue(m)
         /\ m.captured # "target"
         /\ Breached(m) # {}
         /\ LET side == Challenged(m)
            IN  /\ rolls' = [rolls EXCEPT ![side] = @ + 1]
                /\ \E closed \in Picks({leg \in Seen : leg.side = side}) :
                     \E short, wing \in closed :
                       /\ short.kind = "short" /\ wing.kind = "long"
                       /\ \E opened \in Replacements(short, wing) :
                            monitor' = Write("ROLL_WING", {short}, opened)
    /\ UNCHANGED <<tables, today, entry, history>>

\* ROLL_WING, also when the engine has no opinion on a lock that is due.  A
\* roll is counted when it is decided, whether or not it is written later.
DecideRoll ==
    /\ monitor.pc = "decide"
    /\ \E m \in Readings :
         /\ ~Forced(m) /\ ~MilestoneDue(m)
         /\ m.captured # "target"
         /\ Breached(m) # {}
         /\ LET side == Challenged(m)
            IN  /\ rolls' = [rolls EXCEPT ![side] = @ + 1]
                /\ \E closed \in Picks({leg \in Seen : leg.side = side}) :
                     \E short, wing \in closed :
                       /\ short.kind = "short" /\ wing.kind = "long"
                       /\ \E opened \in Replacements(short, wing) :
                            monitor' = Write("ROLL_WING", closed, opened)
    /\ UNCHANGED <<tables, today, entry, history>>

\* Nothing is due, only a warning is, or the chain cannot be read.
Hold ==
    /\ monitor.pc = "decide"
    /\ monitor' = Resting
    /\ UNCHANGED <<tables, today, entry, rolls, history>>

CloseTrade(leg) ==
    Trade(leg, today, IF monitor.close[leg] > 0 THEN "SELL" ELSE "BUY",
          Magnitude(monitor.close[leg]))
Closes == {CloseTrade(leg) : leg \in DOMAIN monitor.close}
Opens == {OpenTrade(leg) : leg \in monitor.open}

AfterMarks(action) ==
    IF action = "PROFIT_LOCK_ZONE2" THEN [pc |-> "lock"] ELSE Resting
Marks(action, legs) ==
    IF legs = {} THEN AfterMarks(action)
    ELSE [pc |-> "mark", action |-> action, todo |-> legs]

\* A batch whose closing half is written without the other.
WriteClosesOnly ==
    /\ monitor.pc = "write"
    /\ batches' = batches + 1
    /\ paper_trades' = RecordTrades(paper_trades, Closes)
    /\ monitor' = Marks(monitor.action,
                        {t.leg : t \in Inserted(paper_trades, Closes)})
    /\ skipped' = (skipped \/ Inserted(paper_trades, Closes) # Closes)
    /\ uncovered' = uncovered
    /\ reused' = reused
    /\ locks' = locks + 1
    /\ UNCHANGED <<credit, lock, today, entry, rolls, cycle, interrupted,
                   abandoned>>

\* close_ic_legs and roll_ic_legs: one record_trades, closes before opens.
WriteBatch ==
    /\ monitor.pc = "write"
    /\ batches' = batches + 1
    /\ LET closed == RecordTrades(paper_trades, Closes)
           gone == Inserted(paper_trades, Closes)
           new == Inserted(closed, Opens)
           isLock == monitor.action = "PROFIT_LOCK_ZONE2"
       IN  /\ paper_trades' = RecordTrades(closed, Opens)
           /\ monitor' = IF gone \cup new = {} THEN Resting
                         ELSE Marks(monitor.action, {t.leg : t \in gone})
           /\ skipped' = (skipped \/ gone # Closes \/ new # Opens)
           /\ uncovered' = (uncovered \/
                (isLock /\ Cardinality(Opens) < Cardinality(Closes)))
           /\ reused' = (reused \/ monitor.open \cap DOMAIN monitor.close # {})
           /\ locks' = IF isLock /\ gone \cup new # {} THEN locks + 1 ELSE locks
    /\ UNCHANGED <<credit, lock, today, entry, rolls, cycle, interrupted,
                   abandoned>>

\* No open-only roll, a price is missing, or the write raised: no row at all.
WriteNothing ==
    /\ monitor.pc = "write"
    /\ monitor' = Resting
    /\ UNCHANGED <<tables, today, entry, rolls, history>>

MarkAll(table, legs) ==
    {IF r.leg \in legs THEN CHOOSE x \in MarkTradeClosed({r}, r.leg) : TRUE
     ELSE r : r \in table}

\* Marking by role, whatever the instrument.
MarkRoles ==
    /\ monitor.pc = "mark"
    /\ paper_trades' = MarkAll(paper_trades,
         {leg \in Legs : \E done \in monitor.todo : Role(leg) = Role(done)})
    /\ monitor' = AfterMarks(monitor.action)
    /\ UNCHANGED <<credit, lock, today, entry, rolls, history>>

\* mark_trade_closed, for each close that was inserted.
MarkLegs ==
    /\ monitor.pc = "mark"
    /\ paper_trades' = MarkAll(paper_trades, monitor.todo)
    /\ monitor' = AfterMarks(monitor.action)
    /\ UNCHANGED <<credit, lock, today, entry, rolls, history>>

\* A lock state that records the zone without the lock itself.
WriteLockZoneOnly ==
    /\ monitor.pc = "lock"
    /\ lock' = [lock EXCEPT !.zone = 2]
    /\ monitor' = Resting
    /\ UNCHANGED <<paper_trades, credit, today, entry, rolls, history>>

\* set_profit_lock_state, only after the wings were written.
WriteLock ==
    /\ monitor.pc = "lock"
    /\ lock' = [zone |-> 2, executed |-> TRUE]
    /\ monitor' = Resting
    /\ UNCHANGED <<paper_trades, credit, today, entry, rolls, history>>

LosesLock ==
    \/ monitor.pc = "lock"
    \/ (monitor.pc = "mark" /\ monitor.action = "PROFIT_LOCK_ZONE2")

Place(leg) ==
    CHOOSE i \in 1 .. 4 : <<Role(leg), i>> \in
      {<<<<"short", "put">>, 1>>, <<<<"long", "put">>, 2>>,
       <<<<"short", "call">>, 3>>, <<<<"long", "call">>, 4>>}

\* What a stop leaves marked: the legs are marked in the order of their roles.
MarkedSoFar ==
    IF monitor.pc = "mark"
      THEN {legs \in SUBSET monitor.todo :
              \A a \in legs, b \in monitor.todo \ legs : Place(a) < Place(b)}
      ELSE {{}}

\* A mark or the lock state raised and the monitor logs it, or the daemon is
\* stopped: the action ends after the marks it had made.
ActionStops ==
    /\ monitor.pc \in {"mark", "lock"}
    /\ \E marked \in MarkedSoFar : paper_trades' = MarkAll(paper_trades, marked)
    /\ interrupted' = (interrupted \/ LosesLock)
    /\ monitor' = Resting
    /\ UNCHANGED <<credit, lock, today, entry, rolls, cycle, batches,
                   locks, skipped, uncovered, reused, abandoned>>

\* Shutdown or crash; in the middle of an action's writes, after ActionStops.
DaemonEnds ==
    /\ monitor.pc \in {"rest", "decide", "write"}
    /\ monitor' = Down
    /\ UNCHANGED <<tables, today, entry, rolls, history>>

NextDay ==
    /\ monitor = Down
    /\ entry = NoEntry
    /\ today < LastDay
    /\ today' = today + 1
    /\ UNCHANGED <<tables, entry, monitor, rolls, history>>

Next ==
    \/ \E basket \in Baskets : BeginEntry(basket)
    \/ PlaceLeg \/ PlaceLegFails \/ Verify \/ VerifyFails
    \/ Compensate \/ CompensateFails \/ SetCredit \/ SetCreditFails
    \/ EntryDies
    \/ StartDaemon \/ ReadPositions
    \/ DecideClose \/ DecideLock \/ DecideMilestone \/ DecideRoll \/ Hold
    \/ WriteBatch \/ WriteNothing \/ MarkLegs \/ WriteLock
    \/ ActionStops \/ DaemonEnds \/ NextDay

Spec == Init /\ [][Next]_vars

-----------------------------------------------------------------------------
(* Correctness                                                             *)

IsMonitor(x) ==
    \/ x \in {Resting, Down, [pc |-> "lock"]}
    \/ x.pc = "decide" /\ DOMAIN x.seen \subseteq Legs
    \/ /\ x.pc = "write"
       /\ x.action \in {"CLOSE_FULL", "ROLL_WING", "PROFIT_LOCK_ZONE2"}
       /\ DOMAIN x.close \subseteq Legs /\ x.open \subseteq Legs
    \/ /\ x.pc = "mark" /\ x.todo \subseteq Legs /\ x.todo # {}

\* Every variable holds values the program can hold.
TypeOK ==
    /\ paper_trades \subseteq [leg : Legs, date : Days, action : Actions,
                               qty : Nat \ {0}, state : States]
    /\ credit \in 0 .. MaxWork /\ cycle \in 0 .. MaxWork
    /\ lock \in [zone : 0 .. 2, executed : BOOLEAN]
    /\ today \in Days
    /\ entry.pc \in {"none", "place", "verify", "undo", "credit"}
    /\ IsMonitor(monitor)
    /\ rolls \in [Sides -> Nat]
    /\ batches \in 0 .. MaxWork /\ locks \in Nat
    /\ {interrupted, skipped, uncovered, reused, abandoned} \subseteq BOOLEAN

\* "A roll that writes only the close side would leave the position naked": a
\* short always has its wing on the same side, whatever the order of the
\* entry's legs, its compensation, rolls, locks, closes and crashes; except
\* while an entry is building or undoing legs or was given up half way, after
\* a wing roll that opened fewer wings than it closed, or a batch that lost a
\* trade to the daily unique key.
ShortsAreCovered ==
    entry = NoEntry /\ ~abandoned /\ ~uncovered /\ ~skipped =>
      \A side \in Sides : NetOf("short", side) + NetOf("long", side) >= 0

\* The compensation of a failed entry, the monitor's close of the same legs and
\* later rolls never trade a leg past flat, nor leave more than its one lot:
\* shorts are never bought into a long position nor wings sold into a short
\* one.  It needs a batch that lost a trade to the unique key: a tick that read
\* an entry's legs before they were compensated may roll them when the next
\* entry is under way, whose own compensation goes by roles and then reverses a
\* strike that was never placed.
NeverReversed ==
    ~skipped => \A leg \in Legs : Net(leg) \in {0, Signed(Opener(leg), 1)}

\* Without a trade lost to the unique key, a role is held in one instrument
\* only, so that what apply_action picks for a role is the whole of it.
OneLegPerRole ==
    ~skipped => \A a, b \in Live : Role(a) = Role(b) => a = b

\* BUG-057: the monitor never measures a condor against the credit of an
\* earlier one, and none is on record while legs are being placed or undone.
CreditIsOwn ==
    /\ credit \in {0, cycle}
    /\ entry.pc \in {"place", "verify", "undo"} => credit = 0

\* BUG-025: the wings of a condor are rolled by the lock once, although the
\* roll and its record are two transactions, unless a crash or a failed write
\* came between the two.
LockOnce == ~interrupted => locks <= 1

\* Only the rows of the legs a batch closed are marked: a live leg has an OPEN
\* row the settlement can find it by, unless a leg was opened again before its
\* close was marked (a roll that keeps its wing does that in one batch) or a
\* batch lost a trade to the unique key.
LiveLegsAreOpen ==
    ~reused /\ ~skipped => \A leg \in Live : HasOpenRow(paper_trades, leg)

\* reset_profit_lock_state: "reset all fields to defaults for a new entry
\* cycle".  A condor entered in full, with its credit on record, whose state
\* says that the lock was executed had its own wings locked.
LockIsOwn ==
    entry = NoEntry /\ credit = cycle /\ cycle > 0 /\ lock.executed => locks > 0
==============================================================================
