----------------------------- MODULE PaperLedger -----------------------------
(***************************************************************************)
(* The paper ledger under all the writers that close legs in it.           *)
(*                                                                         *)
(* The daemon runs two closers at once: the monitor task, whose strategies *)
(* close from positions read before an await, and the worker thread in     *)
(* which PaperExecutor or OverlayCloser applies an approved action.  Every *)
(* closer reads a position, prices it, inserts the closing trade and, in a *)
(* second transaction, flips the leg's rows to CLOSED.  Entries come from  *)
(* other processes (cron entries, record_paper_trade.py) at any time.  The *)
(* daemon may die between any two transactions; each start settles expired *)
(* legs and then scans for legs a dead closer left half closed.            *)
(***************************************************************************)
EXTENDS PaperTrades

CONSTANTS
    Legs,       \* (strategy_name, leg_role, instrument_key) triples
    Closers,    \* tasks and threads of the daemon that close legs
    OpenSide,   \* the side that opens each leg: BUY for long roles
    Expiry,     \* the expiry date of each leg's contract
    LastDay,    \* bound: the days explored
    MaxLots     \* bound: the largest position of a leg, and of one entry

ASSUME LedgerAssumption ==
    /\ LastDay \in Nat \ {0}
    /\ MaxLots \in Nat \ {0}
    /\ OpenSide \in [Legs -> Actions]
    /\ Expiry \in [Legs -> Nat]

Days == 1 .. LastDay

VARIABLES
    paper_trades,  \* the table
    net_qty,       \* what get_positions computes from it, per leg
    today,         \* market_today()
    daemon,        \* "down", "settling" (startup) or "session"
    closer,        \* what each closer is doing
    to_settle,     \* expired legs found at startup and not yet handled
    to_mark,       \* the leg settled but not yet marked CLOSED, if any
    left_open,     \* legs this start's settlement reported as not settled
    stale_legs,    \* half-closed legs reported by this start's scan, or
                   \* since then by the exception of a mark that failed
    scan,          \* "failed" if this start's scan raised, otherwise "done"
    overtaken      \* history: legs that received an entry under a closer

vars == <<paper_trades, net_qty, today, daemon, closer, to_settle, to_mark,
          left_open, stale_legs, scan, overtaken>>

Idle == [pc |-> "idle"]

CloserStates ==
    {Idle} \cup [pc : {"record", "mark"}, leg : Legs, qty : 1 .. MaxLots]

CloseSide(l) == Opposite(OpenSide[l])

At(c, pc, l) == closer[c].pc = pc /\ closer[c].leg = l

\* Closing a fixed single lot instead of abs(net_qty).
ClosingTradeOneLot(l, date, qty) == Trade(l, date, CloseSide(l), 1)

\* A closing trade flattens at most what it read: quantity abs(net_qty).
ClosingTrade(l, date, qty) == Trade(l, date, CloseSide(l), qty)

After(t) == [net_qty EXCEPT ![t.leg] = @ + Signed(t.action, t.qty)]

Init ==
    /\ paper_trades = {}
    /\ net_qty = [l \in Legs |-> 0]
    /\ today = 1
    /\ daemon = "down"
    /\ closer = [c \in Closers |-> Idle]
    /\ to_settle = {}
    /\ to_mark = {}
    /\ left_open = {}
    /\ stale_legs = {}
    /\ scan = "done"
    /\ overtaken = {}

-----------------------------------------------------------------------------
(* Entries                                                                 *)

\* record_trade of an opening trade, from another process or from an
\* executor's legs_to_open.  A second entry of the same day is skipped.
Enter(l, qty) ==
    LET t == Trade(l, today, OpenSide[l], qty)
    IN  /\ today <= Expiry[l]
        /\ Magnitude(net_qty[l]) + qty <= MaxLots
        /\ ~Duplicate(paper_trades, t)
        /\ paper_trades' = RecordTrade(paper_trades, t)
        /\ net_qty' = After(t)
        /\ overtaken' = IF \E c \in Closers : At(c, "record", l) \/ At(c, "mark", l)
                          THEN overtaken \cup {l} ELSE overtaken
        /\ UNCHANGED <<today, daemon, closer, to_settle, to_mark, left_open,
                       stale_legs, scan>>

-----------------------------------------------------------------------------
(* Closers: PaperExecutor.apply, OverlayCloser.close_single_leg and the    *)
(* strategies' own close, which all follow the same three steps.           *)

\* Losing the abs() around net_qty.
ReadPositionSigned(c, l) ==
    /\ daemon = "session"
    /\ closer[c] = Idle
    /\ net_qty[l] # 0
    /\ closer' = [closer EXCEPT ![c] =
                    [pc |-> "record", leg |-> l, qty |-> net_qty[l]]]
    /\ UNCHANGED <<paper_trades, net_qty, today, daemon, to_settle, to_mark,
                   left_open, stale_legs, scan, overtaken>>

\* get_position; a flat leg is skipped.
ReadPosition(c, l) ==
    /\ daemon = "session"
    /\ closer[c] = Idle
    /\ net_qty[l] # 0
    /\ closer' = [closer EXCEPT ![c] =
                    [pc |-> "record", leg |-> l, qty |-> Magnitude(net_qty[l])]]
    /\ UNCHANGED <<paper_trades, net_qty, today, daemon, to_settle, to_mark,
                   left_open, stale_legs, scan, overtaken>>

\* The leg is missing from the chain, or the chain fetch failed: no trade.
NoPrice(c) ==
    /\ closer[c].pc = "record"
    /\ closer' = [closer EXCEPT ![c] = Idle]
    /\ UNCHANGED <<paper_trades, net_qty, today, daemon, to_settle, to_mark,
                   left_open, stale_legs, scan, overtaken>>

\* Forgetting "if inserted": the rows are flipped after a skipped close too.
RecordCloseAlwaysMark(c) ==
    /\ closer[c].pc = "record"
    /\ LET t == ClosingTrade(closer[c].leg, today, closer[c].qty)
       IN  /\ paper_trades' = RecordTrade(paper_trades, t)
           /\ net_qty' = IF Duplicate(paper_trades, t) THEN net_qty ELSE After(t)
           /\ closer' = [closer EXCEPT ![c].pc = "mark"]
    /\ UNCHANGED <<today, daemon, to_settle, to_mark, left_open, stale_legs,
                   scan, overtaken>>

\* record_trade of the close; a duplicate of today's close is skipped and
\* then nothing is marked.
RecordClose(c) ==
    /\ closer[c].pc = "record"
    /\ LET t == ClosingTrade(closer[c].leg, today, closer[c].qty)
       IN  IF Duplicate(paper_trades, t)
             THEN /\ closer' = [closer EXCEPT ![c] = Idle]
                  /\ UNCHANGED <<paper_trades, net_qty>>
             ELSE /\ paper_trades' = RecordTrade(paper_trades, t)
                  /\ net_qty' = After(t)
                  /\ closer' = [closer EXCEPT ![c].pc = "mark"]
    /\ UNCHANGED <<today, daemon, to_settle, to_mark, left_open, stale_legs,
                   scan, overtaken>>

\* mark_trade_closed, in a transaction of its own.
MarkClosed(c) ==
    /\ closer[c].pc = "mark"
    /\ paper_trades' = MarkTradeClosed(paper_trades, closer[c].leg)
    /\ closer' = [closer EXCEPT ![c] = Idle]
    /\ UNCHANGED <<net_qty, today, daemon, to_settle, to_mark, left_open,
                   stale_legs, scan, overtaken>>

\* mark_trade_closed raised: the caller logs it, the rows stay OPEN.
MarkFails(c) ==
    /\ closer[c].pc = "mark"
    /\ closer' = [closer EXCEPT ![c] = Idle]
    /\ stale_legs' = stale_legs \cup {closer[c].leg}
    /\ UNCHANGED <<paper_trades, net_qty, today, daemon, to_settle, to_mark,
                   left_open, scan, overtaken>>

-----------------------------------------------------------------------------
(* Startup: settle expired legs, then scan for half-closed ones.           *)

\* Settling a leg one day late.
ExpiredLegsDayLate ==
    {l \in Legs : /\ net_qty[l] # 0
                  /\ HasOpenRow(paper_trades, l)
                  /\ Expiry[l] + 1 < today}

\* find_expired_legs: live, settleable, and expired before today.
ExpiredLegs ==
    {l \in Legs : /\ net_qty[l] # 0
                  /\ HasOpenRow(paper_trades, l)
                  /\ Expiry[l] < today}

\* find_stale_flat_legs: flat, yet some row is still OPEN or DEFENDED.
StaleFlatLegs ==
    {l \in Legs : net_qty[l] = 0 /\ HasOpenRow(paper_trades, l)}

StartDaemon ==
    /\ daemon = "down"
    /\ daemon' = "settling"
    /\ to_settle' = ExpiredLegs
    /\ UNCHANGED <<paper_trades, net_qty, today, closer, to_mark, left_open,
                   stale_legs, scan, overtaken>>

\* No NIFTY close for the expiry date: the leg stays OPEN and is reported.
SettleFails(l) ==
    /\ daemon = "settling"
    /\ to_mark = {}
    /\ l \in to_settle
    /\ to_settle' = to_settle \ {l}
    /\ left_open' = left_open \cup {l}
    /\ UNCHANGED <<paper_trades, net_qty, today, daemon, closer, to_mark,
                   stale_legs, scan, overtaken>>

\* build_settlement_trade dates the close on the expiry date; the duplicate
\* guard may refuse it.
SettleLeg(l) ==
    /\ daemon = "settling"
    /\ to_mark = {}
    /\ l \in to_settle
    /\ to_settle' = to_settle \ {l}
    /\ LET t == ClosingTrade(l, Expiry[l], Magnitude(net_qty[l]))
       IN  IF Duplicate(paper_trades, t)
             THEN /\ left_open' = left_open \cup {l}
                  /\ UNCHANGED <<paper_trades, net_qty, to_mark>>
             ELSE /\ paper_trades' = RecordTrade(paper_trades, t)
                  /\ net_qty' = After(t)
                  /\ to_mark' = {l}
                  /\ UNCHANGED left_open
    /\ UNCHANGED <<today, daemon, closer, stale_legs, scan, overtaken>>

SettleMark(l) ==
    /\ daemon = "settling"
    /\ l \in to_mark
    /\ paper_trades' = MarkTradeClosed(paper_trades, l)
    /\ to_mark' = {}
    /\ UNCHANGED <<net_qty, today, daemon, closer, to_settle, left_open,
                   stale_legs, scan, overtaken>>

\* No instrument master, the settlement's timeout, or a write that raised:
\* logged as a failed settlement of all that is left, and the start goes on.
SettlementAborts ==
    /\ daemon = "settling"
    /\ to_settle \cup to_mark # {}
    /\ left_open' = left_open \cup to_settle
    /\ to_settle' = {}
    /\ to_mark' = {}
    /\ UNCHANGED <<paper_trades, net_qty, today, daemon, closer, stale_legs,
                   scan, overtaken>>

\* A start that skips the scan.
OpenSessionUnscanned ==
    /\ daemon = "settling"
    /\ to_settle = {}
    /\ to_mark = {}
    /\ daemon' = "session"
    /\ scan' = "done"
    /\ UNCHANGED <<paper_trades, net_qty, today, closer, to_settle, to_mark,
                   left_open, stale_legs, overtaken>>

\* warn_stale_flat_legs_at_startup, then the monitor and gateway tasks start.
OpenSession ==
    /\ daemon = "settling"
    /\ to_settle = {}
    /\ to_mark = {}
    /\ daemon' = "session"
    /\ stale_legs' = StaleFlatLegs
    /\ scan' = "done"
    /\ UNCHANGED <<paper_trades, net_qty, today, closer, to_settle, to_mark,
                   left_open, overtaken>>

\* The scan raised: logged, and the tasks start all the same.
ScanFails ==
    /\ daemon = "settling"
    /\ to_settle = {}
    /\ to_mark = {}
    /\ daemon' = "session"
    /\ scan' = "failed"
    /\ UNCHANGED <<paper_trades, net_qty, today, closer, to_settle, to_mark,
                   left_open, stale_legs, overtaken>>

\* The process ends, by shutdown or by a crash: whatever its tasks and its
\* worker thread were doing is lost, what they committed stays.
DaemonEnds ==
    /\ daemon # "down"
    /\ daemon' = "down"
    /\ closer' = [c \in Closers |-> Idle]
    /\ to_settle' = {}
    /\ to_mark' = {}
    /\ left_open' = {}
    /\ stale_legs' = {}
    /\ scan' = "done"
    /\ UNCHANGED <<paper_trades, net_qty, today, overtaken>>

\* The daemon is started once per trading day, so it is down in between.
NextDay ==
    /\ daemon = "down"
    /\ today < LastDay
    /\ today' = today + 1
    /\ UNCHANGED <<paper_trades, net_qty, daemon, closer, to_settle, to_mark,
                   left_open, stale_legs, scan, overtaken>>

-----------------------------------------------------------------------------
CloserStep(c) ==
    \/ \E l \in Legs : ReadPosition(c, l)
    \/ NoPrice(c)
    \/ RecordClose(c)
    \/ MarkClosed(c)
    \/ MarkFails(c)

Settlement ==
    \/ StartDaemon
    \/ \E l \in Legs : SettleFails(l) \/ SettleLeg(l) \/ SettleMark(l)
    \/ SettlementAborts
    \/ OpenSession
    \/ ScanFails

Next ==
    \/ \E l \in Legs, qty \in 1 .. MaxLots : Enter(l, qty)
    \/ \E c \in Closers : CloserStep(c)
    \/ Settlement
    \/ DaemonEnds
    \/ NextDay

Spec == Init /\ [][Next]_vars

-----------------------------------------------------------------------------
(* Correctness                                                             *)

\* Every variable holds values the program can hold; rows never carry the
\* wrong side, a zero quantity or a date after today.
TypeOK ==
    /\ paper_trades \subseteq
         [leg : Legs, date : Nat, action : Actions, qty : 1 .. MaxLots,
          state : States]
    /\ net_qty \in [Legs -> Int]
    /\ today \in Days
    /\ daemon \in {"down", "settling", "session"}
    /\ closer \in [Closers -> CloserStates]
    /\ to_settle \subseteq Legs
    /\ to_mark \subseteq Legs
    /\ left_open \subseteq Legs
    /\ stale_legs \subseteq Legs
    /\ scan \in {"done", "failed"}
    /\ overtaken \subseteq Legs

\* The position of a leg measured on its opening side: negative would mean
\* that closing trades sold or bought more than was ever opened.
Exposure(l) == Signed(OpenSide[l], net_qty[l])

\* Two closers that read the same live position, a crash between insert and
\* mark, or a settlement dated in the past never turn a leg round: closes
\* never exceed what was opened (record_trade's ON CONFLICT clause is what
\* the two concurrent closers rely on).
NoOverClose == \A l \in Legs : Exposure(l) >= 0

\* A live leg keeps an OPEN or DEFENDED row, so get_trade_state and the
\* settlement still see it, unless an entry was booked on the leg while a
\* closer was between reading its position and marking it CLOSED.
LiveLegSettleable ==
    \A l \in Legs \ overtaken : net_qty[l] # 0 => HasOpenRow(paper_trades, l)

\* In a session whose scan did not fail, a flat leg whose rows are still OPEN
\* is being marked right now or was reported (BUG-070): a crash or a failed
\* settlement between a closing insert and its mark never goes unnoticed.
HalfClosedIsKnown ==
    daemon = "session" /\ scan = "done" =>
      \A l \in StaleFlatLegs :
         l \in stale_legs \/ \E c \in Closers : At(c, "mark", l)

\* Once a session runs, every leg of an expired contract is flat, or was left
\* open by this start's settlement and reported, one by one or as all that
\* was left when it failed, or has no OPEN row left for it to find.
ExpiredLegsSettled ==
    daemon = "session" =>
      \A l \in Legs : Expiry[l] < today /\ net_qty[l] # 0 =>
         l \in left_open \/ ~HasOpenRow(paper_trades, l)

\* The daily UNIQUE key never blocks the close of a carried position: in a
\* session, a live leg without an opening row of today has no closing row of
\* today either, so a close of it cannot be dropped as a duplicate.
CarriedLegClosable ==
    daemon = "session" =>
      \A l \in Legs :
        net_qty[l] # 0 /\ ~Duplicate(paper_trades, Trade(l, today, OpenSide[l], 1)) =>
          ~Duplicate(paper_trades, ClosingTrade(l, today, 1))
==============================================================================
