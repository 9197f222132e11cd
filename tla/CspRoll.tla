------------------------------- MODULE CspRoll -------------------------------
(***************************************************************************)
(* The cash-secured-put strategy (CSPNiftyV1): one short put that is       *)
(* closed, rolled or defended by the monitor task.                         *)
(*                                                                         *)
(* apply_action works on the positions read at the start of the tick and   *)
(* awaits quotes before each write, and every write is a transaction of    *)
(* its own.  Meanwhile other processes enter or close puts (cron entry,    *)
(* record_paper_trade.py), a write may raise, and the daemon may die.      *)
(* An entry is one lot; CSPNiftyV1 closes and re-opens what it holds.      *)
(***************************************************************************)
EXTENDS PaperTrades, Sequences, FiniteSetsExt

CONSTANTS
    Puts,      \* instruments the strategy may hold, as leg short_put
    LastDay,   \* bound: the days explored
    MaxSells   \* bound: the puts sold in all

Days == 1 .. LastDay

VARIABLES
    paper_trades,  \* rows of leg short_put
    sells,         \* <<put, date>> of the SELL rows in the order of their ids
    today,
    daemon,        \* "up" or "down"
    roll,          \* what apply_action is doing
    defences,      \* history: defensive rolls since the put was last entered
    interrupted,   \* history: a crash or a failed write left an action half done
    overtaken,     \* history: another process wrote while an action ran
    skipped        \* history: a trade of an action was dropped as a duplicate

world == <<today, daemon>>
history == <<interrupted, overtaken, skipped>>
vars == <<paper_trades, sells, today, daemon, roll, defences,
          interrupted, overtaken, skipped>>

Idle == [pc |-> "idle"]
CspActions == {"CLOSE_AND_WAIT", "CLOSE_AND_ROLL", "ROLL_DOWN_AND_OUT"}
Phases == {"close", "mark", "open", "defend", "rollback", "failed"}

\* Working on put, of which qty was held when the positions were read.
IsRoll(x) ==
    /\ x.pc \in Phases
    /\ x.put \in Puts /\ x.target \in Puts
    /\ x.qty \in Nat \ {0}
    /\ x.action \in CspActions

\* get_positions.
Net(p) == NetQty(RowsOf(paper_trades, p))
ShortPuts == {p \in Puts : Net(p) < 0}

Open(p, qty) == Trade(p, today, "SELL", qty)
Close(p, qty) == Trade(p, today, "BUY", qty)
RollClose == Close(roll.put, roll.qty)
RollOpen == Open(roll.target, roll.qty)

Init ==
    /\ paper_trades = {}
    /\ sells = <<>>
    /\ today = 1
    /\ daemon = "down"
    /\ roll = Idle
    /\ defences = 0
    /\ interrupted = FALSE
    /\ overtaken = FALSE
    /\ skipped = FALSE

-----------------------------------------------------------------------------
(* The lifecycle state of the leg.                                         *)

StateOf(s) ==
    (CHOOSE r \in paper_trades :
        r.leg = s[1] /\ r.date = s[2] /\ r.action = "SELL").state

\* Reading the oldest open row instead of the newest.
GetTradeStateOldest ==
    LET live == {i \in DOMAIN sells : StateOf(sells[i]) # "CLOSED"}
    IN  IF live = {} THEN "OPEN"
        ELSE StateOf(sells[CHOOSE i \in live : \A j \in live : i <= j])

\* get_trade_state: the newest SELL row of the role that is not CLOSED, of
\* whatever instrument; OPEN when there is none.
GetTradeState ==
    LET live == {i \in DOMAIN sells : StateOf(sells[i]) # "CLOSED"}
    IN  IF live = {} THEN "OPEN"
        ELSE StateOf(sells[CHOOSE i \in live : \A j \in live : i >= j])

-----------------------------------------------------------------------------
(* Other processes.                                                        *)

\* An entry, made only while no put is live, and not skipped as a duplicate.
Enter(p) ==
    /\ Len(sells) < MaxSells
    /\ ShortPuts = {}
    /\ ~Duplicate(paper_trades, Open(p, 1))
    /\ paper_trades' = RecordTrade(paper_trades, Open(p, 1))
    /\ sells' = Append(sells, <<p, today>>)
    /\ defences' = 0
    /\ overtaken' = (overtaken \/ roll # Idle)
    /\ UNCHANGED <<world, roll, interrupted, skipped>>

\* record_paper_trade.py --close: the insert and the mark, one step here.
CloseByHand(p) ==
    /\ p \in ShortPuts
    /\ LET t == Close(p, Magnitude(Net(p)))
       IN  /\ ~Duplicate(paper_trades, t)
           /\ paper_trades' = MarkTradeClosed(RecordTrade(paper_trades, t), p)
    /\ overtaken' = (overtaken \/ roll # Idle)
    /\ UNCHANGED <<sells, world, roll, defences, interrupted, skipped>>

-----------------------------------------------------------------------------
(* The monitor task: check_signals, then apply_action.                     *)

\* The winning signal of a live put.  A delta breach rolls an OPEN leg down
\* and closes a DEFENDED one; a roll needs a replacement strike before it
\* writes anything, and a breached put is outside the range it is picked from.
Signal(p, action, target) ==
    /\ daemon = "up"
    /\ roll = Idle
    /\ p \in ShortPuts
    /\ action # "CLOSE_AND_WAIT" => Len(sells) < MaxSells
    /\ action = "ROLL_DOWN_AND_OUT" => GetTradeState = "OPEN" /\ target # p
    /\ action = "CLOSE_AND_WAIT" => target = p
    /\ roll' = [pc |-> "close", put |-> p, qty |-> Magnitude(Net(p)),
                target |-> target, action |-> action]
    /\ UNCHANGED <<paper_trades, sells, world, defences, history>>

\* No replacement strike, no quote or no broker: nothing was written.
GiveUp ==
    /\ roll.pc = "close"
    /\ roll' = Idle
    /\ UNCHANGED <<paper_trades, sells, world, defences, history>>

\* close_csp_leg: the close, skipped when today already has one.
RecordClose ==
    /\ roll.pc = "close"
    /\ IF Duplicate(paper_trades, RollClose)
         THEN /\ roll' = IF roll.action = "CLOSE_AND_WAIT" THEN Idle
                         ELSE [roll EXCEPT !.pc = "open"]
              /\ skipped' = TRUE
              /\ UNCHANGED paper_trades
         ELSE /\ paper_trades' = RecordTrade(paper_trades, RollClose)
              /\ roll' = [roll EXCEPT !.pc = "mark"]
              /\ UNCHANGED skipped
    /\ UNCHANGED <<sells, world, defences, interrupted, overtaken>>

\* mark_trade_closed.
MarkClosed ==
    /\ roll.pc = "mark"
    /\ paper_trades' = MarkTradeClosed(paper_trades, roll.put)
    /\ roll' = IF roll.action = "CLOSE_AND_WAIT" THEN Idle
               ELSE [roll EXCEPT !.pc = "open"]
    /\ UNCHANGED <<sells, world, defences, history>>

\* The replacement; nobody looks at whether record_trade inserted it.
RecordOpen ==
    /\ roll.pc = "open"
    /\ Len(sells) < MaxSells
    /\ IF Duplicate(paper_trades, RollOpen)
         THEN /\ skipped' = TRUE
              /\ UNCHANGED <<paper_trades, sells, defences>>
         ELSE /\ paper_trades' = RecordTrade(paper_trades, RollOpen)
              /\ sells' = Append(sells, <<roll.target, today>>)
              /\ defences' = IF roll.action = "ROLL_DOWN_AND_OUT"
                               THEN defences + 1 ELSE 0
              /\ UNCHANGED skipped
    /\ roll' = IF roll.action = "ROLL_DOWN_AND_OUT"
                 THEN [roll EXCEPT !.pc = "defend"] ELSE Idle
    /\ UNCHANGED <<world, interrupted, overtaken>>

\* The opening raised.  roll_down_and_out rolls the close back; a plain roll
\* only alerts the operator and stays flat.
OpenFails ==
    /\ roll.pc = "open"
    /\ roll' = IF roll.action = "ROLL_DOWN_AND_OUT"
                 THEN [roll EXCEPT !.pc = "rollback"] ELSE Idle
    /\ UNCHANGED <<paper_trades, sells, world, defences, history>>

\* delete_trade of the close; the mark is not undone.
Rollback ==
    /\ roll.pc = "rollback"
    /\ paper_trades' = DeleteTrade(paper_trades, RollClose)
    /\ roll' = [roll EXCEPT !.pc = "failed"]
    /\ UNCHANGED <<sells, world, defences, history>>

\* The failure is reported to the operator.
ReportFailure ==
    /\ roll.pc = "failed"
    /\ roll' = Idle
    /\ UNCHANGED <<paper_trades, sells, world, defences, history>>

\* Marking the put that was left instead of its replacement.
MarkDefendedOld ==
    /\ roll.pc = "defend"
    /\ paper_trades' = MarkTradeDefended(paper_trades, roll.put)
    /\ roll' = Idle
    /\ UNCHANGED <<sells, world, defences, history>>

\* mark_trade_defended of the replacement.
MarkDefended ==
    /\ roll.pc = "defend"
    /\ paper_trades' = MarkTradeDefended(paper_trades, roll.target)
    /\ roll' = Idle
    /\ UNCHANGED <<sells, world, defences, history>>

\* A failed mark that is taken for a failed roll.
WriteFailsRollsBack ==
    /\ roll.pc \in {"mark", "defend", "rollback"}
    /\ roll' = Idle
    /\ interrupted' = TRUE
    /\ paper_trades' = IF roll.pc = "defend"
                         THEN DeleteTrade(paper_trades, RollClose)
                         ELSE paper_trades
    /\ UNCHANGED <<sells, world, defences, overtaken, skipped>>

\* mark_trade_closed, mark_trade_defended or delete_trade raises: the monitor
\* logs it and the action ends where it is.
WriteFails ==
    /\ roll.pc \in {"mark", "defend", "rollback"}
    /\ roll' = Idle
    /\ interrupted' = TRUE
    /\ UNCHANGED <<paper_trades, sells, world, defences, overtaken, skipped>>

-----------------------------------------------------------------------------
(* The daemon's life.                                                      *)

StartDaemon ==
    /\ daemon = "down"
    /\ daemon' = "up"
    /\ UNCHANGED <<paper_trades, sells, today, roll, defences, history>>

\* Shutdown or crash, possibly in the middle of an action.
DaemonEnds ==
    /\ daemon = "up"
    /\ daemon' = "down"
    /\ roll' = Idle
    /\ interrupted' = (interrupted \/ roll # Idle)
    /\ UNCHANGED <<paper_trades, sells, today, defences, overtaken, skipped>>

NextDay ==
    /\ daemon = "down"
    /\ today < LastDay
    /\ today' = today + 1
    /\ UNCHANGED <<paper_trades, sells, daemon, roll, defences, history>>

Next ==
    \/ \E p \in Puts : Enter(p) \/ CloseByHand(p)
    \/ \E p, target \in Puts, action \in CspActions : Signal(p, action, target)
    \/ GiveUp \/ RecordClose \/ MarkClosed \/ RecordOpen \/ OpenFails
    \/ Rollback \/ ReportFailure \/ MarkDefended \/ WriteFails
    \/ StartDaemon \/ DaemonEnds \/ NextDay

Spec == Init /\ [][Next]_vars

-----------------------------------------------------------------------------
(* Correctness                                                             *)

\* Every variable holds values the program can hold, and every SELL row has
\* its one place in the order of ids.
CspTypeOK ==
    /\ paper_trades \subseteq
         [leg : Puts, date : Days, action : Actions, qty : Nat \ {0},
          state : States]
    /\ sells \in Seq(Puts \X Days)
    /\ Len(sells) = Cardinality({r \in paper_trades : r.action = "SELL"})
    /\ today \in Days
    /\ daemon \in {"up", "down"}
    /\ roll # Idle => IsRoll(roll)
    /\ defences \in Nat
    /\ {interrupted, overtaken, skipped} \subseteq BOOLEAN

\* Closes, rolls, rollbacks, entries by others and crashes between any two
\* writes never leave two lots short, unless another process wrote while an
\* action ran or a trade of an action was dropped as a duplicate.
OneLivePut ==
    ~overtaken /\ ~skipped =>
      /\ Cardinality(ShortPuts) <= 1
      /\ \A p \in Puts : Net(p) \in {-1, 0}

\* One defensive roll per entered put ("No second roll from DEFENDED state"):
\* the replacement is DEFENDED before the next signal is read, unless a crash
\* or a failed write came between the roll and the mark, or the roll lost a
\* trade to another process or to the duplicate guard.
NoSecondRoll == ~interrupted /\ ~overtaken /\ ~skipped => defences <= 1

\* The state the next delta breach is judged by belongs to the live put and
\* not to an earlier one: get_trade_state asks for the role, not the
\* instrument, and rows of a half-closed put may still be open.
TradeStateIsOwn ==
    ~overtaken /\ ~skipped =>
      \A p \in ShortPuts :
        LET own == {r \in paper_trades :
                      r.leg = p /\ r.action = "SELL" /\ r.state # "CLOSED"}
        IN  own # {} => GetTradeState \in {r.state : r \in own}

\* roll_down_and_out records "both trades atomically" and its close is deleted
\* to restore the pre-roll position: the put a failed roll leaves live has the
\* OPEN row it had before, by which the settlement and the scans find it.
RollbackRestores ==
    roll.pc = "failed" /\ ~overtaken /\ ~skipped =>
      HasOpenRow(paper_trades, roll.put)
==============================================================================
