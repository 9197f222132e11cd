----------------------------- MODULE PaperTrades -----------------------------
(***************************************************************************)
(* The paper_trades table of src/paper/store.py, as operators on a set of  *)
(* rows.  Every store method runs inside its own connection and commits or *)
(* rolls back as a whole (src/db.py), so one operator is one transaction.  *)
(*                                                                         *)
(* A row carries the leg it belongs to (strategy_name, leg_role and        *)
(* instrument_key taken together), its trade_date, its side, its quantity  *)
(* and its lifecycle state.  Prices and notes never guard a write and are  *)
(* left out.  The id column only orders rows of one date and is left out.  *)
(***************************************************************************)
EXTENDS Integers, FiniteSetsExt

Actions == {"BUY", "SELL"}

\* TradeState; RE_ENTRY_PENDING exists in the enum but no code path writes it.
States == {"OPEN", "DEFENDED", "CLOSED"}

\* The states mark_trade_closed, find_stale_flat_legs and settlement look at.
OpenStates == {"OPEN", "DEFENDED"}

Opposite(action) == IF action = "BUY" THEN "SELL" ELSE "BUY"

\* What a row adds to the running net quantity of its leg.
Signed(action, qty) == IF action = "BUY" THEN qty ELSE -qty

Magnitude(n) == IF n < 0 THEN -n ELSE n

\* What get_positions adds up, over the rows of one leg.
RowsOf(table, leg) == {r \in table : r.leg = leg}
NetQty(rows) == MapThenSumSet(LAMBDA r : Signed(r.action, r.qty), rows)

\* A new row is always inserted OPEN, opening and closing trades alike.
Trade(leg, date, action, qty) ==
    [leg |-> leg, date |-> date, action |-> action, qty |-> qty,
     state |-> "OPEN"]

\* The UNIQUE constraint of the table.
SameKey(r, t) == r.leg = t.leg /\ r.date = t.date /\ r.action = t.action

\* A rebuilt table without its UNIQUE constraint.
NeverDuplicate(table, t) == FALSE

Duplicate(table, t) == \E r \in table : SameKey(r, t)

\* INSERT ... ON CONFLICT DO NOTHING.
RecordTrade(table, t) == IF Duplicate(table, t) THEN table ELSE table \cup {t}

\* record_trades: the batch commits at once, and each trade of it that is a
\* duplicate is skipped on its own.
Inserted(table, trades) == {t \in trades : ~Duplicate(table, t)}
RecordTrades(table, trades) == table \cup Inserted(table, trades)

\* Every OPEN or DEFENDED row of the leg becomes CLOSED, whatever its date.
MarkTradeClosed(table, leg) ==
    {IF r.leg = leg /\ r.state \in OpenStates
       THEN [r EXCEPT !.state = "CLOSED"] ELSE r : r \in table}

MarkTradeDefended(table, leg) ==
    {IF r.leg = leg /\ r.state = "OPEN"
       THEN [r EXCEPT !.state = "DEFENDED"] ELSE r : r \in table}

\* DELETE by the unique key; the other rows of the leg keep their state.
DeleteTrade(table, t) == {r \in table : ~SameKey(r, t)}

\* Legs with a row the settlement and the stale scan can still see.
HasOpenRow(table, leg) ==
    \E r \in table : r.leg = leg /\ r.state \in OpenStates
==============================================================================
