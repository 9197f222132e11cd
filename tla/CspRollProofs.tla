---------------------------- MODULE CspRollProofs ----------------------------
(***************************************************************************)
(* The cash-secured put, for any puts, days and number of sales: one lot   *)
(* short at most, one defensive roll for each entered put, and a lifecycle *)
(* state that is the live put's own.  The net quantity of a leg is a sum   *)
(* over rows; what the writes do to it is proved in PaperTradesProofs.     *)
(***************************************************************************)
EXTENDS CspRoll, PaperTradesProofs

-----------------------------------------------------------------------------
(* The inductive invariant.                                                *)

Rolls ==
  {Idle} \cup [pc : Phases, put : Puts, qty : Nat \ {0}, target : Puts,
               action : CspActions]

\* Rows of the puts, none dated in the future.
Dated(T) == IsTable(T, Puts) /\ \A r \in T : r.date \in 1 .. today

CspTypes ==
  /\ Dated(paper_trades)
  /\ sells \in Seq(Puts \X Days)
  /\ \A i \in 1 .. Len(sells) : sells[i][2] <= today
  /\ today \in Days
  /\ daemon \in {"up", "down"}
  /\ roll \in Rolls
  /\ roll # Idle => daemon = "up"
  /\ roll.pc \in {"rollback", "failed", "defend"} =>
       roll.action = "ROLL_DOWN_AND_OUT"
  /\ defences \in Nat
  /\ interrupted \in BOOLEAN /\ overtaken \in BOOLEAN /\ skipped \in BOOLEAN

\* What the state of a leg is read from.
SellRows(T) == {r \in T : r.action = "SELL"}
IsSell(r, s) == r.leg = s[1] /\ r.date = s[2]

\* sells lists the SELL rows, each once.
SellsAreRows(T) ==
  /\ \A i \in 1 .. Len(sells) : \E r \in SellRows(T) : IsSell(r, sells[i])
  /\ \A r \in SellRows(T) : \E i \in 1 .. Len(sells) : IsSell(r, sells[i])
  /\ \A i, j \in 1 .. Len(sells) : sells[i] = sells[j] => i = j

InState(T, s, states) ==
  \E r \in SellRows(T) : IsSell(r, s) /\ r.state \in states

\* A mark reaches every row of its leg: an earlier sale of a put is not open
\* when a later one is closed.
ClosedInOrder(T) ==
  \A i, j \in 1 .. Len(sells) :
    i < j /\ sells[i][1] = sells[j][1] /\ InState(T, sells[i], OpenStates)
      => InState(T, sells[j], OpenStates)

Latest == sells[Len(sells)]

OneShort(T, p) == Held(T, p) = -1 /\ \A o \in Puts \ {p} : Held(T, o) = 0
Flat(T) == \A p \in Puts : Held(T, p) = 0

\* The close of the roll, which a rollback deletes.
CloseRecorded ==
  \E r \in paper_trades : SameKey(r, RollClose) /\ r.qty = 1

\* What is held in each phase of an action that nobody interferes with.
Position ==
  ~overtaken /\ ~skipped =>
    /\ roll.pc = "idle" => Flat(paper_trades) \/ \E p \in Puts : OneShort(paper_trades, p)
    /\ roll.pc = "close" => OneShort(paper_trades, roll.put) /\ roll.qty = 1
    /\ roll.pc \in {"mark", "open", "rollback"} =>
         Flat(paper_trades) /\ roll.qty = 1 /\ CloseRecorded
    /\ roll.pc = "defend" => OneShort(paper_trades, roll.target)
    /\ roll.pc = "failed" => OneShort(paper_trades, roll.put)

\* The put that is live, or that a rollback would make live again, is the one
\* sold last.
LatestIsLive ==
  ~overtaken /\ ~skipped =>
    /\ \A p \in ShortPuts : sells # <<>> /\ Latest[1] = p
    /\ roll.pc \in {"mark", "open", "rollback"} =>
         sells # <<>> /\ Latest[1] = roll.put

\* A put that was rolled defensively is DEFENDED when the next signal is read.
Defended ==
  ~interrupted /\ ~overtaken /\ ~skipped =>
    /\ defences <= 1
    /\ roll.pc \in Phases \ {"defend"} /\ roll.action = "ROLL_DOWN_AND_OUT" =>
         defences = 0
    /\ roll.pc = "defend" =>
         /\ sells # <<>> /\ Latest = <<roll.target, today>>
         /\ InState(paper_trades, Latest, {"OPEN"})
    /\ defences > 0 /\ ShortPuts # {} /\ roll.pc \in {"idle", "close"} =>
         sells # <<>> /\ InState(paper_trades, Latest, {"DEFENDED"})

CspInv ==
  /\ CspTypes
  /\ SellsAreRows(paper_trades) /\ ClosedInOrder(paper_trades)
  /\ Position /\ LatestIsLive /\ Defended

-----------------------------------------------------------------------------
(* What the writes do to the SELL rows.                                    *)

LEMMA NetIsHeld ==
  \A p : Net(p) = Held(paper_trades, p) /\ Net(p)' = Held(paper_trades', p)
BY DEF Net, Held

\* A BUY is no sale, and neither is its removal.
LEMMA BuysAreNotSales ==
  ASSUME NEW T, NEW t, t.action = "BUY"
  PROVE  /\ SellRows(RecordTrade(T, t)) = SellRows(T)
         /\ SellRows(DeleteTrade(T, t)) = SellRows(T)
BY DEF SellRows, RecordTrade, DeleteTrade, SameKey

LEMMA SaleIsSellRow ==
  ASSUME NEW T, NEW t, t.action = "SELL", ~Duplicate(T, t)
  PROVE  SellRows(RecordTrade(T, t)) = SellRows(T) \cup {t}
BY DEF SellRows, RecordTrade

\* mark_trade_closed closes every sale of its put and no other.
LEMMA MarkClosedSales ==
  ASSUME NEW T, NEW L, IsTable(T, L), NEW p
  PROVE  LET N == MarkTradeClosed(T, p)
         IN  /\ \A r \in SellRows(T) : \E n \in SellRows(N) :
                  /\ n.leg = r.leg /\ n.date = r.date
                  /\ r.leg # p => n.state = r.state
             /\ \A n \in SellRows(N) : \E r \in SellRows(T) :
                  /\ r.leg = n.leg /\ r.date = n.date
                  /\ n.state \in OpenStates => n.leg # p /\ n.state = r.state
                  /\ n.leg # p => n.state = r.state
<1> DEFINE N == MarkTradeClosed(T, p)
           f(r) == IF r.leg = p /\ r.state \in OpenStates
                     THEN [r EXCEPT !.state = "CLOSED"] ELSE r
<1>1. ASSUME NEW r \in T
      PROVE  /\ f(r).leg = r.leg /\ f(r).date = r.date /\ f(r).action = r.action
             /\ r.leg # p => f(r).state = r.state
             /\ f(r).state \in OpenStates => r.leg # p /\ f(r).state = r.state
  BY DEF IsTable, TradeRow, OpenStates
<1>2. N = {f(r) : r \in T}
  BY DEF MarkTradeClosed
<1> HIDE DEF f, N
<1>3. ASSUME NEW r \in SellRows(T)
      PROVE  \E n \in SellRows(N) : /\ n.leg = r.leg /\ n.date = r.date
                                    /\ r.leg # p => n.state = r.state
  BY <1>1, <1>2 DEF SellRows
<1>4. ASSUME NEW n \in SellRows(N)
      PROVE  \E r \in SellRows(T) :
               /\ r.leg = n.leg /\ r.date = n.date
               /\ n.state \in OpenStates => n.leg # p /\ n.state = r.state
               /\ n.leg # p => n.state = r.state
  <2>1. PICK r \in T : n = f(r)
    BY <1>2 DEF SellRows
  <2>2. r \in SellRows(T)
    BY <1>1, <2>1 DEF SellRows
  <2> QED BY <1>1, <2>1, <2>2
<1> QED BY <1>3, <1>4 DEF N

\* mark_trade_defended turns the OPEN sales of its put into DEFENDED ones.
LEMMA MarkDefendedSales ==
  ASSUME NEW T, NEW L, IsTable(T, L), NEW p
  PROVE  LET N == MarkTradeDefended(T, p)
         IN  /\ \A r \in SellRows(T) : \E n \in SellRows(N) :
                  /\ n.leg = r.leg /\ n.date = r.date
                  /\ r.state \in OpenStates => n.state \in OpenStates
                  /\ r.leg = p /\ r.state = "OPEN" => n.state = "DEFENDED"
             /\ \A n \in SellRows(N) : \E r \in SellRows(T) :
                  /\ r.leg = n.leg /\ r.date = n.date
                  /\ n.state \in OpenStates => r.state \in OpenStates
<1> DEFINE N == MarkTradeDefended(T, p)
           f(r) == IF r.leg = p /\ r.state = "OPEN"
                     THEN [r EXCEPT !.state = "DEFENDED"] ELSE r
<1>1. ASSUME NEW r \in T
      PROVE  /\ f(r).leg = r.leg /\ f(r).date = r.date /\ f(r).action = r.action
             /\ r.state \in OpenStates <=> f(r).state \in OpenStates
             /\ r.leg = p /\ r.state = "OPEN" => f(r).state = "DEFENDED"
  BY DEF IsTable, TradeRow, OpenStates
<1>2. N = {f(r) : r \in T}
  BY DEF MarkTradeDefended
<1> HIDE DEF f, N
<1>3. ASSUME NEW r \in SellRows(T)
      PROVE  \E n \in SellRows(N) :
               /\ n.leg = r.leg /\ n.date = r.date
               /\ r.state \in OpenStates => n.state \in OpenStates
               /\ r.leg = p /\ r.state = "OPEN" => n.state = "DEFENDED"
  BY <1>1, <1>2 DEF SellRows
<1>4. ASSUME NEW n \in SellRows(N)
      PROVE  \E r \in SellRows(T) :
               /\ r.leg = n.leg /\ r.date = n.date
               /\ n.state \in OpenStates => r.state \in OpenStates
  <2>1. PICK r \in T : n = f(r)
    BY <1>2 DEF SellRows
  <2>2. r \in SellRows(T)
    BY <1>1, <2>1 DEF SellRows
  <2> QED BY <1>1, <2>1, <2>2
<1> QED BY <1>3, <1>4 DEF N

-----------------------------------------------------------------------------
(* The order of the sales.                                                 *)

\* A write that keeps leg and date of the SELL rows keeps their order.
LEMMA SalesKept ==
  ASSUME SellsAreRows(paper_trades), sells' = sells,
         \A r \in SellRows(paper_trades) : \E n \in SellRows(paper_trades') :
           n.leg = r.leg /\ n.date = r.date,
         \A n \in SellRows(paper_trades') : \E r \in SellRows(paper_trades) :
           r.leg = n.leg /\ r.date = n.date
  PROVE  SellsAreRows(paper_trades)'
BY DEF SellsAreRows, IsSell

\* A write that leaves the SELL rows alone.
LEMMA SalesUntouched ==
  ASSUME SellsAreRows(paper_trades), ClosedInOrder(paper_trades),
         sells' = sells, SellRows(paper_trades') = SellRows(paper_trades)
  PROVE  /\ SellsAreRows(paper_trades)' /\ ClosedInOrder(paper_trades)'
         /\ \A s, q : InState(paper_trades', s, q) <=> InState(paper_trades, s, q)
<1>1. \A s, q : InState(paper_trades', s, q) <=> InState(paper_trades, s, q)
  BY DEF InState
<1>2. ClosedInOrder(paper_trades)'
  BY <1>1 DEF ClosedInOrder
<1> QED BY <1>1, <1>2 DEF SellsAreRows

LEMMA SalesMarkedClosed ==
  ASSUME SellsAreRows(paper_trades), ClosedInOrder(paper_trades),
         sells' = sells, NEW p, NEW T, IsTable(T, Puts),
         SellRows(T) = SellRows(paper_trades),
         paper_trades' = MarkTradeClosed(T, p)
  PROVE  SellsAreRows(paper_trades)' /\ ClosedInOrder(paper_trades)'
<1> DEFINE N == MarkTradeClosed(T, p)
<1>1. /\ \A r \in SellRows(paper_trades) : \E n \in SellRows(N) :
           n.leg = r.leg /\ n.date = r.date /\ (r.leg # p => n.state = r.state)
      /\ \A n \in SellRows(N) : \E r \in SellRows(paper_trades) :
           /\ r.leg = n.leg /\ r.date = n.date
           /\ n.state \in OpenStates => n.leg # p /\ n.state = r.state
  BY MarkClosedSales
<1> HIDE DEF N
<1>2. SellsAreRows(paper_trades)'
  BY <1>1, SalesKept DEF N
<1>3. \A s : InState(N, s, OpenStates)
               <=> InState(paper_trades, s, OpenStates) /\ s[1] # p
  BY <1>1 DEF InState, IsSell
<1>4. ClosedInOrder(N)
  BY <1>3 DEF ClosedInOrder
<1>5. ClosedInOrder(paper_trades)'
  BY <1>4 DEF ClosedInOrder, N
<1> QED BY <1>2, <1>5

LEMMA SalesMarkedDefended ==
  ASSUME CspTypes, SellsAreRows(paper_trades), ClosedInOrder(paper_trades),
         sells' = sells, NEW p, paper_trades' = MarkTradeDefended(paper_trades, p)
  PROVE  SellsAreRows(paper_trades)' /\ ClosedInOrder(paper_trades)'
<1> DEFINE N == MarkTradeDefended(paper_trades, p)
<1>1. IsTable(paper_trades, Puts)
  BY DEF CspTypes, Dated
<1>2. /\ \A r \in SellRows(paper_trades) : \E n \in SellRows(N) :
           /\ n.leg = r.leg /\ n.date = r.date
           /\ r.state \in OpenStates => n.state \in OpenStates
      /\ \A n \in SellRows(N) : \E r \in SellRows(paper_trades) :
           /\ r.leg = n.leg /\ r.date = n.date
           /\ n.state \in OpenStates => r.state \in OpenStates
  BY <1>1, MarkDefendedSales
<1> HIDE DEF N
<1>3. SellsAreRows(paper_trades)'
  BY <1>2, SalesKept DEF N
<1>4. \A s : InState(N, s, OpenStates) <=> InState(paper_trades, s, OpenStates)
  BY <1>2 DEF InState, IsSell
<1>5. ClosedInOrder(N)
  BY <1>4 DEF ClosedInOrder
<1>6. ClosedInOrder(paper_trades)'
  BY <1>5 DEF ClosedInOrder, N
<1> QED BY <1>3, <1>6

\* A put that is sold is the latest, and its row is OPEN.
LEMMA SaleAppended ==
  ASSUME CspTypes, SellsAreRows(paper_trades), ClosedInOrder(paper_trades),
         NEW p \in Puts, NEW q \in Nat \ {0},
         ~Duplicate(paper_trades, Open(p, q)),
         paper_trades' = RecordTrade(paper_trades, Open(p, q)),
         sells' = Append(sells, <<p, today>>)
  PROVE  /\ SellsAreRows(paper_trades)' /\ ClosedInOrder(paper_trades)'
         /\ sells' # <<>> /\ Latest' = <<p, today>>
         /\ InState(paper_trades', <<p, today>>, {"OPEN"})
<1> DEFINE t == Open(p, q)
           n == Len(sells)
<1>1. /\ t.leg = p /\ t.date = today /\ t.action = "SELL" /\ t.state = "OPEN"
  BY DEF Open, Trade
<1>2. SellRows(paper_trades') = SellRows(paper_trades) \cup {t}
  BY <1>1, SaleIsSellRow
<1>3. /\ n \in Nat /\ Len(sells') = n + 1 /\ sells'[n + 1] = <<p, today>>
      /\ \A i \in 1 .. n : sells'[i] = sells[i]
      /\ sells' # <<>>
  BY DEF CspTypes
<1>4. \A r \in SellRows(paper_trades) : ~IsSell(r, <<p, today>>)
  BY <1>1 DEF Duplicate, SameKey, SellRows, IsSell
<1>5. \A i \in 1 .. n : sells[i] # <<p, today>>
  BY <1>4 DEF SellsAreRows
<1>6. IsSell(t, <<p, today>>)
  BY <1>1 DEF IsSell
<1> HIDE DEF t
<1>7. SellsAreRows(paper_trades)'
  <2>1. ASSUME NEW i \in 1 .. Len(sells')
        PROVE  \E r \in SellRows(paper_trades') : IsSell(r, sells'[i])
    <3>1. CASE i \in 1 .. n
      BY <1>2, <1>3, <3>1 DEF SellsAreRows
    <3>2. CASE i = n + 1
      BY <1>2, <1>3, <1>6, <3>2
    <3> QED BY <1>3, <3>1, <3>2
  <2>2. ASSUME NEW r \in SellRows(paper_trades')
        PROVE  \E i \in 1 .. Len(sells') : IsSell(r, sells'[i])
    <3>1. CASE r \in SellRows(paper_trades)
      <4>1. PICK i \in 1 .. n : IsSell(r, sells[i])
        BY <3>1 DEF SellsAreRows
      <4> QED BY <1>3, <4>1
    <3>2. CASE r = t
      BY <1>3, <1>6, <3>2
    <3> QED BY <1>2, <3>1, <3>2
  <2>3. ASSUME NEW i \in 1 .. Len(sells'), NEW j \in 1 .. Len(sells'),
               sells'[i] = sells'[j]
        PROVE  i = j
    BY <1>3, <1>5, <2>3 DEF SellsAreRows
  <2> QED BY <2>1, <2>2, <2>3 DEF SellsAreRows
<1>8. /\ InState(paper_trades', <<p, today>>, {"OPEN"})
      /\ InState(paper_trades', <<p, today>>, OpenStates)
  BY <1>1, <1>2, <1>6 DEF InState, OpenStates, t
<1>9. \A i \in 1 .. n : InState(paper_trades', sells[i], OpenStates)
                          <=> InState(paper_trades, sells[i], OpenStates)
  <2> SUFFICES ASSUME NEW i \in 1 .. n
               PROVE  InState(paper_trades', sells[i], OpenStates)
                        <=> InState(paper_trades, sells[i], OpenStates)
    OBVIOUS
  <2>1. ~IsSell(t, sells[i])
    <3>1. sells[i] = <<sells[i][1], sells[i][2]>>
      BY DEF CspTypes
    <3> QED BY <1>1, <1>5, <3>1 DEF IsSell, t
  <2> QED BY <1>2, <2>1 DEF InState
<1>10. ClosedInOrder(paper_trades)'
  <2> SUFFICES ASSUME NEW i \in 1 .. n + 1, NEW j \in 1 .. n + 1, i < j,
                      sells'[i][1] = sells'[j][1],
                      InState(paper_trades', sells'[i], OpenStates)
               PROVE  InState(paper_trades', sells'[j], OpenStates)
    BY <1>3 DEF ClosedInOrder
  <2>1. CASE j = n + 1
    BY <1>3, <1>8, <2>1
  <2>2. CASE j \in 1 .. n
    <3>1. i \in 1 .. n
      BY <1>3, <2>2
    <3> QED BY <1>3, <1>9, <2>2, <3>1 DEF ClosedInOrder
  <2> QED BY <1>3, <2>1, <2>2
<1> QED BY <1>3, <1>7, <1>8, <1>10 DEF Latest

-----------------------------------------------------------------------------
(* Types.                                                                  *)

LEMMA WritesAreTyped ==
  ASSUME CspTypes
  PROVE  /\ \A t \in TradeRow(Puts) :
              t.date = today => Dated(RecordTrade(paper_trades, t))
         /\ \A p : /\ Dated(MarkTradeClosed(paper_trades, p))
                   /\ Dated(MarkTradeDefended(paper_trades, p))
         /\ \A t : Dated(DeleteTrade(paper_trades, t))
<1>1. /\ IsTable(paper_trades, Puts) /\ today \in Nat \ {0}
      /\ \A r \in paper_trades : r.date \in 1 .. today
  BY DEF CspTypes, Dated, Days
<1>2. ASSUME NEW t \in TradeRow(Puts), t.date = today
      PROVE  Dated(RecordTrade(paper_trades, t))
  <2>1. CASE Duplicate(paper_trades, t)
    BY <1>1, <2>1 DEF RecordTrade, Dated
  <2>2. CASE ~Duplicate(paper_trades, t)
    <3>1. IsTable(RecordTrade(paper_trades, t), Puts)
      BY <1>1, <2>2, RecordTradeTable
    <3>2. \A r \in RecordTrade(paper_trades, t) : r.date \in 1 .. today
      BY <1>1, <1>2, <2>2 DEF RecordTrade
    <3> QED BY <3>1, <3>2 DEF Dated
  <2> QED BY <2>1, <2>2
<1>3. ASSUME NEW p
      PROVE  /\ Dated(MarkTradeClosed(paper_trades, p))
             /\ Dated(MarkTradeDefended(paper_trades, p))
  <2>1. /\ IsTable(MarkTradeClosed(paper_trades, p), Puts)
        /\ IsTable(MarkTradeDefended(paper_trades, p), Puts)
    BY <1>1, MarkTradeClosedTable, MarkTradeDefendedTable
  <2>2. \A n \in MarkTradeClosed(paper_trades, p) : n.date \in 1 .. today
    BY <1>1 DEF MarkTradeClosed, IsTable, TradeRow
  <2>3. \A n \in MarkTradeDefended(paper_trades, p) : n.date \in 1 .. today
    BY <1>1 DEF MarkTradeDefended, IsTable, TradeRow
  <2> QED BY <2>1, <2>2, <2>3 DEF Dated
<1>4. ASSUME NEW t PROVE Dated(DeleteTrade(paper_trades, t))
  <2>1. IsTable(DeleteTrade(paper_trades, t), Puts)
    BY <1>1, DeleteTradeTable
  <2> QED BY <1>1, <2>1 DEF Dated, DeleteTrade
<1> QED BY <1>2, <1>3, <1>4

\* The trades an action or another process may record.
LEMMA TradesAreTyped ==
  ASSUME CspTypes
  PROVE  /\ \A p \in Puts, q \in Nat \ {0} :
              /\ Open(p, q) \in TradeRow(Puts) /\ Close(p, q) \in TradeRow(Puts)
              /\ Open(p, q).date = today /\ Close(p, q).date = today
              /\ Amount(Open(p, q)) = -q /\ Amount(Close(p, q)) = q
         /\ \A p \in ShortPuts :
              Net(p) \in Int /\ Net(p) < 0 /\ Magnitude(Net(p)) \in Nat \ {0}
         /\ \A p : Net(p) \in Int
<1>1. /\ IsTable(paper_trades, Puts) /\ today \in Int
  BY DEF CspTypes, Dated, Days
<1>2. \A p : Net(p) \in Int
  BY <1>1, HeldType, NetIsHeld
<1>3. \A p \in ShortPuts : Net(p) < 0
  BY DEF ShortPuts
<1>4. \A p \in Puts, q \in Nat \ {0} :
        /\ Open(p, q) \in TradeRow(Puts) /\ Close(p, q) \in TradeRow(Puts)
  BY <1>1, TradeIsRow DEF Open, Close, Actions
<1>5. \A p \in Puts, q \in Nat \ {0} :
        /\ Open(p, q).date = today /\ Close(p, q).date = today
        /\ Amount(Open(p, q)) = -q /\ Amount(Close(p, q)) = q
  BY DEF Open, Close, Trade, Amount, Signed
<1> QED BY <1>2, <1>3, <1>4, <1>5 DEF Magnitude

\* What is known while an action runs.
LEMMA Rolling ==
  ASSUME CspTypes, roll.pc \in Phases
  PROVE  /\ roll \in [pc : Phases, put : Puts, qty : Nat \ {0}, target : Puts,
                      action : CspActions]
         /\ roll # Idle /\ daemon = "up"
         /\ RollClose \in TradeRow(Puts) /\ RollOpen \in TradeRow(Puts)
         /\ RollClose.date = today /\ RollOpen.date = today
         /\ RollClose.action = "BUY" /\ RollOpen.action = "SELL"
<1>1. roll \in [pc : Phases, put : Puts, qty : Nat \ {0}, target : Puts,
                action : CspActions]
  BY DEF CspTypes, Rolls, Idle, Phases
<1>2. roll # Idle /\ daemon = "up"
  BY DEF CspTypes, Idle, Phases
<1> QED BY <1>1, <1>2, TradesAreTyped DEF RollClose, RollOpen, Open, Close, Trade

\* A sale is dated today and one more in the list.
LEMMA SalesAreTyped ==
  ASSUME CspTypes, NEW p \in Puts
  PROVE  LET n == Append(sells, <<p, today>>)
         IN  /\ n \in Seq(Puts \X Days)
             /\ \A i \in 1 .. Len(n) : n[i][2] <= today
<1>1. sells \in Seq(Puts \X Days) /\ today \in Days /\ Len(sells) \in Nat
  BY DEF CspTypes
<1>2. Append(sells, <<p, today>>) \in Seq(Puts \X Days)
  BY <1>1
<1>3. /\ Len(Append(sells, <<p, today>>)) = Len(sells) + 1
      /\ \A i \in 1 .. Len(sells) : Append(sells, <<p, today>>)[i] = sells[i]
      /\ Append(sells, <<p, today>>)[Len(sells) + 1] = <<p, today>>
  BY <1>1
<1>4. ASSUME NEW i \in 1 .. Len(sells) + 1
      PROVE  Append(sells, <<p, today>>)[i][2] <= today
  <2>1. CASE i = Len(sells) + 1
    BY <1>1, <1>3, <2>1 DEF Days
  <2>2. CASE i \in 1 .. Len(sells)
    BY <1>3, <2>2 DEF CspTypes
  <2> QED BY <1>1, <2>1, <2>2
<1> QED BY <1>2, <1>3, <1>4

LEMMA CspTypesStep ==
  ASSUME LastDay \in Nat \ {0}, CspTypes, [Next]_vars
  PROVE  CspTypes'
<1> USE DEF world, history
<1>1. ASSUME NEW p \in Puts, Enter(p) PROVE CspTypes'
  <2>1. Dated(RecordTrade(paper_trades, Open(p, 1)))
    BY TradesAreTyped, WritesAreTyped
  <2>2. Dated(paper_trades)'
    BY <1>1, <2>1 DEF Enter, Dated
  <2> QED BY <1>1, <2>2, SalesAreTyped DEF Enter, CspTypes
<1>2. ASSUME NEW p \in Puts, CloseByHand(p) PROVE CspTypes'
  <2> DEFINE t == Close(p, Magnitude(Net(p)))
             T == RecordTrade(paper_trades, t)
  <2>1. t \in TradeRow(Puts) /\ t.date = today /\ ~Duplicate(paper_trades, t)
    BY <1>2, TradesAreTyped DEF CloseByHand
  <2>2. Dated(T)
    BY <2>1, WritesAreTyped
  <2>3. \A r \in MarkTradeClosed(T, p) : r.date \in 1 .. today
    BY <2>2 DEF MarkTradeClosed, IsTable, TradeRow, Dated
  <2>4. IsTable(MarkTradeClosed(T, p), Puts)
    BY <2>2, MarkTradeClosedTable DEF Dated
  <2>5. Dated(paper_trades)'
    BY <1>2, <2>3, <2>4 DEF CloseByHand, Dated
  <2> QED BY <1>2, <2>5 DEF CloseByHand, CspTypes
<1>3. ASSUME NEW p \in Puts, NEW target \in Puts, NEW action \in CspActions,
             Signal(p, action, target)
      PROVE  CspTypes'
  <2>1. /\ roll' = [pc |-> "close", put |-> p, qty |-> Magnitude(Net(p)),
                    target |-> target, action |-> action]
        /\ Magnitude(Net(p)) \in Nat \ {0}
    BY <1>3, TradesAreTyped DEF Signal
  <2>2. roll' \in Rolls
    BY <2>1 DEF Rolls, Phases
  <2> QED BY <1>3, <2>1, <2>2 DEF Signal, CspTypes, Dated
<1>4. CASE GiveUp \/ ReportFailure
  BY <1>4 DEF GiveUp, ReportFailure, CspTypes, Dated, Rolls, Idle
<1>5. CASE OpenFails
  <2>1. roll.pc = "open" /\ roll.pc \in Phases
    BY <1>5 DEF OpenFails, Phases
  <2> QED BY <1>5, <2>1, Rolling DEF OpenFails, CspTypes, Dated, Rolls, Idle, Phases
<1>6. CASE RecordClose
  <2>1. roll.pc = "close" /\ roll.pc \in Phases
    BY <1>6 DEF RecordClose, Phases
  <2>2. Dated(RecordTrade(paper_trades, RollClose))
    BY <2>1, Rolling, WritesAreTyped
  <2>3. Dated(paper_trades)'
    BY <1>6, <2>2 DEF RecordClose, Dated, CspTypes
  <2>4. /\ roll' \in Rolls
        /\ roll' # Idle => roll'.pc \in {"open", "mark"}
        /\ skipped' \in BOOLEAN
    BY <1>6, <2>1, Rolling DEF RecordClose, CspTypes, Rolls, Phases
  <2>5. roll'.pc \notin {"rollback", "failed", "defend"}
    BY <2>4 DEF Idle
  <2> QED
    BY <1>6, <2>1, <2>3, <2>4, <2>5, Rolling DEF RecordClose, CspTypes
<1>7. CASE MarkClosed
  <2>1. roll.pc = "mark" /\ roll.pc \in Phases
    BY <1>7 DEF MarkClosed, Phases
  <2>2. Dated(paper_trades)'
    BY <1>7, WritesAreTyped DEF MarkClosed, Dated
  <2> QED
    BY <1>7, <2>1, <2>2, Rolling DEF MarkClosed, CspTypes, Rolls, Idle, Phases
<1>8. CASE RecordOpen
  <2>1. roll.pc = "open" /\ roll.pc \in Phases
    BY <1>8 DEF RecordOpen, Phases
  <2>2. Dated(RecordTrade(paper_trades, RollOpen))
    BY <2>1, Rolling, WritesAreTyped
  <2>3. Dated(paper_trades)'
    BY <1>8, <2>2 DEF RecordOpen, Dated, CspTypes
  <2>4. sells' \in Seq(Puts \X Days) /\ \A i \in 1 .. Len(sells') : sells'[i][2] <= today
    BY <1>8, <2>1, Rolling, SalesAreTyped DEF RecordOpen, CspTypes
  <2>5. roll' \in Rolls /\ (roll' # Idle => roll'.action = "ROLL_DOWN_AND_OUT")
    <3>1. [roll EXCEPT !.pc = "defend"] \in Rolls
      BY <2>1, Rolling DEF Rolls, Phases
    <3>2. roll' = Idle \/ (roll' = [roll EXCEPT !.pc = "defend"]
                            /\ roll.action = "ROLL_DOWN_AND_OUT")
      BY <1>8 DEF RecordOpen
    <3>3. Idle \in Rolls /\ [roll EXCEPT !.pc = "defend"].action = roll.action
      BY <2>1, Rolling DEF Rolls
    <3> QED BY <3>1, <3>2, <3>3
  <2>6. defences' \in Nat /\ skipped' \in BOOLEAN
    <3>1. /\ defences' = defences \/ defences' = defences + 1 \/ defences' = 0
          /\ skipped' = TRUE \/ skipped' = skipped
      BY <1>8 DEF RecordOpen
    <3>2. defences' \in Nat
      BY <3>1 DEF CspTypes
    <3>3. skipped' \in BOOLEAN
      BY <3>1, Zenon DEF CspTypes
    <3> QED BY <3>2, <3>3
  <2>7. roll'.pc \in {"rollback", "failed", "defend"} => roll' # Idle
    BY DEF Idle
  <2> QED
    BY <1>8, <2>1, <2>3, <2>4, <2>5, <2>6, <2>7, Rolling DEF RecordOpen, CspTypes
<1>9. CASE Rollback
  <2>1. roll.pc = "rollback" /\ roll.pc \in Phases
    BY <1>9 DEF Rollback, Phases
  <2>2. Dated(paper_trades)'
    BY <1>9, WritesAreTyped DEF Rollback, Dated
  <2> QED
    BY <1>9, <2>1, <2>2, Rolling DEF Rollback, CspTypes, Rolls, Idle, Phases
<1>10. CASE MarkDefended
  <2>1. Dated(paper_trades)'
    BY <1>10, WritesAreTyped DEF MarkDefended, Dated
  <2> QED BY <1>10, <2>1 DEF MarkDefended, CspTypes, Rolls, Idle
<1>11. CASE WriteFails
  BY <1>11 DEF WriteFails, CspTypes, Dated, Rolls, Idle
<1>12. CASE StartDaemon
  BY <1>12 DEF StartDaemon, CspTypes, Dated
<1>13. CASE DaemonEnds
  BY <1>13 DEF DaemonEnds, CspTypes, Dated, Rolls, Idle
<1>14. CASE NextDay
  <2>1. today \in Nat /\ today' = today + 1 /\ today' \in Days
    BY <1>14 DEF NextDay, CspTypes, Days
  <2>2. Dated(paper_trades)'
    BY <1>14, <2>1 DEF NextDay, CspTypes, Dated
  <2>3. \A i \in 1 .. Len(sells) : sells[i][2] \in Nat
    BY DEF CspTypes, Days
  <2>4. \A i \in 1 .. Len(sells') : sells'[i][2] <= today'
    BY <1>14, <2>1, <2>3 DEF NextDay, CspTypes
  <2> QED BY <1>14, <2>1, <2>2, <2>4 DEF NextDay, CspTypes
<1>15. CASE UNCHANGED vars
  BY <1>15 DEF vars, CspTypes, Dated
<1> QED
  BY <1>1, <1>2, <1>3, <1>4, <1>5, <1>6, <1>7, <1>8, <1>9, <1>10, <1>11,
     <1>12, <1>13, <1>14, <1>15 DEF Next

\* Every step keeps the list of sales true and the order of their closes.
LEMMA SalesStep ==
  ASSUME CspTypes, SellsAreRows(paper_trades), ClosedInOrder(paper_trades),
         [Next]_vars
  PROVE  SellsAreRows(paper_trades)' /\ ClosedInOrder(paper_trades)'
<1>1. ASSUME NEW p \in Puts, Enter(p)
      PROVE  SellsAreRows(paper_trades)' /\ ClosedInOrder(paper_trades)'
  BY <1>1, SaleAppended DEF Enter
<1>2. ASSUME NEW p \in Puts, CloseByHand(p)
      PROVE  SellsAreRows(paper_trades)' /\ ClosedInOrder(paper_trades)'
  <2> DEFINE t == Close(p, Magnitude(Net(p)))
             T == RecordTrade(paper_trades, t)
  <2>1. t \in TradeRow(Puts) /\ t.date = today /\ t.action = "BUY"
    BY <1>2, TradesAreTyped DEF CloseByHand, Close, Trade
  <2>2. IsTable(T, Puts) /\ SellRows(T) = SellRows(paper_trades)
    BY <2>1, WritesAreTyped, BuysAreNotSales DEF Dated
  <2>3. paper_trades' = MarkTradeClosed(T, p) /\ sells' = sells
    BY <1>2 DEF CloseByHand
  <2> HIDE DEF t, T
  <2> QED BY <2>2, <2>3, SalesMarkedClosed
<1>3. CASE RecordClose
  <2>1. roll.pc \in Phases
    BY <1>3 DEF RecordClose, Phases
  <2>2. SellRows(paper_trades') = SellRows(paper_trades) /\ sells' = sells
    BY <1>3, <2>1, Rolling, BuysAreNotSales DEF RecordClose
  <2> QED BY <2>2, SalesUntouched
<1>4. CASE MarkClosed
  <2>1. IsTable(paper_trades, Puts) /\ sells' = sells
    BY <1>4 DEF MarkClosed, CspTypes, Dated
  <2>2. paper_trades' = MarkTradeClosed(paper_trades, roll.put)
    BY <1>4 DEF MarkClosed
  <2> QED BY <2>1, <2>2, SalesMarkedClosed
<1>5. CASE RecordOpen
  <2>1. roll.pc \in Phases
    BY <1>5 DEF RecordOpen, Phases
  <2>2. CASE Duplicate(paper_trades, RollOpen)
    <3>1. UNCHANGED <<paper_trades, sells>>
      BY <1>5, <2>2 DEF RecordOpen
    <3> QED BY <3>1, SalesUntouched
  <2>3. CASE ~Duplicate(paper_trades, RollOpen)
    <3>1. /\ paper_trades' = RecordTrade(paper_trades, Open(roll.target, roll.qty))
          /\ sells' = Append(sells, <<roll.target, today>>)
      BY <1>5, <2>3 DEF RecordOpen, RollOpen
    <3>2. roll.target \in Puts /\ roll.qty \in Nat \ {0}
      BY <2>1, Rolling
    <3> QED BY <2>3, <3>1, <3>2, SaleAppended DEF RollOpen
  <2> QED BY <2>2, <2>3
<1>6. CASE Rollback
  <2>1. roll.pc \in Phases
    BY <1>6 DEF Rollback, Phases
  <2>2. SellRows(paper_trades') = SellRows(paper_trades) /\ sells' = sells
    BY <1>6, <2>1, Rolling, BuysAreNotSales DEF Rollback
  <2> QED BY <2>2, SalesUntouched
<1>7. CASE MarkDefended
  <2>1. /\ paper_trades' = MarkTradeDefended(paper_trades, roll.target)
        /\ sells' = sells
    BY <1>7 DEF MarkDefended
  <2> QED BY <2>1, SalesMarkedDefended
<1>8. ASSUME NEW p \in Puts, NEW target \in Puts, NEW action \in CspActions,
             Signal(p, action, target)
      PROVE  UNCHANGED <<paper_trades, sells>>
  BY <1>8 DEF Signal
<1>9. CASE \/ GiveUp \/ OpenFails \/ ReportFailure \/ WriteFails \/ StartDaemon
           \/ DaemonEnds \/ NextDay \/ UNCHANGED vars
  <2>1. UNCHANGED <<paper_trades, sells>>
    BY <1>9 DEF GiveUp, OpenFails, ReportFailure, WriteFails, StartDaemon,
                DaemonEnds, NextDay, vars
  <2> QED BY <2>1, SalesUntouched
<1> QED
  BY <1>1, <1>2, <1>3, <1>4, <1>5, <1>6, <1>7, <1>8, <1>9, SalesUntouched
     DEF Next

-----------------------------------------------------------------------------
(* What is held.                                                           *)

\* A trade that is recorded moves its put only.
LEMMA RecordMoves ==
  ASSUME CspTypes, NEW t \in TradeRow(Puts), ~Duplicate(paper_trades, t),
         paper_trades' = RecordTrade(paper_trades, t)
  PROVE  \A p : Held(paper_trades', p) =
                  Held(paper_trades, p) + IF t.leg = p THEN Amount(t) ELSE 0
BY RecordTradeTable DEF CspTypes, Dated

LEMMA MarksMoveNothing ==
  ASSUME CspTypes, NEW leg,
         \/ paper_trades' = MarkTradeClosed(paper_trades, leg)
         \/ paper_trades' = MarkTradeDefended(paper_trades, leg)
  PROVE  \A p : Held(paper_trades', p) = Held(paper_trades, p)
BY MarkTradeClosedTable, MarkTradeDefendedTable DEF CspTypes, Dated

LEMMA HandMoves ==
  ASSUME CspTypes, NEW p \in Puts, CloseByHand(p)
  PROVE  /\ Held(paper_trades', p) = 0
         /\ \A o : o # p => Held(paper_trades', o) = Held(paper_trades, o)
<1> DEFINE t == Close(p, Magnitude(Net(p)))
           T == RecordTrade(paper_trades, t)
<1>1. /\ t \in TradeRow(Puts) /\ ~Duplicate(paper_trades, t) /\ t.leg = p
      /\ Amount(t) = Magnitude(Net(p)) /\ Net(p) \in Int /\ Net(p) < 0
      /\ \A o : Net(o) \in Int
  BY TradesAreTyped DEF CloseByHand, Close, Trade
<1>2. /\ IsTable(T, Puts)
      /\ \A o : Held(T, o) = Held(paper_trades, o) + IF t.leg = o THEN Amount(t) ELSE 0
  BY <1>1, RecordTradeTable DEF CspTypes, Dated
<1>3. paper_trades' = MarkTradeClosed(T, p)
  BY DEF CloseByHand
<1> HIDE DEF t, T
<1>4. \A o : Held(paper_trades', o) =
               Held(paper_trades, o) + IF p = o THEN Amount(t) ELSE 0
  BY <1>1, <1>2, <1>3, MarkTradeClosedTable
<1> QED BY <1>1, <1>4, NetIsHeld DEF Magnitude

\* What is held depends on the quantities only.
LEMMA SamePosition ==
  ASSUME \A p \in Puts : Held(paper_trades', p) = Held(paper_trades, p)
  PROVE  /\ Flat(paper_trades') <=> Flat(paper_trades)
         /\ \A p \in Puts : OneShort(paper_trades', p) <=> OneShort(paper_trades, p)
         /\ ShortPuts' = ShortPuts
<1>1. ShortPuts' = {p \in Puts : Held(paper_trades', p) < 0}
  BY NetIsHeld DEF ShortPuts, Net, Held
<1>2. ShortPuts = {p \in Puts : Held(paper_trades, p) < 0}
  BY NetIsHeld DEF ShortPuts
<1> QED BY <1>1, <1>2 DEF Flat, OneShort

\* A step from one phase of an action to another.
LEMMA RollAdvances ==
  ASSUME CspTypes, roll.pc \in Phases, NEW phase \in Phases,
         roll' = [roll EXCEPT !.pc = phase], today' = today
  PROVE  /\ roll'.pc = phase /\ roll'.put = roll.put /\ roll'.qty = roll.qty
         /\ roll'.target = roll.target /\ roll'.action = roll.action
         /\ RollClose' = RollClose
<1>1. roll \in [pc : Phases, put : Puts, qty : Nat \ {0}, target : Puts,
                action : CspActions]
  BY Rolling
<1>2. /\ roll'.pc = phase /\ roll'.put = roll.put /\ roll'.qty = roll.qty
      /\ roll'.target = roll.target /\ roll'.action = roll.action
  BY <1>1
<1> QED BY <1>2 DEF RollClose, Close

LEMMA IdlePhase ==
  /\ Idle.pc = "idle" /\ "idle" \notin Phases
  /\ CspTypes => roll = Idle \/ roll.pc \in Phases
BY DEF Idle, Phases, CspTypes, Rolls

\* The close stays on record when its put is marked.
LEMMA CloseStays ==
  ASSUME CspTypes, CloseRecorded, RollClose' = RollClose, NEW p,
         paper_trades' = MarkTradeClosed(paper_trades, p)
  PROVE  CloseRecorded'
<1>1. PICK r \in paper_trades : SameKey(r, RollClose) /\ r.qty = 1
  BY DEF CloseRecorded
<1> DEFINE n == IF r.leg = p /\ r.state \in OpenStates
                  THEN [r EXCEPT !.state = "CLOSED"] ELSE r
<1>2. n \in paper_trades'
  BY DEF MarkTradeClosed
<1>3. SameKey(n, RollClose) /\ n.qty = 1
  BY <1>1 DEF SameKey, CspTypes, Dated, IsTable, TradeRow
<1> HIDE DEF n
<1> QED BY <1>2, <1>3 DEF CloseRecorded

\* The put a signal or an operator closes is all there is.
LEMMA ShortIsOne ==
  ASSUME CspTypes, Position, ~overtaken, ~skipped, roll = Idle,
         NEW p \in ShortPuts
  PROVE  p \in Puts /\ OneShort(paper_trades, p) /\ Magnitude(Net(p)) = 1
<1>1. p \in Puts /\ Held(paper_trades, p) < 0
  BY NetIsHeld DEF ShortPuts
<1>2. Flat(paper_trades) \/ \E o \in Puts : OneShort(paper_trades, o)
  BY IdlePhase DEF Position
<1>3. OneShort(paper_trades, p)
  BY <1>1, <1>2 DEF Flat, OneShort
<1> QED BY <1>1, <1>3, NetIsHeld DEF OneShort, Magnitude

\* An entry, and the opening of a roll, leave one put short.
LEMMA EnterOpens ==
  ASSUME CspTypes, Position, NEW p \in Puts, Enter(p), ~overtaken', ~skipped'
  PROVE  OneShort(paper_trades', p)
<1>1. roll = Idle /\ ~overtaken /\ ~skipped /\ ShortPuts = {}
  BY DEF Enter
<1>2. Flat(paper_trades)
  BY <1>1, IdlePhase, NetIsHeld DEF Position, OneShort, ShortPuts
<1>3. /\ Open(p, 1) \in TradeRow(Puts) /\ Amount(Open(p, 1)) = -1
      /\ Open(p, 1).leg = p
  BY TradesAreTyped DEF Open, Trade
<1>4. \A o : Held(paper_trades', o) =
        Held(paper_trades, o) + IF Open(p, 1).leg = o THEN Amount(Open(p, 1)) ELSE 0
  BY <1>3, RecordMoves DEF Enter
<1> QED BY <1>2, <1>3, <1>4 DEF Flat, OneShort

LEMMA RollOpens ==
  ASSUME CspTypes, Position, RecordOpen, ~overtaken', ~skipped'
  PROVE  OneShort(paper_trades', roll.target)
<1>1. roll.pc = "open" /\ roll.pc \in Phases /\ ~overtaken
  BY DEF RecordOpen, Phases
<1>2. /\ ~Duplicate(paper_trades, RollOpen) /\ ~skipped
      /\ paper_trades' = RecordTrade(paper_trades, RollOpen)
  BY DEF RecordOpen
<1>3. Flat(paper_trades) /\ roll.qty = 1 /\ roll.target \in Puts
  BY <1>1, <1>2, Rolling DEF Position
<1>4. /\ RollOpen \in TradeRow(Puts) /\ RollOpen.leg = roll.target
      /\ Amount(RollOpen) = -1
  BY <1>1, <1>3, Rolling, TradesAreTyped DEF RollOpen, Open, Trade
<1>5. \A p : Held(paper_trades', p) =
        Held(paper_trades, p) + IF roll.target = p THEN -1 ELSE 0
  BY <1>2, <1>4, RecordMoves
<1> QED BY <1>3, <1>5 DEF Flat, OneShort

\* Every step keeps what is held in each phase.
LEMMA PositionStep ==
  ASSUME LastDay \in Nat \ {0}, CspTypes, Position, [Next]_vars
  PROVE  Position'
<1> USE DEF world, history
<1> SUFFICES ASSUME ~overtaken', ~skipped'
             PROVE  Position'
  BY DEF Position
<1>0. \A p : Held(paper_trades, p) \in Int
  BY TradesAreTyped, NetIsHeld
<1>1. ASSUME NEW p \in Puts, Enter(p) PROVE Position'
  <2>1. roll = Idle /\ roll' = Idle /\ ~overtaken /\ ~skipped /\ ShortPuts = {}
    BY <1>1 DEF Enter
  <2>2. OneShort(paper_trades', p)
    BY <1>1, EnterOpens
  <2> QED BY <2>1, <2>2, IdlePhase DEF Position, Phases
<1>2. ASSUME NEW p \in Puts, CloseByHand(p) PROVE Position'
  <2>1. roll = Idle /\ roll' = Idle /\ ~overtaken /\ ~skipped /\ p \in ShortPuts
    BY <1>2 DEF CloseByHand
  <2>2. OneShort(paper_trades, p)
    BY <2>1, ShortIsOne
  <2>3. Flat(paper_trades')
    BY <1>2, <2>2, HandMoves DEF Flat, OneShort
  <2> QED BY <2>1, <2>3, IdlePhase DEF Position, Phases
<1>3. ASSUME NEW p \in Puts, NEW target \in Puts, NEW action \in CspActions,
             Signal(p, action, target)
      PROVE  Position'
  <2>1. /\ roll = Idle /\ ~overtaken /\ ~skipped /\ p \in ShortPuts
        /\ roll' = [pc |-> "close", put |-> p, qty |-> Magnitude(Net(p)),
                    target |-> target, action |-> action]
        /\ paper_trades' = paper_trades
    BY <1>3 DEF Signal
  <2>2. OneShort(paper_trades', p) /\ Magnitude(Net(p)) = 1
    BY <2>1, ShortIsOne
  <2>3. roll'.pc = "close" /\ roll'.put = p /\ roll'.qty = 1
    BY <2>1, <2>2
  <2> QED BY <2>2, <2>3 DEF Position
<1>4. CASE GiveUp \/ ReportFailure
  <2>1. /\ roll.pc \in {"close", "failed"} /\ roll' = Idle
        /\ ~overtaken /\ ~skipped /\ paper_trades' = paper_trades
    BY <1>4 DEF GiveUp, ReportFailure
  <2>2. OneShort(paper_trades', roll.put) /\ roll.put \in Puts
    BY <2>1, Rolling DEF Position, Phases
  <2> QED BY <2>1, <2>2, IdlePhase DEF Position, Phases
<1>5. CASE RecordClose
  <2>1. roll.pc = "close" /\ roll.pc \in Phases /\ today' = today /\ ~overtaken
    BY <1>5 DEF RecordClose, Phases
  <2>2. /\ ~Duplicate(paper_trades, RollClose) /\ ~skipped
        /\ paper_trades' = RecordTrade(paper_trades, RollClose)
        /\ roll' = [roll EXCEPT !.pc = "mark"]
    BY <1>5 DEF RecordClose
  <2>3. /\ roll'.pc = "mark" /\ roll'.qty = roll.qty /\ RollClose' = RollClose
    BY <2>1, <2>2, RollAdvances DEF Phases
  <2>4. OneShort(paper_trades, roll.put) /\ roll.qty = 1 /\ roll.put \in Puts
    BY <2>1, <2>2, Rolling DEF Position
  <2>5. /\ RollClose \in TradeRow(Puts) /\ RollClose.leg = roll.put
        /\ Amount(RollClose) = 1 /\ RollClose.qty = 1
    BY <2>1, <2>4, Rolling, TradesAreTyped DEF RollClose, Close, Trade
  <2>6. Flat(paper_trades')
    <3>1. \A p : Held(paper_trades', p) =
            Held(paper_trades, p) + IF roll.put = p THEN 1 ELSE 0
      BY <2>2, <2>5, RecordMoves
    <3> QED BY <2>4, <3>1 DEF Flat, OneShort
  <2>7. CloseRecorded'
    BY <2>2, <2>3, <2>5 DEF CloseRecorded, RecordTrade, SameKey
  <2> QED BY <2>3, <2>4, <2>6, <2>7, IdlePhase DEF Position
<1>6. CASE MarkClosed
  <2>1. /\ roll.pc = "mark" /\ roll.pc \in Phases /\ today' = today
        /\ ~overtaken /\ ~skipped
        /\ paper_trades' = MarkTradeClosed(paper_trades, roll.put)
    BY <1>6 DEF MarkClosed, Phases
  <2>2. Flat(paper_trades) /\ roll.qty = 1 /\ CloseRecorded
    BY <2>1 DEF Position
  <2>3. Flat(paper_trades')
    BY <2>1, <2>2, MarksMoveNothing, SamePosition
  <2>4. CASE roll' = Idle
    BY <2>3, <2>4, IdlePhase DEF Position, Phases
  <2>5. CASE roll' = [roll EXCEPT !.pc = "open"]
    <3>1. /\ roll'.pc = "open" /\ roll'.qty = roll.qty /\ RollClose' = RollClose
      BY <2>1, <2>5, RollAdvances DEF Phases
    <3>2. CloseRecorded'
      BY <2>1, <2>2, <3>1, CloseStays
    <3> QED BY <2>2, <2>3, <3>1, <3>2 DEF Position
  <2> QED BY <1>6, <2>4, <2>5 DEF MarkClosed
<1>7. CASE RecordOpen
  <2>1. roll.pc = "open" /\ roll.pc \in Phases /\ today' = today /\ ~overtaken
    BY <1>7 DEF RecordOpen, Phases
  <2>2. /\ ~Duplicate(paper_trades, RollOpen) /\ ~skipped
        /\ paper_trades' = RecordTrade(paper_trades, RollOpen)
        /\ roll' = [roll EXCEPT !.pc = "defend"] \/ roll' = Idle
    BY <1>7 DEF RecordOpen
  <2>3. OneShort(paper_trades', roll.target) /\ roll.target \in Puts
    BY <1>7, <2>1, <2>2, RollOpens, Rolling
  <2>4. CASE roll' = Idle
    BY <2>3, <2>4, IdlePhase DEF Position, Phases
  <2>5. CASE roll' = [roll EXCEPT !.pc = "defend"]
    <3>1. roll'.pc = "defend" /\ roll'.target = roll.target
      BY <2>1, <2>5, RollAdvances DEF Phases
    <3> QED BY <2>3, <3>1 DEF Position
  <2> QED BY <2>2, <2>4, <2>5
<1>8. CASE OpenFails
  <2>1. /\ roll.pc = "open" /\ roll.pc \in Phases /\ today' = today
        /\ ~overtaken /\ ~skipped /\ paper_trades' = paper_trades
    BY <1>8 DEF OpenFails, Phases
  <2>2. Flat(paper_trades') /\ roll.qty = 1 /\ CloseRecorded
    BY <2>1 DEF Position
  <2>3. CASE roll' = Idle
    BY <2>2, <2>3, IdlePhase DEF Position, Phases
  <2>4. CASE roll' = [roll EXCEPT !.pc = "rollback"]
    <3>1. /\ roll'.pc = "rollback" /\ roll'.qty = roll.qty
          /\ RollClose' = RollClose
      BY <2>1, <2>4, RollAdvances DEF Phases
    <3> QED BY <2>1, <2>2, <3>1 DEF Position, CloseRecorded
  <2> QED BY <1>8, <2>3, <2>4 DEF OpenFails
<1>9. CASE Rollback
  <2>1. /\ roll.pc = "rollback" /\ roll.pc \in Phases /\ today' = today
        /\ ~overtaken /\ ~skipped /\ roll' = [roll EXCEPT !.pc = "failed"]
        /\ paper_trades' = DeleteTrade(paper_trades, RollClose)
    BY <1>9 DEF Rollback, Phases
  <2>2. roll'.pc = "failed" /\ roll'.put = roll.put
    BY <2>1, RollAdvances DEF Phases
  <2>3. Flat(paper_trades) /\ roll.put \in Puts
    BY <2>1, Rolling DEF Position
  <2>4. PICK r \in paper_trades : SameKey(r, RollClose) /\ r.qty = 1
    BY <2>1 DEF Position, CloseRecorded
  <2>5. r.leg = roll.put /\ Amount(r) = 1
    BY <2>4 DEF SameKey, RollClose, Close, Trade, Amount, Signed
  <2>6. \A p : Held(paper_trades', p) =
          Held(paper_trades, p) - IF r.leg = p THEN Amount(r) ELSE 0
    BY <2>1, <2>4, DeleteTradeTable DEF CspTypes, Dated
  <2>7. OneShort(paper_trades', roll.put)
    BY <2>3, <2>5, <2>6 DEF Flat, OneShort
  <2> QED BY <2>2, <2>7 DEF Position
<1>10. CASE MarkDefended
  <2>1. /\ roll.pc = "defend" /\ roll.pc \in Phases /\ roll' = Idle
        /\ ~overtaken /\ ~skipped
        /\ paper_trades' = MarkTradeDefended(paper_trades, roll.target)
    BY <1>10 DEF MarkDefended, Phases
  <2>2. OneShort(paper_trades, roll.target) /\ roll.target \in Puts
    BY <2>1, Rolling DEF Position
  <2>3. OneShort(paper_trades', roll.target)
    BY <2>1, <2>2, MarksMoveNothing, SamePosition
  <2> QED BY <2>1, <2>2, <2>3, IdlePhase DEF Position, Phases
<1>11. CASE WriteFails \/ DaemonEnds
  <2>1. /\ roll' = Idle /\ paper_trades' = paper_trades
        /\ ~overtaken /\ ~skipped
    BY <1>11 DEF WriteFails, DaemonEnds
  <2>2. Flat(paper_trades) \/ \E p \in Puts : OneShort(paper_trades, p)
    <3>1. CASE roll = Idle
      BY <2>1, <3>1, IdlePhase DEF Position
    <3>2. CASE roll.pc \in Phases
      BY <2>1, <3>2, Rolling DEF Position, Phases
    <3> QED BY <3>1, <3>2, IdlePhase
  <2> QED BY <2>1, <2>2, IdlePhase DEF Position, Phases
<1>12. CASE StartDaemon
  BY <1>12 DEF StartDaemon, Position, CloseRecorded, RollClose, Close
<1>13. CASE NextDay
  <2>1. /\ roll' = roll /\ paper_trades' = paper_trades /\ roll = Idle
        /\ ~overtaken /\ ~skipped
    BY <1>13 DEF NextDay, CspTypes
  <2> QED BY <2>1, IdlePhase DEF Position, Phases
<1>14. CASE UNCHANGED vars
  BY <1>14 DEF vars, Position, CloseRecorded, RollClose, Close
<1> QED
  BY <1>1, <1>2, <1>3, <1>4, <1>5, <1>6, <1>7, <1>8, <1>9, <1>10, <1>11,
     <1>12, <1>13, <1>14 DEF Next

-----------------------------------------------------------------------------
(* The put that was sold last.                                             *)

LEMMA ShortsOf ==
  /\ Flat(paper_trades) => ShortPuts = {}
  /\ \A p \in Puts : OneShort(paper_trades, p) => ShortPuts = {p}
BY NetIsHeld DEF Flat, OneShort, ShortPuts

LEMMA ShortsOfNext ==
  /\ Flat(paper_trades') => ShortPuts' = {}
  /\ \A p \in Puts : OneShort(paper_trades', p) => ShortPuts' = {p}
<1>1. ShortPuts' = {p \in Puts : Held(paper_trades', p) < 0}
  BY DEF ShortPuts, Net, Held
<1> QED BY <1>1 DEF Flat, OneShort

\* Nothing that matters to the latest sale changes.
LEMMA LatestKept ==
  ASSUME LatestIsLive, UNCHANGED <<sells, overtaken, skipped>>,
         ShortPuts' = ShortPuts,
         roll'.pc \in {"mark", "open", "rollback"} =>
           roll.pc \in {"mark", "open", "rollback"} /\ roll'.put = roll.put
  PROVE  LatestIsLive'
BY DEF LatestIsLive, Latest

\* Every step keeps the live put the one sold last.
LEMMA LatestStep ==
  ASSUME LastDay \in Nat \ {0}, CspTypes, SellsAreRows(paper_trades),
         ClosedInOrder(paper_trades), Position, LatestIsLive, [Next]_vars
  PROVE  LatestIsLive'
<1> USE DEF world, history
<1> SUFFICES ASSUME ~overtaken', ~skipped'
             PROVE  LatestIsLive'
  BY DEF LatestIsLive
<1>0. Position'
  BY PositionStep
<1>1. ASSUME NEW p \in Puts, Enter(p) PROVE LatestIsLive'
  <2>1. sells' # <<>> /\ Latest' = <<p, today>>
    BY <1>1, SaleAppended DEF Enter
  <2>2. ShortPuts' = {p}
    BY <1>1, EnterOpens, ShortsOfNext
  <2>3. roll' = Idle
    BY <1>1 DEF Enter
  <2> QED BY <2>1, <2>2, <2>3, IdlePhase DEF LatestIsLive
<1>2. ASSUME NEW p \in Puts, CloseByHand(p) PROVE LatestIsLive'
  <2>1. /\ roll = Idle /\ roll' = Idle /\ ~overtaken /\ ~skipped
        /\ p \in ShortPuts
    BY <1>2 DEF CloseByHand
  <2>2. OneShort(paper_trades, p)
    BY <2>1, ShortIsOne
  <2>3. Flat(paper_trades')
    BY <1>2, <2>2, HandMoves DEF Flat, OneShort
  <2> QED BY <2>1, <2>3, ShortsOfNext, IdlePhase DEF LatestIsLive
<1>3. ASSUME NEW p \in Puts, NEW target \in Puts, NEW action \in CspActions,
             Signal(p, action, target)
      PROVE  LatestIsLive'
  <2>1. UNCHANGED <<paper_trades, sells, overtaken, skipped>>
    BY <1>3 DEF Signal
  <2>2. roll'.pc = "close"
    BY <1>3 DEF Signal
  <2> QED BY <2>1, <2>2, SamePosition, LatestKept
<1>4. CASE RecordClose
  <2>1. roll.pc = "close" /\ roll.pc \in Phases /\ today' = today /\ ~overtaken
    BY <1>4 DEF RecordClose, Phases
  <2>2. roll' = [roll EXCEPT !.pc = "mark"] /\ ~skipped /\ sells' = sells
    BY <1>4 DEF RecordClose
  <2>3. roll'.pc = "mark" /\ roll'.put = roll.put
    BY <2>1, <2>2, RollAdvances DEF Phases
  <2>4. ShortPuts' = {}
    BY <1>0, <2>3, ShortsOfNext DEF Position
  <2>5. ShortPuts = {roll.put}
    BY <2>1, <2>2, Rolling, ShortsOf DEF Position
  <2> QED BY <2>1, <2>2, <2>3, <2>4, <2>5 DEF LatestIsLive, Latest
<1>5. CASE MarkClosed
  <2>1. /\ roll.pc = "mark" /\ roll.pc \in Phases
        /\ roll' = Idle \/ roll' = [roll EXCEPT !.pc = "open"]
        /\ UNCHANGED <<sells, overtaken, skipped, today>>
        /\ paper_trades' = MarkTradeClosed(paper_trades, roll.put)
    BY <1>5 DEF MarkClosed, Phases
  <2>2. ShortPuts' = ShortPuts
    BY <2>1, MarksMoveNothing, SamePosition
  <2>3. roll'.pc = "idle" \/ roll'.put = roll.put
    BY <2>1, IdlePhase, RollAdvances DEF Phases
  <2> QED BY <2>1, <2>2, <2>3, LatestKept
<1>6. CASE RecordOpen
  <2>1. /\ roll.pc = "open" /\ roll.pc \in Phases /\ today' = today
        /\ ~Duplicate(paper_trades, RollOpen)
        /\ paper_trades' = RecordTrade(paper_trades, Open(roll.target, roll.qty))
        /\ sells' = Append(sells, <<roll.target, today>>)
        /\ roll' = [roll EXCEPT !.pc = "defend"] \/ roll' = Idle
    BY <1>6 DEF RecordOpen, Phases, RollOpen
  <2>2. roll.target \in Puts /\ roll.qty \in Nat \ {0}
    BY <2>1, Rolling
  <2>3. sells' # <<>> /\ Latest' = <<roll.target, today>>
    BY <2>1, <2>2, SaleAppended DEF RollOpen
  <2>4. ShortPuts' = {roll.target}
    BY <1>6, <2>2, RollOpens, ShortsOfNext
  <2>5. roll'.pc \in {"idle", "defend"}
    BY <2>1, IdlePhase, RollAdvances DEF Phases
  <2> QED BY <2>3, <2>4, <2>5 DEF LatestIsLive
<1>7. CASE OpenFails
  <2>1. /\ roll.pc = "open" /\ roll.pc \in Phases
        /\ roll' = Idle \/ roll' = [roll EXCEPT !.pc = "rollback"]
        /\ UNCHANGED <<paper_trades, sells, overtaken, skipped, today>>
    BY <1>7 DEF OpenFails, Phases
  <2>2. roll'.pc = "idle" \/ roll'.put = roll.put
    BY <2>1, IdlePhase, RollAdvances DEF Phases
  <2> QED BY <2>1, <2>2, SamePosition, LatestKept
<1>8. CASE Rollback
  <2>1. /\ roll.pc = "rollback" /\ roll.pc \in Phases /\ today' = today
        /\ roll' = [roll EXCEPT !.pc = "failed"]
        /\ UNCHANGED <<sells, overtaken, skipped>>
    BY <1>8 DEF Rollback, Phases
  <2>2. roll'.pc = "failed" /\ roll'.put = roll.put /\ roll.put \in Puts
    BY <2>1, RollAdvances, Rolling DEF Phases
  <2>3. ShortPuts' = {roll.put}
    BY <1>0, <2>2, ShortsOfNext DEF Position
  <2> QED BY <2>1, <2>2, <2>3 DEF LatestIsLive, Latest
<1>9. CASE MarkDefended
  <2>1. /\ roll' = Idle /\ UNCHANGED <<sells, overtaken, skipped>>
        /\ paper_trades' = MarkTradeDefended(paper_trades, roll.target)
    BY <1>9 DEF MarkDefended
  <2>2. ShortPuts' = ShortPuts
    BY <2>1, MarksMoveNothing, SamePosition
  <2> QED BY <2>1, <2>2, IdlePhase, LatestKept
<1>10. CASE \/ GiveUp \/ ReportFailure \/ WriteFails \/ StartDaemon
            \/ DaemonEnds \/ NextDay \/ UNCHANGED vars
  <2>1. /\ UNCHANGED <<paper_trades, sells, overtaken, skipped>>
        /\ roll' = Idle \/ roll' = roll
    BY <1>10 DEF GiveUp, ReportFailure, WriteFails, StartDaemon, DaemonEnds,
                 NextDay, vars
  <2> QED BY <2>1, SamePosition, IdlePhase, LatestKept
<1> QED
  BY <1>1, <1>2, <1>3, <1>4, <1>5, <1>6, <1>7, <1>8, <1>9, <1>10 DEF Next

-----------------------------------------------------------------------------
(* The state a delta breach is judged by.                                  *)

\* StateOf finds the one row of a sale.
LEMMA StateOfSale ==
  ASSUME CspTypes, NEW r \in SellRows(paper_trades), NEW s, IsSell(r, s)
  PROVE  StateOf(s) = r.state
<1>1. r \in paper_trades /\ r.action = "SELL"
  BY DEF SellRows
<1>2. \A x \in paper_trades :
        x.leg = s[1] /\ x.date = s[2] /\ x.action = "SELL" => x = r
  BY <1>1 DEF CspTypes, Dated, IsTable, SameKey, IsSell
<1> QED BY <1>1, <1>2 DEF StateOf, IsSell

\* The latest sale decides as long as its row is open.
LEMMA LatestDecides ==
  ASSUME CspTypes, sells # <<>>, NEW r \in SellRows(paper_trades),
         IsSell(r, Latest), r.state # "CLOSED"
  PROVE  GetTradeState = r.state
<1> DEFINE live == {i \in DOMAIN sells : StateOf(sells[i]) # "CLOSED"}
           n == Len(sells)
<1>1. DOMAIN sells = 1 .. n /\ n \in Nat /\ n \in 1 .. n
  BY DEF CspTypes
<1>2. StateOf(sells[n]) = r.state
  BY StateOfSale DEF Latest
<1>3. n \in live /\ \A j \in live : n >= j
  BY <1>1, <1>2
<1>4. \A i \in live : (\A j \in live : i >= j) => i = n
  BY <1>1, <1>3
<1> HIDE DEF live
<1>5. n = CHOOSE i \in live : \A j \in live : i >= j
  BY <1>3, <1>4
<1> QED BY <1>2, <1>3, <1>5 DEF GetTradeState, live

\* A put that was rolled defensively and is short again at the next signal is
\* judged DEFENDED, so that it is not rolled a second time.
LEMMA NoRollWhenDefended ==
  ASSUME CspTypes, sells # <<>>, InState(paper_trades, Latest, {"DEFENDED"})
  PROVE  GetTradeState = "DEFENDED"
<1>1. PICK r \in SellRows(paper_trades) : IsSell(r, Latest) /\ r.state = "DEFENDED"
  BY DEF InState
<1> QED BY <1>1, LatestDecides

\* A step of an action that leaves the number of defensive rolls.
LEMMA DefendedKept ==
  ASSUME Defended, UNCHANGED <<defences, interrupted, overtaken, skipped>>,
         roll'.pc \notin {"close", "defend"},
         roll'.pc = "idle" => ShortPuts' = {},
         roll'.pc \in Phases =>
           roll.pc \in Phases \ {"defend"} /\ roll'.action = roll.action
  PROVE  Defended'
BY DEF Defended, Phases

\* Every step keeps the defensive rolls of a put at one.
LEMMA DefendedStep ==
  ASSUME LastDay \in Nat \ {0}, CspTypes, SellsAreRows(paper_trades),
         ClosedInOrder(paper_trades), Position, Defended, [Next]_vars
  PROVE  Defended'
<1> USE DEF world, history
<1> SUFFICES ASSUME ~interrupted', ~overtaken', ~skipped'
             PROVE  Defended'
  BY DEF Defended
<1>0. Position'
  BY PositionStep
<1>1. ASSUME NEW p \in Puts, Enter(p) PROVE Defended'
  <2>1. defences' = 0 /\ roll' = Idle
    BY <1>1 DEF Enter
  <2> QED BY <2>1, IdlePhase DEF Defended
<1>2. ASSUME NEW p \in Puts, CloseByHand(p) PROVE Defended'
  <2>1. /\ roll = Idle /\ roll' = Idle /\ ~overtaken /\ ~skipped /\ ~interrupted
        /\ p \in ShortPuts /\ defences' = defences
    BY <1>2 DEF CloseByHand
  <2>2. Flat(paper_trades')
    BY <1>2, <2>1, ShortIsOne, HandMoves DEF Flat, OneShort
  <2> QED BY <2>1, <2>2, ShortsOfNext, IdlePhase DEF Defended
<1>3. ASSUME NEW p \in Puts, NEW target \in Puts, NEW action \in CspActions,
             Signal(p, action, target)
      PROVE  Defended'
  <2>1. /\ roll = Idle /\ roll'.pc = "close" /\ roll'.action = action
        /\ UNCHANGED <<paper_trades, sells, defences, history>>
        /\ p \in ShortPuts
        /\ action = "ROLL_DOWN_AND_OUT" => GetTradeState = "OPEN"
    BY <1>3 DEF Signal
  <2>2. /\ defences <= 1 /\ defences \in Nat
        /\ defences > 0 => /\ sells # <<>>
                           /\ InState(paper_trades, Latest, {"DEFENDED"})
    BY <2>1, IdlePhase DEF Defended, CspTypes
  <2>3. action = "ROLL_DOWN_AND_OUT" => defences = 0
    BY <2>1, <2>2, NoRollWhenDefended
  <2>4. defences' <= 1 /\ (roll'.action = "ROLL_DOWN_AND_OUT" => defences' = 0)
    BY <2>1, <2>2, <2>3
  <2>5. defences' > 0 => sells' # <<>> /\ InState(paper_trades, Latest, {"DEFENDED"})'
    BY <2>1, <2>2 DEF InState, Latest
  <2> QED BY <2>1, <2>4, <2>5 DEF Defended
<1>4. CASE GiveUp
  <2>1. /\ roll.pc = "close" /\ roll' = Idle
        /\ UNCHANGED <<paper_trades, sells, defences, history>>
    BY <1>4 DEF GiveUp
  <2>2. ShortPuts' = ShortPuts
    BY <2>1, SamePosition
  <2>3. defences' > 0 /\ ShortPuts' # {} =>
          sells' # <<>> /\ InState(paper_trades, Latest, {"DEFENDED"})'
    BY <2>1, <2>2 DEF Defended, InState, Latest
  <2> QED BY <2>1, <2>3, IdlePhase DEF Defended
<1>5. CASE ReportFailure
  <2>1. /\ roll.pc = "failed" /\ roll' = Idle /\ roll.action = "ROLL_DOWN_AND_OUT"
        /\ UNCHANGED <<defences, history>>
    BY <1>5 DEF ReportFailure, CspTypes
  <2>2. defences = 0
    BY <2>1 DEF Defended, Phases
  <2> QED BY <2>1, <2>2, IdlePhase DEF Defended
<1>6. CASE RecordClose
  <2>1. roll.pc = "close" /\ roll.pc \in Phases /\ today' = today
    BY <1>6 DEF RecordClose, Phases
  <2>2. /\ roll' = [roll EXCEPT !.pc = "mark"]
        /\ UNCHANGED <<defences, interrupted, overtaken, skipped>>
    BY <1>6 DEF RecordClose
  <2>3. roll'.pc = "mark" /\ roll'.action = roll.action
    BY <2>1, <2>2, RollAdvances DEF Phases
  <2> QED BY <2>1, <2>2, <2>3, DefendedKept DEF Phases
<1>7. CASE MarkClosed
  <2>1. /\ roll.pc = "mark" /\ roll.pc \in Phases /\ today' = today
        /\ roll' = Idle \/ roll' = [roll EXCEPT !.pc = "open"]
        /\ UNCHANGED <<defences, history>> /\ ~overtaken /\ ~skipped
        /\ paper_trades' = MarkTradeClosed(paper_trades, roll.put)
    BY <1>7 DEF MarkClosed, Phases
  <2>2. Flat(paper_trades')
    BY <2>1, MarksMoveNothing, SamePosition DEF Position
  <2>3. roll' # Idle => roll'.pc = "open" /\ roll'.action = roll.action
    BY <2>1, RollAdvances DEF Phases
  <2> QED BY <2>1, <2>2, <2>3, ShortsOfNext, IdlePhase, DefendedKept DEF Phases
<1>8. CASE RecordOpen
  <2>1. /\ roll.pc = "open" /\ roll.pc \in Phases /\ today' = today
        /\ ~Duplicate(paper_trades, RollOpen)
        /\ paper_trades' = RecordTrade(paper_trades, Open(roll.target, roll.qty))
        /\ sells' = Append(sells, <<roll.target, today>>)
        /\ UNCHANGED <<interrupted, overtaken, skipped>>
    BY <1>8 DEF RecordOpen, Phases, RollOpen
  <2>2. roll.target \in Puts /\ roll.qty \in Nat \ {0}
    BY <2>1, Rolling
  <2>3. /\ sells' # <<>> /\ Latest' = <<roll.target, today>>
        /\ InState(paper_trades', <<roll.target, today>>, {"OPEN"})
    BY <2>1, <2>2, SaleAppended DEF RollOpen
  <2>4. CASE roll.action = "ROLL_DOWN_AND_OUT"
    <3>1. /\ roll' = [roll EXCEPT !.pc = "defend"] /\ defences' = defences + 1
      BY <1>8, <2>1, <2>4 DEF RecordOpen
    <3>2. defences = 0
      BY <2>1, <2>4 DEF Defended, Phases
    <3>3. roll'.pc = "defend" /\ roll'.target = roll.target
      BY <2>1, <3>1, RollAdvances DEF Phases
    <3>4. InState(paper_trades, Latest, {"OPEN"})'
      BY <2>3 DEF InState
    <3>5. Latest' = <<roll'.target, today'>> /\ defences' = 1
      BY <2>1, <2>3, <3>1, <3>2, <3>3
    <3> QED BY <2>3, <3>3, <3>4, <3>5 DEF Defended
  <2>5. CASE roll.action # "ROLL_DOWN_AND_OUT"
    <3>1. roll' = Idle /\ defences' = 0
      BY <1>8, <2>1, <2>5 DEF RecordOpen
    <3> QED BY <3>1, IdlePhase DEF Defended
  <2> QED BY <2>4, <2>5
<1>9. CASE OpenFails
  <2>1. /\ roll.pc = "open" /\ roll.pc \in Phases
        /\ roll' = Idle \/ roll' = [roll EXCEPT !.pc = "rollback"]
        /\ UNCHANGED <<paper_trades, defences, history, today>>
        /\ ~overtaken /\ ~skipped
    BY <1>9 DEF OpenFails, Phases
  <2>2. Flat(paper_trades')
    BY <2>1 DEF Position
  <2>3. roll' # Idle => roll'.pc = "rollback" /\ roll'.action = roll.action
    BY <2>1, RollAdvances DEF Phases
  <2> QED BY <2>1, <2>2, <2>3, ShortsOfNext, IdlePhase, DefendedKept DEF Phases
<1>10. CASE Rollback
  <2>1. /\ roll.pc = "rollback" /\ roll.pc \in Phases /\ today' = today
        /\ roll' = [roll EXCEPT !.pc = "failed"]
        /\ UNCHANGED <<defences, history>>
    BY <1>10 DEF Rollback, Phases
  <2>2. roll'.pc = "failed" /\ roll'.action = roll.action
    BY <2>1, RollAdvances DEF Phases
  <2> QED BY <2>1, <2>2, DefendedKept DEF Phases
<1>11. CASE MarkDefended
  <2>1. /\ roll.pc = "defend" /\ roll' = Idle
        /\ paper_trades' = MarkTradeDefended(paper_trades, roll.target)
        /\ UNCHANGED <<sells, defences, history>>
    BY <1>11 DEF MarkDefended
  <2>2. /\ sells # <<>> /\ Latest = <<roll.target, today>>
        /\ InState(paper_trades, Latest, {"OPEN"}) /\ defences <= 1
    BY <2>1 DEF Defended
  <2>3. PICK r \in SellRows(paper_trades) : IsSell(r, Latest) /\ r.state = "OPEN"
    BY <2>2 DEF InState
  <2>4. r.leg = roll.target
    BY <2>2, <2>3 DEF IsSell
  <2>5. \E n \in SellRows(paper_trades') :
          n.leg = r.leg /\ n.date = r.date /\ n.state = "DEFENDED"
    BY <2>1, <2>3, <2>4, MarkDefendedSales DEF CspTypes, Dated
  <2>6. InState(paper_trades, Latest, {"DEFENDED"})' /\ sells' # <<>>
    BY <2>1, <2>2, <2>3, <2>5 DEF InState, IsSell, Latest
  <2> QED BY <2>1, <2>2, <2>6, IdlePhase DEF Defended
<1>12. CASE WriteFails
  BY <1>12 DEF WriteFails
<1>13. CASE DaemonEnds
  <2>1. /\ roll = Idle /\ roll' = Idle
        /\ UNCHANGED <<paper_trades, sells, defences, overtaken, skipped>>
        /\ ~interrupted
    BY <1>13 DEF DaemonEnds
  <2> QED BY <2>1, IdlePhase, SamePosition DEF Defended, InState, Latest
<1>14. CASE StartDaemon \/ UNCHANGED vars
  <2>1. UNCHANGED <<paper_trades, sells, defences, history, roll, today>>
    BY <1>14 DEF StartDaemon, vars
  <2> QED BY <2>1, SamePosition DEF Defended, InState, Latest
<1>15. CASE NextDay
  <2>1. /\ roll = Idle /\ roll' = Idle
        /\ UNCHANGED <<paper_trades, sells, defences, history>>
    BY <1>15 DEF NextDay, CspTypes
  <2> QED BY <2>1, IdlePhase, SamePosition DEF Defended, InState, Latest
<1> QED
  BY <1>1, <1>2, <1>3, <1>4, <1>5, <1>6, <1>7, <1>8, <1>9, <1>10, <1>11,
     <1>12, <1>13, <1>14, <1>15 DEF Next

-----------------------------------------------------------------------------
(* The theorems.                                                           *)

LEMMA CspInvInit ==
  ASSUME LastDay \in Nat \ {0}, Init
  PROVE  CspInv
<1>1. /\ paper_trades = {} /\ sells = <<>> /\ today = 1 /\ daemon = "down"
      /\ roll = Idle /\ defences = 0 /\ interrupted = FALSE
      /\ overtaken = FALSE /\ skipped = FALSE
  BY DEF Init
<1>2. IsTable(paper_trades, Puts) /\ Flat(paper_trades)
  BY <1>1, EmptyTable DEF Flat
<1>3. Len(sells) = 0 /\ sells \in Seq(Puts \X Days)
  BY <1>1
<1>4. CspTypes
  <2>1. Dated(paper_trades)
    BY <1>1, <1>2 DEF Dated
  <2>2. roll \in Rolls /\ roll.pc = "idle" /\ defences \in Nat
    BY <1>1, IdlePhase DEF Rolls
  <2>3. /\ interrupted \in BOOLEAN /\ overtaken \in BOOLEAN
        /\ skipped \in BOOLEAN
    BY <1>1
  <2>4. today \in Days
    BY <1>1 DEF Days
  <2>5. /\ sells \in Seq(Puts \X Days) /\ daemon \in {"up", "down"}
        /\ \A i \in 1 .. Len(sells) : sells[i][2] <= today
    BY <1>1, <1>3
  <2> QED BY <1>1, <2>1, <2>2, <2>3, <2>4, <2>5 DEF CspTypes
<1>5. SellsAreRows(paper_trades) /\ ClosedInOrder(paper_trades)
  BY <1>1, <1>3 DEF SellsAreRows, ClosedInOrder, SellRows
<1>6. Position /\ LatestIsLive /\ Defended
  BY <1>1, <1>2, IdlePhase, ShortsOf DEF Position, LatestIsLive, Defended, Phases
<1> QED BY <1>4, <1>5, <1>6 DEF CspInv

LEMMA CspInvStep ==
  ASSUME LastDay \in Nat \ {0}, CspInv, [Next]_vars
  PROVE  CspInv'
BY CspTypesStep, SalesStep, PositionStep, LatestStep, DefendedStep DEF CspInv

\* The list of sales counts the SELL rows.
LEMMA SalesCounted ==
  ASSUME CspTypes, SellsAreRows(paper_trades)
  PROVE  Len(sells) = Cardinality(SellRows(paper_trades))
<1> DEFINE n == Len(sells)
           RowOf(i) == CHOOSE r \in SellRows(paper_trades) : IsSell(r, sells[i])
           f == [i \in 1 .. n |-> RowOf(i)]
<1>1. \A i \in 1 .. n : RowOf(i) \in SellRows(paper_trades) /\ IsSell(RowOf(i), sells[i])
  BY DEF SellsAreRows
<1>2. \A i \in 1 .. n : sells[i] = <<sells[i][1], sells[i][2]>>
  BY DEF CspTypes
<1>3. \A r, s \in SellRows(paper_trades) :
        r.leg = s.leg /\ r.date = s.date => r = s
  BY DEF SellRows, CspTypes, Dated, IsTable, SameKey
<1>4. \A i, j \in 1 .. n : f[i] = f[j] => i = j
  <2> SUFFICES ASSUME NEW i \in 1 .. n, NEW j \in 1 .. n, f[i] = f[j]
               PROVE  i = j
    OBVIOUS
  <2>1. RowOf(i) = RowOf(j)
    OBVIOUS
  <2>2. sells[i][1] = sells[j][1] /\ sells[i][2] = sells[j][2]
    BY <1>1, <2>1 DEF IsSell
  <2>3. sells[i] = sells[j]
    BY <1>2, <2>2
  <2> QED BY <2>3 DEF SellsAreRows
<1>5. \A r \in SellRows(paper_trades) : \E i \in 1 .. n : f[i] = r
  <2> SUFFICES ASSUME NEW r \in SellRows(paper_trades)
               PROVE  \E i \in 1 .. n : f[i] = r
    OBVIOUS
  <2>1. PICK i \in 1 .. n : IsSell(r, sells[i])
    BY DEF SellsAreRows
  <2>2. RowOf(i) = r
    BY <1>1, <1>3, <2>1 DEF IsSell
  <2> QED BY <2>2
<1>6. f \in [1 .. n -> SellRows(paper_trades)]
  BY <1>1
<1>7. n \in Nat
  BY DEF CspTypes
<1> HIDE DEF f
<1>8. ExistsBijection(1 .. n, SellRows(paper_trades))
  BY <1>4, <1>5, <1>6 DEF ExistsBijection, Bijection, Injection, Surjection, IsInjective
<1> QED BY <1>7, <1>8, FS_CountingElements

\* Every variable of the cash-secured put holds values the program can hold.
THEOREM CspTyped ==
  ASSUME LastDay \in Nat \ {0}
  PROVE  Spec => []CspTypeOK
<1>1. Init => CspInv
  BY CspInvInit
<1>2. CspInv /\ [Next]_vars => CspInv'
  BY CspInvStep
<1>3. CspInv => CspTypeOK
  <2> SUFFICES ASSUME CspInv PROVE CspTypeOK
    OBVIOUS
  <2>1. CspTypes /\ SellsAreRows(paper_trades)
    BY DEF CspInv
  <2>2. Len(sells) = Cardinality({r \in paper_trades : r.action = "SELL"})
    BY <2>1, SalesCounted DEF SellRows
  <2>3. paper_trades \subseteq [leg : Puts, date : Days, action : Actions,
                                qty : Nat \ {0}, state : States]
    BY <2>1 DEF CspTypes, Dated, IsTable, TradeRow, Days
  <2>4. roll # Idle => IsRoll(roll)
    BY <2>1 DEF CspTypes, Rolls, IsRoll
  <2>5. {interrupted, overtaken, skipped} \subseteq BOOLEAN
    BY <2>1, Zenon DEF CspTypes
  <2> QED BY <2>1, <2>2, <2>3, <2>4, <2>5 DEF CspTypes, CspTypeOK
<1> QED
  BY <1>1, <1>2, <1>3, PTL DEF Spec

\* Closes, rolls, rollbacks, entries and crashes between any two writes never
\* leave two lots or two puts short, unless another process wrote meanwhile or
\* a trade was dropped as a duplicate.
THEOREM CspOneLivePut ==
  ASSUME LastDay \in Nat \ {0}
  PROVE  Spec => []OneLivePut
<1>1. Init => CspInv
  BY CspInvInit
<1>2. CspInv /\ [Next]_vars => CspInv'
  BY CspInvStep
<1>3. CspInv => OneLivePut
  <2> SUFFICES ASSUME CspInv, ~overtaken, ~skipped
               PROVE  /\ Cardinality(ShortPuts) <= 1
                      /\ \A p \in Puts : Net(p) \in {-1, 0}
    BY DEF OneLivePut
  <2>1. CspTypes /\ Position
    BY DEF CspInv
  <2>2. Flat(paper_trades) \/ \E p \in Puts : OneShort(paper_trades, p)
    <3>1. CASE roll = Idle
      BY <2>1, <3>1, IdlePhase DEF Position
    <3>2. CASE roll.pc \in Phases
      BY <2>1, <3>2, Rolling DEF Position, Phases
    <3> QED BY <2>1, <3>1, <3>2, IdlePhase
  <2>3. \A p \in Puts : Net(p) \in {-1, 0}
    BY <2>2, NetIsHeld DEF Flat, OneShort
  <2>4. ShortPuts = {} \/ \E p \in Puts : ShortPuts = {p}
    BY <2>2, ShortsOf
  <2>5. Cardinality(ShortPuts) <= 1
    <3>1. CASE ShortPuts = {}
      BY <3>1, FS_EmptySet
    <3>2. ASSUME NEW p \in Puts, ShortPuts = {p}
          PROVE  Cardinality(ShortPuts) <= 1
      <4>1. Cardinality({p}) = 1
        BY FS_Singleton
      <4> QED BY <3>2, <4>1
    <3> QED BY <2>4, <3>1, <3>2
  <2> QED BY <2>3, <2>5
<1> QED
  BY <1>1, <1>2, <1>3, PTL DEF Spec

\* An entered put is rolled down once: the replacement is DEFENDED before the
\* next signal is read, unless a crash or a failed write came in between, or
\* the roll lost a trade.
THEOREM CspNoSecondRoll ==
  ASSUME LastDay \in Nat \ {0}
  PROVE  Spec => []NoSecondRoll
<1>1. Init => CspInv
  BY CspInvInit
<1>2. CspInv /\ [Next]_vars => CspInv'
  BY CspInvStep
<1>3. CspInv => NoSecondRoll
  BY DEF CspInv, Defended, NoSecondRoll
<1> QED
  BY <1>1, <1>2, <1>3, PTL DEF Spec

\* get_trade_state asks for the role and not for the instrument, and still
\* answers with the state of the live put.
THEOREM CspTradeStateIsOwn ==
  ASSUME LastDay \in Nat \ {0}
  PROVE  Spec => []TradeStateIsOwn
<1>1. Init => CspInv
  BY CspInvInit
<1>2. CspInv /\ [Next]_vars => CspInv'
  BY CspInvStep
<1>3. CspInv => TradeStateIsOwn
  <2> DEFINE Own(p) == {r \in paper_trades :
                          r.leg = p /\ r.action = "SELL" /\ r.state # "CLOSED"}
  <2> SUFFICES ASSUME CspInv, ~overtaken, ~skipped, NEW p \in ShortPuts,
                      NEW r \in Own(p)
               PROVE  \E x \in Own(p) : GetTradeState = x.state
    BY DEF TradeStateIsOwn
  <2>1. /\ CspTypes /\ SellsAreRows(paper_trades)
        /\ ClosedInOrder(paper_trades) /\ LatestIsLive
    BY DEF CspInv
  <2>2. /\ sells # <<>> /\ Latest[1] = p /\ p \in Puts
        /\ Len(sells) \in Nat /\ Len(sells) \in 1 .. Len(sells)
    BY <2>1 DEF LatestIsLive, CspTypes, ShortPuts
  <2>3. r \in SellRows(paper_trades) /\ r.state \in OpenStates
    BY <2>1 DEF SellRows, OpenStates, CspTypes, Dated, IsTable, TradeRow, States
  <2>4. PICK i \in 1 .. Len(sells) : IsSell(r, sells[i])
    BY <2>1, <2>3 DEF SellsAreRows
  <2>5. InState(paper_trades, Latest, OpenStates)
    <3>1. InState(paper_trades, sells[i], OpenStates) /\ sells[i][1] = p
      BY <2>3, <2>4 DEF InState, IsSell
    <3> QED BY <2>1, <2>2, <2>4, <3>1 DEF ClosedInOrder, Latest
  <2>6. PICK x \in SellRows(paper_trades) :
          IsSell(x, Latest) /\ x.state \in OpenStates
    BY <2>5 DEF InState
  <2>7. x \in Own(p)
    BY <2>2, <2>6 DEF IsSell, SellRows, OpenStates
  <2>8. GetTradeState = x.state
    BY <2>1, <2>2, <2>6, LatestDecides DEF OpenStates
  <2> QED BY <2>7, <2>8
<1> QED
  BY <1>1, <1>2, <1>3, PTL DEF Spec
=============================================================================
