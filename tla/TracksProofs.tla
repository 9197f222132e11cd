---------------------------- MODULE TracksProofs ----------------------------
(***************************************************************************)
(* The signal track, the gamma scan and the calendar, for any options,     *)
(* strikes, days and faults.  Closed entries and SELL rows agree in number *)
(* and the evening job pairs an entry with its own exit; the gamma log and *)
(* the ledger agree; the calendar is whole or flat, and ruled by the plan  *)
(* of the cycle it was entered in.                                         *)
(***************************************************************************)
EXTENDS MCTracks, FiniteSetTheorems, TLAPS

Row == [leg : Options, date : Nat, action : Sides, state : {"OPEN", "CLOSED"}]

Matched(e) == \E p \in soldBy : p[1] = e
Bought(i) == i \in DOMAIN paper_trades /\ paper_trades[i].action = "BUY"
BoughtToday(i) == Bought(i) /\ paper_trades[i].date = today

\* The types the proofs need.  A daemon in the middle of an exit holds an
\* entry that is still open: nobody else closes one.
Types ==
    /\ paper_trades \in Seq(Row)
    /\ entries \subseteq {i \in DOMAIN paper_trades : Bought(i)}
    /\ exit_events \subseteq {e \in entries : IsClosed(e)}
    /\ signal \in Options \cup {NoTrade}
    /\ opener \in [Openers -> [pc : {"idle", "quoted", "legged"},
                               leg : Options \cup {NoTrade}, id : Nat]]
    /\ \A o \in Openers : opener[o].pc = "quoted" => opener[o].leg # NoTrade
    /\ monitor \in [pc : {"down", "rest", "sell", "close"}, entry : Nat]
    /\ monitor.pc \in {"sell", "close"} => monitor.entry \in OpenEntries
    /\ today \in Nat

\* Rows are unique in their key, and were inserted in the order of their dates.
Table ==
    /\ \A i, j \in DOMAIN paper_trades :
         /\ paper_trades[i].leg = paper_trades[j].leg
         /\ paper_trades[i].date = paper_trades[j].date
         /\ paper_trades[i].action = paper_trades[j].action
         => i = j
    /\ \A i \in DOMAIN paper_trades : paper_trades[i].date <= today
    /\ \A i, j \in DOMAIN paper_trades :
         i < j => paper_trades[i].date <= paper_trades[j].date

\* One entry is open at a time, and no BUY is recorded while an entry of an
\* earlier day is: its exit closes no BUY row an opener holds or could find
\* again, so an entry is open when it is opened.
Opening ==
    /\ \A e, f \in OpenEntries : e = f
    /\ \A e \in OpenEntries : \A i \in DOMAIN paper_trades :
         Bought(i) => paper_trades[i].date <= paper_trades[e].date
    /\ \A o \in Openers :
         /\ opener[o] # Idle =>
              \A e \in OpenEntries : paper_trades[e].date = today
         /\ opener[o].pc = "legged" => BoughtToday(opener[o].id)
    /\ \A i \in DOMAIN paper_trades :
         BoughtToday(i) /\ i \notin entries => ~IsClosed(i)

\* Every SELL row was inserted by one entry; every closed entry inserted one,
\* and so did the one that is about to be closed, unless it was swallowed.
Pairing ==
    /\ soldBy \subseteq entries \X Sells
    /\ \A s \in Sells : \E p \in soldBy : p[2] = s
    /\ \A p, q \in soldBy : p[2] = q[2] => p = q
    /\ ~swallowed =>
         /\ \A e \in entries : IsClosed(e) => Matched(e)
         /\ monitor.pc = "close" => Matched(monitor.entry)

SellInv == Types /\ Table /\ Opening /\ Pairing

\* SELL rows follow the entries they belong to: they come after the BUY, before
\* any BUY of a later day and, among entries opened in the order of their rows,
\* in the order of those.
Ordering ==
    /\ \A p \in soldBy :
         /\ p[1] < p[2]
         /\ \A i \in DOMAIN paper_trades :
              Bought(i) /\ paper_trades[i].date > paper_trades[p[1]].date =>
                p[2] < i
    /\ ~overtaken =>
         /\ \A e \in OpenEntries, f \in entries : f <= e
         /\ \A p, q \in soldBy : p[1] < q[1] => p[2] < q[2]

-----------------------------------------------------------------------------
(* The rows.                                                               *)

LEMMA RowFacts ==
  ASSUME Types
  PROVE  /\ today \in Nat
         /\ \A i \in DOMAIN paper_trades :
              /\ i \in Nat
              /\ paper_trades[i].leg \in Options
              /\ paper_trades[i].date \in Nat
<1>1. \A i \in DOMAIN paper_trades : i \in Nat /\ paper_trades[i] \in Row
  BY DEF Types
<1> QED BY <1>1 DEF Types, Row

\* An insert keeps the rows there are, adds at most one at the end, and adds
\* none whose key is taken.
LEMMA InsertFacts ==
  ASSUME Types, Table, UNCHANGED today,
         NEW leg \in Options, NEW action \in Sides, InsertTrade(leg, action)
  PROVE  /\ paper_trades' \in Seq(Row)
         /\ \A i \in DOMAIN paper_trades :
              i \in DOMAIN paper_trades' /\ paper_trades'[i] = paper_trades[i]
         /\ \A i \in DOMAIN paper_trades' \ DOMAIN paper_trades :
              /\ i = Len(paper_trades')
              /\ paper_trades'[i] = [leg |-> leg, date |-> today,
                                     action |-> action, state |-> "OPEN"]
              /\ \A j \in DOMAIN paper_trades : j < i
         /\ Rows(leg, today, action) # {} => paper_trades' = paper_trades
         /\ Rows(leg, today, action) = {} =>
              /\ Len(paper_trades') \in DOMAIN paper_trades'
              /\ Len(paper_trades') \notin DOMAIN paper_trades
         /\ Table'
<1> DEFINE row == [leg |-> leg, date |-> today, action |-> action, state |-> "OPEN"]
<1>1. row \in Row /\ paper_trades \in Seq(Row)
  BY DEF Types, Row
<1>2. CASE Rows(leg, today, action) # {}
  BY <1>1, <1>2 DEF InsertTrade, Table
<1>3. CASE Rows(leg, today, action) = {}
  <2>1. paper_trades' = Append(paper_trades, row)
    BY <1>3 DEF InsertTrade
  <2>2. /\ paper_trades' \in Seq(Row)
        /\ Len(paper_trades') = Len(paper_trades) + 1
        /\ DOMAIN paper_trades = 1 .. Len(paper_trades)
        /\ DOMAIN paper_trades' = 1 .. Len(paper_trades')
        /\ Len(paper_trades) \in Nat
        /\ \A i \in 1 .. Len(paper_trades) : paper_trades'[i] = paper_trades[i]
        /\ paper_trades'[Len(paper_trades) + 1] = row
    BY <1>1, <2>1
  <2>3. \A i \in DOMAIN paper_trades :
          /\ paper_trades[i].date <= today
          /\ ~(/\ paper_trades[i].leg = leg
               /\ paper_trades[i].date = today
               /\ paper_trades[i].action = action)
    BY <1>3 DEF Table, Rows
  <2>4. Table'
    <3>1. \A i \in DOMAIN paper_trades' : paper_trades'[i].date <= today'
      BY <2>2, <2>3 DEF Types
    <3>2. \A i, j \in DOMAIN paper_trades' :
            /\ paper_trades'[i].leg = paper_trades'[j].leg
            /\ paper_trades'[i].date = paper_trades'[j].date
            /\ paper_trades'[i].action = paper_trades'[j].action
            => i = j
      BY <2>2, <2>3 DEF Table
    <3>3. \A i, j \in DOMAIN paper_trades' :
            i < j => paper_trades'[i].date <= paper_trades'[j].date
      <4> SUFFICES ASSUME NEW i \in DOMAIN paper_trades',
                          NEW j \in DOMAIN paper_trades', i < j
                   PROVE  paper_trades'[i].date <= paper_trades'[j].date
        OBVIOUS
      <4>1. i \in DOMAIN paper_trades
        BY <2>2
      <4>2. CASE j \in DOMAIN paper_trades
        BY <2>2, <4>1, <4>2 DEF Table
      <4>3. CASE j \notin DOMAIN paper_trades
        BY <2>2, <2>3, <4>1, <4>3
      <4> QED BY <4>2, <4>3
    <3> QED BY <3>1, <3>2, <3>3 DEF Table
  <2> QED BY <1>3, <2>2, <2>4
<1> QED BY <1>2, <1>3

\* Closing a leg's rows keeps every row but for its state.
LEMMA CloseFacts ==
  ASSUME Types, Table, CloseEntry
  PROVE  /\ paper_trades' \in Seq(Row)
         /\ DOMAIN paper_trades' = DOMAIN paper_trades
         /\ \A i \in DOMAIN paper_trades :
              /\ paper_trades'[i].leg = paper_trades[i].leg
              /\ paper_trades'[i].date = paper_trades[i].date
              /\ paper_trades'[i].action = paper_trades[i].action
              /\ paper_trades'[i].state =
                   IF i = monitor.entry
                        \/ paper_trades[i].leg = paper_trades[monitor.entry].leg
                     THEN "CLOSED" ELSE paper_trades[i].state
         /\ Table'
<1>1. paper_trades \in Seq(Row) /\ Len(paper_trades) \in Nat
      /\ DOMAIN paper_trades = 1 .. Len(paper_trades)
      /\ \A i \in DOMAIN paper_trades : paper_trades[i] \in Row
  BY DEF Types
<1>2. paper_trades' = [i \in DOMAIN paper_trades |->
        IF i = monitor.entry \/ paper_trades[i].leg = paper_trades[monitor.entry].leg
          THEN [paper_trades[i] EXCEPT !.state = "CLOSED"]
          ELSE paper_trades[i]]
  BY DEF CloseEntry
<1>3. \A i \in DOMAIN paper_trades : paper_trades'[i] \in Row
  BY <1>1, <1>2 DEF Row
<1>4. paper_trades' \in Seq(Row) /\ DOMAIN paper_trades' = DOMAIN paper_trades
  <2>1. paper_trades' \in [1 .. Len(paper_trades) -> Row]
    BY <1>1, <1>2, <1>3
  <2> QED BY <1>1, <1>2, <2>1
<1>5. \A i \in DOMAIN paper_trades :
        /\ paper_trades'[i].leg = paper_trades[i].leg
        /\ paper_trades'[i].date = paper_trades[i].date
        /\ paper_trades'[i].action = paper_trades[i].action
        /\ paper_trades'[i].state =
             IF i = monitor.entry
                  \/ paper_trades[i].leg = paper_trades[monitor.entry].leg
               THEN "CLOSED" ELSE paper_trades[i].state
  BY <1>1, <1>2 DEF Row
<1>6. Table'
  BY <1>4, <1>5 DEF Table, CloseEntry, clock
<1> QED BY <1>4, <1>5, <1>6

-----------------------------------------------------------------------------
(* The invariant.                                                          *)

Invariant == SellInv /\ Ordering

LEMMA InvariantInit == Init => Invariant
BY DEF Init, Invariant, SellInv, Types, Table, Opening, Pairing, Ordering,
       OpenEntries, Sells, Idle, Bought, BoughtToday

\* A step of the daemon that writes nothing.
LEMMA MonitorStep ==
  ASSUME Invariant, UNCHANGED <<tables, signal, opener, today, history>>,
         monitor' \in [pc : {"down", "rest", "sell"}, entry : Nat],
         monitor'.pc = "sell" => monitor'.entry \in OpenEntries
  PROVE  Invariant'
BY DEF Invariant, SellInv, Types, Table, Opening, Pairing, Ordering, tables,
       history, OpenEntries, IsClosed, Sells, Matched, Bought, BoughtToday

\* A step of an opener that writes nothing: it goes on to a quote only when no
\* entry is open, and to no id of its own.
LEMMA OpenerStep ==
  ASSUME Invariant, UNCHANGED <<tables, monitor, today, history>>,
         signal' \in Options \cup {NoTrade},
         opener' \in [Openers -> [pc : {"idle", "quoted", "legged"},
                                 leg : Options \cup {NoTrade}, id : Nat]],
         \A o \in Openers :
           \/ opener'[o] = opener[o]
           \/ opener'[o] = Idle
           \/ /\ opener'[o].pc = "quoted" /\ opener'[o].leg # NoTrade
              /\ OpenEntries = {}
  PROVE  Invariant'
<1>1. OpenEntries' = OpenEntries /\ Sells' = Sells
      /\ \A i : /\ Bought(i)' <=> Bought(i)
                /\ BoughtToday(i)' <=> BoughtToday(i)
                /\ IsClosed(i)' <=> IsClosed(i)
                /\ Matched(i)' <=> Matched(i)
  BY DEF tables, history, OpenEntries, IsClosed, Sells, Matched, Bought, BoughtToday
<1>2. Types'
  BY <1>1 DEF Invariant, SellInv, Types, tables, Idle
<1>3. Table'
  BY DEF Invariant, SellInv, Table, tables
<1>4. Opening'
  <2>1. ASSUME NEW o \in Openers
        PROVE  /\ opener'[o] # Idle =>
                    \A e \in OpenEntries : paper_trades[e].date = today
               /\ opener'[o].pc = "legged" => BoughtToday(opener'[o].id)
    BY DEF Invariant, SellInv, Opening, Idle
  <2> QED BY <1>1, <2>1 DEF Invariant, SellInv, Opening, tables
<1>5. Pairing'
  BY <1>1 DEF Invariant, SellInv, Pairing, history, tables
<1>6. Ordering'
  BY <1>1 DEF Invariant, Ordering, history, tables
<1> QED BY <1>2, <1>3, <1>4, <1>5, <1>6 DEF Invariant, SellInv

\* Consider gives OpenerStep what it asks for.
LEMMA ConsiderStep ==
  ASSUME Invariant, NEW o \in Openers, NEW leg \in Options \cup {NoTrade},
         Consider(o, leg)
  PROVE  /\ opener' \in [Openers -> [pc : {"idle", "quoted", "legged"},
                                     leg : Options \cup {NoTrade}, id : Nat]]
         /\ \A p \in Openers :
              \/ opener'[p] = opener[p]
              \/ /\ opener'[p].pc = "quoted" /\ opener'[p].leg # NoTrade
                 /\ OpenEntries = {}
<1> DEFINE new == [Idle EXCEPT !.pc = "quoted", !.leg = leg]
<1>1. /\ new \in [pc : {"idle", "quoted", "legged"},
                 leg : Options \cup {NoTrade}, id : Nat]
      /\ new.pc = "quoted" /\ new.leg = leg
  BY DEF Idle
<1>2. \/ opener' = opener
      \/ /\ opener' = [opener EXCEPT ![o] = new]
         /\ leg # NoTrade /\ OpenEntries = {}
  BY DEF Consider
<1> HIDE DEF new
<1> QED BY <1>1, <1>2 DEF Invariant, SellInv, Types

\* The BUY: while an opener has a quote, an open entry is of today, so the new
\* row is not younger than its.
LEMMA RecordOpenLegStep ==
  ASSUME Invariant, NEW o \in Openers, RecordOpenLeg(o)
  PROVE  Invariant'
<1> USE DEF Invariant, SellInv
<1>1. PICK id \in DOMAIN paper_trades' :
        /\ paper_trades'[id].leg = opener[o].leg
        /\ paper_trades'[id].date = today
        /\ paper_trades'[id].action = "BUY"
        /\ opener' = [opener EXCEPT ![o].pc = "legged", ![o].id = id]
  BY DEF RecordOpenLeg
<1>2. /\ opener[o].pc = "quoted" /\ InsertTrade(opener[o].leg, "BUY")
      /\ UNCHANGED <<entries, exit_events, signal, monitor, today, history>>
  BY DEF RecordOpenLeg, clock
<1>3. opener[o].leg \in Options /\ opener[o] # Idle
  BY <1>2 DEF Types, Idle
<1>4. /\ paper_trades' \in Seq(Row)
      /\ \A i \in DOMAIN paper_trades :
           i \in DOMAIN paper_trades' /\ paper_trades'[i] = paper_trades[i]
      /\ \A i \in DOMAIN paper_trades' \ DOMAIN paper_trades :
           /\ paper_trades'[i] = [leg |-> opener[o].leg, date |-> today,
                                  action |-> "BUY", state |-> "OPEN"]
           /\ \A j \in DOMAIN paper_trades : j < i
      /\ Table'
  BY <1>2, <1>3, InsertFacts DEF Sides
<1>5. /\ OpenEntries' = OpenEntries
      /\ Sells' = Sells
      /\ OpenEntries \subseteq DOMAIN paper_trades
      /\ \A e \in entries : /\ e \in DOMAIN paper_trades
                            /\ paper_trades'[e] = paper_trades[e]
                            /\ IsClosed(e)' <=> IsClosed(e)
      /\ \A e : Matched(e)' <=> Matched(e)
  BY <1>2, <1>4 DEF OpenEntries, IsClosed, Sells, Types, Matched, history
<1>6. \A e \in OpenEntries : paper_trades[e].date = today
  BY <1>3 DEF Opening
<1>7. /\ opener' \in [Openers -> [pc : {"idle", "quoted", "legged"},
                                  leg : Options \cup {NoTrade}, id : Nat]]
      /\ \A p \in Openers : p # o => opener'[p] = opener[p]
      /\ opener'[o].pc = "legged" /\ opener'[o].id = id
  <2>1. id \in Nat
    BY <1>4
  <2> QED BY <1>1, <2>1 DEF Types
<1>8. Types'
  <2>1. entries' \subseteq {i \in DOMAIN paper_trades' : Bought(i)'}
    BY <1>2, <1>4 DEF Types, Bought
  <2>2. \A p \in Openers : opener'[p].pc = "quoted" => opener'[p].leg # NoTrade
    BY <1>7 DEF Types
  <2> QED BY <1>2, <1>4, <1>5, <1>7, <2>1, <2>2 DEF Types
<1>9. Opening'
  <2>1. \A e \in OpenEntries' : \A i \in DOMAIN paper_trades' :
          Bought(i)' => paper_trades'[i].date <= paper_trades'[e].date
    <3> SUFFICES ASSUME NEW e \in OpenEntries, NEW i \in DOMAIN paper_trades',
                        Bought(i)'
                 PROVE  paper_trades'[i].date <= paper_trades'[e].date
      BY <1>5
    <3>1. paper_trades'[e].date = today /\ today \in Nat
      BY <1>4, <1>5, <1>6 DEF Types
    <3>2. CASE i \in DOMAIN paper_trades
      BY <1>4, <3>1, <3>2 DEF Table, Types
    <3>3. CASE i \notin DOMAIN paper_trades
      BY <1>4, <3>1, <3>3
    <3> QED BY <3>2, <3>3
  <2>2. ASSUME NEW p \in Openers
        PROVE  /\ opener'[p] # Idle =>
                    \A e \in OpenEntries' : paper_trades'[e].date = today'
               /\ (opener[p].pc = "legged" => BoughtToday(opener[p].id))'
    <3>1. \A e \in OpenEntries' : paper_trades'[e].date = today'
      BY <1>2, <1>4, <1>5, <1>6
    <3>2. CASE p = o
      BY <1>1, <1>2, <1>7, <3>1, <3>2 DEF BoughtToday, Bought
    <3>3. CASE p # o
      BY <1>2, <1>4, <1>7, <3>1, <3>3 DEF BoughtToday, Bought, Opening
    <3> QED BY <3>2, <3>3
  <2>3. \A i \in DOMAIN paper_trades' :
          BoughtToday(i)' /\ i \notin entries' => ~IsClosed(i)'
    BY <1>2, <1>4 DEF BoughtToday, Bought, IsClosed, Opening
  <2>4. \A e, f \in OpenEntries' : e = f
    BY <1>5 DEF Opening
  <2> QED BY <2>1, <2>2, <2>3, <2>4 DEF Opening
<1>10. Pairing'
  BY <1>2, <1>5 DEF Pairing, history
<1>11. Ordering'
  <2>1. ASSUME NEW p \in soldBy, NEW i \in DOMAIN paper_trades',
               Bought(i)', paper_trades'[i].date > paper_trades'[p[1]].date
        PROVE  p[2] < i
    <3>1. p[1] \in entries /\ p[2] \in DOMAIN paper_trades
      BY DEF Pairing, Sells
    <3>2. CASE i \in DOMAIN paper_trades
      BY <1>4, <1>5, <2>1, <3>1, <3>2 DEF Ordering, Bought
    <3>3. CASE i \notin DOMAIN paper_trades
      BY <1>4, <3>1, <3>3
    <3> QED BY <3>2, <3>3
  <2> QED BY <1>2, <1>5, <2>1 DEF Ordering, history
<1> QED BY <1>4, <1>8, <1>9, <1>10, <1>11

\* The entry: its BUY is of today and not closed.
LEMMA OpenEntryStep ==
  ASSUME Invariant, NEW o \in Openers, OpenEntry(o)
  PROVE  Invariant'
<1> DEFINE id == opener[o].id
<1> USE DEF Invariant, SellInv
<1>1. /\ opener[o].pc = "legged" /\ OpenEntries = {} /\ id \notin entries
      /\ entries' = entries \cup {id}
      /\ overtaken' = (overtaken \/ \E e \in entries : e > id)
      /\ opener' = [opener EXCEPT ![o] = Idle]
      /\ UNCHANGED <<paper_trades, exit_events, signal, monitor, today,
                     soldBy, swallowed>>
  BY DEF OpenEntry, MayOpen, clock
<1>2. BoughtToday(id) /\ ~IsClosed(id) /\ id \in DOMAIN paper_trades
  BY <1>1 DEF Opening, BoughtToday, Bought
<1>3. OpenEntries' = {id} /\ Sells' = Sells
      /\ \A i : /\ Bought(i)' <=> Bought(i)
                /\ BoughtToday(i)' <=> BoughtToday(i)
                /\ IsClosed(i)' <=> IsClosed(i)
                /\ Matched(i)' <=> Matched(i)
  BY <1>1, <1>2 DEF OpenEntries, IsClosed, Sells, Matched, Bought, BoughtToday
<1>4. opener' \in [Openers -> [pc : {"idle", "quoted", "legged"},
                              leg : Options \cup {NoTrade}, id : Nat]]
      /\ \A p \in Openers : opener'[p] = opener[p] \/ opener'[p] = Idle
  BY <1>1 DEF Types, Idle
<1>5. Types'
  <2>1. monitor.pc \notin {"sell", "close"}
    BY <1>1 DEF Types
  <2> QED BY <1>1, <1>2, <1>3, <1>4, <2>1 DEF Types, BoughtToday, Idle
<1>6. Table'
  BY <1>1 DEF Table
<1>7. Opening'
  <2>1. \A i \in DOMAIN paper_trades : paper_trades[i].date <= paper_trades[id].date
    BY <1>2 DEF Table, BoughtToday
  <2> QED
    BY <1>1, <1>2, <1>3, <1>4, <2>1 DEF Opening, Idle, BoughtToday
<1>8. Pairing'
  BY <1>1, <1>2, <1>3 DEF Pairing, Types
<1>9. Ordering'
  <2>1. entries \subseteq Nat /\ id \in Nat
    BY <1>2 DEF Types
  <2>2. ~overtaken' => ~overtaken /\ ~\E e \in entries : e > id
    BY <1>1, Zenon
  <2>3. ~overtaken' => \A f \in entries' : f <= id
    BY <1>1, <2>1, <2>2
  <2> QED BY <1>1, <1>3, <2>2, <2>3 DEF Ordering
<1> QED BY <1>5, <1>6, <1>7, <1>8, <1>9

\* The SELL: it is the entry's own, or the row of an earlier pair of it, or it
\* was swallowed.
LEMMA RecordSellStep ==
  ASSUME Invariant, RecordSell
  PROVE  Invariant'
<1> SUFFICES ASSUME NEW e, e = monitor.entry PROVE Invariant'
  OBVIOUS
<1> DEFINE earlier == Rows(paper_trades[e].leg, today, "SELL")
           new == Len(paper_trades')
<1> USE DEF Invariant, SellInv
<1>1. /\ monitor.pc = "sell" /\ monitor' = [monitor EXCEPT !.pc = "close"]
      /\ InsertTrade(paper_trades[e].leg, "SELL")
      /\ soldBy' = IF earlier = {} THEN soldBy \cup {<<e, new>>} ELSE soldBy
      /\ swallowed' = (swallowed \/ \E p \in soldBy : p[2] \in earlier /\ p[1] # e)
      /\ UNCHANGED <<entries, exit_events, signal, opener, today, overtaken>>
  BY DEF RecordSell, clock
<1>2. e \in OpenEntries /\ e \in entries /\ e \in DOMAIN paper_trades /\ e \in Nat
      /\ paper_trades[e].leg \in Options
  BY <1>1, RowFacts DEF Types, OpenEntries
<1>3. /\ paper_trades' \in Seq(Row)
      /\ \A i \in DOMAIN paper_trades :
           i \in DOMAIN paper_trades' /\ paper_trades'[i] = paper_trades[i]
      /\ \A i \in DOMAIN paper_trades' \ DOMAIN paper_trades :
           /\ i = new
           /\ paper_trades'[i] = [leg |-> paper_trades[e].leg, date |-> today,
                                  action |-> "SELL", state |-> "OPEN"]
           /\ \A j \in DOMAIN paper_trades : j < i
      /\ earlier # {} => paper_trades' = paper_trades
      /\ earlier = {} => new \in DOMAIN paper_trades' /\ new \notin DOMAIN paper_trades
      /\ Table'
  BY <1>1, <1>2, InsertFacts DEF Sides
<1>4. /\ OpenEntries' = OpenEntries
      /\ \A f \in entries : /\ f \in DOMAIN paper_trades
                            /\ paper_trades'[f] = paper_trades[f]
                            /\ IsClosed(f)' <=> IsClosed(f)
      /\ \A i : /\ Bought(i)' <=> Bought(i)
                /\ BoughtToday(i)' <=> BoughtToday(i)
                /\ Bought(i) => /\ i \in DOMAIN paper_trades
                                /\ paper_trades'[i] = paper_trades[i]
  BY <1>1, <1>3 DEF OpenEntries, IsClosed, Types, Bought, BoughtToday
<1>5. /\ Sells \subseteq Sells'
      /\ Sells' = IF earlier = {} THEN Sells \cup {new} ELSE Sells
      /\ new \notin Sells \/ earlier # {}
  BY <1>3 DEF Sells
<1>6. /\ monitor' \in [pc : {"down", "rest", "sell", "close"}, entry : Nat]
      /\ monitor'.pc = "close" /\ monitor'.entry = e
  BY <1>1 DEF Types
<1>7. Types'
  BY <1>1, <1>2, <1>3, <1>4, <1>6 DEF Types
<1>8. Opening'
  <2>1. \A f \in OpenEntries : f \in entries
    BY DEF OpenEntries
  <2>2. \A i \in DOMAIN paper_trades' :
          BoughtToday(i)' /\ i \notin entries' => ~IsClosed(i)'
    BY <1>1, <1>4 DEF Opening, IsClosed, BoughtToday
  <2>3. \A f \in OpenEntries' : \A i \in DOMAIN paper_trades' :
          Bought(i)' => paper_trades'[i].date <= paper_trades'[f].date
    BY <1>4, <2>1 DEF Opening
  <2>4. \A o \in Openers :
          /\ opener'[o] # Idle =>
               \A f \in OpenEntries' : paper_trades'[f].date = today'
          /\ (opener[o].pc = "legged" => BoughtToday(opener[o].id))'
    BY <1>1, <1>4, <2>1 DEF Opening
  <2> QED BY <1>4, <2>2, <2>3, <2>4 DEF Opening
<1>9. Pairing'
  <2>1. ~swallowed' => /\ ~swallowed
                       /\ \A p \in soldBy : p[2] \in earlier => p[1] = e
    BY <1>1, Zenon
  <2>2. soldBy \subseteq soldBy' /\ \A f : Matched(f) => Matched(f)'
    BY <1>1 DEF Matched
  <2>3. ASSUME ~swallowed' PROVE Matched(e)'
    <3>1. CASE earlier = {}
      <4>1. <<e, new>> \in soldBy' /\ <<e, new>>[1] = e
        BY <1>1, <3>1
      <4> QED BY <4>1 DEF Matched
    <3>2. CASE earlier # {}
      <4>1. PICK s \in earlier : s \in Sells
        BY <3>2 DEF Rows, Sells
      <4>2. PICK p \in soldBy : p[2] = s
        BY <4>1 DEF Pairing
      <4>3. p[1] = e
        BY <2>1, <2>3, <4>1, <4>2
      <4> QED BY <2>2, <4>2, <4>3 DEF Matched
    <3> QED BY <3>1, <3>2
  <2>4. soldBy' \subseteq entries' \X Sells'
    BY <1>1, <1>2, <1>5 DEF Pairing
  <2>5. \A s \in Sells' : \E p \in soldBy' : p[2] = s
    <3>1. CASE earlier = {}
      <4>1. <<e, new>> \in soldBy' /\ <<e, new>>[2] = new
        BY <1>1, <3>1
      <4> QED BY <1>5, <2>2, <3>1, <4>1 DEF Pairing
    <3>2. CASE earlier # {}
      BY <1>1, <1>5, <3>2 DEF Pairing
    <3> QED BY <3>1, <3>2
  <2>6. \A p, q \in soldBy' : p[2] = q[2] => p = q
    <3>1. CASE earlier = {}
      <4>1. \A p \in soldBy : p[2] \in Sells
        BY DEF Pairing
      <4>2. \A p \in soldBy : p[2] # new
        BY <1>5, <3>1, <4>1
      <4> QED BY <1>1, <3>1, <4>2 DEF Pairing
    <3>2. CASE earlier # {}
      BY <1>1, <3>2 DEF Pairing
    <3> QED BY <3>1, <3>2
  <2> QED
    BY <1>1, <1>4, <1>6, <2>1, <2>2, <2>3, <2>4, <2>5, <2>6 DEF Pairing
<1>10. Ordering'
  <2>1. \A p \in soldBy : /\ p[1] \in entries /\ p[2] \in DOMAIN paper_trades
                          /\ p[1] \in Nat /\ p[2] \in Nat
    BY DEF Pairing, Sells, Types
  <2>2. \A p \in soldBy :
          /\ p[1] < p[2]
          /\ \A i \in DOMAIN paper_trades' :
               Bought(i)' /\ paper_trades'[i].date > paper_trades'[p[1]].date =>
                 p[2] < i
    BY <1>4, <2>1 DEF Ordering
  <2>3. ASSUME earlier = {}
        PROVE  /\ e < new
               /\ \A p \in soldBy : p[2] < new
               /\ \A i \in DOMAIN paper_trades' :
                    ~(Bought(i)' /\ paper_trades'[i].date > paper_trades'[e].date)
    <3>1. \A j \in DOMAIN paper_trades : j < new
      BY <1>3, <2>3
    <3>2. \A i \in DOMAIN paper_trades :
            Bought(i) => ~(paper_trades[i].date > paper_trades[e].date)
      BY <1>2, RowFacts DEF Opening
    <3> QED BY <1>2, <1>4, <2>1, <3>1, <3>2
  <2>4. ~overtaken => \A p \in soldBy : p[1] <= e
    BY <1>2, <2>1 DEF Ordering
  <2>5. \A p \in soldBy' :
          /\ p[1] < p[2]
          /\ \A i \in DOMAIN paper_trades' :
               Bought(i)' /\ paper_trades'[i].date > paper_trades'[p[1]].date =>
                 p[2] < i
    BY <1>1, <2>2, <2>3
  <2>6. ~overtaken' => \A p, q \in soldBy' : p[1] < q[1] => p[2] < q[2]
    BY <1>1, <1>2, <2>1, <2>3, <2>4 DEF Ordering
  <2>7. ~overtaken' => \A f \in OpenEntries', g \in entries' : g <= f
    BY <1>1, <1>4 DEF Ordering
  <2> QED BY <2>5, <2>6, <2>7 DEF Ordering
<1> QED BY <1>3, <1>7, <1>8, <1>9, <1>10

\* The close: nothing else that is open or could be opened has the entry's leg.
LEMMA CloseEntryStep ==
  ASSUME Invariant, CloseEntry
  PROVE  Invariant'
<1> SUFFICES ASSUME NEW e, e = monitor.entry PROVE Invariant'
  OBVIOUS
<1> USE DEF Invariant, SellInv
<1>1. /\ monitor.pc = "close" /\ monitor' = [pc |-> "rest", entry |-> 0]
      /\ exit_events' = exit_events \cup {e}
      /\ UNCHANGED <<entries, signal, opener, today, history>>
  BY DEF CloseEntry, clock
<1>2. e \in OpenEntries /\ e \in entries /\ e \in DOMAIN paper_trades /\ Bought(e)
  BY <1>1 DEF Types, OpenEntries
<1>3. /\ paper_trades' \in Seq(Row)
      /\ DOMAIN paper_trades' = DOMAIN paper_trades
      /\ \A i \in DOMAIN paper_trades :
           /\ paper_trades'[i].leg = paper_trades[i].leg
           /\ paper_trades'[i].date = paper_trades[i].date
           /\ paper_trades'[i].action = paper_trades[i].action
           /\ paper_trades'[i].state =
                IF i = e \/ paper_trades[i].leg = paper_trades[e].leg
                  THEN "CLOSED" ELSE paper_trades[i].state
      /\ Table'
  BY CloseFacts
<1>4. /\ Sells' = Sells
      /\ \A i : /\ Bought(i)' <=> Bought(i)
                /\ BoughtToday(i)' <=> BoughtToday(i)
                /\ Matched(i)' <=> Matched(i)
      /\ \A i \in DOMAIN paper_trades : IsClosed(i) => IsClosed(i)'
      /\ IsClosed(e)'
  BY <1>1, <1>2, <1>3 DEF Sells, Bought, BoughtToday, Matched, IsClosed, history
<1>5. /\ \A f \in entries : f \in DOMAIN paper_trades /\ f \in Nat
      /\ \A f \in entries : IsClosed(f)' => IsClosed(f) \/ f = e
      /\ OpenEntries' = {}
  <2>1. \A f \in entries : f \in DOMAIN paper_trades /\ f \in Nat
    BY RowFacts DEF Types
  <2>2. \A f \in entries : IsClosed(f) \/ f = e
    BY <1>2 DEF Opening, OpenEntries
  <2> QED BY <1>1, <1>3, <1>4, <2>1, <2>2 DEF OpenEntries
<1>6. Types'
  BY <1>1, <1>2, <1>3, <1>4, <1>5 DEF Types
<1>7. Opening'
  <2>1. ASSUME NEW i \in DOMAIN paper_trades, BoughtToday(i), i \notin entries
        PROVE  ~IsClosed(i)'
    <3>1. ~IsClosed(i) /\ i # e
      BY <1>2, <2>1 DEF Opening
    <3>2. paper_trades[e].date = today
      <4>1. today <= paper_trades[e].date
        BY <1>2, <2>1 DEF Opening, BoughtToday
      <4>2. paper_trades[e].date <= today
        BY <1>2 DEF Table
      <4> QED BY <1>2, <4>1, <4>2, RowFacts
    <3>3. paper_trades[i].leg # paper_trades[e].leg
      BY <1>2, <2>1, <3>1, <3>2 DEF Table, BoughtToday, Bought
    <3> QED BY <1>3, <3>1, <3>3 DEF IsClosed
  <2> QED BY <1>1, <1>3, <1>4, <1>5, <2>1 DEF Opening
<1>8. Pairing'
  BY <1>1, <1>4, <1>5 DEF Pairing, history
<1>9. Ordering'
  <2>1. \A p \in soldBy : p[1] \in DOMAIN paper_trades
    BY DEF Pairing, Types
  <2> QED BY <1>1, <1>3, <1>4, <1>5, <2>1 DEF Ordering, history
<1> QED BY <1>3, <1>6, <1>7, <1>8, <1>9

\* The night: no opener is at work, and no row is of the new day yet.
LEMMA NextDayStep ==
  ASSUME Invariant, NextDay
  PROVE  Invariant'
<1> USE DEF Invariant, SellInv
<1>1. /\ \A o \in Openers : opener[o] = Idle
      /\ today' = today + 1 /\ signal' = NoTrade
      /\ monitor' = [pc |-> "down", entry |-> 0]
      /\ UNCHANGED <<tables, opener, history>>
  BY DEF NextDay
<1>2. OpenEntries' = OpenEntries /\ Sells' = Sells
      /\ \A i : /\ Bought(i)' <=> Bought(i)
                /\ IsClosed(i)' <=> IsClosed(i)
                /\ Matched(i)' <=> Matched(i)
  BY <1>1 DEF tables, history, OpenEntries, IsClosed, Sells, Matched, Bought
<1>3. Types'
  BY <1>1, <1>2 DEF Types, tables
<1>4. Table' /\ \A i : ~BoughtToday(i)'
  <2>1. \A i \in DOMAIN paper_trades : /\ paper_trades[i].date <= today
                                       /\ paper_trades[i].date \in Nat
    BY RowFacts DEF Table
  <2> QED BY <1>1, <2>1 DEF Table, Types, tables, BoughtToday, Bought
<1>5. Opening'
  BY <1>1, <1>2, <1>4 DEF Opening, tables, Idle
<1>6. Pairing'
  BY <1>1, <1>2 DEF Pairing, tables, history
<1>7. Ordering'
  BY <1>1, <1>2 DEF Ordering, tables, history
<1> QED BY <1>3, <1>4, <1>5, <1>6, <1>7

\* Every step keeps the invariant.
LEMMA InvariantStep ==
  ASSUME Invariant, [Next]_vars
  PROVE  Invariant'
<1>1. CASE RunPipeline
  <2>1. PICK option \in Options \cup {NoTrade} :
          signal' = option /\ Consider("morning", option)
    BY <1>1 DEF RunPipeline
  <2>2. UNCHANGED <<tables, monitor, today, history>>
    BY <1>1 DEF RunPipeline, clock
  <2> QED BY <2>1, <2>2, ConsiderStep, OpenerStep DEF Openers
<1>2. CASE StartManual
  <2>1. signal \in Options \cup {NoTrade}
    BY DEF Invariant, SellInv, Types
  <2>2. Consider("manual", signal) /\ UNCHANGED <<tables, signal, monitor, today, history>>
    BY <1>2 DEF StartManual, clock
  <2> QED BY <2>1, <2>2, ConsiderStep, OpenerStep DEF Openers
<1>3. ASSUME NEW o \in Openers, RecordOpenLeg(o)
      PROVE  Invariant'
  BY <1>3, RecordOpenLegStep
<1>4. ASSUME NEW o \in Openers, OpenEntry(o)
      PROVE  Invariant'
  BY <1>4, OpenEntryStep
<1>5. ASSUME NEW o \in Openers, EntryRefused(o) \/ OpenerStops(o)
      PROVE  Invariant'
  <2>1. /\ opener' = [opener EXCEPT ![o] = Idle]
        /\ UNCHANGED <<tables, signal, monitor, today, history>>
    BY <1>5 DEF EntryRefused, OpenerStops, clock
  <2>2. /\ signal' \in Options \cup {NoTrade}
        /\ opener' \in [Openers -> [pc : {"idle", "quoted", "legged"},
                                    leg : Options \cup {NoTrade}, id : Nat]]
        /\ \A p \in Openers : opener'[p] = opener[p] \/ opener'[p] = Idle
    BY <2>1 DEF Invariant, SellInv, Types, Idle
  <2> QED BY <2>1, <2>2, OpenerStep
<1>6. ASSUME NEW hit \in BOOLEAN, Tick(hit)
      PROVE  Invariant'
  <2>1. /\ OpenEntries # {} /\ monitor' = [pc |-> "sell", entry |-> Max(OpenEntries)]
        /\ UNCHANGED <<tables, signal, opener, today, history>>
    BY <1>6 DEF Tick, Watched, clock
  <2>2. /\ \A e, f \in OpenEntries : e = f
        /\ OpenEntries \subseteq Nat
    BY RowFacts DEF Invariant, SellInv, Opening, OpenEntries, Types
  <2>3. Max(OpenEntries) \in OpenEntries
    <3>0. PICK x \in OpenEntries : TRUE
      BY <2>1
    <3>1. x \in Nat /\ \A y \in OpenEntries : x >= y
      BY <2>2
    <3> QED BY <3>1 DEF Max
  <2> QED BY <2>1, <2>2, <2>3, MonitorStep
<1>7. CASE StartDaemon
  <2>1. monitor' = [monitor EXCEPT !.pc = "rest"]
        /\ UNCHANGED <<tables, signal, opener, today, history>>
    BY <1>7 DEF StartDaemon, clock
  <2>2. monitor' \in [pc : {"down", "rest", "sell"}, entry : Nat]
        /\ monitor'.pc = "rest"
    BY <2>1 DEF Invariant, SellInv, Types
  <2> QED BY <2>1, <2>2, MonitorStep
<1>8. CASE CallRaises \/ DaemonCrashes
  <2>1. /\ monitor' \in {[pc |-> "rest", entry |-> 0], [pc |-> "down", entry |-> 0]}
        /\ UNCHANGED <<tables, signal, opener, today, history>>
    BY <1>8 DEF CallRaises, DaemonCrashes, clock
  <2> QED BY <2>1, MonitorStep
<1>9. CASE RecordSell
  BY <1>9, RecordSellStep
<1>10. CASE CloseEntry
  BY <1>10, CloseEntryStep
<1>11. CASE NextDay
  BY <1>11, NextDayStep
<1>12. CASE SquareOff \/ UNCHANGED vars
  <2>1. UNCHANGED <<tables, signal, opener, monitor, today, history>>
    BY <1>12 DEF SquareOff, vars, clock
  <2> QED
    BY <2>1 DEF Invariant, SellInv, Types, Table, Opening, Pairing, Ordering,
       tables, history, OpenEntries, IsClosed, Sells, Matched, Bought, BoughtToday
<1> QED
  BY <1>1, <1>2, <1>3, <1>4, <1>5, <1>6, <1>7, <1>8, <1>9, <1>10, <1>11, <1>12
     DEF Next

LEMMA SpecInvariant == Spec => []Invariant
<1> QED BY InvariantInit, InvariantStep, PTL DEF Spec

-----------------------------------------------------------------------------
(* Counting.                                                               *)

LEMMA RowsFinite == Types => IsFiniteSet(DOMAIN paper_trades)
<1>1. Types => DOMAIN paper_trades = 1 .. Len(paper_trades) /\ Len(paper_trades) \in Nat
  BY DEF Types
<1> QED BY <1>1, FS_Interval

\* The entries with a SELL of their own are as many as the SELL rows, as long
\* as no entry has two.
LEMMA MatchedAreSells ==
  ASSUME SellInv, ~SoldAgain
  PROVE  LET matched == {e \in entries : Matched(e)}
         IN  IsFiniteSet(matched) /\ Cardinality(matched) = Cardinality(Sells)
<1> DEFINE matched == {e \in entries : Matched(e)}
           own(e) == CHOOSE s \in Sells : <<e, s>> \in soldBy
           sellOf == [e \in matched |-> own(e)]
<1>1. \A p \in soldBy : /\ p = <<p[1], p[2]>> /\ p[1] \in matched /\ p[2] \in Sells
  BY DEF SellInv, Pairing, Matched
<1>2. \A e \in matched : own(e) \in Sells /\ <<e, own(e)>> \in soldBy
  <2> SUFFICES ASSUME NEW e \in matched
               PROVE  own(e) \in Sells /\ <<e, own(e)>> \in soldBy
    OBVIOUS
  <2>1. \E s \in Sells : <<e, s>> \in soldBy
    BY <1>1 DEF Matched
  <2> QED BY <2>1
<1> HIDE DEF own
<1>3. /\ sellOf \in [matched -> Sells]
      /\ \A e \in matched : <<e, sellOf[e]>> \in soldBy
  BY <1>2
<1> HIDE DEF sellOf
<1>4. \A e, f \in matched : sellOf[e] = sellOf[f] => e = f
  <2> SUFFICES ASSUME NEW e \in matched, NEW f \in matched, sellOf[e] = sellOf[f]
               PROVE  e = f
    OBVIOUS
  <2>1. <<e, sellOf[e]>> = <<f, sellOf[f]>>
    BY <1>3 DEF SellInv, Pairing
  <2> QED BY <2>1
<1>5. \A s \in Sells : \E e \in matched : sellOf[e] = s
  <2> SUFFICES ASSUME NEW s \in Sells PROVE \E e \in matched : sellOf[e] = s
    OBVIOUS
  <2>1. PICK p \in soldBy : p[2] = s
    BY DEF SellInv, Pairing
  <2>2. p[1] \in matched /\ p = <<p[1], s>>
    BY <1>1, <2>1
  <2>3. <<p[1], sellOf[p[1]]>> \in soldBy
    BY <1>3, <2>2
  <2>4. p = <<p[1], sellOf[p[1]]>>
    BY <2>3 DEF SoldAgain
  <2> QED BY <2>2, <2>4
<1>6. sellOf \in Bijection(matched, Sells)
  BY <1>3, <1>4, <1>5 DEF Bijection, Injection, Surjection, IsInjective
<1>7. IsFiniteSet(matched)
  <2>1. matched \in SUBSET DOMAIN paper_trades
    BY DEF SellInv, Types
  <2> QED BY <2>1, RowsFinite, FS_Subset DEF SellInv
<1>8. ExistsBijection(matched, Sells)
  BY <1>6 DEF ExistsBijection
<1> QED BY <1>7, <1>8, FS_Bijection

\* cumulative_pnl does not raise, whatever the openers, the crashes and the
\* days: unless an exit was repeated or swallowed, closed entries and SELL rows
\* are as many, but for the exit in progress.
THEOREM SignalSellsPair == Spec => []SellsPair
<1>1. ASSUME SellInv PROVE SellsPair
  <2> SUFFICES ASSUME ~SoldAgain, ~swallowed PROVE SellsPair
    BY DEF SellsPair
  <2> DEFINE closed == {e \in entries : IsClosed(e)}
             selling == {e \in OpenEntries : \E p \in soldBy : p[1] = e}
             matched == {e \in entries : Matched(e)}
  <2>1. closed \cup selling = matched /\ closed \cap selling = {}
    BY <1>1 DEF SellInv, Pairing, Matched, OpenEntries
  <2>2. IsFiniteSet(matched) /\ Cardinality(matched) = Cardinality(Sells)
    BY <1>1, MatchedAreSells
  <2>3. /\ IsFiniteSet(closed) /\ IsFiniteSet(selling)
        /\ Cardinality(closed) \in Nat /\ Cardinality(selling) \in Nat
    <3>1. closed \in SUBSET matched /\ selling \in SUBSET matched
      BY <2>1
    <3> HIDE DEF closed, selling, matched
    <3>2. IsFiniteSet(closed) /\ IsFiniteSet(selling)
      BY <2>2, <3>1, FS_Subset
    <3> QED BY <3>2, FS_CardinalityType
  <2>4. Cardinality(closed) + Cardinality(selling) = Cardinality(matched)
    <3> HIDE DEF closed, selling, matched
    <3>1. Cardinality(closed \cup selling) =
            Cardinality(closed) + Cardinality(selling) - Cardinality(closed \cap selling)
      BY <2>3, FS_Union
    <3>2. Cardinality(closed \cap selling) = 0
      BY <2>1, FS_EmptySet
    <3> QED BY <2>1, <2>3, <3>1, <3>2
  <2> QED BY <2>2, <2>4 DEF SellsPair
<1> QED
  BY <1>1, SpecInvariant, PTL DEF Invariant

-----------------------------------------------------------------------------
(* The evening job.                                                        *)

\* A set of numbers has a least element: the intervals below its members are
\* finite sets, which strict inclusion orders well.
LEMMA MinFacts ==
  ASSUME NEW S \in SUBSET Nat, S # {}
  PROVE  Min(S) \in S /\ \A y \in S : Min(S) <= y
<1> DEFINE below == {0 .. n : n \in S}
<1>1. below \subseteq FiniteSubsetsOf(Nat) /\ below # {}
  <2>1. \A n \in S : 0 .. n \in SUBSET Nat /\ IsFiniteSet(0 .. n)
    BY FS_Interval
  <2> QED BY <2>1 DEF FiniteSubsetsOf
<1> HIDE DEF below
<1>2. PICK b \in below : \A c \in below : ~(<<c, b>> \in StrictSubsetOrdering(Nat))
  BY <1>1, FS_StrictSubsetOrderingWellFounded, WFMin
<1>3. PICK m \in S : b = 0 .. m
  BY DEF below
<1>4. ASSUME NEW y \in S PROVE m <= y
  <2> SUFFICES ASSUME y < m PROVE FALSE
    OBVIOUS
  <2>1. 0 .. y \in below
    BY DEF below
  <2>2. /\ 0 .. y \in SUBSET Nat /\ 0 .. m \in SUBSET Nat
        /\ 0 .. y \subseteq 0 .. m /\ m \in 0 .. m /\ m \notin 0 .. y
    OBVIOUS
  <2>3. <<0 .. y, b>> \in StrictSubsetOrdering(Nat)
    BY <1>3, <2>2 DEF StrictSubsetOrdering
  <2> QED BY <1>2, <2>1, <2>3
<1> QED BY <1>4 DEF Min

\* The first SELL after the first entry of a day is that entry's: the entries
\* of earlier days were sold before its BUY, the later ones after its own SELL.
LEMMA FirstSellIsOwn ==
  ASSUME Invariant, ~overtaken, ~swallowed, NEW date \in Nat,
         LiveEntries(date) # {}, Outcome(date).sell # 0
  PROVE  <<Outcome(date).entry, Outcome(date).sell>> \in soldBy
<1> USE DEF Invariant, SellInv
<1> DEFINE e == Min(LiveEntries(date))
           after == {i \in Sells : i > e}
           s == Min(after)
<1>1. e \in LiveEntries(date) /\ \A f \in LiveEntries(date) : e <= f
  <2>1. LiveEntries(date) \in SUBSET Nat
    BY RowFacts DEF LiveEntries, Types
  <2> QED BY <2>1, MinFacts
<1>2. /\ Outcome(date).entry = e /\ Outcome(date).sell = s
      /\ e \in exit_events /\ after # {}
  BY DEF Outcome, SignalExit
<1>3. e \in entries /\ e \in Nat /\ paper_trades[e].date = date /\ Bought(e)
      /\ e \in DOMAIN paper_trades
  BY <1>1, RowFacts DEF LiveEntries, Types
<1> HIDE DEF e
<1>4. s \in Sells /\ s > e /\ s \in Nat /\ \A i \in after : s <= i
  <2>1. after \in SUBSET Nat
    BY RowFacts DEF Sells
  <2> QED BY <1>2, <2>1, MinFacts
<1> HIDE DEF s
<1>5. PICK p \in soldBy : p[2] = s
  BY <1>4 DEF Pairing
<1>6. PICK q \in soldBy : q[1] = e
  BY <1>2 DEF Pairing, Types, Matched
<1>7. /\ p[1] \in entries /\ p[1] \in Nat /\ p = <<p[1], s>>
      /\ p[1] \in DOMAIN paper_trades
  BY <1>5, RowFacts DEF Pairing, Types
<1>8. CASE p[1] = e
  BY <1>2, <1>7, <1>8
<1>9. CASE p[1] > e
  <2>1. q[2] < s
    BY <1>3, <1>5, <1>6, <1>7, <1>9 DEF Ordering
  <2>2. q[2] \in after
    BY <1>6 DEF Ordering, Pairing
  <2>3. q[2] \in Nat
    BY <2>2, RowFacts DEF Sells
  <2> QED BY <1>4, <2>1, <2>2, <2>3
<1>10. CASE p[1] < e
  <2>1. paper_trades[p[1]].date <= date /\ paper_trades[p[1]].date \in Nat
    BY <1>3, <1>7, <1>10, RowFacts DEF Table
  <2>2. paper_trades[p[1]].date # date
    BY <1>1, <1>3, <1>7, <1>10 DEF LiveEntries
  <2>3. s < e
    BY <1>3, <1>5, <2>1, <2>2 DEF Ordering
  <2> QED BY <1>3, <1>4, <2>3
<1> QED BY <1>3, <1>7, <1>8, <1>9, <1>10

\* Whenever the evening job runs and whatever the date, it pairs an entry with
\* the exit of that entry, unless an entry was opened before one with an
\* earlier row or an exit was swallowed.
THEOREM SignalOutcomeIsOwn == Spec => []OutcomeIsOwn
<1>1. ASSUME Invariant PROVE OutcomeIsOwn
  <2> SUFFICES ASSUME ~overtaken, ~swallowed,
                      NEW date \in Days, LiveEntries(date) # {},
                      Outcome(date).sell # 0
               PROVE  <<Outcome(date).entry, Outcome(date).sell>> \in soldBy
    BY DEF OutcomeIsOwn
  <2>1. date \in Nat
    BY DEF Days
  <2> QED BY <2>1, <1>1, FirstSellIsOwn
<1> QED
  BY <1>1, SpecInvariant, PTL

-----------------------------------------------------------------------------
(* The types.                                                              *)

\* What the types need beside the invariant: every row is of a day there was,
\* and a process in the middle of its work holds the id of a row.
Bounds ==
    /\ \A i \in DOMAIN paper_trades : paper_trades[i].date \in Days
    /\ \A o \in Openers : opener[o].id \in {0} \cup DOMAIN paper_trades
    /\ monitor.entry \in {0} \cup entries
    /\ fired \subseteq entries
    /\ today \in Days
    /\ late \in BOOLEAN
    /\ crashes \in 0 .. MaxCrashes
    /\ overtaken \in BOOLEAN
    /\ swallowed \in BOOLEAN

\* Rows that differ in leg, date or action are as many as there are of those.
LEMMA RowsBounded ==
  ASSUME Types, Table, \A i \in DOMAIN paper_trades : paper_trades[i].date \in Days
  PROVE  /\ MaxRows \in Nat /\ Len(paper_trades) <= MaxRows
         /\ \A i \in DOMAIN paper_trades : i \in 0 .. MaxRows
<1> DEFINE N == Len(paper_trades)
           S == 1 .. N
           T == (Options \X Days) \X Sides
           key == [i \in S |-> <<<<paper_trades[i].leg, paper_trades[i].date>>,
                                 paper_trades[i].action>>]
<1>1. N \in Nat /\ DOMAIN paper_trades = S /\ \A i \in S : paper_trades[i] \in Row
  BY DEF Types
<1>2. key \in [S -> T]
  BY <1>1 DEF Row
<1>3. \A i, j \in S : key[i] = key[j] => i = j
  BY <1>1 DEF Table
<1>4. key \in Injection(S, T)
  <2> HIDE DEF key, S, T
  <2> QED BY <1>2, <1>3 DEF Injection, IsInjective
<1>5. IsFiniteSet(T) /\ Cardinality(T) = Cardinality(Options) * LastDay * 2
      /\ Cardinality(Options) \in Nat
  <2>1. IsFiniteSet(Days) /\ Cardinality(Days) = LastDay
    BY SignalAssumption, FS_Interval DEF Days
  <2>2. IsFiniteSet(Options \X Days)
        /\ Cardinality(Options \X Days) = Cardinality(Options) * LastDay
    BY <2>1, SignalAssumption, FS_Product
  <2>3. IsFiniteSet({"BUY"}) /\ Cardinality({"BUY"}) = 1
    BY FS_Singleton
  <2>4. IsFiniteSet(Sides) /\ Cardinality(Sides) = 2
    <3>1. Sides = {"BUY"} \cup {"SELL"} /\ "SELL" \notin {"BUY"}
      BY DEF Sides
    <3> QED BY <2>3, <3>1, FS_AddElement
  <2>5. IsFiniteSet(T) /\ Cardinality(T) = Cardinality(Options \X Days) * Cardinality(Sides)
    BY <2>2, <2>4, FS_Product
  <2>6. Cardinality(Options) \in Nat
    BY SignalAssumption, FS_CardinalityType
  <2> QED BY <2>2, <2>4, <2>5, <2>6
<1>6. Cardinality(S) <= Cardinality(T)
  <2> HIDE DEF key, S, T
  <2> QED BY <1>4, <1>5, FS_Injection
<1>7. Cardinality(S) = N
  <2>1. N \in Nat
    BY <1>1
  <2> HIDE DEF N
  <2>2. Cardinality(1 .. N) = IF 1 > N THEN 0 ELSE N - 1 + 1
    BY <2>1, FS_Interval
  <2> QED BY <2>1, <2>2
<1>8. MaxRows \in Nat /\ N <= MaxRows
  <2>1. MaxRows = Cardinality(T)
    BY <1>5 DEF MaxRows
  <2>2. Cardinality(T) \in Nat
    BY <1>5, FS_CardinalityType
  <2> QED BY <1>6, <1>7, <2>1, <2>2
<1>9. \A i \in S : i \in 0 .. MaxRows
  <2> HIDE DEF N
  <2> QED BY <1>1, <1>8
<1> QED BY <1>1, <1>8, <1>9

\* Rows are only added, and entries too.
LEMMA Grows ==
  ASSUME Invariant, [Next]_vars
  PROVE  /\ \A i \in DOMAIN paper_trades :
              i \in DOMAIN paper_trades' /\ paper_trades'[i].date = paper_trades[i].date
         /\ \A i \in DOMAIN paper_trades' \ DOMAIN paper_trades : paper_trades'[i].date = today
         /\ entries \subseteq entries'
<1> USE DEF Invariant, SellInv
<1>1. ASSUME NEW o \in Openers, RecordOpenLeg(o)
      PROVE  /\ \A i \in DOMAIN paper_trades :
                  i \in DOMAIN paper_trades' /\ paper_trades'[i].date = paper_trades[i].date
             /\ \A i \in DOMAIN paper_trades' \ DOMAIN paper_trades :
                  paper_trades'[i].date = today
             /\ entries \subseteq entries'
  <2>1. InsertTrade(opener[o].leg, "BUY") /\ UNCHANGED <<entries, today>>
        /\ opener[o].pc = "quoted"
    BY <1>1 DEF RecordOpenLeg, clock
  <2>2. opener[o].leg \in Options /\ "BUY" \in Sides
    BY <2>1 DEF Types, Sides
  <2> DEFINE leg == opener[o].leg
  <2>3. leg \in Options /\ InsertTrade(leg, "BUY")
    BY <2>1, <2>2
  <2> HIDE DEF leg
  <2> QED BY <2>1, <2>2, <2>3, InsertFacts
<1>2. ASSUME RecordSell
      PROVE  /\ \A i \in DOMAIN paper_trades :
                  i \in DOMAIN paper_trades' /\ paper_trades'[i].date = paper_trades[i].date
             /\ \A i \in DOMAIN paper_trades' \ DOMAIN paper_trades :
                  paper_trades'[i].date = today
             /\ entries \subseteq entries'
  <2> DEFINE leg == paper_trades[monitor.entry].leg
  <2>1. InsertTrade(leg, "SELL") /\ UNCHANGED <<entries, today>> /\ monitor.pc = "sell"
    BY <1>2 DEF RecordSell, clock
  <2>2. leg \in Options /\ "SELL" \in Sides
    BY <2>1, RowFacts DEF Types, OpenEntries, Sides
  <2> HIDE DEF leg
  <2> QED BY <2>1, <2>2, InsertFacts
<1>3. ASSUME CloseEntry
      PROVE  /\ \A i \in DOMAIN paper_trades :
                  i \in DOMAIN paper_trades' /\ paper_trades'[i].date = paper_trades[i].date
             /\ \A i \in DOMAIN paper_trades' \ DOMAIN paper_trades :
                  paper_trades'[i].date = today
             /\ entries \subseteq entries'
  BY <1>3, CloseFacts DEF CloseEntry
<1>4. ASSUME NEW o \in Openers, OpenEntry(o)
      PROVE  UNCHANGED paper_trades /\ entries \subseteq entries'
  BY <1>4 DEF OpenEntry
<1>5. ASSUME UNCHANGED tables
      PROVE  UNCHANGED paper_trades /\ entries \subseteq entries'
  BY <1>5 DEF tables
<1>6. CASE \/ RunPipeline \/ StartManual \/ StartDaemon \/ CallRaises \/ DaemonCrashes
           \/ SquareOff \/ NextDay \/ UNCHANGED vars
           \/ \E hit \in BOOLEAN : Tick(hit)
           \/ \E o \in Openers : EntryRefused(o) \/ OpenerStops(o)
  <2>1. UNCHANGED tables
    BY <1>6 DEF RunPipeline, StartManual, StartDaemon, CallRaises, DaemonCrashes, SquareOff,
       NextDay, vars, Tick, EntryRefused, OpenerStops
  <2> QED BY <1>5, <2>1
<1> QED BY <1>1, <1>2, <1>3, <1>4, <1>6 DEF Next

LEMMA BoundsInit == Init => Bounds
<1>1. 1 \in Days /\ 0 \in 0 .. MaxCrashes
  <2>1. LastDay \in Nat /\ LastDay # 0 /\ MaxCrashes \in Nat
    BY SignalAssumption
  <2> QED BY <2>1 DEF Days
<1> SUFFICES ASSUME Init PROVE Bounds
  OBVIOUS
<1>2. \A o \in Openers : opener[o].id = 0
  BY DEF Init, Idle
<1>3. DOMAIN paper_trades = {}
  BY DEF Init
<1>4. /\ monitor.entry = 0 /\ fired = {} /\ today = 1 /\ late = FALSE /\ crashes = 0
      /\ overtaken = FALSE /\ swallowed = FALSE
  BY DEF Init
<1> QED BY <1>1, <1>2, <1>3, <1>4 DEF Bounds

\* Only a step that says so changes each of the rest.
LEMMA BoundsStep ==
  ASSUME Invariant, Bounds, [Next]_vars
  PROVE  Bounds'
<1> USE DEF Invariant, SellInv
<1>1. /\ \A i \in DOMAIN paper_trades :
           i \in DOMAIN paper_trades' /\ paper_trades'[i].date = paper_trades[i].date
      /\ \A i \in DOMAIN paper_trades' \ DOMAIN paper_trades : paper_trades'[i].date = today
      /\ entries \subseteq entries'
  BY Grows
<1>2. \A i \in DOMAIN paper_trades' : paper_trades'[i].date \in Days
  BY <1>1 DEF Bounds
<1>3. \A o \in Openers : opener'[o].id \in {0} \cup DOMAIN paper_trades'
  <2> SUFFICES ASSUME NEW o \in Openers PROVE opener'[o].id \in {0} \cup DOMAIN paper_trades'
    OBVIOUS
  <2>1. opener[o].id \in {0} \cup DOMAIN paper_trades'
    BY <1>1 DEF Bounds
  <2>2. opener \in [Openers -> [pc : {"idle", "quoted", "legged"},
                                leg : Options \cup {NoTrade}, id : Nat]]
    BY DEF Types
  <2>3. ASSUME NEW p \in Openers, NEW leg, Consider(p, leg)
        PROVE  opener'[o].id \in {0} \cup DOMAIN paper_trades'
    BY <2>1, <2>2, <2>3 DEF Consider, Idle
  <2>4. ASSUME NEW p \in Openers, RecordOpenLeg(p)
        PROVE  opener'[o].id \in {0} \cup DOMAIN paper_trades'
    <3>1. PICK id \in DOMAIN paper_trades' :
            opener' = [opener EXCEPT ![p].pc = "legged", ![p].id = id]
      BY <2>4 DEF RecordOpenLeg
    <3>2. opener'[p].id = id /\ (o # p => opener'[o] = opener[o])
      BY <2>2, <3>1
    <3> QED BY <2>1, <3>1, <3>2
  <2>5. ASSUME NEW p \in Openers, OpenEntry(p) \/ EntryRefused(p) \/ OpenerStops(p)
        PROVE  opener'[o].id \in {0} \cup DOMAIN paper_trades'
    <3>1. opener' = [opener EXCEPT ![p] = Idle]
      BY <2>5 DEF OpenEntry, EntryRefused, OpenerStops
    <3> QED BY <2>1, <2>2, <3>1 DEF Idle
  <2>6. CASE \/ StartDaemon \/ RecordSell \/ CloseEntry \/ CallRaises \/ DaemonCrashes
             \/ SquareOff \/ NextDay \/ UNCHANGED vars
             \/ \E hit \in BOOLEAN : Tick(hit)
    <3>1. UNCHANGED opener
      BY <2>6 DEF StartDaemon, RecordSell, CloseEntry, CallRaises, DaemonCrashes, SquareOff,
         NextDay, vars, Tick
    <3> QED BY <2>1, <3>1
  <2>7. CASE RunPipeline \/ StartManual
    <3>1. PICK p \in Openers : \E leg : Consider(p, leg)
      BY <2>7 DEF RunPipeline, StartManual, Openers
    <3> QED BY <2>3, <3>1
  <2> QED BY <2>4, <2>5, <2>6, <2>7 DEF Next
<1>4. monitor'.entry \in {0} \cup entries' /\ fired' \subseteq entries'
  <2>1. monitor.entry \in {0} \cup entries' /\ fired \subseteq entries'
    BY <1>1 DEF Bounds
  <2>2. ASSUME NEW hit \in BOOLEAN, Tick(hit)
        PROVE  monitor'.entry \in {0} \cup entries' /\ fired' \subseteq entries'
    <3>1. Max(OpenEntries) \in OpenEntries
      <4>1. OpenEntries # {} /\ OpenEntries \subseteq Nat
            /\ \A e, f \in OpenEntries : e = f
        BY <2>2, RowFacts DEF Tick, Watched, Opening, OpenEntries, Types
      <4>2. PICK x \in OpenEntries : TRUE
        BY <4>1
      <4>3. x \in Nat /\ \A y \in OpenEntries : x >= y
        BY <4>1
      <4> QED BY <4>3 DEF Max
    <3>2. /\ monitor'.entry = Max(OpenEntries)
          /\ fired' = fired \cup {Max(OpenEntries)}
          /\ UNCHANGED entries
      BY <2>2 DEF Tick, tables
    <3> QED BY <2>1, <3>1, <3>2 DEF OpenEntries
  <2>3. CASE StartDaemon \/ RecordSell
    <3>1. monitor'.entry = monitor.entry /\ fired' = fired
      BY <2>3 DEF StartDaemon, RecordSell, Types
    <3> QED BY <2>1, <3>1
  <2>4. CASE CloseEntry \/ CallRaises \/ DaemonCrashes \/ NextDay
    <3>1. monitor'.entry = 0 /\ (fired' = fired \/ fired' = {})
      BY <2>4 DEF CloseEntry, CallRaises, DaemonCrashes, NextDay
    <3> QED BY <2>1, <3>1
  <2>5. CASE \/ RunPipeline \/ StartManual \/ SquareOff \/ UNCHANGED vars
             \/ \E o \in Openers : \/ RecordOpenLeg(o) \/ OpenEntry(o) \/ EntryRefused(o)
                                   \/ OpenerStops(o)
    <3>1. UNCHANGED <<monitor, fired>>
      BY <2>5 DEF RunPipeline, StartManual, SquareOff, vars, RecordOpenLeg, OpenEntry,
         EntryRefused, OpenerStops
    <3> QED BY <2>1, <3>1
  <2> QED BY <2>2, <2>3, <2>4, <2>5 DEF Next
<1>5. today' \in Days /\ late' \in BOOLEAN
  <2>1. CASE NextDay
    <3>1. today \in Nat /\ today >= 1 /\ today < LastDay /\ today' = today + 1 /\ late' = FALSE
      BY <2>1 DEF NextDay, Bounds, Days
    <3>2. LastDay \in Nat
      BY SignalAssumption
    <3>3. today + 1 \in 1 .. LastDay
      BY <3>1, <3>2
    <3> QED BY <3>1, <3>3 DEF Days
  <2>2. CASE SquareOff
    BY <2>2 DEF SquareOff, Bounds
  <2>3. CASE ~NextDay /\ ~SquareOff
    <3>1. UNCHANGED clock
      BY <2>3 DEF Next, vars, RunPipeline, StartManual, RecordOpenLeg, OpenEntry, EntryRefused,
         OpenerStops, StartDaemon, Tick, RecordSell, CloseEntry, CallRaises, DaemonCrashes
    <3> QED BY <3>1 DEF clock, Bounds
  <2> QED BY <2>1, <2>2, <2>3
<1>6. crashes' \in 0 .. MaxCrashes
  <2>1. CASE DaemonCrashes
    BY <2>1, SignalAssumption DEF DaemonCrashes, Bounds
  <2>2. CASE ~DaemonCrashes
    <3>1. UNCHANGED crashes
      BY <2>2 DEF Next, vars, RunPipeline, StartManual, RecordOpenLeg, OpenEntry, EntryRefused,
         OpenerStops, StartDaemon, Tick, RecordSell, CloseEntry, CallRaises, SquareOff, NextDay
    <3> QED BY <3>1 DEF Bounds
  <2> QED BY <2>1, <2>2
<1>7. overtaken' \in BOOLEAN /\ swallowed' \in BOOLEAN
  <2>1. ASSUME NEW o \in Openers, OpenEntry(o)
        PROVE  overtaken' \in BOOLEAN /\ swallowed' \in BOOLEAN
    BY <2>1 DEF OpenEntry, Bounds
  <2>2. CASE RecordSell
    BY <2>2 DEF RecordSell, Bounds
  <2>3. CASE ~RecordSell /\ ~\E o \in Openers : OpenEntry(o)
    <3>1. UNCHANGED <<overtaken, swallowed>>
      BY <2>3 DEF Next, vars, history, RunPipeline, StartManual, RecordOpenLeg, EntryRefused,
         OpenerStops, StartDaemon, Tick, CloseEntry, CallRaises, DaemonCrashes, SquareOff, NextDay
    <3> QED BY <3>1 DEF Bounds
  <2> QED BY <2>1, <2>2, <2>3
<1> QED BY <1>2, <1>3, <1>4, <1>5, <1>6, <1>7 DEF Bounds

LEMMA SignalTypes ==
  ASSUME Invariant, Bounds
  PROVE  TypeOK
<1> USE DEF Invariant, SellInv
<1>1. /\ MaxRows \in Nat /\ Len(paper_trades) <= MaxRows
      /\ \A i \in DOMAIN paper_trades : i \in 0 .. MaxRows
  BY RowsBounded DEF Bounds
<1>2. paper_trades \in Seq(Trade)
  <2>1. paper_trades \in Seq(Row) /\ \A i \in DOMAIN paper_trades : paper_trades[i].date \in Days
    BY DEF Types, Bounds
  <2>2. \A r \in Row : r.date \in Days => r \in Trade
    BY DEF Row, Trade
  <2>3. \A i \in 1 .. Len(paper_trades) : paper_trades[i] \in Row
    BY <2>1
  <2>4. \A i \in 1 .. Len(paper_trades) : paper_trades[i] \in Trade
    BY <2>1, <2>2, <2>3
  <2> QED BY <2>1, <2>4
<1>3. opener \in [Openers -> [pc : {"idle", "quoted", "legged"},
                              leg : Options \cup {NoTrade}, id : 0 .. MaxRows]]
  <2>1. \A o \in Openers : opener[o].id \in 0 .. MaxRows
    BY <1>1 DEF Bounds
  <2> QED BY <2>1 DEF Types
<1>4. /\ entries \subseteq DOMAIN paper_trades \ Sells
      /\ exit_events \subseteq entries
  BY DEF Types, Bought, Sells
<1>5. monitor \in [pc : {"down", "rest", "sell", "close"}, entry : {0} \cup entries]
  BY DEF Types, Bounds
<1> QED BY <1>1, <1>2, <1>3, <1>4, <1>5 DEF TypeOK, Types, Bounds, Pairing

LEMMA SignalAlways ==
  Init /\ [][Next]_vars => []TypeOK
<1>1. Init => Invariant /\ Bounds
  BY InvariantInit, BoundsInit
<1>2. Invariant /\ Bounds /\ [Next]_vars => Invariant' /\ Bounds'
  BY InvariantStep, BoundsStep
<1>3. Invariant /\ Bounds => TypeOK
  BY SignalTypes
<1> QED BY <1>1, <1>2, <1>3, PTL

-----------------------------------------------------------------------------
(* The gamma scan.                                                         *)

\* The contract a scan looks at is the next one to expire.
LEMMA GammaNextExpiry ==
  ASSUME Gamma!Timetable, gammaDay \in 1 .. GammaDays
  PROVE  /\ Gamma!Expiry \in Expiries /\ Gamma!Expiry \in Nat /\ gammaDay <= Gamma!Expiry
         /\ \A e \in Expiries : gammaDay <= e => Gamma!Expiry <= e
<1> DEFINE S == {e \in Expiries : e >= gammaDay}
<1>1. S \in SUBSET Nat /\ S # {}
  BY DEF Gamma!Timetable
<1>2. Min(S) \in S /\ \A y \in S : Min(S) <= y
  <2> HIDE DEF S
  <2> QED BY <1>1, MinFacts
<1> QED BY <1>1, <1>2 DEF Gamma!Expiry, Gamma!Min, Min

\* What a scan that is running looks like, and that it is the only one that
\* says so.
LEMMA GammaScanFacts ==
  ASSUME Gamma!Types
  PROVE  /\ scan.pc = "scan" <=> scan \in Gamma!Scan
         /\ scan # Gamma!Idle /\ scan # Gamma!Cron <=> scan \in Gamma!Scan
         /\ scan.pc \in {"idle", "cron", "scan"}
         /\ scan = Gamma!Idle <=> scan.pc = "idle"
         /\ scan = Gamma!Cron <=> scan.pc = "cron"
BY DEF Gamma!Types, Gamma!Idle, Gamma!Cron, Gamma!Scan

\* Recording a trade, with or without the mark that follows it.
LEMMA GammaRecorded ==
  ASSUME NEW T, Gamma!IsTable(T, Gamma!Contract), NEW t \in Gamma!TradeRow(Gamma!Contract), NEW U,
         \/ U = Gamma!RecordTrade(T, t)
         \/ \E l \in Gamma!Contract : U = Gamma!MarkTradeClosed(Gamma!RecordTrade(T, t), l)
  PROVE  /\ Gamma!IsTable(U, Gamma!Contract)
         /\ \A l : Gamma!Held(U, l) = Gamma!Held(T, l) + IF t.leg = l /\ ~Gamma!Duplicate(T, t)
                                               THEN Gamma!Amount(t) ELSE 0
         /\ \A q \in T : \E r \in U : Gamma!SameKey(r, q)
         /\ ~Gamma!Duplicate(T, t) => \E r \in U : Gamma!SameKey(r, t)
         /\ \A r \in U : Gamma!SameKey(r, t) \/ \E q \in T : Gamma!SameKey(r, q)
<1> DEFINE V == Gamma!RecordTrade(T, t)
<1>1. /\ Gamma!IsTable(V, Gamma!Contract)
      /\ \A l : Gamma!Held(V, l) = Gamma!Held(T, l) + IF t.leg = l /\ ~Gamma!Duplicate(T, t)
                                            THEN Gamma!Amount(t) ELSE 0
  <2>1. CASE Gamma!Duplicate(T, t)
    <3>1. V = T
      BY <2>1 DEF Gamma!RecordTrade
    <3>2. \A l : Gamma!Held(T, l) \in Int
      BY Gamma!HeldType
    <3> QED BY <2>1, <3>1, <3>2
  <2>2. CASE ~Gamma!Duplicate(T, t)
    BY <2>2, Gamma!RecordTradeTable
  <2> QED BY <2>1, <2>2
<1>2. /\ \A q \in T : q \in V
      /\ ~Gamma!Duplicate(T, t) => t \in V
      /\ \A r \in V : r = t \/ r \in T
  BY DEF Gamma!RecordTrade
<1> HIDE DEF V
<1>3. CASE U = V
  BY <1>1, <1>2, <1>3 DEF Gamma!SameKey
<1>4. ASSUME NEW l \in Gamma!Contract, U = Gamma!MarkTradeClosed(V, l)
      PROVE  /\ Gamma!IsTable(U, Gamma!Contract)
             /\ \A m : Gamma!Held(U, m) = Gamma!Held(V, m)
             /\ \A q \in V : \E r \in U : Gamma!SameKey(r, q)
             /\ \A r \in U : \E q \in V : Gamma!SameKey(r, q)
  <2>1. Gamma!IsTable(U, Gamma!Contract) /\ \A m : Gamma!Held(U, m) = Gamma!Held(V, m)
    BY <1>1, <1>4, Gamma!MarkTradeClosedTable
  <2> DEFINE f(r) == IF r.leg = l /\ r.state \in Gamma!OpenStates
                       THEN [r EXCEPT !.state = "CLOSED"] ELSE r
  <2>2. U = {f(r) : r \in V}
    BY <1>4 DEF Gamma!MarkTradeClosed
  <2>3. \A r \in V : Gamma!SameKey(f(r), r)
    BY <1>1 DEF Gamma!IsTable, Gamma!TradeRow, Gamma!SameKey
  <2> HIDE DEF f
  <2> QED BY <2>1, <2>2, <2>3
<1>5. CASE \E l \in Gamma!Contract : U = Gamma!MarkTradeClosed(V, l)
  <2>1. /\ Gamma!IsTable(U, Gamma!Contract)
        /\ \A m : Gamma!Held(U, m) = Gamma!Held(V, m)
        /\ \A q \in V : \E r \in U : Gamma!SameKey(r, q)
        /\ \A r \in U : \E q \in V : Gamma!SameKey(r, q)
    BY <1>4, <1>5
  <2> QED BY <1>1, <1>2, <2>1 DEF Gamma!SameKey
<1> QED BY <1>3, <1>5 DEF V

\* The table part of the types after such a step.
LEMMA GammaRecordedTypes ==
  ASSUME Gamma!Types, NEW t \in Gamma!TradeRow(Gamma!Contract),
         t.date \in 1 .. GammaDays, t.date <= t.leg.expiry,
         \/ gamma_trades' = Gamma!RecordTrade(gamma_trades, t)
         \/ \E l \in Gamma!Contract : gamma_trades' = Gamma!MarkTradeClosed(Gamma!RecordTrade(gamma_trades, t), l)
  PROVE  /\ Gamma!IsTable(gamma_trades', Gamma!Contract)
         /\ gamma_trades' \subseteq [leg : Gamma!Contract, date : 1 .. GammaDays,
                                     action : Gamma!Actions, qty : Nat \ {0}, state : Gamma!States]
         /\ \A r \in gamma_trades' : r.date <= r.leg.expiry
         /\ \A q \in gamma_trades : \E r \in gamma_trades' : Gamma!SameKey(r, q)
         /\ ~Gamma!Duplicate(gamma_trades, t) => \E r \in gamma_trades' : Gamma!SameKey(r, t)
         /\ \A l \in Gamma!Contract : Gamma!Net(l)' = Gamma!Net(l) + IF t.leg = l /\ ~Gamma!Duplicate(gamma_trades, t)
                                        THEN Gamma!Amount(t) ELSE 0
<1> DEFINE T == gamma_trades
           U == gamma_trades'
<1>1. Gamma!IsTable(T, Gamma!Contract) /\ \A r \in T : r.date \in 1 .. GammaDays /\ r.date <= r.leg.expiry
  BY DEF Gamma!Types, Gamma!TypeOK
<1>2. \/ U = Gamma!RecordTrade(T, t)
      \/ \E l \in Gamma!Contract : U = Gamma!MarkTradeClosed(Gamma!RecordTrade(T, t), l)
  OBVIOUS
<1>3. \A l : Gamma!Net(l) = Gamma!Held(T, l) /\ Gamma!Net(l)' = Gamma!Held(U, l)
  BY DEF Gamma!Net, Gamma!Held
<1> HIDE DEF T, U
<1>4. /\ Gamma!IsTable(U, Gamma!Contract)
      /\ \A l : Gamma!Held(U, l) = Gamma!Held(T, l) + IF t.leg = l /\ ~Gamma!Duplicate(T, t)
                                            THEN Gamma!Amount(t) ELSE 0
      /\ \A q \in T : \E r \in U : Gamma!SameKey(r, q)
      /\ ~Gamma!Duplicate(T, t) => \E r \in U : Gamma!SameKey(r, t)
      /\ \A r \in U : Gamma!SameKey(r, t) \/ \E q \in T : Gamma!SameKey(r, q)
  BY <1>1, <1>2, GammaRecorded
<1>5. \A r \in U : r.date \in 1 .. GammaDays /\ r.date <= r.leg.expiry
  BY <1>1, <1>4 DEF Gamma!SameKey
<1>6. U \subseteq [leg : Gamma!Contract, date : 1 .. GammaDays,
                   action : Gamma!Actions, qty : Nat \ {0}, state : Gamma!States]
  BY <1>4, <1>5 DEF Gamma!IsTable, Gamma!TradeRow
<1> QED BY <1>3, <1>4, <1>5, <1>6 DEF T, U

\* The net quantities are whole numbers.
LEMMA GammaNetType ==
  ASSUME Gamma!Types
  PROVE  \A l : Gamma!Net(l) \in Int
<1> DEFINE T == gamma_trades
<1>1. Gamma!IsTable(T, Gamma!Contract)
  BY DEF Gamma!Types
<1>2. \A l : Gamma!Net(l) = Gamma!Held(T, l)
  BY DEF Gamma!Net, Gamma!Held
<1> HIDE DEF T
<1> QED BY <1>1, <1>2, Gamma!HeldType

\* A contract that is held has a row.
LEMMA GammaNetHasRow ==
  ASSUME Gamma!Types, NEW l \in Gamma!Contract, Gamma!Net(l) # 0
  PROVE  \E r \in gamma_trades : r.leg = l
BY Gamma!HeldHasRow DEF Gamma!Net, Gamma!Held

\* The signal a scan is about to look at.
LEMMA GammaOfIsOpen ==
  ASSUME Gamma!Types, Gamma!LogInv, Gamma!ScanInv, scan.pc = "scan", NEW p \in scan.exit
  PROVE  /\ Gamma!Of(p) \in Gamma!OpenSignals /\ Gamma!Of(p) \in signal_log
         /\ Gamma!Of(p).leg = p.leg /\ Gamma!Of(p).day = p.day /\ Gamma!Of(p).exited = FALSE
         /\ Gamma!Of(p) \in [leg : Gamma!Contract, day : 1 .. GammaDays,
                       exited : BOOLEAN, profit : BOOLEAN]
         /\ p \in Gamma!Position /\ p = [leg |-> p.leg, day |-> p.day]
<1>1. PICK s \in Gamma!OpenSignals : s.leg = p.leg /\ s.day = p.day
  BY DEF Gamma!ScanInv
<1>2. s \in signal_log /\ ~s.exited
  BY <1>1 DEF Gamma!OpenSignals
<1>3. /\ Gamma!Of(p) \in signal_log /\ Gamma!Of(p).leg = p.leg /\ Gamma!Of(p).day = p.day
  BY <1>1, <1>2 DEF Gamma!Of
<1>4. Gamma!Of(p) = s
  BY <1>1, <1>2, <1>3 DEF Gamma!LogInv
<1>5. p \in Gamma!Position /\ p = [leg |-> p.leg, day |-> p.day]
  <2>1. scan.exit \in SUBSET Gamma!Position
    BY GammaScanFacts DEF Gamma!Scan
  <2> QED BY <2>1 DEF Gamma!Position
<1>6. s \in [leg : Gamma!Contract, day : 1 .. GammaDays, exited : BOOLEAN, profit : BOOLEAN]
  BY <1>2 DEF Gamma!Types, Gamma!TypeOK
<1>7. s.exited = FALSE
  BY <1>2, <1>6
<1> QED BY <1>1, <1>2, <1>4, <1>5, <1>6, <1>7

\* A signal of the log is rewritten in place, by its exit or by a mark.
LEMMA GammaRewritten ==
  ASSUME Gamma!Types, Gamma!LogInv, NEW o \in Gamma!OpenSignals,
         NEW n \in [leg : Gamma!Contract, day : 1 .. GammaDays, exited : BOOLEAN, profit : BOOLEAN],
         n.leg = o.leg, n.day = o.day,
         signal_log' = (signal_log \ {o}) \cup {n},
         \A q \in gamma_trades : \E r \in gamma_trades' : Gamma!SameKey(r, q)
  PROVE  /\ Gamma!LogInv'
         /\ signal_log' \subseteq [leg : Gamma!Contract, day : 1 .. GammaDays,
                                   exited : BOOLEAN, profit : BOOLEAN]
         /\ \A s \in Gamma!OpenSignals' : s = n \/ (s \in Gamma!OpenSignals /\ s # o)
         /\ \A s \in Gamma!OpenSignals : s # o => s \in Gamma!OpenSignals'
         /\ ~n.exited => n \in Gamma!OpenSignals'
         /\ n.exited => n \notin Gamma!OpenSignals'
<1>1. o \in signal_log /\ ~o.exited
  BY DEF Gamma!OpenSignals
<1>2. \A s \in signal_log' : s = n \/ (s \in signal_log /\ s # o)
  OBVIOUS
<1>3. \A s \in Gamma!OpenSignals' : ~s.exited /\ (s = n \/ (s \in Gamma!OpenSignals /\ s # o))
  BY DEF Gamma!OpenSignals
<1>4. ASSUME NEW s \in signal_log'
      PROVE  \E r \in gamma_trades' : r.leg = s.leg /\ r.date = s.day /\ r.action = "BUY"
  <2>1. PICK t \in signal_log : s.leg = t.leg /\ s.day = t.day
    BY <1>1, <1>2
  <2>2. PICK q \in gamma_trades : q.leg = t.leg /\ q.date = t.day /\ q.action = "BUY"
    BY <2>1 DEF Gamma!LogInv
  <2> QED BY <2>1, <2>2 DEF Gamma!SameKey
<1>5. ASSUME NEW s \in signal_log', NEW t \in signal_log', s.leg = t.leg, s.day = t.day
      PROVE  s = t
  BY <1>1, <1>2, <1>5 DEF Gamma!LogInv
<1>6. ASSUME NEW s \in Gamma!OpenSignals', NEW t \in Gamma!OpenSignals', s.leg.dir = t.leg.dir
      PROVE  s = t
  BY <1>3, <1>6 DEF Gamma!LogInv
<1>7. Gamma!LogInv'
  BY <1>4, <1>5, <1>6 DEF Gamma!LogInv
<1>8. /\ \A s \in Gamma!OpenSignals : s # o => s \in Gamma!OpenSignals'
      /\ ~n.exited => n \in Gamma!OpenSignals'
  BY DEF Gamma!OpenSignals
<1>9. signal_log' \subseteq [leg : Gamma!Contract, day : 1 .. GammaDays,
                             exited : BOOLEAN, profit : BOOLEAN]
  BY DEF Gamma!Types, Gamma!TypeOK
<1> QED BY <1>3, <1>7, <1>8, <1>9

\* A step that touches neither the table nor the log leaves what relates them.
LEMMA GammaLogFrame ==
  ASSUME Gamma!LogInv, UNCHANGED <<gamma_trades, signal_log>>
  PROVE  Gamma!LogInv' /\ Gamma!OpenSignals' = Gamma!OpenSignals /\ \A l : Gamma!Net(l)' = Gamma!Net(l)
BY DEF Gamma!LogInv, Gamma!OpenSignals, Gamma!Net

LEMMA GammaHeldFrame ==
  ASSUME Gamma!HeldInv, UNCHANGED <<gamma_trades, signal_log, gammaDay>>, gammaUpsets \subseteq gammaUpsets'
  PROVE  Gamma!HeldInv'
<1>1. Gamma!OpenSignals' = Gamma!OpenSignals /\ \A l : Gamma!Net(l)' = Gamma!Net(l)
  BY DEF Gamma!OpenSignals, Gamma!Net
<1> QED BY <1>1 DEF Gamma!HeldInv

LEMMA GammaSkipScanStep ==
  ASSUME Gamma!Timetable, Gamma!Inv, Gamma!SkipScan
  PROVE  Gamma!Inv'
<1> USE DEF Gamma!Inv
<1>1. Gamma!Types'
  BY DEF Gamma!SkipScan, Gamma!Types, Gamma!TypeOK, Gamma!Position
<1>2. Gamma!LogInv' /\ Gamma!HeldInv' /\ Gamma!OpenSignals' = Gamma!OpenSignals
  BY GammaLogFrame, GammaHeldFrame DEF Gamma!SkipScan
<1>3. scan' = Gamma!Idle /\ scan'.pc = "idle"
  BY DEF Gamma!SkipScan, Gamma!Idle
<1>4. Gamma!SoldInv'
  <2> SUFFICES ASSUME "blind" \notin gammaUpsets, NEW s \in Gamma!OpenSignals
      PROVE  s.leg.expiry >= gammaDay /\ (s.leg.expiry = gammaDay => gammaClock < LastEntry)
    BY <1>2, <1>3 DEF Gamma!SoldInv, Gamma!SkipScan, Gamma!Idle, Gamma!Cron
  <2>1. s.leg.expiry >= gammaDay /\ (s.leg.expiry = gammaDay => gammaClock < LastEntry + 2)
    BY DEF Gamma!SoldInv, Gamma!SkipScan
  <2>2. ASSUME s.leg.expiry = gammaDay PROVE FALSE
    <3>1. s.leg.expiry \in Expiries
      BY DEF Gamma!OpenSignals, Gamma!Types, Gamma!TypeOK, Gamma!Contract
    <3>2. gammaDay \in 1 .. GammaDays /\ gammaClock \in 0 .. ScanEnd
      BY DEF Gamma!Types, Gamma!TypeOK
    <3>3. Gamma!DaysToExpiry = 0
      BY <2>2, <3>1, <3>2, GammaNextExpiry DEF Gamma!DaysToExpiry
    <3>4. gammaClock + 1 > ScanEnd
      BY <3>3 DEF Gamma!SkipScan, Gamma!Gated, Gamma!Reading
    <3> QED BY <2>1, <2>2, <3>2, <3>4 DEF Gamma!Timetable
  <2> QED BY <2>1, <2>2
<1>5. Gamma!ScanInv'
  BY <1>3 DEF Gamma!ScanInv
<1> QED BY <1>1, <1>2, <1>4, <1>5

LEMMA GammaMissScanStep ==
  ASSUME Gamma!Timetable, Gamma!Inv, Gamma!MissScan
  PROVE  Gamma!Inv'
<1> USE DEF Gamma!Inv
<1>1. Gamma!Types'
  BY DEF Gamma!MissScan, Gamma!Types, Gamma!TypeOK, Gamma!Position, Gamma!Blind
<1>2. Gamma!LogInv' /\ Gamma!HeldInv' /\ Gamma!OpenSignals' = Gamma!OpenSignals
  BY GammaLogFrame, GammaHeldFrame DEF Gamma!MissScan
<1>3. scan' = Gamma!Idle /\ scan'.pc = "idle"
  BY DEF Gamma!MissScan, Gamma!Idle
<1>4. Gamma!SoldInv'
  <2> SUFFICES ASSUME "blind" \notin gammaUpsets', NEW s \in Gamma!OpenSignals
      PROVE  s.leg.expiry >= gammaDay /\ (s.leg.expiry = gammaDay => gammaClock < LastEntry)
    BY <1>2, <1>3 DEF Gamma!SoldInv, Gamma!MissScan, Gamma!Idle, Gamma!Cron
  <2>1. s.leg.expiry >= gammaDay
    BY DEF Gamma!SoldInv, Gamma!MissScan
  <2>2. ASSUME s.leg.expiry = gammaDay PROVE gammaClock < LastEntry
    <3>1. s.leg.expiry \in Expiries
      BY DEF Gamma!OpenSignals, Gamma!Types, Gamma!TypeOK, Gamma!Contract
    <3>2. gammaDay \in 1 .. GammaDays /\ gammaClock \in 0 .. ScanEnd
      BY DEF Gamma!Types, Gamma!TypeOK
    <3>3. Gamma!DaysToExpiry = 0
      BY <2>2, <3>1, <3>2, GammaNextExpiry DEF Gamma!DaysToExpiry
    <3>4. ~(gammaClock + 1 >= LastEntry)
      BY <3>3 DEF Gamma!MissScan, Gamma!Blind, Gamma!TimeStop, Gamma!Reading
    <3> QED BY <3>2, <3>4 DEF Gamma!Timetable
  <2> QED BY <2>1, <2>2
<1>5. Gamma!ScanInv'
  BY <1>3 DEF Gamma!ScanInv
<1> QED BY <1>1, <1>2, <1>4, <1>5

LEMMA GammaStartScanStep ==
  ASSUME Gamma!Timetable, Gamma!Inv, Gamma!StartScan
  PROVE  Gamma!Inv'
<1> USE DEF Gamma!Inv
<1>1. PICK quoted \in SUBSET {c \in Gamma!Contract : c.expiry = Gamma!Expiry},
           chosen \in SUBSET {c \in Gamma!Contract : c.expiry = Gamma!Expiry} :
         /\ chosen \subseteq quoted
         /\ chosen # {} => Gamma!EntryWindow(Gamma!Reading)
         /\ scan' = [pc |-> "scan", now |-> Gamma!Reading, quoted |-> quoted,
                     enter |-> chosen,
                     exit |-> {[leg |-> s.leg, day |-> s.day] : s \in Gamma!OpenSignals}]
  BY DEF Gamma!StartScan
<1>2. Gamma!OpenSignals \subseteq [leg : Gamma!Contract, day : 1 .. GammaDays,
                             exited : BOOLEAN, profit : BOOLEAN]
  BY DEF Gamma!OpenSignals, Gamma!Types, Gamma!TypeOK
<1>3. UNCHANGED <<gamma_trades, signal_log, gammaDay, gammaClock, gammaUpsets>> /\ ~Gamma!Gated
  BY DEF Gamma!StartScan
<1>4. Gamma!LogInv' /\ Gamma!HeldInv' /\ Gamma!OpenSignals' = Gamma!OpenSignals
  BY <1>3, GammaLogFrame, GammaHeldFrame
<1>5. Gamma!Reading = gammaClock + 1 /\ Gamma!Reading \in 1 .. ScanEnd
  BY <1>3 DEF Gamma!Gated, Gamma!Reading, Gamma!Types, Gamma!TypeOK, Gamma!Timetable
<1>6. /\ scan'.pc = "scan" /\ scan'.now = Gamma!Reading /\ scan'.quoted = quoted
      /\ scan'.enter = chosen
      /\ scan'.exit = {[leg |-> s.leg, day |-> s.day] : s \in Gamma!OpenSignals}
  BY <1>1
<1>7. scan' \in Gamma!Scan /\ scan'.exit \subseteq Gamma!Position
  BY <1>1, <1>2, <1>5 DEF Gamma!Scan, Gamma!Position
<1>8. Gamma!Types'
  BY <1>1, <1>3, <1>5, <1>6, <1>7 DEF Gamma!Types, Gamma!TypeOK, Gamma!Position
<1>9. Gamma!ScanInv'
  <2>1. Gamma!Expiry' = Gamma!Expiry
    BY <1>3 DEF Gamma!Expiry
  <2>2. \A p \in scan'.exit : \E s \in Gamma!OpenSignals' : s.leg = p.leg /\ s.day = p.day
    BY <1>4, <1>6
  <2> QED BY <1>1, <1>3, <1>5, <1>6, <2>1, <2>2 DEF Gamma!ScanInv, Gamma!EntryWindow
<1>10. Gamma!SoldInv'
  <2>1. scan' # Gamma!Idle /\ scan' # Gamma!Cron
    BY <1>6 DEF Gamma!Idle, Gamma!Cron
  <2> QED BY <1>3, <1>4, <1>6, <2>1 DEF Gamma!SoldInv
<1> QED BY <1>4, <1>8, <1>9, <1>10

LEMMA GammaEndScanStep ==
  ASSUME Gamma!Timetable, Gamma!Inv, Gamma!EndScan
  PROVE  Gamma!Inv'
<1> USE DEF Gamma!Inv
<1>1. Gamma!Types'
  BY DEF Gamma!EndScan, Gamma!Types, Gamma!TypeOK, Gamma!Position
<1>2. Gamma!LogInv' /\ Gamma!HeldInv' /\ Gamma!OpenSignals' = Gamma!OpenSignals
  BY GammaLogFrame, GammaHeldFrame DEF Gamma!EndScan
<1>3. scan' = Gamma!Idle /\ scan'.pc = "idle"
  BY DEF Gamma!EndScan, Gamma!Idle
<1>4. Gamma!SoldInv'
  BY <1>2, <1>3 DEF Gamma!SoldInv, Gamma!EndScan, Gamma!Idle, Gamma!Cron
<1>5. Gamma!ScanInv'
  BY <1>3 DEF Gamma!ScanInv
<1> QED BY <1>1, <1>2, <1>4, <1>5

LEMMA GammaScanDiesStep ==
  ASSUME Gamma!Timetable, Gamma!Inv, Gamma!ScanDies
  PROVE  Gamma!Inv'
<1> USE DEF Gamma!Inv
<1>1. Gamma!Types'
  BY DEF Gamma!ScanDies, Gamma!Types, Gamma!TypeOK, Gamma!Position, Gamma!Blind
<1>2. Gamma!LogInv' /\ Gamma!HeldInv' /\ Gamma!OpenSignals' = Gamma!OpenSignals
  BY GammaLogFrame, GammaHeldFrame DEF Gamma!ScanDies
<1>3. scan' = Gamma!Idle /\ scan'.pc = "idle"
  BY DEF Gamma!ScanDies, Gamma!Idle
<1>4. Gamma!SoldInv'
  <2> SUFFICES ASSUME "blind" \notin gammaUpsets', NEW s \in Gamma!OpenSignals
      PROVE  s.leg.expiry >= gammaDay /\ (s.leg.expiry = gammaDay => gammaClock < LastEntry)
    BY <1>2, <1>3 DEF Gamma!SoldInv, Gamma!ScanDies, Gamma!Idle, Gamma!Cron
  <2>1. s.leg.expiry >= gammaDay
    BY DEF Gamma!SoldInv, Gamma!ScanDies
  <2>2. ASSUME s.leg.expiry = gammaDay PROVE gammaClock < LastEntry
    <3>1. s.leg.expiry \in Expiries
      BY DEF Gamma!OpenSignals, Gamma!Types, Gamma!TypeOK, Gamma!Contract
    <3>2. gammaDay \in 1 .. GammaDays /\ gammaClock \in 0 .. ScanEnd
      BY DEF Gamma!Types, Gamma!TypeOK
    <3>3. Gamma!DaysToExpiry = 0
      BY <2>2, <3>1, <3>2, GammaNextExpiry DEF Gamma!DaysToExpiry
    <3>4. CASE scan.exit = {}
      BY <2>2, <3>4 DEF Gamma!SoldInv, Gamma!ScanDies
    <3>5. CASE scan.exit # {}
      <4>1. ~(gammaClock + 1 >= LastEntry)
        BY <3>3, <3>5 DEF Gamma!ScanDies, Gamma!Blind, Gamma!TimeStop, Gamma!Reading
      <4> QED BY <3>2, <4>1 DEF Gamma!Timetable
    <3> QED BY <3>4, <3>5
  <2> QED BY <2>1, <2>2
<1>5. Gamma!ScanInv'
  BY <1>3 DEF Gamma!ScanInv
<1> QED BY <1>1, <1>2, <1>4, <1>5

LEMMA GammaNextCronStep ==
  ASSUME Gamma!Timetable, Gamma!Inv, Gamma!NextCron
  PROVE  Gamma!Inv'
<1> USE DEF Gamma!Inv
<1>1. Gamma!Types'
  <2>1. gammaClock \in 0 .. ScanEnd /\ gammaClock % 2 = 0 /\ ScanEnd % 2 = 0 /\ ScanEnd \in Nat
    BY DEF Gamma!Types, Gamma!TypeOK, Gamma!Timetable
  <2>2. gammaClock + 2 \in 0 .. ScanEnd /\ (gammaClock + 2) % 2 = 0
    BY <2>1 DEF Gamma!NextCron
  <2> QED BY <2>2 DEF Gamma!NextCron, Gamma!Types, Gamma!TypeOK, Gamma!Position
<1>2. Gamma!LogInv' /\ Gamma!HeldInv' /\ Gamma!OpenSignals' = Gamma!OpenSignals
  BY GammaLogFrame, GammaHeldFrame DEF Gamma!NextCron
<1>3. scan' = Gamma!Cron /\ scan'.pc = "cron"
  BY DEF Gamma!NextCron, Gamma!Cron
<1>4. Gamma!SoldInv'
  <2>1. gammaClock \in Int /\ LastEntry \in Int
    BY DEF Gamma!Types, Gamma!TypeOK, Gamma!Timetable
  <2> QED BY <1>2, <1>3, <2>1 DEF Gamma!SoldInv, Gamma!NextCron, Gamma!Idle, Gamma!Cron
<1>5. Gamma!ScanInv'
  BY <1>3 DEF Gamma!ScanInv
<1> QED BY <1>1, <1>2, <1>4, <1>5

LEMMA GammaNextDayStep ==
  ASSUME Gamma!Timetable, Gamma!Inv, Gamma!NextDay
  PROVE  Gamma!Inv'
<1> USE DEF Gamma!Inv
<1>1. Gamma!Types'
  BY DEF Gamma!NextDay, Gamma!Types, Gamma!TypeOK, Gamma!Position, Gamma!Timetable
<1>2. Gamma!LogInv' /\ Gamma!OpenSignals' = Gamma!OpenSignals /\ \A l : Gamma!Net(l)' = Gamma!Net(l)
  BY GammaLogFrame DEF Gamma!NextDay
<1>3. scan' = Gamma!Cron /\ scan'.pc = "cron"
  BY DEF Gamma!NextDay, Gamma!Cron
<1>4. gammaDay \in Nat /\ gammaDay' = gammaDay + 1 /\ \A l \in Gamma!Contract : l.expiry \in Nat
  <2>1. gammaDay \in 1 .. GammaDays /\ Expiries \in SUBSET Nat /\ GammaDays \in Nat
    BY DEF Gamma!Types, Gamma!TypeOK, Gamma!Timetable
  <2>2. gammaDay \in Nat
    BY <2>1
  <2>3. \A l \in Gamma!Contract : l.expiry \in Expiries
    BY DEF Gamma!Contract
  <2>4. gammaDay' = gammaDay + 1
    BY DEF Gamma!NextDay
  <2> QED BY <2>1, <2>2, <2>3, <2>4
<1>5. \A s \in Gamma!OpenSignals : s.leg \in Gamma!Contract
  BY DEF Gamma!OpenSignals, Gamma!Types, Gamma!TypeOK
<1>6. Gamma!HeldInv'
  BY <1>2, <1>4, <1>5 DEF Gamma!HeldInv, Gamma!NextDay
<1>7. Gamma!SoldInv'
  <2> SUFFICES ASSUME "blind" \notin gammaUpsets, NEW s \in Gamma!OpenSignals
      PROVE  s.leg.expiry >= gammaDay + 1 /\ 0 < LastEntry + 2
    BY <1>2, <1>3 DEF Gamma!SoldInv, Gamma!NextDay, Gamma!Idle, Gamma!Cron
  <2>1. /\ gammaClock \in Nat /\ LastEntry \in Nat /\ ScanEnd \in Nat
        /\ LastEntry + 2 <= ScanEnd /\ gammaClock >= ScanEnd
    BY DEF Gamma!NextDay, Gamma!Timetable, Gamma!Types, Gamma!TypeOK
  <2>2. s.leg.expiry >= gammaDay /\ (s.leg.expiry = gammaDay => gammaClock < LastEntry)
    BY DEF Gamma!SoldInv, Gamma!NextDay
  <2> QED BY <1>4, <1>5, <2>1, <2>2
<1>8. Gamma!ScanInv'
  BY <1>3 DEF Gamma!ScanInv
<1> QED BY <1>1, <1>2, <1>6, <1>7, <1>8

\* A scan that is done with an entry.
LEMMA GammaEntryDone ==
  ASSUME Gamma!Types, Gamma!ScanInv, NEW leg, scan.pc = "scan",
         scan' = [scan EXCEPT !.enter = @ \ {leg}], UNCHANGED gammaClock
  PROVE  /\ scan' \in Gamma!Scan /\ scan'.pc = "scan" /\ scan'.now = scan.now
         /\ scan'.quoted = scan.quoted /\ scan'.exit = scan.exit
         /\ scan'.enter = scan.enter \ {leg}
         /\ scan' # Gamma!Idle /\ scan' # Gamma!Cron
<1>1. scan \in Gamma!Scan
  BY GammaScanFacts
<1> QED BY <1>1 DEF Gamma!Scan, Gamma!Idle, Gamma!Cron

\* A scan that is done with a position.
LEMMA GammaExitDone ==
  ASSUME Gamma!Types, Gamma!ScanInv, NEW p, scan.pc = "scan", scan' = Gamma!Done(p), UNCHANGED gammaClock
  PROVE  /\ scan' \in Gamma!Scan /\ scan'.pc = "scan" /\ scan'.now = scan.now
         /\ scan'.quoted = scan.quoted /\ scan'.exit = scan.exit \ {p}
         /\ scan'.enter = scan.enter
         /\ scan' # Gamma!Idle /\ scan' # Gamma!Cron
<1>1. scan \in Gamma!Scan
  BY GammaScanFacts
<1> QED BY <1>1 DEF Gamma!Scan, Gamma!Idle, Gamma!Cron, Gamma!Done

LEMMA GammaEnterFailsStep ==
  ASSUME Gamma!Timetable, Gamma!Inv, NEW leg \in Gamma!Contract, Gamma!EnterFails(leg)
  PROVE  Gamma!Inv'
<1> USE DEF Gamma!Inv
<1>1. /\ scan' \in Gamma!Scan /\ scan'.pc = "scan" /\ scan'.now = scan.now
      /\ scan'.quoted = scan.quoted /\ scan'.exit = scan.exit
      /\ scan'.enter = scan.enter \ {leg}
      /\ scan' # Gamma!Idle /\ scan' # Gamma!Cron
  BY GammaEntryDone DEF Gamma!EnterFails
<1>2. /\ UNCHANGED <<gamma_trades, signal_log, gammaDay, gammaClock, gammaUpsets>>
      /\ scan.pc = "scan"
  BY DEF Gamma!EnterFails
<1>3. Gamma!Types'
  BY <1>1, <1>2 DEF Gamma!Types, Gamma!TypeOK, Gamma!Position, Gamma!Scan, Gamma!ScanInv
<1>4. Gamma!LogInv' /\ Gamma!HeldInv' /\ Gamma!OpenSignals' = Gamma!OpenSignals
  BY <1>2, GammaLogFrame, GammaHeldFrame
<1>5. Gamma!ScanInv'
  <2>1. Gamma!Expiry' = Gamma!Expiry
    BY <1>2 DEF Gamma!Expiry
  <2> QED BY <1>1, <1>2, <1>4, <2>1 DEF Gamma!ScanInv
<1>6. Gamma!SoldInv'
  BY <1>1, <1>2, <1>4 DEF Gamma!SoldInv
<1> QED BY <1>3, <1>4, <1>5, <1>6

LEMMA GammaUnexitedStep ==
  ASSUME Gamma!Timetable, Gamma!Inv, NEW p \in Gamma!Position, Gamma!Unexited(p)
  PROVE  Gamma!Inv'
<1> USE DEF Gamma!Inv
<1>1. scan.pc = "scan" /\ scan.enter = {} /\ p \in scan.exit
  BY DEF Gamma!Unexited, Gamma!Exiting
<1>2. /\ UNCHANGED <<gamma_trades, signal_log, gammaDay, gammaClock>> /\ scan' = Gamma!Done(p)
      /\ gammaUpsets' = gammaUpsets \cup (IF Gamma!Due(p, FALSE) THEN {"blind"} ELSE {})
  BY DEF Gamma!Unexited
<1>3. /\ scan' \in Gamma!Scan /\ scan'.pc = "scan" /\ scan'.now = scan.now
      /\ scan'.quoted = scan.quoted /\ scan'.exit = scan.exit \ {p}
      /\ scan'.enter = scan.enter
      /\ scan' # Gamma!Idle /\ scan' # Gamma!Cron
  BY <1>1, <1>2, GammaExitDone
<1>4. Gamma!Types'
  BY <1>1, <1>2, <1>3 DEF Gamma!Types, Gamma!TypeOK, Gamma!Position, Gamma!Scan, Gamma!ScanInv
<1>5. Gamma!LogInv' /\ Gamma!HeldInv' /\ Gamma!OpenSignals' = Gamma!OpenSignals
  BY <1>2, GammaLogFrame, GammaHeldFrame
<1>6. Gamma!ScanInv'
  <2>1. Gamma!Expiry' = Gamma!Expiry
    BY <1>2 DEF Gamma!Expiry
  <2> QED BY <1>1, <1>2, <1>3, <1>5, <2>1 DEF Gamma!ScanInv
<1>7. Gamma!SoldInv'
  <2> SUFFICES ASSUME "blind" \notin gammaUpsets', NEW s \in Gamma!OpenSignals
      PROVE  /\ s.leg.expiry >= gammaDay
             /\ s.leg.expiry = gammaDay => \/ gammaClock < LastEntry
                                           \/ [leg |-> s.leg, day |-> s.day] \in scan.exit \ {p}
    BY <1>2, <1>3, <1>5 DEF Gamma!SoldInv
  <2>1. /\ s.leg.expiry >= gammaDay
        /\ s.leg.expiry = gammaDay => \/ gammaClock < LastEntry
                                      \/ [leg |-> s.leg, day |-> s.day] \in scan.exit
    BY <1>1, <1>2 DEF Gamma!SoldInv
  <2>2. ASSUME s.leg.expiry = gammaDay, [leg |-> s.leg, day |-> s.day] = p
        PROVE  gammaClock < LastEntry
    <3>1. ~Gamma!Due(p, FALSE) /\ p.leg = s.leg
      BY <1>2, <2>2
    <3>2. scan.now = gammaClock + 1 /\ gammaClock \in Nat /\ LastEntry \in Nat /\ gammaDay \in Nat
      BY <1>1 DEF Gamma!ScanInv, Gamma!Types, Gamma!TypeOK, Gamma!Timetable
    <3> QED BY <2>2, <3>1, <3>2 DEF Gamma!Due, Gamma!TimeStop
  <2> QED BY <2>1, <2>2
<1> QED BY <1>4, <1>5, <1>6, <1>7

LEMMA GammaHoldStep ==
  ASSUME Gamma!Timetable, Gamma!Inv, NEW p \in Gamma!Position, Gamma!Hold(p)
  PROVE  Gamma!Inv'
<1> USE DEF Gamma!Inv
<1>1. scan.pc = "scan" /\ scan.enter = {} /\ p \in scan.exit
  BY DEF Gamma!Hold, Gamma!Exiting
<1>2. UNCHANGED <<gamma_trades, gammaDay, gammaClock, gammaUpsets>> /\ scan' = Gamma!Done(p)
  BY DEF Gamma!Hold
<1>3. PICK profit \in BOOLEAN :
        /\ ~Gamma!Due(p, profit)
        /\ signal_log' = (signal_log \ {Gamma!Of(p)}) \cup {[Gamma!Of(p) EXCEPT
              !.profit = IF gammaDay < p.leg.expiry THEN profit ELSE @]}
  BY DEF Gamma!Hold
<1>4. /\ scan' \in Gamma!Scan /\ scan'.pc = "scan" /\ scan'.now = scan.now
      /\ scan'.quoted = scan.quoted /\ scan'.exit = scan.exit \ {p}
      /\ scan'.enter = scan.enter
      /\ scan' # Gamma!Idle /\ scan' # Gamma!Cron
  BY <1>1, <1>2, GammaExitDone
<1> DEFINE o == Gamma!Of(p)
           n == [o EXCEPT !.profit = IF gammaDay < p.leg.expiry THEN profit ELSE @]
<1>5. /\ o \in Gamma!OpenSignals /\ o \in signal_log
      /\ o.leg = p.leg /\ o.day = p.day /\ o.exited = FALSE
      /\ o \in [leg : Gamma!Contract, day : 1 .. GammaDays,
                exited : BOOLEAN, profit : BOOLEAN]
      /\ p = [leg |-> p.leg, day |-> p.day]
  BY <1>1, GammaOfIsOpen
<1>6. /\ n \in [leg : Gamma!Contract, day : 1 .. GammaDays, exited : BOOLEAN, profit : BOOLEAN]
      /\ n.leg = o.leg /\ n.day = o.day /\ n.exited = FALSE
      /\ signal_log' = (signal_log \ {o}) \cup {n}
  <2> HIDE DEF o
  <2>1. signal_log' = (signal_log \ {o}) \cup {n}
    BY <1>3 DEF o
  <2> QED BY <1>5, <2>1
<1> HIDE DEF o, n
<1>7. \A q \in gamma_trades : \E r \in gamma_trades' : Gamma!SameKey(r, q)
  BY <1>2 DEF Gamma!SameKey
<1>8. /\ Gamma!LogInv'
      /\ signal_log' \subseteq [leg : Gamma!Contract, day : 1 .. GammaDays,
                                exited : BOOLEAN, profit : BOOLEAN]
      /\ \A s \in Gamma!OpenSignals' : s = n \/ (s \in Gamma!OpenSignals /\ s # o)
      /\ \A s \in Gamma!OpenSignals : s # o => s \in Gamma!OpenSignals'
      /\ n \in Gamma!OpenSignals'
  BY <1>5, <1>6, <1>7, GammaRewritten
<1>9. Gamma!Types'
  BY <1>1, <1>2, <1>4, <1>8 DEF Gamma!Types, Gamma!TypeOK, Gamma!Position, Gamma!Scan, Gamma!ScanInv
<1>10. Gamma!HeldInv'
  <2>1. \A l : Gamma!Net(l)' = Gamma!Net(l)
    BY <1>2 DEF Gamma!Net
  <2>2. \A s \in Gamma!OpenSignals' : \E t \in Gamma!OpenSignals : s.leg = t.leg
    BY <1>5, <1>6, <1>8
  <2>3. \A t \in Gamma!OpenSignals : \E s \in Gamma!OpenSignals' : s.leg = t.leg
    BY <1>5, <1>6, <1>8
  <2> QED BY <1>2, <2>1, <2>2, <2>3 DEF Gamma!HeldInv
<1>11. Gamma!ScanInv'
  <2>1. Gamma!Expiry' = Gamma!Expiry
    BY <1>2 DEF Gamma!Expiry
  <2>2. \A t \in Gamma!OpenSignals : \E s \in Gamma!OpenSignals' : s.leg = t.leg /\ s.day = t.day
    BY <1>5, <1>6, <1>8
  <2> QED BY <1>1, <1>2, <1>4, <2>1, <2>2 DEF Gamma!ScanInv
<1>12. Gamma!SoldInv'
  <2> SUFFICES ASSUME "blind" \notin gammaUpsets, NEW s \in Gamma!OpenSignals'
      PROVE  /\ s.leg.expiry >= gammaDay
             /\ s.leg.expiry = gammaDay => \/ gammaClock < LastEntry
                                           \/ [leg |-> s.leg, day |-> s.day] \in scan.exit \ {p}
    BY <1>2, <1>4 DEF Gamma!SoldInv
  <2>1. CASE s \in Gamma!OpenSignals /\ s # o
    <3>1. /\ s.leg.expiry >= gammaDay
          /\ s.leg.expiry = gammaDay => \/ gammaClock < LastEntry
                                        \/ [leg |-> s.leg, day |-> s.day] \in scan.exit
      BY <1>1, <1>2, <2>1 DEF Gamma!SoldInv
    <3>2. [leg |-> s.leg, day |-> s.day] # p
      <4> SUFFICES ASSUME [leg |-> s.leg, day |-> s.day] = p PROVE FALSE
        OBVIOUS
      <4>1. s.leg = o.leg
        BY <1>5
      <4> QED BY <1>5, <2>1, <4>1 DEF Gamma!LogInv
    <3> QED BY <3>1, <3>2
  <2>2. CASE s = n
    <3>1. o.leg.expiry >= gammaDay
      BY <1>5 DEF Gamma!SoldInv
    <3>2. ASSUME o.leg.expiry = gammaDay PROVE gammaClock < LastEntry
      <4>1. scan.now = gammaClock + 1 /\ gammaClock \in Nat /\ LastEntry \in Nat /\ gammaDay \in Nat
        BY <1>1 DEF Gamma!ScanInv, Gamma!Types, Gamma!TypeOK, Gamma!Timetable
      <4> QED BY <1>3, <1>5, <3>2, <4>1 DEF Gamma!Due, Gamma!TimeStop
    <3> QED BY <1>6, <2>2, <3>1, <3>2
  <2> QED BY <1>8, <2>1, <2>2
<1> QED BY <1>8, <1>9, <1>10, <1>11, <1>12

\* When a direction is flat, and one contract of it is held at most, none is.
LEMMA GammaDirectionFlat ==
  ASSUME Gamma!Types, Gamma!HeldInv, "hand" \notin gammaUpsets, NEW dir, Gamma!NetOf(gamma_trades, dir) = 0
  PROVE  \A l \in Gamma!Contract : l.dir = dir => Gamma!Net(l) = 0
<1> SUFFICES ASSUME NEW l \in Gamma!Contract, l.dir = dir, Gamma!Net(l) # 0 PROVE FALSE
  OBVIOUS
<1> DEFINE T == gamma_trades
           D == {r \in T : r.leg.dir = dir}
           A == Gamma!RowsOf(T, l)
           B == D \ A
<1>1. Gamma!IsTable(T, Gamma!Contract) /\ \A r \in T : r.leg \in Gamma!Contract
  BY DEF Gamma!Types, Gamma!IsTable, Gamma!TradeRow
<1>2. /\ A \in SUBSET T /\ B \in SUBSET T /\ A \cap B = {} /\ D = A \cup B
      /\ Gamma!Net(l) = Gamma!NetQty(A) /\ Gamma!NetQty(D) = 0
  BY DEF Gamma!RowsOf, Gamma!Net, Gamma!NetOf
<1>3. Gamma!IsTable(B, Gamma!Contract)
  BY <1>1, <1>2, Gamma!FS_Subset DEF Gamma!IsTable
<1>4. \A m : Gamma!Held(B, m) = 0
  <2> SUFFICES ASSUME NEW m PROVE Gamma!Held(B, m) = 0
    OBVIOUS
  <2>1. CASE m = l \/ m \notin Gamma!Contract \/ m.dir # dir
    <3>1. \A s \in B : s.leg # m
      BY <1>1, <2>1 DEF Gamma!RowsOf
    <3> QED BY <3>1, Gamma!HeldOfNone
  <2>2. CASE m # l /\ m \in Gamma!Contract /\ m.dir = dir
    <3>1. Gamma!RowsOf(B, m) = Gamma!RowsOf(T, m)
      BY <2>2 DEF Gamma!RowsOf
    <3>2. Gamma!Net(m) = 0
      BY <2>2 DEF Gamma!HeldInv
    <3> QED BY <3>1, <3>2 DEF Gamma!Net, Gamma!Held
  <2> QED BY <2>1, <2>2
<1> HIDE DEF T, A, B, D
<1>5. Gamma!NetQty(B) = 0
  BY <1>3, <1>4, Gamma!FlatRows
<1>6. Gamma!IsFiniteSet(A) /\ Gamma!Amounts(A) /\ Gamma!IsFiniteSet(B) /\ Gamma!Amounts(B) /\ Gamma!NetQty(A) \in Int
  BY <1>1, <1>2, Gamma!SomeRows
<1>7. Gamma!NetQty(D) = Gamma!NetQty(A) + Gamma!NetQty(B)
  BY <1>2, <1>6, Gamma!NetQtyUnion
<1> QED BY <1>2, <1>5, <1>6, <1>7

LEMMA GammaEnterStep ==
  ASSUME Gamma!Timetable, Gamma!Inv, NEW leg \in Gamma!Contract, Gamma!Enter(leg)
  PROVE  Gamma!Inv'
<1> USE DEF Gamma!Inv
<1> DEFINE buy == Gamma!Trade(leg, gammaDay, "BUY", 1)
           filled == ~Gamma!Blocked(leg.dir) /\ ~Gamma!Duplicate(gamma_trades, buy)
           n == Gamma!OpenSignal(leg)
<1>1. /\ scan.pc = "scan" /\ leg \in scan.enter
      /\ scan' = [scan EXCEPT !.enter = @ \ {leg}]
      /\ UNCHANGED <<gammaDay, gammaClock, gammaUpsets>>
  BY DEF Gamma!Enter
<1>2. /\ scan' \in Gamma!Scan /\ scan'.pc = "scan" /\ scan'.now = scan.now
      /\ scan'.quoted = scan.quoted /\ scan'.exit = scan.exit
      /\ scan'.enter = scan.enter \ {leg}
      /\ scan' # Gamma!Idle /\ scan' # Gamma!Cron
  BY <1>1, GammaEntryDone
<1>3. Gamma!Expiry' = Gamma!Expiry
  BY <1>1 DEF Gamma!Expiry
<1>4. CASE ~filled
  <2>1. UNCHANGED <<gamma_trades, signal_log>>
    BY <1>4 DEF Gamma!Enter
  <2>2. Gamma!Types'
    BY <1>1, <1>2, <2>1 DEF Gamma!Types, Gamma!TypeOK, Gamma!Position, Gamma!Scan, Gamma!ScanInv
  <2>3. Gamma!LogInv' /\ Gamma!HeldInv' /\ Gamma!OpenSignals' = Gamma!OpenSignals
    BY <1>1, <2>1, GammaLogFrame, GammaHeldFrame
  <2>4. Gamma!ScanInv'
    BY <1>1, <1>2, <1>3, <2>3 DEF Gamma!ScanInv
  <2>5. Gamma!SoldInv'
    BY <1>1, <1>2, <2>3 DEF Gamma!SoldInv
  <2> QED BY <2>2, <2>3, <2>4, <2>5
<1>5. CASE filled
  <2>1. /\ gamma_trades' = Gamma!RecordTrade(gamma_trades, buy)
        /\ signal_log' = signal_log \cup {n}
    BY <1>5 DEF Gamma!Enter
  <2>2. /\ leg.expiry = Gamma!Expiry /\ gammaDay <= leg.expiry /\ scan.now <= LastEntry
        /\ scan.now = gammaClock + 1 /\ gammaClock \in Nat /\ LastEntry \in Nat
        /\ gammaDay \in 1 .. GammaDays
    <3>1. gammaDay \in 1 .. GammaDays /\ gammaClock \in Nat /\ LastEntry \in Nat
      BY DEF Gamma!Types, Gamma!TypeOK, Gamma!Timetable
    <3>2. leg.expiry = Gamma!Expiry /\ scan.now <= LastEntry /\ scan.now = gammaClock + 1
      BY <1>1 DEF Gamma!ScanInv
    <3> QED BY <3>1, <3>2, GammaNextExpiry
  <2>3. /\ buy \in Gamma!TradeRow(Gamma!Contract) /\ buy.leg = leg /\ buy.date = gammaDay
        /\ buy.action = "BUY" /\ Gamma!Amount(buy) = 1
    <3>1. gammaDay \in Int
      BY <2>2
    <3>2. buy \in Gamma!TradeRow(Gamma!Contract)
      BY <3>1, Gamma!TradeIsRow DEF Gamma!Actions
    <3> QED BY <3>2 DEF Gamma!Trade, Gamma!Amount, Gamma!Signed
  <2>4. n \in [leg : Gamma!Contract, day : 1 .. GammaDays, exited : BOOLEAN, profit : BOOLEAN]
        /\ n.leg = leg /\ n.day = gammaDay /\ n.exited = FALSE
    BY <2>2 DEF Gamma!OpenSignal
  <2>5. /\ \A s \in Gamma!OpenSignals : s.leg.dir # leg.dir
        /\ Gamma!NetOf(gamma_trades, leg.dir) = 0
        /\ ~Gamma!Duplicate(gamma_trades, buy)
    BY <1>5 DEF Gamma!Blocked
  <2> HIDE DEF buy, n, filled
  <2>6. /\ Gamma!IsTable(gamma_trades', Gamma!Contract)
        /\ gamma_trades' \subseteq [leg : Gamma!Contract, date : 1 .. GammaDays,
                                    action : Gamma!Actions, qty : Nat \ {0}, state : Gamma!States]
        /\ \A r \in gamma_trades' : r.date <= r.leg.expiry
        /\ \A q \in gamma_trades : \E r \in gamma_trades' : Gamma!SameKey(r, q)
        /\ \E r \in gamma_trades' : Gamma!SameKey(r, buy)
        /\ \A l \in Gamma!Contract : Gamma!Net(l)' = Gamma!Net(l) + IF l = leg THEN 1 ELSE 0
    <3>1. buy.date \in 1 .. GammaDays /\ buy.date <= buy.leg.expiry
      BY <2>2, <2>3
    <3> QED BY <2>1, <2>3, <2>5, <3>1, GammaRecordedTypes
  <2>7. Gamma!OpenSignals' = Gamma!OpenSignals \cup {n}
    BY <2>1, <2>4 DEF Gamma!OpenSignals
  <2>8. \A s \in signal_log : ~(s.leg = leg /\ s.day = gammaDay)
    BY <2>3, <2>5 DEF Gamma!LogInv, Gamma!Duplicate, Gamma!SameKey
  <2>9. Gamma!Types'
    <3>1. signal_log' \subseteq [leg : Gamma!Contract, day : 1 .. GammaDays,
                                 exited : BOOLEAN, profit : BOOLEAN]
      BY <2>1, <2>4 DEF Gamma!Types, Gamma!TypeOK
    <3> QED BY <1>1, <1>2, <2>6, <3>1 DEF Gamma!Types, Gamma!TypeOK, Gamma!Position, Gamma!Scan, Gamma!ScanInv
  <2>10. Gamma!LogInv'
    <3>1. ASSUME NEW s \in signal_log'
          PROVE  \E r \in gamma_trades' : r.leg = s.leg /\ r.date = s.day /\ r.action = "BUY"
      <4>1. CASE s = n
        BY <2>3, <2>4, <2>6, <4>1 DEF Gamma!SameKey
      <4>2. CASE s \in signal_log
        BY <2>6, <4>2 DEF Gamma!SameKey, Gamma!LogInv
      <4> QED BY <2>1, <4>1, <4>2
    <3>2. ASSUME NEW s \in signal_log', NEW t \in signal_log', s.leg = t.leg, s.day = t.day
          PROVE  s = t
      BY <2>1, <2>4, <2>8, <3>2 DEF Gamma!LogInv
    <3>3. ASSUME NEW s \in Gamma!OpenSignals', NEW t \in Gamma!OpenSignals', s.leg.dir = t.leg.dir
          PROVE  s = t
      BY <2>4, <2>5, <2>7, <3>3 DEF Gamma!LogInv
    <3> QED BY <3>1, <3>2, <3>3 DEF Gamma!LogInv
  <2>11. Gamma!ScanInv'
    BY <1>1, <1>2, <1>3, <2>7 DEF Gamma!ScanInv
  <2>12. Gamma!SoldInv'
    <3> SUFFICES ASSUME "blind" \notin gammaUpsets, NEW s \in Gamma!OpenSignals'
        PROVE  /\ s.leg.expiry >= gammaDay
               /\ s.leg.expiry = gammaDay => \/ gammaClock < LastEntry
                                             \/ [leg |-> s.leg, day |-> s.day] \in scan.exit
      BY <1>1, <1>2 DEF Gamma!SoldInv
    <3>1. CASE s = n
      <4>1. gammaClock < LastEntry /\ leg.expiry >= gammaDay
        BY <2>2
      <4> QED BY <2>4, <3>1, <4>1
    <3>2. CASE s \in Gamma!OpenSignals
      BY <1>1, <3>2 DEF Gamma!SoldInv
    <3> QED BY <2>7, <3>1, <3>2
  <2>13. Gamma!HeldInv'
    <3> SUFFICES ASSUME "hand" \notin gammaUpsets
        PROVE  Gamma!HeldInv'
      BY <1>1 DEF Gamma!HeldInv
    <3>1. \A l \in Gamma!Contract : l.dir = leg.dir => Gamma!Net(l) = 0
      BY <2>5, GammaDirectionFlat
    <3>2. \A s \in Gamma!OpenSignals : s.leg \in Gamma!Contract /\ s.leg # leg
      BY <2>5 DEF Gamma!OpenSignals, Gamma!Types, Gamma!TypeOK
    <3>3. \A l \in Gamma!Contract : IF l = leg THEN Gamma!Net(l)' = 1 ELSE Gamma!Net(l)' = Gamma!Net(l)
      BY <2>6, <3>1, GammaNetType
    <3>4. \A l \in Gamma!Contract : Gamma!Net(l)' \in {0, 1}
      BY <3>3 DEF Gamma!HeldInv
    <3>5. ASSUME NEW a \in Gamma!Contract, NEW b \in Gamma!Contract, a.dir = b.dir,
                 Gamma!Net(a)' # 0, Gamma!Net(b)' # 0
          PROVE  a = b
      BY <3>1, <3>3, <3>5 DEF Gamma!HeldInv
    <3>6. ASSUME NEW s \in Gamma!OpenSignals', s.leg.expiry >= gammaDay
          PROVE  Gamma!Net(s.leg)' = 1
      BY <2>4, <2>7, <3>2, <3>3, <3>6 DEF Gamma!HeldInv
    <3>7. ASSUME "swallowed" \notin gammaUpsets, NEW l \in Gamma!Contract, l.expiry >= gammaDay, Gamma!Net(l)' # 0
          PROVE  \E s \in Gamma!OpenSignals' : s.leg = l
      BY <2>4, <2>7, <3>3, <3>7 DEF Gamma!HeldInv
    <3> QED BY <1>1, <3>4, <3>5, <3>6, <3>7 DEF Gamma!HeldInv
  <2> QED BY <2>9, <2>10, <2>11, <2>12, <2>13
<1> QED BY <1>4, <1>5

LEMMA GammaExitStep ==
  ASSUME Gamma!Timetable, Gamma!Inv, NEW p \in Gamma!Position, Gamma!Exit(p)
  PROVE  Gamma!Inv'
<1> USE DEF Gamma!Inv
<1> DEFINE o == Gamma!Of(p)
           n == [o EXCEPT !.exited = TRUE]
           sell == Gamma!Trade(p.leg, gammaDay, "SELL", 1)
           dup == Gamma!Duplicate(gamma_trades, sell)
<1>1. scan.pc = "scan" /\ scan.enter = {} /\ p \in scan.exit /\ p.leg \in scan.quoted
  BY DEF Gamma!Exit, Gamma!Exiting, Gamma!Quoted
<1>2. /\ UNCHANGED <<gammaDay, gammaClock>> /\ scan' = Gamma!Done(p)
      /\ gammaUpsets' = gammaUpsets \cup (IF dup THEN {"swallowed"} ELSE {})
      /\ signal_log' = (signal_log \ {o}) \cup {n}
      /\ gamma_trades' = Gamma!CloseLong(p.leg)
  BY DEF Gamma!Exit
<1>3. /\ scan' \in Gamma!Scan /\ scan'.pc = "scan" /\ scan'.now = scan.now
      /\ scan'.quoted = scan.quoted /\ scan'.exit = scan.exit \ {p}
      /\ scan'.enter = scan.enter
      /\ scan' # Gamma!Idle /\ scan' # Gamma!Cron
  BY <1>1, <1>2, GammaExitDone
<1>4. /\ o \in Gamma!OpenSignals /\ o \in signal_log
      /\ o.leg = p.leg /\ o.day = p.day /\ o.exited = FALSE
      /\ o \in [leg : Gamma!Contract, day : 1 .. GammaDays,
                exited : BOOLEAN, profit : BOOLEAN]
      /\ p = [leg |-> p.leg, day |-> p.day] /\ p.leg \in Gamma!Contract
  BY <1>1, GammaOfIsOpen
<1>5. /\ n \in [leg : Gamma!Contract, day : 1 .. GammaDays, exited : BOOLEAN, profit : BOOLEAN]
      /\ n.leg = o.leg /\ n.day = o.day /\ n.exited = TRUE
  <2> HIDE DEF o
  <2> QED BY <1>4
<1>6. gammaDay \in 1 .. GammaDays /\ gammaDay \in Int /\ gammaDay <= p.leg.expiry
  <2>1. gammaDay \in 1 .. GammaDays
    BY DEF Gamma!Types, Gamma!TypeOK
  <2>2. gammaDay \in Int
    BY <2>1
  <2>3. p.leg.expiry = Gamma!Expiry
    BY <1>1 DEF Gamma!ScanInv
  <2> QED BY <2>1, <2>2, <2>3, GammaNextExpiry
<1>7. /\ sell \in Gamma!TradeRow(Gamma!Contract) /\ sell.leg = p.leg /\ sell.date = gammaDay
      /\ sell.action = "SELL" /\ Gamma!Amount(sell) = -1
  <2>1. sell \in Gamma!TradeRow(Gamma!Contract)
    BY <1>4, <1>6, Gamma!TradeIsRow DEF Gamma!Actions
  <2> QED BY <2>1 DEF Gamma!Trade, Gamma!Amount, Gamma!Signed
<1> HIDE DEF o, n
<1>8. \/ gamma_trades' = Gamma!RecordTrade(gamma_trades, sell)
      \/ \E l \in Gamma!Contract : gamma_trades' = Gamma!MarkTradeClosed(Gamma!RecordTrade(gamma_trades, sell), l)
  BY <1>2, <1>4 DEF Gamma!CloseLong
<1> HIDE DEF sell
<1>9. /\ Gamma!IsTable(gamma_trades', Gamma!Contract)
      /\ gamma_trades' \subseteq [leg : Gamma!Contract, date : 1 .. GammaDays,
                                  action : Gamma!Actions, qty : Nat \ {0}, state : Gamma!States]
      /\ \A r \in gamma_trades' : r.date <= r.leg.expiry
      /\ \A q \in gamma_trades : \E r \in gamma_trades' : Gamma!SameKey(r, q)
      /\ \A l \in Gamma!Contract : Gamma!Net(l)' = Gamma!Net(l) + IF p.leg = l /\ ~dup THEN -1 ELSE 0
  <2>1. sell.date \in 1 .. GammaDays /\ sell.date <= sell.leg.expiry
    BY <1>6, <1>7
  <2>2. /\ Gamma!IsTable(gamma_trades', Gamma!Contract)
        /\ gamma_trades' \subseteq [leg : Gamma!Contract, date : 1 .. GammaDays,
                                    action : Gamma!Actions, qty : Nat \ {0}, state : Gamma!States]
        /\ \A r \in gamma_trades' : r.date <= r.leg.expiry
        /\ \A q \in gamma_trades : \E r \in gamma_trades' : Gamma!SameKey(r, q)
        /\ \A l \in Gamma!Contract : Gamma!Net(l)' = Gamma!Net(l) + IF sell.leg = l /\ ~Gamma!Duplicate(gamma_trades, sell)
                                                    THEN Gamma!Amount(sell) ELSE 0
    BY <1>7, <1>8, <2>1, GammaRecordedTypes
  <2> QED BY <1>7, <2>2
<1> HIDE DEF dup
<1>10. /\ Gamma!LogInv'
       /\ signal_log' \subseteq [leg : Gamma!Contract, day : 1 .. GammaDays,
                                 exited : BOOLEAN, profit : BOOLEAN]
       /\ \A s \in Gamma!OpenSignals' : s = n \/ (s \in Gamma!OpenSignals /\ s # o)
       /\ \A s \in Gamma!OpenSignals : s # o => s \in Gamma!OpenSignals'
       /\ n \notin Gamma!OpenSignals'
  <2>1. \A q \in gamma_trades : \E r \in gamma_trades' : Gamma!SameKey(r, q)
    BY <1>9
  <2>2. signal_log' = (signal_log \ {o}) \cup {n}
    BY <1>2
  <2> QED BY <1>4, <1>5, <2>1, <2>2, GammaRewritten
<1>11. \A s \in Gamma!OpenSignals : s # o => s.leg.dir # p.leg.dir
  BY <1>4 DEF Gamma!LogInv
<1>12. Gamma!Types'
  BY <1>1, <1>2, <1>3, <1>9, <1>10 DEF Gamma!Types, Gamma!TypeOK, Gamma!Position, Gamma!Scan, Gamma!ScanInv
<1>13. Gamma!ScanInv'
  <2>1. Gamma!Expiry' = Gamma!Expiry
    BY <1>2 DEF Gamma!Expiry
  <2>2. ASSUME NEW q \in scan.exit, q # p
        PROVE  \E s \in Gamma!OpenSignals' : s.leg = q.leg /\ s.day = q.day
    <3>1. PICK s \in Gamma!OpenSignals : s.leg = q.leg /\ s.day = q.day
      BY <1>1 DEF Gamma!ScanInv
    <3>2. q = [leg |-> q.leg, day |-> q.day]
      BY <1>1, GammaOfIsOpen
    <3>3. s # o
      BY <1>4, <2>2, <3>1, <3>2
    <3> QED BY <1>10, <3>1, <3>3
  <2> QED BY <1>1, <1>2, <1>3, <2>1, <2>2 DEF Gamma!ScanInv
<1>14. Gamma!SoldInv'
  <2> SUFFICES ASSUME "blind" \notin gammaUpsets', NEW s \in Gamma!OpenSignals'
      PROVE  /\ s.leg.expiry >= gammaDay
             /\ s.leg.expiry = gammaDay => \/ gammaClock < LastEntry
                                           \/ [leg |-> s.leg, day |-> s.day] \in scan.exit \ {p}
    BY <1>2, <1>3 DEF Gamma!SoldInv
  <2>1. s \in Gamma!OpenSignals /\ s # o
    BY <1>10
  <2>2. /\ s.leg.expiry >= gammaDay
        /\ s.leg.expiry = gammaDay => \/ gammaClock < LastEntry
                                      \/ [leg |-> s.leg, day |-> s.day] \in scan.exit
    BY <1>1, <1>2, <2>1 DEF Gamma!SoldInv
  <2>3. [leg |-> s.leg, day |-> s.day] # p
    <3> SUFFICES ASSUME [leg |-> s.leg, day |-> s.day] = p PROVE FALSE
      OBVIOUS
    <3>1. s.leg = p.leg
      OBVIOUS
    <3> QED BY <1>11, <2>1, <3>1
  <2> QED BY <2>2, <2>3
<1>15. Gamma!HeldInv'
  <2> SUFFICES ASSUME "hand" \notin gammaUpsets
      PROVE  Gamma!HeldInv'
    BY <1>2 DEF Gamma!HeldInv
  <2>1. Gamma!Net(p.leg) = 1
    BY <1>4, <1>6 DEF Gamma!HeldInv
  <2>2. \A l \in Gamma!Contract : \/ l = p.leg /\ ~dup /\ Gamma!Net(l)' = 0
                                  \/ l = p.leg /\ dup /\ Gamma!Net(l)' = 1
                                  \/ l # p.leg /\ Gamma!Net(l)' = Gamma!Net(l)
    BY <1>9, <2>1, GammaNetType
  <2>3. \A l \in Gamma!Contract : Gamma!Net(l)' # 0 => Gamma!Net(l) # 0
    BY <2>1, <2>2
  <2>4. \A l \in Gamma!Contract : Gamma!Net(l)' \in {0, 1}
    BY <2>2 DEF Gamma!HeldInv
  <2>5. ASSUME NEW a \in Gamma!Contract, NEW b \in Gamma!Contract, a.dir = b.dir,
               Gamma!Net(a)' # 0, Gamma!Net(b)' # 0
        PROVE  a = b
    BY <2>3, <2>5 DEF Gamma!HeldInv
  <2>6. ASSUME NEW s \in Gamma!OpenSignals', s.leg.expiry >= gammaDay
        PROVE  Gamma!Net(s.leg)' = 1
    <3>1. s \in Gamma!OpenSignals /\ s.leg # p.leg /\ s.leg \in Gamma!Contract
      BY <1>10, <1>11 DEF Gamma!OpenSignals, Gamma!Types, Gamma!TypeOK
    <3> QED BY <2>2, <2>6, <3>1 DEF Gamma!HeldInv
  <2>7. ASSUME "swallowed" \notin gammaUpsets', NEW l \in Gamma!Contract, l.expiry >= gammaDay, Gamma!Net(l)' # 0
        PROVE  \E s \in Gamma!OpenSignals' : s.leg = l
    <3>1. ~dup /\ "swallowed" \notin gammaUpsets
      BY <1>2, <2>7
    <3>2. l # p.leg /\ Gamma!Net(l) # 0
      BY <2>2, <2>7, <3>1
    <3>3. PICK s \in Gamma!OpenSignals : s.leg = l
      BY <2>7, <3>1, <3>2 DEF Gamma!HeldInv
    <3> QED BY <1>4, <1>10, <3>2, <3>3
  <2> QED BY <1>2, <2>4, <2>5, <2>6, <2>7 DEF Gamma!HeldInv
<1> QED BY <1>10, <1>12, <1>13, <1>14, <1>15

\* The other writers of the table know nothing of the log and the scan.
LEMMA GammaOtherWriter ==
  ASSUME Gamma!Types, Gamma!LogInv, Gamma!ScanInv, Gamma!SoldInv,
         UNCHANGED <<signal_log, scan, gammaDay, gammaClock>>,
         gammaUpsets \subseteq gammaUpsets', gammaUpsets' \subseteq {"blind", "swallowed", "hand"},
         NEW t \in Gamma!TradeRow(Gamma!Contract), t.date \in 1 .. GammaDays, t.date <= t.leg.expiry,
         \/ gamma_trades' = Gamma!RecordTrade(gamma_trades, t)
         \/ \E l \in Gamma!Contract : gamma_trades' = Gamma!MarkTradeClosed(Gamma!RecordTrade(gamma_trades, t), l)
  PROVE  /\ Gamma!Types' /\ Gamma!LogInv' /\ Gamma!ScanInv' /\ Gamma!SoldInv' /\ Gamma!OpenSignals' = Gamma!OpenSignals
         /\ \A l \in Gamma!Contract : Gamma!Net(l)' = Gamma!Net(l) + IF t.leg = l /\ ~Gamma!Duplicate(gamma_trades, t)
                                        THEN Gamma!Amount(t) ELSE 0
<1>1. /\ Gamma!IsTable(gamma_trades', Gamma!Contract)
      /\ gamma_trades' \subseteq [leg : Gamma!Contract, date : 1 .. GammaDays,
                                  action : Gamma!Actions, qty : Nat \ {0}, state : Gamma!States]
      /\ \A r \in gamma_trades' : r.date <= r.leg.expiry
      /\ \A q \in gamma_trades : \E r \in gamma_trades' : Gamma!SameKey(r, q)
      /\ \A l \in Gamma!Contract : Gamma!Net(l)' = Gamma!Net(l) + IF t.leg = l /\ ~Gamma!Duplicate(gamma_trades, t)
                                        THEN Gamma!Amount(t) ELSE 0
  BY GammaRecordedTypes
<1>2. Gamma!OpenSignals' = Gamma!OpenSignals /\ Gamma!Expiry' = Gamma!Expiry
  BY DEF Gamma!OpenSignals, Gamma!Expiry
<1>3. Gamma!Types'
  BY <1>1 DEF Gamma!Types, Gamma!TypeOK, Gamma!Position
<1>4. Gamma!LogInv'
  BY <1>1, <1>2 DEF Gamma!LogInv, Gamma!SameKey
<1>5. Gamma!ScanInv'
  BY <1>2 DEF Gamma!ScanInv
<1>6. Gamma!SoldInv'
  BY <1>2 DEF Gamma!SoldInv
<1> QED BY <1>1, <1>2, <1>3, <1>4, <1>5, <1>6

LEMMA GammaSettleStep ==
  ASSUME Gamma!Timetable, Gamma!Inv, NEW leg \in Gamma!Contract, Gamma!Settle(leg)
  PROVE  Gamma!Inv'
<1> USE DEF Gamma!Inv
<1> DEFINE t == Gamma!Trade(leg, leg.expiry, IF Gamma!Net(leg) > 0 THEN "SELL" ELSE "BUY",
                      Gamma!Magnitude(Gamma!Net(leg)))
<1>1. /\ leg.expiry < gammaDay /\ Gamma!Net(leg) # 0 /\ ~Gamma!Duplicate(gamma_trades, t)
      /\ gamma_trades' = Gamma!MarkTradeClosed(Gamma!RecordTrade(gamma_trades, t), leg)
      /\ UNCHANGED <<signal_log, scan, gammaDay, gammaClock, gammaUpsets>>
  BY DEF Gamma!Settle
<1>2. Gamma!Net(leg) \in Int
  BY GammaNetType
<1>3. Gamma!Magnitude(Gamma!Net(leg)) \in Nat \ {0}
  BY <1>1, <1>2 DEF Gamma!Magnitude
<1>4. PICK r \in gamma_trades : r.leg = leg
  BY <1>1, GammaNetHasRow
<1>5. leg.expiry \in 1 .. GammaDays /\ leg.expiry \in Int
  <2>1. r.date \in 1 .. GammaDays /\ r.date <= leg.expiry
    BY <1>4 DEF Gamma!Types, Gamma!TypeOK
  <2>2. gammaDay \in 1 .. GammaDays /\ GammaDays \in Nat
    BY DEF Gamma!Timetable, Gamma!Types, Gamma!TypeOK
  <2>3. leg.expiry \in Nat
    BY DEF Gamma!Contract, Gamma!Timetable
  <2>4. r.date \in Nat /\ 1 <= r.date /\ gammaDay \in Nat /\ gammaDay <= GammaDays
    BY <2>1, <2>2
  <2> QED BY <1>1, <2>1, <2>2, <2>3, <2>4
<1>6. /\ t \in Gamma!TradeRow(Gamma!Contract) /\ t.leg = leg /\ t.date = leg.expiry
      /\ Gamma!Amount(t) = -Gamma!Net(leg)
  <2>1. (IF Gamma!Net(leg) > 0 THEN "SELL" ELSE "BUY") \in Gamma!Actions
    BY DEF Gamma!Actions
  <2>2. t \in Gamma!TradeRow(Gamma!Contract)
    BY <1>3, <1>5, <2>1, Gamma!TradeIsRow
  <2>3. Gamma!Amount(t) = -Gamma!Net(leg)
    BY <1>1, <1>2 DEF Gamma!Trade, Gamma!Amount, Gamma!Signed, Gamma!Magnitude
  <2> QED BY <2>2, <2>3 DEF Gamma!Trade
<1> HIDE DEF t
<1>7. /\ Gamma!Types' /\ Gamma!LogInv' /\ Gamma!ScanInv' /\ Gamma!SoldInv' /\ Gamma!OpenSignals' = Gamma!OpenSignals
      /\ \A l \in Gamma!Contract : Gamma!Net(l)' = Gamma!Net(l) + IF leg = l THEN -Gamma!Net(leg) ELSE 0
  <2>1. gammaUpsets \subseteq gammaUpsets' /\ gammaUpsets' \subseteq {"blind", "swallowed", "hand"}
    BY <1>1 DEF Gamma!Types, Gamma!TypeOK
  <2>2. t.date \in 1 .. GammaDays /\ t.date <= t.leg.expiry
    BY <1>5, <1>6
  <2>3. \E l \in Gamma!Contract : gamma_trades' = Gamma!MarkTradeClosed(Gamma!RecordTrade(gamma_trades, t), l)
    BY <1>1
  <2>4. /\ Gamma!Types' /\ Gamma!LogInv' /\ Gamma!ScanInv' /\ Gamma!SoldInv' /\ Gamma!OpenSignals' = Gamma!OpenSignals
        /\ \A l \in Gamma!Contract : Gamma!Net(l)' = Gamma!Net(l) + IF t.leg = l /\ ~Gamma!Duplicate(gamma_trades, t)
                                        THEN Gamma!Amount(t) ELSE 0
    BY <1>1, <1>6, <2>1, <2>2, <2>3, GammaOtherWriter
  <2> QED BY <1>1, <1>6, <2>4
<1>8. Gamma!HeldInv'
  <2> SUFFICES ASSUME "hand" \notin gammaUpsets
      PROVE  Gamma!HeldInv'
    BY <1>1 DEF Gamma!HeldInv
  <2>1. \A l \in Gamma!Contract : IF l = leg THEN Gamma!Net(l)' = 0 ELSE Gamma!Net(l)' = Gamma!Net(l)
    BY <1>2, <1>7, GammaNetType
  <2>2. \A l \in Gamma!Contract : Gamma!Net(l)' \in {0, 1}
    BY <2>1 DEF Gamma!HeldInv
  <2>3. ASSUME NEW a \in Gamma!Contract, NEW b \in Gamma!Contract, a.dir = b.dir,
               Gamma!Net(a)' # 0, Gamma!Net(b)' # 0
        PROVE  a = b
    BY <2>1, <2>3 DEF Gamma!HeldInv
  <2>4. ~(leg.expiry >= gammaDay)
    <3>1. gammaDay \in Int
      BY DEF Gamma!Types, Gamma!TypeOK
    <3> QED BY <1>1, <1>5, <3>1
  <2>5. ASSUME NEW s \in Gamma!OpenSignals, s.leg.expiry >= gammaDay
        PROVE  Gamma!Net(s.leg)' = 1
    <3>1. s.leg \in Gamma!Contract /\ s.leg # leg
      BY <2>4, <2>5 DEF Gamma!OpenSignals, Gamma!Types, Gamma!TypeOK
    <3> QED BY <2>1, <2>5, <3>1 DEF Gamma!HeldInv
  <2>6. ASSUME "swallowed" \notin gammaUpsets, NEW l \in Gamma!Contract, l.expiry >= gammaDay, Gamma!Net(l)' # 0
        PROVE  \E s \in Gamma!OpenSignals : s.leg = l
    BY <2>1, <2>6 DEF Gamma!HeldInv
  <2> QED BY <1>1, <1>7, <2>2, <2>3, <2>5, <2>6 DEF Gamma!HeldInv
<1> QED BY <1>7, <1>8

LEMMA GammaOperatorStep ==
  ASSUME Gamma!Timetable, Gamma!Inv, NEW leg \in Gamma!Contract, Gamma!Operator(leg)
  PROVE  Gamma!Inv'
<1> USE DEF Gamma!Inv
<1> DEFINE held == Gamma!Net(leg)
           t == IF held = 0 THEN Gamma!Trade(leg, gammaDay, "BUY", 1)
                ELSE Gamma!Trade(leg, gammaDay, IF held > 0 THEN "SELL" ELSE "BUY", Gamma!Magnitude(held))
<1>1. /\ leg.expiry = Gamma!Expiry
      /\ gammaUpsets' = gammaUpsets \cup {"hand"}
      /\ UNCHANGED <<signal_log, scan, gammaDay, gammaClock>>
      /\ \/ gamma_trades' = Gamma!RecordTrade(gamma_trades, t)
         \/ \E l \in Gamma!Contract : gamma_trades' = Gamma!MarkTradeClosed(Gamma!RecordTrade(gamma_trades, t), l)
  BY DEF Gamma!Operator
<1>2. held \in Int
  BY GammaNetType
<1>3. held # 0 => Gamma!Magnitude(held) \in Nat \ {0}
  BY <1>2 DEF Gamma!Magnitude
<1>4. gammaDay \in 1 .. GammaDays /\ gammaDay \in Int /\ gammaDay <= leg.expiry
  <2>1. gammaDay \in 1 .. GammaDays
    BY DEF Gamma!Types, Gamma!TypeOK
  <2>2. gammaDay \in Int
    BY <2>1
  <2> QED BY <1>1, <2>1, <2>2, GammaNextExpiry
<1>5. t \in Gamma!TradeRow(Gamma!Contract) /\ t.leg = leg /\ t.date = gammaDay
  <2>1. CASE held = 0
    <3>1. Gamma!Trade(leg, gammaDay, "BUY", 1) \in Gamma!TradeRow(Gamma!Contract)
      BY <1>4, Gamma!TradeIsRow DEF Gamma!Actions
    <3> QED BY <2>1, <3>1 DEF Gamma!Trade
  <2>2. CASE held # 0
    <3> DEFINE a == IF held > 0 THEN "SELL" ELSE "BUY"
    <3>1. a \in Gamma!Actions
      BY DEF Gamma!Actions
    <3> HIDE DEF a
    <3>2. Gamma!Trade(leg, gammaDay, a, Gamma!Magnitude(held)) \in Gamma!TradeRow(Gamma!Contract)
      BY <1>3, <1>4, <2>2, <3>1, Gamma!TradeIsRow
    <3>3. t = Gamma!Trade(leg, gammaDay, a, Gamma!Magnitude(held))
      BY <2>2 DEF a
    <3> QED BY <3>2, <3>3 DEF Gamma!Trade
  <2> QED BY <2>1, <2>2
<1> HIDE DEF t
<1>6. Gamma!Types' /\ Gamma!LogInv' /\ Gamma!ScanInv' /\ Gamma!SoldInv'
  <2>1. gammaUpsets \subseteq gammaUpsets' /\ gammaUpsets' \subseteq {"blind", "swallowed", "hand"}
    BY <1>1 DEF Gamma!Types, Gamma!TypeOK
  <2>2. t.date \in 1 .. GammaDays /\ t.date <= t.leg.expiry
    BY <1>4, <1>5
  <2> QED BY <1>1, <1>5, <2>1, <2>2, GammaOtherWriter
<1>7. Gamma!HeldInv'
  BY <1>1 DEF Gamma!HeldInv
<1> QED BY <1>6, <1>7

LEMMA GammaInvInit == Gamma!Timetable /\ Gamma!Init => Gamma!Inv
<1> SUFFICES ASSUME Gamma!Timetable, Gamma!Init PROVE Gamma!Inv
  OBVIOUS
<1>1. /\ gamma_trades = {} /\ signal_log = {} /\ scan = Gamma!Cron /\ gammaDay = 1
      /\ gammaClock = 0 /\ gammaUpsets = {} /\ Gamma!OpenSignals = {} /\ scan.pc = "cron"
  BY DEF Gamma!Init, Gamma!OpenSignals, Gamma!Cron
<1>2. Gamma!Types
  <2>1. Gamma!IsTable(gamma_trades, Gamma!Contract)
    BY <1>1, Gamma!EmptyTable
  <2> QED BY <1>1, <2>1 DEF Gamma!Types, Gamma!TypeOK, Gamma!Timetable
<1>3. \A l : Gamma!Net(l) = 0
  <2> DEFINE T == {}
  <2>1. \A l : Gamma!Net(l) = Gamma!Held(T, l)
    BY <1>1 DEF Gamma!Net, Gamma!Held
  <2> HIDE DEF T
  <2>2. \A l : Gamma!Held({}, l) = 0
    BY Gamma!EmptyTable
  <2> QED BY <2>1, <2>2 DEF T
<1>4. Gamma!LogInv /\ Gamma!ScanInv /\ Gamma!SoldInv
  BY <1>1 DEF Gamma!LogInv, Gamma!ScanInv, Gamma!SoldInv
<1>5. Gamma!HeldInv
  BY <1>1, <1>3 DEF Gamma!HeldInv
<1> QED BY <1>2, <1>4, <1>5 DEF Gamma!Inv

LEMMA GammaInvStep == Gamma!Timetable /\ Gamma!Inv /\ [Gamma!Next]_Gamma!vars => Gamma!Inv'
<1> SUFFICES ASSUME Gamma!Timetable, Gamma!Inv, [Gamma!Next]_Gamma!vars PROVE Gamma!Inv'
  OBVIOUS
<1>1. CASE Gamma!SkipScan
  BY <1>1, GammaSkipScanStep
<1>2. CASE Gamma!MissScan
  BY <1>2, GammaMissScanStep
<1>3. CASE Gamma!StartScan
  BY <1>3, GammaStartScanStep
<1>4. CASE Gamma!EndScan
  BY <1>4, GammaEndScanStep
<1>5. CASE Gamma!ScanDies
  BY <1>5, GammaScanDiesStep
<1>6. CASE \E leg \in Gamma!Contract : Gamma!Enter(leg)
  BY <1>6, GammaEnterStep
<1>7. CASE \E leg \in Gamma!Contract : Gamma!EnterFails(leg)
  BY <1>7, GammaEnterFailsStep
<1>8. CASE \E leg \in Gamma!Contract : Gamma!Settle(leg)
  BY <1>8, GammaSettleStep
<1>9. CASE \E leg \in Gamma!Contract : Gamma!Operator(leg)
  BY <1>9, GammaOperatorStep
<1>10. CASE \E p \in Gamma!Position : Gamma!Exit(p)
  BY <1>10, GammaExitStep
<1>11. CASE \E p \in Gamma!Position : Gamma!Hold(p)
  BY <1>11, GammaHoldStep
<1>12. CASE \E p \in Gamma!Position : Gamma!Unexited(p)
  BY <1>12, GammaUnexitedStep
<1>13. CASE Gamma!NextCron
  BY <1>13, GammaNextCronStep
<1>14. CASE Gamma!NextDay
  BY <1>14, GammaNextDayStep
<1>15. CASE UNCHANGED Gamma!vars
  <2>1. UNCHANGED <<gamma_trades, signal_log, scan, gammaDay, gammaClock, gammaUpsets>>
    BY <1>15 DEF Gamma!vars
  <2>2. Gamma!LogInv' /\ Gamma!HeldInv' /\ Gamma!OpenSignals' = Gamma!OpenSignals /\ Gamma!Expiry' = Gamma!Expiry
    BY <2>1, GammaLogFrame, GammaHeldFrame DEF Gamma!Inv, Gamma!Expiry
  <2>3. Gamma!Types'
    BY <2>1 DEF Gamma!Inv, Gamma!Types, Gamma!TypeOK, Gamma!Position
  <2>4. Gamma!ScanInv' /\ Gamma!SoldInv'
    BY <2>1, <2>2 DEF Gamma!Inv, Gamma!ScanInv, Gamma!SoldInv
  <2> QED BY <2>2, <2>3, <2>4 DEF Gamma!Inv
<1> QED
  BY <1>1, <1>2, <1>3, <1>4, <1>5, <1>6, <1>7, <1>8, <1>9, <1>10, <1>11, <1>12,
     <1>13, <1>14, <1>15 DEF Gamma!Next, Gamma!Position

\* A set whose elements are all the same one has at most one.
LEMMA GammaOneAtMost ==
  ASSUME NEW S, \A a, b \in S : a = b
  PROVE  Gamma!Cardinality(S) <= 1 /\ (S # {} => Gamma!Cardinality(S) = 1)
<1>1. CASE S = {}
  BY <1>1, Gamma!FS_EmptySet
<1>2. CASE S # {}
  <2>1. PICK a : S = {a}
    BY <1>2
  <2>2. Gamma!Cardinality({a}) = 1
    BY Gamma!FS_Singleton, Zenon
  <2>3. Gamma!Cardinality(S) = 1
    BY <2>1, <2>2, Zenon
  <2> QED BY <2>3
<1> QED BY <1>1, <1>2

LEMMA GammaInvGives ==
  ASSUME Gamma!Timetable, Gamma!Inv
  PROVE  Gamma!TypeOK /\ Gamma!LogIsLedger /\ Gamma!OnePerDirection /\ Gamma!NoneOutlivesContract
<1> USE DEF Gamma!Inv
<1>1. Gamma!TypeOK /\ Gamma!NoneOutlivesContract
  BY DEF Gamma!Types, Gamma!SoldInv, Gamma!NoneOutlivesContract
<1>2. Gamma!LogIsLedger
  <2> SUFFICES ASSUME "hand" \notin gammaUpsets, "swallowed" \notin gammaUpsets,
                      NEW leg \in Gamma!Contract, leg.expiry >= gammaDay
      PROVE  Gamma!Net(leg) = Gamma!Cardinality({s \in Gamma!OpenSignals : s.leg = leg})
    BY DEF Gamma!LogIsLedger
  <2> DEFINE S == {s \in Gamma!OpenSignals : s.leg = leg}
  <2>1. \A a, b \in S : a = b
    BY DEF Gamma!LogInv
  <2>2. CASE S = {}
    <3>1. Gamma!Net(leg) = 0
      BY <2>2 DEF Gamma!HeldInv
    <3> QED BY <2>2, <3>1, Gamma!FS_EmptySet
  <2>3. CASE S # {}
    <3>1. Gamma!Net(leg) = 1
      BY <2>3 DEF Gamma!HeldInv
    <3>2. Gamma!Cardinality(S) = 1
      <4> HIDE DEF S
      <4> QED BY <2>1, <2>3, GammaOneAtMost
    <3> QED BY <3>1, <3>2
  <2> QED BY <2>2, <2>3
<1>3. Gamma!OnePerDirection
  <2> SUFFICES ASSUME NEW dir \in Directions
      PROVE  /\ Gamma!Cardinality({s \in Gamma!OpenSignals : s.leg.dir = dir}) <= 1
             /\ "hand" \notin gammaUpsets =>
                  Gamma!Cardinality({leg \in Gamma!Contract : leg.dir = dir /\ Gamma!Net(leg) # 0}) <= 1
    BY DEF Gamma!OnePerDirection
  <2> DEFINE S == {s \in Gamma!OpenSignals : s.leg.dir = dir}
             H == {leg \in Gamma!Contract : leg.dir = dir /\ Gamma!Net(leg) # 0}
  <2>1. \A a, b \in S : a = b
    BY DEF Gamma!LogInv
  <2>2. "hand" \notin gammaUpsets => \A a, b \in H : a = b
    BY DEF Gamma!HeldInv
  <2> HIDE DEF S, H
  <2>3. Gamma!Cardinality(S) <= 1 /\ ("hand" \notin gammaUpsets => Gamma!Cardinality(H) <= 1)
    BY <2>1, <2>2, GammaOneAtMost
  <2> QED BY <2>3 DEF S, H
<1> QED BY <1>1, <1>2, <1>3

LEMMA GammaAlways ==
  Gamma!Timetable => (Gamma!Spec => [](/\ Gamma!TypeOK
                                       /\ Gamma!LogIsLedger
                                       /\ Gamma!OnePerDirection
                                       /\ Gamma!NoneOutlivesContract))
<1> SUFFICES ASSUME Gamma!Timetable
    PROVE  Gamma!Spec => [](/\ Gamma!TypeOK
                            /\ Gamma!LogIsLedger
                            /\ Gamma!OnePerDirection
                            /\ Gamma!NoneOutlivesContract)
  OBVIOUS
<1>1. Gamma!Init => Gamma!Inv
  BY GammaInvInit
<1>2. Gamma!Inv /\ [Gamma!Next]_Gamma!vars => Gamma!Inv'
  BY GammaInvStep
<1>3. Gamma!Inv => Gamma!TypeOK /\ Gamma!LogIsLedger /\ Gamma!OnePerDirection /\ Gamma!NoneOutlivesContract
  BY GammaInvGives
<1> QED BY <1>1, <1>2, <1>3, PTL DEF Gamma!Spec

-----------------------------------------------------------------------------
(* The calendar.                                                           *)

LEMMA CalendarMinFacts ==
  ASSUME NEW S \in SUBSET Nat, S # {}
  PROVE  Calendar!Min(S) \in S /\ \A y \in S : Calendar!Min(S) <= y
BY MinFacts DEF Calendar!Min, Min

\* Of several days there is a latest.
LEMMA CalendarMaxFacts ==
  ASSUME NEW n \in Nat, NEW S \in SUBSET (1 .. n), S # {}
  PROVE  Calendar!Max(S) \in S /\ \A d \in S : d <= Calendar!Max(S)
<1> DEFINE left == {n - d : d \in S}
<1>1. left \in SUBSET Nat /\ left # {}
  OBVIOUS
<1> HIDE DEF left
<1>2. PICK m \in left : \A y \in left : m <= y
  BY <1>1, MinFacts
<1>3. PICK d \in S : m = n - d
  BY DEF left
<1>4. \A e \in S : d >= e
  <2> TAKE e \in S
  <2>1. n - e \in left
    BY DEF left
  <2> QED BY <1>2, <1>3, <2>1
<1>5. Calendar!Max(S) \in S /\ \A e \in S : Calendar!Max(S) >= e
  BY <1>3, <1>4 DEF Calendar!Max
<1>6. \A e \in S : e \in Int
  OBVIOUS
<1> HIDE DEF left
<1> QED BY <1>5, <1>6

\* Multiples of a number that lie less than it apart are equal.
LEMMA CalendarMultiples ==
  ASSUME NEW c \in Nat \ {0}, NEW a \in Int, NEW b \in Int,
         a % c = 0, b % c = 0, b < a + c
  PROVE  b <= a
<1>1. a = c * (a \div c) /\ b = c * (b \div c) /\ a \div c \in Int /\ b \div c \in Int
  OBVIOUS
<1> DEFINE x == a \div c
           y == b \div c
<1>2. x \in Int /\ y \in Int /\ a = c * x /\ b = c * y
  BY <1>1
<1> HIDE DEF x, y
<1>3. c * (y - x) < c
  BY <1>2
<1>4. ~(y - x >= 1)
  <2> SUFFICES ASSUME y - x >= 1 PROVE FALSE
    OBVIOUS
  <2>1. c * (y - x) >= c * 1
    BY <1>2
  <2> QED BY <1>2, <1>3, <2>1
<1>5. y <= x
  BY <1>2, <1>4
<1>6. c * y <= c * x
  BY <1>2, <1>5
<1> QED BY <1>2, <1>6

\* The near expiry of an entry window.
LEMMA CalendarWindowExpiry ==
  ASSUME Calendar!Policy, NEW d \in Nat, Calendar!EntryWindow(d)
  PROVE  Calendar!NearExpiry(d) \in Nat /\ Calendar!NearExpiry(d) % CycleLength = 0 /\ d < Calendar!NearExpiry(d)
<1>1. CycleLength \in Nat /\ CycleLength >= 2 /\ d % CycleLength = 1
  BY DEF Calendar!Policy, Calendar!EntryWindow
<1> DEFINE q == d \div CycleLength
<1>2. q \in Int /\ d = CycleLength * q + 1
  BY <1>1
<1>3. Calendar!NearExpiry(d) = CycleLength * (q + 1)
  <2> HIDE DEF q
  <2> QED BY <1>1, <1>2 DEF Calendar!NearExpiry
<1>4. (CycleLength * (q + 1)) % CycleLength = 0
  <2> HIDE DEF q
  <2> QED BY <1>1, <1>2
<1>5. Calendar!NearExpiry(d) \in Nat /\ d < Calendar!NearExpiry(d)
  BY <1>1 DEF Calendar!NearExpiry
<1> QED BY <1>3, <1>4, <1>5

\* Two expiries that are both the next one after a day are the same.
LEMMA CalendarSameNext ==
  ASSUME Calendar!Policy, NEW d \in Int, NEW a \in Int, NEW b \in Int,
         Calendar!NextAfter(a, d), Calendar!NextAfter(b, d)
  PROVE  a = b
<1>1. CycleLength \in Nat \ {0}
  BY DEF Calendar!Policy
<1>2. /\ a % CycleLength = 0 /\ b % CycleLength = 0
      /\ b < a + CycleLength /\ a < b + CycleLength
  BY <1>1 DEF Calendar!NextAfter
<1>3. b <= a /\ a <= b
  BY <1>1, <1>2, CalendarMultiples
<1> QED BY <1>3

\* The hard exit leaves the guard before the near expiry.
LEMMA CalendarHardExitFacts ==
  ASSUME Calendar!Policy, NEW d \in Nat
  PROVE  Calendar!HardExit(d) \in Int /\ Calendar!HardExit(d) <= Calendar!NearExpiry(d) - (ExitDte + 1)
<1> DEFINE a == d + HardHold
           b == Calendar!NearExpiry(d) - (ExitDte + 1)
<1>1. a \in Int /\ b \in Int
  BY DEF Calendar!Policy, Calendar!NearExpiry
<1>2. Calendar!HardExit(d) = Calendar!Min({a, b})
  BY DEF Calendar!HardExit
<1> HIDE DEF a, b
<1>3. Calendar!Min({a, b}) \in {a, b} /\ Calendar!Min({a, b}) <= b
  <2>1. \E x \in {a, b} : \A y \in {a, b} : x <= y
    BY <1>1
  <2>2. \A y \in {a, b} : Calendar!Min({a, b}) <= y
    BY <2>1 DEF Calendar!Min
  <2>3. Calendar!Min({a, b}) \in {a, b}
    BY <2>1 DEF Calendar!Min
  <2> QED BY <2>2, <2>3
<1> QED BY <1>1, <1>2, <1>3 DEF b

\* What the ledger says about the origin of a cycle.
LEMMA CalendarOriginFacts ==
  ASSUME Calendar!Types, NEW entry, Calendar!CycleOrigin(entry) # 0
  PROVE  /\ Calendar!CycleOrigin(entry) \in Nat /\ Calendar!CycleOrigin(entry) \in 1 .. day
         /\ Calendar!CycleOrigin(entry) <= entry /\ Calendar!EntryWindow(Calendar!CycleOrigin(entry))
<1> DEFINE closes == {r \in Calendar!ShortCalls("BUY") : ~Calendar!IsRecentreClose(r) /\ r.date <= entry}
           lastClose == IF closes = {} THEN 0 ELSE Calendar!Max({r.date : r \in closes})
           sold == {r \in Calendar!ShortCalls("SELL") : r.date <= entry /\ r.date > lastClose}
           dates == {r.date : r \in sold}
           origin == IF sold = {} THEN 0 ELSE Calendar!Min(dates)
<1>1. Calendar!CycleOrigin(entry) = IF origin # 0 /\ Calendar!EntryWindow(origin) THEN origin ELSE 0
  BY DEF Calendar!CycleOrigin
<1>2. sold # {} /\ Calendar!CycleOrigin(entry) = Calendar!Min(dates) /\ Calendar!EntryWindow(Calendar!Min(dates))
  <2> HIDE DEF sold, dates
  <2> QED BY <1>1
<1>3. \A r \in sold : r \in ledger /\ r.date <= entry
  BY DEF Calendar!ShortCalls
<1>4. \A d \in dates : d \in Nat /\ d \in 1 .. day /\ d <= entry
  <2>1. \A r \in sold : r.date \in Nat /\ r.date \in 1 .. day
    BY <1>3 DEF Calendar!Types, Calendar!Row
  <2> QED BY <1>3, <2>1
<1>5. dates # {} /\ dates \in SUBSET Nat
  BY <1>2, <1>4
<1>6. Calendar!Min(dates) \in dates
  <2> HIDE DEF dates
  <2> QED BY <1>5, CalendarMinFacts
<1> HIDE DEF dates
<1> QED BY <1>2, <1>4, <1>6

\* An entry is planned for the next expiry, which is ahead.
LEMMA CalendarPlanFacts ==
  ASSUME Calendar!Policy, Calendar!Types, Calendar!MayEnter
  PROVE  LET near == Calendar!NearExpiry(Calendar!PlanDay)
         IN  Calendar!NextAfter(near, day) /\ near \in CycleLength .. FinalDay + CycleLength
<1>1. day \in Nat /\ day \in 1 .. FinalDay /\ FinalDay \in Nat
  BY DEF Calendar!Types, Calendar!Policy
<1>2. Calendar!PlanDay # 0 /\ day < Calendar!HardExit(Calendar!PlanDay)
  BY DEF Calendar!MayEnter
<1>3. Calendar!PlanDay \in Nat /\ Calendar!PlanDay \in 1 .. day /\ Calendar!EntryWindow(Calendar!PlanDay)
  <2>1. CASE Calendar!Todays # {}
    <3>1. Calendar!PlanDay = Calendar!CycleOrigin(day)
      BY <2>1 DEF Calendar!PlanDay
    <3> QED BY <1>2, <3>1, CalendarOriginFacts
  <2>2. CASE Calendar!Todays = {}
    BY <1>1, <1>2, <2>2 DEF Calendar!PlanDay
  <2> QED BY <2>1, <2>2
<1> DEFINE d == Calendar!PlanDay
<1>4. d \in Nat /\ d \in 1 .. day /\ Calendar!EntryWindow(d) /\ day < Calendar!HardExit(d)
  BY <1>2, <1>3
<1> HIDE DEF d
<1>5. Calendar!NearExpiry(d) \in Nat /\ Calendar!NearExpiry(d) % CycleLength = 0 /\ d < Calendar!NearExpiry(d)
  BY <1>4, CalendarWindowExpiry
<1>6. Calendar!HardExit(d) \in Int /\ Calendar!HardExit(d) <= Calendar!NearExpiry(d) - (ExitDte + 1)
  BY <1>4, CalendarHardExitFacts
<1>7. ExitDte \in Nat /\ CycleLength \in Nat /\ Calendar!NearExpiry(d) = d - 1 + CycleLength
  BY DEF Calendar!Policy, Calendar!NearExpiry
<1>8. day < Calendar!NearExpiry(d) /\ Calendar!NearExpiry(d) < day + CycleLength
  BY <1>1, <1>4, <1>5, <1>6, <1>7
<1>9. Calendar!NearExpiry(d) \in CycleLength .. FinalDay + CycleLength
  BY <1>1, <1>4, <1>7
<1> QED BY <1>5, <1>8, <1>9 DEF Calendar!NextAfter, d

\* What one write does to the rows of each leg.
LEMMA CalendarRecordFacts ==
  ASSUME Calendar!Types, NEW leg \in Calendar!Leg, NEW action \in {"BUY", "SELL"},
         NEW why \in Calendar!Reasons, Calendar!NextAfter(leg.near, day),
         Calendar!Record(leg, action, why)
  PROVE  /\ Calendar!IsFiniteSet(ledger')
         /\ ledger' \subseteq Calendar!Row
         /\ \A r \in ledger' : r.date \in 1 .. day /\ Calendar!NextAfter(r.leg.near, r.date)
         /\ ledger \subseteq ledger'
         /\ \A r \in ledger' : r \in ledger \/ (r.leg = leg /\ r.action = action /\ r.date = day)
         /\ (\E r \in Calendar!Todays : r.leg = leg /\ r.action = action) => ledger' = ledger
         /\ (~\E r \in Calendar!Todays : r.leg = leg /\ r.action = action) =>
              /\ ledger' # ledger
              /\ Calendar!Cardinality(Calendar!RowsOf(leg, action)') = Calendar!Cardinality(Calendar!RowsOf(leg, action)) + 1
         /\ \A l, a : ~(l = leg /\ a = action) => Calendar!RowsOf(l, a)' = Calendar!RowsOf(l, a)
<1> DEFINE new == [leg |-> leg, date |-> day, action |-> action, why |-> why]
<1>1. day \in Nat /\ day \in 1 .. day
  BY DEF Calendar!Types
<1>2. new \in Calendar!Row
      /\ new.leg = leg /\ new.date = day /\ new.action = action
  BY <1>1 DEF Calendar!Row
<1>3. ledger' = IF \E r \in Calendar!Todays : r.leg = leg /\ r.action = action
                THEN ledger ELSE ledger \cup {new}
  BY DEF Calendar!Record
<1> HIDE DEF new
<1>4. CASE \E r \in Calendar!Todays : r.leg = leg /\ r.action = action
  <2>1. ledger' = ledger
    BY <1>3, <1>4
  <2> QED BY <1>4, <2>1 DEF Calendar!Types, Calendar!RowsOf
<1>5. CASE ~\E r \in Calendar!Todays : r.leg = leg /\ r.action = action
  <2>1. ledger' = ledger \cup {new}
    BY <1>3, <1>5
  <2>2. new \notin ledger
    BY <1>2, <1>5 DEF Calendar!Todays
  <2>3. Calendar!IsFiniteSet(ledger') /\ Calendar!IsFiniteSet(Calendar!RowsOf(leg, action))
    BY <2>1, Calendar!FS_AddElement, Calendar!FS_Subset DEF Calendar!Types, Calendar!RowsOf
  <2>4. Calendar!RowsOf(leg, action)' = Calendar!RowsOf(leg, action) \cup {new} /\ new \notin Calendar!RowsOf(leg, action)
    BY <1>2, <2>1, <2>2 DEF Calendar!RowsOf
  <2>5. Calendar!Cardinality(Calendar!RowsOf(leg, action)') = Calendar!Cardinality(Calendar!RowsOf(leg, action)) + 1
    BY <2>3, <2>4, Calendar!FS_AddElement
  <2>6. \A l, a : ~(l = leg /\ a = action) => Calendar!RowsOf(l, a)' = Calendar!RowsOf(l, a)
    BY <1>2, <2>1 DEF Calendar!RowsOf
  <2>7. \A r \in ledger' : r.date \in 1 .. day /\ Calendar!NextAfter(r.leg.near, r.date)
    BY <1>1, <1>2, <2>1 DEF Calendar!Types
  <2>8. ledger' \subseteq Calendar!Row
    BY <1>2, <2>1 DEF Calendar!Types
  <2> QED BY <1>2, <1>5, <2>1, <2>2, <2>3, <2>5, <2>6, <2>7, <2>8
<1> QED BY <1>4, <1>5

\* A leg is held exactly when it was not bought as often as sold.
LEMMA CalendarHeldIff ==
  \A l : l \in Calendar!Held <=> Calendar!Cardinality(Calendar!RowsOf(l, "BUY")) # Calendar!Cardinality(Calendar!RowsOf(l, "SELL"))
<1> SUFFICES ASSUME NEW l, Calendar!Cardinality(Calendar!RowsOf(l, "BUY")) # Calendar!Cardinality(Calendar!RowsOf(l, "SELL"))
    PROVE  l \in {r.leg : r \in ledger}
  BY DEF Calendar!Held
<1>1. Calendar!RowsOf(l, "BUY") # {} \/ Calendar!RowsOf(l, "SELL") # {}
  OBVIOUS
<1> QED BY <1>1 DEF Calendar!RowsOf

\* A write changes at most whether its own leg is held.
LEMMA CalendarHeldRecord ==
  ASSUME Calendar!Types, NEW leg \in Calendar!Leg, NEW action \in {"BUY", "SELL"},
         NEW why \in Calendar!Reasons, Calendar!NextAfter(leg.near, day),
         Calendar!Record(leg, action, why)
  PROVE  \A l : l # leg => (l \in Calendar!Held' <=> l \in Calendar!Held)
<1>1. \A l, a : ~(l = leg /\ a = action) => Calendar!RowsOf(l, a)' = Calendar!RowsOf(l, a)
  BY CalendarRecordFacts
<1>2. \A l : l \in Calendar!Held' <=> Calendar!Cardinality(Calendar!RowsOf(l, "BUY")') # Calendar!Cardinality(Calendar!RowsOf(l, "SELL")')
  <2> SUFFICES ASSUME NEW l, Calendar!Cardinality(Calendar!RowsOf(l, "BUY")') # Calendar!Cardinality(Calendar!RowsOf(l, "SELL")')
      PROVE  l \in {r.leg : r \in ledger'}
    BY DEF Calendar!Held
  <2>1. Calendar!RowsOf(l, "BUY")' # {} \/ Calendar!RowsOf(l, "SELL")' # {}
    OBVIOUS
  <2> QED BY <2>1 DEF Calendar!RowsOf
<1> QED BY <1>1, <1>2, CalendarHeldIff

LEMMA CalendarRestIsJob == Calendar!Rest \in Calendar!Job
BY DEF Calendar!Rest, Calendar!Job, Calendar!Reasons

\* A process goes on to its next leg.
LEMMA CalendarAfterLegFacts ==
  ASSUME Calendar!Types, NEW p \in Calendar!Processes, ~Calendar!Doing(p, "rest"), Calendar!AfterLeg(p)
  PROVE  /\ job' \in [Calendar!Processes -> Calendar!Job]
         /\ \A q \in Calendar!Processes \ {p} : job'[q] = job[q]
         /\ Len(job[p].legs) = 1 => job'[p] = Calendar!Rest
         /\ Len(job[p].legs) # 1 =>
              /\ job'[p].doing = job[p].doing /\ job'[p].why = job[p].why
              /\ Len(job[p].legs) \in 2 .. 4
              /\ Len(job'[p].legs) = Len(job[p].legs) - 1
              /\ \A i \in 1 .. Len(job'[p].legs) : job'[p].legs[i] = job[p].legs[i + 1]
<1> DEFINE j == job[p]
           k == IF Len(j.legs) = 1 THEN Calendar!Rest
                ELSE [doing |-> j.doing, legs |-> Tail(j.legs), why |-> j.why]
<1>1. j \in Calendar!Job /\ Len(j.legs) \in 1 .. 4 /\ j.legs \in Seq(Calendar!Leg)
  BY DEF Calendar!Types, Calendar!Doing, Calendar!Job
<1>2. job' = [job EXCEPT ![p] = k] /\ job \in [Calendar!Processes -> Calendar!Job]
  <2>1. job \in [Calendar!Processes -> Calendar!Job]
    BY DEF Calendar!Types
  <2>2. job' = [job EXCEPT ![p] = k]
    BY <2>1 DEF Calendar!AfterLeg
  <2> QED BY <2>1, <2>2
<1> HIDE DEF j
<1>3. CASE Len(j.legs) = 1
  <2>1. k = Calendar!Rest
    BY <1>3
  <2> HIDE DEF k
  <2> QED BY <1>2, <1>3, <2>1, CalendarRestIsJob DEF j
<1>4. CASE Len(j.legs) # 1
  <2> DEFINE s == j.legs
  <2>1. s \in Seq(Calendar!Leg) /\ Len(s) \in 2 .. 4
    BY <1>1, <1>4
  <2>2. k = [doing |-> j.doing, legs |-> Tail(s), why |-> j.why]
    BY <1>4
  <2> HIDE DEF s, k
  <2>3. /\ Tail(s) \in Seq(Calendar!Leg) /\ Len(Tail(s)) = Len(s) - 1
        /\ \A i \in 1 .. Len(Tail(s)) : Tail(s)[i] = s[i + 1]
    BY <2>1
  <2>4. k \in Calendar!Job /\ k.doing = j.doing /\ k.legs = Tail(s) /\ k.why = j.why
    BY <1>1, <2>2, <2>3 DEF Calendar!Job
  <2>5. job'[p] = k /\ job' \in [Calendar!Processes -> Calendar!Job] /\ \A q \in Calendar!Processes \ {p} : job'[q] = job[q]
    BY <1>2, <2>4
  <2> QED BY <1>4, <2>1, <2>3, <2>4, <2>5 DEF j, s
<1> QED BY <1>3, <1>4

\* What the state has to say about what is held, when the ledger does not change.
LEMMA CalendarLedgerFrame ==
  ASSUME UNCHANGED ledger
  PROVE  /\ Calendar!Held' = Calendar!Held /\ Calendar!Resolved' = Calendar!Resolved
         /\ \A l, a : Calendar!RowsOf(l, a)' = Calendar!RowsOf(l, a)
         /\ \A d : Calendar!CycleOrigin(d)' = Calendar!CycleOrigin(d)
         /\ \A legs : Calendar!EntryDate(legs)' = Calendar!EntryDate(legs)
<1>1. \A l, a : Calendar!RowsOf(l, a)' = Calendar!RowsOf(l, a)
  BY DEF Calendar!RowsOf
<1>2. Calendar!Held' = Calendar!Held
  BY DEF Calendar!Held, Calendar!RowsOf
<1>3. \A a : Calendar!ShortCalls(a)' = Calendar!ShortCalls(a)
  BY DEF Calendar!ShortCalls
<1>4. \A d : Calendar!CycleOrigin(d)' = Calendar!CycleOrigin(d)
  BY <1>3 DEF Calendar!CycleOrigin
<1>5. \A legs : Calendar!EntryDate(legs)' = Calendar!EntryDate(legs)
  BY <1>1 DEF Calendar!EntryDate
<1> QED BY <1>1, <1>2, <1>4, <1>5 DEF Calendar!Resolved

\* The structure of a plan.
LEMMA CalendarStructureFacts ==
  ASSUME Calendar!Policy, NEW strike \in Strikes, NEW wing \in Wings,
         NEW near \in CycleLength .. FinalDay + CycleLength
  PROVE  /\ Calendar!Structure(strike, wing, near) \in Seq(Calendar!Leg)
         /\ Len(Calendar!Structure(strike, wing, near)) = 4
         /\ \A i \in 1 .. 4 : /\ Calendar!Structure(strike, wing, near)[i].role = Calendar!ROLES[i]
                              /\ Calendar!Structure(strike, wing, near)[i].near = near
<1> DEFINE key == <<strike, strike, strike + wing, strike - wing>>
           s == [i \in 1 .. 4 |-> [role |-> Calendar!ROLES[i], key |-> key[i], near |-> near]]
<1>1. Calendar!Structure(strike, wing, near) = s
  BY DEF Calendar!Structure
<1>2. \A i \in 1 .. 4 : key[i] \in Int /\ Calendar!ROLES[i] \in Calendar!Roles
  BY DEF Calendar!Policy, Calendar!Roles, Calendar!ROLES
<1> HIDE DEF key
<1>3. \A i \in 1 .. 4 : s[i] \in Calendar!Leg
  BY <1>2 DEF Calendar!Leg
<1>4. s \in [1 .. 4 -> Calendar!Leg]
  BY <1>3
<1>5. s \in Seq(Calendar!Leg) /\ Len(s) = 4
  BY <1>4
<1>6. \A i \in 1 .. 4 : s[i].role = Calendar!ROLES[i] /\ s[i].near = near
  OBVIOUS
<1> HIDE DEF s
<1> QED BY <1>1, <1>5, <1>6

LEMMA CalendarPlanEntrySafe ==
  ASSUME Calendar!Policy, Calendar!Types, Calendar!NearInv, NEW p \in Calendar!Processes, Calendar!PlanEntry(p)
  PROVE  Calendar!Types' /\ Calendar!NearInv'
<1>1. /\ job[p] = Calendar!Rest /\ Calendar!MayEnter /\ plans < MaxPlans /\ plans' = plans + 1
      /\ UNCHANGED <<ledger, day, afternoon, failures, cycleStart, upsets>>
  BY DEF Calendar!PlanEntry
<1>2. PICK strike \in Strikes, wing \in Wings :
        job' = [job EXCEPT ![p] = [doing |-> "planned",
                                   legs |-> Calendar!Structure(strike, wing, Calendar!NearExpiry(Calendar!PlanDay)),
                                   why |-> "entry"]]
  BY DEF Calendar!PlanEntry
<1> DEFINE near == Calendar!NearExpiry(Calendar!PlanDay)
           s == Calendar!Structure(strike, wing, near)
           j == [doing |-> "planned", legs |-> s, why |-> "entry"]
<1>3. Calendar!NextAfter(near, day) /\ near \in CycleLength .. FinalDay + CycleLength
  BY <1>1, CalendarPlanFacts
<1>4. job' = [job EXCEPT ![p] = j]
  BY <1>2
<1> HIDE DEF near
<1>5. s \in Seq(Calendar!Leg) /\ Len(s) = 4 /\ \A i \in 1 .. 4 : s[i].near = near
  BY <1>3, CalendarStructureFacts
<1> HIDE DEF s
<1>6. j \in Calendar!Job /\ j.doing = "planned" /\ j.legs = s
  BY <1>5 DEF Calendar!Job, Calendar!Reasons
<1> HIDE DEF j
<1>7. job \in [Calendar!Processes -> Calendar!Job]
  BY DEF Calendar!Types
<1>8. job' \in [Calendar!Processes -> Calendar!Job] /\ job'[p] = j /\ \A q \in Calendar!Processes \ {p} : job'[q] = job[q]
  BY <1>4, <1>6, <1>7
<1>9. Calendar!Types'
  <2>1. plans' \in 0 .. MaxPlans
    BY <1>1 DEF Calendar!Types, Calendar!Policy
  <2>2. \A q \in Calendar!Processes :
          IF job'[q].doing = "rest" THEN job'[q] = Calendar!Rest
          ELSE /\ Len(job'[q].legs) \in 1 .. 4
               /\ \A i \in 1 .. Len(job'[q].legs) : Calendar!NextAfter(job'[q].legs[i].near, day)
    <3>1. \A i \in 1 .. Len(j.legs) : Calendar!NextAfter(j.legs[i].near, day)
      BY <1>3, <1>5, <1>6
    <3>2. Len(j.legs) \in 1 .. 4 /\ j.doing # "rest"
      BY <1>5, <1>6
    <3> QED BY <1>8, <3>1, <3>2 DEF Calendar!Types, Calendar!Doing
  <2>3. job'["script"].doing # "close"
    BY <1>6, <1>8 DEF Calendar!Types, Calendar!Doing, Calendar!Processes
  <2> QED BY <1>1, <1>8, <2>1, <2>2, <2>3 DEF Calendar!Types, Calendar!Doing
<1>10. Calendar!NearInv'
  BY <1>1, <1>6, <1>8, CalendarLedgerFrame DEF Calendar!NearInv
<1> QED BY <1>9, <1>10

LEMMA CalendarOpenStructureSafe ==
  ASSUME Calendar!Policy, Calendar!Types, Calendar!NearInv, NEW p \in Calendar!Processes, Calendar!OpenStructure(p)
  PROVE  Calendar!Types' /\ Calendar!NearInv'
<1>1. /\ job[p].doing = "planned"
      /\ UNCHANGED <<ledger, day, afternoon, plans, failures>>
      /\ job \in [Calendar!Processes -> Calendar!Job]
  BY DEF Calendar!OpenStructure, Calendar!Types
<1>2. cycleStart' \in 0 .. FinalDay /\ upsets' \subseteq Calendar!Upsets
  BY DEF Calendar!OpenStructure, Calendar!Types, Calendar!Upsets
<1> DEFINE j == IF Calendar!Held = {} THEN [job[p] EXCEPT !.doing = "open"] ELSE Calendar!Rest
<1>3. job' = [job EXCEPT ![p] = j]
  BY DEF Calendar!OpenStructure
<1>4. j \in Calendar!Job
  BY <1>1, CalendarRestIsJob DEF Calendar!Job
<1>5. Calendar!Held = {} => j.doing = "open" /\ j.legs = job[p].legs
  BY <1>1 DEF Calendar!Job
<1>6. Calendar!Held # {} => j = Calendar!Rest
  OBVIOUS
<1> HIDE DEF j
<1>7. job' \in [Calendar!Processes -> Calendar!Job] /\ job'[p] = j /\ \A q \in Calendar!Processes \ {p} : job'[q] = job[q]
  BY <1>1, <1>3, <1>4
<1>8. Calendar!Types'
  <2>1. \A q \in Calendar!Processes :
          IF job'[q].doing = "rest" THEN job'[q] = Calendar!Rest
          ELSE /\ Len(job'[q].legs) \in 1 .. 4
               /\ \A i \in 1 .. Len(job'[q].legs) : Calendar!NextAfter(job'[q].legs[i].near, day)
    BY <1>1, <1>5, <1>6, <1>7 DEF Calendar!Types, Calendar!Doing, Calendar!Rest
  <2>2. job'["script"].doing # "close"
    BY <1>5, <1>6, <1>7 DEF Calendar!Types, Calendar!Doing, Calendar!Processes, Calendar!Rest
  <2> QED BY <1>1, <1>2, <1>7, <2>1, <2>2 DEF Calendar!Types, Calendar!Doing
<1>9. Calendar!NearInv'
  BY <1>1, <1>5, <1>6, <1>7, CalendarLedgerFrame DEF Calendar!NearInv, Calendar!Rest
<1> QED BY <1>8, <1>9

\* A ledger whose positions are all of the next expiry.
LEMMA CalendarNearFromNext ==
  ASSUME Calendar!Policy, Calendar!Types, UNCHANGED day,
         \A l \in Calendar!Held' : l \in Calendar!Leg /\ Calendar!NextAfter(l.near, day)
  PROVE  Calendar!NearInv'
<1>1. day \in Int /\ \A l \in Calendar!Held' : l.near \in Int
  BY DEF Calendar!Types, Calendar!Leg, Calendar!Policy
<1>2. \A l, m \in Calendar!Held' : l.near = m.near
  BY <1>1, CalendarSameNext
<1>3. \A legs \in Calendar!Resolved' : legs \subseteq Calendar!Held'
  BY DEF Calendar!Resolved
<1> QED BY <1>2, <1>3 DEF Calendar!NearInv

\* Everything held is a leg.
LEMMA CalendarHeldLegs ==
  ASSUME Calendar!Types
  PROVE  \A l \in Calendar!Held : l \in Calendar!Leg
BY DEF Calendar!Types, Calendar!Row, Calendar!Held

\* A job's next leg.
LEMMA CalendarHeadFacts ==
  ASSUME Calendar!Types, NEW p \in Calendar!Processes, ~Calendar!Doing(p, "rest")
  PROVE  /\ Head(job[p].legs) = job[p].legs[1]
         /\ Head(job[p].legs) \in Calendar!Leg /\ Calendar!NextAfter(Head(job[p].legs).near, day)
         /\ Len(job[p].legs) \in 1 .. 4
         /\ \A i \in 1 .. Len(job[p].legs) : job[p].legs[i] \in Calendar!Leg
         /\ Calendar!OpeningSide(Head(job[p].legs)) \in {"BUY", "SELL"}
         /\ Calendar!ClosingSide(Head(job[p].legs)) \in {"BUY", "SELL"}
         /\ job[p].why \in Calendar!Reasons
<1> DEFINE s == job[p].legs
<1>1. s \in Seq(Calendar!Leg) /\ Len(s) \in 1 .. 4 /\ job[p].why \in Calendar!Reasons
  BY DEF Calendar!Types, Calendar!Doing, Calendar!Job
<1>2. \A i \in 1 .. Len(s) : Calendar!NextAfter(s[i].near, day)
  BY DEF Calendar!Types, Calendar!Doing
<1> HIDE DEF s
<1>3. Head(s) = s[1] /\ \A i \in 1 .. Len(s) : s[i] \in Calendar!Leg
  BY <1>1
<1> QED BY <1>1, <1>2, <1>3 DEF s, Calendar!OpeningSide, Calendar!ClosingSide

\* Writing one leg, whatever the side.
LEMMA CalendarWriteSafe ==
  ASSUME Calendar!Policy, Calendar!Types, Calendar!NearInv, NEW p \in Calendar!Processes, job[p].doing \in {"open", "close"},
         NEW action \in {"BUY", "SELL"}, NEW why \in Calendar!Reasons,
         Calendar!Record(Head(job[p].legs), action, why), Calendar!AfterLeg(p),
         UNCHANGED <<day, afternoon, plans, failures, cycleStart>>, upsets' \subseteq Calendar!Upsets
  PROVE  Calendar!Types' /\ Calendar!NearInv'
<1> DEFINE leg == Head(job[p].legs)
<1>1. ~Calendar!Doing(p, "rest")
  BY DEF Calendar!Doing
<1>2. leg \in Calendar!Leg /\ Calendar!NextAfter(leg.near, day)
  BY <1>1, CalendarHeadFacts
<1>3. Calendar!Record(leg, action, why)
  OBVIOUS
<1> HIDE DEF leg
<1>4. /\ Calendar!IsFiniteSet(ledger') /\ ledger' \subseteq Calendar!Row
      /\ \A r \in ledger' : r.date \in 1 .. day /\ Calendar!NextAfter(r.leg.near, r.date)
  BY <1>2, <1>3, CalendarRecordFacts
<1>5. \A l \in Calendar!Held' : l = leg \/ l \in Calendar!Held
  BY <1>2, <1>3, CalendarHeldRecord
<1>6. Calendar!NearInv'
  <2>1. \A l \in Calendar!Held' : l \in Calendar!Leg /\ Calendar!NextAfter(l.near, day)
    BY <1>2, <1>5, CalendarHeldLegs DEF Calendar!NearInv
  <2> QED BY <2>1, CalendarNearFromNext
<1>7. /\ job' \in [Calendar!Processes -> Calendar!Job]
      /\ \A q \in Calendar!Processes \ {p} : job'[q] = job[q]
      /\ Len(job[p].legs) = 1 => job'[p] = Calendar!Rest
      /\ Len(job[p].legs) # 1 =>
           /\ job'[p].doing = job[p].doing
           /\ Len(job[p].legs) \in 2 .. 4
           /\ Len(job'[p].legs) = Len(job[p].legs) - 1
           /\ \A i \in 1 .. Len(job'[p].legs) : job'[p].legs[i] = job[p].legs[i + 1]
  BY <1>1, CalendarAfterLegFacts
<1>8. \A q \in Calendar!Processes :
        IF job'[q].doing = "rest" THEN job'[q] = Calendar!Rest
        ELSE /\ Len(job'[q].legs) \in 1 .. 4
             /\ \A i \in 1 .. Len(job'[q].legs) : Calendar!NextAfter(job'[q].legs[i].near, day)
  <2> SUFFICES ASSUME NEW q \in Calendar!Processes, job'[q].doing # "rest"
      PROVE  /\ Len(job'[q].legs) \in 1 .. 4
             /\ \A i \in 1 .. Len(job'[q].legs) : Calendar!NextAfter(job'[q].legs[i].near, day)
    <3>1. ASSUME NEW q \in Calendar!Processes \ {p}, job'[q].doing = "rest"
          PROVE  job'[q] = Calendar!Rest
      <4>1. job'[q] = job[q]
        BY <1>7
      <4> QED BY <3>1, <4>1 DEF Calendar!Types, Calendar!Doing
    <3>2. job'[p].doing = "rest" => job'[p] = Calendar!Rest
      BY <1>1, <1>7 DEF Calendar!Doing
    <3> QED BY <3>1, <3>2
  <2>1. CASE q # p
    <3>1. job'[q] = job[q]
      BY <1>7, <2>1
    <3> QED BY <3>1 DEF Calendar!Types, Calendar!Doing
  <2>2. CASE q = p
    <3>1. Len(job[p].legs) # 1
      BY <1>7, <2>2 DEF Calendar!Rest
    <3> DEFINE n == Len(job[p].legs)
               m == Len(job'[p].legs)
    <3>2. n \in 2 .. 4 /\ m \in 1 .. 3
      <4>1. n \in 2 .. 4 /\ m = n - 1
        BY <1>7, <3>1
      <4> HIDE DEF n, m
      <4> QED BY <4>1
    <3>3. \A i \in 1 .. Len(job[p].legs) : Calendar!NextAfter(job[p].legs[i].near, day)
      BY <1>1 DEF Calendar!Types, Calendar!Doing
    <3>4. ASSUME NEW i \in 1 .. Len(job'[p].legs)
          PROVE  Calendar!NextAfter(job'[p].legs[i].near, day)
      <4>1. i + 1 \in 1 .. Len(job[p].legs) /\ job'[p].legs[i] = job[p].legs[i + 1]
        BY <1>7, <3>1, <3>2
      <4> QED BY <3>3, <4>1
    <3> QED BY <2>2, <3>2, <3>4
  <2> QED BY <2>1, <2>2
<1>9. job'["script"].doing # "close"
  <2>1. "script" \in Calendar!Processes /\ job["script"].doing # "close"
    BY DEF Calendar!Types, Calendar!Doing, Calendar!Processes
  <2> QED BY <1>7, <2>1 DEF Calendar!Rest
<1> QED BY <1>4, <1>6, <1>7, <1>8, <1>9 DEF Calendar!Types, Calendar!Doing

LEMMA CalendarOpenLegSafe ==
  ASSUME Calendar!Policy, Calendar!Types, Calendar!NearInv, NEW p \in Calendar!Processes, Calendar!OpenLeg(p)
  PROVE  Calendar!Types' /\ Calendar!NearInv'
<1>1. /\ job[p].doing = "open" /\ Calendar!Record(Head(job[p].legs), Calendar!OpeningSide(Head(job[p].legs)), "entry")
      /\ Calendar!AfterLeg(p) /\ UNCHANGED <<day, afternoon, plans, failures, cycleStart, upsets>>
  BY DEF Calendar!OpenLeg
<1>2. Calendar!OpeningSide(Head(job[p].legs)) \in {"BUY", "SELL"} /\ "entry" \in Calendar!Reasons
  BY DEF Calendar!OpeningSide, Calendar!Reasons
<1>3. upsets' \subseteq Calendar!Upsets
  BY <1>1 DEF Calendar!Types
<1> QED BY <1>1, <1>2, <1>3, CalendarWriteSafe

LEMMA CalendarCloseLegSafe ==
  ASSUME Calendar!Policy, Calendar!Types, Calendar!NearInv, Calendar!CloseLeg
  PROVE  Calendar!Types' /\ Calendar!NearInv'
<1> DEFINE p == "monitor"
<1>1. /\ job[p].doing = "close"
      /\ Calendar!Record(Head(job[p].legs), Calendar!ClosingSide(Head(job[p].legs)), job[p].why)
      /\ Calendar!AfterLeg(p) /\ UNCHANGED <<day, afternoon, plans, failures, cycleStart>>
  BY DEF Calendar!CloseLeg
<1>2. p \in Calendar!Processes
  BY DEF Calendar!Processes
<1>3. Calendar!ClosingSide(Head(job[p].legs)) \in {"BUY", "SELL"} /\ job[p].why \in Calendar!Reasons
  BY <1>1, <1>2, CalendarHeadFacts DEF Calendar!Doing
<1>4. upsets' \subseteq Calendar!Upsets
  BY DEF Calendar!Types, Calendar!CloseLeg, Calendar!Upsets
<1> HIDE DEF p
<1> QED BY <1>1, <1>2, <1>3, <1>4, CalendarWriteSafe

\* The legs of a structure that is resolved, in the order of their roles.
LEMMA CalendarResolvedFacts ==
  ASSUME Calendar!Policy, Calendar!Types, Calendar!NearInv, NEW legs \in Calendar!Resolved
  PROVE  LET s == [i \in 1 .. 4 |-> CHOOSE l \in legs : l.role = Calendar!ROLES[i]]
         IN  /\ s \in Seq(Calendar!Leg) /\ Len(s) = 4
             /\ \A i \in 1 .. 4 : s[i] \in legs /\ s[i].role = Calendar!ROLES[i]
<1> DEFINE s == [i \in 1 .. 4 |-> CHOOSE l \in legs : l.role = Calendar!ROLES[i]]
<1>1. legs \subseteq Calendar!Held /\ {l.role : l \in legs} = Calendar!Roles
  BY DEF Calendar!Resolved
<1>2. \A i \in 1 .. 4 : Calendar!ROLES[i] \in Calendar!Roles
  BY DEF Calendar!Roles
<1>3. \A i \in 1 .. 4 : \E l \in legs : l.role = Calendar!ROLES[i]
  BY <1>1, <1>2
<1>4. \A i \in 1 .. 4 : s[i] \in legs /\ s[i].role = Calendar!ROLES[i]
  BY <1>3
<1>5. s \in [1 .. 4 -> Calendar!Leg]
  BY <1>1, <1>4, CalendarHeldLegs
<1>6. s \in Seq(Calendar!Leg) /\ Len(s) = 4
  BY <1>5
<1> QED BY <1>4, <1>6

LEMMA CalendarCloseStructureSafe ==
  ASSUME Calendar!Policy, Calendar!Types, Calendar!NearInv, Calendar!CloseStructure
  PROVE  Calendar!Types' /\ Calendar!NearInv'
<1>1. PICK legs \in Calendar!Resolved :
        /\ Calendar!CycleOrigin(Calendar!EntryDate(legs)) # 0
        /\ \E why \in Calendar!Decisions(Calendar!CycleOrigin(Calendar!EntryDate(legs))) :
             job' = [job EXCEPT !["monitor"] =
                        [doing |-> "close",
                         legs |-> [i \in 1 .. 4 |-> CHOOSE l \in legs : l.role = Calendar!ROLES[i]],
                         why |-> why]]
  BY DEF Calendar!CloseStructure
<1> DEFINE s == [i \in 1 .. 4 |-> CHOOSE l \in legs : l.role = Calendar!ROLES[i]]
<1>2. PICK why \in Calendar!Reasons :
        job' = [job EXCEPT !["monitor"] = [doing |-> "close", legs |-> s, why |-> why]]
  BY <1>1 DEF Calendar!Decisions, Calendar!Reasons
<1>3. s \in Seq(Calendar!Leg) /\ Len(s) = 4 /\ \A i \in 1 .. 4 : s[i] \in legs
  BY CalendarResolvedFacts
<1>4. UNCHANGED <<ledger, day, afternoon, plans, failures, cycleStart, upsets>>
  BY DEF Calendar!CloseStructure
<1>5. legs \subseteq Calendar!Held /\ \A l \in legs : Calendar!NextAfter(l.near, day)
  BY <1>1 DEF Calendar!NearInv, Calendar!Resolved
<1> HIDE DEF s
<1> DEFINE j == [doing |-> "close", legs |-> s, why |-> why]
<1>6. j \in Calendar!Job /\ j.doing = "close" /\ j.legs = s
  BY <1>3 DEF Calendar!Job
<1>7. job \in [Calendar!Processes -> Calendar!Job] /\ "monitor" \in Calendar!Processes /\ "script" \in Calendar!Processes
  BY DEF Calendar!Types, Calendar!Processes
<1>8. job' = [job EXCEPT !["monitor"] = j]
  BY <1>2
<1> HIDE DEF j
<1>9. /\ job' \in [Calendar!Processes -> Calendar!Job] /\ job'["monitor"] = j
      /\ \A q \in Calendar!Processes : q # "monitor" => job'[q] = job[q]
  BY <1>6, <1>7, <1>8
<1>10. Calendar!Types'
  <2>1. \A i \in 1 .. Len(j.legs) : Calendar!NextAfter(j.legs[i].near, day)
    BY <1>3, <1>5, <1>6
  <2>2. \A q \in Calendar!Processes :
          IF job'[q].doing = "rest" THEN job'[q] = Calendar!Rest
          ELSE /\ Len(job'[q].legs) \in 1 .. 4
               /\ \A i \in 1 .. Len(job'[q].legs) : Calendar!NextAfter(job'[q].legs[i].near, day)
    <3>1. Len(j.legs) \in 1 .. 4 /\ j.doing # "rest"
      BY <1>3, <1>6
    <3> QED BY <1>9, <2>1, <3>1 DEF Calendar!Types, Calendar!Doing
  <2>3. job'["script"].doing # "close"
    BY <1>7, <1>9 DEF Calendar!Types, Calendar!Doing
  <2> QED BY <1>4, <1>9, <2>2, <2>3 DEF Calendar!Types, Calendar!Doing
<1>11. Calendar!NearInv'
  <2>1. \A l \in Calendar!Held : Calendar!NextAfter(l.near, day)
    BY <1>3, <1>5 DEF Calendar!NearInv
  <2>2. \A l \in Calendar!Held' : l \in Calendar!Leg /\ Calendar!NextAfter(l.near, day)
    BY <1>4, <2>1, CalendarLedgerFrame, CalendarHeldLegs
  <2> QED BY <1>4, <2>2, CalendarNearFromNext
<1> QED BY <1>10, <1>11

LEMMA CalendarRestSafe ==
  ASSUME Calendar!Policy, Calendar!Types, Calendar!NearInv,
         \A p \in Calendar!Processes : job'[p] = job[p] \/ job'[p] = Calendar!Rest,
         job' \in [Calendar!Processes -> Calendar!Job],
         failures' \in 0 .. MaxFailures, afternoon' \in BOOLEAN, upsets' \subseteq Calendar!Upsets,
         UNCHANGED <<ledger, day, plans, cycleStart>>
  PROVE  Calendar!Types' /\ Calendar!NearInv'
<1>1. Calendar!Types'
  <2>1. \A q \in Calendar!Processes :
          IF job'[q].doing = "rest" THEN job'[q] = Calendar!Rest
          ELSE /\ Len(job'[q].legs) \in 1 .. 4
               /\ \A i \in 1 .. Len(job'[q].legs) : Calendar!NextAfter(job'[q].legs[i].near, day)
    BY DEF Calendar!Types, Calendar!Doing, Calendar!Rest
  <2>2. job'["script"].doing # "close"
    BY DEF Calendar!Types, Calendar!Doing, Calendar!Rest, Calendar!Processes
  <2> QED BY <2>1, <2>2 DEF Calendar!Types, Calendar!Doing
<1>2. Calendar!NearInv'
  BY CalendarLedgerFrame DEF Calendar!NearInv, Calendar!Rest
<1> QED BY <1>1, <1>2

LEMMA CalendarCrashSafe ==
  ASSUME Calendar!Policy, Calendar!Types, Calendar!NearInv, NEW p \in Calendar!Processes, Calendar!Crash(p)
  PROVE  Calendar!Types' /\ Calendar!NearInv'
<1>1. job' = [job EXCEPT ![p] = Calendar!Rest] /\ job \in [Calendar!Processes -> Calendar!Job]
  BY DEF Calendar!Crash, Calendar!Types
<1>2. /\ job' \in [Calendar!Processes -> Calendar!Job]
      /\ \A q \in Calendar!Processes : job'[q] = job[q] \/ job'[q] = Calendar!Rest
  BY <1>1, CalendarRestIsJob
<1>3. /\ failures' \in 0 .. MaxFailures /\ afternoon' \in BOOLEAN /\ upsets' \subseteq Calendar!Upsets
      /\ UNCHANGED <<ledger, day, plans, cycleStart>>
  BY DEF Calendar!Crash, Calendar!Types, Calendar!Upsets, Calendar!Policy
<1> QED BY <1>2, <1>3, CalendarRestSafe

LEMMA CalendarAfternoonSafe ==
  ASSUME Calendar!Policy, Calendar!Types, Calendar!NearInv, Calendar!Afternoon
  PROVE  Calendar!Types' /\ Calendar!NearInv'
<1>1. /\ job' \in [Calendar!Processes -> Calendar!Job]
      /\ \A q \in Calendar!Processes : job'[q] = job[q] \/ job'[q] = Calendar!Rest
      /\ failures' \in 0 .. MaxFailures /\ afternoon' \in BOOLEAN /\ upsets' \subseteq Calendar!Upsets
      /\ UNCHANGED <<ledger, day, plans, cycleStart>>
  BY DEF Calendar!Afternoon, Calendar!Types
<1> QED BY <1>1, CalendarRestSafe

\* A structure the exit rule sees was not due, so its expiry is not tomorrow.
LEMMA CalendarNextDaySafe ==
  ASSUME Calendar!Policy, Calendar!Types, Calendar!NearInv, Calendar!NextDay
  PROVE  Calendar!Types' /\ Calendar!NearInv'
<1>1. /\ afternoon /\ ~Calendar!ExitDue /\ day < FinalDay /\ day' = day + 1 /\ afternoon' = FALSE
      /\ \A p \in Calendar!Processes : job[p] = Calendar!Rest
      /\ UNCHANGED <<ledger, job, plans, failures, cycleStart>>
      /\ upsets' \subseteq Calendar!Upsets
  BY DEF Calendar!NextDay, Calendar!Types, Calendar!Upsets
<1>2. day \in Nat /\ day \in 1 .. FinalDay /\ FinalDay \in Nat
  BY DEF Calendar!Types, Calendar!Policy
<1>3. Calendar!Types'
  <2>1. day' \in 1 .. FinalDay /\ \A d \in 1 .. day : d \in 1 .. day'
    BY <1>1, <1>2
  <2>2. \A r \in ledger : r.date \in 1 .. day' /\ Calendar!NextAfter(r.leg.near, r.date)
    BY <2>1 DEF Calendar!Types
  <2>3. \A p \in Calendar!Processes : job'[p] = Calendar!Rest /\ job'[p].doing = "rest"
    BY <1>1 DEF Calendar!Rest
  <2>4. job' \in [Calendar!Processes -> Calendar!Job] /\ "script" \in Calendar!Processes
    BY <1>1 DEF Calendar!Types, Calendar!Processes
  <2>5. Calendar!IsFiniteSet(ledger') /\ ledger' \subseteq Calendar!Row /\ afternoon' \in BOOLEAN
        /\ plans' \in 0 .. MaxPlans /\ failures' \in 0 .. MaxFailures
        /\ cycleStart' \in 0 .. FinalDay
    BY <1>1 DEF Calendar!Types
  <2>6. \A r \in ledger' : r.date \in 1 .. day' /\ Calendar!NextAfter(r.leg.near, r.date)
    BY <1>1, <2>2
  <2> QED BY <1>1, <2>1, <2>3, <2>4, <2>5, <2>6 DEF Calendar!Types, Calendar!Doing
<1>4. ASSUME NEW legs \in Calendar!Resolved, Calendar!CycleOrigin(Calendar!EntryDate(legs)) # 0, NEW l \in legs
      PROVE  Calendar!NextAfter(l.near, day + 1)
  <2> DEFINE origin == Calendar!CycleOrigin(Calendar!EntryDate(legs))
  <2>1. origin \in Nat /\ origin \in 1 .. day /\ Calendar!EntryWindow(origin)
    BY <1>4, CalendarOriginFacts
  <2>2. ~Calendar!MustExit(origin)
    BY <1>1, <1>4 DEF Calendar!ExitDue
  <2>3. Calendar!NextAfter(l.near, day) /\ l.near \in Nat
    BY <1>4, CalendarHeldLegs DEF Calendar!NearInv, Calendar!Resolved, Calendar!Leg, Calendar!Policy
  <2> HIDE DEF origin
  <2>4. /\ Calendar!HardExit(origin) \in Int /\ Calendar!HardExit(origin) <= Calendar!NearExpiry(origin) - (ExitDte + 1)
        /\ Calendar!NearExpiry(origin) \in Nat /\ Calendar!NearExpiry(origin) % CycleLength = 0
    BY <2>1, CalendarHardExitFacts, CalendarWindowExpiry
  <2>5. day < Calendar!HardExit(origin)
    BY <1>1, <1>2, <2>2, <2>4 DEF Calendar!MustExit
  <2>6. ExitDte \in Nat /\ CycleLength \in Nat \ {0} /\ Calendar!NearExpiry(origin) = origin - 1 + CycleLength
    BY DEF Calendar!Policy, Calendar!NearExpiry
  <2>7. Calendar!NearExpiry(origin) < l.near + CycleLength
    BY <1>2, <2>1, <2>3, <2>6 DEF Calendar!NextAfter
  <2>8. Calendar!NearExpiry(origin) <= l.near
    BY <2>3, <2>4, <2>6, <2>7, CalendarMultiples DEF Calendar!NextAfter
  <2> QED BY <1>2, <2>3, <2>4, <2>5, <2>6, <2>8 DEF Calendar!NextAfter
<1>5. Calendar!NearInv'
  BY <1>1, <1>4, CalendarLedgerFrame DEF Calendar!NearInv, Calendar!Rest
<1> QED BY <1>3, <1>5

LEMMA CalendarSafeStep ==
  ASSUME Calendar!Policy, Calendar!Types, Calendar!NearInv, [Calendar!Next]_Calendar!vars
  PROVE  Calendar!Types' /\ Calendar!NearInv'
<1>1. CASE UNCHANGED Calendar!vars
  <2>1. /\ job' \in [Calendar!Processes -> Calendar!Job]
        /\ \A q \in Calendar!Processes : job'[q] = job[q] \/ job'[q] = Calendar!Rest
        /\ failures' \in 0 .. MaxFailures /\ afternoon' \in BOOLEAN /\ upsets' \subseteq Calendar!Upsets
        /\ UNCHANGED <<ledger, day, plans, cycleStart>>
    BY <1>1 DEF Calendar!vars, Calendar!Types
  <2> QED BY <2>1, CalendarRestSafe
<1> QED
  BY <1>1, CalendarPlanEntrySafe, CalendarOpenStructureSafe, CalendarOpenLegSafe, CalendarCrashSafe, CalendarCloseStructureSafe,
     CalendarCloseLegSafe, CalendarAfternoonSafe, CalendarNextDaySafe DEF Calendar!Next

-----------------------------------------------------------------------------
(* Whole structures.                                                       *)

\* Where the ledger and the day do not change, a job keeps what it says of them.
LEMMA CalendarJobFrame ==
  ASSUME UNCHANGED <<ledger, day>>, NEW p \in Calendar!Processes, job'[p] = job[p]
  PROVE  /\ Calendar!Doing(p, "rest")' = Calendar!Doing(p, "rest") /\ Calendar!Doing(p, "planned")' = Calendar!Doing(p, "planned")
         /\ Calendar!Doing(p, "open")' = Calendar!Doing(p, "open") /\ Calendar!Doing(p, "close")' = Calendar!Doing(p, "close")
         /\ Calendar!LastRoles(p)' = Calendar!LastRoles(p) /\ Calendar!Untraded(p)' = Calendar!Untraded(p) /\ Calendar!Waits(p)' = Calendar!Waits(p)
BY DEF Calendar!Doing, Calendar!LastRoles, Calendar!Untraded, Calendar!Waits

\* Where the ledger does not change, what is said of it stays.
LEMMA CalendarHeldFrame ==
  ASSUME UNCHANGED ledger
  PROVE  /\ Calendar!Balanced' = Calendar!Balanced /\ Calendar!Held' = Calendar!Held
         /\ \A n : Calendar!FirstRoles(n)' = Calendar!FirstRoles(n)
BY CalendarLedgerFrame DEF Calendar!Balanced, Calendar!FirstRoles, Calendar!OnePerRole

\* The roles differ, and so do the two sides of a leg.
LEMMA CalendarRolesDiffer ==
  /\ \A i, j \in 1 .. 4 : Calendar!ROLES[i] = Calendar!ROLES[j] => i = j
  /\ \A l : Calendar!OpeningSide(l) # Calendar!ClosingSide(l)
BY DEF Calendar!ROLES, Calendar!OpeningSide, Calendar!ClosingSide

\* A leg is held exactly when it was opened once more than it was closed.
LEMMA CalendarHeldBySide ==
  \A l : l \in Calendar!Held <=> Calendar!Cardinality(Calendar!RowsOf(l, Calendar!OpeningSide(l))) # Calendar!Cardinality(Calendar!RowsOf(l, Calendar!ClosingSide(l)))
<1> TAKE l
<1>1. CASE l.role \in Calendar!Shorts
  BY <1>1, CalendarHeldIff DEF Calendar!OpeningSide, Calendar!ClosingSide
<1>2. CASE l.role \notin Calendar!Shorts
  BY <1>2, CalendarHeldIff DEF Calendar!OpeningSide, Calendar!ClosingSide
<1> QED BY <1>1, <1>2

LEMMA CalendarHeldBySideNext ==
  \A l : l \in Calendar!Held' <=> Calendar!Cardinality(Calendar!RowsOf(l, Calendar!OpeningSide(l))') # Calendar!Cardinality(Calendar!RowsOf(l, Calendar!ClosingSide(l))')
<1> SUFFICES ASSUME NEW l
    PROVE  l \in Calendar!Held' <=> Calendar!Cardinality(Calendar!RowsOf(l, "BUY")') # Calendar!Cardinality(Calendar!RowsOf(l, "SELL")')
  BY DEF Calendar!OpeningSide, Calendar!ClosingSide
<1>1. ASSUME Calendar!Cardinality(Calendar!RowsOf(l, "BUY")') # Calendar!Cardinality(Calendar!RowsOf(l, "SELL")')
      PROVE  l \in {r.leg : r \in ledger'}
  <2>1. Calendar!RowsOf(l, "BUY")' # {} \/ Calendar!RowsOf(l, "SELL")' # {}
    BY <1>1
  <2> QED BY <2>1 DEF Calendar!RowsOf
<1> QED BY <1>1 DEF Calendar!Held, Calendar!RowsOf

\* Opening a leg that is flat adds it to what is held.
LEMMA CalendarOpenedFacts ==
  ASSUME Calendar!Types, Calendar!Balanced, NEW leg \in Calendar!Leg, leg \notin Calendar!Held, Calendar!NextAfter(leg.near, day),
         ~\E r \in ledger : r.date = day /\ r.leg = leg /\ r.action = Calendar!OpeningSide(leg),
         Calendar!Record(leg, Calendar!OpeningSide(leg), "entry")
  PROVE  /\ Calendar!Balanced' /\ Calendar!Held' = Calendar!Held \cup {leg}
         /\ \A r \in ledger' : r \in ledger \/ (r.leg = leg /\ r.action = Calendar!OpeningSide(leg) /\ r.date = day)
         /\ ledger \subseteq ledger'
         /\ \E r \in ledger' : r.leg = leg /\ r.action = Calendar!OpeningSide(leg) /\ r.date = day
<1> DEFINE act == Calendar!OpeningSide(leg)
<1>1. act \in {"BUY", "SELL"} /\ "entry" \in Calendar!Reasons /\ Calendar!Record(leg, act, "entry")
  BY DEF Calendar!OpeningSide, Calendar!Reasons
<1>2. ~\E r \in Calendar!Todays : r.leg = leg /\ r.action = act
  BY DEF Calendar!Todays
<1>3. act # Calendar!ClosingSide(leg)
  BY CalendarRolesDiffer
<1>4. Calendar!IsFiniteSet(Calendar!RowsOf(leg, act)) /\ Calendar!IsFiniteSet(Calendar!RowsOf(leg, Calendar!ClosingSide(leg)))
  BY Calendar!FS_Subset DEF Calendar!Types, Calendar!RowsOf
<1>5. Calendar!Cardinality(Calendar!RowsOf(leg, act)) = Calendar!Cardinality(Calendar!RowsOf(leg, Calendar!ClosingSide(leg)))
      /\ Calendar!Cardinality(Calendar!RowsOf(leg, act)) \in Nat
  BY <1>4, CalendarHeldBySide, Calendar!FS_CardinalityType
<1> HIDE DEF act
<1>6. /\ Calendar!Cardinality(Calendar!RowsOf(leg, act)') = Calendar!Cardinality(Calendar!RowsOf(leg, act)) + 1
      /\ \A l, a : ~(l = leg /\ a = act) => Calendar!RowsOf(l, a)' = Calendar!RowsOf(l, a)
      /\ \A r \in ledger' : r \in ledger \/ (r.leg = leg /\ r.action = act /\ r.date = day)
      /\ ledger \subseteq ledger' /\ ledger' # ledger
  BY <1>1, <1>2, CalendarRecordFacts
<1>7. Calendar!Cardinality(Calendar!RowsOf(leg, act)') = Calendar!Cardinality(Calendar!RowsOf(leg, Calendar!ClosingSide(leg))') + 1
      /\ Calendar!Cardinality(Calendar!RowsOf(leg, act)') # Calendar!Cardinality(Calendar!RowsOf(leg, Calendar!ClosingSide(leg))')
  BY <1>3, <1>5, <1>6
<1>8. leg \in Calendar!Held'
  BY <1>7, CalendarHeldBySideNext DEF act
<1>9. \A l : l # leg => (l \in Calendar!Held' <=> l \in Calendar!Held)
  BY <1>1, CalendarHeldRecord
<1>10. Calendar!Balanced'
  <2> SUFFICES ASSUME NEW l \in Calendar!Leg
      PROVE  \/ Calendar!Cardinality(Calendar!RowsOf(l, Calendar!OpeningSide(l))') = Calendar!Cardinality(Calendar!RowsOf(l, Calendar!ClosingSide(l))')
             \/ Calendar!Cardinality(Calendar!RowsOf(l, Calendar!OpeningSide(l))') = Calendar!Cardinality(Calendar!RowsOf(l, Calendar!ClosingSide(l))') + 1
    BY DEF Calendar!Balanced, Calendar!OpeningSide, Calendar!ClosingSide
  <2>1. CASE l = leg
    BY <1>7, <2>1 DEF act
  <2>2. CASE l # leg
    BY <1>6, <2>2 DEF Calendar!Balanced
  <2> QED BY <2>1, <2>2
<1>11. \E r \in ledger' : r.leg = leg /\ r.action = act /\ r.date = day
  BY <1>6
<1> QED BY <1>6, <1>8, <1>9, <1>10, <1>11 DEF act

\* Closing a leg that is held, if the row is not dropped, leaves it flat.
LEMMA CalendarClosedFacts ==
  ASSUME Calendar!Types, Calendar!Balanced, NEW leg \in Calendar!Leg, leg \in Calendar!Held, Calendar!NextAfter(leg.near, day),
         NEW why \in Calendar!Reasons, Calendar!Record(leg, Calendar!ClosingSide(leg), why), ledger' # ledger
  PROVE  Calendar!Balanced' /\ Calendar!Held' = Calendar!Held \ {leg}
<1> DEFINE act == Calendar!ClosingSide(leg)
<1>1. act \in {"BUY", "SELL"} /\ Calendar!Record(leg, act, why)
  BY DEF Calendar!ClosingSide
<1>3. act # Calendar!OpeningSide(leg)
  BY CalendarRolesDiffer
<1>4. Calendar!IsFiniteSet(Calendar!RowsOf(leg, act)) /\ Calendar!IsFiniteSet(Calendar!RowsOf(leg, Calendar!OpeningSide(leg)))
  BY Calendar!FS_Subset DEF Calendar!Types, Calendar!RowsOf
<1>5. Calendar!Cardinality(Calendar!RowsOf(leg, Calendar!OpeningSide(leg))) = Calendar!Cardinality(Calendar!RowsOf(leg, act)) + 1
      /\ Calendar!Cardinality(Calendar!RowsOf(leg, act)) \in Nat
  BY <1>4, CalendarHeldBySide, Calendar!FS_CardinalityType DEF Calendar!Balanced
<1> HIDE DEF act
<1>6. /\ Calendar!Cardinality(Calendar!RowsOf(leg, act)') = Calendar!Cardinality(Calendar!RowsOf(leg, act)) + 1
      /\ \A l, a : ~(l = leg /\ a = act) => Calendar!RowsOf(l, a)' = Calendar!RowsOf(l, a)
  BY <1>1, CalendarRecordFacts
<1>7. Calendar!Cardinality(Calendar!RowsOf(leg, Calendar!OpeningSide(leg))') = Calendar!Cardinality(Calendar!RowsOf(leg, act)')
  BY <1>3, <1>5, <1>6
<1>8. leg \notin Calendar!Held'
  BY <1>7, CalendarHeldBySideNext DEF act
<1>9. \A l : l # leg => (l \in Calendar!Held' <=> l \in Calendar!Held)
  BY <1>1, CalendarHeldRecord
<1>10. Calendar!Balanced'
  <2> SUFFICES ASSUME NEW l \in Calendar!Leg
      PROVE  \/ Calendar!Cardinality(Calendar!RowsOf(l, Calendar!OpeningSide(l))') = Calendar!Cardinality(Calendar!RowsOf(l, Calendar!ClosingSide(l))')
             \/ Calendar!Cardinality(Calendar!RowsOf(l, Calendar!OpeningSide(l))') = Calendar!Cardinality(Calendar!RowsOf(l, Calendar!ClosingSide(l))') + 1
    BY DEF Calendar!Balanced, Calendar!OpeningSide, Calendar!ClosingSide
  <2>1. CASE l = leg
    BY <1>7, <2>1 DEF act
  <2>2. CASE l # leg
    BY <1>6, <2>2 DEF Calendar!Balanced
  <2> QED BY <2>1, <2>2
<1> QED BY <1>8, <1>9, <1>10

\* A closer has something to close.
LEMMA CalendarCloserHolds ==
  ASSUME Calendar!Types, Calendar!Orderly, Calendar!Doing("monitor", "close")
  PROVE  job["monitor"].legs[1] \in Calendar!Held
<1>1. "monitor" \in Calendar!Processes /\ Len(job["monitor"].legs) \in 1 .. 4
  BY DEF Calendar!Types, Calendar!Doing, Calendar!Processes
<1> QED BY <1>1 DEF Calendar!Orderly

\* A process that stops leaves the others as they were.
LEMMA CalendarRestOrder ==
  ASSUME Calendar!Orderly, UNCHANGED ledger,
         \A p \in Calendar!Processes : job'[p] = job[p] \/ job'[p] = Calendar!Rest,
         day' = day \/ \A p \in Calendar!Processes : job'[p] = Calendar!Rest
  PROVE  Calendar!Orderly'
<1>1. /\ Calendar!Balanced' /\ Calendar!Held' = Calendar!Held /\ Calendar!OnePerRole'
      /\ \A n : Calendar!FirstRoles(n)' = Calendar!FirstRoles(n)
      /\ \A l, a : Calendar!RowsOf(l, a)' = Calendar!RowsOf(l, a)
  BY CalendarHeldFrame, CalendarLedgerFrame DEF Calendar!Orderly, Calendar!OnePerRole
<1>2. \A p \in Calendar!Processes : job'[p] = Calendar!Rest =>
        /\ Calendar!Doing(p, "rest")' /\ ~Calendar!Doing(p, "planned")' /\ ~Calendar!Doing(p, "open")' /\ ~Calendar!Doing(p, "close")'
        /\ Calendar!Waits(p)'
  BY DEF Calendar!Doing, Calendar!Rest, Calendar!Waits
<1>3. "monitor" \in Calendar!Processes /\ "script" \in Calendar!Processes
  BY DEF Calendar!Processes
<1>4. CASE \A p \in Calendar!Processes : job'[p] = Calendar!Rest
  BY <1>1, <1>2, <1>3, <1>4 DEF Calendar!Orderly
<1>5. CASE day' = day
  <2>1. \A q \in Calendar!Processes : job'[q] = job[q] =>
          /\ Calendar!Doing(q, "rest")' = Calendar!Doing(q, "rest") /\ Calendar!Doing(q, "planned")' = Calendar!Doing(q, "planned")
          /\ Calendar!Doing(q, "open")' = Calendar!Doing(q, "open") /\ Calendar!Doing(q, "close")' = Calendar!Doing(q, "close")
          /\ Calendar!LastRoles(q)' = Calendar!LastRoles(q) /\ Calendar!Untraded(q)' = Calendar!Untraded(q) /\ Calendar!Waits(q)' = Calendar!Waits(q)
    BY <1>5, CalendarJobFrame
  <2>2. Calendar!MayEnter' = Calendar!MayEnter
    BY <1>5, CalendarLedgerFrame DEF Calendar!MayEnter, Calendar!Todays, Calendar!PlanDay
  <2>3. \A q \in Calendar!Processes : ~Calendar!Doing(q, "rest")' => job'[q] = job[q]
    BY <1>2
  <2>4. /\ \A q \in Calendar!Processes : ~Calendar!Doing(q, "rest")' => Calendar!LastRoles(q)'
        /\ \A q \in Calendar!Processes : Calendar!Doing(q, "planned")' =>
              Len(job'[q].legs) = 4 /\ (Calendar!Held' # {} \/ (Calendar!Untraded(q)' /\ Calendar!MayEnter'))
    <3>1. \A q \in Calendar!Processes : Calendar!Doing(q, "planned")' => ~Calendar!Doing(q, "rest")'
      BY DEF Calendar!Doing
    <3> QED BY <1>1, <2>1, <2>2, <2>3, <3>1 DEF Calendar!Orderly
  <2>5. ASSUME NEW q \in Calendar!Processes, Calendar!Doing(q, "open")'
        PROVE  /\ Calendar!FirstRoles(4 - Len(job[q].legs))'
               /\ Calendar!Untraded(q)'
               /\ \A l \in Calendar!Held' : \E r \in Calendar!RowsOf(l, Calendar!OpeningSide(l))' : r.date = day'
               /\ \A o \in Calendar!Processes \ {q} : Calendar!Waits(o)'
    <3>1. job'[q] = job[q] /\ Calendar!Doing(q, "open")
      BY <1>2, <2>1, <2>5
    <3>2. /\ Calendar!FirstRoles(4 - Len(job[q].legs)) /\ Calendar!Untraded(q)
          /\ \A l \in Calendar!Held : \E r \in Calendar!RowsOf(l, Calendar!OpeningSide(l)) : r.date = day
          /\ \A o \in Calendar!Processes \ {q} : Calendar!Waits(o)
      BY <3>1 DEF Calendar!Orderly
    <3>3. \A o \in Calendar!Processes \ {q} : Calendar!Waits(o)'
      BY <1>2, <2>1, <3>2
    <3>4. Calendar!FirstRoles(4 - Len(job[q].legs))'
      BY <1>1, <3>1, <3>2 DEF Calendar!FirstRoles, Calendar!OnePerRole
    <3> QED BY <1>1, <1>5, <2>1, <3>1, <3>2, <3>3, <3>4
  <2>6. ASSUME Calendar!Doing("monitor", "close")'
        PROVE  /\ \A i \in 1 .. Len(job'["monitor"].legs) : job'["monitor"].legs[i] \in Calendar!Held'
               /\ Calendar!Doing("script", "rest")'
               /\ job'["monitor"].why # "entry"
    <3>1. job'["monitor"] = job["monitor"] /\ Calendar!Doing("monitor", "close")
      BY <1>2, <1>3, <2>1, <2>6
    <3>2. job'["script"] = Calendar!Rest \/ job'["script"] = job["script"]
      BY <1>3
    <3> QED BY <1>1, <1>2, <1>3, <2>1, <3>1, <3>2 DEF Calendar!Orderly
  <2> QED BY <1>1, <2>4, <2>5, <2>6 DEF Calendar!Orderly, Calendar!OpeningSide
<1> QED BY <1>4, <1>5

LEMMA CalendarPlanEntryOrder ==
  ASSUME Calendar!Policy, Calendar!Types, Calendar!OrderInv, NEW p \in Calendar!Processes, Calendar!PlanEntry(p)
  PROVE  Calendar!OrderInv'
<1>1. /\ job[p] = Calendar!Rest /\ Calendar!Held = {} /\ Calendar!MayEnter
      /\ UNCHANGED <<ledger, day, afternoon, failures, cycleStart, upsets>>
  BY DEF Calendar!PlanEntry
<1>2. PICK strike \in Strikes, wing \in Wings :
        LET legs == Calendar!Structure(strike, wing, Calendar!NearExpiry(Calendar!PlanDay))
        IN  /\ Calendar!Collisions(legs) = {}
            /\ job' = [job EXCEPT ![p] = [doing |-> "planned", legs |-> legs, why |-> "entry"]]
  BY DEF Calendar!PlanEntry
<1> DEFINE near == Calendar!NearExpiry(Calendar!PlanDay)
           s == Calendar!Structure(strike, wing, near)
<1>3. near \in CycleLength .. FinalDay + CycleLength
  BY <1>1, CalendarPlanFacts
<1>4. /\ Calendar!Collisions(s) = {}
      /\ job' = [job EXCEPT ![p] = [doing |-> "planned", legs |-> s, why |-> "entry"]]
  BY <1>2
<1> HIDE DEF near
<1>5. s \in Seq(Calendar!Leg) /\ Len(s) = 4 /\ \A i \in 1 .. 4 : s[i].role = Calendar!ROLES[i]
  BY <1>3, CalendarStructureFacts
<1> HIDE DEF s
<1>6. /\ job'[p] = [doing |-> "planned", legs |-> s, why |-> "entry"]
      /\ \A q \in Calendar!Processes \ {p} : job'[q] = job[q]
  BY <1>4 DEF Calendar!Types
<1>7. job'[p].doing = "planned" /\ job'[p].legs = s
  BY <1>6
<1>8. SUFFICES ASSUME Calendar!Orderly PROVE Calendar!Orderly'
  BY <1>1 DEF Calendar!OrderInv, Calendar!NoRace
<1>9. Calendar!LastRoles(p)'
  <2>1. \A i \in 1 .. Len(s) : s[i].role = Calendar!ROLES[4 - Len(s) + i]
    <3>1. \A i \in 1 .. 4 : 4 - 4 + i = i
      OBVIOUS
    <3> QED BY <1>5, <3>1
  <2> QED BY <1>7, <2>1 DEF Calendar!LastRoles
<1>10. Calendar!Untraded(p)' /\ Calendar!MayEnter'
  <2>1. \A i \in DOMAIN s : ~\E r \in Calendar!Todays : r.leg = s[i] /\ r.action = Calendar!OpeningSide(s[i])
    BY <1>4 DEF Calendar!Collisions
  <2>2. DOMAIN s = 1 .. 4
    BY <1>5
  <2>3. Calendar!Untraded(p)'
    BY <1>1, <1>5, <1>7, <2>1, <2>2 DEF Calendar!Untraded, Calendar!Todays
  <2>4. Calendar!MayEnter' = Calendar!MayEnter
    BY <1>1, CalendarLedgerFrame DEF Calendar!MayEnter, Calendar!Todays, Calendar!PlanDay
  <2> QED BY <1>1, <2>3, <2>4
<1>11. /\ Calendar!Balanced' /\ Calendar!Held' = {} /\ Calendar!OnePerRole' /\ \A n : Calendar!FirstRoles(n)' = Calendar!FirstRoles(n)
  BY <1>1, <1>8, CalendarHeldFrame DEF Calendar!Orderly, Calendar!OnePerRole
<1>12. /\ ~Calendar!Doing(p, "open")' /\ ~Calendar!Doing(p, "close")' /\ Calendar!Waits(p)'
       /\ ~Calendar!Doing(p, "open") /\ ~Calendar!Doing(p, "close") /\ Calendar!Waits(p)
  BY <1>1, <1>7 DEF Calendar!Doing, Calendar!Waits, Calendar!Rest
<1>13. ~Calendar!Doing("monitor", "close")
  BY <1>1, <1>8, CalendarCloserHolds
<1>14. \A q \in Calendar!Processes \ {p} :
         /\ Calendar!Doing(q, "rest")' = Calendar!Doing(q, "rest") /\ Calendar!Doing(q, "planned")' = Calendar!Doing(q, "planned")
         /\ Calendar!Doing(q, "open")' = Calendar!Doing(q, "open") /\ Calendar!Doing(q, "close")' = Calendar!Doing(q, "close")
         /\ Calendar!LastRoles(q)' = Calendar!LastRoles(q) /\ Calendar!Untraded(q)' = Calendar!Untraded(q) /\ Calendar!Waits(q)' = Calendar!Waits(q)
         /\ job'[q] = job[q]
  BY <1>1, <1>6, CalendarJobFrame
<1>15. /\ \A q \in Calendar!Processes : ~Calendar!Doing(q, "rest")' => Calendar!LastRoles(q)'
       /\ \A q \in Calendar!Processes : Calendar!Doing(q, "planned")' =>
             Len(job'[q].legs) = 4 /\ (Calendar!Held' # {} \/ (Calendar!Untraded(q)' /\ Calendar!MayEnter'))
  <2>1. \A q \in Calendar!Processes \ {p} :
          /\ ~Calendar!Doing(q, "rest")' => Calendar!LastRoles(q)'
          /\ Calendar!Doing(q, "planned")' => Len(job'[q].legs) = 4 /\ Calendar!Untraded(q)'
    BY <1>1, <1>8, <1>14 DEF Calendar!Orderly
  <2>2. Len(job'[p].legs) = 4
    BY <1>5, <1>7
  <2> QED BY <1>9, <1>10, <2>1, <2>2
<1>16. \A q \in Calendar!Processes : Calendar!Doing(q, "open")' =>
         /\ Calendar!FirstRoles(4 - Len(job[q].legs))'
         /\ Calendar!Untraded(q)'
         /\ \A o \in Calendar!Processes \ {q} : Calendar!Waits(o)'
  BY <1>8, <1>11, <1>12, <1>14 DEF Calendar!Orderly
<1>17. ~Calendar!Doing("monitor", "close")'
  BY <1>12, <1>13, <1>14 DEF Calendar!Processes
<1> QED BY <1>11, <1>15, <1>16, <1>17 DEF Calendar!Orderly

LEMMA CalendarOpenStructureOrder ==
  ASSUME Calendar!Policy, Calendar!Types, Calendar!OrderInv, NEW p \in Calendar!Processes, Calendar!OpenStructure(p)
  PROVE  Calendar!OrderInv'
<1>1. /\ Calendar!Doing(p, "planned") /\ UNCHANGED <<ledger, day, afternoon, plans, failures>>
      /\ job \in [Calendar!Processes -> Calendar!Job]
  BY DEF Calendar!OpenStructure, Calendar!Types, Calendar!Doing
<1>2. SUFFICES ASSUME Calendar!Orderly, Calendar!NoRace' PROVE Calendar!Orderly'
  BY DEF Calendar!OpenStructure, Calendar!OrderInv, Calendar!NoRace
<1>3. CASE Calendar!Held # {}
  <2>1. \A q \in Calendar!Processes : job'[q] = job[q] \/ job'[q] = Calendar!Rest
    BY <1>1, <1>3 DEF Calendar!OpenStructure
  <2> QED BY <1>1, <1>2, <2>1, CalendarRestOrder
<1>4. CASE Calendar!Held = {}
  <2>1. /\ job'[p] = [job[p] EXCEPT !.doing = "open"]
        /\ \A q \in Calendar!Processes \ {p} : job'[q] = job[q]
    BY <1>1, <1>4 DEF Calendar!OpenStructure
  <2>2. job'[p].doing = "open" /\ job'[p].legs = job[p].legs
    BY <1>1, <2>1 DEF Calendar!Job
  <2>3. \A q \in Calendar!Processes \ {p} : ~Calendar!Doing(q, "open")
    <3>1. "race" \notin upsets'
      BY <1>2 DEF Calendar!NoRace
    <3> QED BY <1>4, <3>1 DEF Calendar!OpenStructure, Calendar!Doing
  <2>4. ~Calendar!Doing("monitor", "close")
    BY <1>2, <1>4, CalendarCloserHolds
  <2>5. \A q \in Calendar!Processes \ {p} :
          /\ Calendar!Doing(q, "rest")' = Calendar!Doing(q, "rest") /\ Calendar!Doing(q, "planned")' = Calendar!Doing(q, "planned")
          /\ Calendar!Doing(q, "open")' = Calendar!Doing(q, "open") /\ Calendar!Doing(q, "close")' = Calendar!Doing(q, "close")
          /\ Calendar!LastRoles(q)' = Calendar!LastRoles(q) /\ Calendar!Untraded(q)' = Calendar!Untraded(q) /\ Calendar!Waits(q)' = Calendar!Waits(q)
          /\ job'[q] = job[q]
    BY <1>1, <2>1, CalendarJobFrame
  <2>6. \A q \in Calendar!Processes \ {p} : Calendar!Waits(q)
    <3>1. \A q \in Calendar!Processes : job[q].doing \in {"rest", "planned", "open", "close"}
      BY <1>1 DEF Calendar!Job
    <3>2. \A q \in Calendar!Processes : q = "monitor" \/ q = "script"
      BY DEF Calendar!Processes
    <3>3. ~Calendar!Doing("script", "close")
      BY DEF Calendar!Types
    <3> QED BY <2>3, <2>4, <3>1, <3>2, <3>3 DEF Calendar!Waits, Calendar!Doing
  <2>7. Len(job[p].legs) = 4 /\ Calendar!Untraded(p) /\ Calendar!LastRoles(p)
    BY <1>1, <1>2, <1>4 DEF Calendar!Orderly, Calendar!Doing
  <2>8. /\ Calendar!LastRoles(p)' /\ Calendar!Untraded(p)'
    BY <1>1, <2>2, <2>7 DEF Calendar!LastRoles, Calendar!Untraded
  <2>9. /\ ~Calendar!Doing(p, "rest")' /\ ~Calendar!Doing(p, "planned")' /\ ~Calendar!Waits(p)' /\ ~Calendar!Doing(p, "close")'
    BY <2>2 DEF Calendar!Doing, Calendar!Waits
  <2>10. /\ Calendar!Balanced' /\ Calendar!Held' = {} /\ Calendar!OnePerRole' /\ Calendar!MayEnter' = Calendar!MayEnter
    BY <1>1, <1>2, <1>4, CalendarHeldFrame, CalendarLedgerFrame
       DEF Calendar!Orderly, Calendar!OnePerRole, Calendar!MayEnter, Calendar!Todays, Calendar!PlanDay
  <2>11. 4 - Len(job'[p].legs) = 0
    BY <2>2, <2>7
  <2>12. Calendar!FirstRoles(4 - Len(job[p].legs))'
    <3> DEFINE n == 4 - Len(job'[p].legs)
    <3>3. n = 0
      BY <2>11
    <3>1. 1 .. n = {}
      <4> HIDE DEF n
      <4> QED BY <3>3
    <3>2. Calendar!FirstRoles(4 - Len(job[p].legs))' <=>
            /\ Calendar!OnePerRole'
            /\ \A l \in Calendar!Held' : \E i \in 1 .. (4 - Len(job'[p].legs)) : l.role = Calendar!ROLES[i]
            /\ \A i \in 1 .. (4 - Len(job'[p].legs)) : \E l \in Calendar!Held' : l.role = Calendar!ROLES[i]
      BY DEF Calendar!FirstRoles
    <3> QED BY <2>10, <3>1, <3>2
  <2>13. /\ \A q \in Calendar!Processes : ~Calendar!Doing(q, "rest")' => Calendar!LastRoles(q)'
         /\ \A q \in Calendar!Processes : Calendar!Doing(q, "planned")' =>
               Len(job'[q].legs) = 4 /\ (Calendar!Held' # {} \/ (Calendar!Untraded(q)' /\ Calendar!MayEnter'))
    BY <1>2, <1>4, <2>5, <2>8, <2>9, <2>10 DEF Calendar!Orderly
  <2>14. \A q \in Calendar!Processes : Calendar!Doing(q, "open")' =>
         /\ Calendar!FirstRoles(4 - Len(job[q].legs))'
         /\ Calendar!Untraded(q)'
         /\ \A o \in Calendar!Processes \ {q} : Calendar!Waits(o)'
    BY <2>3, <2>5, <2>6, <2>8, <2>12
  <2>15. ~Calendar!Doing("monitor", "close")'
    BY <2>4, <2>5, <2>9 DEF Calendar!Processes
  <2> QED BY <2>10, <2>13, <2>14, <2>15 DEF Calendar!Orderly
<1> QED BY <1>3, <1>4

LEMMA CalendarOpenLegOrder ==
  ASSUME Calendar!Policy, Calendar!Types, Calendar!OrderInv, NEW p \in Calendar!Processes, Calendar!OpenLeg(p)
  PROVE  Calendar!OrderInv'
<1> DEFINE s == job[p].legs
           n == Len(s)
           leg == s[1]
<1>1. /\ job[p].doing = "open" /\ Calendar!Doing(p, "open") /\ ~Calendar!Doing(p, "rest")
      /\ Calendar!Record(Head(s), Calendar!OpeningSide(Head(s)), "entry") /\ Calendar!AfterLeg(p)
      /\ UNCHANGED <<day, afternoon, plans, failures, cycleStart, upsets>>
  BY DEF Calendar!OpenLeg, Calendar!Doing
<1>2. SUFFICES ASSUME Calendar!Orderly, Calendar!NoRace PROVE Calendar!Orderly'
  BY <1>1 DEF Calendar!OrderInv, Calendar!NoRace
<1>3. /\ Head(s) = leg /\ leg \in Calendar!Leg /\ Calendar!NextAfter(leg.near, day) /\ n \in 1 .. 4
      /\ Calendar!Record(leg, Calendar!OpeningSide(leg), "entry")
  BY <1>1, CalendarHeadFacts
<1>4. /\ \A i \in 1 .. n : s[i].role = Calendar!ROLES[4 - n + i]
      /\ \A i \in 1 .. n : ~\E r \in ledger : /\ r.date = day /\ r.leg = s[i]
                                              /\ r.action = Calendar!OpeningSide(s[i])
      /\ Calendar!FirstRoles(4 - n) /\ Calendar!Balanced
      /\ \A l \in Calendar!Held : \E r \in Calendar!RowsOf(l, Calendar!OpeningSide(l)) : r.date = day
      /\ \A q \in Calendar!Processes \ {p} : Calendar!Waits(q)
  BY <1>1, <1>2 DEF Calendar!Orderly, Calendar!LastRoles, Calendar!Untraded
<1>5. /\ \A q \in Calendar!Processes \ {p} : job'[q] = job[q]
      /\ n = 1 => job'[p] = Calendar!Rest
      /\ n # 1 => /\ job'[p].doing = "open"
                  /\ Len(job'[p].legs) = n - 1
                  /\ \A i \in 1 .. Len(job'[p].legs) : job'[p].legs[i] = s[i + 1]
  BY <1>1, CalendarAfterLegFacts
<1> HIDE DEF s, n, leg
<1>6. leg.role = Calendar!ROLES[4 - n + 1] /\ leg = s[1]
  BY <1>3, <1>4 DEF leg
<1>7. /\ leg \notin Calendar!Held
      /\ \A m \in Calendar!Held : m.role # leg.role
  <2>1. \A m \in Calendar!Held : \E i \in 1 .. 4 - n : m.role = Calendar!ROLES[i]
    BY <1>4 DEF Calendar!FirstRoles
  <2>2. \A i \in 1 .. 4 - n : Calendar!ROLES[i] # Calendar!ROLES[4 - n + 1]
    <3>1. \A i \in 1 .. 4 - n : i \in 1 .. 4 /\ i # 4 - n + 1 /\ 4 - n + 1 \in 1 .. 4
      BY <1>3
    <3> QED BY <3>1, CalendarRolesDiffer
  <2> QED BY <1>6, <2>1, <2>2
<1>8. /\ Calendar!Balanced' /\ Calendar!Held' = Calendar!Held \cup {leg}
      /\ \A r \in ledger' : r \in ledger \/ r.leg = leg
      /\ ledger \subseteq ledger'
      /\ \E r \in ledger' : r.leg = leg /\ r.action = Calendar!OpeningSide(leg) /\ r.date = day
  <2>1. ~\E r \in ledger : r.date = day /\ r.leg = leg /\ r.action = Calendar!OpeningSide(leg)
    BY <1>3, <1>4, <1>6
  <2> QED BY <1>3, <1>4, <1>7, <2>1, CalendarOpenedFacts
<1>9. /\ \A l, m \in Calendar!Held' : l.role = m.role => l = m
      /\ \A l \in Calendar!Held' : \E i \in 1 .. 4 - n + 1 : l.role = Calendar!ROLES[i]
      /\ \A i \in 1 .. 4 - n + 1 : \E l \in Calendar!Held' : l.role = Calendar!ROLES[i]
  <2>1. \A l, m \in Calendar!Held' : l.role = m.role => l = m
    BY <1>4, <1>7, <1>8 DEF Calendar!FirstRoles, Calendar!OnePerRole
  <2>2. \A l \in Calendar!Held' : \E i \in 1 .. 4 - n + 1 : l.role = Calendar!ROLES[i]
    <3>1. \A l \in Calendar!Held : \E i \in 1 .. 4 - n : l.role = Calendar!ROLES[i]
      BY <1>4 DEF Calendar!FirstRoles
    <3>2. 4 - n + 1 \in 1 .. 4 - n + 1 /\ \A i \in 1 .. 4 - n : i \in 1 .. 4 - n + 1
      BY <1>3
    <3> QED BY <1>6, <1>8, <3>1, <3>2
  <2>3. \A i \in 1 .. 4 - n + 1 : \E l \in Calendar!Held' : l.role = Calendar!ROLES[i]
    <3>1. \A i \in 1 .. 4 - n : \E l \in Calendar!Held : l.role = Calendar!ROLES[i]
      BY <1>4 DEF Calendar!FirstRoles
    <3>2. \A i \in 1 .. 4 - n + 1 : i \in 1 .. 4 - n \/ i = 4 - n + 1
      BY <1>3
    <3> QED BY <1>6, <1>8, <3>1, <3>2
  <2> QED BY <2>1, <2>2, <2>3
<1>13. Calendar!OnePerRole'
  BY <1>9 DEF Calendar!OnePerRole
<1>14. \A l \in Calendar!Held' : \E r \in Calendar!RowsOf(l, Calendar!OpeningSide(l))' : r.date = day'
  <2>1. \A l \in Calendar!Held : \E r \in ledger' : r.leg = l /\ r.action = Calendar!OpeningSide(l) /\ r.date = day
    BY <1>4, <1>8 DEF Calendar!RowsOf
  <2>2. \A l \in Calendar!Held' : \E r \in ledger' : r.leg = l /\ r.action = Calendar!OpeningSide(l) /\ r.date = day
    BY <1>8, <2>1
  <2> QED BY <1>1, <2>2 DEF Calendar!RowsOf, Calendar!OpeningSide
<1>10. ASSUME NEW q \in Calendar!Processes \ {p}
       PROVE  /\ Calendar!Waits(q)' /\ ~Calendar!Doing(q, "open")' /\ ~Calendar!Doing(q, "close")'
              /\ ~Calendar!Doing(q, "rest")' => Calendar!LastRoles(q)'
              /\ Calendar!Doing(q, "planned")' => Len(job'[q].legs) = 4 /\ Calendar!Held' # {}
  <2>1. job'[q] = job[q] /\ Calendar!Waits(q)
    BY <1>4, <1>5
  <2> QED BY <1>2, <1>8, <2>1 DEF Calendar!Orderly, Calendar!Waits, Calendar!Doing, Calendar!LastRoles
<1>11. CASE n = 1
  <2>1. job'[p] = Calendar!Rest
    BY <1>5, <1>11
  <2>2. Calendar!Doing(p, "rest")' /\ ~Calendar!Doing(p, "planned")' /\ ~Calendar!Doing(p, "open")' /\ ~Calendar!Doing(p, "close")'
    BY <2>1 DEF Calendar!Doing, Calendar!Rest
  <2>4. ~Calendar!Doing("monitor", "close")'
    BY <1>10, <2>2 DEF Calendar!Processes
  <2> QED BY <1>8, <1>10, <1>13, <2>2, <2>4 DEF Calendar!Orderly
<1>12. CASE n # 1
  <2> DEFINE t == job'[p].legs
  <2>1. job'[p].doing = "open" /\ Len(t) = n - 1 /\ \A i \in 1 .. Len(t) : t[i] = s[i + 1]
    BY <1>5, <1>12
  <2>2. /\ Calendar!Doing(p, "open")' /\ ~Calendar!Doing(p, "rest")' /\ ~Calendar!Doing(p, "planned")' /\ ~Calendar!Doing(p, "close")'
        /\ ~Calendar!Waits(p)'
    BY <2>1 DEF Calendar!Doing, Calendar!Waits
  <2>3. ASSUME NEW i \in 1 .. Len(t)
        PROVE  /\ i + 1 \in 1 .. n /\ t[i] = s[i + 1]
               /\ 4 - n + (i + 1) = 4 - Len(t) + i
               /\ 4 - n + (i + 1) \in 1 .. 4 /\ 4 - n + (i + 1) # 4 - n + 1
               /\ 4 - n + 1 \in 1 .. 4
    <3>1. Len(t) = n - 1 /\ t[i] = s[i + 1] /\ i \in 1 .. n - 1
      BY <2>1
    <3> DEFINE m == Len(t)
    <3>2. m = n - 1
      BY <2>1
    <3> HIDE DEF m
    <3>3. /\ i + 1 \in 1 .. n
          /\ 4 - n + (i + 1) = 4 - m + i
          /\ 4 - n + (i + 1) \in 1 .. 4 /\ 4 - n + (i + 1) # 4 - n + 1
          /\ 4 - n + 1 \in 1 .. 4
      BY <1>3, <3>1, <3>2
    <3> QED BY <3>1, <3>3 DEF m
  <2>4. Calendar!LastRoles(p)'
    <3>1. \A i \in 1 .. Len(t) : t[i].role = Calendar!ROLES[4 - Len(t) + i]
      BY <1>4, <2>3
    <3> QED BY <3>1 DEF Calendar!LastRoles
  <2>5. Calendar!Untraded(p)'
    <3>1. ASSUME NEW i \in 1 .. Len(t) PROVE t[i] # leg
      <4>1. i + 1 \in 1 .. n /\ t[i] = s[i + 1]
        BY <2>3
      <4>2. s[i + 1].role = Calendar!ROLES[4 - n + (i + 1)]
        BY <1>4, <4>1
      <4>3. Calendar!ROLES[4 - n + (i + 1)] # Calendar!ROLES[4 - n + 1]
        BY <2>3, CalendarRolesDiffer
      <4> QED BY <1>6, <4>1, <4>2, <4>3
    <3>2. ASSUME NEW i \in 1 .. Len(t), NEW r \in ledger', r.date = day, r.leg = t[i],
                 r.action = Calendar!OpeningSide(t[i])
          PROVE  FALSE
      <4>1. r \in ledger
        BY <1>8, <3>1, <3>2
      <4>2. i + 1 \in 1 .. n /\ t[i] = s[i + 1]
        BY <2>3
      <4>3. r.date = day /\ r.leg = s[i + 1] /\ r.action = Calendar!OpeningSide(s[i + 1])
        <5> HIDE DEF t
        <5> QED BY <3>2, <4>2
      <4> QED BY <1>4, <4>1, <4>2, <4>3
    <3>3. day' = day
      BY <1>1
    <3> QED BY <3>2, <3>3 DEF Calendar!Untraded, Calendar!OpeningSide
  <2>6. Calendar!FirstRoles(4 - Len(job[p].legs))'
    <3>1. 4 - Len(t) = 4 - n + 1
      <4> DEFINE m == Len(t)
      <4>1. m = n - 1
        BY <2>1
      <4> HIDE DEF m
      <4>2. 4 - m = 4 - n + 1
        BY <1>3, <4>1
      <4> QED BY <4>2 DEF m
    <3> QED BY <1>9, <3>1 DEF Calendar!FirstRoles, Calendar!OnePerRole
  <2>7. ~Calendar!Doing("monitor", "close")'
    BY <1>10, <2>2 DEF Calendar!Processes
  <2> QED BY <1>8, <1>10, <1>13, <1>14, <2>2, <2>4, <2>5, <2>6, <2>7 DEF Calendar!Orderly
<1> QED BY <1>11, <1>12


\* A structure that is resolved is held, and nobody opens.
LEMMA CalendarCloseStructureOrder ==
  ASSUME Calendar!Policy, Calendar!Types, Calendar!NearInv, Calendar!OrderInv, Calendar!CloseStructure
  PROVE  Calendar!OrderInv'
<1>1. /\ job["monitor"] = Calendar!Rest /\ job["script"].doing # "planned"
      /\ UNCHANGED <<ledger, day, afternoon, plans, failures, cycleStart, upsets>>
  BY DEF Calendar!CloseStructure
<1>2. PICK legs \in Calendar!Resolved :
        \E why \in Calendar!Reasons \ {"entry"} :
          job' = [job EXCEPT !["monitor"] =
                     [doing |-> "close",
                      legs |-> [i \in 1 .. 4 |-> CHOOSE l \in legs : l.role = Calendar!ROLES[i]],
                      why |-> why]]
  BY DEF Calendar!CloseStructure, Calendar!Decisions, Calendar!Reasons
<1> DEFINE s == [i \in 1 .. 4 |-> CHOOSE l \in legs : l.role = Calendar!ROLES[i]]
<1>3. PICK why \in Calendar!Reasons \ {"entry"} :
        job' = [job EXCEPT !["monitor"] = [doing |-> "close", legs |-> s, why |-> why]]
  BY <1>2
<1>4. s \in Seq(Calendar!Leg) /\ Len(s) = 4 /\ \A i \in 1 .. 4 : s[i] \in legs /\ s[i].role = Calendar!ROLES[i]
  BY CalendarResolvedFacts
<1> HIDE DEF s
<1>5. "monitor" \in Calendar!Processes /\ "script" \in Calendar!Processes
      /\ \A q \in Calendar!Processes : q = "monitor" \/ q = "script"
  BY DEF Calendar!Processes
<1>6. job'["monitor"].doing = "close" /\ job'["monitor"].legs = s /\ job'["monitor"].why = why
      /\ job'["script"] = job["script"]
  BY <1>3, <1>5 DEF Calendar!Types
<1>7. SUFFICES ASSUME Calendar!Orderly, Calendar!NoRace PROVE Calendar!Orderly'
  BY <1>1 DEF Calendar!OrderInv, Calendar!NoRace
<1>8. legs \subseteq Calendar!Held /\ {l.role : l \in legs} = Calendar!Roles
  BY DEF Calendar!Resolved
<1>9. ~Calendar!Doing("script", "open")
  <2> SUFFICES ASSUME Calendar!Doing("script", "open") PROVE FALSE
    OBVIOUS
  <2> DEFINE n == Len(job["script"].legs)
  <2>1. n \in 1 .. 4 /\ \A l \in Calendar!Held : \E i \in 1 .. 4 - n : l.role = Calendar!ROLES[i]
    BY <1>5, <1>7 DEF Calendar!Types, Calendar!Doing, Calendar!Orderly, Calendar!FirstRoles
  <2> HIDE DEF n
  <2>2. s[4] \in Calendar!Held /\ s[4].role = Calendar!ROLES[4]
    BY <1>4, <1>8
  <2>3. \A i \in 1 .. 4 - n : i \in 1 .. 4 /\ i # 4
    BY <2>1
  <2> QED BY <2>1, <2>2, <2>3, CalendarRolesDiffer
<1>10. Calendar!Doing("script", "rest")
  <2>1. job["script"].doing \in {"rest", "planned", "open", "close"}
    BY <1>5 DEF Calendar!Types, Calendar!Job
  <2> QED BY <1>1, <1>9, <2>1 DEF Calendar!Types, Calendar!Doing
<1>13. Calendar!Balanced' /\ Calendar!Held' = Calendar!Held /\ Calendar!OnePerRole'
  BY <1>1, <1>7, CalendarHeldFrame DEF Calendar!Orderly, Calendar!OnePerRole
<1>14. /\ ~Calendar!Doing("monitor", "rest")' /\ ~Calendar!Doing("monitor", "planned")' /\ ~Calendar!Doing("monitor", "open")'
       /\ Calendar!Doing("script", "rest")' /\ ~Calendar!Doing("script", "planned")' /\ ~Calendar!Doing("script", "open")'
       /\ ~Calendar!Waits("monitor")'
  BY <1>6, <1>10 DEF Calendar!Doing, Calendar!Waits
<1>15. Calendar!LastRoles("monitor")'
  <2>1. \A i \in 1 .. 4 : 4 - 4 + i = i
    OBVIOUS
  <2>2. \A i \in 1 .. Len(s) : s[i].role = Calendar!ROLES[4 - Len(s) + i]
    BY <1>4, <2>1
  <2> QED BY <1>6, <2>2 DEF Calendar!LastRoles
<1>16. /\ \A i \in 1 .. Len(job'["monitor"].legs) : job'["monitor"].legs[i] \in Calendar!Held'
       /\ job'["monitor"].why # "entry"
  BY <1>4, <1>6, <1>8, <1>13
<1> QED BY <1>5, <1>13, <1>14, <1>15, <1>16 DEF Calendar!Orderly

LEMMA CalendarCloseLegOrder ==
  ASSUME Calendar!Policy, Calendar!Types, Calendar!OrderInv, Calendar!CloseLeg
  PROVE  Calendar!OrderInv'
<1> DEFINE p == "monitor"
           s == job[p].legs
           n == Len(s)
           leg == s[1]
<1>1. /\ Calendar!Doing(p, "close") /\ ~Calendar!Doing(p, "rest") /\ Calendar!AfterLeg(p)
      /\ Calendar!Record(Head(s), Calendar!ClosingSide(Head(s)), job[p].why)
      /\ UNCHANGED <<day, afternoon, plans, failures, cycleStart>>
  BY DEF Calendar!CloseLeg, Calendar!Doing
<1>2. p \in Calendar!Processes /\ "script" \in Calendar!Processes
      /\ \A q \in Calendar!Processes : q = p \/ q = "script"
  BY DEF Calendar!Processes
<1>3. SUFFICES ASSUME Calendar!Orderly PROVE Calendar!Orderly'
  BY DEF Calendar!CloseLeg, Calendar!OrderInv, Calendar!NoRace
<1>4. /\ Head(s) = leg /\ leg \in Calendar!Leg /\ Calendar!NextAfter(leg.near, day) /\ n \in 1 .. 4
      /\ Calendar!Record(leg, Calendar!ClosingSide(leg), job[p].why) /\ job[p].why \in Calendar!Reasons
  BY <1>1, <1>2, CalendarHeadFacts
<1>5. /\ \A i \in 1 .. n : s[i].role = Calendar!ROLES[4 - n + i]
      /\ Calendar!Balanced /\ Calendar!OnePerRole /\ \A i \in 1 .. n : s[i] \in Calendar!Held
      /\ Calendar!Doing("script", "rest") /\ job[p].why # "entry"
  BY <1>1, <1>2, <1>3 DEF Calendar!Orderly, Calendar!LastRoles
<1>6. /\ job'["script"] = job["script"]
      /\ n = 1 => job'[p] = Calendar!Rest
      /\ n # 1 => /\ job'[p].doing = "close" /\ job'[p].why = job[p].why
                  /\ Len(job'[p].legs) = n - 1
                  /\ \A i \in 1 .. Len(job'[p].legs) : job'[p].legs[i] = s[i + 1]
  BY <1>1, <1>2, CalendarAfterLegFacts DEF Calendar!Doing
<1>7. leg \in Calendar!Held /\ leg = s[1]
  BY <1>4, <1>5
<1>8. Calendar!Balanced' /\ (Calendar!Held' = Calendar!Held \/ Calendar!Held' = Calendar!Held \ {leg})
  <2> HIDE DEF leg
  <2>1. CASE ledger' = ledger
    BY <1>5, <2>1, CalendarHeldFrame
  <2>2. CASE ledger' # ledger
    BY <1>4, <1>5, <1>7, <2>2, CalendarClosedFacts
  <2> QED BY <2>1, <2>2
<1>9. Calendar!OnePerRole'
  <2>1. Calendar!Held' \subseteq Calendar!Held
    BY <1>8
  <2> QED BY <1>5, <2>1 DEF Calendar!OnePerRole
<1>10. Calendar!Doing("script", "rest")' /\ ~Calendar!Doing("script", "planned")' /\ ~Calendar!Doing("script", "open")'
  BY <1>5, <1>6 DEF Calendar!Doing
<1> HIDE DEF s, n, leg
<1>11. CASE n = 1
  <2>1. job'[p] = Calendar!Rest
    BY <1>6, <1>11
  <2>2. Calendar!Doing(p, "rest")' /\ ~Calendar!Doing(p, "planned")' /\ ~Calendar!Doing(p, "open")' /\ ~Calendar!Doing(p, "close")'
    BY <2>1 DEF Calendar!Doing, Calendar!Rest
  <2> QED BY <1>2, <1>8, <1>9, <1>10, <2>2 DEF Calendar!Orderly
<1>12. CASE n # 1
  <2> DEFINE t == job'[p].legs
  <2>1. job'[p].doing = "close" /\ Len(t) = n - 1 /\ \A i \in 1 .. Len(t) : t[i] = s[i + 1]
    BY <1>6, <1>12
  <2>2. /\ ~Calendar!Doing(p, "open")' /\ ~Calendar!Doing(p, "rest")' /\ ~Calendar!Doing(p, "planned")'
    BY <2>1 DEF Calendar!Doing
  <2>3. n \in 2 .. 4
    BY <1>4, <1>12
  <2>4. ASSUME NEW i \in 1 .. Len(t)
        PROVE  t[i].role = Calendar!ROLES[4 - Len(t) + i] /\ t[i] \in Calendar!Held'
    <3> DEFINE m == Len(t)
    <3>1. m = n - 1 /\ i \in 1 .. m /\ t[i] = s[i + 1]
      BY <2>1
    <3> HIDE DEF m
    <3>2. /\ i + 1 \in 1 .. n /\ 1 \in 1 .. n
          /\ 4 - n + (i + 1) = 4 - m + i
          /\ 4 - n + (i + 1) \in 1 .. 4 /\ 4 - n + 1 \in 1 .. 4
          /\ 4 - n + (i + 1) # 4 - n + 1
      BY <2>3, <3>1
    <3>3. s[i + 1].role = Calendar!ROLES[4 - n + (i + 1)] /\ s[i + 1] \in Calendar!Held
          /\ s[1].role = Calendar!ROLES[4 - n + 1]
      BY <1>5, <3>2
    <3>4. s[i + 1] # leg
      BY <1>7, <3>2, <3>3, CalendarRolesDiffer
    <3>5. t[i] \in Calendar!Held'
      BY <1>8, <3>1, <3>3, <3>4
    <3>6. t[i].role = Calendar!ROLES[4 - m + i]
      BY <3>1, <3>2, <3>3
    <3> QED BY <3>5, <3>6 DEF m
  <2>5. Calendar!LastRoles(p)'
    BY <2>4 DEF Calendar!LastRoles
  <2>6. /\ \A i \in 1 .. Len(job'[p].legs) : job'[p].legs[i] \in Calendar!Held'
        /\ job'[p].why # "entry"
    BY <1>5, <1>6, <1>12, <2>4
  <2> QED BY <1>2, <1>8, <1>9, <1>10, <2>2, <2>5, <2>6 DEF Calendar!Orderly
<1> QED BY <1>11, <1>12

LEMMA CalendarOrderStep ==
  ASSUME Calendar!Policy, Calendar!Types, Calendar!NearInv, Calendar!OrderInv, [Calendar!Next]_Calendar!vars
  PROVE  Calendar!OrderInv'
<1>1. ASSUME UNCHANGED ledger, Calendar!NoRace' => Calendar!NoRace,
             \A p \in Calendar!Processes : job'[p] = job[p] \/ job'[p] = Calendar!Rest,
             day' = day \/ \A p \in Calendar!Processes : job'[p] = Calendar!Rest
      PROVE  Calendar!OrderInv'
  BY <1>1, CalendarRestOrder DEF Calendar!OrderInv
<1>2. ASSUME NEW p \in Calendar!Processes, Calendar!Crash(p) PROVE Calendar!OrderInv'
  <2>1. UNCHANGED <<ledger, day>> /\ (Calendar!NoRace' => Calendar!NoRace)
    BY <1>2 DEF Calendar!Crash, Calendar!NoRace
  <2>2. \A q \in Calendar!Processes : job'[q] = job[q] \/ job'[q] = Calendar!Rest
    BY <1>2 DEF Calendar!Crash, Calendar!Types
  <2> QED BY <1>1, <2>1, <2>2
<1>3. CASE Calendar!Afternoon \/ UNCHANGED Calendar!vars
  BY <1>1, <1>3 DEF Calendar!Afternoon, Calendar!vars, Calendar!NoRace
<1>4. CASE Calendar!NextDay
  BY <1>1, <1>4 DEF Calendar!NextDay, Calendar!NoRace
<1> QED
  BY <1>2, <1>3, <1>4, CalendarPlanEntryOrder, CalendarOpenStructureOrder, CalendarOpenLegOrder, CalendarCloseStructureOrder,
     CalendarCloseLegOrder DEF Calendar!Next

\* Where nothing is written and nobody begins to open or to close.
LEMMA CalendarWholeFrame ==
  ASSUME Calendar!WholeInv, UNCHANGED ledger, Calendar!Good' => Calendar!Good,
         \A p \in Calendar!Processes : job'[p] = job[p] \/ (Calendar!Waits(p) /\ Calendar!Waits(p)')
  PROVE  Calendar!WholeInv'
<1>1. SUFFICES ASSUME Calendar!Whole PROVE Calendar!Whole'
  BY DEF Calendar!WholeInv
<1>2. Calendar!Held' = Calendar!Held /\ Calendar!FirstRoles(4)' = Calendar!FirstRoles(4)
  BY CalendarHeldFrame
<1>3. "monitor" \in Calendar!Processes
  BY DEF Calendar!Processes
<1>4. Calendar!Doing("monitor", "close")' =>
        Calendar!Doing("monitor", "close") /\ job'["monitor"] = job["monitor"]
  BY <1>3 DEF Calendar!Doing, Calendar!Waits
<1>5. \A p \in Calendar!Processes : Calendar!Waits(p)' => Calendar!Waits(p)
  BY DEF Calendar!Waits
<1> QED BY <1>1, <1>2, <1>4, <1>5 DEF Calendar!Whole

LEMMA CalendarOpenStructureWhole ==
  ASSUME Calendar!Policy, Calendar!Types, Calendar!WholeInv, NEW p \in Calendar!Processes, Calendar!OpenStructure(p)
  PROVE  Calendar!WholeInv'
<1>1. /\ Calendar!Waits(p) /\ ~Calendar!Doing(p, "close") /\ UNCHANGED ledger /\ job \in [Calendar!Processes -> Calendar!Job]
      /\ Calendar!Good' => Calendar!Good
  BY DEF Calendar!OpenStructure, Calendar!Types, Calendar!Doing, Calendar!Waits, Calendar!Good
<1>2. CASE Calendar!Held # {}
  <2>1. \A q \in Calendar!Processes : job'[q] = job[q] \/ (q = p /\ job'[q] = Calendar!Rest)
    BY <1>1, <1>2 DEF Calendar!OpenStructure
  <2>2. \A q \in Calendar!Processes : job'[q] = job[q] \/ (Calendar!Waits(q) /\ Calendar!Waits(q)')
    BY <1>1, <2>1 DEF Calendar!Waits, Calendar!Rest
  <2> QED BY <1>1, <2>2, CalendarWholeFrame
<1>3. CASE Calendar!Held = {}
  <2>1. /\ job'[p] = [job[p] EXCEPT !.doing = "open"]
        /\ \A q \in Calendar!Processes \ {p} : job'[q] = job[q]
    BY <1>1, <1>3 DEF Calendar!OpenStructure
  <2>2. job'[p].doing = "open"
    BY <1>1, <2>1 DEF Calendar!Job
  <2>3. Calendar!Held' = Calendar!Held
    BY <1>1, CalendarHeldFrame
  <2>4. Calendar!Doing("monitor", "close")' =>
          Calendar!Doing("monitor", "close") /\ job'["monitor"] = job["monitor"]
    BY <2>1, <2>2 DEF Calendar!Doing, Calendar!Processes
  <2>5. ~Calendar!Waits(p)'
    BY <2>2 DEF Calendar!Waits
  <2> QED BY <1>1, <2>3, <2>4, <2>5 DEF Calendar!WholeInv, Calendar!Whole
<1> QED BY <1>2, <1>3

\* The last leg makes the structure whole.
LEMMA CalendarOpenLegWhole ==
  ASSUME Calendar!Policy, Calendar!Types, Calendar!OrderInv, Calendar!WholeInv, NEW p \in Calendar!Processes, Calendar!OpenLeg(p)
  PROVE  Calendar!WholeInv'
<1> DEFINE s == job[p].legs
           n == Len(s)
           leg == s[1]
<1>1. /\ job[p].doing = "open" /\ Calendar!Doing(p, "open") /\ ~Calendar!Doing(p, "rest")
      /\ Calendar!Record(Head(s), Calendar!OpeningSide(Head(s)), "entry") /\ Calendar!AfterLeg(p)
      /\ UNCHANGED <<day, afternoon, plans, failures, cycleStart, upsets>>
  BY DEF Calendar!OpenLeg, Calendar!Doing
<1>2. SUFFICES ASSUME Calendar!Orderly PROVE Calendar!Whole'
  BY <1>1 DEF Calendar!WholeInv, Calendar!Good, Calendar!OrderInv, Calendar!NoRace
<1>3. /\ Head(s) = leg /\ leg \in Calendar!Leg /\ Calendar!NextAfter(leg.near, day) /\ n \in 1 .. 4
      /\ Calendar!Record(leg, Calendar!OpeningSide(leg), "entry")
  BY <1>1, CalendarHeadFacts
<1>4. /\ \A i \in 1 .. n : s[i].role = Calendar!ROLES[4 - n + i]
      /\ \A i \in 1 .. n : ~\E r \in ledger : /\ r.date = day /\ r.leg = s[i]
                                              /\ r.action = Calendar!OpeningSide(s[i])
      /\ Calendar!FirstRoles(4 - n) /\ Calendar!Balanced
      /\ \A q \in Calendar!Processes \ {p} : Calendar!Waits(q)
  BY <1>1, <1>2 DEF Calendar!Orderly, Calendar!LastRoles, Calendar!Untraded
<1>5. /\ \A q \in Calendar!Processes \ {p} : job'[q] = job[q]
      /\ n = 1 => job'[p] = Calendar!Rest
      /\ n # 1 => job'[p].doing = "open"
  BY <1>1, CalendarAfterLegFacts
<1> HIDE DEF s, n, leg
<1>6. ~Calendar!Doing("monitor", "close")'
  BY <1>4, <1>5 DEF Calendar!Doing, Calendar!Waits, Calendar!Rest, Calendar!Processes
<1>7. CASE n # 1
  <2>1. ~Calendar!Waits(p)'
    BY <1>5, <1>7 DEF Calendar!Waits
  <2> QED BY <1>6, <2>1 DEF Calendar!Whole
<1>8. CASE n = 1
  <2>1. /\ leg = s[1] /\ leg.role = Calendar!ROLES[4] /\ Calendar!FirstRoles(3)
        /\ ~\E r \in ledger : r.date = day /\ r.leg = leg /\ r.action = Calendar!OpeningSide(leg)
    <3>1. 4 - n + 1 = 4 /\ 4 - n = 3 /\ 1 \in 1 .. n
      BY <1>8
    <3> QED BY <1>4, <3>1 DEF leg
  <2>2. \A m \in Calendar!Held : m.role # leg.role
    BY <2>1, CalendarRolesDiffer DEF Calendar!FirstRoles
  <2>3. Calendar!Held' = Calendar!Held \cup {leg}
    BY <1>3, <1>4, <2>1, <2>2, CalendarOpenedFacts
  <2>4. /\ Calendar!OnePerRole'
        /\ \A l \in Calendar!Held' : \E i \in 1 .. 4 : l.role = Calendar!ROLES[i]
        /\ \A i \in 1 .. 4 : \E l \in Calendar!Held' : l.role = Calendar!ROLES[i]
    <3>1. /\ \A l, m \in Calendar!Held : l.role = m.role => l = m
          /\ \A l \in Calendar!Held : \E i \in 1 .. 3 : l.role = Calendar!ROLES[i]
          /\ \A i \in 1 .. 3 : \E l \in Calendar!Held : l.role = Calendar!ROLES[i]
      BY <2>1 DEF Calendar!FirstRoles, Calendar!OnePerRole
    <3>2. \A i \in 1 .. 4 : i \in 1 .. 3 \/ i = 4
      OBVIOUS
    <3>3. \A l, m \in Calendar!Held' : l.role = m.role => l = m
      BY <2>2, <2>3, <3>1
    <3>4. \A l \in Calendar!Held' : \E i \in 1 .. 4 : l.role = Calendar!ROLES[i]
      BY <2>1, <2>3, <3>1
    <3>5. \A i \in 1 .. 4 : \E l \in Calendar!Held' : l.role = Calendar!ROLES[i]
      BY <2>1, <2>3, <3>1, <3>2
    <3> QED BY <3>3, <3>4, <3>5 DEF Calendar!OnePerRole
  <2>5. Calendar!FirstRoles(4)'
    BY <2>4 DEF Calendar!FirstRoles
  <2> QED BY <1>6, <2>5 DEF Calendar!Whole
<1> QED BY <1>7, <1>8

\* A structure that is resolved is all that is held.
LEMMA CalendarCloseStructureWhole ==
  ASSUME Calendar!Policy, Calendar!Types, Calendar!NearInv, Calendar!OrderInv, Calendar!WholeInv, Calendar!OrderInv', Calendar!CloseStructure
  PROVE  Calendar!WholeInv'
<1>1. /\ job["monitor"] = Calendar!Rest /\ job["script"].doing # "planned"
      /\ UNCHANGED <<ledger, day, afternoon, plans, failures, cycleStart, upsets>>
  BY DEF Calendar!CloseStructure
<1>2. PICK legs \in Calendar!Resolved :
        \E why \in Calendar!Reasons :
          job' = [job EXCEPT !["monitor"] =
                     [doing |-> "close",
                      legs |-> [i \in 1 .. 4 |-> CHOOSE l \in legs : l.role = Calendar!ROLES[i]],
                      why |-> why]]
  BY DEF Calendar!CloseStructure, Calendar!Decisions, Calendar!Reasons
<1> DEFINE s == [i \in 1 .. 4 |-> CHOOSE l \in legs : l.role = Calendar!ROLES[i]]
<1>3. PICK why \in Calendar!Reasons :
        job' = [job EXCEPT !["monitor"] = [doing |-> "close", legs |-> s, why |-> why]]
  BY <1>2
<1>4. s \in Seq(Calendar!Leg) /\ Len(s) = 4 /\ \A i \in 1 .. 4 : s[i] \in legs /\ s[i].role = Calendar!ROLES[i]
  BY CalendarResolvedFacts
<1> HIDE DEF s
<1>5. "monitor" \in Calendar!Processes /\ "script" \in Calendar!Processes
      /\ \A q \in Calendar!Processes : q = "monitor" \/ q = "script"
  BY DEF Calendar!Processes
<1>6. job'["monitor"].doing = "close" /\ job'["monitor"].legs = s /\ job'["script"] = job["script"]
  BY <1>3, <1>5 DEF Calendar!Types
<1>7. SUFFICES ASSUME Calendar!Whole, Calendar!Orderly' PROVE Calendar!Whole'
  BY <1>1 DEF Calendar!WholeInv, Calendar!Good, Calendar!OrderInv, Calendar!NoRace
<1>8. legs \subseteq Calendar!Held
  BY DEF Calendar!Resolved
<1>9. Calendar!Doing("script", "rest")
  <2>1. Calendar!Doing("script", "rest")'
    BY <1>6, <1>7 DEF Calendar!Orderly, Calendar!Doing
  <2> QED BY <1>6, <2>1 DEF Calendar!Doing
<1>10. Calendar!FirstRoles(4)
  <2>1. \A p \in Calendar!Processes : Calendar!Waits(p)
    BY <1>1, <1>5, <1>9 DEF Calendar!Waits, Calendar!Doing, Calendar!Rest
  <2>2. Calendar!Held # {}
    BY <1>4, <1>8
  <2> QED BY <1>7, <2>1, <2>2 DEF Calendar!Whole
<1>11. Calendar!Held = {s[i] : i \in 1 .. 4}
  <2>1. ASSUME NEW l \in Calendar!Held PROVE \E i \in 1 .. 4 : l = s[i]
    <3>1. PICK i \in 1 .. 4 : l.role = Calendar!ROLES[i]
      BY <1>10 DEF Calendar!FirstRoles
    <3> QED BY <1>4, <1>8, <1>10, <3>1 DEF Calendar!FirstRoles, Calendar!OnePerRole
  <2> QED BY <1>4, <1>8, <2>1
<1>12. Calendar!Held' = Calendar!Held /\ ~Calendar!Waits("monitor")'
  BY <1>1, <1>6, CalendarHeldFrame DEF Calendar!Waits
<1>13. Calendar!Held' = {job'["monitor"].legs[i] : i \in 1 .. Len(job'["monitor"].legs)}
  BY <1>4, <1>6, <1>11, <1>12
<1> QED BY <1>5, <1>12, <1>13 DEF Calendar!Whole

\* Each leg that is closed, unless it is dropped, leaves the rest.
LEMMA CalendarCloseLegWhole ==
  ASSUME Calendar!Policy, Calendar!Types, Calendar!OrderInv, Calendar!WholeInv, Calendar!CloseLeg
  PROVE  Calendar!WholeInv'
<1> DEFINE p == "monitor"
           s == job[p].legs
           n == Len(s)
           leg == s[1]
<1>1. /\ Calendar!Doing(p, "close") /\ ~Calendar!Doing(p, "rest") /\ Calendar!AfterLeg(p)
      /\ Calendar!Record(Head(s), Calendar!ClosingSide(Head(s)), job[p].why)
      /\ UNCHANGED <<day, afternoon, plans, failures, cycleStart>>
  BY DEF Calendar!CloseLeg, Calendar!Doing
<1>2. p \in Calendar!Processes
  BY DEF Calendar!Processes
<1>3. SUFFICES ASSUME Calendar!Orderly, Calendar!Whole, ledger' # ledger PROVE Calendar!Whole'
  BY DEF Calendar!CloseLeg, Calendar!WholeInv, Calendar!Good, Calendar!OrderInv, Calendar!NoRace
<1>4. /\ Head(s) = leg /\ leg \in Calendar!Leg /\ Calendar!NextAfter(leg.near, day) /\ n \in 1 .. 4
      /\ Calendar!Record(leg, Calendar!ClosingSide(leg), job[p].why) /\ job[p].why \in Calendar!Reasons
  BY <1>1, <1>2, CalendarHeadFacts
<1>5. /\ \A i \in 1 .. n : s[i].role = Calendar!ROLES[4 - n + i]
      /\ Calendar!Balanced /\ Calendar!Held = {s[i] : i \in 1 .. n}
  BY <1>1, <1>2, <1>3 DEF Calendar!Whole, Calendar!Orderly, Calendar!LastRoles
<1>6. /\ n = 1 => job'[p] = Calendar!Rest
      /\ n # 1 => /\ job'[p].doing = "close"
                  /\ Len(job'[p].legs) = n - 1
                  /\ \A i \in 1 .. Len(job'[p].legs) : job'[p].legs[i] = s[i + 1]
  BY <1>1, <1>2, CalendarAfterLegFacts DEF Calendar!Doing
<1>7. leg \in Calendar!Held
  BY <1>4, <1>5
<1>8. Calendar!Held' = Calendar!Held \ {leg}
  <2> HIDE DEF leg
  <2> QED BY <1>3, <1>4, <1>5, <1>7, CalendarClosedFacts
<1>9. leg = s[1]
  OBVIOUS
<1> HIDE DEF s, n, leg
<1>10. CASE n = 1
  <2>1. ~Calendar!Doing(p, "close")'
    BY <1>6, <1>10 DEF Calendar!Doing, Calendar!Rest
  <2>2. Calendar!Held' = {}
    BY <1>5, <1>8, <1>9, <1>10
  <2> QED BY <2>1, <2>2 DEF Calendar!Whole
<1>11. CASE n # 1
  <2> DEFINE t == job'[p].legs
  <2>1. job'[p].doing = "close" /\ Len(t) = n - 1 /\ \A i \in 1 .. Len(t) : t[i] = s[i + 1]
    BY <1>6, <1>11
  <2>2. ~Calendar!Waits(p)' /\ n \in 2 .. 4
    BY <1>4, <1>11, <2>1 DEF Calendar!Waits
  <2>3. \A i \in 1 .. n - 1 : i + 1 \in 1 .. n /\ i + 1 # 1
    BY <2>2
  <2>4. ASSUME NEW i \in 1 .. n, i # 1 PROVE s[i] # leg /\ i - 1 \in 1 .. n - 1 /\ (i - 1) + 1 = i
    <3>1. 4 - n + i \in 1 .. 4 /\ 4 - n + 1 \in 1 .. 4 /\ 4 - n + i # 4 - n + 1
          /\ i - 1 \in 1 .. n - 1 /\ (i - 1) + 1 = i
      BY <2>2, <2>4
    <3>2. s[i].role = Calendar!ROLES[4 - n + i] /\ leg.role = Calendar!ROLES[4 - n + 1]
      BY <1>5, <1>9, <2>2
    <3> QED BY <3>1, <3>2, CalendarRolesDiffer
  <2>5. Calendar!Held' = {s[i + 1] : i \in 1 .. n - 1}
    BY <1>5, <1>8, <1>9, <2>3, <2>4
  <2>6. {s[i + 1] : i \in 1 .. n - 1} = {t[i] : i \in 1 .. Len(t)}
    BY <2>1
  <2>7. Calendar!Held' = {t[i] : i \in 1 .. Len(t)}
    BY <2>5, <2>6
  <2> QED BY <1>2, <2>2, <2>7 DEF Calendar!Whole
<1> QED BY <1>10, <1>11

LEMMA CalendarWholeStep ==
  ASSUME Calendar!Policy, Calendar!Types, Calendar!NearInv, Calendar!OrderInv, Calendar!WholeInv, Calendar!OrderInv', [Calendar!Next]_Calendar!vars
  PROVE  Calendar!WholeInv'
<1>1. ASSUME NEW p \in Calendar!Processes, Calendar!PlanEntry(p) PROVE Calendar!WholeInv'
  <2>1. UNCHANGED <<ledger, upsets>> /\ job[p] = Calendar!Rest /\ job \in [Calendar!Processes -> Calendar!Job]
        /\ \E legs : job' = [job EXCEPT ![p] = [doing |-> "planned", legs |-> legs, why |-> "entry"]]
    BY <1>1 DEF Calendar!PlanEntry, Calendar!Types
  <2>2. \A q \in Calendar!Processes : job'[q] = job[q] \/ (q = p /\ job'[q].doing = "planned")
    BY <2>1
  <2>3. \A q \in Calendar!Processes : job'[q] = job[q] \/ (Calendar!Waits(q) /\ Calendar!Waits(q)')
    BY <2>1, <2>2 DEF Calendar!Waits, Calendar!Rest
  <2> QED BY <2>1, <2>3, CalendarWholeFrame DEF Calendar!Good
<1>2. ASSUME NEW p \in Calendar!Processes, Calendar!Crash(p) PROVE Calendar!WholeInv'
  BY <1>2 DEF Calendar!Crash, Calendar!WholeInv, Calendar!Good
<1>3. CASE Calendar!Afternoon \/ UNCHANGED Calendar!vars \/ Calendar!NextDay
  <2>1. UNCHANGED <<ledger, job>> /\ (Calendar!Good' => Calendar!Good)
    BY <1>3 DEF Calendar!Afternoon, Calendar!NextDay, Calendar!vars, Calendar!Good
  <2> QED BY <2>1, CalendarWholeFrame
<1> QED
  BY <1>1, <1>2, <1>3, CalendarOpenStructureWhole, CalendarOpenLegWhole, CalendarCloseStructureWhole, CalendarCloseLegWhole
     DEF Calendar!Next

-----------------------------------------------------------------------------
(* The calendar's cycles.                                                  *)

\* What the ledger says of the cycle, when the ledger does not change.
LEMMA CalendarCycleSame ==
  ASSUME UNCHANGED <<ledger, cycleStart>>
  PROVE  /\ Calendar!SoldLast' = Calendar!SoldLast /\ Calendar!CallHeld' = Calendar!CallHeld
         /\ Calendar!AllEnded' = Calendar!AllEnded /\ Calendar!SoldAtStart' = Calendar!SoldAtStart
         /\ Calendar!Held' = Calendar!Held /\ Calendar!ShortCalls("SELL")' = Calendar!ShortCalls("SELL") /\ Calendar!RealCloses' = Calendar!RealCloses
<1>1. Calendar!Held' = Calendar!Held /\ \A l : Calendar!RowsOf(l, "SELL")' = Calendar!RowsOf(l, "SELL")
  BY CalendarHeldFrame, CalendarLedgerFrame
<1>2. Calendar!ShortCalls("SELL")' = Calendar!ShortCalls("SELL") /\ Calendar!RealCloses' = Calendar!RealCloses
  BY DEF Calendar!ShortCalls, Calendar!RealCloses, Calendar!IsRecentreClose
<1>3. Calendar!SoldLast' = Calendar!SoldLast
  BY <1>1 DEF Calendar!SoldLast
<1>4. Calendar!CallHeld' = Calendar!CallHeld
  BY <1>1 DEF Calendar!CallHeld
<1>5. Calendar!AllEnded' = Calendar!AllEnded /\ Calendar!SoldAtStart' = Calendar!SoldAtStart
  BY <1>2 DEF Calendar!AllEnded, Calendar!SoldAtStart
<1> QED BY <1>1, <1>2, <1>3, <1>4, <1>5

LEMMA CalendarCycleSameDay ==
  ASSUME UNCHANGED <<ledger, cycleStart, day>>
  PROVE  Calendar!CycleGoesOn' = Calendar!CycleGoesOn /\ Calendar!RecentredToday' = Calendar!RecentredToday
<1>1. Calendar!CycleGoesOn' = Calendar!CycleGoesOn
  BY CalendarCycleSame DEF Calendar!CycleGoesOn, Calendar!EntryWindow
<1>2. Calendar!RecentredToday' = Calendar!RecentredToday
  BY DEF Calendar!RecentredToday, Calendar!Todays, Calendar!IsRecentreClose, Calendar!IsCloseTrade, Calendar!ClosingSide
<1> QED BY <1>1, <1>2

\* Where nothing is written, no cycle begins and nobody begins to open.
LEMMA CalendarCycleFrame ==
  ASSUME Calendar!CycleInv, UNCHANGED <<ledger, cycleStart, day>>,
         Calendar!NoRace' => Calendar!NoRace, Calendar!Continuous' => Calendar!Continuous, Calendar!Opens' => Calendar!Opens,
         Calendar!Doing("monitor", "close")' => Calendar!Doing("monitor", "close") \/ Calendar!CallHeld
  PROVE  Calendar!CycleInv'
<1>1. Calendar!NoRace' => Calendar!SoldLast'
  BY CalendarCycleSame DEF Calendar!CycleInv
<1>2. Calendar!OwnInv'
  <2>1. SUFFICES ASSUME Calendar!Continuous PROVE Calendar!Continuous' => Calendar!OwnInv'
    BY DEF Calendar!OwnInv
  <2>2. Calendar!CallHeld' => Calendar!CycleGoesOn' /\ Calendar!SoldAtStart'
    BY <2>1, CalendarCycleSame, CalendarCycleSameDay DEF Calendar!CycleInv, Calendar!OwnInv
  <2>3. ASSUME ~Calendar!CallHeld', Calendar!Held' = {} \/ Calendar!Doing("monitor", "close")'
        PROVE  IF Calendar!Opens'
               THEN /\ Calendar!CycleGoesOn'
                    /\ \/ Calendar!AllEnded' /\ cycleStart' = day'
                       \/ Calendar!SoldAtStart' /\ Calendar!RecentredToday'
               ELSE Calendar!AllEnded' \/ (Calendar!CycleGoesOn' /\ Calendar!SoldAtStart' /\ Calendar!RecentredToday')
    <3>1. ~Calendar!CallHeld /\ (Calendar!Held = {} \/ Calendar!Doing("monitor", "close"))
      BY <2>3, CalendarCycleSame
    <3>2. IF Calendar!Opens
          THEN /\ Calendar!CycleGoesOn
               /\ \/ Calendar!AllEnded /\ cycleStart = day
                  \/ Calendar!SoldAtStart /\ Calendar!RecentredToday
          ELSE Calendar!AllEnded \/ (Calendar!CycleGoesOn /\ Calendar!SoldAtStart /\ Calendar!RecentredToday)
      BY <2>1, <3>1 DEF Calendar!CycleInv, Calendar!OwnInv
    <3> QED BY <3>2, CalendarCycleSame, CalendarCycleSameDay
  <2> QED BY <2>2, <2>3 DEF Calendar!OwnInv
<1> QED BY <1>1, <1>2 DEF Calendar!CycleInv

LEMMA CalendarNextDayCycle ==
  ASSUME Calendar!Types, Calendar!CycleInv, Calendar!NextDay
  PROVE  Calendar!CycleInv'
<1>1. /\ UNCHANGED <<ledger, job, cycleStart>> /\ day' = day + 1 /\ day \in Nat
      /\ \A p \in Calendar!Processes : job[p] = Calendar!Rest
      /\ (Calendar!NoRace' => Calendar!NoRace) /\ (Calendar!Continuous' => Calendar!Continuous /\ ~Calendar!Stranded)
  BY DEF Calendar!NextDay, Calendar!Types, Calendar!NoRace, Calendar!Continuous
<1>2. ~Calendar!Opens /\ ~Calendar!Opens' /\ ~Calendar!Doing("monitor", "close") /\ ~Calendar!Doing("monitor", "close")'
  BY <1>1 DEF Calendar!Opens, Calendar!Doing, Calendar!Rest, Calendar!Processes
<1>3. Calendar!NoRace' => Calendar!SoldLast'
  BY <1>1, CalendarCycleSame DEF Calendar!CycleInv
<1>4. ASSUME Calendar!Continuous' PROVE Calendar!CallHeld' => Calendar!CycleGoesOn' /\ Calendar!SoldAtStart'
  <2>1. Calendar!CallHeld' => Calendar!CycleGoesOn /\ Calendar!SoldAtStart
    BY <1>1, <1>4, CalendarCycleSame DEF Calendar!CycleInv, Calendar!OwnInv
  <2>2. Calendar!CycleGoesOn => Calendar!CycleGoesOn'
    BY <1>1, CalendarCycleSame DEF Calendar!CycleGoesOn, Calendar!EntryWindow
  <2> QED BY <1>1, <2>1, <2>2, CalendarCycleSame
<1>5. ASSUME Calendar!Continuous', Calendar!Held' = {} PROVE Calendar!AllEnded'
  <2>1. Calendar!Held = {} /\ ~Calendar!RecentredToday /\ Calendar!Continuous
    BY <1>1, <1>5, CalendarCycleSame DEF Calendar!Stranded, Calendar!RecentredToday
  <2>2. ~Calendar!CallHeld
    BY <2>1 DEF Calendar!CallHeld
  <2>3. Calendar!AllEnded
    BY <1>2, <2>1, <2>2 DEF Calendar!CycleInv, Calendar!OwnInv
  <2> QED BY <1>1, <2>3, CalendarCycleSame
<1> QED BY <1>2, <1>3, <1>4, <1>5 DEF Calendar!CycleInv, Calendar!OwnInv

\* A cycle origin is of a sale that no real close has ended.
LEMMA CalendarOriginNotEnded ==
  ASSUME Calendar!Types, Calendar!CycleOrigin(day) # 0
  PROVE  ~Calendar!AllEnded
<1> DEFINE closes == {r \in Calendar!ShortCalls("BUY") : ~Calendar!IsRecentreClose(r) /\ r.date <= day}
           lastClose == IF closes = {} THEN 0 ELSE Calendar!Max({r.date : r \in closes})
           sold == {r \in Calendar!ShortCalls("SELL") : r.date <= day /\ r.date > lastClose}
<1>1. sold # {}
  BY DEF Calendar!CycleOrigin
<1>2. PICK s \in Calendar!ShortCalls("SELL") : s.date > lastClose
  BY <1>1
<1>3. day \in Nat /\ \A r \in ledger : r.date \in Nat /\ r.date \in 1 .. day
  BY DEF Calendar!Types, Calendar!Row
<1>4. SUFFICES ASSUME NEW c \in Calendar!RealCloses, s.date <= c.date PROVE FALSE
  BY DEF Calendar!AllEnded
<1>5. c \in closes /\ c \in ledger /\ s \in ledger
  BY <1>3 DEF Calendar!RealCloses, Calendar!ShortCalls
<1> DEFINE dates == {r.date : r \in closes}
<1>6. dates \in SUBSET (1 .. day) /\ c.date \in dates
  BY <1>3, <1>5 DEF Calendar!ShortCalls
<1>7. lastClose = Calendar!Max(dates)
  BY <1>5
<1> HIDE DEF dates, lastClose, closes, sold
<1>8. c.date <= Calendar!Max(dates) /\ Calendar!Max(dates) \in 1 .. day
  BY <1>3, <1>6, CalendarMaxFacts
<1> QED BY <1>2, <1>3, <1>4, <1>5, <1>7, <1>8

\* Opening begins a cycle when nothing was traded today, and continues one when
\* the plan found its origin.
LEMMA CalendarOpenStructureCycle ==
  ASSUME Calendar!Policy, Calendar!Types, Calendar!OrderInv, Calendar!CycleInv, NEW p \in Calendar!Processes, Calendar!OpenStructure(p)
  PROVE  Calendar!CycleInv'
<1>1. /\ Calendar!Doing(p, "planned") /\ UNCHANGED <<ledger, day>> /\ job \in [Calendar!Processes -> Calendar!Job]
      /\ (Calendar!NoRace' => Calendar!NoRace) /\ (Calendar!Continuous' => Calendar!Continuous)
      /\ day \in Nat \ {0} /\ \A r \in ledger : r.date \in 1 .. day
  BY DEF Calendar!OpenStructure, Calendar!Types, Calendar!Doing, Calendar!NoRace, Calendar!Continuous, Calendar!Policy
<1>2. CASE Calendar!Held # {}
  <2>1. job' = [job EXCEPT ![p] = Calendar!Rest] /\ cycleStart' = cycleStart
    BY <1>2 DEF Calendar!OpenStructure
  <2>2. \A q \in Calendar!Processes : job'[q] = job[q] \/ job'[q].doing = "rest"
    BY <1>1, <2>1 DEF Calendar!Rest
  <2>3. (Calendar!Opens' => Calendar!Opens) /\ (Calendar!Doing("monitor", "close")' => Calendar!Doing("monitor", "close"))
    BY <2>2 DEF Calendar!Opens, Calendar!Doing, Calendar!Processes
  <2> QED BY <1>1, <2>1, <2>3, CalendarCycleFrame
<1>3. CASE Calendar!Held = {}
  <2>1. Calendar!Held' = {} /\ ~Calendar!CallHeld /\ ~Calendar!CallHeld'
    BY <1>1, <1>3, CalendarHeldFrame DEF Calendar!CallHeld
  <2>2. Calendar!SoldLast'
    BY <2>1 DEF Calendar!SoldLast
  <2>3. ASSUME Calendar!Continuous'
        PROVE  /\ Calendar!CycleGoesOn'
               /\ (Calendar!AllEnded' /\ cycleStart' = day') \/ (Calendar!SoldAtStart' /\ Calendar!RecentredToday')
    <3>1. /\ Calendar!NoRace' /\ Calendar!NoRace /\ Calendar!Orderly
      BY <1>1, <2>3 DEF Calendar!Continuous, Calendar!NoRace, Calendar!OrderInv
    <3>2. ~Calendar!Opens
      <4>1. \A q \in Calendar!Processes \ {p} : ~Calendar!Doing(q, "open")
        BY <1>3, <3>1 DEF Calendar!OpenStructure, Calendar!NoRace, Calendar!Doing
      <4> QED BY <1>1, <4>1 DEF Calendar!Opens, Calendar!Doing
    <3>3. Calendar!MayEnter /\ Calendar!PlanDay # 0
      BY <1>1, <1>3, <3>1 DEF Calendar!Orderly, Calendar!MayEnter
    <3>4. Calendar!AllEnded \/ (Calendar!CycleGoesOn /\ Calendar!SoldAtStart /\ Calendar!RecentredToday)
      BY <1>1, <1>3, <2>1, <2>3, <3>2 DEF Calendar!CycleInv, Calendar!OwnInv
    <3>5. CASE Calendar!Todays = {}
      <4>1. cycleStart' = day /\ Calendar!EntryWindow(day)
        BY <1>3, <3>3, <3>5 DEF Calendar!OpenStructure, Calendar!PlanDay
      <4>2. Calendar!AllEnded
        BY <3>4, <3>5 DEF Calendar!RecentredToday
      <4>3. \A r \in ledger : r.date < day
        BY <1>1, <3>5 DEF Calendar!Todays
      <4>4. /\ Calendar!ShortCalls("SELL")' = Calendar!ShortCalls("SELL") /\ Calendar!ShortCalls("BUY")' = Calendar!ShortCalls("BUY")
            /\ Calendar!RealCloses' = Calendar!RealCloses
        BY <1>1 DEF Calendar!ShortCalls, Calendar!RealCloses, Calendar!IsRecentreClose
      <4>5. \A c \in Calendar!RealCloses' : c.date < cycleStart'
        BY <4>1, <4>3, <4>4 DEF Calendar!RealCloses, Calendar!ShortCalls
      <4>6. Calendar!AllEnded'
        BY <4>2, <4>4 DEF Calendar!AllEnded
      <4>7. cycleStart' \in 1 .. day' /\ Calendar!EntryWindow(cycleStart)'
        BY <1>1, <4>1 DEF Calendar!EntryWindow
      <4> QED BY <1>1, <4>1, <4>5, <4>6, <4>7 DEF Calendar!CycleGoesOn, Calendar!AllEnded
    <3>6. CASE Calendar!Todays # {}
      <4>1. cycleStart' = cycleStart
        BY <1>3, <3>6 DEF Calendar!OpenStructure
      <4>2. Calendar!CycleOrigin(day) # 0
        BY <3>3, <3>6 DEF Calendar!PlanDay
      <4>3. Calendar!CycleGoesOn /\ Calendar!SoldAtStart /\ Calendar!RecentredToday
        BY <3>4, <4>2, CalendarOriginNotEnded
      <4> QED BY <1>1, <4>1, <4>3, CalendarCycleSame, CalendarCycleSameDay
    <3> QED BY <3>5, <3>6
  <2>4. Calendar!Opens'
    <3>1. job'[p].doing = "open"
      BY <1>1, <1>3 DEF Calendar!OpenStructure, Calendar!Job
    <3> QED BY <3>1 DEF Calendar!Opens, Calendar!Doing
  <2> QED BY <2>1, <2>2, <2>3, <2>4 DEF Calendar!CycleInv, Calendar!OwnInv
<1> QED BY <1>2, <1>3

\* What is about to be closed has its call.
LEMMA CalendarCloseStructureCycle ==
  ASSUME Calendar!Policy, Calendar!Types, Calendar!NearInv, Calendar!CycleInv, Calendar!CloseStructure
  PROVE  Calendar!CycleInv'
<1>1. /\ job["monitor"] = Calendar!Rest /\ UNCHANGED <<ledger, day, cycleStart, upsets>>
      /\ job \in [Calendar!Processes -> Calendar!Job]
  BY DEF Calendar!CloseStructure, Calendar!Types
<1>2. \E j : j.doing = "close" /\ job' = [job EXCEPT !["monitor"] = j]
  BY DEF Calendar!CloseStructure
<1>3. Calendar!Opens' => Calendar!Opens
  BY <1>1, <1>2 DEF Calendar!Opens, Calendar!Doing, Calendar!Processes
<1>4. Calendar!CallHeld
  <2>1. PICK legs \in Calendar!Resolved : TRUE
    BY DEF Calendar!CloseStructure
  <2>2. legs \subseteq Calendar!Held /\ "short_call" \in {l.role : l \in legs}
    <3>1. Calendar!ROLES[1] \in Calendar!Roles /\ Calendar!ROLES[1] = "short_call"
      BY DEF Calendar!Roles, Calendar!ROLES
    <3> QED BY <3>1 DEF Calendar!Resolved
  <2> QED BY <2>2 DEF Calendar!CallHeld
<1> QED BY <1>1, <1>3, <1>4, CalendarCycleFrame DEF Calendar!NoRace, Calendar!Continuous

\* A closing row is no sale of a short.
LEMMA CalendarClosingIsNoSale ==
  \A l : l.role \in Calendar!Shorts => Calendar!OpeningSide(l) = "SELL" /\ Calendar!ClosingSide(l) = "BUY"
BY DEF Calendar!OpeningSide, Calendar!ClosingSide

\* The first leg that is opened is the call of the cycle; another leg leaves the
\* call as it is.
LEMMA CalendarOpenLegCycle ==
  ASSUME Calendar!Policy, Calendar!Types, Calendar!OrderInv, Calendar!CycleInv, NEW p \in Calendar!Processes, Calendar!OpenLeg(p)
  PROVE  Calendar!CycleInv'
<1> DEFINE s == job[p].legs
           n == Len(s)
           leg == s[1]
<1>1. /\ job[p].doing = "open" /\ Calendar!Doing(p, "open") /\ ~Calendar!Doing(p, "rest")
      /\ Calendar!Record(Head(s), Calendar!OpeningSide(Head(s)), "entry") /\ Calendar!AfterLeg(p)
      /\ UNCHANGED <<day, afternoon, plans, failures, cycleStart, upsets>>
  BY DEF Calendar!OpenLeg, Calendar!Doing
<1>2. SUFFICES ASSUME Calendar!NoRace, Calendar!Orderly PROVE Calendar!SoldLast' /\ (Calendar!Continuous => Calendar!OwnInv')
  BY <1>1 DEF Calendar!CycleInv, Calendar!OwnInv, Calendar!OrderInv, Calendar!NoRace, Calendar!Continuous
<1>3. /\ Head(s) = leg /\ leg \in Calendar!Leg /\ Calendar!NextAfter(leg.near, day) /\ n \in 1 .. 4
      /\ Calendar!Record(leg, Calendar!OpeningSide(leg), "entry")
  BY <1>1, CalendarHeadFacts
<1>4. /\ \A i \in 1 .. n : s[i].role = Calendar!ROLES[4 - n + i]
      /\ \A i \in 1 .. n : ~\E r \in ledger : /\ r.date = day /\ r.leg = s[i]
                                              /\ r.action = Calendar!OpeningSide(s[i])
      /\ Calendar!FirstRoles(4 - n) /\ Calendar!Balanced
      /\ \A l \in Calendar!Held : \E r \in Calendar!RowsOf(l, Calendar!OpeningSide(l)) : r.date = day
  BY <1>1, <1>2 DEF Calendar!Orderly, Calendar!LastRoles, Calendar!Untraded
<1>5. leg = s[1] /\ leg.role = Calendar!ROLES[4 - n + 1]
  <2> HIDE DEF s, n
  <2> QED BY <1>3, <1>4
<1> HIDE DEF s, n, leg
<1>6. /\ leg \notin Calendar!Held /\ 4 - n + 1 \in 1 .. 4
      /\ ~\E r \in ledger : r.date = day /\ r.leg = leg /\ r.action = Calendar!OpeningSide(leg)
  <2>1. \A m \in Calendar!Held : \E i \in 1 .. 4 - n : m.role = Calendar!ROLES[i]
    BY <1>4 DEF Calendar!FirstRoles
  <2>2. \A i \in 1 .. 4 - n : i \in 1 .. 4 /\ i # 4 - n + 1 /\ 4 - n + 1 \in 1 .. 4
    BY <1>3
  <2>3. leg \notin Calendar!Held
    BY <1>5, <2>1, <2>2, CalendarRolesDiffer
  <2>4. 4 - n + 1 \in 1 .. 4 /\ 1 \in 1 .. n
    BY <1>3
  <2> QED BY <1>4, <1>5, <2>3, <2>4
<1>7. /\ Calendar!Held' = Calendar!Held \cup {leg} /\ ledger \subseteq ledger'
      /\ \A r \in ledger' : r \in ledger \/ (r.leg = leg /\ r.action = Calendar!OpeningSide(leg) /\ r.date = day)
      /\ \E r \in ledger' : r.leg = leg /\ r.action = Calendar!OpeningSide(leg) /\ r.date = day
  BY <1>3, <1>4, <1>6, CalendarOpenedFacts
<1>8. day \in Nat /\ \A r \in ledger' : r.date \in 1 .. day
  BY <1>1, <1>7 DEF Calendar!Types, Calendar!Row
<1>9. Calendar!SoldLast'
  <2>1. \A l \in Calendar!Held' : \E r \in ledger' : r.leg = l /\ r.action = Calendar!OpeningSide(l) /\ r.date = day
    BY <1>4, <1>7 DEF Calendar!RowsOf
  <2>2. \A r \in ledger' : r.date <= day
    BY <1>8
  <2>3. ASSUME NEW l \in Calendar!Held', l.role \in Calendar!Shorts
        PROVE  \E r \in Calendar!RowsOf(l, "SELL")' : \A t \in ledger' :
                  t.leg.role \in Calendar!Shorts /\ t.action = "SELL" => t.date <= r.date
    <3>1. PICK r \in ledger' : r.leg = l /\ r.action = "SELL" /\ r.date = day
      BY <2>1, <2>3, CalendarClosingIsNoSale
    <3> QED BY <2>2, <3>1 DEF Calendar!RowsOf
  <2> QED BY <2>3 DEF Calendar!SoldLast
<1>10. Calendar!ShortCalls("BUY")' = Calendar!ShortCalls("BUY") /\ Calendar!RealCloses' = Calendar!RealCloses
  <2>1. \A r \in ledger' : r.leg.role = "short_call" /\ r.action = "BUY" => r \in ledger
    BY <1>7, CalendarClosingIsNoSale DEF Calendar!Shorts
  <2>2. Calendar!ShortCalls("BUY")' = Calendar!ShortCalls("BUY")
    BY <1>7, <2>1 DEF Calendar!ShortCalls
  <2> QED BY <2>2 DEF Calendar!RealCloses, Calendar!IsRecentreClose
<1>11. ASSUME Calendar!Continuous PROVE Calendar!OwnInv'
  <2>1. CASE n = 4
    <3>1. leg.role = "short_call"
      <4>1. 4 - n + 1 = 1
        BY <2>1
      <4> QED BY <1>5, <4>1 DEF Calendar!ROLES
    <3>2. Calendar!CallHeld' /\ ~Calendar!CallHeld /\ Calendar!Held = {}
      <4>1. 1 .. (4 - n) = {}
        BY <2>1
      <4>2. Calendar!Held = {}
        BY <1>4, <4>1 DEF Calendar!FirstRoles
      <4> QED BY <1>7, <3>1, <4>2 DEF Calendar!CallHeld
    <3>3. /\ Calendar!CycleGoesOn
          /\ (Calendar!AllEnded /\ cycleStart = day) \/ (Calendar!SoldAtStart /\ Calendar!RecentredToday)
      BY <1>1, <1>11, <3>2 DEF Calendar!CycleInv, Calendar!OwnInv, Calendar!Opens
    <3>4. \A t \in Calendar!ShortCalls("SELL")' : t \in Calendar!ShortCalls("SELL") \/ t.date = day
      BY <1>7 DEF Calendar!ShortCalls
    <3>5. Calendar!CycleGoesOn'
      <4>1. cycleStart \in 1 .. day /\ Calendar!EntryWindow(cycleStart)
        BY <3>3 DEF Calendar!CycleGoesOn
      <4>2. \A t \in Calendar!ShortCalls("SELL")' : t.date < cycleStart => t \in Calendar!ShortCalls("SELL")
        BY <1>8, <3>4, <4>1
      <4>3. \A t \in Calendar!ShortCalls("SELL")' :
              t.date < cycleStart => \E c \in Calendar!RealCloses' : t.date <= c.date
        BY <1>10, <3>3, <4>2 DEF Calendar!CycleGoesOn
      <4>4. \A c \in Calendar!RealCloses' : c.date < cycleStart
        BY <1>10, <3>3 DEF Calendar!CycleGoesOn
      <4>5. UNCHANGED <<cycleStart, day>>
        BY <1>1
      <4> QED BY <4>1, <4>3, <4>4, <4>5 DEF Calendar!CycleGoesOn, Calendar!EntryWindow
    <3>6. Calendar!SoldAtStart'
      <4>1. \E t \in ledger' : t.leg.role = "short_call" /\ t.action = "SELL" /\ t.date = day
        BY <1>7, <3>1, CalendarClosingIsNoSale DEF Calendar!Shorts
      <4>2. \E t \in ledger' : t.leg.role = "short_call" /\ t.action = "SELL" /\ t.date = cycleStart
        BY <1>7, <3>3, <4>1 DEF Calendar!SoldAtStart, Calendar!ShortCalls
      <4> QED BY <1>1, <4>2 DEF Calendar!SoldAtStart, Calendar!ShortCalls
    <3> QED BY <3>2, <3>5, <3>6 DEF Calendar!OwnInv
  <2>2. CASE n # 4
    <3>1. Calendar!CallHeld /\ leg.role # "short_call"
      <4>1. 1 \in 1 .. 4 - n /\ 4 - n + 1 # 1 /\ 1 \in 1 .. 4
        BY <1>3, <2>2
      <4>2. \E l \in Calendar!Held : l.role = Calendar!ROLES[1]
        BY <1>4, <4>1 DEF Calendar!FirstRoles
      <4>3. leg.role # Calendar!ROLES[1] /\ Calendar!ROLES[1] = "short_call"
        BY <1>5, <1>6, <4>1, CalendarRolesDiffer DEF Calendar!ROLES
      <4> QED BY <4>2, <4>3 DEF Calendar!CallHeld
    <3>2. Calendar!CallHeld'
      BY <1>7, <3>1 DEF Calendar!CallHeld
    <3>3. Calendar!CycleGoesOn /\ Calendar!SoldAtStart
      BY <1>11, <3>1 DEF Calendar!CycleInv, Calendar!OwnInv
    <3>4. Calendar!ShortCalls("SELL")' = Calendar!ShortCalls("SELL")
      BY <1>7, <3>1 DEF Calendar!ShortCalls
    <3>5. Calendar!CycleGoesOn' /\ Calendar!SoldAtStart'
      BY <1>1, <1>10, <3>3, <3>4 DEF Calendar!CycleGoesOn, Calendar!SoldAtStart, Calendar!EntryWindow
    <3> QED BY <3>2, <3>5 DEF Calendar!OwnInv
  <2> QED BY <2>1, <2>2
<1> QED BY <1>9, <1>11

\* Closing the call ends the cycle, or re-centres it; closing another leg leaves
\* the cycle as it is, and so does a close that is dropped.
LEMMA CalendarCloseLegCycle ==
  ASSUME Calendar!Policy, Calendar!Types, Calendar!OrderInv, Calendar!CycleInv, Calendar!CloseLeg
  PROVE  Calendar!CycleInv'
<1> DEFINE p == "monitor"
           s == job[p].legs
           leg == s[1]
           why == job[p].why
<1>1. /\ Calendar!Doing(p, "close") /\ ~Calendar!Doing(p, "rest") /\ Calendar!AfterLeg(p)
      /\ Calendar!Record(Head(s), Calendar!ClosingSide(Head(s)), why)
      /\ UNCHANGED <<day, afternoon, plans, failures, cycleStart>>
  BY DEF Calendar!CloseLeg, Calendar!Doing
<1>2. p \in Calendar!Processes /\ "script" \in Calendar!Processes
      /\ \A q \in Calendar!Processes : q = p \/ q = "script"
  BY DEF Calendar!Processes
<1>3. Calendar!NoRace' => Calendar!NoRace
  BY DEF Calendar!CloseLeg, Calendar!NoRace
<1>4. Calendar!Continuous' => Calendar!NoRace'
  BY DEF Calendar!Continuous, Calendar!NoRace
<1>5. SUFFICES ASSUME Calendar!NoRace, Calendar!Orderly PROVE Calendar!SoldLast' /\ (Calendar!Continuous' => Calendar!OwnInv')
  BY <1>3, <1>4 DEF Calendar!CycleInv, Calendar!OwnInv, Calendar!OrderInv
<1>6. /\ Head(s) = leg /\ leg \in Calendar!Leg /\ Calendar!NextAfter(leg.near, day) /\ Len(s) \in 1 .. 4
      /\ Calendar!Record(leg, Calendar!ClosingSide(leg), why) /\ why \in Calendar!Reasons
      /\ Calendar!ClosingSide(leg) \in {"BUY", "SELL"}
  BY <1>1, <1>2, CalendarHeadFacts
<1>7. /\ Calendar!Balanced /\ Calendar!OnePerRole /\ leg \in Calendar!Held
      /\ Calendar!Doing("script", "rest") /\ why # "entry"
  BY <1>1, <1>5, <1>6 DEF Calendar!Orderly
<1>8. /\ job'["script"] = job["script"] /\ job'[p].doing \in {"rest", "close"}
  BY <1>1, <1>2, CalendarAfterLegFacts DEF Calendar!Doing, Calendar!Rest
<1>9. ~Calendar!Opens /\ ~Calendar!Opens'
  BY <1>1, <1>2, <1>7, <1>8 DEF Calendar!Opens, Calendar!Doing
<1>10. /\ \/ ledger' # ledger /\ Calendar!EndsCycle(leg, why)
          \/ Calendar!Continuous' => Calendar!Continuous
       /\ upsets' \subseteq upsets \cup {"dropped"}
  BY <1>6 DEF Calendar!CloseLeg, Calendar!Continuous
<1> HIDE DEF s, leg, why
<1>11. CASE ledger' = ledger
  <2>1. Calendar!CycleInv'
    BY <1>1, <1>3, <1>9, <1>10, <1>11, CalendarCycleFrame
  <2>2. Calendar!NoRace'
    BY <1>5, <1>10 DEF Calendar!NoRace
  <2> QED BY <2>1, <2>2 DEF Calendar!CycleInv
<1>12. CASE ledger' # ledger
  <2>1. Calendar!Held' = Calendar!Held \ {leg}
    BY <1>6, <1>7, <1>12, CalendarClosedFacts
  <2> DEFINE new == [leg |-> leg, date |-> day, action |-> Calendar!ClosingSide(leg), why |-> why]
  <2>2. ledger' = ledger \cup {new}
    BY <1>6, <1>12 DEF Calendar!Record
  <2>3. new.leg = leg /\ new.date = day /\ new.action = Calendar!ClosingSide(leg) /\ new.why = why
    OBVIOUS
  <2> HIDE DEF new
  <2>4. \A r \in ledger' : r.leg.role \in Calendar!Shorts /\ r.action = "SELL" => r \in ledger
    BY <2>2, <2>3, CalendarClosingIsNoSale
  <2>5. day \in Nat /\ \A r \in ledger : r.date \in Nat /\ r.date \in 1 .. day
    BY DEF Calendar!Types, Calendar!Row
  <2>6. Calendar!SoldLast'
    <3>1. Calendar!SoldLast
      BY <1>5 DEF Calendar!CycleInv
    <3>2. \A l \in Calendar!Held' : l.role \in Calendar!Shorts =>
            \E r \in Calendar!RowsOf(l, "SELL")' :
              \A t \in ledger' : t.leg.role \in Calendar!Shorts /\ t.action = "SELL" => t.date <= r.date
      BY <2>1, <2>2, <2>4, <3>1 DEF Calendar!SoldLast, Calendar!RowsOf
    <3> QED BY <3>2 DEF Calendar!SoldLast
  <2>7. Calendar!ShortCalls("SELL")' = Calendar!ShortCalls("SELL")
    BY <2>2, <2>4 DEF Calendar!ShortCalls, Calendar!Shorts
  <2>8. ASSUME leg.role = "short_call", why = "close" PROVE Calendar!OwnInv'
    <3>1. ~Calendar!CallHeld'
      BY <1>7, <2>1, <2>8 DEF Calendar!CallHeld, Calendar!OnePerRole
    <3>2. new \in Calendar!RealCloses'
      <4>1. new.action = "BUY"
        BY <2>3, <2>8, CalendarClosingIsNoSale DEF Calendar!Shorts
      <4> QED BY <2>2, <2>3, <2>8, <4>1 DEF Calendar!RealCloses, Calendar!ShortCalls, Calendar!IsRecentreClose
    <3>3. Calendar!AllEnded'
      <4>1. \A t \in Calendar!ShortCalls("SELL")' : t.date <= new.date
        BY <2>3, <2>5, <2>7 DEF Calendar!ShortCalls
      <4> QED BY <3>2, <4>1 DEF Calendar!AllEnded
    <3> QED BY <1>9, <3>1, <3>3 DEF Calendar!OwnInv
  <2>9. ASSUME ~(leg.role = "short_call" /\ why = "close"), Calendar!Continuous' PROVE Calendar!OwnInv'
    <3>1. Calendar!Continuous
      BY <1>10, <2>9 DEF Calendar!EndsCycle
    <3>2. Calendar!RealCloses' = Calendar!RealCloses
      <4>1. ~(new.leg.role = "short_call" /\ ~Calendar!IsRecentreClose(new))
        BY <1>6, <1>7, <2>3, <2>9 DEF Calendar!IsRecentreClose, Calendar!Reasons
      <4> QED BY <2>2, <4>1 DEF Calendar!RealCloses, Calendar!ShortCalls, Calendar!IsRecentreClose
    <3>3. /\ Calendar!CycleGoesOn' = Calendar!CycleGoesOn /\ Calendar!SoldAtStart' = Calendar!SoldAtStart /\ Calendar!AllEnded' = Calendar!AllEnded
      BY <1>1, <2>7, <3>2 DEF Calendar!CycleGoesOn, Calendar!SoldAtStart, Calendar!AllEnded, Calendar!EntryWindow
    <3>4. CASE leg.role = "short_call"
      <4>1. Calendar!CallHeld /\ ~Calendar!CallHeld'
        BY <1>7, <2>1, <3>4 DEF Calendar!CallHeld, Calendar!OnePerRole
      <4>2. Calendar!CycleGoesOn /\ Calendar!SoldAtStart
        BY <3>1, <4>1 DEF Calendar!CycleInv, Calendar!OwnInv
      <4>3. why = "recentre"
        BY <1>6, <1>7, <2>9, <3>4 DEF Calendar!Reasons
      <4>4. \E r \in ledger' : r.date = day /\ r.why = "recentre" /\ r.action = Calendar!ClosingSide(r.leg)
        BY <2>2, <2>3, <4>3
      <4>5. Calendar!RecentredToday'
        BY <1>1, <4>4 DEF Calendar!RecentredToday, Calendar!Todays, Calendar!IsRecentreClose, Calendar!IsCloseTrade, Calendar!ClosingSide
      <4> QED BY <1>9, <3>3, <4>1, <4>2, <4>5 DEF Calendar!OwnInv
    <3>5. CASE leg.role # "short_call"
      <4>1. Calendar!CallHeld' = Calendar!CallHeld
        BY <2>1, <3>5 DEF Calendar!CallHeld
      <4>2. Calendar!RecentredToday => Calendar!RecentredToday'
        BY <1>1, <2>2 DEF Calendar!RecentredToday, Calendar!Todays, Calendar!IsRecentreClose, Calendar!IsCloseTrade, Calendar!ClosingSide
      <4>3. /\ Calendar!CallHeld => Calendar!CycleGoesOn /\ Calendar!SoldAtStart
            /\ ~Calendar!CallHeld => Calendar!AllEnded \/ (Calendar!CycleGoesOn /\ Calendar!SoldAtStart /\ Calendar!RecentredToday)
        BY <1>1, <1>9, <3>1 DEF Calendar!CycleInv, Calendar!OwnInv
      <4> QED BY <1>9, <3>3, <4>1, <4>2, <4>3 DEF Calendar!OwnInv
    <3> QED BY <3>4, <3>5
  <2> QED BY <2>6, <2>8, <2>9
<1> QED BY <1>11, <1>12

LEMMA CalendarCycleStep ==
  ASSUME Calendar!Policy, Calendar!Types, Calendar!NearInv, Calendar!OrderInv, Calendar!CycleInv, [Calendar!Next]_Calendar!vars
  PROVE  Calendar!CycleInv'
<1>1. ASSUME NEW p \in Calendar!Processes, Calendar!PlanEntry(p) PROVE Calendar!CycleInv'
  <2>1. UNCHANGED <<ledger, day, cycleStart, upsets>> /\ job \in [Calendar!Processes -> Calendar!Job]
        /\ \E j : j.doing = "planned" /\ job' = [job EXCEPT ![p] = j]
    BY <1>1 DEF Calendar!PlanEntry, Calendar!Types
  <2>2. \A q \in Calendar!Processes : job'[q] = job[q] \/ job'[q].doing = "planned"
    BY <2>1
  <2>3. (Calendar!Opens' => Calendar!Opens) /\ (Calendar!Doing("monitor", "close")' => Calendar!Doing("monitor", "close"))
    BY <2>2 DEF Calendar!Opens, Calendar!Doing, Calendar!Processes
  <2> QED BY <2>1, <2>3, CalendarCycleFrame DEF Calendar!NoRace, Calendar!Continuous
<1>2. ASSUME NEW p \in Calendar!Processes, Calendar!Crash(p) PROVE Calendar!CycleInv'
  <2>1. /\ UNCHANGED <<ledger, day, cycleStart>> /\ (Calendar!NoRace' => Calendar!NoRace)
        /\ (Calendar!Continuous' => Calendar!Continuous)
    BY <1>2 DEF Calendar!Crash, Calendar!NoRace, Calendar!Continuous
  <2>2. \A q \in Calendar!Processes : job'[q] = job[q] \/ job'[q].doing = "rest"
    BY <1>2 DEF Calendar!Crash, Calendar!Types, Calendar!Rest
  <2>3. (Calendar!Opens' => Calendar!Opens) /\ (Calendar!Doing("monitor", "close")' => Calendar!Doing("monitor", "close"))
    BY <2>2 DEF Calendar!Opens, Calendar!Doing, Calendar!Processes
  <2> QED BY <2>1, <2>3, CalendarCycleFrame
<1>3. CASE Calendar!Afternoon \/ UNCHANGED Calendar!vars
  <2>1. UNCHANGED <<ledger, job, day, cycleStart, upsets>>
    BY <1>3 DEF Calendar!Afternoon, Calendar!vars
  <2>2. (Calendar!Opens' => Calendar!Opens) /\ (Calendar!Doing("monitor", "close")' => Calendar!Doing("monitor", "close"))
    BY <2>1 DEF Calendar!Opens, Calendar!Doing
  <2> QED BY <2>1, <2>2, CalendarCycleFrame DEF Calendar!NoRace, Calendar!Continuous
<1> QED
  BY <1>1, <1>2, <1>3, CalendarOpenStructureCycle, CalendarOpenLegCycle, CalendarCloseStructureCycle, CalendarCloseLegCycle,
     CalendarNextDayCycle DEF Calendar!Next

LEMMA CalendarInvInit ==
  ASSUME Calendar!Policy, Calendar!Init
  PROVE  Calendar!Inv
<1>1. Calendar!Types
  <2>1. job \in [Calendar!Processes -> Calendar!Job] /\ \A p \in Calendar!Processes : job[p] = Calendar!Rest
    BY CalendarRestIsJob DEF Calendar!Init
  <2>2. "script" \in Calendar!Processes
    BY DEF Calendar!Processes
  <2>3. Calendar!IsFiniteSet(ledger)
    BY Calendar!FS_EmptySet DEF Calendar!Init
  <2>4. /\ ledger = {} /\ day = 1 /\ afternoon = FALSE /\ plans = 0 /\ failures = 0
        /\ cycleStart = 0 /\ upsets = {}
    BY DEF Calendar!Init
  <2>5. /\ day \in 1 .. FinalDay /\ plans \in 0 .. MaxPlans /\ failures \in 0 .. MaxFailures
        /\ cycleStart \in 0 .. FinalDay
    BY <2>4 DEF Calendar!Policy
  <2>6. /\ \A p \in Calendar!Processes : Calendar!Doing(p, "rest")
        /\ ~Calendar!Doing("script", "close")
    BY <2>1, <2>2 DEF Calendar!Doing, Calendar!Rest
  <2> QED BY <2>1, <2>3, <2>4, <2>5, <2>6 DEF Calendar!Types
<1>2. Calendar!Held = {} /\ \A l, a : Calendar!RowsOf(l, a) = {}
  BY DEF Calendar!Init, Calendar!Held, Calendar!RowsOf
<1>3. \A p \in Calendar!Processes : job[p].doing = "rest"
  BY DEF Calendar!Init, Calendar!Rest
<1>4. Calendar!NearInv
  <2>1. \A legs \in Calendar!Resolved : legs = {}
    BY <1>2 DEF Calendar!Resolved
  <2> QED BY <1>2, <1>3, <2>1 DEF Calendar!NearInv
<1>5. Calendar!OrderInv /\ Calendar!WholeInv
  <2>1. Calendar!Balanced /\ Calendar!OnePerRole
    BY <1>2 DEF Calendar!Balanced, Calendar!OnePerRole
  <2> QED BY <1>2, <1>3, <2>1 DEF Calendar!OrderInv, Calendar!Orderly, Calendar!WholeInv, Calendar!Whole, Calendar!Doing, Calendar!Processes
<1>6. Calendar!CycleInv
  <2>1. Calendar!ShortCalls("SELL") = {}
    BY DEF Calendar!Init, Calendar!ShortCalls
  <2>2. Calendar!AllEnded /\ ~Calendar!CallHeld /\ Calendar!SoldLast /\ ~Calendar!Opens
    BY <1>2, <1>3, <2>1 DEF Calendar!AllEnded, Calendar!CallHeld, Calendar!SoldLast, Calendar!Opens, Calendar!Doing
  <2> QED BY <2>2 DEF Calendar!CycleInv, Calendar!OwnInv
<1> QED BY <1>1, <1>4, <1>5, <1>6 DEF Calendar!Inv

\* The last sale of a held short is the last sale of any.
LEMMA CalendarLastSale ==
  ASSUME Calendar!Types, Calendar!SoldLast, NEW l \in Calendar!Held, l.role \in Calendar!Shorts
  PROVE  LET last == Calendar!Max({r.date : r \in Calendar!RowsOf(l, "SELL")})
         IN  /\ last \in 1 .. day
             /\ \A s \in ledger : s.leg.role \in Calendar!Shorts /\ s.action = "SELL" => s.date <= last
<1> DEFINE dates == {r.date : r \in Calendar!RowsOf(l, "SELL")}
<1>1. PICK r \in Calendar!RowsOf(l, "SELL") :
        \A s \in ledger : s.leg.role \in Calendar!Shorts /\ s.action = "SELL" => s.date <= r.date
  BY DEF Calendar!SoldLast
<1>2. day \in Nat /\ \A t \in ledger : t.date \in Nat /\ t.date \in 1 .. day
  BY DEF Calendar!Types, Calendar!Row
<1>3. dates \in SUBSET (1 .. day) /\ r.date \in dates
  BY <1>2 DEF Calendar!RowsOf
<1> HIDE DEF dates
<1>4. Calendar!Max(dates) \in 1 .. day /\ r.date <= Calendar!Max(dates)
  BY <1>2, <1>3, CalendarMaxFacts
<1>5. \A s \in ledger : s.leg.role \in Calendar!Shorts /\ s.action = "SELL" => s.date <= Calendar!Max(dates)
  <2> DEFINE m == Calendar!Max(dates)
  <2>3. m \in 1 .. day /\ r.date <= m
    BY <1>4
  <2> HIDE DEF m
  <2>4. day \in Nat /\ r.date \in 1 .. day
    BY <1>2, <1>3
  <2>1. m \in Nat /\ r.date \in Nat /\ r.date <= m
    BY <2>3, <2>4
  <2>2. \A s \in ledger : s.leg.role \in Calendar!Shorts /\ s.action = "SELL" => s.date <= m
    BY <1>1, <1>2, <2>1
  <2> QED BY <2>2 DEF m
<1> QED BY <1>4, <1>5 DEF dates

\* A whole structure is entered no earlier than any short was sold.
LEMMA CalendarEntryIsLast ==
  ASSUME Calendar!Policy, Calendar!Types, Calendar!NearInv, Calendar!SoldLast, NEW legs \in Calendar!Resolved
  PROVE  /\ Calendar!EntryDate(legs) \in 1 .. day
         /\ \A s \in Calendar!ShortCalls("SELL") : s.date <= Calendar!EntryDate(legs)
<1> DEFINE shorts == {l \in legs : l.role \in Calendar!Shorts}
           last(leg) == Calendar!Max({r.date : r \in Calendar!RowsOf(leg, "SELL")})
           dates == {last(leg) : leg \in shorts}
<1>1. \A l \in shorts : l \in Calendar!Held /\ l.role \in Calendar!Shorts
  BY DEF Calendar!Resolved
<1>2. \A l \in shorts : /\ last(l) \in 1 .. day
                        /\ \A s \in ledger : s.leg.role \in Calendar!Shorts /\ s.action = "SELL" => s.date <= last(l)
  BY <1>1, CalendarLastSale
<1>3. shorts # {}
  <2>1. "short_call" \in Calendar!Roles /\ "short_call" \in Calendar!Shorts
    <3>1. Calendar!ROLES[1] \in Calendar!Roles /\ Calendar!ROLES[1] = "short_call"
      BY DEF Calendar!Roles, Calendar!ROLES
    <3> QED BY <3>1 DEF Calendar!Shorts
  <2>2. {l.role : l \in legs} = Calendar!Roles
    BY DEF Calendar!Resolved
  <2> QED BY <2>1, <2>2
<1>4. Calendar!EntryDate(legs) = Calendar!Min(dates)
  BY DEF Calendar!EntryDate
<1>5. \A s \in Calendar!ShortCalls("SELL") : s \in ledger /\ s.leg.role \in Calendar!Shorts /\ s.action = "SELL"
  BY DEF Calendar!ShortCalls, Calendar!Shorts
<1> HIDE DEF last, shorts
<1>6. /\ dates \in SUBSET Nat /\ dates # {} /\ dates \subseteq 1 .. day
      /\ \A d \in dates, s \in Calendar!ShortCalls("SELL") : s.date <= d
  BY <1>2, <1>3, <1>5
<1> HIDE DEF dates
<1>7. Calendar!Min(dates) \in dates
  BY <1>6, CalendarMinFacts
<1> QED BY <1>4, <1>6, <1>7

\* The origin that is rebuilt is the day the cycle began.
LEMMA CalendarOriginIsOwn ==
  ASSUME Calendar!Types, Calendar!CycleGoesOn, Calendar!SoldAtStart, NEW entry \in 1 .. day,
         \A s \in Calendar!ShortCalls("SELL") : s.date <= entry
  PROVE  Calendar!CycleOrigin(entry) = cycleStart
<1> DEFINE closes == {r \in Calendar!ShortCalls("BUY") : ~Calendar!IsRecentreClose(r) /\ r.date <= entry}
           lastClose == IF closes = {} THEN 0 ELSE Calendar!Max({r.date : r \in closes})
           sold == {r \in Calendar!ShortCalls("SELL") : r.date <= entry /\ r.date > lastClose}
           dates == {r.date : r \in sold}
           ended == {r.date : r \in closes}
<1>1. /\ day \in Nat /\ cycleStart \in 1 .. day /\ Calendar!EntryWindow(cycleStart)
      /\ \A c \in Calendar!RealCloses : c.date < cycleStart
      /\ \A s \in Calendar!ShortCalls("SELL") :
            s.date < cycleStart => \E c \in Calendar!RealCloses : s.date <= c.date
  BY DEF Calendar!CycleGoesOn, Calendar!Types
<1>2. /\ \A r \in Calendar!ShortCalls("SELL") : r.date \in Nat /\ r.date \in 1 .. day
      /\ \A r \in Calendar!ShortCalls("BUY") : r.date \in Nat /\ r.date \in 1 .. day
  BY DEF Calendar!Types, Calendar!Row, Calendar!ShortCalls
<1>3. PICK first \in Calendar!ShortCalls("SELL") : first.date = cycleStart
  BY DEF Calendar!SoldAtStart
<1>4. cycleStart <= entry
  BY <1>3
<1>5. closes = Calendar!RealCloses
  BY <1>1, <1>2, <1>4 DEF Calendar!RealCloses
<1>6. /\ lastClose \in Nat /\ lastClose < cycleStart
      /\ \A c \in Calendar!RealCloses : c.date <= lastClose
  <2>1. CASE closes = {}
    BY <1>1, <1>5, <2>1
  <2>2. CASE closes # {}
    <3>1. ended \in SUBSET (1 .. day) /\ ended # {} /\ lastClose = Calendar!Max(ended)
      BY <1>2, <2>2
    <3>2. \A d \in ended : d < cycleStart
      BY <1>1, <1>5
    <3>3. \A c \in Calendar!RealCloses : c.date \in ended
      BY <1>5
    <3> HIDE DEF ended, lastClose, closes
    <3>4. Calendar!Max(ended) \in ended /\ \A d \in ended : d <= Calendar!Max(ended)
      BY <1>1, <3>1, CalendarMaxFacts
    <3>5. lastClose \in ended /\ \A d \in ended : d <= lastClose
      BY <3>1, <3>4
    <3>6. lastClose \in 1 .. day /\ lastClose < cycleStart
      BY <3>1, <3>2, <3>5
    <3>7. lastClose \in Nat
      BY <1>1, <3>6
    <3>8. \A c \in Calendar!RealCloses : c.date <= lastClose
      BY <3>3, <3>5
    <3> QED BY <3>6, <3>7, <3>8
  <2> QED BY <2>1, <2>2
<1> HIDE DEF lastClose, closes
<1>7. first \in sold /\ sold # {} /\ cycleStart \in dates
  BY <1>3, <1>4, <1>6
<1>8. \A s \in sold : s.date >= cycleStart
  <2> SUFFICES ASSUME NEW s \in sold, s.date < cycleStart PROVE FALSE
    BY <1>1, <1>2
  <2>1. PICK c \in Calendar!RealCloses : s.date <= c.date
    BY <1>1
  <2>2. c.date <= lastClose /\ lastClose < s.date /\ s.date \in Nat /\ c.date \in Nat
    BY <1>2, <1>6, <2>1 DEF Calendar!RealCloses
  <2> QED BY <1>6, <2>1, <2>2
<1>9. dates \in SUBSET Nat /\ \A d \in dates : cycleStart <= d
  BY <1>1, <1>2, <1>8
<1>10. Calendar!CycleOrigin(entry) = LET origin == IF sold = {} THEN 0 ELSE Calendar!Min(dates)
                            IN  IF origin # 0 /\ Calendar!EntryWindow(origin) THEN origin ELSE 0
  BY DEF Calendar!CycleOrigin, lastClose, closes
<1> HIDE DEF sold, dates
<1>11. Calendar!Min(dates) \in dates /\ Calendar!Min(dates) <= cycleStart
  BY <1>7, <1>9, CalendarMinFacts
<1>12. Calendar!Min(dates) = cycleStart
  <2> DEFINE m == Calendar!Min(dates)
  <2>3. m \in dates /\ m <= cycleStart
    BY <1>11
  <2> HIDE DEF m
  <2>1. m \in Nat /\ m <= cycleStart /\ cycleStart <= m /\ cycleStart \in Nat
    BY <1>1, <1>9, <2>3
  <2>2. m = cycleStart
    BY <2>1
  <2> QED BY <2>2 DEF m
<1> QED BY <1>1, <1>7, <1>10, <1>12

\* A whole structure holds a call.
LEMMA CalendarResolvedHasCall ==
  ASSUME NEW legs \in Calendar!Resolved
  PROVE  Calendar!CallHeld
<1>1. Calendar!ROLES[1] \in Calendar!Roles /\ Calendar!ROLES[1] = "short_call"
  BY DEF Calendar!Roles, Calendar!ROLES
<1>2. legs \subseteq Calendar!Held /\ {l.role : l \in legs} = Calendar!Roles
  BY DEF Calendar!Resolved
<1> QED BY <1>1, <1>2 DEF Calendar!CallHeld

\* Four legs of the four roles make a structure.
LEMMA CalendarFourRoles ==
  ASSUME Calendar!FirstRoles(4)
  PROVE  Calendar!Held \in Calendar!Resolved
<1>1. PICK a \in Calendar!Held : a.role = Calendar!ROLES[1]
  BY DEF Calendar!FirstRoles
<1>2. PICK b \in Calendar!Held : b.role = Calendar!ROLES[2]
  BY DEF Calendar!FirstRoles
<1>3. PICK c \in Calendar!Held : c.role = Calendar!ROLES[3]
  BY DEF Calendar!FirstRoles
<1>4. PICK d \in Calendar!Held : d.role = Calendar!ROLES[4]
  BY DEF Calendar!FirstRoles
<1>5. a # b /\ a # c /\ a # d /\ b # c /\ b # d /\ c # d
  BY <1>1, <1>2, <1>3, <1>4 DEF Calendar!ROLES
<1>6. ASSUME NEW l \in Calendar!Held PROVE l \in {a, b, c, d}
  <2>1. PICK i \in 1 .. 4 : l.role = Calendar!ROLES[i]
    BY DEF Calendar!FirstRoles
  <2>2. l.role \in {a.role, b.role, c.role, d.role}
    BY <1>1, <1>2, <1>3, <1>4, <2>1
  <2> QED BY <2>2 DEF Calendar!FirstRoles, Calendar!OnePerRole
<1>7. Calendar!Held = {a, b, c, d}
  BY <1>6
<1>8. Calendar!Cardinality({a, b, c, d}) = 4
  <2>1. Calendar!IsFiniteSet({}) /\ Calendar!Cardinality({}) = 0
    BY Calendar!FS_EmptySet
  <2>2. Calendar!IsFiniteSet({a}) /\ Calendar!Cardinality({a}) = 1
    BY Calendar!FS_Singleton
  <2>3. Calendar!IsFiniteSet({a, b}) /\ Calendar!Cardinality({a, b}) = 2
    <3>1. {a, b} = {a} \cup {b} /\ b \notin {a}
      BY <1>5
    <3> QED BY <2>2, <3>1, Calendar!FS_AddElement
  <2>4. Calendar!IsFiniteSet({a, b, c}) /\ Calendar!Cardinality({a, b, c}) = 3
    <3>1. {a, b, c} = {a, b} \cup {c} /\ c \notin {a, b}
      BY <1>5
    <3> QED BY <2>3, <3>1, Calendar!FS_AddElement
  <2>5. {a, b, c, d} = {a, b, c} \cup {d} /\ d \notin {a, b, c}
    BY <1>5
  <2> QED BY <2>4, <2>5, Calendar!FS_AddElement
<1>9. {l.role : l \in Calendar!Held} = Calendar!Roles
  BY <1>1, <1>2, <1>3, <1>4, <1>7 DEF Calendar!Roles, Calendar!ROLES
<1> QED BY <1>7, <1>8, <1>9 DEF Calendar!Resolved

LEMMA CalendarInvGives ==
  ASSUME Calendar!Policy, Calendar!Inv
  PROVE  Calendar!TypeOK /\ Calendar!WholeOrFlat /\ Calendar!OwnPlan
<1>1. Calendar!TypeOK
  <2>1. \A r \in ledger : /\ r.leg \in Calendar!Leg
                          /\ r.date \in 1 .. day /\ r.date < r.leg.near
                          /\ r.action \in {"BUY", "SELL"}
                          /\ r.why \in {"entry", "recentre", "close"}
    BY DEF Calendar!Inv, Calendar!Types, Calendar!Row, Calendar!Reasons, Calendar!NextAfter
  <2>2. ASSUME NEW p \in Calendar!Processes
        PROVE  /\ job[p].doing \in {"rest", "planned", "open", "close"}
               /\ Len(job[p].legs) <= 4
               /\ \A i \in DOMAIN job[p].legs : job[p].legs[i] \in Calendar!Leg
               /\ job[p].why \in {"entry", "recentre", "close"}
    <3> DEFINE s == job[p].legs
    <3>1. /\ job[p].doing \in {"rest", "planned", "open", "close"}
          /\ s \in Seq(Calendar!Leg) /\ job[p].why \in {"entry", "recentre", "close"}
      BY DEF Calendar!Inv, Calendar!Types, Calendar!Job, Calendar!Reasons
    <3>2. Len(s) \in 0 .. 4
      <4>1. CASE Calendar!Doing(p, "rest")
        <5>1. s = <<>> /\ Len(<<>>) = 0
          BY <4>1 DEF Calendar!Inv, Calendar!Types, Calendar!Rest
        <5> QED BY <5>1
      <4>2. CASE ~Calendar!Doing(p, "rest")
        <5> DEFINE n == Len(s)
        <5>1. n \in 1 .. 4
          BY <4>2 DEF Calendar!Inv, Calendar!Types
        <5> HIDE DEF n
        <5>2. n \in 0 .. 4
          BY <5>1
        <5> QED BY <5>2 DEF n
      <4> QED BY <4>1, <4>2
    <3> HIDE DEF s
    <3>3. Len(s) <= 4
      <4> DEFINE n == Len(s)
      <4>1. n \in 0 .. 4
        BY <3>2
      <4> HIDE DEF n
      <4>2. n <= 4
        BY <4>1
      <4> QED BY <4>2 DEF n
    <3>4. \A i \in DOMAIN s : s[i] \in Calendar!Leg
      BY <3>1
    <3> QED BY <3>1, <3>3, <3>4 DEF s
  <2> QED BY <2>1, <2>2 DEF Calendar!TypeOK, Calendar!Inv, Calendar!Types
<1>2. Calendar!WholeOrFlat
  <2>1. ASSUME Calendar!Resting, Calendar!Good PROVE Calendar!Held = {} \/ Calendar!FirstRoles(4)
    <3>1. \A p \in Calendar!Processes : Calendar!Waits(p)
      BY <2>1 DEF Calendar!Resting, Calendar!Rest, Calendar!Waits
    <3> QED BY <2>1, <3>1 DEF Calendar!Inv, Calendar!WholeInv, Calendar!Whole
  <2> QED BY <2>1, CalendarFourRoles DEF Calendar!WholeOrFlat, Calendar!Good
<1>3. Calendar!OwnPlan
  <2> SUFFICES ASSUME Calendar!Continuous, NEW legs \in Calendar!Resolved
      PROVE  Calendar!CycleOrigin(Calendar!EntryDate(legs)) = cycleStart
    BY DEF Calendar!OwnPlan, Calendar!Continuous
  <2>1. Calendar!Types /\ Calendar!NearInv /\ Calendar!SoldLast /\ Calendar!CycleGoesOn /\ Calendar!SoldAtStart
    BY CalendarResolvedHasCall DEF Calendar!Inv, Calendar!CycleInv, Calendar!OwnInv, Calendar!Continuous, Calendar!NoRace
  <2>2. /\ Calendar!EntryDate(legs) \in 1 .. day
        /\ \A s \in Calendar!ShortCalls("SELL") : s.date <= Calendar!EntryDate(legs)
    BY <2>1, CalendarEntryIsLast
  <2> QED BY <2>1, <2>2, CalendarOriginIsOwn
<1> QED BY <1>1, <1>2, <1>3

LEMMA CalendarAlways ==
  Calendar!Policy => (Calendar!Spec => [](Calendar!TypeOK /\ Calendar!WholeOrFlat /\ Calendar!OwnPlan))
<1> SUFFICES ASSUME Calendar!Policy PROVE Calendar!Spec => [](Calendar!TypeOK /\ Calendar!WholeOrFlat /\ Calendar!OwnPlan)
  OBVIOUS
<1>1. Calendar!Init => Calendar!Inv
  BY CalendarInvInit
<1>2. Calendar!Inv /\ [Calendar!Next]_Calendar!vars => Calendar!Inv'
  <2> SUFFICES ASSUME Calendar!Inv, [Calendar!Next]_Calendar!vars PROVE Calendar!Inv'
    OBVIOUS
  <2>1. Calendar!Types' /\ Calendar!NearInv'
    BY CalendarSafeStep DEF Calendar!Inv
  <2>2. Calendar!OrderInv'
    BY CalendarOrderStep DEF Calendar!Inv
  <2>3. Calendar!WholeInv' /\ Calendar!CycleInv'
    BY <2>2, CalendarWholeStep, CalendarCycleStep DEF Calendar!Inv
  <2> QED BY <2>1, <2>2, <2>3 DEF Calendar!Inv
<1>3. Calendar!Inv => Calendar!TypeOK /\ Calendar!WholeOrFlat /\ Calendar!OwnPlan
  BY CalendarInvGives
<1> QED BY <1>1, <1>2, <1>3, PTL DEF Calendar!Spec

-----------------------------------------------------------------------------
(* The three tracks share no state, so a behaviour of all of them is one of *)
(* each.                                                                    *)

LEMMA SignalBehaviour == TracksSpec => Init /\ [][Next]_vars
<1>1. TracksInit => Init
  BY DEF TracksInit
<1>2. [TracksNext]_<<vars, calendar, gamma, running>> => [Next]_vars
  BY DEF TracksNext
<1> QED
  BY <1>1, <1>2, PTL DEF TracksSpec

LEMMA CalendarBehaviour == TracksSpec => Calendar!Spec
<1>1. TracksInit => Calendar!Init
  BY DEF TracksInit
<1>2. [TracksNext]_<<vars, calendar, gamma, running>> => [Calendar!Next]_Calendar!vars
  BY DEF TracksNext, calendar, Calendar!vars
<1> QED
  BY <1>1, <1>2, PTL DEF TracksSpec, Calendar!Spec

LEMMA GammaBehaviour == TracksSpec => Gamma!Spec
<1>1. TracksInit => Gamma!Init
  BY DEF TracksInit
<1>2. [TracksNext]_<<vars, calendar, gamma, running>> => [Gamma!Next]_Gamma!vars
  BY DEF TracksNext, gamma, Gamma!vars
<1> QED
  BY <1>1, <1>2, PTL DEF TracksSpec, Gamma!Spec

\* The variables of the three tracks hold values the program can hold; the rows
\* of the signal track stay within the bound their unique key sets, and a
\* calendar leg is not traded on the day its contract expires.
THEOREM TracksTyped == TracksSpec => []TracksTypeOK
<1>1. Calendar!Spec => []Calendar!TypeOK
  <2> USE CalendarAssumption
  <2> QED BY CalendarAlways, PTL
<1>2. Gamma!Spec => []Gamma!TypeOK
  <2> USE GammaAssumption
  <2> QED BY GammaAlways, PTL
<1> QED
  BY <1>1, <1>2, SignalAlways, SignalBehaviour, CalendarBehaviour, GammaBehaviour, PTL
     DEF TracksTypeOK

\* The calendar is entered and closed leg by leg, but between two jobs it holds
\* four legs, one of each role, or none: the second look at the positions keeps
\* a plan that was overtaken from opening on top of the other.
THEOREM TracksWholeOrFlat == TracksSpec => []WholeOrFlat
<1>1. Calendar!Spec => []Calendar!WholeOrFlat
  <2> USE CalendarAssumption
  <2> QED BY CalendarAlways, PTL
<1> QED
  BY <1>1, CalendarBehaviour, PTL DEF WholeOrFlat

\* However often a structure was re-centred, the plan that rules it is that of
\* the cycle it was entered in: the rows of a re-centre are told from those of a
\* real close, and the date the monitor finds in the ledger is the day the cycle
\* began.  Excepted are a re-centre that was left without its re-entry and two
\* processes that opened at once.
THEOREM TracksOwnPlan == TracksSpec => []OwnPlan
<1>1. Calendar!Spec => []Calendar!OwnPlan
  <2> USE CalendarAssumption
  <2> QED BY CalendarAlways, PTL
<1> QED
  BY <1>1, CalendarBehaviour, PTL DEF OwnPlan

\* Of every contract that still trades the ledger holds the lot of its open
\* signal and nothing else: an exit sells what it ends, an entry that is a
\* duplicate in the ledger is one in the log.
THEOREM TracksLogIsLedger == TracksSpec => []LogIsLedger
<1>1. Gamma!Spec => []Gamma!LogIsLedger
  <2> USE GammaAssumption
  <2> QED BY GammaAlways, PTL
<1> QED
  BY <1>1, GammaBehaviour, PTL DEF LogIsLedger

\* Both gates of an entry, the log's and the ledger's, keep a single position
\* of a direction.
THEOREM TracksOnePerDirection == TracksSpec => []OnePerDirection
<1>1. Gamma!Spec => []Gamma!OnePerDirection
  <2> USE GammaAssumption
  <2> QED BY GammaAlways, PTL
<1> QED
  BY <1>1, GammaBehaviour, PTL DEF OnePerDirection

\* A signal is sold at the last scan of its contract's last day at the latest,
\* unless that scan was missed or failed.
THEOREM TracksNoneOutlivesContract == TracksSpec => []NoneOutlivesContract
<1>1. Gamma!Spec => []Gamma!NoneOutlivesContract
  <2> USE GammaAssumption
  <2> QED BY GammaAlways, PTL
<1> QED
  BY <1>1, GammaBehaviour, PTL DEF NoneOutlivesContract
==============================================================================
