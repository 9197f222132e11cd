-------------------------- MODULE PaperLedgerProofs --------------------------
(***************************************************************************)
(* Proofs about PaperLedger for any number of legs, closers and days, and  *)
(* about the collar beside it.                                             *)
(***************************************************************************)
EXTENDS MCLedgerCollar, TLAPS

Rows == [leg : Legs, date : Nat, action : Actions, qty : 1 .. MaxLots,
         state : States]

-----------------------------------------------------------------------------
(* What the table operators preserve.                                      *)

\* A new trade of legal fields keeps the table well formed.
LEMMA TradeType ==
    ASSUME NEW l \in Legs, NEW d \in Nat, NEW a \in Actions,
           NEW q \in 1 .. MaxLots
    PROVE  /\ Trade(l, d, a, q) \in Rows
           /\ Trade(l, d, a, q).leg = l
           /\ Trade(l, d, a, q).date = d
           /\ Trade(l, d, a, q).action = a
           /\ Trade(l, d, a, q).qty = q
           /\ Trade(l, d, a, q).state \in OpenStates
BY DEF Trade, Rows, States, OpenStates

\* record_trade adds at most the new row.
LEMMA RecordType ==
    ASSUME NEW T \in SUBSET Rows, NEW t \in Rows
    PROVE  RecordTrade(T, t) \in SUBSET Rows
BY DEF RecordTrade

\* mark_trade_closed rewrites states only.
LEMMA MarkType ==
    ASSUME NEW T \in SUBSET Rows, NEW l \in Legs
    PROVE  MarkTradeClosed(T, l) \in SUBSET Rows
BY DEF MarkTradeClosed, Rows, States, OpenStates

\* A trade that is a duplicate stays one after any insert.
LEMMA DuplicateAfterRecord ==
    ASSUME NEW T, NEW t, NEW u, Duplicate(T, u)
    PROVE  Duplicate(RecordTrade(T, t), u)
BY DEF Duplicate, RecordTrade

\* ... and after any mark, which never touches the unique key.
LEMMA DuplicateAfterMark ==
    ASSUME NEW T \in SUBSET Rows, NEW l \in Legs, NEW u, Duplicate(T, u)
    PROVE  Duplicate(MarkTradeClosed(T, l), u)
<1>1. PICK r \in T : SameKey(r, u)
  BY DEF Duplicate
<1>2. CASE r.leg = l /\ r.state \in OpenStates
  <2>1. [r EXCEPT !.state = "CLOSED"] \in MarkTradeClosed(T, l)
    BY <1>2 DEF MarkTradeClosed
  <2>2. SameKey([r EXCEPT !.state = "CLOSED"], u)
    BY <1>1 DEF SameKey, Rows
  <2> QED BY <2>1, <2>2 DEF Duplicate
<1>3. CASE ~(r.leg = l /\ r.state \in OpenStates)
  <2>1. r \in MarkTradeClosed(T, l)
    BY <1>3 DEF MarkTradeClosed
  <2> QED BY <2>1, <1>1 DEF Duplicate
<1> QED BY <1>2, <1>3

\* A trade just recorded is a duplicate from then on.
LEMMA RecordedIsDuplicate ==
    ASSUME NEW T, NEW t
    PROVE  Duplicate(RecordTrade(T, t), t)
BY DEF Duplicate, RecordTrade, SameKey

\* An insert opens a row of its own leg and leaves other legs alone.
LEMMA OpenRowAfterRecord ==
    ASSUME NEW T \in SUBSET Rows, NEW t \in Rows, NEW k \in Legs,
           t.state \in OpenStates
    PROVE  /\ HasOpenRow(T, k) => HasOpenRow(RecordTrade(T, t), k)
           /\ ~Duplicate(T, t) => HasOpenRow(RecordTrade(T, t), t.leg)
           /\ k # t.leg => (HasOpenRow(RecordTrade(T, t), k) <=> HasOpenRow(T, k))
BY DEF HasOpenRow, RecordTrade, Rows

\* A mark clears every open row of its leg and of no other leg.
LEMMA OpenRowAfterMark ==
    ASSUME NEW T \in SUBSET Rows, NEW l \in Legs, NEW k \in Legs
    PROVE  HasOpenRow(MarkTradeClosed(T, l), k) <=> (k # l /\ HasOpenRow(T, k))
<1>1. ASSUME HasOpenRow(MarkTradeClosed(T, l), k)
      PROVE  k # l /\ HasOpenRow(T, k)
  <2>1. PICK s \in MarkTradeClosed(T, l) : s.leg = k /\ s.state \in OpenStates
    BY <1>1 DEF HasOpenRow
  <2>2. PICK r \in T :
          s = IF r.leg = l /\ r.state \in OpenStates
                THEN [r EXCEPT !.state = "CLOSED"] ELSE r
    BY <2>1 DEF MarkTradeClosed
  <2>3. ~(r.leg = l /\ r.state \in OpenStates)
    BY <2>1, <2>2 DEF OpenStates, Rows
  <2> QED BY <2>1, <2>2, <2>3 DEF HasOpenRow
<1>2. ASSUME k # l, HasOpenRow(T, k)
      PROVE  HasOpenRow(MarkTradeClosed(T, l), k)
  <2>1. PICK r \in T : r.leg = k /\ r.state \in OpenStates
    BY <1>2 DEF HasOpenRow
  <2>2. r \in MarkTradeClosed(T, l)
    BY <2>1, <1>2 DEF MarkTradeClosed
  <2> QED BY <2>1, <2>2 DEF HasOpenRow
<1> QED BY <1>1, <1>2

-----------------------------------------------------------------------------
(* The inductive invariant.                                                *)

\* What a closer about to insert may rely on: its close is refused as a
\* duplicate, or the leg still holds what the closer read.
CanClose(c) ==
    LET l == closer[c].leg
    IN  \/ Duplicate(paper_trades, ClosingTrade(l, today, closer[c].qty))
        \/ closer[c].qty <= Exposure(l)

\* The same, without an entry in between: exactly what it read.
ClosesAll(c) ==
    LET l == closer[c].leg
    IN  \/ Duplicate(paper_trades, ClosingTrade(l, today, closer[c].qty))
        \/ closer[c].qty = Exposure(l)

ExposureBounded == \A l \in Legs : Exposure(l) \in 0 .. MaxLots

ClosersInSession == \A c \in Closers : closer[c] # Idle => daemon = "session"

SettlementScope ==
    /\ to_settle \cup to_mark # {} => daemon = "settling"
    /\ \A l \in to_settle : Expiry[l] < today /\ net_qty[l] # 0
    /\ \A l \in to_mark : Expiry[l] < today /\ net_qty[l] = 0

CloserViews ==
    \A c \in Closers :
      /\ closer[c].pc = "record" =>
           /\ CanClose(c)
           /\ closer[c].leg \notin overtaken \/ Expiry[closer[c].leg] < today =>
                ClosesAll(c)
      /\ closer[c].pc = "mark" /\ closer[c].leg \notin overtaken =>
           net_qty[closer[c].leg] = 0

\* From the start of the settlement on, an expired leg the settlement could
\* see is flat, still to be settled, or reported.
ExpiredHandled ==
    daemon # "down" =>
      \A l \in Legs :
        Expiry[l] < today /\ net_qty[l] # 0 /\ HasOpenRow(paper_trades, l) =>
          l \in left_open \cup to_settle

IInv ==
    /\ TypeOK
    /\ ExposureBounded
    /\ ClosersInSession
    /\ SettlementScope
    /\ CloserViews
    /\ LiveLegSettleable
    /\ HalfClosedIsKnown
    /\ ExpiredHandled

-----------------------------------------------------------------------------
(* Arithmetic of positions.                                                *)

\* An opening trade adds its quantity to the exposure, a closing one takes
\* it away, and a leg is flat exactly when its exposure is zero.
LEMMA ExposureArithmetic ==
    ASSUME NEW l \in Legs, NEW n \in Int, NEW q \in Int
    PROVE  /\ Signed(OpenSide[l], n) \in Int
           /\ Signed(OpenSide[l], n + Signed(OpenSide[l], q))
                = Signed(OpenSide[l], n) + q
           /\ Signed(OpenSide[l], n + Signed(CloseSide(l), q))
                = Signed(OpenSide[l], n) - q
           /\ Signed(OpenSide[l], n) = 0 <=> n = 0
           /\ Signed(OpenSide[l], n) >= 0 => Magnitude(n) = Signed(OpenSide[l], n)
           /\ n + Signed(OpenSide[l], q) \in Int
           /\ n + Signed(CloseSide(l), q) \in Int
<1>1. OpenSide[l] \in {"BUY", "SELL"}
  BY LedgerAssumption DEF Actions
<1>2. CASE OpenSide[l] = "BUY"
  BY <1>2 DEF Signed, CloseSide, Opposite, Magnitude
<1>3. CASE OpenSide[l] = "SELL"
  BY <1>3 DEF Signed, CloseSide, Opposite, Magnitude
<1> QED BY <1>1, <1>2, <1>3

\* The trades a closer and the settlement build are well formed.
LEMMA ClosingTradeType ==
    ASSUME NEW l \in Legs, NEW d \in Nat, NEW q \in 1 .. MaxLots
    PROVE  /\ ClosingTrade(l, d, q) \in Rows
           /\ ClosingTrade(l, d, q).leg = l
           /\ ClosingTrade(l, d, q).action = CloseSide(l)
           /\ ClosingTrade(l, d, q).qty = q
           /\ ClosingTrade(l, d, q).state \in OpenStates
<1>1. CloseSide(l) \in Actions
  BY LedgerAssumption DEF CloseSide, Opposite, Actions
<1> QED BY <1>1, TradeType DEF ClosingTrade

\* Two closes of one leg on one day have the same unique key.
LEMMA SameDayCloses ==
    ASSUME NEW T, NEW l \in Legs, NEW d \in Nat,
           NEW p \in 1 .. MaxLots, NEW q \in 1 .. MaxLots
    PROVE  Duplicate(T, ClosingTrade(l, d, p)) <=> Duplicate(T, ClosingTrade(l, d, q))
BY DEF Duplicate, SameKey, ClosingTrade, Trade

\* What booking a well-formed close of at most the exposure does.
LEMMA CloseEffect ==
    ASSUME TypeOK, ExposureBounded, NEW l \in Legs, NEW d \in Nat,
           NEW q \in 1 .. MaxLots, q <= Exposure(l),
           net_qty' = After(ClosingTrade(l, d, q))
    PROVE  /\ net_qty' \in [Legs -> Int]
           /\ Exposure(l)' = Exposure(l) - q
           /\ \A k \in Legs \ {l} : net_qty'[k] = net_qty[k]
           /\ ExposureBounded'
<1>1. net_qty' = [net_qty EXCEPT ![l] = @ + Signed(CloseSide(l), q)]
  BY ClosingTradeType DEF After
<1>2. net_qty[l] \in Int
  BY DEF TypeOK
<1>2a. q \in Int
  OBVIOUS
<1>2b. net_qty[l] + Signed(CloseSide(l), q) \in Int
  BY <1>2, <1>2a, ExposureArithmetic
<1>3. net_qty' \in [Legs -> Int]
  BY <1>1, <1>2b DEF TypeOK
<1>4. net_qty'[l] = net_qty[l] + Signed(CloseSide(l), q)
  BY <1>1 DEF TypeOK
<1>5. Exposure(l)' = Exposure(l) - q
  BY <1>2, <1>2a, <1>4, ExposureArithmetic DEF Exposure
<1>6. \A k \in Legs \ {l} : net_qty'[k] = net_qty[k]
  BY <1>1 DEF TypeOK
<1>7. ExposureBounded'
  <2> SUFFICES ASSUME NEW k \in Legs PROVE Exposure(k)' \in 0 .. MaxLots
    BY DEF ExposureBounded
  <2>1. CASE k = l
    BY <2>1, <1>5, LedgerAssumption DEF ExposureBounded
  <2>2. CASE k # l
    BY <2>2, <1>6 DEF ExposureBounded, Exposure
  <2> QED BY <2>1, <2>2
<1> QED BY <1>3, <1>5, <1>6, <1>7

\* What booking an entry within the bound does.
LEMMA OpenEffect ==
    ASSUME TypeOK, ExposureBounded, NEW l \in Legs, NEW q \in 1 .. MaxLots,
           Magnitude(net_qty[l]) + q <= MaxLots,
           net_qty' = After(Trade(l, today, OpenSide[l], q))
    PROVE  /\ net_qty' \in [Legs -> Int]
           /\ Exposure(l)' = Exposure(l) + q
           /\ \A k \in Legs \ {l} : net_qty'[k] = net_qty[k]
           /\ ExposureBounded'
<1>1. net_qty' = [net_qty EXCEPT ![l] = @ + Signed(OpenSide[l], q)]
  BY DEF After, Trade
<1>2. net_qty[l] \in Int /\ q \in Int
  BY DEF TypeOK
<1>3. net_qty[l] + Signed(OpenSide[l], q) \in Int
  BY <1>2, ExposureArithmetic
<1>4. net_qty' \in [Legs -> Int]
  BY <1>1, <1>3 DEF TypeOK
<1>5. net_qty'[l] = net_qty[l] + Signed(OpenSide[l], q)
  BY <1>1 DEF TypeOK
<1>6. Exposure(l)' = Exposure(l) + q
  <2>1. Signed(OpenSide[l], net_qty[l] + Signed(OpenSide[l], q))
          = Signed(OpenSide[l], net_qty[l]) + q
    BY <1>2, ExposureArithmetic
  <2> QED BY <2>1, <1>5 DEF Exposure
<1>7. \A k \in Legs \ {l} : net_qty'[k] = net_qty[k]
  BY <1>1 DEF TypeOK
<1>8. ExposureBounded'
  <2> SUFFICES ASSUME NEW k \in Legs PROVE Exposure(k)' \in 0 .. MaxLots
    BY DEF ExposureBounded
  <2>1. CASE k = l
    <3>1. Exposure(l) \in 0 .. MaxLots
      BY DEF ExposureBounded
    <3>2. Magnitude(net_qty[l]) = Exposure(l)
      BY <3>1, <1>2, ExposureArithmetic DEF Exposure
    <3> QED BY <2>1, <1>2, <1>6, <3>1, <3>2, LedgerAssumption
  <2>2. CASE k # l
    BY <2>2, <1>7 DEF ExposureBounded, Exposure
  <2> QED BY <2>1, <2>2
<1> QED BY <1>4, <1>6, <1>7, <1>8

\* A leg is flat exactly when its exposure is zero, and a live leg's
\* quantity is its exposure.
LEMMA ExposureOfLeg ==
    ASSUME TypeOK, ExposureBounded, NEW l \in Legs
    PROVE  /\ Exposure(l) \in Int
           /\ net_qty[l] = 0 <=> Exposure(l) = 0
           /\ Magnitude(net_qty[l]) = Exposure(l)
           /\ net_qty[l] # 0 => Magnitude(net_qty[l]) \in 1 .. MaxLots
<1>1. net_qty[l] \in Int /\ 0 \in Int
  BY DEF TypeOK
<1>2. Exposure(l) \in 0 .. MaxLots
  BY DEF ExposureBounded
<1>3. net_qty[l] = 0 <=> Exposure(l) = 0
  BY <1>1, ExposureArithmetic DEF Exposure
<1>4. Magnitude(net_qty[l]) = Exposure(l)
  BY <1>1, <1>2, ExposureArithmetic DEF Exposure
<1> QED BY <1>2, <1>3, <1>4, LedgerAssumption

\* A closer at work carries a leg and a quantity of at least one lot.
LEMMA CloserAtWork ==
    ASSUME TypeOK, NEW c \in Closers, closer[c].pc \in {"record", "mark"}
    PROVE  /\ closer[c].leg \in Legs
           /\ closer[c].qty \in 1 .. MaxLots
           /\ closer[c] # Idle
<1>1. closer[c] \in CloserStates
  BY DEF TypeOK
<1> QED BY <1>1 DEF CloserStates, Idle

-----------------------------------------------------------------------------
(* The initial states.                                                     *)

LEMMA InitIInv == Init => IInv
<1> SUFFICES ASSUME Init PROVE IInv
  OBVIOUS
<1> USE DEF Init
<1>1. TypeOK
  BY LedgerAssumption DEF TypeOK, Days, CloserStates
<1>2. ExposureBounded
  BY LedgerAssumption DEF ExposureBounded, Exposure, Signed
<1>3. ClosersInSession /\ SettlementScope
  BY DEF ClosersInSession, SettlementScope
<1>4. CloserViews
  BY DEF CloserViews, Idle
<1>5. LiveLegSettleable /\ HalfClosedIsKnown /\ ExpiredHandled
  BY DEF LiveLegSettleable, HalfClosedIsKnown, ExpiredHandled
<1> QED BY <1>1, <1>2, <1>3, <1>4, <1>5 DEF IInv

-----------------------------------------------------------------------------
(* Steps that leave the table alone.                                       *)

\* What stays true of the legs while neither the table nor today moves.
LEMMA QuietTable ==
    ASSUME IInv, UNCHANGED <<paper_trades, net_qty, overtaken>>
    PROVE  ExposureBounded' /\ LiveLegSettleable'
BY DEF IInv, ExposureBounded, LiveLegSettleable, Exposure, HasOpenRow

LEMMA ReadPositionInv ==
    ASSUME IInv, NEW c \in Closers, NEW l \in Legs, ReadPosition(c, l)
    PROVE  IInv'
<1> USE DEF IInv
<1> DEFINE new == [pc |-> "record", leg |-> l, qty |-> Magnitude(net_qty[l])]
<1>1. Magnitude(net_qty[l]) = Exposure(l) /\ Magnitude(net_qty[l]) \in 1 .. MaxLots
  BY ExposureOfLeg DEF ReadPosition
<1>2. new \in CloserStates
  BY <1>1 DEF CloserStates
<1>3. closer' = [closer EXCEPT ![c] = new]
  BY DEF ReadPosition
<1>4. closer \in [Closers -> CloserStates]
  BY DEF TypeOK
<1>5. closer' \in [Closers -> CloserStates] /\ closer'[c] = new
  BY <1>2, <1>3, <1>4
<1>6. \A d \in Closers : d # c => closer'[d] = closer[d]
  BY <1>3, <1>4
<1>7. UNCHANGED <<paper_trades, net_qty, today, daemon, to_settle, to_mark,
                  left_open, stale_legs, scan, overtaken>>
  BY DEF ReadPosition
<1> HIDE DEF new
<1>8. TypeOK'
  BY <1>5, <1>7 DEF TypeOK
<1>9. ExposureBounded' /\ LiveLegSettleable'
  BY <1>7, QuietTable
<1>10. ClosersInSession'
  BY <1>6, <1>7 DEF ClosersInSession, ReadPosition
<1>11. SettlementScope'
  BY <1>7 DEF SettlementScope
<1>12. CloserViews'
  <2> SUFFICES ASSUME NEW d \in Closers
               PROVE  /\ closer'[d].pc = "record" =>
                          /\ CanClose(d)'
                          /\ closer'[d].leg \notin overtaken'
                               \/ Expiry[closer'[d].leg] < today' => ClosesAll(d)'
                      /\ closer'[d].pc = "mark" /\ closer'[d].leg \notin overtaken' =>
                           net_qty'[closer'[d].leg] = 0
    BY DEF CloserViews
  <2>1. CASE d = c
    <3>1. closer'[d].pc = "record" /\ closer'[d].leg = l
            /\ closer'[d].qty = Magnitude(net_qty[l])
      BY <2>1, <1>5 DEF new
    <3>2. Exposure(l)' = Exposure(l) /\ Exposure(l) \in Int
      BY <1>7, ExposureOfLeg DEF Exposure
    <3>3. closer'[d].qty = Exposure(l)'
      BY <3>1, <3>2, <1>1
    <3> QED BY <3>1, <3>2, <3>3 DEF CanClose, ClosesAll
  <2>2. CASE d # c
    BY <2>2, <1>6, <1>7 DEF CloserViews, CanClose, ClosesAll, Exposure
  <2> QED BY <2>1, <2>2
<1>13. HalfClosedIsKnown'
  <2> SUFFICES ASSUME daemon' = "session", scan' = "done",
                      NEW k \in StaleFlatLegs'
               PROVE  k \in stale_legs' \/ \E d \in Closers : At(d, "mark", k)'
    BY DEF HalfClosedIsKnown
  <2>1. k \in stale_legs \/ \E d \in Closers : At(d, "mark", k)
    BY <1>7 DEF HalfClosedIsKnown, StaleFlatLegs, HasOpenRow
  <2>2. closer[c] = Idle
    BY DEF ReadPosition
  <2>3. ~At(c, "mark", k)
    BY <2>2 DEF At, Idle
  <2> QED BY <2>1, <2>3, <1>6, <1>7 DEF At
<1>14. ExpiredHandled'
  BY <1>7 DEF ExpiredHandled, HasOpenRow
<1> QED BY <1>8, <1>9, <1>10, <1>11, <1>12, <1>13, <1>14

\* A closer that gives up before writing anything: NoPrice, or a duplicate.
LEMMA GiveUpInv ==
    ASSUME IInv, NEW c \in Closers, closer[c].pc = "record",
           closer' = [closer EXCEPT ![c] = Idle],
           UNCHANGED <<paper_trades, net_qty, today, daemon, to_settle, to_mark,
                       left_open, stale_legs, scan, overtaken>>
    PROVE  IInv'
<1> USE DEF IInv
<1>1. closer \in [Closers -> CloserStates]
  BY DEF TypeOK
<1>2. closer'[c] = Idle /\ \A d \in Closers : d # c => closer'[d] = closer[d]
  BY <1>1
<1>3. TypeOK'
  BY DEF TypeOK, CloserStates
<1>4. ExposureBounded' /\ LiveLegSettleable'
  BY QuietTable
<1>5. ClosersInSession'
  BY <1>2 DEF ClosersInSession
<1>6. SettlementScope'
  BY DEF SettlementScope
<1>7. CloserViews'
  BY <1>2 DEF CloserViews, CanClose, ClosesAll, Exposure, Idle
<1>8. HalfClosedIsKnown'
  <2>1. \A k \in Legs : At(c, "mark", k) = FALSE
    BY DEF At
  <2> QED BY <1>2, <2>1 DEF HalfClosedIsKnown, StaleFlatLegs, HasOpenRow, At
<1>9. ExpiredHandled'
  BY DEF ExpiredHandled, HasOpenRow
<1> QED BY <1>3, <1>4, <1>5, <1>6, <1>7, <1>8, <1>9

\* The daemon's life outside the closers: start, a settlement that fails,
\* the session, the end of the process, the next day.
LEMMA StartDaemonInv == ASSUME IInv, StartDaemon PROVE IInv'
<1> USE DEF IInv, StartDaemon
<1>1. TypeOK'
  BY DEF TypeOK, ExpiredLegs
<1>2. ExposureBounded' /\ LiveLegSettleable'
  BY QuietTable
<1>3. ClosersInSession'
  BY DEF ClosersInSession
<1>4. SettlementScope'
  BY DEF SettlementScope, ExpiredLegs
<1>5. CloserViews'
  BY DEF CloserViews, CanClose, ClosesAll, Exposure
<1>6. HalfClosedIsKnown'
  BY DEF HalfClosedIsKnown
<1>7. ExpiredHandled'
  BY DEF ExpiredHandled, HasOpenRow, ExpiredLegs
<1> QED BY <1>1, <1>2, <1>3, <1>4, <1>5, <1>6, <1>7

LEMMA SettleFailsInv == ASSUME IInv, NEW l \in Legs, SettleFails(l) PROVE IInv'
<1> USE DEF IInv, SettleFails
<1>1. TypeOK'
  BY DEF TypeOK
<1>2. ExposureBounded' /\ LiveLegSettleable'
  BY QuietTable
<1>3. ClosersInSession' /\ SettlementScope' /\ HalfClosedIsKnown'
  BY DEF ClosersInSession, SettlementScope, HalfClosedIsKnown
<1>4. CloserViews'
  BY DEF CloserViews, CanClose, ClosesAll, Exposure
<1>5. ExpiredHandled'
  BY DEF ExpiredHandled, HasOpenRow
<1> QED BY <1>1, <1>2, <1>3, <1>4, <1>5

LEMMA SettlementAbortsInv == ASSUME IInv, SettlementAborts PROVE IInv'
<1> USE DEF IInv, SettlementAborts
<1>1. TypeOK'
  BY DEF TypeOK
<1>2. ExposureBounded' /\ LiveLegSettleable'
  BY QuietTable
<1>3. ClosersInSession' /\ SettlementScope' /\ HalfClosedIsKnown'
  BY DEF ClosersInSession, SettlementScope, HalfClosedIsKnown
<1>4. CloserViews'
  BY DEF CloserViews, CanClose, ClosesAll, Exposure
<1>5. ExpiredHandled'
  BY DEF ExpiredHandled, HasOpenRow
<1> QED BY <1>1, <1>2, <1>3, <1>4, <1>5

LEMMA ScanFailsInv == ASSUME IInv, ScanFails PROVE IInv'
<1> USE DEF IInv, ScanFails
<1>1. TypeOK'
  BY DEF TypeOK
<1>2. ExposureBounded' /\ LiveLegSettleable'
  BY QuietTable
<1>3. ClosersInSession' /\ SettlementScope' /\ HalfClosedIsKnown'
  BY DEF ClosersInSession, SettlementScope, HalfClosedIsKnown
<1>4. CloserViews'
  BY DEF CloserViews, CanClose, ClosesAll, Exposure
<1>5. ExpiredHandled'
  BY DEF ExpiredHandled, HasOpenRow
<1> QED BY <1>1, <1>2, <1>3, <1>4, <1>5

LEMMA OpenSessionInv == ASSUME IInv, OpenSession PROVE IInv'
<1> USE DEF IInv, OpenSession
<1>1. TypeOK'
  BY DEF TypeOK, StaleFlatLegs
<1>2. ExposureBounded' /\ LiveLegSettleable'
  BY QuietTable
<1>3. ClosersInSession' /\ SettlementScope'
  BY DEF ClosersInSession, SettlementScope
<1>4. CloserViews'
  BY DEF CloserViews, CanClose, ClosesAll, Exposure
<1>5. HalfClosedIsKnown'
  BY DEF HalfClosedIsKnown, StaleFlatLegs, HasOpenRow
<1>6. ExpiredHandled'
  BY DEF ExpiredHandled, HasOpenRow
<1> QED BY <1>1, <1>2, <1>3, <1>4, <1>5, <1>6

LEMMA DaemonEndsInv == ASSUME IInv, DaemonEnds PROVE IInv'
<1> USE DEF IInv, DaemonEnds
<1>1. TypeOK'
  BY DEF TypeOK, CloserStates
<1>2. ExposureBounded' /\ LiveLegSettleable'
  BY QuietTable
<1>3. ClosersInSession' /\ SettlementScope' /\ HalfClosedIsKnown' /\ ExpiredHandled'
  BY DEF ClosersInSession, SettlementScope, HalfClosedIsKnown, ExpiredHandled
<1>4. CloserViews'
  BY DEF CloserViews, Idle
<1> QED BY <1>1, <1>2, <1>3, <1>4

LEMMA NextDayInv == ASSUME IInv, NextDay PROVE IInv'
<1> USE DEF IInv, NextDay
<1>1. TypeOK'
  BY LedgerAssumption DEF TypeOK, Days
<1>2. ExposureBounded' /\ LiveLegSettleable'
  BY QuietTable
<1>3. ClosersInSession' /\ HalfClosedIsKnown' /\ ExpiredHandled'
  BY DEF ClosersInSession, HalfClosedIsKnown, ExpiredHandled
<1>4. SettlementScope'
  BY DEF SettlementScope
<1>5. CloserViews'
  BY DEF CloserViews, ClosersInSession, Idle
<1> QED BY <1>1, <1>2, <1>3, <1>4, <1>5

LEMMA StutterInv == ASSUME IInv, UNCHANGED vars PROVE IInv'
<1> USE DEF IInv, vars
<1>1. TypeOK' /\ ClosersInSession' /\ SettlementScope'
  BY DEF TypeOK, ClosersInSession, SettlementScope
<1>2. ExposureBounded' /\ LiveLegSettleable'
  BY QuietTable
<1>3. CloserViews'
  BY DEF CloserViews, CanClose, ClosesAll, Exposure
<1>4. HalfClosedIsKnown' /\ ExpiredHandled'
  BY DEF HalfClosedIsKnown, StaleFlatLegs, ExpiredHandled, HasOpenRow, At
<1> QED BY <1>1, <1>2, <1>3, <1>4

-----------------------------------------------------------------------------
(* Steps that mark a leg CLOSED.                                           *)

\* A closer's view survives any mark: no unique key changes.
LEMMA ViewAfterMark ==
    ASSUME TypeOK, NEW l \in Legs, NEW d \in Closers,
           closer[d].pc = "record", closer'[d] = closer[d],
           paper_trades' = MarkTradeClosed(paper_trades, l),
           UNCHANGED <<net_qty, today>>
    PROVE  /\ CanClose(d) => CanClose(d)'
           /\ ClosesAll(d) => ClosesAll(d)'
<1> DEFINE t == ClosingTrade(closer[d].leg, today, closer[d].qty)
<1>1. paper_trades \in SUBSET Rows
  BY DEF TypeOK, Rows
<1>2. Duplicate(paper_trades, t) => Duplicate(paper_trades', t)
  BY <1>1, DuplicateAfterMark
<1>3. \A k \in Legs : Exposure(k)' = Exposure(k)
  BY DEF Exposure
<1>4. closer[d].leg \in Legs
  BY CloserAtWork
<1> QED BY <1>2, <1>3, <1>4 DEF CanClose, ClosesAll

LEMMA MarkClosedInv == ASSUME IInv, NEW c \in Closers, MarkClosed(c) PROVE IInv'
<1> USE DEF IInv
<1> DEFINE l == closer[c].leg
<1>1. l \in Legs /\ closer[c].pc = "mark" /\ closer[c] # Idle
  BY CloserAtWork DEF MarkClosed
<1>2. closer \in [Closers -> CloserStates] /\ paper_trades \in SUBSET Rows
  BY DEF TypeOK, Rows
<1>3. closer'[c] = Idle /\ \A d \in Closers : d # c => closer'[d] = closer[d]
  BY <1>2 DEF MarkClosed
<1>4. /\ paper_trades' = MarkTradeClosed(paper_trades, l)
      /\ UNCHANGED <<net_qty, today, daemon, to_settle, to_mark, left_open,
                     stale_legs, scan, overtaken>>
  BY DEF MarkClosed
<1>5. \A k \in Legs : HasOpenRow(paper_trades', k) <=>
                        (k # l /\ HasOpenRow(paper_trades, k))
  BY <1>1, <1>2, <1>4, OpenRowAfterMark
<1>6. paper_trades' \in SUBSET Rows
  BY <1>1, <1>2, <1>4, MarkType
<1> HIDE DEF l
<1>7. TypeOK'
  BY <1>4, <1>6 DEF TypeOK, MarkClosed, CloserStates, Rows
<1>8. ExposureBounded'
  BY <1>4 DEF ExposureBounded, Exposure
<1>9. ClosersInSession'
  BY <1>3, <1>4 DEF ClosersInSession
<1>10. SettlementScope'
  BY <1>4 DEF SettlementScope
<1>11. CloserViews'
  <2> SUFFICES ASSUME NEW d \in Closers
               PROVE  /\ closer'[d].pc = "record" =>
                          /\ CanClose(d)'
                          /\ closer'[d].leg \notin overtaken'
                               \/ Expiry[closer'[d].leg] < today' => ClosesAll(d)'
                      /\ closer'[d].pc = "mark" /\ closer'[d].leg \notin overtaken' =>
                           net_qty'[closer'[d].leg] = 0
    BY DEF CloserViews
  <2>1. CASE d = c
    BY <2>1, <1>3 DEF Idle
  <2>2. CASE d # c
    <3>1. closer'[d] = closer[d]
      BY <2>2, <1>3
    <3>2. closer[d].pc = "record" => /\ CanClose(d) => CanClose(d)'
                                     /\ ClosesAll(d) => ClosesAll(d)'
      BY <3>1, <1>1, <1>4, ViewAfterMark
    <3> QED BY <3>1, <3>2, <1>4 DEF CloserViews
  <2> QED BY <2>1, <2>2
<1>12. LiveLegSettleable'
  <2>1. l \notin overtaken => net_qty[l] = 0
    BY <1>1 DEF CloserViews, l
  <2> QED BY <2>1, <1>4, <1>5 DEF LiveLegSettleable
<1>13. HalfClosedIsKnown'
  <2> SUFFICES ASSUME daemon' = "session", scan' = "done",
                      NEW k \in StaleFlatLegs'
               PROVE  k \in stale_legs' \/ \E d \in Closers : At(d, "mark", k)'
    BY DEF HalfClosedIsKnown
  <2>1. k # l /\ k \in StaleFlatLegs
    BY <1>4, <1>5 DEF StaleFlatLegs
  <2>2. k \in stale_legs \/ \E d \in Closers : At(d, "mark", k)
    BY <2>1, <1>4 DEF HalfClosedIsKnown
  <2>3. ~At(c, "mark", k)
    BY <2>1 DEF At, l
  <2> QED BY <2>2, <2>3, <1>3, <1>4 DEF At
<1>14. ExpiredHandled'
  BY <1>4, <1>5 DEF ExpiredHandled
<1> QED BY <1>7, <1>8, <1>9, <1>10, <1>11, <1>12, <1>13, <1>14

\* A mark that raised: the leg is reported in place of being marked.
LEMMA MarkFailsInv == ASSUME IInv, NEW c \in Closers, MarkFails(c) PROVE IInv'
<1> USE DEF IInv
<1>1. PICK l \in Legs : closer[c].leg = l /\ closer[c].pc = "mark"
  BY CloserAtWork DEF MarkFails
<1>2. closer \in [Closers -> CloserStates]
  BY DEF TypeOK
<1>3. closer'[c] = Idle /\ \A d \in Closers : d # c => closer'[d] = closer[d]
  BY <1>2 DEF MarkFails
<1>4. /\ stale_legs' = stale_legs \cup {l}
      /\ UNCHANGED <<paper_trades, net_qty, today, daemon, to_settle, to_mark,
                     left_open, scan, overtaken>>
  BY <1>1 DEF MarkFails
<1>5. TypeOK'
  BY <1>4 DEF TypeOK, MarkFails, CloserStates
<1>6. ExposureBounded' /\ LiveLegSettleable'
  BY <1>4, QuietTable
<1>7. ClosersInSession'
  BY <1>3, <1>4 DEF ClosersInSession
<1>8. SettlementScope'
  BY <1>4 DEF SettlementScope
<1>9. CloserViews'
  BY <1>3, <1>4 DEF CloserViews, CanClose, ClosesAll, Exposure, Idle
<1>10. HalfClosedIsKnown'
  <2> SUFFICES ASSUME daemon' = "session", scan' = "done",
                      NEW k \in StaleFlatLegs'
               PROVE  k \in stale_legs' \/ \E d \in Closers : At(d, "mark", k)'
    BY DEF HalfClosedIsKnown
  <2>1. k \in stale_legs \/ \E d \in Closers : At(d, "mark", k)
    BY <1>4 DEF HalfClosedIsKnown, StaleFlatLegs, HasOpenRow
  <2>2. At(c, "mark", k) => k = l
    BY <1>1 DEF At
  <2> QED BY <2>1, <2>2, <1>3, <1>4 DEF At
<1>11. ExpiredHandled'
  BY <1>4 DEF ExpiredHandled, HasOpenRow
<1> QED BY <1>5, <1>6, <1>7, <1>8, <1>9, <1>10, <1>11

LEMMA SettleMarkInv == ASSUME IInv, NEW l \in Legs, SettleMark(l) PROVE IInv'
<1> USE DEF IInv
<1>1. paper_trades \in SUBSET Rows
  BY DEF TypeOK, Rows
<1>2. /\ paper_trades' = MarkTradeClosed(paper_trades, l)
      /\ daemon = "settling" /\ l \in to_mark /\ to_mark' = {}
      /\ UNCHANGED <<net_qty, today, daemon, closer, to_settle, left_open,
                     stale_legs, scan, overtaken>>
  BY DEF SettleMark
<1>3. \A k \in Legs : HasOpenRow(paper_trades', k) <=>
                        (k # l /\ HasOpenRow(paper_trades, k))
  BY <1>1, <1>2, OpenRowAfterMark
<1>4. paper_trades' \in SUBSET Rows
  BY <1>1, <1>2, MarkType
<1>5. TypeOK'
  BY <1>2, <1>4 DEF TypeOK, Rows
<1>6. ExposureBounded'
  BY <1>2 DEF ExposureBounded, Exposure
<1>7. ClosersInSession' /\ SettlementScope' /\ HalfClosedIsKnown'
  BY <1>2 DEF ClosersInSession, SettlementScope, HalfClosedIsKnown
<1>8. CloserViews'
  BY <1>2 DEF ClosersInSession, CloserViews, Idle
<1>9. LiveLegSettleable'
  BY <1>2, <1>3 DEF LiveLegSettleable, SettlementScope
<1>10. ExpiredHandled'
  BY <1>2, <1>3 DEF ExpiredHandled
<1> QED BY <1>5, <1>6, <1>7, <1>8, <1>9, <1>10

-----------------------------------------------------------------------------
(* Steps that insert a row.                                                *)

LEMMA EnterInv ==
    ASSUME IInv, NEW l \in Legs, NEW q \in 1 .. MaxLots, Enter(l, q)
    PROVE  IInv'
<1> USE DEF IInv
<1> DEFINE t == Trade(l, today, OpenSide[l], q)
<1>1. t \in Rows /\ t.leg = l /\ t.state \in OpenStates
  BY TradeType, LedgerAssumption DEF TypeOK, Days
<1>2. paper_trades \in SUBSET Rows
  BY DEF TypeOK, Rows
<1>3. /\ ~Duplicate(paper_trades, t)
      /\ paper_trades' = RecordTrade(paper_trades, t)
      /\ net_qty' = After(t)
      /\ today <= Expiry[l]
      /\ Magnitude(net_qty[l]) + q <= MaxLots
      /\ overtaken \subseteq overtaken' /\ overtaken' \subseteq overtaken \cup {l}
      /\ \A d \in Closers : At(d, "record", l) \/ At(d, "mark", l) => l \in overtaken'
      /\ UNCHANGED <<today, daemon, closer, to_settle, to_mark, left_open,
                     stale_legs, scan>>
  BY DEF Enter
<1>4. /\ net_qty' \in [Legs -> Int]
      /\ Exposure(l)' = Exposure(l) + q
      /\ \A k \in Legs \ {l} : net_qty'[k] = net_qty[k]
      /\ ExposureBounded'
  BY <1>3, OpenEffect
<1>5. paper_trades' \in SUBSET Rows
  BY <1>1, <1>2, <1>3, RecordType
<1>6. /\ HasOpenRow(paper_trades', l)
      /\ \A k \in Legs : HasOpenRow(paper_trades, k) => HasOpenRow(paper_trades', k)
      /\ \A k \in Legs \ {l} : HasOpenRow(paper_trades', k) => HasOpenRow(paper_trades, k)
  BY <1>1, <1>2, <1>3, OpenRowAfterRecord
<1>7. \A k \in Legs : Expiry[k] \in Nat /\ today \in Int /\ Expiry[l] \in Nat
  BY LedgerAssumption DEF TypeOK, Days
<1>8. \A u : Duplicate(paper_trades, u) => Duplicate(paper_trades', u)
  BY <1>3, DuplicateAfterRecord
<1> HIDE DEF t
<1>9. TypeOK'
  BY <1>3, <1>4, <1>5 DEF TypeOK, Rows
<1>10. ClosersInSession'
  BY <1>3 DEF ClosersInSession
<1>11. SettlementScope'
  BY <1>3, <1>4, <1>7 DEF SettlementScope, TypeOK
<1>12. Exposure(l) \in Int /\ q \in 1 .. MaxLots /\ net_qty'[l] # 0
  <2>1. Exposure(l)' # 0 /\ Exposure(l) \in Int
    BY <1>4, LedgerAssumption DEF ExposureBounded
  <2> QED BY <2>1, <1>9, <1>4, ExposureArithmetic DEF Exposure, Signed
<1>13. CloserViews'
  <2> SUFFICES ASSUME NEW d \in Closers
               PROVE  /\ closer'[d].pc = "record" =>
                          /\ CanClose(d)'
                          /\ closer'[d].leg \notin overtaken'
                               \/ Expiry[closer'[d].leg] < today' => ClosesAll(d)'
                      /\ closer'[d].pc = "mark" /\ closer'[d].leg \notin overtaken' =>
                           net_qty'[closer'[d].leg] = 0
    BY DEF CloserViews
  <2>1. closer'[d] = closer[d]
    BY <1>3
  <2>2. CASE closer[d].pc \notin {"record", "mark"}
    BY <2>1, <2>2
  <2>3. CASE closer[d].pc \in {"record", "mark"} /\ closer[d].leg = l
    <3>1. l \in overtaken'
      BY <2>3, <1>3 DEF At
    <3>2. ~(Expiry[l] < today)
      BY <1>3, <1>7
    <3>3. closer[d].qty \in 1 .. MaxLots
      BY <2>3, CloserAtWork
    <3>4. closer[d].qty <= Exposure(l) => closer[d].qty <= Exposure(l)'
      BY <3>3, <1>4, <1>12
    <3> QED BY <3>1, <3>2, <3>4, <2>1, <2>3, <1>3, <1>8 DEF CloserViews, CanClose
  <2>4. CASE closer[d].pc \in {"record", "mark"} /\ closer[d].leg # l
    <3>1. closer[d].leg \in Legs \ {l}
      BY <2>4, CloserAtWork
    <3>2. Exposure(closer[d].leg)' = Exposure(closer[d].leg)
      BY <3>1, <1>4, <2>1 DEF Exposure
    <3>3. closer[d].leg \notin overtaken' => closer[d].leg \notin overtaken
      BY <1>3
    <3> QED BY <3>1, <3>2, <3>3, <2>1, <1>3, <1>4, <1>8
            DEF CloserViews, CanClose, ClosesAll
  <2> QED BY <2>2, <2>3, <2>4
<1>14. LiveLegSettleable'
  BY <1>3, <1>4, <1>6 DEF LiveLegSettleable
<1>15. HalfClosedIsKnown'
  <2> SUFFICES ASSUME daemon' = "session", scan' = "done",
                      NEW k \in StaleFlatLegs'
               PROVE  k \in stale_legs' \/ \E d \in Closers : At(d, "mark", k)'
    BY DEF HalfClosedIsKnown
  <2>1. k # l
    BY <1>12 DEF StaleFlatLegs
  <2>2. k \in StaleFlatLegs
    BY <2>1, <1>4, <1>6 DEF StaleFlatLegs
  <2> QED BY <2>2, <1>3 DEF HalfClosedIsKnown, At
<1>16. ExpiredHandled'
  <2> SUFFICES ASSUME daemon' # "down", NEW k \in Legs, Expiry[k] < today',
                      net_qty'[k] # 0, HasOpenRow(paper_trades', k)
               PROVE  k \in left_open' \cup to_settle'
    BY DEF ExpiredHandled
  <2>1. k # l
    BY <1>3, <1>7
  <2> QED BY <2>1, <1>3, <1>4, <1>6 DEF ExpiredHandled
<1> QED BY <1>4, <1>9, <1>10, <1>11, <1>13, <1>14, <1>15, <1>16

LEMMA RecordCloseInv == ASSUME IInv, NEW c \in Closers, RecordClose(c) PROVE IInv'
<1> USE DEF IInv
<1>1. PICK l \in Legs, q \in 1 .. MaxLots :
        closer[c].leg = l /\ closer[c].qty = q /\ closer[c].pc = "record"
  BY CloserAtWork DEF RecordClose
<1> DEFINE t == ClosingTrade(l, today, q)
<1>2. UNCHANGED <<today, daemon, to_settle, to_mark, left_open, stale_legs, scan,
                  overtaken>>
  BY DEF RecordClose
<1>3. CASE Duplicate(paper_trades, t)
  <2>1. closer' = [closer EXCEPT ![c] = Idle] /\ UNCHANGED <<paper_trades, net_qty>>
    BY <1>1, <1>3 DEF RecordClose
  <2> QED BY <2>1, <1>1, <1>2, GiveUpInv
<1>4. CASE ~Duplicate(paper_trades, t)
  <2>1. /\ paper_trades' = RecordTrade(paper_trades, t)
        /\ net_qty' = After(t)
        /\ closer' = [closer EXCEPT ![c].pc = "mark"]
    BY <1>1, <1>4 DEF RecordClose
  <2>2. paper_trades \in SUBSET Rows /\ today \in Nat
    BY DEF TypeOK, Rows, Days
  <2>3. t \in Rows /\ t.leg = l /\ t.state \in OpenStates
    BY <1>1, <2>2, ClosingTradeType
  <2>4. daemon = "session" /\ to_settle = {} /\ to_mark = {}
    BY <1>1, CloserAtWork DEF ClosersInSession, SettlementScope
  <2>5. q <= Exposure(l) /\ (l \notin overtaken \/ Expiry[l] < today => q = Exposure(l))
    BY <1>1, <1>4 DEF CloserViews, CanClose, ClosesAll
  <2>6. /\ net_qty' \in [Legs -> Int]
        /\ Exposure(l)' = Exposure(l) - q
        /\ \A k \in Legs \ {l} : net_qty'[k] = net_qty[k]
        /\ ExposureBounded'
    BY <1>1, <2>1, <2>2, <2>5, CloseEffect
  <2>7. paper_trades' \in SUBSET Rows
    BY <2>1, <2>2, <2>3, RecordType
  <2>8. /\ HasOpenRow(paper_trades', l)
        /\ \A k \in Legs \ {l} : HasOpenRow(paper_trades', k) <=> HasOpenRow(paper_trades, k)
    BY <1>1, <1>4, <2>1, <2>2, <2>3, OpenRowAfterRecord
  <2>9. Duplicate(paper_trades', t)
          /\ \A u : Duplicate(paper_trades, u) => Duplicate(paper_trades', u)
    BY <2>1, DuplicateAfterRecord, RecordedIsDuplicate
  <2>10. /\ closer'[c].pc = "mark" /\ closer'[c].leg = l /\ closer'[c] \in CloserStates
         /\ \A d \in Closers : d # c => closer'[d] = closer[d]
         /\ closer' \in [Closers -> CloserStates]
    <3>1. closer \in [Closers -> CloserStates]
      BY DEF TypeOK
    <3>2. closer'[c] = [closer[c] EXCEPT !.pc = "mark"]
            /\ \A d \in Closers : d # c => closer'[d] = closer[d]
      BY <2>1, <3>1
    <3>3. closer[c] \in [pc : {"record", "mark"}, leg : Legs, qty : 1 .. MaxLots]
      BY <1>1, <3>1 DEF CloserStates, Idle
    <3>4. closer'[c] \in CloserStates /\ closer'[c].pc = "mark" /\ closer'[c].leg = l
      BY <1>1, <3>2, <3>3 DEF CloserStates
    <3> QED BY <2>1, <3>1, <3>2, <3>4
  <2>11. l \notin overtaken \/ Expiry[l] < today => net_qty'[l] = 0
    <3> SUFFICES ASSUME l \notin overtaken \/ Expiry[l] < today PROVE net_qty'[l] = 0
      OBVIOUS
    <3>1. Exposure(l)' = 0
      BY <1>1, <2>5, <2>6
    <3>2. net_qty'[l] \in Int
      BY <1>1, <2>6
    <3> QED BY <1>1, <3>1, <3>2, ExposureArithmetic DEF Exposure
  <2>12. \A d \in Closers : d # c /\ closer[d].pc = "record" =>
           /\ CanClose(d) => CanClose(d)'
           /\ ClosesAll(d) => ClosesAll(d)'
    <3> SUFFICES ASSUME NEW d \in Closers, d # c, closer[d].pc = "record"
                 PROVE  /\ CanClose(d) => CanClose(d)'
                        /\ ClosesAll(d) => ClosesAll(d)'
      OBVIOUS
    <3>1. closer[d].leg \in Legs /\ closer[d].qty \in 1 .. MaxLots /\ closer'[d] = closer[d]
      BY <2>10, CloserAtWork
    <3>2. CASE closer[d].leg = l
      <4>1. Duplicate(paper_trades', ClosingTrade(l, today, closer[d].qty))
        BY <1>1, <2>2, <2>9, <3>1, SameDayCloses
      <4> QED BY <4>1, <3>1, <3>2, <1>2 DEF CanClose, ClosesAll
    <3>3. CASE closer[d].leg # l
      <4>1. Exposure(closer[d].leg)' = Exposure(closer[d].leg)
        BY <3>1, <3>3, <2>6 DEF Exposure
      <4> QED BY <4>1, <3>1, <2>9, <1>2 DEF CanClose, ClosesAll
    <3> QED BY <3>2, <3>3
  <2> HIDE DEF t
  <2>13. TypeOK'
    BY <1>2, <2>6, <2>7, <2>10 DEF TypeOK, Rows
  <2>14. ClosersInSession' /\ SettlementScope'
    BY <1>2, <2>4 DEF ClosersInSession, SettlementScope
  <2>15. CloserViews'
    <3> SUFFICES ASSUME NEW d \in Closers
                 PROVE  /\ closer'[d].pc = "record" =>
                            /\ CanClose(d)'
                            /\ closer'[d].leg \notin overtaken'
                                 \/ Expiry[closer'[d].leg] < today' => ClosesAll(d)'
                        /\ closer'[d].pc = "mark" /\ closer'[d].leg \notin overtaken' =>
                             net_qty'[closer'[d].leg] = 0
      BY DEF CloserViews
    <3>1. CASE d = c
      BY <3>1, <1>2, <2>10, <2>11
    <3>2. CASE d # c
      <4>1. closer'[d] = closer[d]
        BY <3>2, <2>10
      <4>2. closer[d].pc = "mark" /\ closer[d].leg \notin overtaken =>
              net_qty'[closer[d].leg] = 0
        <5> SUFFICES ASSUME closer[d].pc = "mark", closer[d].leg \notin overtaken
                     PROVE  net_qty'[closer[d].leg] = 0
          OBVIOUS
        <5>1. closer[d].leg \in Legs /\ net_qty[closer[d].leg] = 0
          BY CloserAtWork DEF CloserViews
        <5>2. closer[d].leg # l
          BY <5>1, <1>1, <2>5, ExposureOfLeg
        <5> QED BY <5>1, <5>2, <2>6
      <4> QED BY <4>1, <4>2, <3>2, <1>2, <2>12 DEF CloserViews
    <3> QED BY <3>1, <3>2
  <2>16. LiveLegSettleable'
    BY <1>2, <2>6, <2>8 DEF LiveLegSettleable
  <2>17. HalfClosedIsKnown'
    <3> SUFFICES ASSUME scan' = "done", NEW k \in StaleFlatLegs'
                 PROVE  k \in stale_legs' \/ \E d \in Closers : At(d, "mark", k)'
      BY DEF HalfClosedIsKnown
    <3>1. CASE k = l
      BY <3>1, <2>10 DEF At
    <3>2. CASE k # l
      <4>1. k \in StaleFlatLegs
        BY <3>2, <2>6, <2>8 DEF StaleFlatLegs
      <4>2. k \in stale_legs \/ \E d \in Closers : At(d, "mark", k)
        BY <4>1, <1>2, <2>4 DEF HalfClosedIsKnown
      <4>3. ~At(c, "mark", k)
        BY <1>1 DEF At
      <4> QED BY <4>2, <4>3, <2>10, <1>2 DEF At
    <3> QED BY <3>1, <3>2
  <2>18. ExpiredHandled'
    <3> SUFFICES ASSUME NEW k \in Legs, Expiry[k] < today', net_qty'[k] # 0,
                        HasOpenRow(paper_trades', k)
                 PROVE  k \in left_open' \cup to_settle'
      BY DEF ExpiredHandled
    <3>1. k # l
      BY <1>2, <2>11
    <3> QED BY <3>1, <1>2, <2>4, <2>6, <2>8 DEF ExpiredHandled
  <2> QED BY <2>6, <2>13, <2>14, <2>15, <2>16, <2>17, <2>18
<1> QED BY <1>3, <1>4

LEMMA SettleLegInv == ASSUME IInv, NEW l \in Legs, SettleLeg(l) PROVE IInv'
<1> USE DEF IInv
<1> DEFINE q == Magnitude(net_qty[l])
           t == ClosingTrade(l, Expiry[l], q)
<1>1. /\ daemon = "settling" /\ to_mark = {} /\ l \in to_settle
      /\ to_settle' = to_settle \ {l}
      /\ UNCHANGED <<today, daemon, closer, stale_legs, scan, overtaken>>
  BY DEF SettleLeg
<1>2. \A c \in Closers : closer[c] = Idle
  BY <1>1 DEF ClosersInSession
<1>3. CASE Duplicate(paper_trades, t)
  <2>1. left_open' = left_open \cup {l} /\ UNCHANGED <<paper_trades, net_qty, to_mark>>
    BY <1>3 DEF SettleLeg
  <2>2. TypeOK'
    BY <1>1, <2>1 DEF TypeOK
  <2>3. ExposureBounded' /\ LiveLegSettleable'
    BY <1>1, <2>1, QuietTable
  <2>4. ClosersInSession' /\ SettlementScope' /\ HalfClosedIsKnown'
    BY <1>1, <2>1 DEF ClosersInSession, SettlementScope, HalfClosedIsKnown
  <2>5. CloserViews'
    BY <1>1, <1>2 DEF CloserViews, Idle
  <2>6. ExpiredHandled'
    BY <1>1, <2>1 DEF ExpiredHandled
  <2> QED BY <2>2, <2>3, <2>4, <2>5, <2>6
<1>4. CASE ~Duplicate(paper_trades, t)
  <2>1. /\ paper_trades' = RecordTrade(paper_trades, t)
        /\ net_qty' = After(t)
        /\ to_mark' = {l}
        /\ left_open' = left_open
    BY <1>4 DEF SettleLeg
  <2>2. paper_trades \in SUBSET Rows /\ Expiry[l] \in Nat
    BY LedgerAssumption DEF TypeOK, Rows
  <2>3. q \in 1 .. MaxLots /\ q = Exposure(l) /\ Expiry[l] < today
    BY <1>1, ExposureOfLeg DEF SettlementScope
  <2>4. t \in Rows /\ t.leg = l /\ t.state \in OpenStates
    BY <2>2, <2>3, ClosingTradeType
  <2> HIDE DEF q
  <2>5. /\ net_qty' \in [Legs -> Int]
        /\ Exposure(l)' = Exposure(l) - q
        /\ \A k \in Legs \ {l} : net_qty'[k] = net_qty[k]
        /\ ExposureBounded'
    <3>1. \A m \in 1 .. MaxLots : m = q => m <= Exposure(l)
      BY <2>3
    <3> QED BY <2>1, <2>2, <2>3, <3>1, CloseEffect
  <2>6. net_qty'[l] = 0
    <3>1. Exposure(l)' = 0
      BY <2>3, <2>5
    <3>2. net_qty'[l] \in Int
      BY <2>5
    <3> QED BY <3>1, <3>2, ExposureArithmetic DEF Exposure
  <2>7. paper_trades' \in SUBSET Rows
    BY <2>1, <2>2, <2>4, RecordType
  <2>8. \A k \in Legs \ {l} : HasOpenRow(paper_trades', k) <=> HasOpenRow(paper_trades, k)
    BY <2>1, <2>2, <2>4, OpenRowAfterRecord
  <2> HIDE DEF t
  <2>9. TypeOK'
    BY <1>1, <2>1, <2>5, <2>7 DEF TypeOK, Rows
  <2>10. ClosersInSession' /\ HalfClosedIsKnown'
    BY <1>1 DEF ClosersInSession, HalfClosedIsKnown
  <2>11. SettlementScope'
    BY <1>1, <2>1, <2>3, <2>5, <2>6 DEF SettlementScope, TypeOK
  <2>12. CloserViews'
    BY <1>1, <1>2 DEF CloserViews, Idle
  <2>13. LiveLegSettleable'
    BY <1>1, <2>5, <2>6, <2>8 DEF LiveLegSettleable
  <2>14. ExpiredHandled'
    BY <1>1, <2>1, <2>5, <2>6, <2>8 DEF ExpiredHandled
  <2> QED BY <2>5, <2>9, <2>10, <2>11, <2>12, <2>13, <2>14
<1> QED BY <1>3, <1>4

-----------------------------------------------------------------------------
(* The theorems.                                                           *)

\* Every step of the ledger preserves the inductive invariant.
LEMMA NextIInv == IInv /\ [Next]_vars => IInv'
<1> SUFFICES ASSUME IInv, [Next]_vars PROVE IInv'
  OBVIOUS
<1>1. ASSUME NEW l \in Legs, NEW q \in 1 .. MaxLots, Enter(l, q) PROVE IInv'
  BY <1>1, EnterInv
<1>2. ASSUME NEW c \in Closers, CloserStep(c) PROVE IInv'
  <2>1. ASSUME NEW l \in Legs, ReadPosition(c, l) PROVE IInv'
    BY <2>1, ReadPositionInv
  <2>2. CASE NoPrice(c)
    BY <2>2, GiveUpInv DEF NoPrice
  <2>3. CASE RecordClose(c)
    BY <2>3, RecordCloseInv
  <2>4. CASE MarkClosed(c)
    BY <2>4, MarkClosedInv
  <2>5. CASE MarkFails(c)
    BY <2>5, MarkFailsInv
  <2> QED BY <1>2, <2>1, <2>2, <2>3, <2>4, <2>5 DEF CloserStep
<1>3. CASE Settlement
  <2>1. ASSUME NEW l \in Legs, SettleFails(l) PROVE IInv'
    BY <2>1, SettleFailsInv
  <2>2. ASSUME NEW l \in Legs, SettleLeg(l) PROVE IInv'
    BY <2>2, SettleLegInv
  <2>3. ASSUME NEW l \in Legs, SettleMark(l) PROVE IInv'
    BY <2>3, SettleMarkInv
  <2> QED BY <1>3, <2>1, <2>2, <2>3, StartDaemonInv, SettlementAbortsInv,
             OpenSessionInv, ScanFailsInv DEF Settlement
<1>4. CASE DaemonEnds
  BY <1>4, DaemonEndsInv
<1>5. CASE NextDay
  BY <1>5, NextDayInv
<1>6. CASE UNCHANGED vars
  BY <1>6, StutterInv
<1> QED BY <1>1, <1>2, <1>3, <1>4, <1>5, <1>6 DEF Next

LEMMA SpecIInv == Spec => []IInv
<1> QED BY InitIInv, NextIInv, PTL DEF Spec

\* The variables keep their types: no writer of src/paper/store.py leaves a
\* row with a foreign side, a zero quantity or an unknown state.
THEOREM LedgerTypeOK == Spec => []TypeOK
<1>1. IInv => TypeOK
  BY DEF IInv
<1> QED BY <1>1, SpecIInv, PTL

\* Closers racing on one position, crashes and late settlements never close
\* more of a leg than was opened.
THEOREM LedgerNoOverClose == Spec => []NoOverClose
<1>1. IInv => NoOverClose
  BY DEF IInv, ExposureBounded, NoOverClose
<1> QED BY <1>1, SpecIInv, PTL

\* A live leg keeps an OPEN or DEFENDED row unless an entry overtook a closer.
THEOREM LedgerLiveLegSettleable == Spec => []LiveLegSettleable
<1>1. IInv => LiveLegSettleable
  BY DEF IInv
<1> QED BY <1>1, SpecIInv, PTL

\* In a session whose scan did not fail every half-closed leg is being marked
\* or was reported.
THEOREM LedgerHalfClosedIsKnown == Spec => []HalfClosedIsKnown
<1>1. IInv => HalfClosedIsKnown
  BY DEF IInv
<1> QED BY <1>1, SpecIInv, PTL

\* In a session every expired leg the settlement could see is flat or was
\* reported as left open.
THEOREM LedgerExpiredLegsSettled == Spec => []ExpiredLegsSettled
<1>1. IInv => ExpiredLegsSettled
  BY DEF IInv, ExpiredLegsSettled, ExpiredHandled, SettlementScope
<1> QED BY <1>1, SpecIInv, PTL

-----------------------------------------------------------------------------
(***************************************************************************)
(* The daily unique key of paper_trades: what today's rows of a leg say    *)
(* about its position.                                                     *)
(***************************************************************************)

\* The table has a row with this unique key.
Booked(T, l, d, a) == \E r \in T : r.leg = l /\ r.date = d /\ r.action = a

OpenedToday(l) == Booked(paper_trades, l, today, OpenSide[l])
ClosedToday(l) == Booked(paper_trades, l, today, CloseSide(l))

\* No trade is dated in the future.
Dated == \A r \in paper_trades : r.date <= today

\* A leg closed today and live again was entered again today.
LiveAfterClose ==
    \A l \in Legs : net_qty[l] # 0 /\ ClosedToday(l) => OpenedToday(l)

\* A closer about to insert flattens the leg, unless its insert is refused or
\* somebody entered the leg today.
FlattensOrRefused(c) ==
    LET l == closer[c].leg
    IN  OpenedToday(l) \/ ClosedToday(l) \/ closer[c].qty = Exposure(l)

ClosesWhatItRead ==
    \A c \in Closers : closer[c].pc = "record" => FlattensOrRefused(c)

DayInv == Dated /\ LiveAfterClose /\ ClosesWhatItRead

-----------------------------------------------------------------------------
(* The unique key and the table's operators.                               *)

\* Duplicate asks for the unique key and for nothing else.
LEMMA DuplicateIsBooked ==
    ASSUME NEW T, NEW l, NEW d, NEW a, NEW q
    PROVE  Duplicate(T, Trade(l, d, a, q)) <=> Booked(T, l, d, a)
BY DEF Duplicate, SameKey, Trade, Booked

\* After record_trade the key of the trade is booked, and no other is new.
LEMMA BookedAfterRecord ==
    ASSUME NEW T, NEW t, NEW l, NEW d, NEW a
    PROVE  Booked(RecordTrade(T, t), l, d, a)
             <=> Booked(T, l, d, a) \/ (t.leg = l /\ t.date = d /\ t.action = a)
BY DEF Booked, RecordTrade, Duplicate, SameKey

\* mark_trade_closed keeps every key.
LEMMA MarkKeepsKeys ==
    ASSUME NEW T \in SUBSET Rows, NEW k \in Legs
    PROVE  /\ \A l, d, a : Booked(MarkTradeClosed(T, k), l, d, a) <=> Booked(T, l, d, a)
           /\ \A s \in MarkTradeClosed(T, k) : \E r \in T : r.date = s.date
<1>1. \A r \in T : \E s \in MarkTradeClosed(T, k) :
        s.leg = r.leg /\ s.date = r.date /\ s.action = r.action
  <2> SUFFICES ASSUME NEW r \in T
               PROVE  \E s \in MarkTradeClosed(T, k) :
                        s.leg = r.leg /\ s.date = r.date /\ s.action = r.action
    OBVIOUS
  <2>1. CASE r.leg = k /\ r.state \in OpenStates
    <3>1. [r EXCEPT !.state = "CLOSED"] \in MarkTradeClosed(T, k)
      BY <2>1 DEF MarkTradeClosed
    <3> QED BY <3>1 DEF Rows
  <2>2. CASE ~(r.leg = k /\ r.state \in OpenStates)
    BY <2>2 DEF MarkTradeClosed
  <2> QED BY <2>1, <2>2
<1>2. \A s \in MarkTradeClosed(T, k) : \E r \in T :
        s.leg = r.leg /\ s.date = r.date /\ s.action = r.action
  <2> SUFFICES ASSUME NEW s \in MarkTradeClosed(T, k)
               PROVE  \E r \in T :
                        s.leg = r.leg /\ s.date = r.date /\ s.action = r.action
    OBVIOUS
  <2>1. PICK r \in T : s = IF r.leg = k /\ r.state \in OpenStates
                            THEN [r EXCEPT !.state = "CLOSED"] ELSE r
    BY DEF MarkTradeClosed
  <2> QED BY <2>1 DEF Rows
<1> QED BY <1>1, <1>2 DEF Booked

\* The side that closes a leg is not the one that opens it.
LEMMA SidesDiffer ==
    ASSUME NEW l \in Legs
    PROVE  OpenSide[l] \in Actions /\ CloseSide(l) \in Actions /\ CloseSide(l) # OpenSide[l]
BY LedgerAssumption DEF CloseSide, Opposite, Actions

\* What an insert does to today's keys.
LEMMA TodayAfterRecord ==
    ASSUME NEW t, paper_trades' = RecordTrade(paper_trades, t), today' = today,
           NEW k \in Legs
    PROVE  /\ OpenedToday(k) => OpenedToday(k)'
           /\ ClosedToday(k) => ClosedToday(k)'
           /\ ClosedToday(k)' <=> ClosedToday(k)
                \/ (t.leg = k /\ t.date = today /\ t.action = CloseSide(k))
           /\ OpenedToday(k)' <=> OpenedToday(k)
                \/ (t.leg = k /\ t.date = today /\ t.action = OpenSide[k])
BY BookedAfterRecord DEF OpenedToday, ClosedToday

-----------------------------------------------------------------------------
(* The steps.                                                              *)

\* A step that books nothing and lets closers only give up.
LEMMA QuietDayInv ==
    ASSUME DayInv, UNCHANGED <<paper_trades, net_qty, today>>,
           \A c \in Closers : closer'[c].pc = "record" => closer'[c] = closer[c]
    PROVE  DayInv'
<1>1. Dated' /\ LiveAfterClose'
  BY DEF DayInv, Dated, LiveAfterClose, OpenedToday, ClosedToday
<1>2. ClosesWhatItRead'
  <2> SUFFICES ASSUME NEW c \in Closers, closer'[c].pc = "record"
               PROVE  FlattensOrRefused(c)'
    BY DEF ClosesWhatItRead
  <2>1. closer'[c] = closer[c]
    OBVIOUS
  <2> QED BY <2>1
     DEF DayInv, ClosesWhatItRead, FlattensOrRefused, OpenedToday, ClosedToday, Exposure
<1> QED BY <1>1, <1>2 DEF DayInv

\* The same with rows marked CLOSED.
LEMMA MarkDayInv ==
    ASSUME IInv, DayInv, NEW k \in Legs,
           paper_trades' = MarkTradeClosed(paper_trades, k),
           UNCHANGED <<net_qty, today>>,
           \A c \in Closers : closer'[c].pc = "record" => closer'[c] = closer[c]
    PROVE  DayInv'
<1>1. paper_trades \in SUBSET Rows
  BY DEF IInv, TypeOK, Rows
<1>2. \A l : (OpenedToday(l)' <=> OpenedToday(l)) /\ (ClosedToday(l)' <=> ClosedToday(l))
  BY <1>1, MarkKeepsKeys DEF OpenedToday, ClosedToday
<1>3. Dated'
  BY <1>1, MarkKeepsKeys DEF DayInv, Dated
<1>4. LiveAfterClose'
  BY <1>2 DEF DayInv, LiveAfterClose
<1>5. ClosesWhatItRead'
  <2> SUFFICES ASSUME NEW c \in Closers, closer'[c].pc = "record"
               PROVE  FlattensOrRefused(c)'
    BY DEF ClosesWhatItRead
  <2>1. closer'[c] = closer[c]
    OBVIOUS
  <2> QED BY <2>1, <1>2
     DEF DayInv, ClosesWhatItRead, FlattensOrRefused, Exposure
<1> QED BY <1>3, <1>4, <1>5 DEF DayInv

\* A closer that starts holds the whole position.
LEMMA ReadPositionDayInv ==
    ASSUME IInv, DayInv, NEW c \in Closers, NEW l \in Legs, ReadPosition(c, l)
    PROVE  DayInv'
<1>1. UNCHANGED <<paper_trades, net_qty, today>>
  BY DEF ReadPosition
<1>2. Dated' /\ LiveAfterClose'
  BY <1>1 DEF DayInv, Dated, LiveAfterClose, OpenedToday, ClosedToday
<1>3. closer' = [closer EXCEPT ![c] = [pc |-> "record", leg |-> l,
                                        qty |-> Magnitude(net_qty[l])]]
  BY DEF ReadPosition
<1>4. closer \in [Closers -> CloserStates]
  BY DEF IInv, TypeOK
<1>5. ClosesWhatItRead'
  <2> SUFFICES ASSUME NEW d \in Closers, closer'[d].pc = "record"
               PROVE  FlattensOrRefused(d)'
    BY DEF ClosesWhatItRead
  <2>1. CASE d = c
    <3>1. closer'[d].leg = l /\ closer'[d].qty = Magnitude(net_qty[l])
      BY <2>1, <1>3, <1>4
    <3>2. Magnitude(net_qty[l]) = Exposure(l)
      BY ExposureOfLeg DEF IInv
    <3> QED BY <1>1, <3>1, <3>2 DEF FlattensOrRefused, Exposure
  <2>2. CASE d # c
    <3>1. closer'[d] = closer[d]
      BY <2>2, <1>3, <1>4
    <3> QED BY <3>1, <1>1
       DEF DayInv, ClosesWhatItRead, FlattensOrRefused, OpenedToday, ClosedToday, Exposure
  <2> QED BY <2>1, <2>2
<1> QED BY <1>2, <1>5 DEF DayInv

\* An entry books today's opening key of its leg.
LEMMA EnterDayInv ==
    ASSUME IInv, DayInv, NEW l \in Legs, NEW q \in 1 .. MaxLots, Enter(l, q)
    PROVE  DayInv'
<1> DEFINE t == Trade(l, today, OpenSide[l], q)
<1>1. /\ paper_trades' = RecordTrade(paper_trades, t)
      /\ today' = today /\ closer' = closer
      /\ Magnitude(net_qty[l]) + q <= MaxLots
      /\ net_qty' = After(t)
  BY DEF Enter
<1>2. t.leg = l /\ t.date = today /\ t.action = OpenSide[l]
  BY DEF Trade
<1>3. \A k \in Legs \ {l} : net_qty'[k] = net_qty[k]
  BY <1>1, OpenEffect DEF IInv
<1>4. OpenedToday(l)'
  BY <1>1, <1>2, TodayAfterRecord
<1>5. \A k \in Legs \ {l} : /\ OpenedToday(k)' <=> OpenedToday(k)
                            /\ ClosedToday(k)' <=> ClosedToday(k)
  BY <1>1, <1>2, TodayAfterRecord
<1> HIDE DEF t
<1>6. Dated'
  BY <1>1, <1>2 DEF DayInv, Dated, RecordTrade, IInv, TypeOK, Days
<1>7. LiveAfterClose'
  BY <1>3, <1>4, <1>5 DEF DayInv, LiveAfterClose
<1>8. ClosesWhatItRead'
  <2> SUFFICES ASSUME NEW c \in Closers, closer[c].pc = "record"
               PROVE  FlattensOrRefused(c)'
    BY <1>1 DEF ClosesWhatItRead
  <2>1. closer[c].leg \in Legs
    BY CloserAtWork DEF IInv
  <2>2. CASE closer[c].leg = l
    BY <2>2, <1>1, <1>4 DEF FlattensOrRefused
  <2>3. CASE closer[c].leg # l
    BY <1>1, <2>1, <2>3, <1>3, <1>5
       DEF DayInv, ClosesWhatItRead, FlattensOrRefused, Exposure
  <2> QED BY <2>2, <2>3
<1> QED BY <1>6, <1>7, <1>8 DEF DayInv

\* A close booked today leaves the leg flat, unless the leg was entered today.
LEMMA RecordCloseDayInv ==
    ASSUME IInv, DayInv, NEW c \in Closers, RecordClose(c)
    PROVE  DayInv'
<1>1. PICK l \in Legs, q \in 1 .. MaxLots :
        closer[c].leg = l /\ closer[c].qty = q /\ closer[c].pc = "record"
  BY CloserAtWork DEF IInv, RecordClose
<1> DEFINE t == ClosingTrade(l, today, q)
<1>2. closer \in [Closers -> CloserStates] /\ today' = today
  BY DEF IInv, TypeOK, RecordClose
<1>3. CASE Duplicate(paper_trades, t)
  <2>1. closer' = [closer EXCEPT ![c] = Idle] /\ UNCHANGED <<paper_trades, net_qty>>
    BY <1>1, <1>3 DEF RecordClose
  <2>2. \A d \in Closers : closer'[d].pc = "record" => closer'[d] = closer[d]
    BY <2>1, <1>2 DEF Idle
  <2> QED BY <2>1, <2>2, <1>2, QuietDayInv
<1>4. CASE ~Duplicate(paper_trades, t)
  <2>1. /\ paper_trades' = RecordTrade(paper_trades, t)
        /\ net_qty' = After(t)
        /\ closer' = [closer EXCEPT ![c].pc = "mark"]
    BY <1>1, <1>4 DEF RecordClose
  <2>2. today \in Nat /\ t.leg = l /\ t.date = today /\ t.action = CloseSide(l)
    BY DEF IInv, TypeOK, Days, ClosingTrade, Trade
  <2>3. ~ClosedToday(l)
    BY <1>4, DuplicateIsBooked DEF ClosingTrade, ClosedToday
  <2>4. q <= Exposure(l)
    BY <1>1, <1>4 DEF IInv, CloserViews, CanClose
  <2>5. /\ net_qty' \in [Legs -> Int]
        /\ Exposure(l)' = Exposure(l) - q
        /\ \A k \in Legs \ {l} : net_qty'[k] = net_qty[k]
    BY <2>1, <2>2, <2>4, CloseEffect DEF IInv
  <2>6. \A k \in Legs : OpenedToday(k)' <=> OpenedToday(k)
    BY <1>2, <2>1, <2>2, SidesDiffer, TodayAfterRecord
  <2>7. /\ ClosedToday(l)'
        /\ \A k \in Legs \ {l} : ClosedToday(k)' <=> ClosedToday(k)
    BY <1>2, <2>1, <2>2, TodayAfterRecord
  <2>8. OpenedToday(l) \/ net_qty'[l] = 0
    <3> SUFFICES ASSUME ~OpenedToday(l) PROVE net_qty'[l] = 0
      OBVIOUS
    <3>1. q = Exposure(l)
      BY <1>1, <2>3 DEF DayInv, ClosesWhatItRead, FlattensOrRefused
    <3>2. Exposure(l)' = 0 /\ net_qty'[l] \in Int
      BY <2>5, <3>1
    <3> QED BY <3>2, ExposureArithmetic DEF Exposure
  <2>9. \A d \in Closers : closer'[d].pc = "record" => d # c /\ closer'[d] = closer[d]
    <3>1. closer[c] \in [pc : {"record", "mark"}, leg : Legs, qty : 1 .. MaxLots]
      BY <1>1, <1>2 DEF CloserStates, Idle
    <3>2. closer'[c].pc = "mark"
      BY <2>1, <1>2, <3>1
    <3> QED BY <2>1, <1>2, <3>2
  <2> HIDE DEF t
  <2>10. Dated'
    BY <1>2, <2>1, <2>2 DEF DayInv, Dated, RecordTrade
  <2>11. LiveAfterClose'
    BY <2>5, <2>6, <2>7, <2>8 DEF DayInv, LiveAfterClose
  <2>12. ClosesWhatItRead'
    <3> SUFFICES ASSUME NEW d \in Closers, closer'[d].pc = "record"
                 PROVE  FlattensOrRefused(d)'
      BY DEF ClosesWhatItRead
    <3>1. closer'[d] = closer[d] /\ closer[d].leg \in Legs
      BY <2>9, CloserAtWork DEF IInv
    <3>2. CASE closer[d].leg = l
      BY <3>1, <3>2, <2>7 DEF FlattensOrRefused
    <3>3. CASE closer[d].leg # l
      BY <3>1, <3>3, <2>5, <2>6, <2>7
         DEF DayInv, ClosesWhatItRead, FlattensOrRefused, Exposure
    <3> QED BY <3>2, <3>3
  <2> QED BY <2>10, <2>11, <2>12 DEF DayInv
<1> QED BY <1>3, <1>4

\* A settlement is dated before today and runs while no closer does.
LEMMA SettleLegDayInv ==
    ASSUME IInv, DayInv, NEW l \in Legs, SettleLeg(l)
    PROVE  DayInv'
<1> DEFINE q == Magnitude(net_qty[l])
           t == ClosingTrade(l, Expiry[l], q)
<1>1. daemon = "settling" /\ l \in to_settle /\ UNCHANGED <<today, closer>>
  BY DEF SettleLeg
<1>2. Expiry[l] < today /\ net_qty[l] # 0 /\ Expiry[l] \in Nat /\ today \in Nat
  BY <1>1, LedgerAssumption DEF IInv, SettlementScope, TypeOK, Days
<1>3. \A c \in Closers : closer[c].pc # "record"
  BY <1>1 DEF IInv, ClosersInSession, Idle
<1>4. CASE Duplicate(paper_trades, t)
  BY <1>1, <1>3, <1>4, QuietDayInv DEF SettleLeg
<1>5. CASE ~Duplicate(paper_trades, t)
  <2>1. paper_trades' = RecordTrade(paper_trades, t) /\ net_qty' = After(t)
    BY <1>5 DEF SettleLeg
  <2>2. t.leg = l /\ t.date = Expiry[l]
    BY DEF ClosingTrade, Trade
  <2>3. q \in 1 .. MaxLots /\ q = Exposure(l)
    BY <1>2, ExposureOfLeg DEF IInv
  <2>4. \A k \in Legs \ {l} : net_qty'[k] = net_qty[k]
    BY <1>2, <2>1, <2>3, CloseEffect DEF IInv
  <2>5. net_qty'[l] = 0
    <3>1. net_qty' \in [Legs -> Int] /\ Exposure(l)' = Exposure(l) - q
      BY <1>2, <2>1, <2>3, CloseEffect DEF IInv
    <3>2. Exposure(l)' = 0 /\ net_qty'[l] \in Int
      BY <2>3, <3>1
    <3> QED BY <3>2, ExposureArithmetic DEF Exposure
  <2>6. \A k \in Legs : /\ OpenedToday(k)' <=> OpenedToday(k)
                        /\ ClosedToday(k)' <=> ClosedToday(k)
    BY <1>1, <1>2, <2>1, <2>2, TodayAfterRecord
  <2> HIDE DEF t, q
  <2>7. Dated'
    BY <1>1, <1>2, <2>1, <2>2 DEF DayInv, Dated, RecordTrade
  <2>8. LiveAfterClose'
    BY <2>4, <2>5, <2>6 DEF DayInv, LiveAfterClose
  <2>9. ClosesWhatItRead'
    BY <1>1, <1>3 DEF ClosesWhatItRead
  <2> QED BY <2>7, <2>8, <2>9 DEF DayInv
<1> QED BY <1>4, <1>5

\* On a new day nothing is booked yet, and no closer is at work.
LEMMA NextDayDayInv ==
    ASSUME IInv, DayInv, NextDay
    PROVE  DayInv'
<1>1. /\ today \in Nat /\ today' = today + 1
      /\ UNCHANGED <<paper_trades, closer>> /\ daemon = "down"
  BY DEF NextDay, IInv, TypeOK, Days
<1>2. paper_trades \in SUBSET Rows
  BY DEF IInv, TypeOK, Rows
<1>3. \A r \in paper_trades : r.date < today'
  BY <1>1, <1>2 DEF DayInv, Dated, Rows
<1>4. \A l : ~ClosedToday(l)'
  BY <1>1, <1>2, <1>3 DEF ClosedToday, Booked, Rows
<1>5. Dated' /\ LiveAfterClose'
  BY <1>1, <1>2, <1>3, <1>4 DEF Dated, LiveAfterClose, Rows
<1>6. ClosesWhatItRead'
  BY <1>1 DEF ClosesWhatItRead, IInv, ClosersInSession, Idle
<1> QED BY <1>5, <1>6 DEF DayInv

-----------------------------------------------------------------------------
LEMMA InitDayInv == Init => DayInv
BY DEF Init, DayInv, Dated, LiveAfterClose, ClosesWhatItRead, Idle

LEMMA NextDayInvariant == IInv /\ DayInv /\ [Next]_vars => DayInv'
<1> SUFFICES ASSUME IInv, DayInv, [Next]_vars PROVE DayInv'
  OBVIOUS
<1>0. closer \in [Closers -> CloserStates]
  BY DEF IInv, TypeOK
<1>1. ASSUME NEW l \in Legs, NEW q \in 1 .. MaxLots, Enter(l, q) PROVE DayInv'
  BY <1>1, EnterDayInv
<1>2. ASSUME NEW c \in Closers, CloserStep(c) PROVE DayInv'
  <2>1. ASSUME NEW l \in Legs, ReadPosition(c, l) PROVE DayInv'
    BY <2>1, ReadPositionDayInv
  <2>2. CASE NoPrice(c) \/ MarkFails(c)
    <3>1. closer' = [closer EXCEPT ![c] = Idle]
            /\ UNCHANGED <<paper_trades, net_qty, today>>
      BY <2>2 DEF NoPrice, MarkFails
    <3>2. \A d \in Closers : closer'[d].pc = "record" => closer'[d] = closer[d]
      BY <3>1, <1>0 DEF Idle
    <3> QED BY <3>1, <3>2, QuietDayInv
  <2>3. CASE RecordClose(c)
    BY <2>3, RecordCloseDayInv
  <2>4. CASE MarkClosed(c)
    <3>1. closer[c].leg \in Legs
      BY <2>4, CloserAtWork DEF IInv, MarkClosed
    <3>2. closer' = [closer EXCEPT ![c] = Idle] /\ UNCHANGED <<net_qty, today>>
            /\ paper_trades' = MarkTradeClosed(paper_trades, closer[c].leg)
      BY <2>4 DEF MarkClosed
    <3>3. \A d \in Closers : closer'[d].pc = "record" => closer'[d] = closer[d]
      BY <3>2, <1>0 DEF Idle
    <3> QED BY <3>1, <3>2, <3>3, MarkDayInv
  <2> QED BY <1>2, <2>1, <2>2, <2>3, <2>4 DEF CloserStep
<1>3. CASE Settlement
  <2>1. ASSUME NEW l \in Legs, SettleLeg(l) PROVE DayInv'
    BY <2>1, SettleLegDayInv
  <2>2. ASSUME NEW l \in Legs, SettleMark(l) PROVE DayInv'
    BY <2>2, MarkDayInv DEF SettleMark
  <2>3. ASSUME NEW l \in Legs, SettleFails(l) PROVE DayInv'
    BY <2>3, QuietDayInv DEF SettleFails
  <2>4. CASE StartDaemon \/ SettlementAborts
    BY <2>4, QuietDayInv DEF StartDaemon, SettlementAborts
  <2>5. CASE OpenSession \/ ScanFails
    BY <2>5, QuietDayInv DEF OpenSession, ScanFails
  <2> QED BY <1>3, <2>1, <2>2, <2>3, <2>4, <2>5 DEF Settlement
<1>4. CASE DaemonEnds
  <2>1. closer' = [c \in Closers |-> Idle] /\ UNCHANGED <<paper_trades, net_qty, today>>
    BY <1>4 DEF DaemonEnds
  <2>2. \A d \in Closers : closer'[d].pc = "record" => closer'[d] = closer[d]
    BY <2>1 DEF Idle
  <2> QED BY <2>1, <2>2, QuietDayInv
<1>5. CASE NextDay
  BY <1>5, NextDayDayInv
<1>6. CASE UNCHANGED vars
  BY <1>6, QuietDayInv DEF vars
<1> QED BY <1>1, <1>2, <1>3, <1>4, <1>5, <1>6 DEF Next

\* The close of a position carried over from an earlier day is never swallowed
\* by record_trade's duplicate guard.
THEOREM LedgerCarriedLegClosable == Spec => []CarriedLegClosable
<1>1. DayInv => CarriedLegClosable
  BY DuplicateIsBooked
     DEF DayInv, LiveAfterClose, CarriedLegClosable, ClosingTrade, OpenedToday, ClosedToday
<1>2. IInv /\ DayInv /\ [Next]_vars => DayInv'
  BY NextDayInvariant
<1> QED BY InitDayInv, SpecIInv, <1>1, <1>2, PTL DEF Spec

-----------------------------------------------------------------------------
(* The collar beside the ledger.                                           *)

\* A behaviour of the two is one of the collar: they share no row.
LEMMA CollarBehaviour == LedgerCollarSpec => Collar!Spec
<1>1. LedgerCollarInit => Collar!Init
  BY DEF LedgerCollarInit
<1>2. [LedgerCollarNext]_<<vars, collar, running>> => [Collar!Next]_Collar!vars
  BY DEF LedgerCollarNext, collar, Collar!vars
<1> QED
  BY <1>1, <1>2, PTL DEF LedgerCollarSpec, Collar!Spec

\* The collar's variables hold values the program can hold, and a closer is
\* marking legs exactly while it has legs to mark.
THEOREM LedgerCollarTyped == LedgerCollarSpec => []CollarTypeOK
<1>1. Collar!Spec => []Collar!CollarTypeOK
  BY CollarAssumption, Collar!CollarTyped
<1> QED
  BY <1>1, CollarBehaviour, PTL DEF CollarTypeOK

\* The collar is broken only by a batch of which one trade was skipped, or by
\* an entry that came while another process closed.
THEOREM LedgerCollarWhole == LedgerCollarSpec => []PartialOnlyByDuplicate
<1>1. Collar!Spec => []Collar!PartialOnlyByDuplicate
  BY CollarAssumption, Collar!CollarWhole
<1> QED
  BY <1>1, CollarBehaviour, PTL DEF PartialOnlyByDuplicate

\* The entry's gate and the close before each re-entry keep a single pair.
THEOREM LedgerCollarOnePair == LedgerCollarSpec => []OnePair
<1>1. Collar!Spec => []Collar!OnePair
  BY CollarAssumption, Collar!CollarOnePair
<1> QED
  BY <1>1, CollarBehaviour, PTL DEF OnePair

\* An exit event of the collar's call becomes ACTED only when the call is flat.
THEOREM LedgerCollarActed == LedgerCollarSpec => ActedIsFlat
<1>1. Collar!Spec => Collar!ActedIsFlat
  BY CollarAssumption, Collar!CollarActed
<1> QED
  BY <1>1, CollarBehaviour, PTL DEF ActedIsFlat
===============================================================================
