-------------------------- MODULE CollarPairProofs --------------------------
(***************************************************************************)
(* The collar, for any calls, puts, signals and days: it is whole or flat, *)
(* there is one of it, and an exit event is ACTED when its call is flat.   *)
(* The net quantity of a leg is a sum over rows; what the batches do to it *)
(* is proved in PaperTradesProofs.                                         *)
(***************************************************************************)
EXTENDS CollarPair, PaperTradesProofs

-----------------------------------------------------------------------------
(* The inductive invariant.                                                *)

TickPhases == {"close", "mark", "reenter"}
Ticks ==
  {Idle} \cup [pc : TickPhases, closes : SUBSET Trades,
               to_mark : SUBSET PairLegs]

SnapshotPhases == {"scan", "read", "close", "failed", "mark", "resolve"}
Snapshots ==
  {Idle} \cup [pc : SnapshotPhases, seen : SUBSET Calls,
               event : SUBSET (Calls \X Signals),
               existing : SUBSET (Calls \X Signals),
               closes : SUBSET Trades, to_mark : SUBSET PairLegs]

IsLedger(T) == IsTable(T, PairLegs) /\ \A r \in T : r.date \in Days

WorldTypes ==
  /\ IsLedger(paper_trades)
  /\ exit_events \subseteq ExitEvents
  /\ today \in Days
  /\ daemon \in {"up", "down"}
  /\ skipped \in BOOLEAN /\ overtaken \in BOOLEAN

\* The snapshot runs when the daemon is down, the monitor when it is up.
TickTypes ==
  /\ tick \in Ticks
  /\ tick # Idle => daemon = "up" /\ (tick.pc = "mark" <=> tick.to_mark # {})
  /\ tick.pc = "close" => IsLedger(tick.closes)

SnapshotTypes ==
  /\ cron \in Snapshots
  /\ cron # Idle => /\ daemon = "down"
                    /\ cron.event \subseteq cron.existing
                    /\ cron.pc = "mark" <=> cron.to_mark # {}
  /\ cron.pc = "close" => IsLedger(cron.closes) /\ cron.closes # {}

CollarTypes == WorldTypes /\ TickTypes /\ SnapshotTypes

LegsOf(trades) == {t.leg : t \in trades}

\* Closing trades that make their legs flat.
Flatten(T, trades) ==
  /\ \A t \in trades : Amount(t) = -Held(T, t.leg)
  /\ \A t, u \in trades : t.leg = u.leg => t = u

\* The closes a closer is about to write are those of what is held: nobody
\* but an entry script can have written since the positions were read.
ClosesAreCurrent ==
  ~overtaken =>
    /\ tick.pc = "close" => Flatten(paper_trades, tick.closes)
    /\ cron.pc = "close" => Flatten(paper_trades, cron.closes)

AllFlat(T) == \A l \in PairLegs : Held(T, l) = 0
PairHeld(T, c, p) ==
  /\ Held(T, c) = -1 /\ Held(T, p) = 1
  /\ \A l \in PairLegs \ {c, p} : Held(T, l) = 0
WholeOrFlat(T) == AllFlat(T) \/ \E c \in Calls, p \in Puts : PairHeld(T, c, p)

\* A closer that is about to write has both legs of the one pair.
ClosesThePair(T, closes) ==
  \E c \in Calls, p \in Puts : PairHeld(T, c, p) /\ LegsOf(closes) = {c, p}

\* What is held in each phase of a closer that nobody interferes with.
CollarPosition ==
  ~skipped /\ ~overtaken =>
    /\ WholeOrFlat(paper_trades)
    /\ tick.pc = "close" => ClosesThePair(paper_trades, tick.closes)
    /\ tick.pc \in {"mark", "reenter"} => AllFlat(paper_trades)
    /\ cron.pc = "close" => ClosesThePair(paper_trades, cron.closes)
    /\ cron.pc \in {"mark", "resolve"} => AllFlat(paper_trades)

\* The legs of either role that are live in a table.
ShortCalls(T) == {c \in Calls : Held(T, c) < 0}
LongPuts(T) == {p \in Puts : Held(T, p) > 0}

\* A snapshot works on the calls it saw, and when it saw one it closes that.
SeenIsClosed ==
  ~overtaken /\ cron # Idle =>
    /\ ShortCalls(paper_trades) \subseteq cron.seen
    /\ \A c \in Calls : cron.seen = {c} =>
         /\ cron.pc = "close" /\ c \in ShortCalls(paper_trades) =>
              c \in LegsOf(cron.closes)
         /\ cron.pc \in {"mark", "resolve"} => c \notin ShortCalls(paper_trades)

CollarInv ==
  CollarTypes /\ ClosesAreCurrent /\ CollarPosition /\ SeenIsClosed

-----------------------------------------------------------------------------
(* What is held.                                                           *)

LEMMA NetIsHeld ==
  /\ \A l : Net(l) = Held(paper_trades, l)
  /\ LiveCalls = ShortCalls(paper_trades) /\ LiveCalls' = ShortCalls(paper_trades')
  /\ LivePuts = LongPuts(paper_trades) /\ LivePuts' = LongPuts(paper_trades')
BY DEF Net, Held, LiveCalls, LivePuts, ShortCalls, LongPuts

LEMMA HeldIsInt ==
  ASSUME CollarTypes
  PROVE  \A l : Held(paper_trades, l) \in Int
BY HeldType DEF CollarTypes, WorldTypes, IsLedger

\* Of the live legs of a role some leg was entered last.
LEMMA NewestExists ==
  ASSUME CollarTypes, LastDay \in Nat \ {0}, Calls \cap Puts = {},
         NEW S \in SUBSET (LiveCalls \cup LivePuts)
  PROVE  /\ S # {} => Newest(S) # {}
         /\ \A l : S = {l} => Newest(S) = {l}
<1>1. ASSUME NEW l \in LiveCalls \cup LivePuts
      PROVE  EntryDate(l) \in Days
  <2> DEFINE Dates == {r.date : r \in {t \in paper_trades :
                                  t.leg = l /\ t.action = OpeningSide(l)}}
  <2>1. IsTable(paper_trades, PairLegs) /\ \A r \in paper_trades : r.date \in Days
    BY DEF CollarTypes, WorldTypes, IsLedger
  <2>2. \E r \in paper_trades : r.leg = l /\ r.action = OpeningSide(l)
    BY <2>1, NetIsHeld, HeldHasOpener DEF ShortCalls, LongPuts, OpeningSide
  <2>3. Dates \in SUBSET (1 .. LastDay) /\ Dates # {}
    BY <2>1, <2>2 DEF Days
  <2> HIDE DEF Dates
  <2>4. Max(Dates) \in Dates
    BY <2>3, LatestDay
  <2> QED BY <2>3, <2>4 DEF EntryDate, Dates, Days
<1> DEFINE Entered == {EntryDate(l) : l \in S}
<1>2. Entered \in SUBSET (1 .. LastDay)
  BY <1>1 DEF Days
<1>3. ASSUME S # {} PROVE Newest(S) # {}
  <2>1. Entered # {}
    BY <1>3
  <2> HIDE DEF Entered
  <2>2. Max(Entered) \in Entered /\ \A d \in Entered : d <= Max(Entered)
    BY <1>2, <2>1, LatestDay
  <2>3. PICK l \in S : EntryDate(l) = Max(Entered)
    BY <2>2 DEF Entered
  <2>4. l \in Newest(S)
    BY <2>2, <2>3 DEF Newest, Entered
  <2> QED BY <2>4
<1>4. ASSUME NEW l, S = {l} PROVE Newest(S) = {l}
  <2>1. EntryDate(l) \in Int
    BY <1>1, <1>4 DEF Days
  <2> QED BY <1>4, <2>1 DEF Newest
<1> QED BY <1>3, <1>4

-----------------------------------------------------------------------------
(* The batches.                                                            *)

LEMMA WritesAreLedgers ==
  ASSUME CollarTypes
  PROVE  /\ \A B : IsLedger(B) => IsLedger(RecordTrades(paper_trades, B))
         /\ \A l : IsLedger(MarkTradeClosed(paper_trades, l))
<1>1. IsTable(paper_trades, PairLegs) /\ \A r \in paper_trades : r.date \in Days
  BY DEF CollarTypes, WorldTypes, IsLedger
<1>2. ASSUME NEW B, IsLedger(B)
      PROVE  IsLedger(RecordTrades(paper_trades, B))
  <2>1. IsTable(RecordTrades(paper_trades, B), PairLegs)
    BY <1>1, <1>2, RecordTradesTable DEF IsLedger
  <2>2. \A r \in RecordTrades(paper_trades, B) : r.date \in Days
    BY <1>1, <1>2 DEF RecordTrades, Inserted, IsLedger
  <2> QED BY <2>1, <2>2 DEF IsLedger
<1>3. ASSUME NEW l
      PROVE  IsLedger(MarkTradeClosed(paper_trades, l))
  <2>1. IsTable(MarkTradeClosed(paper_trades, l), PairLegs)
    BY <1>1, MarkTradeClosedTable
  <2>2. ASSUME NEW r \in paper_trades
        PROVE  (IF r.leg = l /\ r.state \in OpenStates
                  THEN [r EXCEPT !.state = "CLOSED"] ELSE r).date \in Days
    <3>1. r \in TradeRow(PairLegs) /\ r.date \in Days
      BY <1>1 DEF IsTable
    <3> QED BY <3>1 DEF TradeRow
  <2>3. \A r \in MarkTradeClosed(paper_trades, l) : r.date \in Days
    BY <2>2 DEF MarkTradeClosed
  <2> QED BY <2>1, <2>3 DEF IsLedger
<1> QED BY <1>2, <1>3

\* The batch that opens a pair.
LEMMA OpenedPair ==
  ASSUME CollarTypes, Calls \cap Puts = {}, NEW c \in Calls, NEW p \in Puts
  PROVE  /\ IsLedger({Open(c), Open(p)})
         /\ PairHeld({Open(c), Open(p)}, c, p)
<1> DEFINE B == {Open(c), Open(p)}
<1>1. /\ c \in PairLegs /\ p \in PairLegs /\ c # p /\ p \notin Calls
      /\ today \in Int /\ today \in Days
  BY DEF PairLegs, CollarTypes, WorldTypes, Days
<1>2. /\ Open(c) \in TradeRow(PairLegs) /\ Open(p) \in TradeRow(PairLegs)
  BY <1>1, TradeIsRow DEF Open, OpeningSide, Actions
<1>3. /\ Open(c).leg = c /\ Open(c).date = today /\ Amount(Open(c)) = -1
      /\ Open(p).leg = p /\ Open(p).date = today /\ Amount(Open(p)) = 1
  BY <1>1 DEF Open, Trade, OpeningSide, Amount, Signed
<1>4. IsFiniteSet(B)
  <2>1. IsFiniteSet({Open(c)}) /\ {Open(c)} \cup {Open(p)} = B
    BY FS_Singleton
  <2> QED BY <2>1, FS_AddElement
<1>5. IsTable(B, PairLegs)
  BY <1>1, <1>2, <1>3, <1>4 DEF IsTable, SameKey
<1>6. IsLedger(B)
  BY <1>1, <1>3, <1>5 DEF IsLedger
<1>7. Held(B, c) = -1 /\ Held(B, p) = 1
  BY <1>1, <1>3, <1>5, HeldOfOne
<1>8. \A l \in PairLegs \ {c, p} : Held(B, l) = 0
  BY <1>3, HeldOfNone
<1> QED BY <1>6, <1>7, <1>8 DEF PairHeld

\* The batch that closes what is held of some live legs.
LEMMA ClosesOf ==
  ASSUME CollarTypes, Calls \cap Puts = {},
         NEW S \in SUBSET (LiveCalls \cup LivePuts), IsFiniteSet(S)
  PROVE  LET closes == {Close(l) : l \in S}
         IN  /\ IsLedger(closes) /\ closes \subseteq Trades
             /\ Flatten(paper_trades, closes) /\ LegsOf(closes) = S
<1> DEFINE closes == {Close(l) : l \in S}
<1>1. /\ today \in Int /\ today \in Days
      /\ \A l : Held(paper_trades, l) \in Int
  BY HeldIsInt DEF CollarTypes, WorldTypes, Days
<1>2. ASSUME NEW l \in S
      PROVE  /\ Close(l) \in TradeRow(PairLegs) /\ Close(l) \in Trades
             /\ Close(l).leg = l /\ Close(l).date = today
             /\ Amount(Close(l)) = -Held(paper_trades, l)
  <2> DEFINE q == Held(paper_trades, l)
  <2>1. /\ l \in PairLegs
        /\ \/ l \in Calls /\ q < 0
           \/ l \in Puts /\ l \notin Calls /\ q > 0
    BY NetIsHeld DEF ShortCalls, LongPuts, PairLegs
  <2>2. Net(l) = q /\ q \in Int
    BY <1>1, NetIsHeld
  <2> HIDE DEF q
  <2>3. Magnitude(q) \in Nat \ {0}
    BY <2>1, <2>2 DEF Magnitude
  <2>4. Opposite(OpeningSide(l)) \in Actions
    BY DEF Opposite, Actions
  <2>5. Close(l) = Trade(l, today, Opposite(OpeningSide(l)), Magnitude(q))
    BY <2>2 DEF Close
  <2>6. Close(l) \in TradeRow(PairLegs)
    BY <1>1, <2>1, <2>3, <2>4, <2>5, TradeIsRow
  <2>7. Close(l) \in Trades
    BY <1>1, <2>5, <2>6 DEF Trades, TradeRow, Trade
  <2>8. Amount(Close(l)) = -q
    BY <2>1, <2>2, <2>5
       DEF Trade, Amount, Signed, Opposite, OpeningSide, Magnitude
  <2> QED BY <2>5, <2>6, <2>7, <2>8 DEF Trade, q
<1>3. IsFiniteSet(closes)
  <2> DEFINE f == [l \in S |-> Close(l)]
  <2>1. f \in Surjection(S, closes)
    BY DEF Surjection
  <2> QED BY <2>1, FS_Surjection
<1>4. IsTable(closes, PairLegs)
  BY <1>2, <1>3 DEF IsTable, SameKey
<1>5. IsLedger(closes) /\ closes \subseteq Trades
  BY <1>1, <1>2, <1>4 DEF IsLedger
<1>6. Flatten(paper_trades, closes) /\ LegsOf(closes) = S
  BY <1>2 DEF Flatten, LegsOf
<1> QED BY <1>5, <1>6

\* A batch of such closes: the legs of the trades inserted are flat, the
\* others as they were.
LEMMA FlattenedLegs ==
  ASSUME CollarTypes, NEW B, IsLedger(B), Flatten(paper_trades, B),
         paper_trades' = RecordTrades(paper_trades, B)
  PROVE  \A l : Held(paper_trades', l) =
                  IF l \in InsertedLegs(B) THEN 0 ELSE Held(paper_trades, l)
<1> DEFINE I == Inserted(paper_trades, B)
<1>1. IsTable(paper_trades, PairLegs) /\ IsTable(B, PairLegs)
  BY DEF CollarTypes, WorldTypes, IsLedger
<1>2. I \subseteq B /\ IsTable(I, PairLegs)
  BY <1>1, FS_Subset DEF IsTable, Inserted
<1>3. \A l : Held(paper_trades', l) = Held(paper_trades, l) + Held(I, l)
  BY <1>1, RecordTradesTable
<1> HIDE DEF I
<1>4. ASSUME NEW l
      PROVE  Held(I, l) = IF l \in {t.leg : t \in I} THEN -Held(paper_trades, l) ELSE 0
  <2>1. CASE l \in {t.leg : t \in I}
    <3>1. PICK t \in I : t.leg = l
      BY <2>1
    <3>2. \A s \in I : s.leg = l => s = t
      BY <1>2, <3>1 DEF Flatten
    <3>3. Held(I, l) = Amount(t)
      BY <1>2, <3>1, <3>2, HeldOfOne
    <3>4. Amount(t) = -Held(paper_trades, l)
      BY <1>2, <3>1 DEF Flatten
    <3> QED BY <2>1, <3>3, <3>4
  <2>2. CASE l \notin {t.leg : t \in I}
    BY <2>2, HeldOfNone
  <2> QED BY <2>1, <2>2
<1>5. \A l : Held(paper_trades, l) \in Int
  BY HeldIsInt
<1>6. InsertedLegs(B) = {t.leg : t \in I}
  BY DEF InsertedLegs, I
<1> QED BY <1>3, <1>4, <1>5, <1>6

LEMMA MarksMoveNothing ==
  ASSUME CollarTypes, NEW l, paper_trades' = MarkTradeClosed(paper_trades, l)
  PROVE  \A k : Held(paper_trades', k) = Held(paper_trades, k)
BY MarkTradeClosedTable DEF CollarTypes, WorldTypes, IsLedger

-----------------------------------------------------------------------------
(* The two closers.                                                        *)

LEMMA Phases ==
  ASSUME CollarTypes
  PROVE  /\ Idle.pc = "idle"
         /\ tick # Idle => /\ tick \in [pc : TickPhases, closes : SUBSET Trades,
                                        to_mark : SUBSET PairLegs]
                          /\ tick.pc \in TickPhases /\ tick.pc # "idle"
                          /\ daemon = "up" /\ cron = Idle
         /\ cron # Idle => /\ cron \in [pc : SnapshotPhases, seen : SUBSET Calls,
                                        event : SUBSET (Calls \X Signals),
                                        existing : SUBSET (Calls \X Signals),
                                        closes : SUBSET Trades,
                                        to_mark : SUBSET PairLegs]
                          /\ cron.pc \in SnapshotPhases /\ cron.pc # "idle"
                          /\ daemon = "down" /\ tick = Idle
BY DEF CollarTypes, TickTypes, SnapshotTypes, Ticks, Snapshots, TickPhases,
       SnapshotPhases, Idle

\* What a tick closes are live legs: the call of the signal and a put.
LEMMA SignalCloses ==
  ASSUME CollarTypes, Calls \cap Puts = {},
         NEW c \in LiveCalls, NEW put \in PickOf(LivePuts)
  PROVE  /\ {c} \cup put \subseteq LiveCalls \cup LivePuts
         /\ IsFiniteSet({c} \cup put)
         /\ \A p : LivePuts = {p} => put = {p}
<1>1. put = {} \/ \E p \in LivePuts : put = {p}
  BY DEF PickOf
<1>2. IsFiniteSet({c}) /\ IsFiniteSet(put)
  BY <1>1, FS_Singleton, FS_EmptySet
<1>3. \A p : LivePuts = {p} => put = {p}
  BY <1>1 DEF PickOf
<1> QED BY <1>1, <1>2, <1>3, FS_Union

\* What a snapshot closes are the newest legs of both roles, where there are any.
LEMMA SnapshotCloses ==
  ASSUME CollarTypes, Calls \cap Puts = {}, LastDay \in Nat \ {0},
         LiveCalls \cup LivePuts # {},
         NEW call \in PickOf(Newest(LiveCalls)), NEW put \in PickOf(Newest(LivePuts))
  PROVE  /\ call \cup put \subseteq LiveCalls \cup LivePuts
         /\ call \cup put # {} /\ IsFiniteSet(call \cup put)
         /\ \A c : LiveCalls = {c} => call = {c}
         /\ \A p : LivePuts = {p} => put = {p}
<1>1. /\ LiveCalls # {} => Newest(LiveCalls) # {}
      /\ LivePuts # {} => Newest(LivePuts) # {}
      /\ \A c : LiveCalls = {c} => Newest(LiveCalls) = {c}
      /\ \A p : LivePuts = {p} => Newest(LivePuts) = {p}
  <2>1. /\ LiveCalls \in SUBSET (LiveCalls \cup LivePuts)
        /\ LivePuts \in SUBSET (LiveCalls \cup LivePuts)
    OBVIOUS
  <2> QED BY <2>1, NewestExists
<1>2. Newest(LiveCalls) \subseteq LiveCalls /\ Newest(LivePuts) \subseteq LivePuts
  BY DEF Newest
<1>3. call = {} \/ \E c \in LiveCalls : call = {c}
  BY <1>2 DEF PickOf
<1>4. put = {} \/ \E p \in LivePuts : put = {p}
  BY <1>2 DEF PickOf
<1>5. IsFiniteSet(call) /\ IsFiniteSet(put)
  <2>1. \A x : IsFiniteSet({x})
    BY FS_Singleton
  <2>2. IsFiniteSet({})
    BY FS_EmptySet
  <2>3. IsFiniteSet(call)
    BY <1>3, <2>1, <2>2
  <2> QED BY <1>4, <2>1, <2>2, <2>3
<1>6. call \cup put # {}
  <2>1. CASE LiveCalls # {}
    BY <1>1, <2>1 DEF PickOf
  <2>2. CASE LivePuts # {}
    BY <1>1, <2>2 DEF PickOf
  <2> QED BY <2>1, <2>2
<1>7. \A c : LiveCalls = {c} => call = {c}
  BY <1>1 DEF PickOf
<1>8. \A p : LivePuts = {p} => put = {p}
  BY <1>1 DEF PickOf
<1> QED BY <1>3, <1>4, <1>5, <1>6, <1>7, <1>8, FS_Union

\* A pair is one live call and one live put, and nothing held is none.
LEMMA PairIsLive ==
  ASSUME Calls \cap Puts = {}, NEW T
  PROVE  /\ AllFlat(T) => ShortCalls(T) = {} /\ LongPuts(T) = {}
         /\ \A c \in Calls, p \in Puts : PairHeld(T, c, p) =>
              ShortCalls(T) = {c} /\ LongPuts(T) = {p}
BY DEF AllFlat, PairHeld, ShortCalls, LongPuts, PairLegs

\* The statuses of an exit event are all that a resolution changes.
LEMMA ResolvedEvents ==
  ASSUME CollarTypes, NEW status \in Statuses
  PROVE  /\ Resolved(status) \subseteq ExitEvents
         /\ \A e \in Resolved(status) : e \in exit_events \/ e.status = status
<1>1. ASSUME NEW e \in exit_events
      PROVE  /\ [e EXCEPT !.status = status] \in ExitEvents
             /\ [e EXCEPT !.status = status].status = status
             /\ e \in ExitEvents
  BY <1>1 DEF CollarTypes, WorldTypes, ExitEvents
<1> QED BY <1>1 DEF Resolved

-----------------------------------------------------------------------------
(* Types.                                                                  *)

LEMMA RecordTyped ==
  ASSUME CollarTypes, NEW B, IsLedger(B), Record(B)
  PROVE  IsLedger(paper_trades)' /\ skipped' \in BOOLEAN
<1>1. IsLedger(paper_trades')
  BY WritesAreLedgers DEF Record
<1>2. skipped' \in BOOLEAN
  BY Zenon DEF Record
<1> QED BY <1>1, <1>2 DEF IsLedger

LEMMA WorldStep ==
  ASSUME LastDay \in Nat \ {0}, Calls \cap Puts = {}, CollarTypes, [Next]_vars
  PROVE  WorldTypes'
<1> USE DEF ledger
<1>0. /\ exit_events \subseteq ExitEvents /\ today \in Days
      /\ daemon \in {"up", "down"}
  BY DEF CollarTypes, WorldTypes
<1>1. exit_events' \subseteq ExitEvents
  <2>1. ASSUME NEW c \in Calls, NEW s \in Signals, CreateExitEvent(c, s)
        PROVE  exit_events' \subseteq ExitEvents
    BY <1>0, <2>1 DEF CreateExitEvent, ExitEvents, Statuses
  <2>2. CASE ReadPair \/ ResolveActed
    BY <1>0, <2>2, ResolvedEvents DEF ReadPair, ResolveActed, Statuses
  <2>3. CASE UNCHANGED exit_events
    BY <1>0, <2>3
  <2> QED
    BY <2>1, <2>2, <2>3, Zenon DEF Next, vars, EnterPair, Reenter, Signal,
       CloseBothLegs, TickGivesUp, MarkClosedLeg, MarkWrittenLeg, StartSnapshot,
       WritePair, ReportFailure, AutoCloseFails, EndSnapshot, StartDaemon,
       DaemonEnds, NextDay
<1>2. today' \in Days
  <2>1. CASE NextDay
    BY <1>0, <2>1 DEF NextDay, Days
  <2>2. CASE UNCHANGED today
    BY <1>0, <2>2
  <2> QED
    BY <2>1, <2>2, Zenon DEF Next, vars, EnterPair, Reenter, Signal,
       CloseBothLegs, TickGivesUp, MarkClosedLeg, MarkWrittenLeg, StartSnapshot,
       CreateExitEvent, ReadPair, WritePair, ReportFailure, ResolveActed,
       AutoCloseFails, EndSnapshot, StartDaemon, DaemonEnds
<1>3. daemon' \in {"up", "down"}
  <2>1. CASE UNCHANGED daemon
    BY <1>0, <2>1
  <2>2. CASE StartDaemon \/ DaemonEnds
    BY <2>2 DEF StartDaemon, DaemonEnds
  <2> QED
    BY <2>1, <2>2, Zenon DEF Next, vars, EnterPair, Reenter, Signal,
       CloseBothLegs, TickGivesUp, MarkClosedLeg, MarkWrittenLeg, StartSnapshot,
       CreateExitEvent, ReadPair, WritePair, ReportFailure, ResolveActed,
       AutoCloseFails, EndSnapshot, NextDay
<1>4. IsLedger(paper_trades)' /\ skipped' \in BOOLEAN
  <2>0. IsLedger(paper_trades) /\ skipped \in BOOLEAN
    BY DEF CollarTypes, WorldTypes
  <2>1. ASSUME NEW c \in Calls, NEW p \in Puts, EnterPair(c, p) \/ Reenter(c, p)
        PROVE  IsLedger(paper_trades)' /\ skipped' \in BOOLEAN
    BY <2>1, OpenedPair, RecordTyped DEF EnterPair, Reenter
  <2>2. CASE CloseBothLegs
    BY <2>2, RecordTyped DEF CloseBothLegs, CollarTypes, TickTypes
  <2>3. CASE WritePair
    BY <2>3, RecordTyped DEF WritePair, CollarTypes, SnapshotTypes
  <2>4. ASSUME NEW l \in PairLegs, MarkClosedLeg(l) \/ MarkWrittenLeg(l)
        PROVE  IsLedger(paper_trades)' /\ skipped' \in BOOLEAN
    <3>1. IsLedger(paper_trades')
      BY <2>4, WritesAreLedgers DEF MarkClosedLeg, MarkWrittenLeg
    <3>2. skipped' \in BOOLEAN
      BY <2>0, <2>4, Zenon DEF MarkClosedLeg, MarkWrittenLeg
    <3> QED BY <3>1, <3>2 DEF IsLedger
  <2>5. CASE UNCHANGED ledger
    <3>1. skipped' \in BOOLEAN
      BY <2>0, <2>5, Zenon
    <3> QED BY <2>0, <2>5, <3>1 DEF IsLedger
  <2> QED
    BY <2>1, <2>2, <2>3, <2>4, <2>5, Zenon DEF Next, vars, Signal, TickGivesUp,
       StartSnapshot, CreateExitEvent, ReadPair, ReportFailure, ResolveActed,
       AutoCloseFails, EndSnapshot, StartDaemon, DaemonEnds, NextDay
<1>5. overtaken' \in BOOLEAN
  <2>0. overtaken \in BOOLEAN
    BY Zenon DEF CollarTypes, WorldTypes
  <2>1. ASSUME NEW c \in Calls, NEW p \in Puts, EnterPair(c, p)
        PROVE  overtaken' \in BOOLEAN
    BY <2>1, Zenon DEF EnterPair
  <2>2. CASE UNCHANGED overtaken
    BY <2>0, <2>2, Zenon
  <2> QED
    BY <2>1, <2>2, Zenon DEF Next, vars, Reenter, Signal, CloseBothLegs,
     TickGivesUp, MarkClosedLeg, MarkWrittenLeg, StartSnapshot, CreateExitEvent,
     ReadPair, WritePair, ReportFailure, ResolveActed, AutoCloseFails,
     EndSnapshot, StartDaemon, DaemonEnds, NextDay
<1> QED BY <1>1, <1>2, <1>3, <1>4, <1>5 DEF WorldTypes

TickRecords ==
  [pc : TickPhases, closes : SUBSET Trades, to_mark : SUBSET PairLegs]

SnapshotRecords ==
  [pc : SnapshotPhases, seen : SUBSET Calls, event : SUBSET (Calls \X Signals),
   existing : SUBSET (Calls \X Signals), closes : SUBSET Trades,
   to_mark : SUBSET PairLegs]

\* A step of a tick that moves its phase and what it has to mark.
LEMMA TickMoves ==
  ASSUME CollarTypes, tick # Idle, NEW phase \in TickPhases,
         NEW m \in SUBSET PairLegs,
         tick' = [tick EXCEPT !.to_mark = m, !.pc = phase]
  PROVE  /\ tick' \in TickRecords /\ tick' # Idle
         /\ tick'.pc = phase /\ tick'.to_mark = m /\ tick'.closes = tick.closes
<1>1. tick \in TickRecords
  BY Phases DEF TickRecords
<1>2. /\ tick' \in TickRecords
      /\ tick'.pc = phase /\ tick'.to_mark = m /\ tick'.closes = tick.closes
  BY <1>1 DEF TickRecords
<1> QED BY <1>2, Phases DEF TickPhases

\* The same for a snapshot.
LEMMA SnapshotMoves ==
  ASSUME CollarTypes, cron # Idle, NEW phase \in SnapshotPhases
  PROVE  /\ \A m \in SUBSET PairLegs :
              cron' = [cron EXCEPT !.to_mark = m, !.pc = phase] =>
                /\ cron' \in SnapshotRecords /\ cron'.pc = phase
                /\ cron'.to_mark = m /\ cron'.closes = cron.closes
                /\ UNCHANGED <<cron.seen, cron.event, cron.existing>>
         /\ \A B \in SUBSET Trades :
              cron' = [cron EXCEPT !.pc = phase, !.closes = B] =>
                /\ cron' \in SnapshotRecords /\ cron'.pc = phase
                /\ cron'.closes = B
                /\ UNCHANGED <<cron.seen, cron.event, cron.existing, cron.to_mark>>
         /\ cron' = [cron EXCEPT !.pc = phase] =>
                /\ cron' \in SnapshotRecords /\ cron'.pc = phase
                /\ UNCHANGED <<cron.seen, cron.event, cron.existing, cron.to_mark,
                               cron.closes>>
         /\ \A r \in SnapshotRecords : r # Idle
<1>1. cron \in SnapshotRecords
  BY Phases DEF SnapshotRecords
<1>2. ASSUME NEW m \in SUBSET PairLegs,
             cron' = [cron EXCEPT !.to_mark = m, !.pc = phase]
      PROVE  /\ cron' \in SnapshotRecords /\ cron'.pc = phase
             /\ cron'.to_mark = m /\ cron'.closes = cron.closes
             /\ UNCHANGED <<cron.seen, cron.event, cron.existing>>
  BY <1>1, <1>2 DEF SnapshotRecords
<1>3. ASSUME NEW B \in SUBSET Trades,
             cron' = [cron EXCEPT !.pc = phase, !.closes = B]
      PROVE  /\ cron' \in SnapshotRecords /\ cron'.pc = phase
             /\ cron'.closes = B
             /\ UNCHANGED <<cron.seen, cron.event, cron.existing, cron.to_mark>>
  BY <1>1, <1>3 DEF SnapshotRecords
<1>4. ASSUME cron' = [cron EXCEPT !.pc = phase]
      PROVE  /\ cron' \in SnapshotRecords /\ cron'.pc = phase
             /\ UNCHANGED <<cron.seen, cron.event, cron.existing, cron.to_mark,
                            cron.closes>>
  BY <1>1, <1>4 DEF SnapshotRecords
<1>5. \A r \in SnapshotRecords : r # Idle
  BY Phases DEF SnapshotRecords, SnapshotPhases
<1> QED BY <1>2, <1>3, <1>4, <1>5

LEMMA TickStep ==
  ASSUME LastDay \in Nat \ {0}, Calls \cap Puts = {}, CollarTypes, [Next]_vars
  PROVE  TickTypes'
<1> USE DEF ledger
<1>0. Idle \in Ticks /\ Idle.pc = "idle" /\ TickRecords \subseteq Ticks
  BY DEF Ticks, Idle, TickRecords
<1>1. CASE tick' = Idle
  BY <1>0, <1>1 DEF TickTypes
<1>2. ASSUME NEW c \in Calls, Signal(c) PROVE TickTypes'
  <2>1. PICK put \in PickOf(LivePuts) :
          tick' = [pc |-> "close", closes |-> {Close(l) : l \in {c} \cup put},
                   to_mark |-> {}]
    BY <1>2 DEF Signal
  <2>2. c \in LiveCalls /\ daemon' = "up"
    BY <1>2 DEF Signal
  <2> DEFINE closes == {Close(l) : l \in {c} \cup put}
  <2>3. IsLedger(closes) /\ closes \subseteq Trades
    <3>1. {c} \cup put \in SUBSET (LiveCalls \cup LivePuts) /\ IsFiniteSet({c} \cup put)
      BY <2>2, SignalCloses
    <3> QED BY <3>1, ClosesOf
  <2> HIDE DEF closes
  <2>4. tick'.pc = "close" /\ tick'.closes = closes /\ tick'.to_mark = {}
    BY <2>1 DEF closes
  <2>5. tick' \in TickRecords
    BY <2>1, <2>3 DEF TickRecords, TickPhases, closes
  <2>6. IsLedger(tick.closes)'
    BY <2>3, <2>4 DEF IsLedger
  <2> QED BY <1>0, <2>2, <2>4, <2>5, <2>6 DEF TickTypes
<1>3. CASE CloseBothLegs
  <2> DEFINE m == InsertedLegs(tick.closes)
             phase == IF m = {} THEN "reenter" ELSE "mark"
  <2>1. tick.pc = "close" /\ daemon' = daemon /\ tick # Idle
    BY <1>0, <1>3 DEF CloseBothLegs
  <2>2. tick.closes \subseteq Trades
    BY <2>1, Phases
  <2>3. m \in SUBSET PairLegs
    BY <2>2 DEF InsertedLegs, Inserted, Trades
  <2>4. tick' = [tick EXCEPT !.to_mark = m, !.pc = phase] /\ phase \in TickPhases
    BY <1>3 DEF CloseBothLegs, TickPhases
  <2>5. /\ tick' \in TickRecords /\ tick' # Idle /\ tick'.pc = phase /\ tick'.to_mark = m
    <3> HIDE DEF m, phase
    <3> QED BY <2>1, <2>3, <2>4, TickMoves
  <2>6. daemon' = "up"
    BY <2>1, Phases
  <2> QED BY <1>0, <2>5, <2>6 DEF TickTypes
<1>4. ASSUME NEW l \in PairLegs, MarkClosedLeg(l) PROVE TickTypes'
  <2> DEFINE m == tick.to_mark \ {l}
             phase == IF tick.to_mark = {l} THEN "reenter" ELSE "mark"
  <2>1. /\ tick.pc = "mark" /\ daemon' = daemon /\ tick # Idle
        /\ l \in tick.to_mark
    BY <1>0, <1>4 DEF MarkClosedLeg, NextToMark
  <2>2. m \in SUBSET PairLegs
    BY <2>1, Phases
  <2>3. tick' = [tick EXCEPT !.to_mark = m, !.pc = phase] /\ phase \in TickPhases
    BY <1>4 DEF MarkClosedLeg, TickPhases
  <2>4. phase = "mark" <=> m # {}
    BY <2>1
  <2>5. phase # "close"
    OBVIOUS
  <2>6. /\ tick' \in TickRecords /\ tick' # Idle /\ tick'.pc = phase /\ tick'.to_mark = m
    <3> HIDE DEF m, phase
    <3> QED BY <2>1, <2>2, <2>3, TickMoves
  <2>7. daemon' = "up"
    BY <2>1, Phases
  <2> QED BY <1>0, <2>4, <2>5, <2>6, <2>7 DEF TickTypes
<1>5. CASE UNCHANGED <<tick, daemon>>
  <2>1. IsLedger(tick.closes)' <=> IsLedger(tick.closes)
    BY <1>5 DEF IsLedger
  <2> QED BY <1>5, <2>1 DEF CollarTypes, TickTypes
<1>6. CASE StartDaemon
  <2>1. tick = Idle
    BY <1>6, Phases DEF StartDaemon
  <2> QED BY <1>1, <1>6, <2>1 DEF StartDaemon
<1> QED
  BY <1>1, <1>2, <1>3, <1>4, <1>5, <1>6, Zenon DEF Next, vars, EnterPair, Reenter,
     TickGivesUp, MarkWrittenLeg, StartSnapshot, CreateExitEvent, ReadPair,
     WritePair, ReportFailure, ResolveActed, AutoCloseFails, EndSnapshot,
     DaemonEnds, NextDay

LEMMA SnapshotStep ==
  ASSUME LastDay \in Nat \ {0}, Calls \cap Puts = {}, CollarTypes, [Next]_vars
  PROVE  SnapshotTypes'
<1> USE DEF ledger
<1>0. /\ Idle \in Snapshots /\ Idle.pc = "idle" /\ SnapshotRecords \subseteq Snapshots
      /\ SnapshotTypes
      /\ cron # Idle => /\ cron.event \subseteq cron.existing
                        /\ cron.pc = "mark" <=> cron.to_mark # {}
  BY DEF Snapshots, Idle, SnapshotRecords, CollarTypes, SnapshotTypes
<1>1. CASE cron' = Idle
  BY <1>0, <1>1 DEF SnapshotTypes
\* A snapshot that goes on, other than to its write.
<1>2. ASSUME cron' \in SnapshotRecords, cron'.pc # "close", daemon' = "down",
             cron'.event \subseteq cron'.existing,
             cron'.pc = "mark" <=> cron'.to_mark # {}
      PROVE  SnapshotTypes'
  BY <1>0, <1>2 DEF SnapshotTypes
<1>3. CASE StartSnapshot
  <2>1. /\ cron'.pc = "scan" /\ cron'.event = {} /\ cron'.to_mark = {}
        /\ daemon' = "down"
    BY <1>3 DEF StartSnapshot
  <2>2. cron' \in SnapshotRecords
    <3>1. LiveCalls \subseteq Calls
      BY DEF LiveCalls
    <3> DEFINE existing == {<<e.call, e.signal>> : e \in
                  {x \in exit_events : x.status = "OPEN" /\ x.date = today}}
    <3>2. existing \subseteq Calls \X Signals
      BY DEF CollarTypes, WorldTypes, ExitEvents
    <3>3. cron' = [pc |-> "scan", seen |-> LiveCalls, event |-> {},
                   existing |-> existing, closes |-> {}, to_mark |-> {}]
      BY <1>3 DEF StartSnapshot
    <3> HIDE DEF existing
    <3> QED BY <3>1, <3>2, <3>3 DEF SnapshotRecords, SnapshotPhases
  <2> QED BY <1>2, <2>1, <2>2
<1>4. ASSUME NEW c \in Calls, NEW s \in Signals, CreateExitEvent(c, s)
      PROVE  SnapshotTypes'
  <2>1. cron.pc = "scan" /\ cron # Idle
    BY <1>0, <1>4 DEF CreateExitEvent
  <2>2. cron \in SnapshotRecords /\ daemon = "down" /\ cron.to_mark = {}
    BY <1>0, <2>1, Phases DEF SnapshotRecords
  <2>3. /\ cron' = [cron EXCEPT !.pc = "read", !.event = {<<c, s>>},
                       !.existing = cron.existing \cup {<<c, s>>}]
        /\ daemon' = daemon
    BY <1>4 DEF CreateExitEvent
  <2> DEFINE new == {<<c, s>>}
             all == cron.existing \cup new
  <2>4. /\ new \in SUBSET (Calls \X Signals) /\ all \in SUBSET (Calls \X Signals)
        /\ new \subseteq all
    BY <2>2 DEF SnapshotRecords
  <2>5. cron' = [cron EXCEPT !.pc = "read", !.event = new, !.existing = all]
    BY <2>3
  <2> HIDE DEF new, all
  <2>6. /\ cron' \in SnapshotRecords /\ cron'.pc = "read" /\ cron'.to_mark = {}
        /\ cron'.event = new /\ cron'.existing = all
    BY <2>2, <2>4, <2>5 DEF SnapshotRecords, SnapshotPhases
  <2> QED BY <1>2, <2>2, <2>3, <2>4, <2>6
<1>5. CASE ReadPair
  <2>1. /\ cron.pc = "read" /\ cron # Idle /\ daemon = "down" /\ daemon' = daemon
        /\ cron.to_mark = {}
    BY <1>0, <1>5, Phases DEF ReadPair
  <2>2. CASE cron' = [cron EXCEPT !.pc = "scan"]
    <3>1. /\ cron' \in SnapshotRecords /\ cron'.pc = "scan"
          /\ cron'.to_mark = {} /\ cron'.event \subseteq cron'.existing
      BY <1>0, <2>1, <2>2, SnapshotMoves DEF SnapshotPhases
    <3> QED BY <1>2, <2>1, <3>1
  <2>3. CASE cron' # [cron EXCEPT !.pc = "scan"]
    <3>1. LiveCalls \cup LivePuts # {}
      BY <1>5, <2>3 DEF ReadPair
    <3>2. PICK call \in PickOf(Newest(LiveCalls)), put \in PickOf(Newest(LivePuts)) :
            cron' = [cron EXCEPT !.pc = "close",
                       !.closes = {Close(l) : l \in call \cup put}]
      BY <1>5, <2>3 DEF ReadPair
    <3> DEFINE closes == {Close(l) : l \in call \cup put}
    <3>3. /\ call \cup put \in SUBSET (LiveCalls \cup LivePuts)
          /\ call \cup put # {} /\ IsFiniteSet(call \cup put)
      BY <3>1, SnapshotCloses
    <3>4. IsLedger(closes) /\ closes \subseteq Trades
      BY <3>3, ClosesOf
    <3>5. closes # {}
      BY <3>3
    <3>6. cron' = [cron EXCEPT !.pc = "close", !.closes = closes]
      BY <3>2
    <3> HIDE DEF closes
    <3>7. /\ cron' \in SnapshotRecords /\ cron'.pc = "close" /\ cron'.closes = closes
          /\ UNCHANGED <<cron.event, cron.existing, cron.to_mark>>
      BY <2>1, <3>4, <3>6, SnapshotMoves DEF SnapshotPhases
    <3>8. IsLedger(cron.closes)' /\ cron'.closes # {}
      BY <3>4, <3>5, <3>7 DEF IsLedger
    <3> QED BY <1>0, <2>1, <3>7, <3>8 DEF SnapshotTypes
  <2> QED BY <2>2, <2>3
<1>6. CASE WritePair
  <2>1. /\ cron.pc = "close" /\ cron # Idle /\ daemon = "down" /\ daemon' = daemon
        /\ cron.to_mark = {}
    BY <1>0, <1>6, Phases DEF WritePair
  <2>2. cron.closes \subseteq Trades /\ cron.closes # {}
    BY <1>0, <2>1, Phases DEF SnapshotTypes
  <2>3. CASE cron' = [cron EXCEPT !.pc = "failed"]
    <3>1. /\ cron' \in SnapshotRecords /\ cron'.pc = "failed"
          /\ cron'.to_mark = {} /\ cron'.event \subseteq cron'.existing
      BY <1>0, <2>1, <2>3, SnapshotMoves DEF SnapshotPhases
    <3> QED BY <1>2, <2>1, <3>1
  <2>4. CASE cron' = [cron EXCEPT !.to_mark = LegsOf(cron.closes), !.pc = "mark"]
    <3>1. LegsOf(cron.closes) \in SUBSET PairLegs /\ LegsOf(cron.closes) # {}
      BY <2>2 DEF LegsOf, Trades
    <3>2. /\ cron' \in SnapshotRecords /\ cron'.pc = "mark"
          /\ cron'.to_mark = LegsOf(cron.closes) /\ cron'.event \subseteq cron'.existing
      BY <1>0, <2>1, <2>4, <3>1, SnapshotMoves DEF SnapshotPhases
    <3> QED BY <1>2, <2>1, <3>1, <3>2
  <2> QED BY <1>6, <2>3, <2>4, Zenon DEF WritePair, LegsOf
<1>7. CASE ReportFailure \/ ResolveActed
  <2>1. /\ cron # Idle /\ daemon = "down" /\ daemon' = daemon
        /\ cron.to_mark = {} /\ cron' = [cron EXCEPT !.pc = "scan"]
    <3>1. /\ cron.pc \in {"failed", "resolve"} /\ daemon' = daemon
          /\ cron' = [cron EXCEPT !.pc = "scan"]
      BY <1>7 DEF ReportFailure, ResolveActed
    <3>2. cron # Idle
      BY <1>0, <3>1
    <3> QED BY <1>0, <3>1, <3>2, Phases
  <2>2. /\ cron' \in SnapshotRecords /\ cron'.pc = "scan"
        /\ cron'.to_mark = {} /\ cron'.event \subseteq cron'.existing
    BY <1>0, <2>1, SnapshotMoves DEF SnapshotPhases
  <2> QED BY <1>2, <2>1, <2>2
<1>8. ASSUME NEW l \in PairLegs, MarkWrittenLeg(l) PROVE SnapshotTypes'
  <2> DEFINE m == cron.to_mark \ {l}
             phase == IF cron.to_mark = {l} THEN "resolve" ELSE "mark"
  <2>1. /\ cron.pc = "mark" /\ cron # Idle /\ daemon = "down" /\ daemon' = daemon
        /\ l \in cron.to_mark
    BY <1>0, <1>8, Phases DEF MarkWrittenLeg, NextToMark
  <2>2. m \in SUBSET PairLegs
    BY <2>1, Phases
  <2>3. cron' = [cron EXCEPT !.to_mark = m, !.pc = phase] /\ phase \in SnapshotPhases
    BY <1>8 DEF MarkWrittenLeg, SnapshotPhases
  <2>4. (phase = "mark" <=> m # {}) /\ phase # "close"
    BY <2>1
  <2>5. /\ cron' \in SnapshotRecords /\ cron'.pc = phase
        /\ cron'.to_mark = m /\ cron'.event \subseteq cron'.existing
    <3> HIDE DEF m, phase
    <3> QED BY <1>0, <2>1, <2>2, <2>3, SnapshotMoves
  <2> QED BY <1>2, <2>1, <2>4, <2>5
<1>9. CASE AutoCloseFails
  <2>1. /\ cron # Idle /\ daemon = "down" /\ daemon' = daemon
        /\ cron' = [cron EXCEPT !.pc = "scan", !.to_mark = {}]
    BY <1>0, <1>9, Phases DEF AutoCloseFails
  <2>2. cron \in SnapshotRecords
    BY <2>1, Phases DEF SnapshotRecords
  <2>3. /\ cron' \in SnapshotRecords /\ cron'.pc = "scan"
        /\ cron'.to_mark = {} /\ cron'.event \subseteq cron'.existing
    BY <1>0, <2>1, <2>2 DEF SnapshotRecords, SnapshotPhases
  <2> QED BY <1>2, <2>1, <2>3
<1>10. CASE UNCHANGED <<cron, daemon>>
  <2>1. IsLedger(cron.closes)' <=> IsLedger(cron.closes)
    BY <1>10 DEF IsLedger
  <2> QED BY <1>0, <1>10, <2>1 DEF SnapshotTypes
<1>11. CASE StartDaemon \/ DaemonEnds
  <2>1. cron = Idle /\ cron' = cron
    BY <1>11, Phases DEF StartDaemon, DaemonEnds
  <2> QED BY <1>1, <2>1
<1> QED
  BY <1>1, <1>3, <1>4, <1>5, <1>6, <1>7, <1>8, <1>9, <1>10, <1>11, Zenon
     DEF Next, vars, EnterPair, Reenter, Signal, CloseBothLegs, TickGivesUp,
     MarkClosedLeg, EndSnapshot, NextDay

LEMMA CollarTypesStep ==
  ASSUME LastDay \in Nat \ {0}, Calls \cap Puts = {}, CollarTypes, [Next]_vars
  PROVE  CollarTypes'
BY WorldStep, TickStep, SnapshotStep DEF CollarTypes

-----------------------------------------------------------------------------
(* The closes a closer is about to write are those of what is held.        *)

\* A step after which no closer is about to write, or the same closer is
\* about to write the same to the same ledger.
LEMMA ClosesKept ==
  ASSUME ClosesAreCurrent, ~overtaken' => ~overtaken,
         \/ tick'.pc # "close"
         \/ UNCHANGED <<tick, paper_trades>>,
         \/ cron'.pc # "close"
         \/ UNCHANGED <<cron, paper_trades>>
  PROVE  ClosesAreCurrent'
<1>1. /\ UNCHANGED <<tick, paper_trades>> =>
           (Flatten(paper_trades, tick.closes)' <=> Flatten(paper_trades, tick.closes))
      /\ UNCHANGED <<cron, paper_trades>> =>
           (Flatten(paper_trades, cron.closes)' <=> Flatten(paper_trades, cron.closes))
  BY DEF Flatten, Held
<1> QED BY <1>1 DEF ClosesAreCurrent

LEMMA ClosesStep ==
  ASSUME LastDay \in Nat \ {0}, Calls \cap Puts = {}, CollarTypes,
         ClosesAreCurrent, [Next]_vars
  PROVE  ClosesAreCurrent'
<1> USE DEF ledger
<1>0. Idle.pc = "idle"
  BY Phases
<1>1. ASSUME NEW c \in Calls, NEW p \in Puts, EnterPair(c, p)
      PROVE  ClosesAreCurrent'
  <2>1. CASE tick = Idle /\ cron = Idle
    BY <1>0, <1>1, <2>1 DEF EnterPair, ClosesAreCurrent
  <2>2. CASE tick # Idle \/ cron # Idle
    BY <1>1, <2>2 DEF EnterPair, ClosesAreCurrent
  <2> QED BY <2>1, <2>2
<1>2. ASSUME NEW c \in Calls, NEW p \in Puts, Reenter(c, p)
      PROVE  ClosesAreCurrent'
  <2>1. cron = Idle /\ cron' = cron /\ tick' = Idle
    BY <1>0, <1>2, Phases DEF Reenter
  <2> QED BY <1>0, <2>1 DEF ClosesAreCurrent
<1>3. ASSUME NEW c \in Calls, Signal(c) PROVE ClosesAreCurrent'
  <2>1. PICK put \in PickOf(LivePuts) :
          tick' = [pc |-> "close", closes |-> {Close(l) : l \in {c} \cup put},
                   to_mark |-> {}]
    BY <1>3 DEF Signal
  <2>2. c \in LiveCalls /\ cron' = cron /\ cron = Idle /\ paper_trades' = paper_trades
    BY <1>3, Phases DEF Signal
  <2> DEFINE closes == {Close(l) : l \in {c} \cup put}
  <2>3. Flatten(paper_trades, closes)
    <3>1. {c} \cup put \in SUBSET (LiveCalls \cup LivePuts) /\ IsFiniteSet({c} \cup put)
      BY <2>2, SignalCloses
    <3> QED BY <3>1, ClosesOf
  <2> HIDE DEF closes
  <2>4. tick'.closes = closes
    BY <2>1 DEF closes
  <2>5. Flatten(paper_trades, tick.closes)'
    BY <2>2, <2>3, <2>4 DEF Flatten, Held
  <2> QED BY <1>0, <2>2, <2>5 DEF ClosesAreCurrent
<1>4. CASE CloseBothLegs
  <2>1. /\ tick.pc = "close" /\ tick # Idle /\ cron' = cron
        /\ tick' = [tick EXCEPT !.to_mark = InsertedLegs(tick.closes),
                  !.pc = IF InsertedLegs(tick.closes) = {} THEN "reenter" ELSE "mark"]
    BY <1>0, <1>4 DEF CloseBothLegs
  <2>2. tick'.pc # "close"
    <3> DEFINE m == InsertedLegs(tick.closes)
               phase == IF m = {} THEN "reenter" ELSE "mark"
    <3>1. m \in SUBSET PairLegs
      BY <2>1, Phases DEF InsertedLegs, Inserted, Trades
    <3>2. phase \in TickPhases /\ phase # "close"
      BY DEF TickPhases
    <3>3. tick' = [tick EXCEPT !.to_mark = m, !.pc = phase]
      BY <2>1
    <3> HIDE DEF m, phase
    <3> QED BY <2>1, <3>1, <3>2, <3>3, TickMoves
  <2>3. cron' = Idle
    BY <2>1, Phases
  <2> QED BY <1>0, <2>2, <2>3 DEF ClosesAreCurrent
<1>5. ASSUME NEW l \in PairLegs, MarkClosedLeg(l)
      PROVE  ClosesAreCurrent'
  <2>1. /\ tick.pc = "mark" /\ tick # Idle /\ cron' = cron
        /\ tick' = [tick EXCEPT !.to_mark = tick.to_mark \ {l},
                  !.pc = IF tick.to_mark = {l} THEN "reenter" ELSE "mark"]
    BY <1>0, <1>5 DEF MarkClosedLeg
  <2>2. tick'.pc # "close"
    BY <2>1, Phases
  <2>3. cron' = Idle
    BY <2>1, Phases
  <2> QED BY <1>0, <2>2, <2>3 DEF ClosesAreCurrent
<1>6. CASE ReadPair
  <2>1. /\ cron.pc = "read" /\ cron # Idle /\ tick = Idle /\ tick' = tick
        /\ paper_trades' = paper_trades
    BY <1>0, <1>6, Phases DEF ReadPair
  <2>2. CASE cron' = [cron EXCEPT !.pc = "scan"]
    <3>1. cron'.pc = "scan"
      BY <2>1, <2>2, SnapshotMoves DEF SnapshotPhases
    <3> QED BY <1>0, <2>1, <3>1 DEF ClosesAreCurrent
  <2>3. CASE cron' # [cron EXCEPT !.pc = "scan"]
    <3>1. LiveCalls \cup LivePuts # {}
      BY <1>6, <2>3 DEF ReadPair
    <3>2. PICK call \in PickOf(Newest(LiveCalls)), put \in PickOf(Newest(LivePuts)) :
            cron' = [cron EXCEPT !.pc = "close",
                       !.closes = {Close(l) : l \in call \cup put}]
      BY <1>6, <2>3 DEF ReadPair
    <3> DEFINE closes == {Close(l) : l \in call \cup put}
    <3>3. call \cup put \in SUBSET (LiveCalls \cup LivePuts) /\ IsFiniteSet(call \cup put)
      BY <3>1, SnapshotCloses
    <3>4. Flatten(paper_trades, closes) /\ closes \subseteq Trades
      BY <3>3, ClosesOf
    <3>5. cron' = [cron EXCEPT !.pc = "close", !.closes = closes]
      BY <3>2
    <3> HIDE DEF closes
    <3>6. cron'.closes = closes
      BY <2>1, <3>4, <3>5, SnapshotMoves DEF SnapshotPhases
    <3>7. Flatten(paper_trades, cron.closes)'
      BY <2>1, <3>4, <3>6 DEF Flatten, Held
    <3> QED BY <1>0, <2>1, <3>7 DEF ClosesAreCurrent
  <2> QED BY <2>2, <2>3
<1>7. CASE WritePair
  <2>1. /\ cron.pc = "close" /\ cron # Idle /\ tick = Idle /\ tick' = tick
    BY <1>0, <1>7, Phases DEF WritePair
  <2>2. cron'.pc # "close"
    <3>1. cron' = [cron EXCEPT !.pc = "failed"] => cron'.pc = "failed"
      BY <2>1, SnapshotMoves DEF SnapshotPhases
    <3>2. cron' = [cron EXCEPT !.to_mark = LegsOf(cron.closes), !.pc = "mark"]
             => cron'.pc = "mark"
      <4>1. LegsOf(cron.closes) \in SUBSET PairLegs
        BY <2>1, Phases DEF LegsOf, Trades
      <4> QED BY <2>1, <4>1, SnapshotMoves DEF SnapshotPhases
    <3>3. \/ cron' = [cron EXCEPT !.pc = "failed"]
          \/ cron' = [cron EXCEPT !.to_mark = LegsOf(cron.closes), !.pc = "mark"]
      BY <1>7, Zenon DEF WritePair, LegsOf
    <3> QED BY <3>1, <3>2, <3>3
  <2> QED BY <1>0, <2>1, <2>2 DEF ClosesAreCurrent
<1>8. ASSUME NEW l \in PairLegs, MarkWrittenLeg(l)
      PROVE  ClosesAreCurrent'
  <2>1. /\ cron.pc = "mark" /\ cron # Idle /\ tick = Idle /\ tick' = tick
        /\ cron' = [cron EXCEPT !.to_mark = cron.to_mark \ {l},
                  !.pc = IF cron.to_mark = {l} THEN "resolve" ELSE "mark"]
    BY <1>0, <1>8, Phases DEF MarkWrittenLeg
  <2>2. cron'.pc # "close"
    BY <2>1, Phases
  <2> QED BY <1>0, <2>1, <2>2 DEF ClosesAreCurrent
<1>9. CASE cron'.pc = "scan" /\ UNCHANGED <<paper_trades, tick, overtaken>>
  BY <1>9, ClosesKept
<1>10. CASE UNCHANGED <<paper_trades, tick, cron, overtaken>>
  BY <1>10, ClosesKept
<1>11. CASE tick' = Idle /\ UNCHANGED <<paper_trades, cron, overtaken>>
  BY <1>0, <1>11, ClosesKept
<1>12. CASE cron' = Idle /\ UNCHANGED <<paper_trades, tick, overtaken>>
  BY <1>0, <1>12, ClosesKept
<1>13. ASSUME NEW c \in Calls, NEW s \in Signals, CreateExitEvent(c, s)
       PROVE  ClosesAreCurrent'
  <2>1. cron # Idle /\ UNCHANGED <<paper_trades, tick, overtaken>>
    BY <1>0, <1>13 DEF CreateExitEvent
  <2>2. cron'.pc = "read"
    BY <1>13, <2>1, Phases DEF CreateExitEvent
  <2> QED BY <2>1, <2>2, ClosesKept
<1>14. StartSnapshot \/ ReportFailure \/ ResolveActed \/ AutoCloseFails =>
         cron'.pc = "scan" /\ UNCHANGED <<paper_trades, tick, overtaken>>
  <2>1. StartSnapshot => cron'.pc = "scan" /\ UNCHANGED <<paper_trades, tick, overtaken>>
    BY DEF StartSnapshot
  <2>2. ReportFailure \/ ResolveActed \/ AutoCloseFails => cron # Idle
    BY <1>0 DEF ReportFailure, ResolveActed, AutoCloseFails
  <2>3. ReportFailure \/ ResolveActed \/ AutoCloseFails =>
          cron'.pc = "scan" /\ UNCHANGED <<paper_trades, tick, overtaken>>
    BY <2>2, Phases DEF ReportFailure, ResolveActed, AutoCloseFails
  <2> QED BY <2>1, <2>3
<1>15. DaemonEnds => tick' = Idle /\ UNCHANGED <<paper_trades, cron, overtaken>>
  BY DEF DaemonEnds
<1> QED
  BY <1>1, <1>2, <1>3, <1>4, <1>5, <1>6, <1>7, <1>8, <1>9, <1>10, <1>11, <1>12,
     <1>13, <1>14, <1>15, Zenon
     DEF Next, vars, TickGivesUp, EndSnapshot, StartDaemon, NextDay

-----------------------------------------------------------------------------
(* What is held in each phase.                                             *)

\* Nothing that matters to the position changes.
LEMMA SamePosition ==
  ASSUME \A l : Held(paper_trades', l) = Held(paper_trades, l)
  PROVE  /\ AllFlat(paper_trades') <=> AllFlat(paper_trades)
         /\ WholeOrFlat(paper_trades') <=> WholeOrFlat(paper_trades)
         /\ \A B : ClosesThePair(paper_trades', B) <=> ClosesThePair(paper_trades, B)
         /\ ShortCalls(paper_trades') = ShortCalls(paper_trades)
BY DEF AllFlat, WholeOrFlat, PairHeld, ClosesThePair, ShortCalls

LEMMA SameTable ==
  ASSUME UNCHANGED paper_trades
  PROVE  \A l : Held(paper_trades', l) = Held(paper_trades, l)
BY DEF Held

\* From nothing an entry of which no trade is skipped makes a pair.
LEMMA PairOpens ==
  ASSUME CollarTypes, Calls \cap Puts = {}, NEW c \in Calls, NEW p \in Puts,
         AllFlat(paper_trades), Record({Open(c), Open(p)}), ~skipped'
  PROVE  PairHeld(paper_trades', c, p)
<1> DEFINE B == {Open(c), Open(p)}
<1>1. IsLedger(B) /\ PairHeld(B, c, p)
  BY OpenedPair
<1>2. paper_trades' = RecordTrades(paper_trades, B) /\ Inserted(paper_trades, B) = B
  BY DEF Record
<1> HIDE DEF B
<1>3. \A l : Held(paper_trades', l) = Held(paper_trades, l) + Held(B, l)
  BY <1>1, <1>2, RecordTradesTable DEF CollarTypes, WorldTypes, IsLedger
<1>4. \A l \in PairLegs : Held(paper_trades, l) = 0
  BY DEF AllFlat
<1> QED BY <1>1, <1>3, <1>4 DEF PairHeld, PairLegs

\* A close of the pair of which no trade is skipped leaves nothing.
LEMMA PairCloses ==
  ASSUME CollarTypes, NEW B, IsLedger(B), Flatten(paper_trades, B),
         ClosesThePair(paper_trades, B), Record(B), ~skipped'
  PROVE  AllFlat(paper_trades')
<1>1. paper_trades' = RecordTrades(paper_trades, B) /\ Inserted(paper_trades, B) = B
  BY DEF Record
<1>2. InsertedLegs(B) = LegsOf(B)
  BY <1>1 DEF InsertedLegs, LegsOf
<1>3. \A l : Held(paper_trades', l) =
               IF l \in LegsOf(B) THEN 0 ELSE Held(paper_trades, l)
  BY <1>1, <1>2, FlattenedLegs
<1> QED BY <1>3 DEF ClosesThePair, PairHeld, AllFlat

\* The phases of the closers after a step, and the position in them.
LEMMA PositionOf ==
  ASSUME \/ WholeOrFlat(paper_trades') /\ tick'.pc = "idle"
         \/ ClosesThePair(paper_trades', tick'.closes) /\ tick'.pc = "close"
         \/ AllFlat(paper_trades') /\ tick'.pc \in {"mark", "reenter"},
         \/ WholeOrFlat(paper_trades') /\ cron'.pc \in {"idle", "scan", "read", "failed"}
         \/ ClosesThePair(paper_trades', cron'.closes) /\ cron'.pc = "close"
         \/ AllFlat(paper_trades') /\ cron'.pc \in {"mark", "resolve"}
  PROVE  CollarPosition'
BY DEF CollarPosition, WholeOrFlat, ClosesThePair

LEMMA PositionStep ==
  ASSUME LastDay \in Nat \ {0}, Calls \cap Puts = {}, CollarTypes,
         ClosesAreCurrent, CollarPosition, [Next]_vars
  PROVE  CollarPosition'
<1> USE DEF ledger
<1> SUFFICES ASSUME ~skipped', ~overtaken'
             PROVE  CollarPosition'
  BY DEF CollarPosition
<1>0. Idle.pc = "idle" /\ ~skipped /\ ~overtaken
  <2>1. ~overtaken
    BY DEF Next, vars, EnterPair, Reenter, Signal, CloseBothLegs, TickGivesUp,
       MarkClosedLeg, MarkWrittenLeg, StartSnapshot, CreateExitEvent, ReadPair,
       WritePair, ReportFailure, ResolveActed, AutoCloseFails, EndSnapshot,
       StartDaemon, DaemonEnds, NextDay
  <2>2. ~skipped
    BY DEF Next, vars, EnterPair, Reenter, Signal, CloseBothLegs, TickGivesUp,
       MarkClosedLeg, MarkWrittenLeg, StartSnapshot, CreateExitEvent, ReadPair,
       WritePair, ReportFailure, ResolveActed, AutoCloseFails, EndSnapshot,
       StartDaemon, DaemonEnds, NextDay, Record
  <2> QED BY <2>1, <2>2, Phases
<1>01. /\ WholeOrFlat(paper_trades)
       /\ tick.pc = "close" => ClosesThePair(paper_trades, tick.closes)
       /\ tick.pc \in {"mark", "reenter"} => AllFlat(paper_trades)
       /\ cron.pc = "close" => ClosesThePair(paper_trades, cron.closes)
       /\ cron.pc \in {"mark", "resolve"} => AllFlat(paper_trades)
       /\ tick.pc = "close" => Flatten(paper_trades, tick.closes)
       /\ cron.pc = "close" => Flatten(paper_trades, cron.closes)
  BY <1>0 DEF CollarPosition, ClosesAreCurrent
<1>1. ASSUME NEW c \in Calls, NEW p \in Puts, EnterPair(c, p)
      PROVE  CollarPosition'
  <2>1. /\ LivePuts = {} /\ Record({Open(c), Open(p)}) /\ tick = Idle /\ cron = Idle
        /\ tick' = Idle /\ cron' = Idle
    BY <1>1 DEF EnterPair
  <2>2. LongPuts(paper_trades) = {}
    BY <2>1, NetIsHeld
  <2>3. AllFlat(paper_trades)
    BY <1>01, <2>2, PairIsLive DEF WholeOrFlat
  <2>4. PairHeld(paper_trades', c, p)
    BY <2>1, <2>3, PairOpens
  <2> QED BY <1>0, <2>1, <2>4, PositionOf DEF WholeOrFlat
<1>2. ASSUME NEW c \in Calls, NEW p \in Puts, Reenter(c, p)
      PROVE  CollarPosition'
  <2>1. /\ tick.pc = "reenter" /\ Record({Open(c), Open(p)}) /\ tick' = Idle
        /\ cron' = cron
    BY <1>2 DEF Reenter
  <2>2. cron = Idle
    BY <1>0, <2>1, Phases
  <2>3. PairHeld(paper_trades', c, p)
    BY <1>01, <2>1, PairOpens
  <2> QED BY <1>0, <2>1, <2>2, <2>3, PositionOf DEF WholeOrFlat
<1>3. ASSUME NEW c \in Calls, Signal(c) PROVE CollarPosition'
  <2>1. PICK put \in PickOf(LivePuts) :
          tick' = [pc |-> "close", closes |-> {Close(l) : l \in {c} \cup put},
                   to_mark |-> {}]
    BY <1>3 DEF Signal
  <2>2. c \in LiveCalls /\ cron' = Idle /\ UNCHANGED paper_trades
    BY <1>3, Phases DEF Signal
  <2>3. PICK p \in Puts : PairHeld(paper_trades, c, p)
    <3>1. c \in ShortCalls(paper_trades)
      BY <2>2, NetIsHeld
    <3> QED BY <1>01, <3>1, PairIsLive DEF WholeOrFlat
  <2>4. put = {p}
    <3>1. c \in Calls /\ LivePuts = {p}
      BY <2>3, NetIsHeld, PairIsLive
    <3> QED BY <2>2, <3>1, SignalCloses
  <2> DEFINE closes == {Close(l) : l \in {c} \cup put}
  <2>5. LegsOf(closes) = {c, p}
    <3>1. {c} \cup put \in SUBSET (LiveCalls \cup LivePuts) /\ IsFiniteSet({c} \cup put)
      BY <2>2, SignalCloses
    <3>2. LegsOf(closes) = {c} \cup put
      BY <3>1, ClosesOf
    <3> QED BY <2>4, <3>2
  <2> HIDE DEF closes
  <2>6. tick'.closes = closes /\ tick'.pc = "close"
    BY <2>1 DEF closes
  <2>7. ClosesThePair(paper_trades, closes)
    BY <2>3, <2>5 DEF ClosesThePair
  <2>8. ClosesThePair(paper_trades', tick'.closes) /\ WholeOrFlat(paper_trades')
    BY <1>01, <2>2, <2>6, <2>7, SameTable, SamePosition
  <2> QED BY <1>0, <2>2, <2>6, <2>8, PositionOf
<1>4. CASE CloseBothLegs
  <2>1. /\ tick.pc = "close" /\ tick # Idle /\ cron' = cron /\ Record(tick.closes)
        /\ tick' = [tick EXCEPT !.to_mark = InsertedLegs(tick.closes),
                  !.pc = IF InsertedLegs(tick.closes) = {} THEN "reenter" ELSE "mark"]
    BY <1>0, <1>4 DEF CloseBothLegs
  <2>2. tick'.pc \in {"mark", "reenter"}
    <3>1. tick \in TickRecords
      BY <2>1, Phases DEF TickRecords
    <3> QED BY <2>1, <3>1 DEF TickRecords
  <2>3. IsLedger(tick.closes) /\ cron' = Idle
    BY <2>1, Phases DEF CollarTypes, TickTypes
  <2>4. AllFlat(paper_trades')
    BY <1>01, <2>1, <2>3, PairCloses
  <2> QED BY <1>0, <2>2, <2>3, <2>4, PositionOf DEF WholeOrFlat
<1>5. ASSUME NEW l \in PairLegs, MarkClosedLeg(l)
      PROVE  CollarPosition'
  <2>1. /\ tick.pc = "mark" /\ tick # Idle /\ cron' = cron
        /\ paper_trades' = MarkTradeClosed(paper_trades, l)
        /\ tick' = [tick EXCEPT !.to_mark = tick.to_mark \ {l},
                  !.pc = IF tick.to_mark = {l} THEN "reenter" ELSE "mark"]
    BY <1>0, <1>5 DEF MarkClosedLeg
  <2>2. tick'.pc \in {"mark", "reenter"}
    BY <2>1, Phases
  <2>3. cron' = Idle
    BY <2>1, Phases
  <2>4. AllFlat(paper_trades')
    BY <1>01, <2>1, MarksMoveNothing, SamePosition
  <2> QED BY <1>0, <2>2, <2>3, <2>4, PositionOf DEF WholeOrFlat
<1>6. CASE ReadPair
  <2>1. /\ cron.pc = "read" /\ cron # Idle /\ tick = Idle /\ tick' = Idle
        /\ UNCHANGED paper_trades
    BY <1>0, <1>6, Phases DEF ReadPair
  <2>0. WholeOrFlat(paper_trades')
    BY <1>01, <2>1, SameTable, SamePosition
  <2>2. CASE cron' = [cron EXCEPT !.pc = "scan"]
    <3>1. cron'.pc = "scan"
      BY <2>1, <2>2, SnapshotMoves DEF SnapshotPhases
    <3> QED BY <1>0, <2>0, <2>1, <3>1, PositionOf
  <2>3. CASE cron' # [cron EXCEPT !.pc = "scan"]
    <3>1. LiveCalls \cup LivePuts # {}
      BY <1>6, <2>3 DEF ReadPair
    <3>2. PICK call \in PickOf(Newest(LiveCalls)), put \in PickOf(Newest(LivePuts)) :
            cron' = [cron EXCEPT !.pc = "close",
                       !.closes = {Close(l) : l \in call \cup put}]
      BY <1>6, <2>3 DEF ReadPair
    <3> DEFINE closes == {Close(l) : l \in call \cup put}
    <3>3. call \cup put \in SUBSET (LiveCalls \cup LivePuts) /\ IsFiniteSet(call \cup put)
      BY <3>1, SnapshotCloses
    <3>4. LegsOf(closes) = call \cup put /\ closes \subseteq Trades
      BY <3>3, ClosesOf
    <3>5. PICK c \in Calls, p \in Puts : PairHeld(paper_trades, c, p)
      BY <1>01, <3>1, NetIsHeld, PairIsLive DEF WholeOrFlat
    <3>6. LiveCalls = {c} /\ LivePuts = {p}
      BY <3>5, NetIsHeld, PairIsLive
    <3>7. call = {c} /\ put = {p}
      BY <3>1, <3>6, SnapshotCloses
    <3>8. cron' = [cron EXCEPT !.pc = "close", !.closes = closes]
      BY <3>2
    <3> HIDE DEF closes
    <3>9. cron'.closes = closes /\ cron'.pc = "close"
      BY <2>1, <3>4, <3>8, SnapshotMoves DEF SnapshotPhases
    <3>10. ClosesThePair(paper_trades, closes)
      BY <3>4, <3>5, <3>7 DEF ClosesThePair
    <3>11. ClosesThePair(paper_trades', cron'.closes)
      BY <2>1, <3>9, <3>10, SameTable, SamePosition
    <3> QED BY <1>0, <2>0, <2>1, <3>9, <3>11, PositionOf
  <2> QED BY <2>2, <2>3
<1>7. CASE WritePair
  <2>1. /\ cron.pc = "close" /\ cron # Idle /\ tick = Idle /\ tick' = Idle
        /\ Record(cron.closes)
    BY <1>0, <1>7, Phases DEF WritePair
  <2>2. cron'.pc = "mark"
    <3>1. LegsOf(cron.closes) \in SUBSET PairLegs
      BY <2>1, Phases DEF LegsOf, Trades
    <3>2. Inserted(paper_trades, cron.closes) = cron.closes
      BY <2>1 DEF Record
    <3>3. cron' = [cron EXCEPT !.to_mark = LegsOf(cron.closes), !.pc = "mark"]
      BY <1>7, <3>2, Zenon DEF WritePair, LegsOf
    <3> QED BY <2>1, <3>1, <3>3, SnapshotMoves DEF SnapshotPhases
  <2>3. AllFlat(paper_trades')
    BY <1>01, <2>1, PairCloses DEF CollarTypes, SnapshotTypes
  <2> QED BY <1>0, <2>1, <2>2, <2>3, PositionOf DEF WholeOrFlat
<1>8. ASSUME NEW l \in PairLegs, MarkWrittenLeg(l)
      PROVE  CollarPosition'
  <2>1. /\ cron.pc = "mark" /\ cron # Idle /\ tick = Idle /\ tick' = Idle
        /\ paper_trades' = MarkTradeClosed(paper_trades, l)
        /\ cron' = [cron EXCEPT !.to_mark = cron.to_mark \ {l},
                  !.pc = IF cron.to_mark = {l} THEN "resolve" ELSE "mark"]
    BY <1>0, <1>8, Phases DEF MarkWrittenLeg
  <2>2. cron'.pc \in {"mark", "resolve"}
    BY <2>1, Phases
  <2>3. AllFlat(paper_trades')
    BY <1>01, <2>1, MarksMoveNothing, SamePosition
  <2> QED BY <1>0, <2>1, <2>2, <2>3, PositionOf DEF WholeOrFlat
<1>9. CASE cron'.pc \in {"idle", "scan", "read"} /\ UNCHANGED <<paper_trades, tick>>
  BY <1>01, <1>9, SameTable, SamePosition DEF CollarPosition
<1>10. CASE UNCHANGED <<paper_trades, tick, cron>>
  BY <1>01, <1>10, SameTable, SamePosition DEF CollarPosition
<1>11. CASE tick' = Idle /\ UNCHANGED <<paper_trades, cron>>
  BY <1>0, <1>01, <1>11, SameTable, SamePosition DEF CollarPosition
<1>12. (\/ StartSnapshot \/ ReportFailure \/ ResolveActed \/ AutoCloseFails \/ EndSnapshot
        \/ \E c \in Calls, s \in Signals : CreateExitEvent(c, s))
         => cron'.pc \in {"idle", "scan", "read"} /\ UNCHANGED <<paper_trades, tick>>
  <2>1. StartSnapshot \/ EndSnapshot =>
          cron'.pc \in {"idle", "scan"} /\ UNCHANGED <<paper_trades, tick>>
    BY <1>0 DEF StartSnapshot, EndSnapshot
  <2>2. ReportFailure \/ ResolveActed \/ AutoCloseFails => cron # Idle
    BY <1>0 DEF ReportFailure, ResolveActed, AutoCloseFails
  <2>3. ReportFailure \/ ResolveActed \/ AutoCloseFails =>
          cron'.pc = "scan" /\ UNCHANGED <<paper_trades, tick>>
    BY <2>2, Phases DEF ReportFailure, ResolveActed, AutoCloseFails
  <2>4. ASSUME NEW c \in Calls, NEW s \in Signals, CreateExitEvent(c, s)
        PROVE  cron'.pc = "read" /\ UNCHANGED <<paper_trades, tick>>
    <3>1. cron # Idle
      BY <1>0, <2>4 DEF CreateExitEvent
    <3> QED BY <2>4, <3>1, Phases DEF CreateExitEvent
  <2> QED BY <2>1, <2>3, <2>4
<1>13. DaemonEnds => tick' = Idle /\ UNCHANGED <<paper_trades, cron>>
  BY DEF DaemonEnds
<1> QED
  BY <1>1, <1>2, <1>3, <1>4, <1>5, <1>6, <1>7, <1>8, <1>9, <1>10, <1>11, <1>12,
     <1>13, Zenon DEF Next, vars, TickGivesUp, StartDaemon, NextDay

-----------------------------------------------------------------------------
(* What a snapshot saw is what it closes.                                  *)

\* A snapshot that goes on before its write or after the end of a close.
LEMMA SeenKept ==
  ASSUME SeenIsClosed, cron # Idle, ~overtaken' => ~overtaken,
         cron'.pc \notin {"close", "mark", "resolve"}, cron'.seen = cron.seen,
         ShortCalls(paper_trades') \subseteq ShortCalls(paper_trades)
  PROVE  SeenIsClosed'
<1>1. ~overtaken' => ShortCalls(paper_trades') \subseteq cron'.seen
  BY DEF SeenIsClosed
<1>2. SeenIsClosed' <=>
        (~overtaken' /\ cron' # Idle =>
          /\ ShortCalls(paper_trades') \subseteq cron'.seen
          /\ \A c \in Calls : cron'.seen = {c} =>
               /\ cron'.pc = "close" /\ c \in ShortCalls(paper_trades') =>
                    c \in LegsOf(cron'.closes)
               /\ cron'.pc \in {"mark", "resolve"} => c \notin ShortCalls(paper_trades'))
  BY DEF SeenIsClosed, ShortCalls, LegsOf, Idle
<1> QED BY <1>1, <1>2

LEMMA SeenStep ==
  ASSUME LastDay \in Nat \ {0}, Calls \cap Puts = {}, CollarTypes,
         ClosesAreCurrent, SeenIsClosed, [Next]_vars
  PROVE  SeenIsClosed'
<1> USE DEF ledger
<1>0. /\ Idle.pc = "idle"
      /\ SeenIsClosed' <=>
           (~overtaken' /\ cron' # Idle =>
             /\ ShortCalls(paper_trades') \subseteq cron'.seen
             /\ \A c \in Calls : cron'.seen = {c} =>
                  /\ cron'.pc = "close" /\ c \in ShortCalls(paper_trades') =>
                       c \in LegsOf(cron'.closes)
                  /\ cron'.pc \in {"mark", "resolve"} => c \notin ShortCalls(paper_trades'))
  BY Phases DEF SeenIsClosed, ShortCalls, LegsOf, Idle
<1>1. CASE cron' = Idle
  BY <1>0, <1>1
<1>2. ASSUME NEW c \in Calls, NEW p \in Puts, EnterPair(c, p)
      PROVE  SeenIsClosed'
  <2>1. cron' = cron /\ (cron # Idle => overtaken')
    BY <1>2, Zenon DEF EnterPair
  <2> QED BY <1>0, <2>1
<1>3. CASE UNCHANGED cron /\ (tick # Idle \/ daemon = "up")
  <2>1. cron' = Idle
    BY <1>3, Phases
  <2> QED BY <1>1, <2>1
<1>4. CASE StartSnapshot
  <2>1. cron'.seen = LiveCalls /\ cron'.pc = "scan" /\ UNCHANGED paper_trades
    BY <1>4 DEF StartSnapshot
  <2>2. ShortCalls(paper_trades') = LiveCalls
    BY <2>1, SameTable, SamePosition, NetIsHeld
  <2> QED BY <1>0, <2>1, <2>2
<1>5. ASSUME NEW c \in Calls, NEW s \in Signals, CreateExitEvent(c, s)
      PROVE  SeenIsClosed'
  <2>1. cron # Idle /\ UNCHANGED <<paper_trades, overtaken>>
    BY <1>0, <1>5 DEF CreateExitEvent
  <2>2. cron'.pc = "read" /\ cron'.seen = cron.seen
    BY <1>5, <2>1, Phases DEF CreateExitEvent
  <2>3. ShortCalls(paper_trades') = ShortCalls(paper_trades)
    BY <2>1, SameTable, SamePosition
  <2> QED BY <2>1, <2>2, <2>3, SeenKept
<1>6. CASE ReportFailure \/ ResolveActed \/ AutoCloseFails
  <2>1. cron # Idle
    BY <1>0, <1>6 DEF ReportFailure, ResolveActed, AutoCloseFails
  <2>2. /\ cron'.pc = "scan" /\ cron'.seen = cron.seen
        /\ UNCHANGED <<paper_trades, overtaken>>
    BY <1>6, <2>1, Phases DEF ReportFailure, ResolveActed, AutoCloseFails
  <2>3. ShortCalls(paper_trades') = ShortCalls(paper_trades)
    BY <2>2, SameTable, SamePosition
  <2> QED BY <2>1, <2>2, <2>3, SeenKept
<1>7. CASE ReadPair
  <2>1. /\ cron.pc = "read" /\ cron # Idle /\ UNCHANGED <<paper_trades, overtaken>>
    BY <1>0, <1>7 DEF ReadPair
  <2>0. ShortCalls(paper_trades') = ShortCalls(paper_trades)
    BY <2>1, SameTable, SamePosition
  <2>2. CASE cron' = [cron EXCEPT !.pc = "scan"]
    <3>1. cron'.pc = "scan" /\ cron'.seen = cron.seen
      BY <2>1, <2>2, SnapshotMoves DEF SnapshotPhases
    <3> QED BY <2>0, <2>1, <3>1, SeenKept
  <2>3. CASE cron' # [cron EXCEPT !.pc = "scan"]
    <3>1. LiveCalls \cup LivePuts # {}
      BY <1>7, <2>3 DEF ReadPair
    <3>2. PICK call \in PickOf(Newest(LiveCalls)), put \in PickOf(Newest(LivePuts)) :
            cron' = [cron EXCEPT !.pc = "close",
                       !.closes = {Close(l) : l \in call \cup put}]
      BY <1>7, <2>3 DEF ReadPair
    <3> DEFINE closes == {Close(l) : l \in call \cup put}
    <3>3. call \cup put \in SUBSET (LiveCalls \cup LivePuts) /\ IsFiniteSet(call \cup put)
      BY <3>1, SnapshotCloses
    <3>4. LegsOf(closes) = call \cup put /\ closes \subseteq Trades
      BY <3>3, ClosesOf
    <3>5. cron' = [cron EXCEPT !.pc = "close", !.closes = closes]
      BY <3>2
    <3> HIDE DEF closes
    <3>6. cron'.closes = closes /\ cron'.pc = "close" /\ cron'.seen = cron.seen
      BY <2>1, <3>4, <3>5, SnapshotMoves DEF SnapshotPhases
    <3>7. ASSUME ~overtaken', NEW c \in Calls, cron'.seen = {c},
                 c \in ShortCalls(paper_trades')
          PROVE  c \in LegsOf(cron'.closes)
      <4>1. LiveCalls \subseteq {c} /\ c \in LiveCalls
        BY <2>0, <2>1, <3>6, <3>7, NetIsHeld DEF SeenIsClosed
      <4>2. LiveCalls = {c}
        BY <4>1
      <4>3. call = {c}
        BY <3>1, <4>2, SnapshotCloses
      <4> QED BY <3>4, <3>6, <4>3
    <3>8. ~overtaken' => ShortCalls(paper_trades') \subseteq cron'.seen
      BY <2>0, <2>1, <3>6 DEF SeenIsClosed
    <3> QED BY <1>0, <3>6, <3>7, <3>8
  <2> QED BY <2>2, <2>3
<1>8. CASE WritePair
  <2>1. /\ cron.pc = "close" /\ cron # Idle /\ Record(cron.closes)
        /\ overtaken' = overtaken
    BY <1>0, <1>8 DEF WritePair
  <2>2. ASSUME ~overtaken
        PROVE  /\ ShortCalls(paper_trades') \subseteq ShortCalls(paper_trades)
               /\ \A c \in InsertedLegs(cron.closes) : c \notin ShortCalls(paper_trades')
    <3>1. \A l : Held(paper_trades', l) =
                   IF l \in InsertedLegs(cron.closes) THEN 0 ELSE Held(paper_trades, l)
      <4>1. IsLedger(cron.closes) /\ Flatten(paper_trades, cron.closes)
        BY <2>1, <2>2 DEF ClosesAreCurrent, CollarTypes, SnapshotTypes
      <4> QED BY <2>1, <4>1, FlattenedLegs DEF Record
    <3> QED BY <3>1 DEF ShortCalls
  <2>3. CASE cron' = [cron EXCEPT !.pc = "failed"]
    <3>1. cron'.pc = "failed" /\ cron'.seen = cron.seen
      BY <2>1, <2>3, SnapshotMoves DEF SnapshotPhases
    <3> QED BY <1>0, <2>1, <2>2, <3>1 DEF SeenIsClosed
  <2>4. CASE /\ Inserted(paper_trades, cron.closes) = cron.closes
             /\ cron' = [cron EXCEPT !.to_mark = LegsOf(cron.closes), !.pc = "mark"]
    <3>1. LegsOf(cron.closes) \in SUBSET PairLegs
      BY <2>1, Phases DEF LegsOf, Trades
    <3>2. cron'.pc = "mark" /\ cron'.seen = cron.seen
      BY <2>1, <2>4, <3>1, SnapshotMoves DEF SnapshotPhases
    <3>3. InsertedLegs(cron.closes) = LegsOf(cron.closes)
      BY <2>4 DEF InsertedLegs, LegsOf
    <3>4. ASSUME ~overtaken, NEW c \in Calls, cron.seen = {c}
          PROVE  c \notin ShortCalls(paper_trades')
      <4>1. c \in ShortCalls(paper_trades) => c \in LegsOf(cron.closes)
        BY <2>1, <3>4 DEF SeenIsClosed
      <4> QED BY <2>2, <3>3, <3>4, <4>1
    <3>5. ~overtaken => ShortCalls(paper_trades') \subseteq cron.seen
      BY <2>1, <2>2 DEF SeenIsClosed
    <3> QED BY <1>0, <2>1, <3>2, <3>4, <3>5
  <2> QED BY <1>8, <2>3, <2>4, Zenon DEF WritePair, LegsOf
<1>9. ASSUME NEW l \in PairLegs, MarkWrittenLeg(l)
      PROVE  SeenIsClosed'
  <2>1. /\ cron.pc = "mark" /\ cron # Idle /\ overtaken' = overtaken
        /\ paper_trades' = MarkTradeClosed(paper_trades, l)
        /\ cron' = [cron EXCEPT !.to_mark = cron.to_mark \ {l},
                  !.pc = IF cron.to_mark = {l} THEN "resolve" ELSE "mark"]
    BY <1>0, <1>9 DEF MarkWrittenLeg
  <2>2. cron'.pc \in {"mark", "resolve"} /\ cron'.seen = cron.seen
    BY <2>1, Phases
  <2>3. ShortCalls(paper_trades') = ShortCalls(paper_trades)
    BY <2>1, MarksMoveNothing, SamePosition
  <2> QED BY <1>0, <2>1, <2>2, <2>3 DEF SeenIsClosed
<1>10. CASE UNCHANGED <<paper_trades, cron, overtaken>>
  <2>1. ShortCalls(paper_trades') = ShortCalls(paper_trades)
    BY <1>10, SameTable, SamePosition
  <2> QED BY <1>0, <1>10, <2>1 DEF SeenIsClosed
<1>11. ASSUME NEW c \in Calls, NEW p \in Puts, Reenter(c, p)
       PROVE  UNCHANGED cron /\ tick # Idle
  BY <1>0, <1>11 DEF Reenter
<1>12. ASSUME NEW l \in PairLegs, MarkClosedLeg(l)
       PROVE  UNCHANGED cron /\ tick # Idle
  BY <1>0, <1>12 DEF MarkClosedLeg
<1>13. CloseBothLegs => UNCHANGED cron /\ tick # Idle
  BY <1>0 DEF CloseBothLegs
<1> QED
  BY <1>1, <1>2, <1>3, <1>4, <1>5, <1>6, <1>7, <1>8, <1>9, <1>10, <1>11, <1>12,
     <1>13, Zenon
     DEF Next, vars, Signal, TickGivesUp, EndSnapshot, StartDaemon, DaemonEnds, NextDay

-----------------------------------------------------------------------------
(* The theorems.                                                           *)

LEMMA CollarInvInit ==
  ASSUME LastDay \in Nat \ {0}, Init
  PROVE  CollarInv
<1>1. /\ paper_trades = {} /\ exit_events = {} /\ today = 1 /\ daemon = "down"
      /\ tick = Idle /\ cron = Idle /\ skipped = FALSE /\ overtaken = FALSE
      /\ Idle.pc = "idle"
  BY DEF Init, Idle
<1>2. IsTable({}, PairLegs) /\ \A l : Held({}, l) = 0
  BY EmptyTable
<1>3. CollarTypes
  <2>1. IsLedger(paper_trades)
    BY <1>1, <1>2 DEF IsLedger
  <2>2. WorldTypes
    <3>1. today \in Days /\ daemon \in {"up", "down"}
      BY <1>1 DEF Days
    <3>2. \A e \in exit_events : e \in ExitEvents
      BY <1>1
    <3>3. skipped \in BOOLEAN
      BY <1>1
    <3>4. overtaken \in BOOLEAN
      BY <1>1
    <3> QED BY <1>1, <2>1, <3>1, <3>2, <3>3, <3>4, Zenon DEF WorldTypes
  <2>3. TickTypes
    BY <1>1 DEF TickTypes, Ticks
  <2>4. SnapshotTypes
    BY <1>1 DEF SnapshotTypes, Snapshots
  <2> QED BY <2>2, <2>3, <2>4 DEF CollarTypes
<1>4. ClosesAreCurrent /\ SeenIsClosed
  BY <1>1 DEF ClosesAreCurrent, SeenIsClosed
<1>5. AllFlat(paper_trades)
  BY <1>1, <1>2 DEF AllFlat
<1>6. CollarPosition
  BY <1>1, <1>5 DEF CollarPosition, WholeOrFlat
<1> QED BY <1>3, <1>4, <1>6 DEF CollarInv

LEMMA CollarInvStep ==
  ASSUME LastDay \in Nat \ {0}, Calls \cap Puts = {}, CollarInv, [Next]_vars
  PROVE  CollarInv'
BY CollarTypesStep, ClosesStep, PositionStep, SeenStep DEF CollarInv

\* Every variable of the collar holds values the program can hold, and a closer
\* is marking legs exactly while it has legs to mark.
THEOREM CollarTyped ==
  ASSUME LastDay \in Nat \ {0}, Calls \cap Puts = {}
  PROVE  Spec => []CollarTypeOK
<1>1. Init => CollarInv
  BY CollarInvInit
<1>2. CollarInv /\ [Next]_vars => CollarInv'
  BY CollarInvStep
<1>3. CollarInv => CollarTypeOK
  <2> SUFFICES ASSUME CollarInv PROVE CollarTypeOK
    OBVIOUS
  <2>1. CollarTypes
    BY DEF CollarInv
  <2>2. paper_trades \subseteq Trades
    BY <2>1 DEF CollarTypes, WorldTypes, IsLedger, IsTable, TradeRow, Trades
  <2>3. {skipped, overtaken} \subseteq BOOLEAN
    BY <2>1, Zenon DEF CollarTypes, WorldTypes
  <2>4. tick # Idle => IsTick(tick) /\ (tick.pc = "mark" <=> tick.to_mark # {})
    BY <2>1, Phases DEF IsTick, TickPhases, CollarTypes, TickTypes
  <2>5. cron # Idle => IsSnapshot(cron) /\ (cron.pc = "mark" <=> cron.to_mark # {})
    BY <2>1, Phases DEF IsSnapshot, SnapshotPhases, CollarTypes, SnapshotTypes
  <2>6. exit_events \subseteq ExitEvents /\ today \in Days /\ daemon \in {"up", "down"}
    BY <2>1 DEF CollarTypes, WorldTypes
  <2> QED BY <2>2, <2>3, <2>4, <2>5, <2>6 DEF CollarTypeOK
<1> QED
  BY <1>1, <1>2, <1>3, PTL DEF Spec

\* A call is never left without its put nor a put without its call by crashes,
\* failed writes or failed re-entries, whatever number of entries and closes.
THEOREM CollarWhole ==
  ASSUME LastDay \in Nat \ {0}, Calls \cap Puts = {}
  PROVE  Spec => []PartialOnlyByDuplicate
<1>1. Init => CollarInv
  BY CollarInvInit
<1>2. CollarInv /\ [Next]_vars => CollarInv'
  BY CollarInvStep
<1>3. CollarInv => PartialOnlyByDuplicate
  <2> SUFFICES ASSUME CollarInv, ~skipped, ~overtaken PROVE Whole
    BY DEF PartialOnlyByDuplicate
  <2>1. WholeOrFlat(paper_trades)
    BY DEF CollarInv, CollarPosition
  <2>2. ASSUME NEW c \in Calls, NEW p \in Puts, PairHeld(paper_trades, c, p)
        PROVE  Whole
    <3>1. Held(paper_trades, c) < 0 /\ Held(paper_trades, p) > 0
      BY <2>2 DEF PairHeld
    <3> QED BY <3>1, NetIsHeld DEF Whole, ShortCalls, LongPuts
  <2>3. ASSUME AllFlat(paper_trades) PROVE Whole
    <3>1. /\ \A l \in Calls : Held(paper_trades, l) = 0
          /\ \A l \in Puts : Held(paper_trades, l) = 0
      BY <2>3 DEF AllFlat, PairLegs
    <3> QED BY <3>1, NetIsHeld DEF Whole, ShortCalls, LongPuts
  <2> QED BY <2>1, <2>2, <2>3 DEF WholeOrFlat
<1> QED
  BY <1>1, <1>2, <1>3, PTL DEF Spec

\* The entry's gate and the close before each re-entry keep a single pair.
THEOREM CollarOnePair ==
  ASSUME LastDay \in Nat \ {0}, Calls \cap Puts = {}
  PROVE  Spec => []OnePair
<1>1. Init => CollarInv
  BY CollarInvInit
<1>2. CollarInv /\ [Next]_vars => CollarInv'
  BY CollarInvStep
<1>3. CollarInv => OnePair
  <2> SUFFICES ASSUME CollarInv, ~skipped, ~overtaken
               PROVE  Cardinality(LiveCalls) <= 1 /\ Cardinality(LivePuts) <= 1
    BY DEF OnePair
  <2>1. WholeOrFlat(paper_trades)
    BY DEF CollarInv, CollarPosition
  <2>2. \/ LiveCalls = {} /\ LivePuts = {}
        \/ \E c, p : LiveCalls = {c} /\ LivePuts = {p}
    BY <2>1, NetIsHeld, PairIsLive DEF WholeOrFlat
  <2>3. Cardinality({}) = 0
    BY FS_EmptySet
  <2>4. CASE LiveCalls = {} /\ LivePuts = {}
    BY <2>3, <2>4
  <2>5. ASSUME NEW c, NEW p, LiveCalls = {c}, LivePuts = {p}
        PROVE  Cardinality(LiveCalls) <= 1 /\ Cardinality(LivePuts) <= 1
    <3>1. Cardinality({c}) = 1
      BY FS_Singleton
    <3>2. Cardinality({p}) = 1
      BY FS_Singleton
    <3> QED BY <2>5, <3>1, <3>2
  <2> QED BY <2>2, <2>4, <2>5
<1> QED
  BY <1>1, <1>2, <1>3, PTL DEF Spec

\* An exit event becomes ACTED only when the call it names is flat.
THEOREM CollarActed ==
  ASSUME LastDay \in Nat \ {0}, Calls \cap Puts = {}
  PROVE  Spec => ActedIsFlat
<1> DEFINE Acted == \A e \in exit_events' \ exit_events :
                      e.status = "ACTED" /\ cron.seen = {e.call} /\ ~overtaken =>
                        e.call \notin LiveCalls
<1>1. Init => CollarInv
  BY CollarInvInit
<1>2. CollarInv /\ [Next]_vars => CollarInv'
  BY CollarInvStep
<1>3. CollarInv /\ [Next]_vars => [Acted]_vars
  <2> SUFFICES ASSUME CollarInv, [Next]_vars, NEW e \in exit_events' \ exit_events,
                      e.status = "ACTED", cron.seen = {e.call}, ~overtaken
               PROVE  e.call \notin LiveCalls
    OBVIOUS
  <2>0. CollarTypes /\ SeenIsClosed /\ Idle.pc = "idle"
    BY Phases DEF CollarInv
  <2>1. CASE ResolveActed
    <3>1. cron.pc = "resolve" /\ cron # Idle
      BY <2>0, <2>1 DEF ResolveActed
    <3>2. cron.seen \subseteq Calls
      BY <2>0, <3>1, Phases
    <3> QED BY <2>0, <3>1, <3>2, NetIsHeld DEF SeenIsClosed
  <2>2. CASE ReadPair
    <3>1. exit_events' = Resolved("DISMISSED") \/ exit_events' = exit_events
      BY <2>2 DEF ReadPair
    <3> QED BY <2>0, <3>1, ResolvedEvents DEF Statuses
  <2>3. ASSUME NEW c \in Calls, NEW s \in Signals, CreateExitEvent(c, s)
        PROVE  FALSE
    BY <2>3 DEF CreateExitEvent
  <2>4. exit_events' # exit_events
    OBVIOUS
  <2> QED
    BY <2>1, <2>2, <2>3, <2>4, Zenon DEF Next, vars, EnterPair, Reenter, Signal,
       CloseBothLegs, TickGivesUp, MarkClosedLeg, MarkWrittenLeg, StartSnapshot,
       WritePair, ReportFailure, AutoCloseFails, EndSnapshot, StartDaemon,
       DaemonEnds, NextDay
<1>4. []CollarInv /\ [][Next]_vars => [][Acted]_vars
  BY <1>3, PTL
<1> QED
  BY <1>1, <1>2, <1>4, PTL DEF Spec, ActedIsFlat
=============================================================================
