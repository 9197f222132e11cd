-------------------------- MODULE IronCondorProofs --------------------------
(***************************************************************************)
(* The properties of IronCondor, for any strikes, rolls, days and amount   *)
(* of work: the credit on record is the condor's own, the lock rolls its   *)
(* wings once, and the rows: shorts have wings, legs are of one lot, a     *)
(* role is one instrument and a live leg has an open row.                  *)
(*                                                                         *)
(* The last four need an invariant of the three processes together: what   *)
(* the script has placed or left to undo, what the tick has read, decided  *)
(* and is about to write, and the unique keys of the day, which turn every *)
(* write of the one that the other has made stale into a duplicate.        *)
(***************************************************************************)
EXTENDS MCCondorPut, PaperTradesProofs

-----------------------------------------------------------------------------
(* The credit.                                                             *)

\* The property is inductive as it stands: the script clears the credit before
\* the first leg, and nothing but its last step writes it.
LEMMA CreditIsOwnInit == Init => CreditIsOwn
BY DEF Init, CreditIsOwn, NoEntry

\* A step that leaves the script, the credit and the number of the condor.
LEMMA CreditIsOwnElsewhere ==
  ASSUME CreditIsOwn, UNCHANGED <<credit, entry, cycle>>
  PROVE  CreditIsOwn'
BY DEF CreditIsOwn

\* A step of the script that leaves the credit: it starts building or undoing
\* legs only when it was doing so before.
LEMMA CreditIsOwnScript ==
  ASSUME CreditIsOwn, UNCHANGED <<credit, cycle>>,
         entry'.pc \in {"place", "verify", "undo"} =>
           entry.pc \in {"place", "verify", "undo"}
  PROVE  CreditIsOwn'
BY DEF CreditIsOwn

\* Every step keeps the credit the condor's own.
LEMMA CreditIsOwnStep ==
  ASSUME CreditIsOwn, [Next]_vars
  PROVE  CreditIsOwn'
<1>1. CASE UNCHANGED vars
  BY <1>1, CreditIsOwnElsewhere DEF vars, tables, history
<1>2. ASSUME NEW basket \in Baskets, BeginEntry(basket)
      PROVE  CreditIsOwn'
  BY <1>2 DEF BeginEntry, CreditIsOwn
<1>3. CASE PlaceLeg
  BY <1>3, CreditIsOwnScript DEF PlaceLeg
<1>4. CASE PlaceLegFails
  BY <1>4, CreditIsOwnScript DEF PlaceLegFails, tables, history
<1>5. CASE Verify
  <2>1. entry.pc = "verify" /\ UNCHANGED <<credit, cycle>>
    BY <1>5 DEF Verify, tables, history
  <2> QED BY <2>1, CreditIsOwnScript
<1>6. CASE VerifyFails
  BY <1>6, CreditIsOwnScript DEF VerifyFails, tables
<1>7. CASE Compensate
  BY <1>7, CreditIsOwnScript DEF Compensate, history
<1>8. CASE CompensateFails
  BY <1>8, CreditIsOwnScript DEF CompensateFails, tables
<1>9. CASE SetCredit
  BY <1>9 DEF SetCredit, CreditIsOwn, history, NoEntry
<1>10. CASE SetCreditFails
  BY <1>10 DEF SetCreditFails, CreditIsOwn, tables, history, NoEntry
<1>11. CASE EntryDies
  BY <1>11, CreditIsOwnScript DEF EntryDies, tables
<1>12. CASE \/ StartDaemon \/ ReadPositions \/ DecideClose \/ DecideLock
            \/ DecideMilestone \/ DecideRoll \/ Hold \/ WriteNothing
            \/ MarkLegs \/ WriteLock \/ DaemonEnds \/ NextDay
  <2>1. UNCHANGED <<credit, entry, cycle>>
    BY <1>12 DEF StartDaemon, ReadPositions, DecideClose, DecideLock,
        DecideMilestone, DecideRoll, Hold, WriteNothing, MarkLegs, WriteLock,
        DaemonEnds, NextDay, tables, history
  <2> QED BY <2>1, CreditIsOwnElsewhere
<1>13. CASE WriteBatch
  BY <1>13, CreditIsOwnElsewhere DEF WriteBatch
<1>14. CASE ActionStops
  BY <1>14, CreditIsOwnElsewhere DEF ActionStops
<1> QED
  BY <1>1, <1>2, <1>3, <1>4, <1>5, <1>6, <1>7, <1>8, <1>9, <1>10, <1>11,
     <1>12, <1>13, <1>14 DEF Next

\* No condor is ever measured against another one's credit: the entry script
\* clears original_entry_credit first and sets it last.
THEOREM CondorCreditIsOwn == Spec => []CreditIsOwn
<1>1. Init => CreditIsOwn
  BY CreditIsOwnInit
<1>2. CreditIsOwn /\ [Next]_vars => CreditIsOwn'
  BY CreditIsOwnStep
<1> QED
  BY <1>1, <1>2, PTL DEF Spec

-----------------------------------------------------------------------------
(* The lock.                                                               *)

LockTypes ==
    /\ lock \in [zone : 0 .. 2, executed : BOOLEAN]
    /\ locks \in Nat

\* A wing roll that was written is on record or still being recorded, unless
\* its record was lost.
RolledIsRecorded ==
    ~interrupted /\ locks # 0 => locks = 1 /\ (lock.executed \/ LosesLock)

\* The tick that is about to roll the wings found no lock on record, and
\* nothing records one but a tick.
UndecidedLock ==
    monitor.pc = "write" /\ monitor.action = "PROFIT_LOCK_ZONE2"
      => ~lock.executed

LockInv == LockTypes /\ RolledIsRecorded /\ UndecidedLock

\* No lock was rolled or recorded.
LEMMA LockInvInit == Init => LockInv
BY DEF Init, LockInv, LockTypes, RolledIsRecorded, UndecidedLock, NoLock, Down

\* A step that leaves the lock, its history and the monitor.
LEMMA LockInvElsewhere ==
  ASSUME LockInv, UNCHANGED <<lock, locks, interrupted, monitor>>
  PROVE  LockInv'
BY DEF LockInv, LockTypes, RolledIsRecorded, UndecidedLock, LosesLock

\* A step of the monitor outside the wing roll that leaves the lock alone.
LEMMA LockInvTick ==
  ASSUME LockInv, UNCHANGED <<lock, locks, interrupted>>, ~LosesLock,
         monitor'.pc = "write" =>
           monitor'.action # "PROFIT_LOCK_ZONE2" \/ ~lock.executed
  PROVE  LockInv'
BY DEF LockInv, LockTypes, RolledIsRecorded, UndecidedLock, LosesLock

\* Every step keeps the strengthened invariant.
LEMMA LockInvStep ==
  ASSUME LockInv, [Next]_vars
  PROVE  LockInv'
<1>1. CASE UNCHANGED vars
  BY <1>1, LockInvElsewhere DEF vars, tables, history
<1>2. ASSUME NEW basket \in Baskets, BeginEntry(basket)
      PROVE  LockInv'
  BY <1>2 DEF BeginEntry, FreshHistory, LockInv, LockTypes, RolledIsRecorded,
              UndecidedLock
<1>3. CASE \/ PlaceLeg \/ PlaceLegFails \/ Verify \/ VerifyFails
           \/ Compensate \/ CompensateFails \/ SetCredit \/ SetCreditFails
           \/ EntryDies
  <2>1. UNCHANGED <<lock, locks, interrupted, monitor>>
    BY <1>3 DEF PlaceLeg, PlaceLegFails, Verify, VerifyFails, Compensate,
        CompensateFails, SetCredit, SetCreditFails, EntryDies, tables, history
  <2> QED BY <2>1, LockInvElsewhere
<1>4. CASE StartDaemon \/ ReadPositions \/ Hold \/ WriteNothing \/ DaemonEnds
  <2>1. ~LosesLock /\ monitor'.pc # "write"
    BY <1>4 DEF StartDaemon, ReadPositions, Hold, WriteNothing, DaemonEnds,
        LosesLock, Down, Resting
  <2>2. UNCHANGED <<lock, locks, interrupted>>
    BY <1>4 DEF StartDaemon, ReadPositions, Hold, WriteNothing, DaemonEnds,
        tables, history
  <2> QED BY <2>1, <2>2, LockInvTick
<1>5. CASE DecideClose
  <2>1. PICK closed \in Picks(Seen) :
          monitor' = Write("CLOSE_FULL", closed, {})
    BY <1>5 DEF DecideClose
  <2>2. monitor'.action = "CLOSE_FULL"
    BY <2>1 DEF Write
  <2>3. ~LosesLock /\ UNCHANGED <<lock, locks, interrupted>>
    BY <1>5 DEF DecideClose, LosesLock, tables, history
  <2> QED BY <2>2, <2>3, LockInvTick
<1>6. CASE DecideLock
  <2>1. ~lock.executed
    BY <1>6 DEF DecideLock, LockDue
  <2>2. ~LosesLock /\ UNCHANGED <<lock, locks, interrupted>>
    BY <1>6 DEF DecideLock, LosesLock, tables, history
  <2> QED BY <2>1, <2>2, LockInvTick
<1>7. CASE DecideMilestone
  <2>1. ~LosesLock /\ monitor' = Resting
    BY <1>7 DEF DecideMilestone, LosesLock
  <2>2. lock' = [lock EXCEPT !.zone = 1] /\ UNCHANGED <<locks, interrupted>>
    BY <1>7 DEF DecideMilestone, history
  <2> QED
    BY <2>1, <2>2 DEF LockInv, LockTypes, RolledIsRecorded, UndecidedLock,
        LosesLock, Resting
<1>8. CASE DecideRoll
  <2>1. PICK closed, opened : monitor' = Write("ROLL_WING", closed, opened)
    BY <1>8 DEF DecideRoll
  <2>2. monitor'.action = "ROLL_WING"
    BY <2>1 DEF Write
  <2>3. ~LosesLock /\ UNCHANGED <<lock, locks, interrupted>>
    BY <1>8 DEF DecideRoll, LosesLock, tables, history
  <2> QED BY <2>2, <2>3, LockInvTick
<1>9. CASE WriteBatch
  <2> DEFINE isLock == monitor.action = "PROFIT_LOCK_ZONE2"
             gone == Inserted(paper_trades, Closes)
             done == gone \cup Inserted(RecordTrades(paper_trades, Closes), Opens)
  <2>1. /\ monitor.pc = "write"
        /\ monitor' = IF done = {} THEN Resting
                      ELSE Marks(monitor.action,
                                 {t.leg : t \in gone})
        /\ locks' = IF isLock /\ done # {} THEN locks + 1 ELSE locks
        /\ UNCHANGED <<lock, interrupted>>
    BY <1>9 DEF WriteBatch
  <2>2. ~LosesLock
    BY <2>1 DEF LosesLock
  <2>3. monitor'.pc # "write"
    BY <2>1 DEF Marks, AfterMarks, Resting
  <2>4. CASE isLock /\ done # {}
    <3>1. ~interrupted => locks = 0
      BY <2>1, <2>2, <2>4 DEF LockInv, RolledIsRecorded, UndecidedLock
    <3>2. LosesLock'
      BY <2>1, <2>4 DEF LosesLock, Marks, AfterMarks
    <3> QED
      BY <2>1, <2>3, <2>4, <3>1, <3>2
         DEF LockInv, LockTypes, RolledIsRecorded, UndecidedLock
  <2>5. CASE ~(isLock /\ done # {})
    BY <2>1, <2>2, <2>3, <2>5, LockInvTick
  <2> QED BY <2>4, <2>5
<1>10. CASE MarkLegs
  <2>1. /\ monitor.pc = "mark" /\ monitor' = AfterMarks(monitor.action)
        /\ UNCHANGED <<lock, locks, interrupted>>
    BY <1>10 DEF MarkLegs, history
  <2>2. monitor'.pc # "write" /\ (LosesLock => LosesLock')
    BY <2>1 DEF AfterMarks, LosesLock, Resting
  <2> QED
    BY <2>1, <2>2 DEF LockInv, LockTypes, RolledIsRecorded, UndecidedLock
<1>11. CASE WriteLock
  BY <1>11 DEF WriteLock, history, LockInv, LockTypes, RolledIsRecorded,
               UndecidedLock, Resting
<1>12. CASE ActionStops
  <2>1. /\ UNCHANGED <<lock, locks>> /\ monitor' = Resting
        /\ interrupted' = (interrupted \/ LosesLock)
    BY <1>12 DEF ActionStops
  <2> QED
    BY <2>1 DEF LockInv, LockTypes, RolledIsRecorded, UndecidedLock, Resting
<1>13. CASE NextDay
  BY <1>13, LockInvElsewhere DEF NextDay, tables, history
<1> QED
  BY <1>1, <1>2, <1>3, <1>4, <1>5, <1>6, <1>7, <1>8, <1>9, <1>10, <1>11,
     <1>12, <1>13 DEF Next

\* BUG-025: the lock rolls the wings of a condor once, although the roll and
\* its record are two transactions, unless a crash or a failed write came
\* between them.
THEOREM CondorLockOnce == Spec => []LockOnce
<1>1. Init => LockInv
  BY LockInvInit
<1>2. LockInv /\ [Next]_vars => LockInv'
  BY LockInvStep
<1>3. LockInv => LockOnce
  BY DEF LockInv, LockTypes, RolledIsRecorded, LockOnce
<1> QED
  BY <1>1, <1>2, <1>3, PTL DEF Spec

-----------------------------------------------------------------------------
(* The inductive invariant of the rows.                                    *)

\* What one lot of a leg adds to its quantity.
Lot(leg) == Signed(Opener(leg), 1)
\* The legs that are not flat.
LiveIn(T) == {leg \in Legs : Held(T, leg) # 0}

\* T has a row of that leg, day and side: another one is a duplicate.
Has(T, leg, day, action) ==
    \E r \in T : r.leg = leg /\ r.date = day /\ r.action = action
\* A day's opening or closing trade of a leg.
OpenedOn(T, leg, day) == Has(T, leg, day, Opener(leg))
ClosedOn(T, leg, day) == Has(T, leg, day, Opposite(Opener(leg)))

\* One lot of a leg, and one leg of a role.
OneLot(T) == \A leg \in Legs : Held(T, leg) \in {0, Lot(leg)}
OneRole(T) == \A a, b \in LiveIn(T) : Role(a) = Role(b) => a = b

\* A side's short has a wing.
Winged(T, side) == \E leg \in LiveIn(T) : leg.kind = "long" /\ leg.side = side
\* Every short has its wing.
Covered(T) == \A leg \in LiveIn(T) : leg.kind = "short" => Winged(T, leg.side)

\* The side that closes n.
Closing(n) == IF n > 0 THEN "SELL" ELSE "BUY"

\* Of a leg that was read as n: at least that much is held still, or a close
\* of it is a duplicate by now.
StillHeld(T, day, leg, n) ==
    \/ Has(T, leg, day, Closing(n))
    \/ n > 0 /\ Held(T, leg) >= n
    \/ n < 0 /\ Held(T, leg) <= n
\* What the tick read, and the keys of the day, as they stand by now.
ReadHolds(T, day, read) ==
    /\ IsFiniteSet(DOMAIN read) /\ DOMAIN read \subseteq Legs
    /\ \A leg \in DOMAIN read :
         read[leg] \in Int \ {0} /\ StillHeld(T, day, leg, read[leg])

\* None of the closes would be a duplicate.
Clean(T, day, read) ==
    \A leg \in DOMAIN read : ~Has(T, leg, day, Closing(read[leg]))

\* Who closes one of those wings closes the short of its side too.
ShortsToo(T, wings, closed) ==
    \A wing \in wings, short \in LiveIn(T) :
      wing \in LiveIn(T) /\ wing.kind = "long" /\ short.kind = "short"
        /\ short.side = wing.side => short \in closed

\* The places of a side's legs in a basket.
ShortAt(side) == IF side = "put" THEN 1 ELSE 3
WingAt(side) == IF side = "put" THEN 2 ELSE 4

\* A leg of the basket that was placed, and is live or was closed that day.
Begun(T, day, leg) ==
    OpenedOn(T, leg, day) /\ (Held(T, leg) # 0 \/ ClosedOn(T, leg, day))

\* The short of that side is not the basket's: it was rolled, with its wing.
Rolled(T, day, basket, side) ==
    ClosedOn(T, basket[WingAt(side)], day) /\ Winged(T, side)

\* The entry script's stages.
IsEntry(e) ==
    \/ e = NoEntry
    \/ e \in [pc : {"place"}, basket : Baskets, placed : 0 .. 3]
    \/ e \in [pc : {"verify", "credit"}, basket : Baskets, ok : BOOLEAN]
    \/ e \in [pc : {"undo"}, basket : Baskets, left : (SUBSET (1 .. 4)) \ {{}}]

\* Of the entry: its roles are placed in order; a role that is live, or to be
\* undone, was begun by this entry.
BasketInv(T, day, e) ==
    /\ e.pc = "place" =>
         \A leg \in LiveIn(T) : \E i \in 1 .. e.placed : Role(leg) = Role(e.basket[i])
    /\ \A i \in 1 .. 4, leg \in LiveIn(T) :
         Role(leg) = Role(e.basket[i]) => Begun(T, day, e.basket[i])
    /\ e.pc = "undo" => \A i \in e.left : Begun(T, day, e.basket[i])
    /\ \A leg \in LiveIn(T) :
         leg.kind = "short" /\ leg # e.basket[ShortAt(leg.side)] =>
           Rolled(T, day, e.basket, leg.side)

\* What the compensation has dealt with is flat, and the shorts it leaves have
\* their wings.
UndoInv(T, e) ==
    /\ \A i \in (1 .. 4) \ e.left : Held(T, e.basket[i]) = 0
    /\ \A leg \in LiveIn(T) :
         leg.kind = "short" => ShortAt(leg.side) \in e.left \/ Winged(T, leg.side)

\* A tick that has read its positions.
DecideInv(T, day, m) ==
    /\ ReadHolds(T, day, m.seen)
    /\ m.building \in BOOLEAN
    /\ ~m.building => entry = NoEntry /\ DOMAIN m.seen = LiveIn(T) /\ LiveIn(T) # {}
    /\ ~skipped =>
         ShortsToo(T, {leg \in DOMAIN m.seen : ~ClosedOn(T, leg, day)}, DOMAIN m.seen)
    /\ batches < MaxWork

\* A decided ZONE2_LOCK: a whole condor, and all of its wings.
LockTicket(T, m) ==
    /\ entry = NoEntry
    /\ \A side \in Sides : HasRole(LiveIn(T), "short", side)
    /\ \A leg \in DOMAIN m.close \cup m.open : leg.kind = "long"
    /\ \A a, b \in m.open : a.side = b.side => a = b
    /\ ~skipped => \A leg \in LiveIn(T) : leg.kind = "long" => leg \in DOMAIN m.close

\* A decided ROLL_WING: a short and a wing for a short and a wing.
RollTicket(m) ==
    \E side \in Sides, new, hedge \in Legs, short, wing \in DOMAIN m.close :
      /\ m.open = {new, hedge}
      /\ new.kind = "short" /\ short.kind = "short"
      /\ hedge.kind = "long" /\ wing.kind = "long"
      /\ \A leg \in DOMAIN m.close \cup m.open : leg.side = side

\* A decided CLOSE_FULL: no wing without its short, if nothing is lost.
CloseTicket(T, day, m) ==
    /\ m.open = {}
    /\ ~skipped /\ Clean(T, day, m.close) =>
         ShortsToo(T, DOMAIN m.close, DOMAIN m.close)

\* A tick that is about to write.
WriteInv(T, day, m) ==
    /\ ReadHolds(T, day, m.close)
    /\ IsFiniteSet(m.open) /\ m.open \subseteq Legs
    /\ batches < MaxWork
    /\ \/ m.action = "CLOSE_FULL" /\ CloseTicket(T, day, m)
       \/ m.action = "ROLL_WING" /\ RollTicket(m)
       \/ m.action = "PROFIT_LOCK_ZONE2" /\ LockTicket(T, m)

\* A table of rows of the four roles, and the script's stage.
CondorTypes ==
    /\ TypeOK
    /\ IsTable(paper_trades, Legs)
    /\ IsEntry(entry)

\* The rows, as long as no batch lost a trade to the unique key.
RowsInv ==
    /\ ~skipped => OneLot(paper_trades) /\ OneRole(paper_trades)
    /\ ~skipped /\ ~reused =>
         \A leg \in LiveIn(paper_trades) : HasOpenRow(paper_trades, leg)

\* The rows as the script's stage explains them.
EntryInv ==
    /\ ~skipped /\ entry.pc \in {"place", "verify", "undo"} =>
         BasketInv(paper_trades, today, entry)
    /\ ~skipped /\ ~abandoned /\ ~uncovered =>
         /\ entry.pc = "undo" => UndoInv(paper_trades, entry)
         /\ entry.pc \in {"none", "credit"} => Covered(paper_trades)

\* The rows as the tick's stage explains them.
MonitorInv ==
    /\ monitor.pc = "decide" => DecideInv(paper_trades, today, monitor)
    /\ monitor.pc = "write" => WriteInv(paper_trades, today, monitor)
    /\ monitor.pc = "mark" /\ ~skipped /\ ~reused =>
         \A leg \in monitor.todo : Held(paper_trades, leg) = 0

CondorInv == CondorTypes /\ RowsInv /\ EntryInv /\ MonitorInv

-----------------------------------------------------------------------------
(* Legs and baskets.                                                       *)

\* A leg's side of the trade and what closes it.
LEMMA LegFields ==
  ASSUME NEW leg \in Legs
  PROVE  /\ leg.kind \in {"short", "long"} /\ leg.side \in Sides
         /\ Role(leg) = <<leg.kind, leg.side>>
         /\ Opener(leg) \in Actions /\ Opposite(Opener(leg)) \in Actions
         /\ Opposite(Opener(leg)) # Opener(leg)
         /\ Lot(leg) \in {-1, 1} /\ Signed(Opposite(Opener(leg)), 1) = -Lot(leg)
         /\ Closing(Lot(leg)) = Opposite(Opener(leg))
         /\ (leg.kind = "long" <=> Lot(leg) = 1)
BY DEF Legs, Leg, Role, Sides, Opener, Opposite, Actions, Lot, Signed, Closing

\* Two legs of a role are of one kind and one side.
LEMMA SameRole ==
  ASSUME NEW a \in Legs, NEW b \in Legs
  PROVE  Role(a) = Role(b) <=> a.kind = b.kind /\ a.side = b.side
BY DEF Role

\* A basket has one leg of every role, shorts before their wings.
LEMMA BasketLegs ==
  ASSUME NEW basket \in Baskets
  PROVE  /\ \A i \in 1 .. 4 : basket[i] \in Legs
         /\ basket[1].kind = "short" /\ basket[1].side = "put"
         /\ basket[2].kind = "long" /\ basket[2].side = "put"
         /\ basket[3].kind = "short" /\ basket[3].side = "call"
         /\ basket[4].kind = "long" /\ basket[4].side = "call"
<1>1. PICK k \in PutStrikes \X PutStrikes \X CallStrikes \X CallStrikes :
        basket = <<Leg("short", "put", k[1]), Leg("long", "put", k[2]),
                   Leg("short", "call", k[3]), Leg("long", "call", k[4])>>
  BY DEF Baskets
<1>2. /\ k[1] \in PutStrikes /\ k[2] \in PutStrikes
      /\ k[3] \in CallStrikes /\ k[4] \in CallStrikes
  OBVIOUS
<1>3. /\ \A kind \in {"short", "long"}, s \in PutStrikes : Leg(kind, "put", s) \in Legs
      /\ \A kind \in {"short", "long"}, s \in CallStrikes : Leg(kind, "call", s) \in Legs
  BY DEF Legs, Sides, Strikes
<1>4. /\ basket[1] = Leg("short", "put", k[1]) /\ basket[2] = Leg("long", "put", k[2])
      /\ basket[3] = Leg("short", "call", k[3]) /\ basket[4] = Leg("long", "call", k[4])
  BY <1>1
<1>5. \A i \in 1 .. 4 : i = 1 \/ i = 2 \/ i = 3 \/ i = 4
  OBVIOUS
<1>6. \A i \in 1 .. 4 : basket[i] \in Legs
  BY <1>2, <1>3, <1>4, <1>5
<1> QED BY <1>4, <1>6 DEF Leg

\* The places of the roles in a basket.
LEMMA BasketRoles ==
  ASSUME NEW basket \in Baskets
  PROVE  /\ \A i, j \in 1 .. 4 : Role(basket[i]) = Role(basket[j]) => i = j
         /\ \A leg \in Legs : \E i \in 1 .. 4 : Role(leg) = Role(basket[i])
         /\ \A side \in Sides :
              /\ ShortAt(side) \in 1 .. 4 /\ WingAt(side) \in 1 .. 4
              /\ WingAt(side) = ShortAt(side) + 1
              /\ basket[ShortAt(side)].kind = "short"
              /\ basket[WingAt(side)].kind = "long"
              /\ basket[ShortAt(side)].side = side /\ basket[WingAt(side)].side = side
         /\ \A i \in 1 .. 4 : \E side \in Sides : i = ShortAt(side) \/ i = WingAt(side)
<1>1. \A i \in 1 .. 4 : i = 1 \/ i = 2 \/ i = 3 \/ i = 4
  OBVIOUS
<1>2. \A i, j \in 1 .. 4 : Role(basket[i]) = Role(basket[j]) => i = j
  BY <1>1, BasketLegs DEF Role
<1>3. ASSUME NEW leg \in Legs
      PROVE  \E i \in 1 .. 4 : Role(leg) = Role(basket[i])
  <2>1. leg.kind \in {"short", "long"} /\ leg.side \in {"put", "call"}
    BY LegFields DEF Sides
  <2>2. 1 \in 1 .. 4 /\ 2 \in 1 .. 4 /\ 3 \in 1 .. 4 /\ 4 \in 1 .. 4
    OBVIOUS
  <2> QED BY <2>1, <2>2, BasketLegs DEF Role
<1>4. ASSUME NEW side \in Sides
      PROVE  /\ ShortAt(side) \in 1 .. 4 /\ WingAt(side) \in 1 .. 4
             /\ WingAt(side) = ShortAt(side) + 1
             /\ basket[ShortAt(side)].kind = "short"
             /\ basket[WingAt(side)].kind = "long"
             /\ basket[ShortAt(side)].side = side /\ basket[WingAt(side)].side = side
  BY BasketLegs DEF Sides, ShortAt, WingAt
<1>5. \A i \in 1 .. 4 : \E side \in Sides : i = ShortAt(side) \/ i = WingAt(side)
  BY <1>1 DEF Sides, ShortAt, WingAt
<1> QED BY <1>2, <1>3, <1>4, <1>5, Zenon

-----------------------------------------------------------------------------
(* What a write does to the quantities and to the unique keys.             *)

\* The same quantities and keys: only lifecycle states differ.
Same(T, U) ==
  /\ \A l : Held(U, l) = Held(T, l)
  /\ \A l, d, a : Has(U, l, d, a) <=> Has(T, l, d, a)

\* One lot of one leg more.
Adds(T, U, leg, day, action) ==
  /\ \A l : Held(U, l) = Held(T, l) + (IF l = leg THEN Signed(action, 1) ELSE 0)
  /\ \A l, d, a : Has(U, l, d, a) <=>
       Has(T, l, d, a) \/ (l = leg /\ d = day /\ a = action)

\* Rows of days of the calendar.
Dated(T) == \A r \in T : r.date \in Days

\* get_positions reads what the table holds.
LEMMA NetIsHeld ==
  /\ \A leg : Net(leg) = Held(paper_trades, leg)
  /\ Live = LiveIn(paper_trades)
BY DEF Net, Live, LiveIn, Held

\* Quantities are whole.
LEMMA HeldIsInt ==
  ASSUME NEW T, IsTable(T, Legs)
  PROVE  \A l : Held(T, l) \in Int
BY HeldType

\* The unique key is the leg, the day and the side.
LEMMA DuplicateIsHas ==
  ASSUME NEW T, NEW l, NEW d, NEW a, NEW q
  PROVE  Duplicate(T, Trade(l, d, a, q)) <=> Has(T, l, d, a)
BY DEF Duplicate, SameKey, Trade, Has

\* A trade of one lot that is not a duplicate.
LEMMA RecordAdds ==
  ASSUME NEW T, IsTable(T, Legs), Dated(T), NEW l \in Legs, NEW d \in Days,
         NEW a \in Actions, ~Has(T, l, d, a)
  PROVE  /\ IsTable(RecordTrade(T, Trade(l, d, a, 1)), Legs)
         /\ Dated(RecordTrade(T, Trade(l, d, a, 1)))
         /\ Adds(T, RecordTrade(T, Trade(l, d, a, 1)), l, d, a)
         /\ Trade(l, d, a, 1) \in RecordTrade(T, Trade(l, d, a, 1))
<1> DEFINE t == Trade(l, d, a, 1)
<1>1. t \in TradeRow(Legs) /\ d \in Int
  BY TradeIsRow, CondorAssumption DEF Days
<1>2. t.leg = l /\ t.date = d /\ t.action = a /\ Amount(t) = Signed(a, 1)
  BY DEF Trade, Amount
<1>3. ~Duplicate(T, t)
  BY DuplicateIsHas
<1>4. RecordTrade(T, t) = T \cup {t}
  BY <1>3 DEF RecordTrade
<1>5. IsTable(RecordTrade(T, t), Legs) /\ \A k : Held(RecordTrade(T, t), k) =
        Held(T, k) + IF t.leg = k THEN Amount(t) ELSE 0
  BY <1>1, <1>3, RecordTradeTable
<1>6. \A k, e, b : Has(T \cup {t}, k, e, b) <=>
        Has(T, k, e, b) \/ (k = l /\ e = d /\ b = a)
  BY <1>2 DEF Has
<1>7. Adds(T, RecordTrade(T, t), l, d, a)
  <2>1. \A k : Held(T \cup {t}, k) = Held(T, k) + IF k = l THEN Signed(a, 1) ELSE 0
    BY <1>2, <1>4, <1>5
  <2> QED BY <1>4, <1>6, <2>1, Zenon DEF Adds
<1>8. Dated(T \cup {t})
  BY <1>2 DEF Dated
<1> QED BY <1>4, <1>5, <1>7, <1>8

\* mark_trade_closed of some legs.
LEMMA MarkAllSame ==
  ASSUME NEW T, IsTable(T, Legs), Dated(T), NEW legs
  PROVE  /\ IsTable(MarkAll(T, legs), Legs) /\ Dated(MarkAll(T, legs))
         /\ Same(T, MarkAll(T, legs))
         /\ \A l : l \notin legs /\ HasOpenRow(T, l) => HasOpenRow(MarkAll(T, legs), l)
<1> DEFINE g(r) == IF r.leg \in legs /\ r.state \in OpenStates
                     THEN [r EXCEPT !.state = "CLOSED"] ELSE r
           f == [r \in T |-> g(r)]
<1>1. \A r : MarkTradeClosed({r}, r.leg) =
              {IF r.state \in OpenStates THEN [r EXCEPT !.state = "CLOSED"] ELSE r}
  BY DEF MarkTradeClosed
<1>2. \A x : (CHOOSE y \in {x} : TRUE) = x
  OBVIOUS
<1>3. \A r \in T : (IF r.leg \in legs
                      THEN CHOOSE x \in MarkTradeClosed({r}, r.leg) : TRUE ELSE r) = f[r]
  BY <1>1, <1>2
<1>4. MarkAll(T, legs) = {f[r] : r \in T}
  BY <1>3 DEF MarkAll
<1>5. Relabels(f, T) /\ \A r \in T : f[r] \in TradeRow(Legs)
  BY DEF IsTable, Relabels, TradeRow, States
<1>6. \A r \in T : /\ f[r].leg = r.leg /\ f[r].date = r.date /\ f[r].action = r.action
                   /\ r.leg \notin legs => f[r] = r
  BY <1>5 DEF Relabels
<1> HIDE DEF f
<1>7. IsTable({f[r] : r \in T}, Legs) /\ \A l : Held({f[r] : r \in T}, l) = Held(T, l)
  BY <1>5, RelabelTable
<1>8. Same(T, {f[r] : r \in T})
  BY <1>6, <1>7 DEF Same, Has
<1>9. Dated({f[r] : r \in T})
  BY <1>6 DEF Dated
<1>10. \A l : l \notin legs /\ HasOpenRow(T, l) => HasOpenRow({f[r] : r \in T}, l)
  BY <1>6 DEF HasOpenRow
<1> QED BY <1>4, <1>7, <1>8, <1>9, <1>10

\* The mark of one leg is a mark of a set of one.
LEMMA MarkOneIsMarkAll ==
  ASSUME NEW T, NEW l
  PROVE  MarkTradeClosed(T, l) = MarkAll(T, {l})
<1>1. \A r : MarkTradeClosed({r}, r.leg) =
              {IF r.state \in OpenStates THEN [r EXCEPT !.state = "CLOSED"] ELSE r}
  BY DEF MarkTradeClosed
<1>2. \A x : (CHOOSE y \in {x} : TRUE) = x
  OBVIOUS
<1> DEFINE Closed(r) == [r EXCEPT !.state = "CLOSED"]
           One(r) == CHOOSE x \in MarkTradeClosed({r}, r.leg) : TRUE
<1>3. \A r : One(r) = IF r.state \in OpenStates THEN Closed(r) ELSE r
  BY <1>1, <1>2
<1>4. MarkAll(T, {l}) = {IF r.leg \in {l} THEN One(r) ELSE r : r \in T}
  BY DEF MarkAll
<1>5. MarkTradeClosed(T, l) =
        {IF r.leg = l /\ r.state \in OpenStates THEN Closed(r) ELSE r : r \in T}
  BY DEF MarkTradeClosed
<1> HIDE DEF Closed, One
<1> QED BY <1>3, <1>4, <1>5

-----------------------------------------------------------------------------
(* What the writes keep of the invariant.                                  *)

\* A table has its own quantities and keys.
LEMMA SameReflexive == ASSUME NEW T PROVE Same(T, T)
BY DEF Same

\* What depends on quantities alone is the same.
LEMMA SameLive ==
  ASSUME NEW T, NEW U, Same(T, U)
  PROVE  /\ LiveIn(U) = LiveIn(T)
         /\ OneLot(T) => OneLot(U)
         /\ OneRole(T) => OneRole(U)
         /\ Covered(T) => Covered(U)
         /\ \A side : Winged(U, side) <=> Winged(T, side)
<1>1. LiveIn(U) = LiveIn(T)
  BY DEF Same, LiveIn
<1>2. OneLot(T) => OneLot(U)
  BY DEF Same, OneLot
<1> QED BY <1>1, <1>2 DEF OneRole, Covered, Winged

\* What the script relies on depends on quantities and keys alone.
LEMMA SameEntry ==
  ASSUME NEW T, NEW U, Same(T, U), NEW day, NEW e
  PROVE  /\ BasketInv(T, day, e) => BasketInv(U, day, e)
         /\ UndoInv(T, e) => UndoInv(U, e)
<1>1. LiveIn(U) = LiveIn(T) /\ \A side : Winged(U, side) <=> Winged(T, side)
  BY SameLive
<1>2. \A leg : /\ Begun(T, day, leg) <=> Begun(U, day, leg)
               /\ ClosedOn(T, leg, day) <=> ClosedOn(U, leg, day)
               /\ Held(T, leg) = Held(U, leg)
  BY DEF Same, Begun, ClosedOn, OpenedOn
<1>3. \A side : Rolled(T, day, e.basket, side) <=> Rolled(U, day, e.basket, side)
  BY <1>1, <1>2 DEF Rolled
<1>4. BasketInv(T, day, e) => BasketInv(U, day, e)
  BY <1>1, <1>2, <1>3 DEF BasketInv
<1>5. UndoInv(T, e) => UndoInv(U, e)
  BY <1>1, <1>2 DEF UndoInv
<1> QED BY <1>4, <1>5

\* So does what the tick relies on.
LEMMA SameRead ==
  ASSUME NEW T, NEW U, Same(T, U), NEW day, NEW read
  PROVE  /\ ReadHolds(T, day, read) => ReadHolds(U, day, read)
         /\ Clean(T, day, read) <=> Clean(U, day, read)
         /\ \A wings, closed : ShortsToo(T, wings, closed) <=> ShortsToo(U, wings, closed)
<1>1. LiveIn(U) = LiveIn(T)
  BY SameLive
<1>2. \A leg, n : StillHeld(T, day, leg, n) <=> StillHeld(U, day, leg, n)
  BY DEF Same, StillHeld
<1>3. ReadHolds(T, day, read) => ReadHolds(U, day, read)
  BY <1>2 DEF ReadHolds
<1>4. Clean(T, day, read) <=> Clean(U, day, read)
  BY DEF Clean, Same
<1> QED BY <1>1, <1>3, <1>4 DEF ShortsToo

\* The tick's reading stands while the entry script adds a lot.
LEMMA ReadHoldsAdds ==
  ASSUME NEW T, NEW U, IsTable(T, Legs), NEW leg, NEW day, NEW action \in Actions,
         Adds(T, U, leg, day, action), NEW read, ReadHolds(T, day, read)
  PROVE  ReadHolds(U, day, read) /\ (Clean(U, day, read) => Clean(T, day, read))
<1>1. ASSUME NEW l \in DOMAIN read PROVE StillHeld(U, day, l, read[l])
  <2>1. read[l] \in Int \ {0} /\ StillHeld(T, day, l, read[l])
    BY DEF ReadHolds
  <2>2. Held(T, l) \in Int
    BY HeldIsInt
  <2>3. CASE l # leg
    <3>1. Held(U, l) = Held(T, l)
      BY <2>2, <2>3 DEF Adds
    <3> QED BY <2>1, <3>1 DEF StillHeld, Adds
  <2>4. CASE l = leg /\ action = Closing(read[l])
    BY <2>4 DEF StillHeld, Adds
  <2>5. CASE l = leg /\ action # Closing(read[l])
    <3>1. /\ read[l] > 0 => Signed(action, 1) = 1
          /\ read[l] < 0 => Signed(action, 1) = -1
      BY <2>1, <2>5 DEF Closing, Signed, Actions
    <3>2. Held(U, l) = Held(T, l) + Signed(action, 1)
      BY <2>5 DEF Adds
    <3>3. Has(T, l, day, Closing(read[l])) => Has(U, l, day, Closing(read[l]))
      BY DEF Adds
    <3>4. \/ Has(T, l, day, Closing(read[l]))
          \/ read[l] > 0 /\ Held(T, l) >= read[l]
          \/ read[l] < 0 /\ Held(T, l) <= read[l]
      BY <2>1 DEF StillHeld
    <3>5. CASE read[l] > 0 /\ Held(T, l) >= read[l]
      <4>1. Held(U, l) >= read[l]
        BY <2>1, <2>2, <3>1, <3>2, <3>5
      <4> QED BY <3>5, <4>1 DEF StillHeld
    <3>6. CASE read[l] < 0 /\ Held(T, l) <= read[l]
      <4>1. Held(U, l) <= read[l]
        BY <2>1, <2>2, <3>1, <3>2, <3>6
      <4> QED BY <3>6, <4>1 DEF StillHeld
    <3> QED BY <3>3, <3>4, <3>5, <3>6 DEF StillHeld
  <2> QED BY <2>3, <2>4, <2>5
<1>2. Clean(U, day, read) => Clean(T, day, read)
  BY DEF Clean, Adds
<1> QED BY <1>1, <1>2 DEF ReadHolds

\* A leg that is flat is opened.
LEMMA LegOpens ==
  ASSUME NEW T, NEW U, IsTable(T, Legs), OneLot(T), NEW leg \in Legs, NEW day,
         Held(T, leg) = 0, Adds(T, U, leg, day, Opener(leg))
  PROVE  /\ OneLot(U) /\ LiveIn(U) = LiveIn(T) \cup {leg}
         /\ \A l : l # leg => Held(U, l) = Held(T, l)
         /\ Held(U, leg) = Lot(leg) /\ Held(U, leg) # 0
<1>1. Held(U, leg) = Lot(leg) /\ Lot(leg) # 0
  BY LegFields DEF Adds, Lot
<1>2. \A l : l # leg => Held(U, l) = Held(T, l)
  BY HeldIsInt DEF Adds
<1>3. OneLot(U)
  BY <1>1, <1>2 DEF OneLot
<1>4. LiveIn(U) = LiveIn(T) \cup {leg}
  BY <1>1, <1>2 DEF LiveIn
<1> QED BY <1>1, <1>2, <1>3, <1>4

\* A leg that is live is reversed.
LEMMA LegReverses ==
  ASSUME NEW T, NEW U, IsTable(T, Legs), OneLot(T), NEW leg \in Legs, NEW day,
         Held(T, leg) # 0, Adds(T, U, leg, day, Opposite(Opener(leg)))
  PROVE  /\ OneLot(U) /\ LiveIn(U) = LiveIn(T) \ {leg}
         /\ \A l : l # leg => Held(U, l) = Held(T, l)
         /\ Held(U, leg) = 0
<1>1. Held(T, leg) = Lot(leg)
  BY DEF OneLot
<1>2. Held(U, leg) = 0
  BY <1>1, LegFields DEF Adds
<1>3. \A l : l # leg => Held(U, l) = Held(T, l)
  BY HeldIsInt DEF Adds
<1>4. OneLot(U)
  BY <1>2, <1>3 DEF OneLot
<1>5. LiveIn(U) = LiveIn(T) \ {leg}
  BY <1>2, <1>3 DEF LiveIn
<1> QED BY <1>2, <1>3, <1>4, <1>5

\* Only legs with rows are live.
LEMMA LiveFinite ==
  ASSUME NEW T, IsTable(T, Legs)
  PROVE  IsFiniteSet(LiveIn(T)) /\ LiveIn(T) \subseteq Legs
<1>1. LiveIn(T) \subseteq {r.leg : r \in T}
  BY HeldHasRow DEF LiveIn
<1>2. IsFiniteSet({r.leg : r \in T})
  <2> DEFINE f == [r \in T |-> r.leg]
             S == {r.leg : r \in T}
  <2>1. f \in [T -> S] /\ \A l \in S : \E r \in T : f[r] = l
    OBVIOUS
  <2>2. f \in Surjection(T, S)
    BY <2>1 DEF Surjection
  <2>3. IsFiniteSet(T)
    BY DEF IsTable
  <2> HIDE DEF f, S
  <2>4. IsFiniteSet(S)
    BY <2>2, <2>3, FS_Surjection
  <2> QED BY <2>4 DEF S
<1> QED BY <1>1, <1>2, FS_Subset DEF LiveIn

-----------------------------------------------------------------------------
(* The entry script.                                                       *)

\* The stages of the script.
LEMMA EntryPhases ==
  ASSUME NEW e, IsEntry(e)
  PROVE  /\ NoEntry.pc = "none"
         /\ e = NoEntry <=> e.pc = "none"
         /\ e # NoEntry => e.basket \in Baskets
         /\ e.pc = "place" => e.placed \in 0 .. 3
         /\ e.pc = "place" => e \in [pc : {"place"}, basket : Baskets, placed : 0 .. 3]
         /\ e.pc = "verify" => e \in [pc : {"verify", "credit"}, basket : Baskets,
                                      ok : BOOLEAN]
         /\ e.pc = "undo" => /\ e.left \in (SUBSET (1 .. 4)) \ {{}}
                             /\ e \in [pc : {"undo"}, basket : Baskets,
                                       left : (SUBSET (1 .. 4)) \ {{}}]
         /\ e.pc \in {"none", "place", "verify", "credit", "undo"}
<1>1. NoEntry.pc = "none"
  BY DEF NoEntry
<1>2. CASE e = NoEntry
  BY <1>1, <1>2
<1>3. CASE e \in [pc : {"place"}, basket : Baskets, placed : 0 .. 3]
  BY <1>1, <1>3
<1>4. CASE e \in [pc : {"verify", "credit"}, basket : Baskets, ok : BOOLEAN]
  BY <1>1, <1>4
<1>5. CASE e \in [pc : {"undo"}, basket : Baskets, left : (SUBSET (1 .. 4)) \ {{}}]
  BY <1>1, <1>5
<1> QED BY <1>2, <1>3, <1>4, <1>5 DEF IsEntry

\* The tick under way, while the entry script writes no row.
LEMMA MonitorBesideEntry ==
  ASSUME MonitorInv, IsEntry(entry), entry # NoEntry,
         UNCHANGED <<paper_trades, today, monitor, batches, skipped, reused>>
  PROVE  MonitorInv'
<1>1. monitor.pc = "decide" => DecideInv(paper_trades, today, monitor)'
  BY DEF MonitorInv, DecideInv
<1>2. monitor.pc = "write" => WriteInv(paper_trades, today, monitor)'
  BY DEF MonitorInv, WriteInv, CloseTicket, LockTicket, RollTicket
<1> QED BY <1>1, <1>2 DEF MonitorInv

\* The rows and their keys, while nothing is written.
LEMMA RowsUntouched ==
  ASSUME RowsInv, UNCHANGED <<paper_trades, skipped, reused>>
  PROVE  RowsInv'
BY DEF RowsInv

\* A new condor: everything is flat.
LEMMA BeginEntryInv ==
  ASSUME CondorInv, NEW basket \in Baskets, BeginEntry(basket)
  PROVE  RowsInv' /\ EntryInv' /\ MonitorInv' /\ IsEntry(entry)'
<1>1. /\ entry' = [pc |-> "place", basket |-> basket, placed |-> 0]
      /\ UNCHANGED <<paper_trades, today, monitor, batches>>
      /\ LiveIn(paper_trades) = {}
  BY NetIsHeld DEF BeginEntry
<1>2. \A leg \in Legs : Held(paper_trades, leg) = 0
  BY <1>1 DEF LiveIn
<1>3. RowsInv'
  BY <1>1, <1>2 DEF RowsInv, OneLot, OneRole
<1>4. entry'.pc = "place"
  BY <1>1
<1>5. BasketInv(paper_trades, today, entry)'
  BY <1>1, <1>4 DEF BasketInv
<1>6. EntryInv'
  BY <1>4, <1>5 DEF EntryInv
<1>7. ASSUME monitor.pc = "decide" PROVE DecideInv(paper_trades, today, monitor)'
  <2>1. DecideInv(paper_trades, today, monitor)
    BY <1>7 DEF CondorInv, MonitorInv
  <2> QED BY <1>1, <2>1 DEF DecideInv, ShortsToo
<1>8. ASSUME monitor.pc = "write" PROVE WriteInv(paper_trades, today, monitor)'
  <2>1. WriteInv(paper_trades, today, monitor)
    BY <1>8 DEF CondorInv, MonitorInv
  <2>2. ~LockTicket(paper_trades, monitor)
    BY <1>1 DEF LockTicket, HasRole, Sides
  <2>3. CloseTicket(paper_trades, today, monitor) =>
          CloseTicket(paper_trades, today, monitor)'
    BY <1>1 DEF CloseTicket, ShortsToo
  <2>4. RollTicket(monitor) => RollTicket(monitor)'
    BY <1>1 DEF RollTicket
  <2> QED BY <1>1, <2>1, <2>2, <2>3, <2>4 DEF WriteInv
<1>9. monitor.pc = "mark" => monitor.todo \subseteq Legs
  BY DEF CondorInv, CondorTypes, TypeOK, IsMonitor, Resting, Down
<1>10. MonitorInv'
  BY <1>1, <1>2, <1>7, <1>8, <1>9 DEF MonitorInv
<1>11. IsEntry(entry)'
  BY <1>1 DEF IsEntry
<1> QED BY <1>3, <1>6, <1>10, <1>11

\* A table in which a leg of the basket's next role was placed.
LEMMA PlacedBasket ==
  ASSUME NEW T, NEW U, IsTable(T, Legs), OneLot(T), OneRole(T), NEW day,
         NEW e \in [pc : {"place"}, basket : Baskets, placed : 0 .. 3],
         BasketInv(T, day, e),
         Adds(T, U, e.basket[e.placed + 1], day, Opener(e.basket[e.placed + 1])),
         NEW f, f.basket = e.basket, f.pc = "place" => f.placed = e.placed + 1,
         f.pc # "undo"
  PROVE  /\ Held(T, e.basket[e.placed + 1]) = 0
         /\ OneLot(U) /\ OneRole(U)
         /\ LiveIn(U) = LiveIn(T) \cup {e.basket[e.placed + 1]}
         /\ BasketInv(U, day, f)
<1> DEFINE k == e.placed + 1
           b == e.basket
           leg == b[k]
<1>1. /\ k \in 1 .. 4 /\ 1 .. e.placed \subseteq 1 .. 4 /\ 1 .. e.placed \subseteq 1 .. k
      /\ k \notin 1 .. e.placed
  OBVIOUS
<1>2. b \in Baskets /\ leg \in Legs /\ \A i \in 1 .. 4 : b[i] \in Legs
  BY <1>1, BasketLegs
<1>3. \A l \in LiveIn(T) : \E i \in 1 .. e.placed : Role(l) = Role(b[i])
  BY DEF BasketInv
<1>4. \A l \in LiveIn(T) : Role(l) # Role(leg)
  BY <1>1, <1>2, <1>3, BasketRoles
<1>5. Held(T, leg) = 0
  BY <1>2, <1>4 DEF LiveIn
<1>6. Adds(T, U, leg, day, Opener(leg))
  OBVIOUS
<1> HIDE DEF leg, k
<1>7. /\ OneLot(U) /\ LiveIn(U) = LiveIn(T) \cup {leg}
      /\ \A l : l # leg => Held(U, l) = Held(T, l)
      /\ Held(U, leg) # 0
  BY <1>2, <1>5, <1>6, LegOpens
<1>8. OneRole(U)
  BY <1>4, <1>7 DEF OneRole
<1>9. \A l \in Legs : Begun(T, day, l) => Begun(U, day, l)
  <2>1. \A l \in Legs : OpenedOn(T, l, day) => OpenedOn(U, l, day)
    BY <1>6 DEF Adds, OpenedOn
  <2>2. \A l \in Legs : ClosedOn(T, l, day) => ClosedOn(U, l, day)
    BY <1>6 DEF Adds, ClosedOn
  <2> QED BY <1>5, <1>7, <2>1, <2>2 DEF Begun
<1>10. Begun(U, day, leg)
  <2>1. OpenedOn(U, leg, day)
    BY <1>6 DEF Adds, OpenedOn
  <2> QED BY <1>7, <2>1 DEF Begun
<1>11. \A side : Rolled(T, day, b, side) => Rolled(U, day, b, side)
  <2>1. \A l, side : ClosedOn(T, l, day) => ClosedOn(U, l, day)
    BY <1>6 DEF Adds, ClosedOn
  <2>2. \A side : Winged(T, side) => Winged(U, side)
    BY <1>7 DEF Winged
  <2> QED BY <2>1, <2>2 DEF Rolled
<1>12. ASSUME f.pc = "place", NEW l \in LiveIn(U)
       PROVE  \E i \in 1 .. f.placed : Role(l) = Role(f.basket[i])
  <2>1. f.placed = k /\ k \in 1 .. k
    BY <1>1, <1>12 DEF k
  <2> QED BY <1>1, <1>3, <1>7, <2>1 DEF leg
<1>13. ASSUME NEW i \in 1 .. 4, NEW l \in LiveIn(U), Role(l) = Role(b[i])
       PROVE  Begun(U, day, b[i])
  <2>1. CASE l \in LiveIn(T)
    <3>1. Begun(T, day, b[i])
      BY <1>13, <2>1 DEF BasketInv
    <3> QED BY <1>2, <1>9, <3>1
  <2>2. CASE l = leg
    <3>1. i = k
      BY <1>1, <1>2, <1>13, <2>2, BasketRoles DEF leg
    <3> QED BY <1>10, <3>1 DEF leg
  <2> QED BY <1>7, <2>1, <2>2
<1>14. ASSUME NEW l \in LiveIn(U), l.kind = "short", l # b[ShortAt(l.side)]
       PROVE  Rolled(U, day, b, l.side)
  <2>1. CASE l \in LiveIn(T)
    BY <1>11, <1>14, <2>1 DEF BasketInv
  <2>2. CASE l = leg
    <3>1. l.side \in Sides /\ ShortAt(l.side) \in 1 .. 4
      BY <1>2, <2>2, LegFields, BasketRoles
    <3>2. Role(l) = Role(b[ShortAt(l.side)])
      BY <1>2, <1>14, <3>1, BasketRoles DEF Role
    <3>3. k = ShortAt(l.side)
      BY <1>1, <1>2, <2>2, <3>1, <3>2, BasketRoles DEF leg
    <3> QED BY <1>14, <2>2, <3>3 DEF leg
  <2> QED BY <1>7, <2>1, <2>2
<1>15. BasketInv(U, day, f)
  BY <1>12, <1>13, <1>14 DEF BasketInv
<1> QED BY <1>5, <1>7, <1>8, <1>15 DEF leg, k

\* Placing a leg gives no closed wing a short that the tick has not seen.
LEMMA PlacedShortsToo ==
  ASSUME NEW T, NEW U, NEW day,
         NEW e \in [pc : {"place"}, basket : Baskets, placed : 0 .. 3],
         BasketInv(T, day, e),
         LiveIn(U) = LiveIn(T) \cup {e.basket[e.placed + 1]},
         NEW wings, e.basket[e.placed + 1] \notin wings, NEW closed,
         ShortsToo(T, wings, closed)
  PROVE  ShortsToo(U, wings, closed)
<1> DEFINE k == e.placed + 1
           b == e.basket
           leg == b[k]
<1>1. /\ k \in 1 .. 4 /\ 1 .. e.placed \subseteq 1 .. 4 /\ k + 1 \notin 1 .. e.placed
      /\ b \in Baskets /\ leg \in Legs /\ leg \notin wings
      /\ LiveIn(U) = LiveIn(T) \cup {leg} /\ LiveIn(T) \subseteq Legs
  BY BasketLegs DEF LiveIn
<1>2. \A l \in LiveIn(T) : \E i \in 1 .. e.placed : Role(l) = Role(b[i])
  BY DEF BasketInv
<1> SUFFICES ASSUME NEW wing \in wings, NEW short \in LiveIn(U),
                    wing \in LiveIn(U), wing.kind = "long", short.kind = "short",
                    short.side = wing.side
             PROVE  short \in closed
  BY DEF ShortsToo
<1>3. CASE short \in LiveIn(T)
  BY <1>1, <1>3 DEF ShortsToo
<1>4. CASE short = leg
  <2>1. short.side \in Sides /\ wing \in LiveIn(T) /\ wing \in Legs
    BY <1>1, <1>4, LegFields
  <2>2. /\ ShortAt(short.side) \in 1 .. 4 /\ WingAt(short.side) = ShortAt(short.side) + 1
        /\ WingAt(short.side) \in 1 .. 4
        /\ Role(b[ShortAt(short.side)]) = Role(short)
        /\ Role(b[WingAt(short.side)]) = Role(wing)
    BY <1>1, <2>1, BasketRoles DEF Role
  <2>3. k = ShortAt(short.side)
    BY <1>1, <1>4, <2>2, BasketRoles DEF leg
  <2>4. PICK i \in 1 .. e.placed : Role(wing) = Role(b[i])
    BY <1>2, <2>1
  <2>5. i = k + 1
    BY <1>1, <2>2, <2>3, <2>4, BasketRoles
  <2> QED BY <1>1, <2>5
<1> QED BY <1>1, <1>3, <1>4

\* A leg that is flat, was read as held, and has no opening trade today: what
\* was read is gone and its close is a duplicate.
LEMMA FlatIsSpent ==
  ASSUME NEW T, NEW day, NEW read, ReadHolds(T, day, read), NEW leg \in DOMAIN read,
         Held(T, leg) = 0
  PROVE  /\ Has(T, leg, day, Closing(read[leg]))
         /\ ~OpenedOn(T, leg, day) => ClosedOn(T, leg, day)
<1>1. Has(T, leg, day, Closing(read[leg]))
  BY DEF ReadHolds, StillHeld
<1>2. leg \in Legs /\ Closing(read[leg]) \in {"BUY", "SELL"}
  BY DEF ReadHolds, Closing
<1>3. Opener(leg) \in {"BUY", "SELL"} /\ Opposite(Opener(leg)) \in {"BUY", "SELL"}
      /\ Opener(leg) # Opposite(Opener(leg))
  BY <1>2, LegFields DEF Actions
<1> QED BY <1>1, <1>2, <1>3 DEF OpenedOn, ClosedOn

\* A leg is placed while the tick has read, decided or is about to write.
LEMMA PlaceLegInv ==
  ASSUME CondorInv, PlaceLeg
  PROVE  /\ RowsInv' /\ EntryInv' /\ MonitorInv' /\ IsEntry(entry)'
         /\ IsTable(paper_trades, Legs)' /\ Dated(paper_trades')
<1> DEFINE leg == entry.basket[entry.placed + 1]
           T == paper_trades
           U == paper_trades'
<1>1. /\ entry \in [pc : {"place"}, basket : Baskets, placed : 0 .. 3]
      /\ entry.pc = "place" /\ entry # NoEntry
  BY EntryPhases DEF CondorInv, CondorTypes, PlaceLeg
<1>2. leg \in Legs /\ Opener(leg) \in Actions /\ today \in Days /\ IsTable(T, Legs)
      /\ Dated(T)
  <2>1. leg \in Legs
    BY <1>1, BasketLegs
  <2>2. Dated(T)
    BY DEF CondorInv, CondorTypes, TypeOK, Dated
  <2> QED BY <2>1, <2>2, LegFields DEF CondorInv, CondorTypes, TypeOK
<1>3. /\ ~Has(T, leg, today, Opener(leg))
      /\ U = RecordTrade(T, Trade(leg, today, Opener(leg), 1))
  BY DuplicateIsHas DEF PlaceLeg, OpenTrade
<1>4. /\ IsTable(U, Legs) /\ Dated(U) /\ Adds(T, U, leg, today, Opener(leg))
      /\ Trade(leg, today, Opener(leg), 1) \in U
  BY <1>2, <1>3, RecordAdds
<1>5. /\ UNCHANGED <<today, monitor, batches, skipped, abandoned, uncovered>>
      /\ reused' = (reused \/ (monitor.pc = "mark" /\ leg \in monitor.todo))
      /\ entry' = IF entry.placed = 3
                    THEN [pc |-> "verify", basket |-> entry.basket, ok |-> TRUE]
                    ELSE [entry EXCEPT !.placed = @ + 1]
  BY DEF PlaceLeg
<1>6. /\ entry'.basket = entry.basket /\ entry'.pc \in {"place", "verify"}
      /\ entry'.pc = "place" => entry'.placed = entry.placed + 1
      /\ IsEntry(entry')
  <2>1. CASE entry.placed = 3
    BY <1>1, <1>5, <2>1 DEF IsEntry
  <2>2. CASE entry.placed # 3
    <3>1. entry' = [pc |-> "place", basket |-> entry.basket, placed |-> entry.placed + 1]
      BY <1>1, <1>5, <2>2
    <3>2. entry.placed + 1 \in 0 .. 3
      BY <1>1, <2>2
    <3> QED BY <1>1, <3>1, <3>2 DEF IsEntry
  <2> QED BY <2>1, <2>2
<1> HIDE DEF leg, T, U
<1>7. ASSUME ~skipped
      PROVE  /\ BasketInv(T, today, entry) /\ Held(T, leg) = 0
             /\ OneLot(U) /\ OneRole(U) /\ LiveIn(U) = LiveIn(T) \cup {leg}
             /\ BasketInv(U, today, entry')
  <2>1. OneLot(T) /\ OneRole(T) /\ BasketInv(T, today, entry)
    BY <1>1, <1>7 DEF CondorInv, RowsInv, EntryInv, T
  <2>2. /\ Adds(T, U, entry.basket[entry.placed + 1], today,
                Opener(entry.basket[entry.placed + 1]))
        /\ entry'.basket = entry.basket /\ entry'.pc # "undo"
        /\ entry'.pc = "place" => entry'.placed = entry.placed + 1
    BY <1>4, <1>6 DEF leg
  <2> DEFINE e == entry
             f == entry'
  <2>3. /\ Held(T, e.basket[e.placed + 1]) = 0 /\ OneLot(U) /\ OneRole(U)
        /\ LiveIn(U) = LiveIn(T) \cup {e.basket[e.placed + 1]}
        /\ BasketInv(U, today, f)
    <3> HIDE DEF e, f
    <3>1. /\ e \in [pc : {"place"}, basket : Baskets, placed : 0 .. 3]
          /\ BasketInv(T, today, e) /\ OneLot(T) /\ OneRole(T) /\ IsTable(T, Legs)
          /\ Adds(T, U, e.basket[e.placed + 1], today, Opener(e.basket[e.placed + 1]))
          /\ f.basket = e.basket /\ f.pc # "undo"
          /\ f.pc = "place" => f.placed = e.placed + 1
      BY <1>1, <1>2, <2>1, <2>2 DEF e, f
    <3> QED BY <3>1, PlacedBasket
  <2> QED BY <2>1, <2>3 DEF leg
<1>8. ASSUME ~skipped, ~reused', NEW l \in LiveIn(U)
      PROVE  HasOpenRow(U, l)
  <2>1. CASE l = leg
    BY <1>4, <2>1 DEF HasOpenRow, Trade, OpenStates
  <2>2. CASE l \in LiveIn(T)
    <3>1. HasOpenRow(T, l)
      BY <1>5, <1>8, <2>2 DEF CondorInv, RowsInv, T
    <3>2. T \subseteq U
      BY <1>3 DEF RecordTrade
    <3> QED BY <3>1, <3>2 DEF HasOpenRow
  <2> QED BY <1>7, <1>8, <2>1, <2>2
<1>9. RowsInv'
  BY <1>5, <1>7, <1>8 DEF RowsInv, U
<1>10. EntryInv'
  BY <1>5, <1>6, <1>7 DEF EntryInv, U
<1>11. ASSUME monitor.pc = "decide" PROVE DecideInv(paper_trades, today, monitor)'
  <2>1. DecideInv(T, today, monitor) /\ monitor.building = TRUE
    BY <1>1, <1>11 DEF CondorInv, MonitorInv, DecideInv, T
  <2>2. ReadHolds(U, today, monitor.seen)
    BY <1>2, <1>4, <2>1, ReadHoldsAdds DEF DecideInv
  <2> DEFINE W(S) == {l \in DOMAIN monitor.seen : ~ClosedOn(S, l, today)}
  <2>3. ASSUME ~skipped PROVE ShortsToo(U, W(U), DOMAIN monitor.seen)
    <3>1. W(U) \subseteq W(T)
      BY <1>4 DEF Adds, ClosedOn
    <3>2. leg \notin W(T)
      BY <1>3, <1>7, <2>1, <2>3, FlatIsSpent DEF DecideInv, OpenedOn
    <3>3. ShortsToo(T, W(U), DOMAIN monitor.seen)
      BY <2>1, <2>3, <3>1 DEF DecideInv, ShortsToo
    <3> HIDE DEF W
    <3> QED BY <1>1, <1>7, <2>3, <3>1, <3>2, <3>3, PlacedShortsToo DEF leg
  <2> QED BY <1>5, <2>1, <2>2, <2>3 DEF DecideInv, U
<1>12. ASSUME monitor.pc = "write" PROVE WriteInv(paper_trades, today, monitor)'
  <2>1. WriteInv(T, today, monitor) /\ ~LockTicket(T, monitor)
    BY <1>1, <1>12 DEF CondorInv, MonitorInv, WriteInv, LockTicket, T
  <2>2. /\ ReadHolds(T, today, monitor.close) /\ ReadHolds(U, today, monitor.close)
        /\ Clean(U, today, monitor.close) => Clean(T, today, monitor.close)
    BY <1>2, <1>4, <2>1, ReadHoldsAdds DEF WriteInv
  <2>3. ASSUME CloseTicket(T, today, monitor) PROVE CloseTicket(U, today, monitor)
    <3> SUFFICES ASSUME ~skipped, Clean(U, today, monitor.close)
                 PROVE  ShortsToo(U, DOMAIN monitor.close, DOMAIN monitor.close)
      BY <2>3 DEF CloseTicket
    <3>1. leg \notin DOMAIN monitor.close
      BY <1>7, <2>2, FlatIsSpent DEF Clean
    <3>2. ShortsToo(T, DOMAIN monitor.close, DOMAIN monitor.close)
      BY <2>2, <2>3 DEF CloseTicket
    <3> QED BY <1>1, <1>7, <3>1, <3>2, PlacedShortsToo DEF leg
  <2>4. CloseTicket(U, today, monitor) => CloseTicket(paper_trades, today, monitor)'
    BY <1>5 DEF CloseTicket, U
  <2>5. RollTicket(monitor) => RollTicket(monitor)'
    BY <1>5 DEF RollTicket
  <2> QED BY <1>5, <2>1, <2>2, <2>3, <2>4, <2>5 DEF WriteInv, U
<1>13. ASSUME monitor.pc = "mark", ~skipped, ~reused', NEW l \in monitor.todo
       PROVE  Held(U, l) = 0
  <2>1. Held(T, l) = 0 /\ l # leg
    BY <1>5, <1>13 DEF CondorInv, MonitorInv, T
  <2> QED BY <1>4, <2>1 DEF Adds
<1>14. MonitorInv'
  BY <1>5, <1>11, <1>12, <1>13 DEF MonitorInv, U
<1> QED BY <1>4, <1>6, <1>9, <1>10, <1>14 DEF U

\* The entry starts undoing, or has nothing to undo, or has placed it all.
LEMMA VerifyInv ==
  ASSUME CondorInv, Verify
  PROVE  RowsInv' /\ EntryInv' /\ MonitorInv' /\ IsEntry(entry)'
<1> DEFINE b == entry.basket
           T == paper_trades
<1>1. /\ entry.pc = "verify" /\ entry # NoEntry /\ b \in Baskets
      /\ entry \in [pc : {"verify", "credit"}, basket : Baskets, ok : BOOLEAN]
  BY EntryPhases DEF CondorInv, CondorTypes, Verify
<1>2. /\ UNCHANGED <<paper_trades, today, monitor, batches, skipped, reused,
                     abandoned, uncovered>>
      /\ entry' = IF entry.ok /\ Persisted = 1 .. 4 THEN [entry EXCEPT !.pc = "credit"]
                  ELSE IF Persisted = {} THEN NoEntry
                  ELSE [pc |-> "undo", basket |-> entry.basket, left |-> Persisted]
  BY DEF Verify, tables, history
<1>3. RowsInv' /\ MonitorInv'
  BY <1>1, <1>2, RowsUntouched, MonitorBesideEntry DEF CondorInv, CondorTypes
<1>4. /\ \A i \in 1 .. 4 : i \in Persisted <=> \E l \in LiveIn(T) : Role(l) = Role(b[i])
      /\ Persisted \subseteq 1 .. 4 /\ LiveIn(T) \subseteq Legs
  <2>1. \A i \in 1 .. 4 : Role(b[i]) = <<b[i].kind, b[i].side>>
    BY DEF Role
  <2> QED BY <2>1, NetIsHeld DEF Persisted, HasRole, LiveIn
<1>5. ~skipped => BasketInv(T, today, entry)
  BY <1>1 DEF CondorInv, EntryInv
<1>6. CASE entry.ok /\ Persisted = 1 .. 4
  <2>1. entry' = [pc |-> "credit", basket |-> entry.basket, ok |-> entry.ok]
    BY <1>1, <1>2, <1>6
  <2>2. ASSUME NEW l \in LiveIn(T) PROVE Winged(T, l.side)
    <3>1. l.side \in Sides
      BY <1>4, LegFields
    <3>2. WingAt(l.side) \in Persisted /\ WingAt(l.side) \in 1 .. 4
      BY <1>1, <1>6, <3>1, BasketRoles
    <3>3. PICK w \in LiveIn(T) : Role(w) = Role(b[WingAt(l.side)])
      BY <1>4, <3>2
    <3>4. w.kind = "long" /\ w.side = l.side
      BY <1>1, <3>1, <3>3, BasketRoles DEF Role
    <3> QED BY <3>4 DEF Winged
  <2>3. EntryInv'
    BY <1>2, <2>1, <2>2 DEF EntryInv, Covered
  <2> QED BY <1>1, <1>3, <2>1, <2>3 DEF IsEntry
<1>7. CASE ~(entry.ok /\ Persisted = 1 .. 4) /\ Persisted = {}
  <2>1. entry' = NoEntry /\ NoEntry.pc = "none"
    BY <1>2, <1>7 DEF NoEntry
  <2>2. LiveIn(T) = {}
    BY <1>1, <1>4, <1>7, BasketRoles
  <2>3. EntryInv'
    BY <1>2, <2>1, <2>2 DEF EntryInv, Covered
  <2> QED BY <1>3, <2>1, <2>3 DEF IsEntry
<1>8. CASE ~(entry.ok /\ Persisted = 1 .. 4) /\ Persisted # {}
  <2>1. entry' = [pc |-> "undo", basket |-> b, left |-> Persisted]
    BY <1>2, <1>8
  <2>2. ASSUME ~skipped PROVE BasketInv(T, today, entry')
    <3>1. \A i \in Persisted : Begun(T, today, b[i])
      BY <1>4, <1>5, <2>2 DEF BasketInv
    <3> QED BY <1>5, <2>1, <2>2, <3>1 DEF BasketInv
  <2>3. UndoInv(T, entry')
    <3>1. ASSUME NEW i \in (1 .. 4) \ Persisted PROVE Held(T, b[i]) = 0
      <4>1. b[i] \notin LiveIn(T) /\ b[i] \in Legs
        BY <1>1, <1>4, BasketLegs
      <4> QED BY <4>1 DEF LiveIn
    <3>2. ASSUME NEW l \in LiveIn(T), l.kind = "short"
          PROVE  ShortAt(l.side) \in Persisted
      <4>1. l.side \in Sides
        BY <1>4, LegFields
      <4>2. ShortAt(l.side) \in 1 .. 4 /\ Role(l) = Role(b[ShortAt(l.side)])
        BY <1>1, <3>2, <4>1, BasketRoles DEF Role
      <4> QED BY <1>4, <4>2
    <3> QED BY <2>1, <3>1, <3>2 DEF UndoInv
  <2>4. EntryInv'
    BY <1>2, <2>1, <2>2, <2>3 DEF EntryInv
  <2> QED BY <1>1, <1>3, <1>4, <1>8, <2>1, <2>4 DEF IsEntry
<1> QED BY <1>6, <1>7, <1>8

\* The other ends of the script's stages, which write no row.
LEMMA StageEndsInv ==
  ASSUME CondorInv,
         PlaceLegFails \/ VerifyFails \/ SetCredit \/ SetCreditFails \/ EntryDies
  PROVE  RowsInv' /\ EntryInv' /\ MonitorInv' /\ IsEntry(entry)'
<1>1. /\ entry # NoEntry /\ NoEntry.pc = "none"
      /\ UNCHANGED <<paper_trades, today, monitor, batches, skipped, reused, uncovered>>
  BY EntryPhases DEF CondorInv, CondorTypes, PlaceLegFails, VerifyFails, SetCredit,
     SetCreditFails, EntryDies, tables, history
<1>2. RowsInv' /\ MonitorInv'
  BY <1>1, RowsUntouched, MonitorBesideEntry DEF CondorInv, CondorTypes
<1>3. CASE PlaceLegFails
  <2>1. /\ entry.pc = "place" /\ abandoned' = abandoned /\ entry.basket \in Baskets
        /\ entry' = [pc |-> "verify", basket |-> entry.basket, ok |-> FALSE]
    BY <1>3, EntryPhases DEF CondorInv, CondorTypes, PlaceLegFails, history
  <2>2. ~skipped => BasketInv(paper_trades, today, entry')
    BY <2>1 DEF CondorInv, EntryInv, BasketInv
  <2> QED BY <1>1, <1>2, <2>1, <2>2 DEF EntryInv, IsEntry
<1>4. CASE VerifyFails \/ EntryDies
  <2>1. entry' = NoEntry /\ abandoned'
    BY <1>4 DEF VerifyFails, EntryDies
  <2> QED BY <1>1, <1>2, <2>1 DEF EntryInv, IsEntry
<1>5. CASE SetCredit \/ SetCreditFails
  <2>1. entry' = NoEntry /\ entry.pc = "credit" /\ abandoned' = abandoned
    BY <1>5 DEF SetCredit, SetCreditFails, history
  <2> QED BY <1>1, <1>2, <2>1 DEF CondorInv, EntryInv, IsEntry
<1> QED BY <1>3, <1>4, <1>5

\* The compensation's next leg, and what is left after it.
LEMMA Undo ==
  ASSUME entry \in [pc : {"undo"}, basket : Baskets, left : (SUBSET (1 .. 4)) \ {{}}]
  PROVE  \E i \in entry.left :
           /\ Undoing = entry.basket[i] /\ \A j \in entry.left : i <= j
           /\ AfterUndo = IF entry.left = {i} THEN NoEntry
                          ELSE [pc |-> "undo", basket |-> entry.basket,
                                left |-> entry.left \ {i}]
           /\ IsEntry(AfterUndo)
<1> DEFINE i == CHOOSE n \in entry.left : \A j \in entry.left : n <= j
<1>1. i \in entry.left /\ \A j \in entry.left : i <= j
  <2>1. \E n \in entry.left : \A j \in entry.left : n <= j
    <3>1. entry.left \subseteq {1, 2, 3, 4} /\ entry.left # {}
      BY \A x \in 1 .. 4 : x = 1 \/ x = 2 \/ x = 3 \/ x = 4
    <3>2. CASE 1 \in entry.left
      BY <3>1, <3>2
    <3>3. CASE 1 \notin entry.left /\ 2 \in entry.left
      BY <3>1, <3>3
    <3>4. CASE 1 \notin entry.left /\ 2 \notin entry.left /\ 3 \in entry.left
      BY <3>1, <3>4
    <3> QED BY <3>1, <3>2, <3>3, <3>4
  <2> QED BY <2>1
<1>2. Undoing = entry.basket[i]
  BY DEF Undoing
<1>3. AfterUndo = IF entry.left = {i} THEN NoEntry
                  ELSE [entry EXCEPT !.left = @ \ {i}]
  BY DEF AfterUndo
<1> HIDE DEF i
<1>4. [entry EXCEPT !.left = @ \ {i}] =
        [pc |-> "undo", basket |-> entry.basket, left |-> entry.left \ {i}]
  OBVIOUS
<1>5. entry.left # {i} => entry.left \ {i} \in (SUBSET (1 .. 4)) \ {{}}
  BY <1>1
<1>6. IsEntry(AfterUndo)
  BY <1>3, <1>4, <1>5 DEF IsEntry
<1> QED BY <1>1, <1>2, <1>3, <1>4, <1>6

\* A table in which a leg of the basket was reversed.
LEMMA ReversedBasket ==
  ASSUME NEW T, NEW U, IsTable(T, Legs), OneLot(T), OneRole(T), NEW day,
         NEW e \in [pc : {"undo"}, basket : Baskets, left : (SUBSET (1 .. 4)) \ {{}}],
         BasketInv(T, day, e), NEW i \in e.left,
         Adds(T, U, e.basket[i], day, Opposite(Opener(e.basket[i]))),
         ~ClosedOn(T, e.basket[i], day),
         NEW f, f.basket = e.basket, f.left = e.left \ {i}, f.pc = "undo"
  PROVE  /\ OneLot(U) /\ OneRole(U)
         /\ Held(T, e.basket[i]) # 0 /\ Held(U, e.basket[i]) = 0
         /\ LiveIn(U) = LiveIn(T) \ {e.basket[i]}
         /\ BasketInv(U, day, f)
         /\ UndoInv(T, e) => UndoInv(U, f)
<1> DEFINE b == e.basket
           leg == b[i]
<1>1. /\ i \in 1 .. 4 /\ b \in Baskets /\ leg \in Legs
      /\ \A j \in 1 .. 4 : b[j] \in Legs
  BY BasketLegs
<1>2. OpenedOn(T, leg, day) /\ Held(T, leg) # 0
  BY DEF BasketInv, Begun
<1> HIDE DEF leg
<1>3. Adds(T, U, leg, day, Opposite(Opener(leg))) /\ ~ClosedOn(T, leg, day)
  BY DEF leg
<1>4. /\ OneLot(U) /\ LiveIn(U) = LiveIn(T) \ {leg} /\ Held(U, leg) = 0
      /\ \A l : l # leg => Held(U, l) = Held(T, l)
  BY <1>1, <1>2, <1>3, LegReverses
<1>5. OneRole(U)
  BY <1>4 DEF OneRole
<1>6. /\ \A l \in Legs : OpenedOn(T, l, day) => OpenedOn(U, l, day)
      /\ \A l \in Legs : ClosedOn(T, l, day) => ClosedOn(U, l, day)
      /\ ClosedOn(U, leg, day)
  BY <1>3 DEF Adds, OpenedOn, ClosedOn
<1>7. \A l \in Legs : Begun(T, day, l) => Begun(U, day, l)
  BY <1>4, <1>6 DEF Begun
<1>8. ASSUME NEW side \in Sides, Winged(T, side), leg # b[WingAt(side)]
      PROVE  Winged(U, side)
  <2>1. PICK w \in LiveIn(T) : w.kind = "long" /\ w.side = side
    BY <1>8 DEF Winged
  <2>2. w # leg
    <3>1. SUFFICES ASSUME w = leg PROVE FALSE
      OBVIOUS
    <3>2. WingAt(side) \in 1 .. 4 /\ Role(b[WingAt(side)]) = Role(b[i])
      BY <1>1, <1>8, <2>1, <3>1, BasketRoles DEF Role, leg
    <3> QED BY <1>1, <1>8, <3>2, BasketRoles DEF leg
  <2> QED BY <1>4, <2>1, <2>2 DEF Winged
<1>9. ASSUME NEW side \in Sides, Rolled(T, day, b, side)
      PROVE  Rolled(U, day, b, side)
  <2>1. leg # b[WingAt(side)]
    BY <1>3, <1>9 DEF Rolled
  <2>2. ClosedOn(U, b[WingAt(side)], day)
    BY <1>1, <1>6, <1>9, BasketRoles DEF Rolled
  <2> QED BY <1>8, <1>9, <2>1, <2>2 DEF Rolled
<1>10. \A l \in LiveIn(U) : l \in LiveIn(T) /\ l \in Legs /\ l.side \in Sides /\ l # leg
  BY <1>4, LegFields DEF LiveIn
<1>11. ASSUME NEW l \in LiveIn(U), l.kind = "short", l # b[ShortAt(l.side)]
       PROVE  Rolled(U, day, b, l.side)
  BY <1>9, <1>10, <1>11 DEF BasketInv
<1>12. BasketInv(U, day, f)
  <2>1. \A j \in 1 .. 4, l \in LiveIn(U) : Role(l) = Role(b[j]) => Begun(U, day, b[j])
    BY <1>1, <1>7, <1>10 DEF BasketInv
  <2>2. \A j \in f.left : Begun(U, day, b[j])
    BY <1>1, <1>7 DEF BasketInv
  <2> QED BY <1>11, <2>1, <2>2 DEF BasketInv
<1>13. ASSUME UndoInv(T, e) PROVE UndoInv(U, f)
  <2>1. ASSUME NEW j \in (1 .. 4) \ f.left PROVE Held(U, b[j]) = 0
    <3>1. CASE j = i
      BY <1>4, <3>1 DEF leg
    <3>2. CASE j # i
      BY <1>4, <1>13, <3>2 DEF UndoInv
    <3> QED BY <3>1, <3>2
  <2>2. ASSUME NEW l \in LiveIn(U), l.kind = "short", ShortAt(l.side) \notin f.left
        PROVE  Winged(U, l.side)
    <3>1. CASE l # b[ShortAt(l.side)]
      BY <1>11, <2>2, <3>1 DEF Rolled
    <3>2. CASE l = b[ShortAt(l.side)]
      <4>1. ShortAt(l.side) # i /\ ShortAt(l.side) \in 1 .. 4
        BY <1>1, <1>10, <2>2, <3>2, BasketRoles DEF leg
      <4>2. Held(T, l) = 0
        BY <1>13, <2>2, <3>2, <4>1 DEF UndoInv
      <4> QED BY <1>10, <2>2, <4>2 DEF LiveIn
    <3> QED BY <3>1, <3>2
  <2> QED BY <2>1, <2>2 DEF UndoInv
<1> QED BY <1>2, <1>4, <1>5, <1>12, <1>13 DEF leg

\* When nothing is left to undo, the shorts that stay have their wings.
LEMMA UndoneIsCovered ==
  ASSUME NEW T, NEW f, UndoInv(T, f), f.left = {}
  PROVE  Covered(T)
BY DEF UndoInv, Covered

\* The tick under way, while the entry script reverses a live leg.
LEMMA ReversedRead ==
  ASSUME NEW T, NEW U, IsTable(T, Legs), NEW leg, NEW day, NEW action \in Actions,
         Adds(T, U, leg, day, action), LiveIn(U) \subseteq LiveIn(T),
         NEW read, NEW closed
  PROVE  LET W(S) == {l \in DOMAIN read : ~ClosedOn(S, l, day)}
         IN  /\ ShortsToo(T, W(T), closed) => ShortsToo(U, W(U), closed)
             /\ ShortsToo(T, DOMAIN read, closed) => ShortsToo(U, DOMAIN read, closed)
<1> DEFINE W(S) == {l \in DOMAIN read : ~ClosedOn(S, l, day)}
<1>1. W(U) \subseteq W(T)
  BY DEF Adds, ClosedOn
<1>2. ShortsToo(T, W(T), closed) => ShortsToo(U, W(U), closed)
  <2> HIDE DEF W
  <2> QED BY <1>1 DEF ShortsToo
<1>3. ShortsToo(T, DOMAIN read, closed) => ShortsToo(U, DOMAIN read, closed)
  BY DEF ShortsToo
<1> QED BY <1>2, <1>3

\* A leg is reversed while the tick has read, decided or is about to write.
LEMMA CompensateInv ==
  ASSUME CondorInv, Compensate
  PROVE  /\ RowsInv' /\ EntryInv' /\ MonitorInv' /\ IsEntry(entry)'
         /\ IsTable(paper_trades, Legs)' /\ Dated(paper_trades')
<1> DEFINE T == paper_trades
           U == paper_trades'
           b == entry.basket
<1>1. /\ entry \in [pc : {"undo"}, basket : Baskets, left : (SUBSET (1 .. 4)) \ {{}}]
      /\ entry.pc = "undo" /\ entry # NoEntry
  BY EntryPhases DEF CondorInv, CondorTypes, Compensate
<1>2. PICK i \in entry.left :
        /\ Undoing = b[i]
        /\ AfterUndo = IF entry.left = {i} THEN NoEntry
                       ELSE [pc |-> "undo", basket |-> b, left |-> entry.left \ {i}]
        /\ IsEntry(AfterUndo)
  BY <1>1, Undo
<1> DEFINE leg == b[i]
           act == Opposite(Opener(leg))
           t == Trade(leg, today, act, 1)
<1>3. /\ leg \in Legs /\ act \in Actions /\ today \in Days /\ IsTable(T, Legs) /\ Dated(T)
  <2>1. leg \in Legs
    BY <1>1, BasketLegs
  <2>2. Dated(T)
    BY DEF CondorInv, CondorTypes, TypeOK, Dated
  <2> QED BY <2>1, <2>2, LegFields DEF CondorInv, CondorTypes, TypeOK
<1>4. /\ UndoTrade(Undoing) = t /\ t.leg = leg
      /\ UNCHANGED <<today, monitor, batches, skipped, reused, abandoned, uncovered>>
      /\ entry' = AfterUndo
  BY <1>2 DEF Compensate, UndoTrade, Trade, history
<1> DEFINE V == RecordTrade(T, t)
<1>5. ~Has(T, leg, today, act) /\ (U = V \/ U = MarkAll(V, {leg}))
  BY <1>4, DuplicateIsHas, MarkOneIsMarkAll DEF Compensate
<1>6. IsTable(V, Legs) /\ Dated(V) /\ Adds(T, V, leg, today, act)
  BY <1>3, <1>5, RecordAdds
<1>7. /\ IsTable(U, Legs) /\ Dated(U) /\ Same(V, U)
      /\ \A l : l # leg /\ HasOpenRow(T, l) => HasOpenRow(U, l)
  <2>1. \A l : HasOpenRow(T, l) => HasOpenRow(V, l)
    BY DEF RecordTrade, HasOpenRow
  <2>2. CASE U = V
    BY <1>6, <2>1, <2>2, SameReflexive
  <2>3. CASE U = MarkAll(V, {leg})
    <3> HIDE DEF V
    <3> QED BY <1>6, <2>1, <2>3, MarkAllSame
  <2> QED BY <1>5, <2>2, <2>3
<1>8. Adds(T, U, leg, today, act) /\ ~ClosedOn(T, leg, today)
  <2> HIDE DEF V, U, T, t, leg
  <2>1. Adds(T, U, leg, today, act)
    BY <1>6, <1>7 DEF Adds, Same
  <2> QED BY <1>5, <2>1 DEF ClosedOn
<1> DEFINE f == [pc |-> "undo", basket |-> b, left |-> entry.left \ {i}]
<1>9. f.pc = "undo" /\ f.basket = b /\ f.left = entry.left \ {i}
  OBVIOUS
<1> HIDE DEF T, U, V, t, f, act
<1>10. ASSUME ~skipped
       PROVE  /\ OneLot(U) /\ OneRole(U) /\ Held(T, leg) # 0 /\ Held(U, leg) = 0
              /\ LiveIn(U) = LiveIn(T) \ {leg} /\ BasketInv(U, today, f)
              /\ UndoInv(T, entry) => UndoInv(U, f)
  <2>1. OneLot(T) /\ OneRole(T) /\ BasketInv(T, today, entry)
    BY <1>1, <1>10 DEF CondorInv, RowsInv, EntryInv, T
  <2>2. Adds(T, U, b[i], today, Opposite(Opener(b[i]))) /\ ~ClosedOn(T, b[i], today)
    BY <1>8 DEF act
  <2> QED BY <1>1, <1>3, <1>9, <2>1, <2>2, ReversedBasket
<1> HIDE DEF leg
<1>11. RowsInv'
  <2>1. ASSUME ~skipped, ~reused, NEW l \in LiveIn(U) PROVE HasOpenRow(U, l)
    <3>1. l # leg /\ l \in LiveIn(T)
      BY <1>10, <2>1
    <3>2. HasOpenRow(T, l)
      BY <2>1, <3>1 DEF CondorInv, RowsInv, T
    <3> QED BY <1>7, <3>1, <3>2
  <2> QED BY <1>4, <1>10, <2>1 DEF RowsInv, U
<1>12. EntryInv'
  <2>1. CASE entry.left = {i}
    <3>1. entry' = NoEntry /\ NoEntry.pc = "none" /\ f.left = {}
      BY <1>2, <1>4, <1>9, <2>1, EntryPhases DEF NoEntry
    <3>2. ASSUME ~skipped, ~abandoned, ~uncovered PROVE Covered(U)
      BY <1>1, <1>10, <3>1, <3>2, UndoneIsCovered DEF CondorInv, EntryInv, T
    <3> QED BY <1>4, <3>1, <3>2 DEF EntryInv, U
  <2>2. CASE entry.left # {i}
    <3>1. entry' = f
      BY <1>2, <1>4, <2>2 DEF f
    <3>2. ASSUME ~skipped, ~abandoned, ~uncovered PROVE UndoInv(U, f)
      BY <1>1, <1>10, <3>2 DEF CondorInv, EntryInv, T
    <3> QED BY <1>4, <1>9, <1>10, <3>1, <3>2 DEF EntryInv, U
  <2> QED BY <2>1, <2>2
<1>13. ASSUME monitor.pc = "decide" PROVE DecideInv(paper_trades, today, monitor)'
  <2>1. DecideInv(T, today, monitor) /\ monitor.building = TRUE
    BY <1>1, <1>13 DEF CondorInv, MonitorInv, DecideInv, T
  <2>2. ReadHolds(U, today, monitor.seen)
    BY <1>3, <1>8, <2>1, ReadHoldsAdds DEF DecideInv
  <2>3. ASSUME ~skipped
        PROVE  ShortsToo(U, {l \in DOMAIN monitor.seen : ~ClosedOn(U, l, today)},
                         DOMAIN monitor.seen)
    <3>1. LiveIn(U) \subseteq LiveIn(T)
      BY <1>10, <2>3
    <3> QED BY <1>3, <1>8, <2>1, <2>3, <3>1, ReversedRead DEF DecideInv
  <2> QED BY <1>4, <2>1, <2>2, <2>3 DEF DecideInv, U
<1>14. ASSUME monitor.pc = "write" PROVE WriteInv(paper_trades, today, monitor)'
  <2>1. WriteInv(T, today, monitor) /\ ~LockTicket(T, monitor)
    BY <1>1, <1>14 DEF CondorInv, MonitorInv, WriteInv, LockTicket, T
  <2>2. /\ ReadHolds(U, today, monitor.close)
        /\ Clean(U, today, monitor.close) => Clean(T, today, monitor.close)
    BY <1>3, <1>8, <2>1, ReadHoldsAdds DEF WriteInv
  <2>3. ASSUME CloseTicket(T, today, monitor) PROVE CloseTicket(U, today, monitor)
    <3> SUFFICES ASSUME ~skipped, Clean(U, today, monitor.close)
                 PROVE  ShortsToo(U, DOMAIN monitor.close, DOMAIN monitor.close)
      BY <2>3 DEF CloseTicket
    <3>1. ShortsToo(T, DOMAIN monitor.close, DOMAIN monitor.close)
      BY <2>2, <2>3 DEF CloseTicket
    <3>2. LiveIn(U) \subseteq LiveIn(T)
      BY <1>10
    <3> QED BY <1>3, <1>8, <3>1, <3>2, ReversedRead
  <2>4. CloseTicket(U, today, monitor) => CloseTicket(paper_trades, today, monitor)'
    BY <1>4 DEF CloseTicket, U
  <2>5. RollTicket(monitor) => RollTicket(monitor)'
    BY <1>4 DEF RollTicket
  <2> QED BY <1>4, <2>1, <2>2, <2>3, <2>4, <2>5 DEF WriteInv, U
<1>15. ASSUME monitor.pc = "mark", ~skipped, ~reused, NEW l \in monitor.todo
       PROVE  Held(U, l) = 0
  <2>1. Held(T, l) = 0 /\ l # leg
    BY <1>10, <1>15 DEF CondorInv, MonitorInv, T
  <2> QED BY <1>8, <2>1 DEF Adds
<1>16. MonitorInv'
  BY <1>4, <1>13, <1>14, <1>15 DEF MonitorInv, U
<1> QED BY <1>2, <1>4, <1>7, <1>11, <1>12, <1>16 DEF U

\* A leg that cannot be reversed is left as it is.
LEMMA CompensateFailsInv ==
  ASSUME CondorInv, CompensateFails
  PROVE  RowsInv' /\ EntryInv' /\ MonitorInv' /\ IsEntry(entry)'
<1> DEFINE T == paper_trades
           b == entry.basket
<1>1. /\ entry \in [pc : {"undo"}, basket : Baskets, left : (SUBSET (1 .. 4)) \ {{}}]
      /\ entry.pc = "undo" /\ entry # NoEntry
  BY EntryPhases DEF CondorInv, CondorTypes, CompensateFails
<1>2. PICK i \in entry.left :
        /\ Undoing = b[i]
        /\ AfterUndo = IF entry.left = {i} THEN NoEntry
                       ELSE [pc |-> "undo", basket |-> b, left |-> entry.left \ {i}]
        /\ IsEntry(AfterUndo)
  BY <1>1, Undo
<1>3. /\ UNCHANGED <<paper_trades, today, monitor, batches, skipped, reused, uncovered>>
      /\ entry' = AfterUndo
      /\ abandoned' = (abandoned \/ Held(T, b[i]) # 0)
  BY <1>2, NetIsHeld DEF CompensateFails, tables
<1>4. RowsInv' /\ MonitorInv'
  BY <1>1, <1>3, RowsUntouched, MonitorBesideEntry DEF CondorInv, CondorTypes
<1> DEFINE f == [pc |-> "undo", basket |-> b, left |-> entry.left \ {i}]
<1>5. f.pc = "undo" /\ f.basket = b /\ f.left = entry.left \ {i}
  OBVIOUS
<1> HIDE DEF f
<1>6. ASSUME ~skipped PROVE BasketInv(T, today, f)
  <2>1. BasketInv(T, today, entry)
    BY <1>1, <1>6 DEF CondorInv, EntryInv
  <2> QED BY <1>1, <1>5, <2>1 DEF BasketInv
<1>7. ASSUME ~skipped, ~abandoned', ~uncovered PROVE UndoInv(T, f)
  <2>1. UndoInv(T, entry) /\ Held(T, b[i]) = 0
    BY <1>1, <1>3, <1>7 DEF CondorInv, EntryInv
  <2>2. ASSUME NEW j \in (1 .. 4) \ f.left PROVE Held(T, b[j]) = 0
    BY <1>5, <2>1 DEF UndoInv
  <2>3. ASSUME NEW l \in LiveIn(T), l.kind = "short", ShortAt(l.side) \notin f.left
        PROVE  Winged(T, l.side)
    <3>1. CASE l # b[ShortAt(l.side)]
      BY <1>5, <1>6, <1>7, <2>3, <3>1 DEF BasketInv, Rolled
    <3>2. CASE l = b[ShortAt(l.side)]
      <4>1. l.side \in Sides
        BY <2>3, LegFields DEF LiveIn
      <4>2. ShortAt(l.side) \in 1 .. 4
        BY <1>1, <4>1, BasketRoles
      <4> QED BY <2>2, <2>3, <3>2, <4>2 DEF LiveIn
    <3> QED BY <3>1, <3>2
  <2> QED BY <1>5, <2>2, <2>3 DEF UndoInv
<1>8. EntryInv'
  <2>1. CASE entry.left = {i}
    <3>1. entry' = NoEntry /\ NoEntry.pc = "none" /\ f.left = {}
      BY <1>2, <1>3, <1>5, <2>1 DEF NoEntry
    <3> QED BY <1>3, <1>7, <3>1, UndoneIsCovered DEF EntryInv
  <2>2. CASE entry.left # {i}
    <3>1. entry' = f
      BY <1>2, <1>3, <2>2 DEF f
    <3> QED BY <1>3, <1>5, <1>6, <1>7, <3>1 DEF EntryInv
  <2> QED BY <2>1, <2>2
<1> QED BY <1>2, <1>3, <1>4, <1>8

-----------------------------------------------------------------------------
(* The tick, up to its write.                                              *)

\* A tick that ends without a row.
LEMMA RestInv ==
  ASSUME CondorInv,
         StartDaemon \/ DecideMilestone \/ Hold \/ WriteNothing \/ WriteLock \/ DaemonEnds
  PROVE  RowsInv' /\ EntryInv' /\ MonitorInv' /\ IsEntry(entry)'
<1>1. /\ monitor' \in {Resting, Down}
      /\ UNCHANGED <<paper_trades, today, entry, batches, skipped, reused, abandoned,
                     uncovered>>
  BY DEF StartDaemon, DecideMilestone, Hold, WriteNothing, WriteLock, DaemonEnds,
     tables, history
<1>2. monitor'.pc \notin {"decide", "write", "mark"}
  BY <1>1 DEF Resting, Down
<1> QED BY <1>1, <1>2 DEF CondorInv, CondorTypes, RowsInv, EntryInv, MonitorInv

\* The same, of a tick that goes on.
LEMMA TickGoesOn ==
  ASSUME CondorInv, UNCHANGED <<paper_trades, today, entry, batches, skipped, reused,
                                abandoned, uncovered>>
  PROVE  RowsInv' /\ EntryInv' /\ IsEntry(entry)'
BY DEF CondorInv, CondorTypes, RowsInv, EntryInv

\* The tick reads what is held.
LEMMA ReadPositionsInv ==
  ASSUME CondorInv, ReadPositions
  PROVE  RowsInv' /\ EntryInv' /\ MonitorInv' /\ IsEntry(entry)'
<1> DEFINE T == paper_trades
           read == [leg \in LiveIn(T) |-> Held(T, leg)]
<1>1. /\ LiveIn(T) # {} /\ cycle + batches < MaxWork
      /\ monitor' = [pc |-> "decide", seen |-> read, building |-> entry # NoEntry]
      /\ UNCHANGED <<paper_trades, today, entry, batches, skipped, reused, abandoned,
                     uncovered>>
  BY NetIsHeld DEF ReadPositions, tables, history
<1>2. IsFiniteSet(LiveIn(T)) /\ LiveIn(T) \subseteq Legs /\ \A l : Held(T, l) \in Int
  BY LiveFinite, HeldIsInt DEF CondorInv, CondorTypes
<1>3. ASSUME NEW l \in LiveIn(T)
      PROVE  read[l] \in Int \ {0} /\ StillHeld(T, today, l, read[l])
  <2>1. read[l] = Held(T, l) /\ Held(T, l) # 0 /\ Held(T, l) \in Int
    BY <1>2 DEF LiveIn
  <2> QED BY <2>1 DEF StillHeld
<1>4. DOMAIN read = LiveIn(T)
  OBVIOUS
<1> HIDE DEF read
<1>5. ReadHolds(T, today, read)
  BY <1>2, <1>3, <1>4 DEF ReadHolds
<1>6. batches < MaxWork
  <2>1. cycle \in 0 .. MaxWork /\ batches \in 0 .. MaxWork /\ MaxWork \in Nat
    BY CondorAssumption DEF CondorInv, CondorTypes, TypeOK
  <2> QED BY <1>1, <2>1
<1>7. DecideInv(paper_trades, today, monitor)'
  <2>1. monitor'.seen = read /\ monitor'.building = (entry # NoEntry)
    BY <1>1
  <2>2. \A wings : ShortsToo(T, wings, LiveIn(T))
    BY DEF ShortsToo
  <2> QED BY <1>1, <1>4, <1>5, <1>6, <2>1, <2>2 DEF DecideInv
<1>8. monitor'.pc = "decide"
  BY <1>1
<1> QED BY <1>1, <1>7, <1>8, TickGoesOn DEF MonitorInv

\* What was read and has no close on record is held still, one lot of it.
LEMMA CleanIsLive ==
  ASSUME NEW T, IsTable(T, Legs), OneLot(T), NEW day, NEW read,
         ReadHolds(T, day, read), NEW leg \in DOMAIN read,
         ~Has(T, leg, day, Closing(read[leg]))
  PROVE  /\ leg \in LiveIn(T) /\ read[leg] = Lot(leg) /\ Held(T, leg) = Lot(leg)
         /\ ~ClosedOn(T, leg, day)
<1>1. /\ leg \in Legs /\ read[leg] \in Int \ {0} /\ Held(T, leg) \in {0, Lot(leg)}
      /\ \/ read[leg] > 0 /\ Held(T, leg) >= read[leg]
         \/ read[leg] < 0 /\ Held(T, leg) <= read[leg]
  BY DEF ReadHolds, StillHeld, OneLot
<1>2. /\ Lot(leg) \in {-1, 1} /\ Closing(Lot(leg)) = Opposite(Opener(leg))
  BY <1>1, LegFields
<1>3. read[leg] = Lot(leg) /\ Held(T, leg) = Lot(leg)
  BY <1>1, <1>2
<1>4. ~ClosedOn(T, leg, day)
  BY <1>2, <1>3 DEF ClosedOn
<1> QED BY <1>1, <1>2, <1>3, <1>4 DEF LiveIn

\* Part of what was read still holds.
LEMMA ReadHoldsPart ==
  ASSUME NEW T, NEW day, NEW read, ReadHolds(T, day, read),
         NEW part \in SUBSET DOMAIN read
  PROVE  /\ ReadHolds(T, day, [leg \in part |-> read[leg]])
         /\ DOMAIN [leg \in part |-> read[leg]] = part
BY FS_Subset DEF ReadHolds

\* CLOSE_FULL names one leg of every role that was read.
LEMMA DecideCloseInv ==
  ASSUME CondorInv, DecideClose
  PROVE  RowsInv' /\ EntryInv' /\ MonitorInv' /\ IsEntry(entry)'
<1> DEFINE T == paper_trades
<1>1. PICK closed \in Picks(Seen) : monitor' = Write("CLOSE_FULL", closed, {})
  BY DEF DecideClose
<1> DEFINE close == [leg \in closed |-> monitor.seen[leg]]
<1>2. /\ monitor.pc = "decide"
      /\ UNCHANGED <<paper_trades, today, entry, batches, skipped, reused, abandoned,
                     uncovered>>
      /\ monitor' = [pc |-> "write", action |-> "CLOSE_FULL", close |-> close,
                     open |-> {}]
  BY <1>1 DEF DecideClose, Write, tables, history
<1>3. /\ ReadHolds(T, today, monitor.seen) /\ batches < MaxWork
      /\ ~skipped => ShortsToo(T, {leg \in DOMAIN monitor.seen : ~ClosedOn(T, leg, today)},
                               DOMAIN monitor.seen)
  BY <1>2 DEF CondorInv, MonitorInv, DecideInv
<1>4. /\ closed \in SUBSET DOMAIN monitor.seen
      /\ \A l \in DOMAIN monitor.seen : \E s \in closed : Role(s) = Role(l)
  BY <1>1 DEF Picks, Seen
<1>5. ReadHolds(T, today, close) /\ DOMAIN close = closed
  BY <1>3, <1>4, ReadHoldsPart
<1> HIDE DEF close
<1>6. ASSUME ~skipped, Clean(T, today, close) PROVE ShortsToo(T, closed, closed)
  <2>1. OneLot(T) /\ OneRole(T) /\ IsTable(T, Legs)
    BY <1>6 DEF CondorInv, RowsInv, CondorTypes
  <2>2. \A l \in closed : l \in LiveIn(T) /\ ~ClosedOn(T, l, today)
    BY <1>5, <1>6, <2>1, CleanIsLive DEF Clean
  <2> SUFFICES ASSUME NEW wing \in closed, NEW short \in LiveIn(T),
                      wing \in LiveIn(T), wing.kind = "long", short.kind = "short",
                      short.side = wing.side
               PROVE  short \in closed
    BY DEF ShortsToo
  <2>3. short \in DOMAIN monitor.seen
    BY <1>3, <1>4, <1>6, <2>2 DEF ShortsToo
  <2>4. PICK s \in closed : Role(s) = Role(short)
    BY <1>4, <2>3
  <2>5. s = short
    BY <2>1, <2>2, <2>4 DEF OneRole
  <2> QED BY <2>4, <2>5
<1>7. WriteInv(paper_trades, today, monitor)'
  <2>1. /\ monitor'.close = close /\ monitor'.open = {}
        /\ monitor'.action = "CLOSE_FULL"
    BY <1>2
  <2>2. CloseTicket(paper_trades, today, monitor)'
    BY <1>2, <1>5, <1>6, <2>1 DEF CloseTicket
  <2>3. IsFiniteSet({}) /\ {} \subseteq Legs
    BY FS_EmptySet
  <2> QED BY <1>2, <1>3, <1>5, <2>1, <2>2, <2>3 DEF WriteInv
<1>8. monitor'.pc = "write"
  BY <1>2
<1> QED BY <1>2, <1>7, <1>8, TickGoesOn DEF MonitorInv

\* ROLL_WING names the legs of one side, a short and a wing among them.
LEMMA DecideRollInv ==
  ASSUME CondorInv, DecideRoll
  PROVE  RowsInv' /\ EntryInv' /\ MonitorInv' /\ IsEntry(entry)'
<1> DEFINE T == paper_trades
<1>1. /\ monitor.pc = "decide"
      /\ UNCHANGED <<paper_trades, today, entry, batches, skipped, reused, abandoned,
                     uncovered>>
  BY DEF DecideRoll, tables, history
<1>2. PICK side \in Sides :
        \E closed \in Picks({leg \in Seen : leg.side = side}) :
          \E short, wing \in closed :
            /\ short.kind = "short" /\ wing.kind = "long"
            /\ \E opened \in Replacements(short, wing) :
                 monitor' = Write("ROLL_WING", closed, opened)
  <2>1. \A m : Challenged(m) \in Sides
    BY DEF Challenged, Sides
  <2> QED BY <2>1 DEF DecideRoll
<1>3. PICK closed \in Picks({leg \in Seen : leg.side = side}) :
        \E short, wing \in closed :
          /\ short.kind = "short" /\ wing.kind = "long"
          /\ \E opened \in Replacements(short, wing) :
               monitor' = Write("ROLL_WING", closed, opened)
  BY <1>2
<1>4. PICK short \in closed, wing \in closed :
        /\ short.kind = "short" /\ wing.kind = "long"
        /\ \E opened \in Replacements(short, wing) :
             monitor' = Write("ROLL_WING", closed, opened)
  BY <1>3
<1>5. PICK opened \in Replacements(short, wing) :
        monitor' = Write("ROLL_WING", closed, opened)
  BY <1>4
<1>6. closed \in SUBSET DOMAIN monitor.seen /\ \A leg \in closed : leg.side = side
  BY DEF Picks, Seen
<1>7. PICK new \in opened, hedge \in opened :
        opened = {new, hedge} /\ new.kind = "short" /\ hedge.kind = "long"
  BY DEF Replacements
<1>8. opened \subseteq Legs /\ \A leg \in opened : leg.side = side
  BY <1>6 DEF Replacements
<1> DEFINE close == [leg \in closed |-> monitor.seen[leg]]
<1>9. monitor' = [pc |-> "write", action |-> "ROLL_WING", close |-> close,
                  open |-> opened]
  BY <1>5 DEF Write
<1>10. ReadHolds(T, today, monitor.seen) /\ batches < MaxWork
  BY <1>1 DEF CondorInv, MonitorInv, DecideInv
<1>11. ReadHolds(T, today, close) /\ DOMAIN close = closed
  BY <1>6, <1>10, ReadHoldsPart
<1> HIDE DEF close
<1>12. /\ monitor'.close = close /\ monitor'.open = opened
       /\ monitor'.action = "ROLL_WING" /\ monitor'.pc = "write"
  BY <1>9
<1>13. RollTicket(monitor')
  BY <1>4, <1>6, <1>7, <1>8, <1>11, <1>12 DEF RollTicket
<1>14. IsFiniteSet(opened)
  BY <1>7, PairIsFinite
<1>15. WriteInv(paper_trades, today, monitor)'
  BY <1>1, <1>8, <1>10, <1>11, <1>12, <1>13, <1>14 DEF WriteInv
<1> QED BY <1>1, <1>12, <1>15, TickGoesOn DEF MonitorInv

\* ZONE2_LOCK is decided on a whole condor only, never on one being built.
LEMMA DecideLockInv ==
  ASSUME CondorInv, CreditIsOwn, DecideLock
  PROVE  RowsInv' /\ EntryInv' /\ MonitorInv' /\ IsEntry(entry)'
<1> DEFINE T == paper_trades
<1>1. /\ monitor.pc = "decide"
      /\ UNCHANGED <<paper_trades, today, entry, batches, skipped, reused, abandoned,
                     uncovered>>
  BY DEF DecideLock, tables, history
<1>2. PICK m \in Readings : LockDue(m)
  BY DEF DecideLock
<1>3. DecideInv(T, today, monitor)
  BY <1>1 DEF CondorInv, MonitorInv
<1>4. \A side \in Sides : HasRole(Seen, "short", side)
  BY <1>2 DEF LockDue
<1>5. /\ entry = NoEntry /\ DOMAIN monitor.seen = LiveIn(T)
      /\ ReadHolds(T, today, monitor.seen) /\ batches < MaxWork
  <2>1. m.captured = "zone2" /\ HasRole(Seen, "short", "call")
    BY <1>2, <1>4 DEF LockDue, Sides
  <2>2. ~monitor.building
    BY <2>1 DEF Readings, CreditIsOwn
  <2> QED BY <1>3, <2>2 DEF DecideInv
<1>6. PICK closed \in Picks({leg \in Seen : leg.kind = "long"}),
           wings \in Picks({leg \in Legs : leg.kind = "long"}),
           resolved \in SUBSET Sides :
        monitor' = Write("PROFIT_LOCK_ZONE2", closed,
                         {wing \in wings : wing.side \in resolved})
  BY DEF DecideLock
<1> DEFINE opened == {wing \in wings : wing.side \in resolved}
           close == [leg \in closed |-> monitor.seen[leg]]
<1>7. monitor' = [pc |-> "write", action |-> "PROFIT_LOCK_ZONE2", close |-> close,
                  open |-> opened]
  BY <1>6 DEF Write
<1>8. /\ closed \in SUBSET DOMAIN monitor.seen /\ \A l \in closed : l.kind = "long"
      /\ \A l \in DOMAIN monitor.seen :
           l.kind = "long" => \E s \in closed : Role(s) = Role(l)
  BY DEF Picks, Seen
<1>9. ReadHolds(T, today, close) /\ DOMAIN close = closed
  BY <1>5, <1>8, ReadHoldsPart
<1>10. /\ opened \subseteq Legs /\ \A l \in opened : l.kind = "long"
       /\ \A x, y \in opened : Role(x) = Role(y) => x = y
  BY DEF Picks
<1> HIDE DEF close, opened
<1>11. \A x, y \in opened : x.side = y.side => x = y
  BY <1>10, SameRole
<1>12. IsFiniteSet(opened)
  <2> DEFINE Of(side) == CHOOSE l \in opened : l.side = side
  <2>1. \A l \in opened : l.side \in {"put", "call"} /\ Of(l.side) = l
    BY <1>10, <1>11, LegFields DEF Sides
  <2> HIDE DEF Of
  <2>2. opened \subseteq {Of("put"), Of("call")}
    BY <2>1
  <2> QED BY <2>2, PairIsFinite, FS_Subset
<1>13. /\ monitor'.close = close /\ monitor'.open = opened
       /\ monitor'.action = "PROFIT_LOCK_ZONE2" /\ monitor'.pc = "write"
  BY <1>7
<1>14. ASSUME ~skipped, NEW l \in LiveIn(T), l.kind = "long" PROVE l \in closed
  <2>1. PICK s \in closed : Role(s) = Role(l)
    BY <1>5, <1>8, <1>14
  <2>2. s = l
    BY <1>5, <1>8, <1>14, <2>1 DEF CondorInv, RowsInv, OneRole
  <2> QED BY <2>1, <2>2
<1>15. LockTicket(paper_trades, monitor)'
  <2>1. \A side \in Sides : HasRole(LiveIn(T), "short", side)
    BY <1>4, <1>5 DEF Seen
  <2>2. \A leg \in closed \cup opened : leg.kind = "long"
    BY <1>8, <1>10
  <2> QED BY <1>1, <1>5, <1>9, <1>11, <1>13, <1>14, <2>1, <2>2 DEF LockTicket
<1>16. WriteInv(paper_trades, today, monitor)'
  BY <1>1, <1>5, <1>9, <1>10, <1>12, <1>13, <1>15 DEF WriteInv
<1> QED BY <1>1, <1>13, <1>16, TickGoesOn DEF MonitorInv

-----------------------------------------------------------------------------
(* Marks, and the next day.                                                *)

\* After the marks there is at most the lock state to write.
LEMMA AfterMarksRests ==
  ASSUME NEW action
  PROVE  AfterMarks(action).pc \in {"lock", "rest"}
BY DEF AfterMarks, Resting

\* The marks of legs that are flat.
LEMMA MarksInv ==
  ASSUME CondorInv, NEW legs,
         (monitor.pc = "mark" /\ legs \subseteq monitor.todo) \/ legs = {},
         paper_trades' = MarkAll(paper_trades, legs), monitor'.pc \in {"lock", "rest"},
         UNCHANGED <<today, entry, batches, skipped, reused, abandoned, uncovered>>
  PROVE  /\ RowsInv' /\ EntryInv' /\ MonitorInv' /\ IsEntry(entry)'
         /\ IsTable(paper_trades, Legs)' /\ Dated(paper_trades')
<1> DEFINE T == paper_trades
           U == paper_trades'
<1>1. IsTable(T, Legs) /\ Dated(T) /\ U = MarkAll(T, legs)
  BY DEF CondorInv, CondorTypes, TypeOK, Dated
<1> HIDE DEF T, U
<1>2. /\ IsTable(U, Legs) /\ Dated(U) /\ Same(T, U)
      /\ \A l : l \notin legs /\ HasOpenRow(T, l) => HasOpenRow(U, l)
  BY <1>1, MarkAllSame
<1>3. RowsInv'
  <2>1. ASSUME ~skipped PROVE OneLot(U) /\ OneRole(U)
    BY <1>2, <2>1, SameLive DEF CondorInv, RowsInv, T
  <2>2. ASSUME ~skipped, ~reused, NEW l \in LiveIn(U) PROVE HasOpenRow(U, l)
    <3>1. l \in LiveIn(T)
      BY <1>2, SameLive
    <3>2. HasOpenRow(T, l) /\ Held(T, l) # 0
      BY <2>2, <3>1 DEF CondorInv, RowsInv, T, LiveIn
    <3>3. l \notin legs
      BY <2>2, <3>2 DEF CondorInv, MonitorInv, T
    <3> QED BY <1>2, <3>2, <3>3
  <2> QED BY <2>1, <2>2 DEF RowsInv, U
<1>4. EntryInv'
  <2>1. ASSUME ~skipped, entry.pc \in {"place", "verify", "undo"}
        PROVE  BasketInv(U, today, entry)
    BY <1>2, <2>1, SameEntry DEF CondorInv, EntryInv, T
  <2>2. ASSUME ~skipped, ~abandoned, ~uncovered
        PROVE  /\ entry.pc = "undo" => UndoInv(U, entry)
               /\ entry.pc \in {"none", "credit"} => Covered(U)
    BY <1>2, <2>2, SameEntry, SameLive DEF CondorInv, EntryInv, T
  <2> QED BY <2>1, <2>2 DEF EntryInv, U
<1>5. MonitorInv'
  BY DEF MonitorInv
<1> QED BY <1>2, <1>3, <1>4, <1>5 DEF CondorInv, CondorTypes, U

\* The marks, in full or as far as a stop lets them.
LEMMA MarkLegsInv ==
  ASSUME CondorInv, MarkLegs \/ ActionStops
  PROVE  /\ RowsInv' /\ EntryInv' /\ MonitorInv' /\ IsEntry(entry)'
         /\ IsTable(paper_trades, Legs)' /\ Dated(paper_trades')
<1>1. UNCHANGED <<today, entry, batches, skipped, reused, abandoned, uncovered>>
  BY DEF MarkLegs, ActionStops, history
<1>2. monitor'.pc \in {"lock", "rest"}
  BY AfterMarksRests DEF MarkLegs, ActionStops, Resting
<1>3. CASE MarkLegs
  BY <1>1, <1>2, <1>3, MarksInv DEF MarkLegs
<1>4. CASE ActionStops
  <2>1. PICK marked \in MarkedSoFar : paper_trades' = MarkAll(paper_trades, marked)
    BY <1>4 DEF ActionStops
  <2>2. (monitor.pc = "mark" /\ marked \subseteq monitor.todo) \/ marked = {}
    BY DEF MarkedSoFar
  <2> QED BY <1>1, <1>2, <2>1, <2>2, MarksInv
<1> QED BY <1>3, <1>4

\* A new day, when neither process runs: no key of the day is needed.
LEMMA NextDayInv ==
  ASSUME CondorInv, NextDay
  PROVE  RowsInv' /\ EntryInv' /\ MonitorInv' /\ IsEntry(entry)'
<1>1. /\ entry = NoEntry /\ entry' = NoEntry /\ monitor' = Down
      /\ UNCHANGED <<paper_trades, skipped, reused, abandoned, uncovered>>
  BY DEF NextDay, tables, history
<1>2. NoEntry.pc = "none" /\ Down.pc = "down"
  BY DEF NoEntry, Down
<1> QED BY <1>1, <1>2 DEF CondorInv, CondorTypes, RowsInv, EntryInv, MonitorInv
-----------------------------------------------------------------------------
(* The batch of closes and opens.                                          *)

\* A batch with no duplicate in it.
LEMMA RecordAll ==
  ASSUME NEW T, IsTable(T, Legs), NEW B, IsTable(B, Legs), Inserted(T, B) = B
  PROVE  /\ IsTable(RecordTrades(T, B), Legs) /\ T \subseteq RecordTrades(T, B)
         /\ B \subseteq RecordTrades(T, B)
         /\ \A l : Held(RecordTrades(T, B), l) = Held(T, l) + Held(B, l)
         /\ \A l, d, a : Has(RecordTrades(T, B), l, d, a) <=> Has(T, l, d, a) \/ Has(B, l, d, a)
         /\ \A l, d, a : Has(B, l, d, a) => ~Has(T, l, d, a)
<1>1. RecordTrades(T, B) = T \cup B
  BY DEF RecordTrades
<1>2. /\ IsTable(RecordTrades(T, B), Legs)
      /\ \A l : Held(RecordTrades(T, B), l) = Held(T, l) + Held(B, l)
  BY RecordTradesTable
<1>3. \A l, d, a : Has(B, l, d, a) => ~Has(T, l, d, a)
  BY DEF Inserted, Duplicate, SameKey, Has
<1>4. \A l, d, a : Has(T \cup B, l, d, a) <=> Has(T, l, d, a) \/ Has(B, l, d, a)
  BY DEF Has
<1> QED BY <1>1, <1>2, <1>3, <1>4, Zenon

\* A set with one row of each leg of a finite set.
LEMMA OneRowEach ==
  ASSUME NEW S, IsFiniteSet(S), S \subseteq Legs, NEW f \in [S -> TradeRow(Legs)],
         \A l \in S : f[l].leg = l
  PROVE  /\ IsTable({f[l] : l \in S}, Legs)
         /\ \A l \in S : Held({f[k] : k \in S}, l) = Amount(f[l])
         /\ \A l : l \notin S => Held({f[k] : k \in S}, l) = 0
         /\ \A l, d, a : Has({f[k] : k \in S}, l, d, a) <=>
              l \in S /\ f[l].date = d /\ f[l].action = a
<1> DEFINE B == {f[l] : l \in S}
<1>1. IsFiniteSet(B)
  <2>1. f \in [S -> B]
    BY DEF B
  <2>2. f \in Surjection(S, B)
    BY <2>1 DEF Surjection
  <2> HIDE DEF B
  <2> QED BY <2>2, FS_Surjection
<1>2. B \subseteq TradeRow(Legs) /\ \A r \in B : r.leg \in S /\ r = f[r.leg]
  OBVIOUS
<1>3. \A l \in S : f[l] \in B
  OBVIOUS
<1> HIDE DEF B
<1>4. IsTable(B, Legs)
  BY <1>1, <1>2 DEF IsTable, SameKey
<1>5. ASSUME NEW l \in S PROVE Held(B, l) = Amount(f[l])
  BY <1>2, <1>3, <1>4, HeldOfOne
<1>6. ASSUME NEW l, l \notin S PROVE Held(B, l) = 0
  BY <1>2, <1>6, HeldOfNone
<1>7. \A l, d, a : Has(B, l, d, a) <=> l \in S /\ f[l].date = d /\ f[l].action = a
  BY <1>2, <1>3 DEF Has
<1> QED BY <1>4, <1>5, <1>6, <1>7 DEF B

\* The closing half of a batch takes back what was read.
LEMMA ClosesTable ==
  ASSUME today \in Days, IsFiniteSet(DOMAIN monitor.close),
         DOMAIN monitor.close \subseteq Legs,
         \A l \in DOMAIN monitor.close : monitor.close[l] \in Int \ {0}
  PROVE  /\ IsTable(Closes, Legs) /\ Dated(Closes)
         /\ \A l \in DOMAIN monitor.close : Held(Closes, l) = -monitor.close[l]
         /\ \A l : l \notin DOMAIN monitor.close => Held(Closes, l) = 0
         /\ \A l, d, a : Has(Closes, l, d, a) <=>
              l \in DOMAIN monitor.close /\ d = today /\ a = Closing(monitor.close[l])
<1> DEFINE S == DOMAIN monitor.close
           f == [l \in S |-> CloseTrade(l)]
<1>1. ASSUME NEW l \in S
      PROVE  /\ f[l] \in TradeRow(Legs) /\ f[l].leg = l /\ f[l].date = today
             /\ f[l].action = Closing(monitor.close[l])
             /\ Amount(f[l]) = -monitor.close[l]
  <2> DEFINE n == monitor.close[l]
  <2>1. n \in Int \ {0} /\ l \in Legs
    OBVIOUS
  <2>2. f[l] = Trade(l, today, Closing(n), Magnitude(n))
    BY DEF CloseTrade, Closing
  <2>3. Closing(n) \in Actions /\ Magnitude(n) \in Nat \ {0} /\ today \in Int
    BY <2>1 DEF Closing, Actions, Magnitude, Days
  <2>4. Signed(Closing(n), Magnitude(n)) = -n
    BY <2>1 DEF Closing, Magnitude, Signed
  <2>5. f[l] \in TradeRow(Legs)
    BY <2>1, <2>2, <2>3, TradeIsRow
  <2> QED BY <2>2, <2>4, <2>5 DEF Trade, Amount
<1>2. Closes = {f[l] : l \in S} /\ f \in [S -> TradeRow(Legs)]
  BY <1>1 DEF Closes
<1> HIDE DEF f
<1>3. /\ IsTable(Closes, Legs)
      /\ \A l \in S : Held(Closes, l) = Amount(f[l])
      /\ \A l : l \notin S => Held(Closes, l) = 0
      /\ \A l, d, a : Has(Closes, l, d, a) <=>
           l \in S /\ f[l].date = d /\ f[l].action = a
  BY <1>1, <1>2, OneRowEach
<1>4. Dated(Closes)
  BY <1>1, <1>2 DEF Dated
<1> QED BY <1>1, <1>3, <1>4

\* The opening half of a batch is one lot of each leg.
LEMMA OpensTable ==
  ASSUME today \in Days, IsFiniteSet(monitor.open), monitor.open \subseteq Legs
  PROVE  /\ IsTable(Opens, Legs) /\ Dated(Opens)
         /\ \A l \in monitor.open : Held(Opens, l) = Lot(l)
         /\ \A l : l \notin monitor.open => Held(Opens, l) = 0
         /\ \A l, d, a : Has(Opens, l, d, a) <=>
              l \in monitor.open /\ d = today /\ a = Opener(l)
         /\ \A l \in monitor.open : HasOpenRow(Opens, l)
<1> DEFINE S == monitor.open
           f == [l \in S |-> OpenTrade(l)]
<1>1. ASSUME NEW l \in S
      PROVE  /\ f[l] \in TradeRow(Legs) /\ f[l].leg = l /\ f[l].date = today
             /\ f[l].action = Opener(l) /\ f[l].state = "OPEN"
             /\ Amount(f[l]) = Lot(l)
  <2>1. l \in Legs /\ Opener(l) \in Actions /\ today \in Int /\ 1 \in Nat \ {0}
    BY LegFields DEF Days
  <2>2. f[l] = Trade(l, today, Opener(l), 1)
    BY DEF OpenTrade
  <2>3. f[l] \in TradeRow(Legs)
    BY <2>1, <2>2, TradeIsRow
  <2> QED BY <2>2, <2>3 DEF Trade, Amount, Lot
<1>2. Opens = {f[l] : l \in S} /\ f \in [S -> TradeRow(Legs)]
  BY <1>1 DEF Opens
<1> HIDE DEF f
<1>3. /\ IsTable(Opens, Legs)
      /\ \A l \in S : Held(Opens, l) = Amount(f[l])
      /\ \A l : l \notin S => Held(Opens, l) = 0
      /\ \A l, d, a : Has(Opens, l, d, a) <=>
           l \in S /\ f[l].date = d /\ f[l].action = a
  BY <1>1, <1>2, OneRowEach
<1>4. Dated(Opens)
  BY <1>1, <1>2 DEF Dated
<1>5. \A l \in S : HasOpenRow(Opens, l)
  BY <1>1, <1>2 DEF HasOpenRow, OpenStates
<1> QED BY <1>1, <1>3, <1>4, <1>5

\* All of the batch was written: its closes are of legs held as they were read,
\* and none of its legs was opened that day.
Written(T, U, day, m) ==
  /\ T \subseteq U
  /\ \A l : Held(U, l) = Held(T, l) - (IF l \in DOMAIN m.close THEN m.close[l] ELSE 0)
                                    + (IF l \in m.open THEN Lot(l) ELSE 0)
  /\ \A l, d, a : Has(U, l, d, a) <=>
       \/ Has(T, l, d, a)
       \/ d = day /\ l \in DOMAIN m.close /\ a = Closing(m.close[l])
       \/ d = day /\ l \in m.open /\ a = Opener(l)
  /\ \A l \in m.open : HasOpenRow(U, l) /\ ~OpenedOn(T, l, day)
  /\ Clean(T, day, m.close)

\* The batch is written in full, or lost a trade to the unique key.
LEMMA WriteBatchRows ==
  ASSUME CondorInv, WriteBatch
  PROVE  /\ IsTable(paper_trades, Legs)' /\ Dated(paper_trades')
         /\ ~skipped' => Written(paper_trades, paper_trades', today, monitor)
<1> DEFINE T == paper_trades
           D == RecordTrades(T, Closes)
           U == RecordTrades(D, Opens)
<1>1. /\ paper_trades' = U
      /\ ~skipped' => Inserted(T, Closes) = Closes /\ Inserted(D, Opens) = Opens
  BY DEF WriteBatch
<1>2. /\ IsTable(T, Legs) /\ Dated(T) /\ today \in Days
      /\ ReadHolds(T, today, monitor.close)
      /\ IsFiniteSet(monitor.open) /\ monitor.open \subseteq Legs
  <2>1. WriteInv(paper_trades, today, monitor)
    BY DEF CondorInv, MonitorInv, WriteBatch
  <2> QED BY <2>1 DEF WriteInv, CondorInv, CondorTypes, TypeOK, Dated
<1>3. /\ IsTable(Closes, Legs) /\ Dated(Closes)
      /\ \A l \in DOMAIN monitor.close : Held(Closes, l) = -monitor.close[l]
      /\ \A l : l \notin DOMAIN monitor.close => Held(Closes, l) = 0
      /\ \A l, d, a : Has(Closes, l, d, a) <=>
           l \in DOMAIN monitor.close /\ d = today /\ a = Closing(monitor.close[l])
  BY <1>2, ClosesTable DEF ReadHolds
<1>4. /\ IsTable(Opens, Legs) /\ Dated(Opens)
      /\ \A l \in monitor.open : Held(Opens, l) = Lot(l)
      /\ \A l : l \notin monitor.open => Held(Opens, l) = 0
      /\ \A l, d, a : Has(Opens, l, d, a) <=>
           l \in monitor.open /\ d = today /\ a = Opener(l)
      /\ \A l \in monitor.open : HasOpenRow(Opens, l)
  BY <1>2, OpensTable
<1> HIDE DEF T
<1>5. IsTable(D, Legs) /\ Dated(D)
  BY <1>2, <1>3, RecordTradesTable DEF Dated, RecordTrades, Inserted
<1>6. IsTable(U, Legs) /\ Dated(U)
  <2> HIDE DEF D
  <2> QED BY <1>4, <1>5, RecordTradesTable DEF Dated, RecordTrades, Inserted
<1>7. ASSUME ~skipped' PROVE Written(T, U, today, monitor)
  <2>1. /\ T \subseteq D /\ \A l : Held(D, l) = Held(T, l) + Held(Closes, l)
        /\ \A l, d, a : Has(D, l, d, a) <=> Has(T, l, d, a) \/ Has(Closes, l, d, a)
        /\ \A l, d, a : Has(Closes, l, d, a) => ~Has(T, l, d, a)
    BY <1>1, <1>2, <1>3, <1>7, RecordAll
  <2> HIDE DEF D
  <2>2. /\ D \subseteq U /\ Opens \subseteq U
        /\ \A l : Held(U, l) = Held(D, l) + Held(Opens, l)
        /\ \A l, d, a : Has(U, l, d, a) <=> Has(D, l, d, a) \/ Has(Opens, l, d, a)
        /\ \A l, d, a : Has(Opens, l, d, a) => ~Has(D, l, d, a)
    BY <1>1, <1>4, <1>5, <1>7, RecordAll
  <2> HIDE DEF U
  <2>3. ASSUME NEW l
        PROVE  Held(U, l) = Held(T, l)
                 - (IF l \in DOMAIN monitor.close THEN monitor.close[l] ELSE 0)
                 + (IF l \in monitor.open THEN Lot(l) ELSE 0)
    <3>1. Held(T, l) \in Int /\ Held(U, l) = Held(T, l) + Held(Closes, l) + Held(Opens, l)
      BY <1>2, <2>1, <2>2, HeldIsInt
    <3>2. Held(Closes, l) = -(IF l \in DOMAIN monitor.close THEN monitor.close[l] ELSE 0)
      BY <1>3
    <3>3. Held(Opens, l) = IF l \in monitor.open THEN Lot(l) ELSE 0
      BY <1>4
    <3>4. (IF l \in DOMAIN monitor.close THEN monitor.close[l] ELSE 0) \in Int
      BY <1>2 DEF ReadHolds
    <3>5. (IF l \in monitor.open THEN Lot(l) ELSE 0) \in Int
      BY <1>2, LegFields
    <3> QED BY <3>1, <3>2, <3>3, <3>4, <3>5
  <2>4. \A l, d, a : Has(U, l, d, a) <=>
          \/ Has(T, l, d, a)
          \/ d = today /\ l \in DOMAIN monitor.close /\ a = Closing(monitor.close[l])
          \/ d = today /\ l \in monitor.open /\ a = Opener(l)
    BY <1>3, <1>4, <2>1, <2>2
  <2>5. Clean(T, today, monitor.close)
    BY <1>3, <2>1 DEF Clean
  <2>6. \A l \in monitor.open : HasOpenRow(U, l) /\ ~OpenedOn(T, l, today)
    BY <1>4, <2>1, <2>2 DEF HasOpenRow, OpenedOn
  <2> QED BY <2>1, <2>2, <2>3, <2>4, <2>5, <2>6 DEF Written
<1> QED BY <1>1, <1>6, <1>7 DEF T

\* What is opened takes the place of the role's leg, which is closed.
Swaps(T, m) ==
  /\ \A a \in m.open, b \in LiveIn(T) : Role(a) = Role(b) => b \in DOMAIN m.close
  /\ \A a, b \in m.open : Role(a) = Role(b) => a = b

\* A short is opened with a wing, in place of a short with one, and no wing is
\* closed without its short.
Paired(T, m) ==
  /\ \A a \in m.open :
       /\ \E c \in DOMAIN m.close : Role(c) = Role(a)
       /\ \E wing \in DOMAIN m.close, hedge \in m.open :
            /\ wing.kind = "long" /\ hedge.kind = "long"
            /\ wing.side = a.side /\ hedge.side = a.side
  /\ \A wing \in DOMAIN m.close, short \in LiveIn(T) :
       wing.kind = "long" /\ short.kind = "short" /\ short.side = wing.side =>
         short \in DOMAIN m.close

\* What was decided still fits when nothing of the batch is a duplicate.
LEMMA TicketSwaps ==
  ASSUME NEW T, IsTable(T, Legs), OneLot(T), OneRole(T), NEW day, NEW m,
         ~skipped, WriteInv(T, day, m), Clean(T, day, m.close)
  PROVE  /\ Swaps(T, m)
         /\ DOMAIN m.close \subseteq LiveIn(T)
         /\ \A l \in DOMAIN m.close : m.close[l] = Lot(l) /\ Held(T, l) = Lot(l)
         /\ (m.action = "PROFIT_LOCK_ZONE2" /\ LockTicket(T, m)) \/ Paired(T, m)
<1>1. /\ ReadHolds(T, day, m.close) /\ m.open \subseteq Legs
      /\ DOMAIN m.close \subseteq Legs
  BY DEF WriteInv, ReadHolds
<1>2. \A l \in DOMAIN m.close : /\ l \in LiveIn(T) /\ m.close[l] = Lot(l)
                                /\ Held(T, l) = Lot(l)
  BY <1>1, CleanIsLive DEF Clean
<1>3. CASE m.action = "CLOSE_FULL" /\ CloseTicket(T, day, m)
  <2>1. m.open = {} /\ ShortsToo(T, DOMAIN m.close, DOMAIN m.close)
    BY <1>3 DEF CloseTicket
  <2>2. Paired(T, m)
    BY <1>2, <2>1 DEF ShortsToo, Paired
  <2> QED BY <1>2, <2>1, <2>2 DEF Swaps
<1>4. CASE m.action = "ROLL_WING" /\ RollTicket(m)
  <2>1. PICK side \in Sides, new \in Legs, hedge \in Legs,
             short \in DOMAIN m.close, wing \in DOMAIN m.close :
          /\ m.open = {new, hedge}
          /\ new.kind = "short" /\ short.kind = "short"
          /\ hedge.kind = "long" /\ wing.kind = "long"
          /\ \A leg \in DOMAIN m.close \cup m.open : leg.side = side
    BY <1>4 DEF RollTicket
  <2>2. /\ new.side = side /\ hedge.side = side /\ short.side = side /\ wing.side = side
        /\ new \in m.open /\ hedge \in m.open
        /\ Role(new) = Role(short) /\ Role(hedge) = Role(wing)
        /\ Role(new) # Role(hedge)
    BY <2>1 DEF Role
  <2>3. \A b \in LiveIn(T) : /\ Role(b) = Role(short) => b = short
                             /\ Role(b) = Role(wing) => b = wing
    BY <1>2 DEF OneRole
  <2>4. Swaps(T, m)
    BY <2>1, <2>2, <2>3 DEF Swaps
  <2>5. ASSUME NEW a \in m.open
        PROVE  /\ \E c \in DOMAIN m.close : Role(c) = Role(a)
               /\ \E w \in DOMAIN m.close, h \in m.open :
                    /\ w.kind = "long" /\ h.kind = "long"
                    /\ w.side = a.side /\ h.side = a.side
    BY <2>1, <2>2
  <2>6. ASSUME NEW w \in DOMAIN m.close, NEW s \in LiveIn(T),
               w.kind = "long", s.kind = "short", s.side = w.side
        PROVE  s \in DOMAIN m.close
    BY <2>1, <2>2, <2>3, <2>6 DEF Role
  <2>7. Paired(T, m)
    BY <2>5, <2>6 DEF Paired
  <2> QED BY <1>2, <2>4, <2>7
<1>5. CASE m.action = "PROFIT_LOCK_ZONE2" /\ LockTicket(T, m)
  <2>1. /\ \A l \in m.open : l.kind = "long"
        /\ \A a, b \in m.open : a.side = b.side => a = b
        /\ \A l \in LiveIn(T) : l.kind = "long" => l \in DOMAIN m.close
    BY <1>5 DEF LockTicket
  <2>2. \A a \in m.open, b \in LiveIn(T) :
          Role(a) = Role(b) => a.kind = b.kind /\ a.side = b.side
    BY DEF Role
  <2>3. \A a, b \in m.open : Role(a) = Role(b) => a.side = b.side
    BY DEF Role
  <2> QED BY <1>2, <1>5, <2>1, <2>2, <2>3 DEF Swaps
<1> QED BY <1>3, <1>4, <1>5 DEF WriteInv

\* What the written batch leaves.
LEMMA WrittenLegs ==
  ASSUME NEW T, NEW U, IsTable(T, Legs), OneLot(T), OneRole(T), NEW day, NEW m,
         m.open \subseteq Legs, DOMAIN m.close \subseteq LiveIn(T),
         \A l \in DOMAIN m.close : m.close[l] = Lot(l) /\ Held(T, l) = Lot(l),
         Written(T, U, day, m), Swaps(T, m)
  PROVE  /\ OneLot(U) /\ OneRole(U)
         /\ LiveIn(U) = (LiveIn(T) \ DOMAIN m.close) \cup m.open
         /\ \A l \in DOMAIN m.close \ m.open : Held(U, l) = 0
         /\ \A l \in Legs : OpenedOn(T, l, day) => OpenedOn(U, l, day)
         /\ \A l \in Legs : ClosedOn(T, l, day) => ClosedOn(U, l, day)
         /\ \A l \in DOMAIN m.close : ClosedOn(U, l, day)
<1>1. \A l \in m.open : l \in DOMAIN m.close \/ Held(T, l) = 0
  BY DEF Swaps, LiveIn
<1>2. \A l \in Legs : Lot(l) \in {-1, 1} /\ Closing(Lot(l)) = Opposite(Opener(l))
  BY LegFields
<1>3. ASSUME NEW l \in Legs
      PROVE  Held(U, l) = IF l \in m.open THEN Lot(l)
                          ELSE IF l \in DOMAIN m.close THEN 0 ELSE Held(T, l)
  <2>1. /\ Held(T, l) \in Int /\ Lot(l) \in Int
        /\ Held(U, l) = Held(T, l) - (IF l \in DOMAIN m.close THEN m.close[l] ELSE 0)
                                   + (IF l \in m.open THEN Lot(l) ELSE 0)
    BY <1>2, HeldIsInt DEF Written
  <2> QED BY <1>1, <2>1
<1>4. OneLot(U)
  BY <1>3 DEF OneLot
<1>5. LiveIn(U) = (LiveIn(T) \ DOMAIN m.close) \cup m.open
  BY <1>2, <1>3 DEF LiveIn
<1>6. OneRole(U)
  BY <1>5 DEF OneRole, Swaps
<1>7. \A l \in DOMAIN m.close \ m.open : Held(U, l) = 0
  BY <1>3 DEF LiveIn
<1>8. \A l, d, a : Has(T, l, d, a) => Has(U, l, d, a)
  BY DEF Written
<1>9. ASSUME NEW l \in DOMAIN m.close PROVE ClosedOn(U, l, day)
  <2>1. l \in Legs /\ Closing(m.close[l]) = Opposite(Opener(l))
    BY <1>2 DEF LiveIn
  <2> QED BY <2>1 DEF Written, ClosedOn
<1> QED BY <1>4, <1>5, <1>6, <1>7, <1>8, <1>9 DEF OpenedOn, ClosedOn

\* A roll or a close leaves no short without its wing that had one.
LEMMA PairedKeepsWings ==
  ASSUME NEW T, NEW U, NEW m, Paired(T, m),
         LiveIn(U) = (LiveIn(T) \ DOMAIN m.close) \cup m.open
  PROVE  /\ \A l \in m.open : Winged(U, l.side)
         /\ \A l \in LiveIn(U) : l.kind = "short" /\ Winged(T, l.side) => Winged(U, l.side)
<1>1. \A l \in m.open : Winged(U, l.side)
  BY DEF Paired, Winged
<1>2. ASSUME NEW l \in LiveIn(U), l.kind = "short", Winged(T, l.side)
      PROVE  Winged(U, l.side)
  <2>1. CASE l \in m.open
    BY <1>1, <2>1
  <2>2. CASE l \in LiveIn(T) \ DOMAIN m.close
    <3>1. PICK w \in LiveIn(T) : w.kind = "long" /\ w.side = l.side
      BY <1>2 DEF Winged
    <3>2. w \notin DOMAIN m.close
      BY <1>2, <2>2, <3>1 DEF Paired
    <3> QED BY <3>1, <3>2 DEF Winged
  <2> QED BY <2>1, <2>2
<1> QED BY <1>1, <1>2

\* A roll or a close, while the entry script places or undoes its basket.
LEMMA WrittenBasket ==
  ASSUME NEW T, NEW U, OneRole(T), NEW day, NEW m, NEW e, e.basket \in Baskets,
         m.open \subseteq Legs, DOMAIN m.close \subseteq LiveIn(T), Paired(T, m),
         LiveIn(U) = (LiveIn(T) \ DOMAIN m.close) \cup m.open,
         \A l \in Legs : OpenedOn(T, l, day) => OpenedOn(U, l, day),
         \A l \in Legs : ClosedOn(T, l, day) => ClosedOn(U, l, day),
         \A l \in DOMAIN m.close : ClosedOn(U, l, day),
         \A l \in m.open : ~OpenedOn(T, l, day),
         e.pc = "undo" => e.left \subseteq 1 .. 4,
         e.pc = "place" => e.placed \in 0 .. 3,
         BasketInv(T, day, e)
  PROVE  /\ BasketInv(U, day, e)
         /\ e.pc = "undo" /\ UndoInv(T, e) => UndoInv(U, e)
<1> DEFINE b == e.basket
<1>1. \A i \in 1 .. 4 : b[i] \in Legs
  BY BasketLegs
<1>2. ASSUME NEW l \in LiveIn(U)
      PROVE  \E k \in LiveIn(T) : Role(k) = Role(l)
  BY <1>2 DEF Paired
<1>3. ASSUME NEW l \in Legs, Begun(T, day, l) PROVE Begun(U, day, l)
  <2>1. l \in LiveIn(T) => l \in LiveIn(U) \/ ClosedOn(U, l, day)
    OBVIOUS
  <2> QED BY <1>3, <2>1 DEF Begun, LiveIn
<1>4. \A i \in 1 .. 4, l \in LiveIn(U) : Role(l) = Role(b[i]) => Begun(T, day, b[i])
  BY <1>2 DEF BasketInv
<1>5. /\ \A l \in m.open : Winged(U, l.side)
      /\ \A l \in LiveIn(U) : l.kind = "short" /\ Winged(T, l.side) => Winged(U, l.side)
  BY PairedKeepsWings
<1>6. ASSUME NEW l \in LiveIn(U), l.kind = "short", l # b[ShortAt(l.side)]
      PROVE  Rolled(U, day, b, l.side)
  <2>1. l.side \in Sides /\ l \in Legs
    BY <1>6, LegFields DEF LiveIn
  <2>2. /\ WingAt(l.side) \in 1 .. 4 /\ b[WingAt(l.side)] \in Legs
        /\ b[WingAt(l.side)].kind = "long" /\ b[WingAt(l.side)].side = l.side
    BY <1>1, <2>1, BasketRoles
  <2>3. CASE l \in LiveIn(T)
    <3>1. ClosedOn(T, b[WingAt(l.side)], day) /\ Winged(T, l.side)
      BY <1>6, <2>3 DEF BasketInv, Rolled
    <3> QED BY <1>5, <1>6, <2>2, <3>1 DEF Rolled
  <2>4. CASE l \in m.open
    <3>1. PICK wing \in DOMAIN m.close : wing.kind = "long" /\ wing.side = l.side
      BY <2>4 DEF Paired
    <3>2. wing \in LiveIn(T) /\ Role(wing) = Role(b[WingAt(l.side)])
      BY <2>2, <3>1 DEF Role
    <3>3. Begun(T, day, b[WingAt(l.side)])
      BY <2>2, <3>2 DEF BasketInv
    <3>4. CASE ClosedOn(T, b[WingAt(l.side)], day)
      BY <1>5, <2>2, <2>4, <3>4 DEF Rolled
    <3>5. CASE Held(T, b[WingAt(l.side)]) # 0
      <4>1. b[WingAt(l.side)] = wing
        BY <2>2, <3>2, <3>5 DEF OneRole, LiveIn
      <4> QED BY <1>5, <2>4, <4>1 DEF Rolled
    <3> QED BY <3>3, <3>4, <3>5 DEF Begun
  <2> QED BY <2>3, <2>4
<1>7. BasketInv(U, day, e)
  <2>1. ASSUME e.pc = "place", NEW l \in LiveIn(U)
        PROVE  \E i \in 1 .. e.placed : Role(l) = Role(b[i])
    BY <1>2, <2>1 DEF BasketInv
  <2>2. \A i \in 1 .. 4, l \in LiveIn(U) : Role(l) = Role(b[i]) => Begun(U, day, b[i])
    BY <1>1, <1>3, <1>4
  <2>3. e.pc = "undo" => \A i \in e.left : Begun(U, day, b[i])
    BY <1>1, <1>3 DEF BasketInv
  <2> QED BY <1>6, <2>1, <2>2, <2>3 DEF BasketInv
<1>8. ASSUME UndoInv(T, e) PROVE UndoInv(U, e)
  <2>1. ASSUME NEW j \in (1 .. 4) \ e.left PROVE Held(U, b[j]) = 0
    <3>1. b[j] \in Legs /\ b[j] \notin LiveIn(T)
      BY <1>1, <1>8 DEF UndoInv, LiveIn
    <3>2. b[j] \notin m.open
      <4>1. SUFFICES ASSUME b[j] \in m.open PROVE FALSE
        OBVIOUS
      <4>2. OpenedOn(T, b[j], day)
        BY <1>4, <4>1 DEF Begun
      <4> QED BY <4>1, <4>2
    <3> QED BY <3>1, <3>2 DEF LiveIn
  <2>2. ASSUME NEW l \in LiveIn(U), l.kind = "short", ShortAt(l.side) \notin e.left
        PROVE  Winged(U, l.side)
    <3>1. CASE l \in m.open
      BY <1>5, <3>1
    <3>2. CASE l \in LiveIn(T)
      BY <1>5, <1>8, <2>2, <3>2 DEF UndoInv
    <3> QED BY <3>1, <3>2
  <2> QED BY <2>1, <2>2 DEF UndoInv
<1> QED BY <1>7, <1>8

\* A lock that opens no fewer wings than it closes opens both.
LEMMA LockKeepsWings ==
  ASSUME NEW T, NEW U, IsTable(T, Legs), LockTicket(T, monitor), ~skipped, Covered(T),
         LiveIn(U) = (LiveIn(T) \ DOMAIN monitor.close) \cup monitor.open,
         IsTable(Closes, Legs), IsTable(Opens, Legs), monitor.open \subseteq Legs,
         ~(Cardinality(Opens) < Cardinality(Closes))
  PROVE  Covered(U)
<1>1. /\ \A side \in Sides : HasRole(LiveIn(T), "short", side)
      /\ \A a, b \in monitor.open : a.side = b.side => a = b
      /\ \A l \in monitor.open : l.kind = "long"
      /\ \A l \in LiveIn(T) : l.kind = "long" => l \in DOMAIN monitor.close
  BY DEF LockTicket
<1>2. IsFiniteSet(Closes) /\ IsFiniteSet(Opens)
  BY DEF IsTable
<1>3. \A side \in Sides : Winged(T, side)
  BY <1>1 DEF HasRole, Covered, Role
<1>4. PICK p \in LiveIn(T) : p.kind = "long" /\ p.side = "put"
  BY <1>3 DEF Winged, Sides
<1>5. PICK c \in LiveIn(T) : c.kind = "long" /\ c.side = "call"
  BY <1>3 DEF Winged, Sides
<1>6. /\ CloseTrade(p) \in Closes /\ CloseTrade(c) \in Closes
      /\ CloseTrade(p) # CloseTrade(c)
  <2>1. CloseTrade(p).leg = p /\ CloseTrade(c).leg = c
    BY DEF CloseTrade, Trade
  <2>2. p # c
    BY <1>4, <1>5
  <2> QED BY <1>1, <1>4, <1>5, <2>1, <2>2 DEF Closes
<1>7. Cardinality(Closes) >= 2
  <2> DEFINE x == CloseTrade(p)
             y == CloseTrade(c)
  <2>1. x # y /\ {x} \cup {y} \subseteq Closes
    BY <1>6
  <2> HIDE DEF x, y
  <2>2. IsFiniteSet({x}) /\ Cardinality({x}) = 1
    BY FS_Singleton
  <2>3. IsFiniteSet({x} \cup {y}) /\ Cardinality({x} \cup {y}) = 2
    <3>1. y \notin {x}
      BY <2>1
    <3>2. /\ IsFiniteSet({x} \cup {y})
          /\ Cardinality({x} \cup {y}) =
               IF y \in {x} THEN Cardinality({x}) ELSE Cardinality({x}) + 1
      BY <2>2, FS_AddElement
    <3> QED BY <2>2, <3>1, <3>2
  <2> QED BY <1>2, <2>1, <2>3, FS_Subset, FS_CardinalityType
<1>8. ASSUME NEW side \in Sides PROVE \E l \in monitor.open : l.side = side
  <2>1. SUFFICES ASSUME \A l \in monitor.open : l.side # side PROVE FALSE
    OBVIOUS
  <2>2. \A a, b \in monitor.open : a = b
    <3>1. \A l \in monitor.open : l.side \in {"put", "call"}
      BY LegFields DEF Sides
    <3> QED BY <1>1, <2>1, <3>1 DEF Sides
  <2>3. Cardinality(Opens) <= 1
    <3>1. CASE monitor.open = {}
      <4>1. Opens = {}
        BY <3>1 DEF Opens
      <4> QED BY <4>1, FS_EmptySet
    <3>2. CASE monitor.open # {}
      <4>1. PICK a \in monitor.open : TRUE
        BY <3>2
      <4>2. Opens = {OpenTrade(a)}
        BY <2>2 DEF Opens
      <4>3. Cardinality({OpenTrade(a)}) = 1
        BY FS_Singleton, Zenon
      <4> QED BY <4>2, <4>3
    <3> QED BY <3>1, <3>2
  <2>4. Cardinality(Opens) \in Nat /\ Cardinality(Closes) \in Nat
    BY <1>2, FS_CardinalityType
  <2> QED BY <1>7, <2>3, <2>4
<1>9. \A side \in Sides : Winged(U, side)
  BY <1>1, <1>8 DEF Winged
<1>10. \A l \in LiveIn(U) : l.side \in Sides
  BY LegFields DEF LiveIn
<1> QED BY <1>9, <1>10 DEF Covered

\* The batch, in full or not.
LEMMA WriteBatchInv ==
  ASSUME CondorInv, WriteBatch
  PROVE  /\ RowsInv' /\ EntryInv' /\ MonitorInv' /\ IsEntry(entry)'
         /\ IsTable(paper_trades, Legs)' /\ Dated(paper_trades')
<1> DEFINE T == paper_trades
           U == paper_trades'
           m == monitor
<1>1. /\ IsTable(T, Legs) /\ IsTable(U, Legs) /\ Dated(U) /\ today \in Days
      /\ ~skipped' => Written(T, U, today, m)
  BY WriteBatchRows DEF CondorInv, CondorTypes, TypeOK
<1>2. /\ WriteInv(T, today, m) /\ m.open \subseteq Legs
      /\ IsFiniteSet(m.open) /\ IsFiniteSet(DOMAIN m.close)
      /\ DOMAIN m.close \subseteq Legs
      /\ \A l \in DOMAIN m.close : m.close[l] \in Int \ {0}
  BY DEF CondorInv, MonitorInv, WriteBatch, WriteInv, ReadHolds
<1>3. /\ UNCHANGED <<today, entry, abandoned>>
      /\ ~skipped' => ~skipped
      /\ ~uncovered' =>
           /\ ~uncovered
           /\ m.action = "PROFIT_LOCK_ZONE2" => ~(Cardinality(Opens) < Cardinality(Closes))
      /\ ~reused' => ~reused /\ m.open \cap DOMAIN m.close = {}
  BY DEF WriteBatch
<1>4. /\ monitor'.pc \in {"rest", "lock", "mark"}
      /\ monitor'.pc = "mark" => monitor'.todo \subseteq DOMAIN m.close
  <2>1. \A t \in Inserted(T, Closes) : t.leg \in DOMAIN m.close
    BY DEF Inserted, Closes, CloseTrade, Trade
  <2> DEFINE todo == {t.leg : t \in Inserted(T, Closes)}
  <2>2. todo \subseteq DOMAIN m.close
    BY <2>1
  <2>3. monitor' \in {Resting, AfterMarks(m.action),
                      [pc |-> "mark", action |-> m.action, todo |-> todo]}
    BY DEF WriteBatch, Marks
  <2> HIDE DEF todo
  <2> QED BY <2>2, <2>3, AfterMarksRests DEF Resting
<1> HIDE DEF T, U, m
<1>5. ASSUME ~skipped'
      PROVE  /\ OneLot(T) /\ OneRole(T) /\ Swaps(T, m) /\ DOMAIN m.close \subseteq LiveIn(T)
             /\ \A l \in DOMAIN m.close : m.close[l] = Lot(l) /\ Held(T, l) = Lot(l)
             /\ (m.action = "PROFIT_LOCK_ZONE2" /\ LockTicket(T, m)) \/ Paired(T, m)
  <2>1. OneLot(T) /\ OneRole(T) /\ Clean(T, today, m.close) /\ ~skipped
    BY <1>1, <1>3, <1>5 DEF CondorInv, RowsInv, Written, T
  <2> QED BY <1>1, <1>2, <2>1, TicketSwaps
<1>6. ASSUME ~skipped'
      PROVE  /\ OneLot(U) /\ OneRole(U)
             /\ LiveIn(U) = (LiveIn(T) \ DOMAIN m.close) \cup m.open
             /\ \A l \in DOMAIN m.close \ m.open : Held(U, l) = 0
             /\ \A l \in Legs : OpenedOn(T, l, today) => OpenedOn(U, l, today)
             /\ \A l \in Legs : ClosedOn(T, l, today) => ClosedOn(U, l, today)
             /\ \A l \in DOMAIN m.close : ClosedOn(U, l, today)
  BY <1>1, <1>2, <1>5, <1>6, WrittenLegs
<1>7. RowsInv'
  <2>1. ASSUME ~skipped', ~reused', NEW l \in LiveIn(U) PROVE HasOpenRow(U, l)
    <3>1. CASE l \in m.open
      BY <1>1, <2>1, <3>1 DEF Written
    <3>2. CASE l \in LiveIn(T)
      <4>1. HasOpenRow(T, l)
        BY <1>3, <2>1, <3>2 DEF CondorInv, RowsInv, T
      <4> QED BY <1>1, <2>1, <4>1 DEF Written, HasOpenRow
    <3> QED BY <1>6, <2>1, <3>1, <3>2
  <2> QED BY <1>6, <2>1 DEF RowsInv, U
<1>8. EntryInv'
  <2>1. ASSUME ~skipped', entry # NoEntry PROVE Paired(T, m)
    BY <1>5, <2>1 DEF LockTicket
  <2>2. IsEntry(entry)
    BY DEF CondorInv, CondorTypes
  <2>3. ASSUME ~skipped', entry.pc \in {"place", "verify", "undo"}
        PROVE  /\ BasketInv(U, today, entry)
               /\ entry.pc = "undo" /\ UndoInv(T, entry) => UndoInv(U, entry)
    <3>1. /\ entry # NoEntry /\ entry.basket \in Baskets
          /\ entry.pc = "undo" => entry.left \subseteq 1 .. 4
          /\ entry.pc = "place" => entry.placed \in 0 .. 3
      BY <2>2, <2>3, EntryPhases
    <3>2. BasketInv(T, today, entry) /\ Paired(T, m)
      BY <1>3, <2>1, <2>3, <3>1 DEF CondorInv, EntryInv, T
    <3>3. \A l \in m.open : ~OpenedOn(T, l, today)
      BY <1>1, <2>3 DEF Written
    <3> DEFINE e == entry
    <3>4. /\ e.basket \in Baskets /\ BasketInv(T, today, e)
          /\ e.pc = "undo" => e.left \subseteq 1 .. 4
          /\ e.pc = "place" => e.placed \in 0 .. 3
      BY <3>1, <3>2
    <3> HIDE DEF e
    <3>5. /\ BasketInv(U, today, e)
          /\ e.pc = "undo" /\ UndoInv(T, e) => UndoInv(U, e)
      BY <1>2, <1>5, <1>6, <2>3, <3>2, <3>3, <3>4, WrittenBasket
    <3> QED BY <3>5 DEF e
  <2>4. ASSUME ~skipped', ~uncovered', Covered(T) PROVE Covered(U)
    <3>1. CASE Paired(T, m)
      <4>1. /\ \A l \in m.open : Winged(U, l.side)
            /\ \A l \in LiveIn(U) :
                 l.kind = "short" /\ Winged(T, l.side) => Winged(U, l.side)
        BY <1>6, <2>4, <3>1, PairedKeepsWings
      <4> QED BY <1>6, <2>4, <4>1 DEF Covered
    <3>2. CASE m.action = "PROFIT_LOCK_ZONE2" /\ LockTicket(T, m)
      <4>1. IsTable(Closes, Legs) /\ IsTable(Opens, Legs)
        BY <1>1, <1>2, ClosesTable, OpensTable DEF m
      <4>2. /\ LockTicket(T, monitor) /\ ~skipped /\ monitor.open \subseteq Legs
            /\ LiveIn(U) = (LiveIn(T) \ DOMAIN monitor.close) \cup monitor.open
            /\ ~(Cardinality(Opens) < Cardinality(Closes))
        BY <1>2, <1>3, <1>6, <2>4, <3>2 DEF m
      <4> QED BY <1>1, <2>4, <4>1, <4>2, LockKeepsWings
    <3> QED BY <1>5, <2>4, <3>1, <3>2
  <2>5. ASSUME ~skipped', ~abandoned, ~uncovered'
        PROVE  /\ entry.pc = "undo" => UndoInv(U, entry)
               /\ entry.pc \in {"none", "credit"} => Covered(U)
    BY <1>3, <2>3, <2>4, <2>5 DEF CondorInv, EntryInv, T
  <2> QED BY <1>3, <2>3, <2>5 DEF EntryInv, U
<1>9. ASSUME monitor'.pc = "mark", ~skipped', ~reused', NEW l \in monitor'.todo
      PROVE  Held(U, l) = 0
  BY <1>3, <1>4, <1>6, <1>9
<1>10. MonitorInv'
  BY <1>4, <1>9 DEF MonitorInv, U
<1> QED BY <1>1, <1>3, <1>7, <1>8, <1>10 DEF CondorInv, CondorTypes, U

-----------------------------------------------------------------------------
(* Every step.                                                             *)

\* Every action keeps the parts about rows and processes.
LEMMA StepInv ==
  ASSUME CondorInv, CreditIsOwn, Next
  PROVE  RowsInv' /\ EntryInv' /\ MonitorInv' /\ IsEntry(entry)'
<1>1. CASE \E basket \in Baskets : BeginEntry(basket)
  BY <1>1, BeginEntryInv
<1>2. CASE PlaceLeg
  BY <1>2, PlaceLegInv
<1>3. CASE Verify
  BY <1>3, VerifyInv
<1>4. CASE PlaceLegFails \/ VerifyFails \/ SetCredit \/ SetCreditFails \/ EntryDies
  BY <1>4, StageEndsInv
<1>5. CASE Compensate
  BY <1>5, CompensateInv
<1>6. CASE CompensateFails
  BY <1>6, CompensateFailsInv
<1>7. CASE StartDaemon \/ DecideMilestone \/ Hold \/ WriteNothing \/ WriteLock \/ DaemonEnds
  BY <1>7, RestInv
<1>8. CASE ReadPositions
  BY <1>8, ReadPositionsInv
<1>9. CASE DecideClose
  BY <1>9, DecideCloseInv
<1>10. CASE DecideLock
  BY <1>10, DecideLockInv
<1>11. CASE DecideRoll
  BY <1>11, DecideRollInv
<1>12. CASE WriteBatch
  BY <1>12, WriteBatchInv
<1>13. CASE MarkLegs \/ ActionStops
  BY <1>13, MarkLegsInv
<1>14. CASE NextDay
  BY <1>14, NextDayInv
<1> QED BY <1>1, <1>2, <1>3, <1>4, <1>5, <1>6, <1>7, <1>8, <1>9, <1>10, <1>11, <1>12,
           <1>13, <1>14 DEF Next

\* Every action leaves a table of rows with their days.
LEMMA StepRows ==
  ASSUME CondorInv, Next
  PROVE  IsTable(paper_trades, Legs)' /\ Dated(paper_trades')
<1>1. IsTable(paper_trades, Legs) /\ Dated(paper_trades)
  BY DEF CondorInv, CondorTypes, TypeOK, Dated
<1>2. CASE UNCHANGED paper_trades
  BY <1>1, <1>2
<1>3. CASE PlaceLeg
  BY <1>3, PlaceLegInv
<1>4. CASE Compensate
  BY <1>4, CompensateInv
<1>5. CASE WriteBatch
  BY <1>5, WriteBatchInv
<1>6. CASE MarkLegs \/ ActionStops
  BY <1>6, MarkLegsInv
<1>7. \/ UNCHANGED paper_trades \/ PlaceLeg \/ Compensate \/ WriteBatch
      \/ MarkLegs \/ ActionStops
  BY DEF Next, BeginEntry, PlaceLegFails, Verify, VerifyFails, CompensateFails, SetCredit,
     SetCreditFails, EntryDies, StartDaemon, ReadPositions, DecideClose, DecideLock,
     DecideMilestone, DecideRoll, Hold, WriteNothing, WriteLock, DaemonEnds, NextDay,
     tables
<1> QED BY <1>2, <1>3, <1>4, <1>5, <1>6, <1>7

\* Every action leaves the monitor where it can be.
LEMMA StepMonitor ==
  ASSUME CondorInv, MonitorInv', Next
  PROVE  IsMonitor(monitor')
<1>1. IsMonitor(monitor)
  BY DEF CondorInv, CondorTypes, TypeOK
<1>2. CASE UNCHANGED monitor
  BY <1>1, <1>2
<1>3. CASE monitor' \in {Resting, Down, [pc |-> "lock"]}
  BY <1>3 DEF IsMonitor
<1>4. CASE monitor'.pc = "decide"
  BY <1>4 DEF MonitorInv, DecideInv, ReadHolds, IsMonitor
<1>5. CASE monitor'.pc = "write"
  BY <1>5 DEF MonitorInv, WriteInv, ReadHolds, IsMonitor
<1>6. \A action : AfterMarks(action) \in {Resting, [pc |-> "lock"]}
  BY DEF AfterMarks
<1>7. CASE WriteBatch
  <2> DEFINE todo == {t.leg : t \in Inserted(paper_trades, Closes)}
  <2>1. monitor' = Resting \/ monitor' = Marks(monitor.action, todo)
    BY <1>7 DEF WriteBatch
  <2>2. todo \subseteq Legs
    <3>1. DOMAIN monitor.close \subseteq Legs
      BY <1>7 DEF CondorInv, MonitorInv, WriteBatch, WriteInv, ReadHolds
    <3>2. \A t \in Inserted(paper_trades, Closes) : t.leg \in DOMAIN monitor.close
      BY DEF Inserted, Closes, CloseTrade, Trade
    <3> QED BY <3>1, <3>2
  <2> HIDE DEF todo
  <2>3. CASE monitor' = [pc |-> "mark", action |-> monitor.action, todo |-> todo]
             /\ todo # {}
    BY <2>2, <2>3 DEF IsMonitor
  <2>4. \/ monitor' \in {Resting, [pc |-> "lock"]}
        \/ monitor' = [pc |-> "mark", action |-> monitor.action, todo |-> todo]
           /\ todo # {}
    BY <1>6, <2>1 DEF Marks
  <2> QED BY <1>3, <2>3, <2>4
<1>8. CASE \/ StartDaemon \/ ReadPositions \/ DecideClose \/ DecideLock
           \/ DecideMilestone \/ DecideRoll \/ Hold \/ WriteNothing \/ WriteLock
           \/ ActionStops \/ DaemonEnds \/ MarkLegs
  <2>1. \A action, closed, opened : Write(action, closed, opened).pc = "write"
    BY DEF Write
  <2>2. \/ monitor' \in {Resting, Down, [pc |-> "lock"]}
        \/ monitor'.pc \in {"decide", "write"}
    <3>1. CASE DecideClose
      BY <2>1, <3>1 DEF DecideClose
    <3>2. CASE DecideLock
      BY <2>1, <3>2 DEF DecideLock
    <3>3. CASE DecideRoll
      BY <2>1, <3>3 DEF DecideRoll
    <3>4. CASE MarkLegs
      BY <1>6, <3>4 DEF MarkLegs
    <3>5. CASE ReadPositions
      BY <3>5 DEF ReadPositions
    <3>6. CASE \/ StartDaemon \/ DecideMilestone \/ Hold \/ WriteNothing \/ WriteLock
               \/ ActionStops \/ DaemonEnds
      BY <3>6 DEF StartDaemon, DecideMilestone, Hold, WriteNothing, WriteLock,
         ActionStops, DaemonEnds
    <3> QED BY <1>8, <3>1, <3>2, <3>3, <3>4, <3>5, <3>6
  <2> QED BY <1>3, <1>4, <1>5, <2>2
<1>9. \/ UNCHANGED monitor \/ WriteBatch
      \/ StartDaemon \/ ReadPositions \/ DecideClose \/ DecideLock
      \/ DecideMilestone \/ DecideRoll \/ Hold \/ WriteNothing \/ WriteLock
      \/ ActionStops \/ DaemonEnds \/ MarkLegs
  BY DEF Next, BeginEntry, PlaceLeg, PlaceLegFails, Verify, VerifyFails, Compensate,
     CompensateFails, SetCredit, SetCreditFails, EntryDies, NextDay
<1> QED BY <1>2, <1>7, <1>8, <1>9

\* The counters and flags.
Scalars ==
    /\ credit \in 0 .. MaxWork /\ cycle \in 0 .. MaxWork
    /\ lock \in [zone : 0 .. 2, executed : BOOLEAN]
    /\ today \in Days
    /\ rolls \in [Sides -> Nat]
    /\ batches \in 0 .. MaxWork /\ locks \in Nat
    /\ {interrupted, skipped, uncovered, reused, abandoned} \subseteq BOOLEAN

\* Every action leaves the counters within their bounds.
LEMMA StepScalars ==
  ASSUME CondorInv, Next
  PROVE  Scalars'
<1>1. /\ credit \in 0 .. MaxWork /\ cycle \in 0 .. MaxWork
      /\ lock \in [zone : 0 .. 2, executed : BOOLEAN]
      /\ today \in Days /\ rolls \in [Sides -> Nat]
      /\ batches \in 0 .. MaxWork /\ locks \in Nat /\ MaxWork \in Nat
      /\ LastDay \in Nat \ {0}
      /\ interrupted \in BOOLEAN /\ skipped \in BOOLEAN /\ uncovered \in BOOLEAN
      /\ reused \in BOOLEAN /\ abandoned \in BOOLEAN
  BY CondorAssumption DEF CondorInv, CondorTypes, TypeOK
<1>2. /\ UNCHANGED <<interrupted, skipped, uncovered, reused, abandoned>>
      \/ {interrupted, skipped, uncovered, reused, abandoned}' \subseteq BOOLEAN
  <2>1. CASE \E basket \in Baskets : BeginEntry(basket)
    BY <2>1 DEF BeginEntry, FreshHistory
  <2>2. CASE PlaceLeg \/ VerifyFails \/ CompensateFails \/ EntryDies \/ WriteBatch \/ ActionStops
    BY <1>1, <2>2 DEF PlaceLeg, VerifyFails, CompensateFails, EntryDies, WriteBatch,
       ActionStops
  <2>3. CASE ~(\/ \E basket \in Baskets : BeginEntry(basket)
               \/ PlaceLeg \/ VerifyFails \/ CompensateFails \/ EntryDies \/ WriteBatch
               \/ ActionStops)
    BY <2>3 DEF Next, PlaceLegFails, Verify, Compensate, SetCredit, SetCreditFails,
       StartDaemon, ReadPositions, DecideClose, DecideLock, DecideMilestone, DecideRoll,
       Hold, WriteNothing, MarkLegs, WriteLock, DaemonEnds, NextDay, history
  <2> QED BY <2>1, <2>2, <2>3
<1>3. {interrupted, skipped, uncovered, reused, abandoned}' \subseteq BOOLEAN
  BY <1>1, <1>2
<1>4. CASE \E basket \in Baskets : BeginEntry(basket)
  <2>1. /\ cycle + batches < MaxWork /\ credit' = 0 /\ cycle' = cycle + 1 /\ locks' = 0
        /\ UNCHANGED <<lock, today, rolls, batches>>
    BY <1>4 DEF BeginEntry, FreshHistory
  <2>2. cycle' \in 0 .. MaxWork /\ credit' \in 0 .. MaxWork
    BY <1>1, <2>1
  <2> QED BY <1>1, <1>3, <2>1, <2>2 DEF Scalars
<1>5. CASE WriteBatch
  <2>1. batches < MaxWork
    BY <1>5 DEF CondorInv, MonitorInv, WriteBatch, WriteInv
  <2>2. /\ batches' = batches + 1 /\ locks' \in {locks, locks + 1}
        /\ UNCHANGED <<credit, lock, today, rolls, cycle>>
    BY <1>5 DEF WriteBatch
  <2>3. batches' \in 0 .. MaxWork /\ locks' \in Nat
    BY <1>1, <2>1, <2>2
  <2> QED BY <1>1, <1>3, <2>2, <2>3 DEF Scalars
<1>6. CASE SetCredit
  BY <1>1, <1>3, <1>6 DEF SetCredit, Scalars, history
<1>7. CASE StartDaemon
  <2>1. rolls' \in [Sides -> Nat] /\ UNCHANGED <<credit, cycle, lock, today, batches, locks>>
    BY <1>7 DEF StartDaemon, tables, history
  <2> QED BY <1>1, <1>3, <2>1 DEF Scalars
<1>8. CASE DecideRoll
  <2>1. UNCHANGED <<credit, cycle, lock, today, batches, locks>>
    BY <1>8 DEF DecideRoll, tables, history
  <2>2. \E side \in Sides : rolls' = [rolls EXCEPT ![side] = @ + 1]
    <3>1. PICK m \in Readings : rolls' = [rolls EXCEPT ![Challenged(m)] = @ + 1]
      BY <1>8, Zenon DEF DecideRoll
    <3>2. Challenged(m) \in Sides
      BY DEF Challenged, Sides
    <3> QED BY <3>1, <3>2
  <2>3. rolls' \in [Sides -> Nat]
    BY <1>1, <2>2
  <2> QED BY <1>1, <1>3, <2>1, <2>3 DEF Scalars
<1>9. CASE DecideMilestone \/ WriteLock
  <2>1. lock' = [lock EXCEPT !.zone = 1] \/ lock' = [zone |-> 2, executed |-> TRUE]
    BY <1>9 DEF DecideMilestone, WriteLock
  <2>2. lock' \in [zone : 0 .. 2, executed : BOOLEAN]
    <3>1. 1 \in 0 .. 2 /\ 2 \in 0 .. 2 /\ TRUE \in BOOLEAN
      OBVIOUS
    <3>2. [lock EXCEPT !.zone = 1] = [zone |-> 1, executed |-> lock.executed]
          /\ lock.executed \in BOOLEAN
      BY <1>1
    <3>3. \/ lock' = [zone |-> 1, executed |-> lock.executed]
          \/ lock' = [zone |-> 2, executed |-> TRUE]
      BY <2>1, <3>2, Zenon
    <3>4. \A z \in 0 .. 2, x \in BOOLEAN :
            [zone |-> z, executed |-> x] \in [zone : 0 .. 2, executed : BOOLEAN]
      OBVIOUS
    <3>5. [zone |-> 2, executed |-> TRUE] \in [zone : 0 .. 2, executed : BOOLEAN]
      BY <3>1
    <3>6. [zone |-> 1, executed |-> lock.executed] \in [zone : 0 .. 2, executed : BOOLEAN]
      BY <3>1, <3>2, <3>4, Zenon
    <3> QED BY <3>3, <3>5, <3>6, Zenon
  <2>3. UNCHANGED <<credit, cycle, today, rolls, batches, locks>>
    BY <1>9 DEF DecideMilestone, WriteLock, history
  <2> QED BY <1>1, <1>3, <2>2, <2>3 DEF Scalars
<1>10. CASE NextDay
  <2>1. today' = today + 1 /\ today < LastDay
        /\ UNCHANGED <<credit, cycle, lock, rolls, batches, locks>>
    BY <1>10 DEF NextDay, tables, history
  <2>2. today' \in Days
    BY <1>1, <2>1 DEF Days
  <2> QED BY <1>1, <1>3, <2>1, <2>2 DEF Scalars
<1>11. CASE ~(\/ \E basket \in Baskets : BeginEntry(basket)
              \/ WriteBatch \/ SetCredit \/ StartDaemon \/ DecideRoll \/ DecideMilestone
              \/ WriteLock \/ NextDay)
  <2>1. UNCHANGED <<credit, cycle, lock, today, rolls, batches, locks>>
    BY <1>11 DEF Next, PlaceLeg, PlaceLegFails, Verify, VerifyFails, Compensate,
       CompensateFails, SetCreditFails, EntryDies, ReadPositions, DecideClose, DecideLock,
       Hold, WriteNothing, MarkLegs, ActionStops, DaemonEnds, tables, history
  <2> QED BY <1>1, <1>3, <2>1 DEF Scalars
<1> QED BY <1>4, <1>5, <1>6, <1>7, <1>8, <1>9, <1>10, <1>11

\* Every step keeps the invariant.
LEMMA CondorStep ==
  ASSUME CondorInv, CreditIsOwn, [Next]_vars
  PROVE  CondorInv'
<1>1. CASE Next
  <2>1. RowsInv' /\ EntryInv' /\ MonitorInv' /\ IsEntry(entry)'
    BY <1>1, StepInv
  <2>2. IsTable(paper_trades, Legs)' /\ Dated(paper_trades') /\ Scalars'
        /\ IsMonitor(monitor')
    BY <1>1, <2>1, StepRows, StepMonitor, StepScalars
  <2>3. paper_trades' \subseteq [leg : Legs, date : Days, action : Actions,
                                 qty : Nat \ {0}, state : States]
    <3>1. paper_trades' \subseteq TradeRow(Legs) /\ \A r \in paper_trades' : r.date \in Days
      BY <2>2 DEF IsTable, Dated
    <3> QED BY <3>1 DEF TradeRow
  <2>4. entry'.pc \in {"none", "place", "verify", "undo", "credit"}
    BY <2>1, EntryPhases
  <2>5. TypeOK'
    BY <2>2, <2>3, <2>4 DEF TypeOK, Scalars
  <2> QED BY <2>1, <2>2, <2>5 DEF CondorInv, CondorTypes
<1>2. CASE UNCHANGED vars
  BY <1>2 DEF vars, tables, history, CondorInv, CondorTypes, TypeOK, RowsInv, EntryInv,
     MonitorInv, DecideInv, WriteInv, CloseTicket, LockTicket, RollTicket
<1> QED BY <1>1, <1>2

\* The rows of a role whose legs but one are flat.
LEMMA RoleRows ==
  ASSUME NEW T, IsTable(T, Legs), NEW role, NEW x, Role(x) = role,
         \A l \in Legs : Role(l) = role /\ l # x => Held(T, l) = 0
  PROVE  NetQty({r \in T : Role(r.leg) = role}) = Held(T, x)
<1> DEFINE S == {r \in T : Role(r.leg) = role}
           A == RowsOf(S, x)
           B == S \ A
<1>1. A \in SUBSET T /\ B \in SUBSET T /\ A \cap B = {} /\ S = A \cup B
  BY DEF RowsOf
<1>2. A = RowsOf(T, x)
  BY DEF RowsOf
<1>3. ASSUME NEW l PROVE Held(B, l) = 0
  <2>1. CASE l # x /\ Role(l) = role
    <3>1. RowsOf(B, l) = RowsOf(T, l)
      BY <2>1 DEF RowsOf
    <3>2. Held(T, l) = 0
      <4>1. CASE l \in Legs
        BY <2>1, <4>1
      <4>2. CASE l \notin Legs
        BY <4>2, HeldOfNone DEF IsTable, TradeRow
      <4> QED BY <4>1, <4>2
    <3> QED BY <3>1, <3>2 DEF Held
  <2>2. CASE ~(l # x /\ Role(l) = role)
    <3>1. \A r \in B : r.leg # l
      BY <2>2 DEF RowsOf
    <3> QED BY <3>1, HeldOfNone
  <2> QED BY <2>1, <2>2
<1> HIDE DEF A, B, S
<1>4. IsTable(B, Legs)
  BY <1>1, FS_Subset DEF IsTable
<1>5. NetQty(B) = 0
  BY <1>3, <1>4, FlatRows
<1>6. /\ IsFiniteSet(A) /\ Amounts(A) /\ IsFiniteSet(B) /\ Amounts(B) /\ NetQty(A) \in Int
  BY <1>1, SomeRows
<1>7. NetQty(S) = NetQty(A) + NetQty(B)
  BY <1>1, <1>6, NetQtyUnion
<1> QED BY <1>2, <1>5, <1>6, <1>7 DEF Held, S

\* The rows of a role whose legs are all flat.
LEMMA FlatRole ==
  ASSUME NEW T, IsTable(T, Legs), NEW role,
         \A l \in Legs : Role(l) = role => Held(T, l) = 0
  PROVE  NetQty({r \in T : Role(r.leg) = role}) = 0
<1> DEFINE S == {r \in T : Role(r.leg) = role}
<1>1. ASSUME NEW l PROVE Held(S, l) = 0
  <2>1. CASE l \in Legs /\ Role(l) = role
    <3>1. RowsOf(S, l) = RowsOf(T, l)
      BY <2>1 DEF RowsOf
    <3> QED BY <2>1, <3>1 DEF Held
  <2>2. CASE ~(l \in Legs /\ Role(l) = role)
    <3>1. \A r \in S : r.leg # l
      BY <2>2 DEF IsTable, TradeRow
    <3> QED BY <3>1, HeldOfNone
  <2> QED BY <2>1, <2>2
<1>2. IsTable(S, Legs)
  BY FS_Subset DEF IsTable
<1> HIDE DEF S
<1>3. NetQty(S) = 0
  BY <1>1, <1>2, FlatRows
<1> QED BY <1>3 DEF S

\* The quantity of a role is that of its one live leg.
LEMMA RoleQuantity ==
  ASSUME IsTable(paper_trades, Legs), OneLot(paper_trades), OneRole(paper_trades),
         NEW side \in Sides
  PROVE  /\ NetOf("short", side) \in {0, -1} /\ NetOf("long", side) \in {0, 1}
         /\ NetOf("short", side) = -1 =>
              \E l \in LiveIn(paper_trades) : l.kind = "short" /\ l.side = side
         /\ Winged(paper_trades, side) => NetOf("long", side) = 1
<1> DEFINE T == paper_trades
<1>1. ASSUME NEW kind \in {"short", "long"}
      PROVE  \/ /\ NetOf(kind, side) = 0
                /\ \A l \in LiveIn(T) : ~(l.kind = kind /\ l.side = side)
             \/ /\ NetOf(kind, side) = IF kind = "long" THEN 1 ELSE -1
                /\ \E l \in LiveIn(T) : l.kind = kind /\ l.side = side
  <2> DEFINE role == <<kind, side>>
  <2>1. NetOf(kind, side) = NetQty({r \in T : Role(r.leg) = role})
    BY DEF NetOf
  <2>2. \A l : Role(l) = role <=> l.kind = kind /\ l.side = side
    BY DEF Role
  <2> HIDE DEF role
  <2>3. CASE \E l \in LiveIn(T) : Role(l) = role
    <3>1. PICK x \in LiveIn(T) : Role(x) = role
      BY <2>3
    <3>2. \A l \in Legs : Role(l) = role /\ l # x => Held(T, l) = 0
      BY <3>1 DEF OneRole, LiveIn
    <3>3. NetOf(kind, side) = Held(T, x)
      BY <2>1, <3>1, <3>2, RoleRows
    <3>4. x \in Legs /\ Held(T, x) = Lot(x) /\ x.kind = kind
      BY <2>2, <3>1 DEF LiveIn, OneLot
    <3>5. Lot(x) = IF kind = "long" THEN 1 ELSE -1
      BY <3>4, LegFields
    <3> QED BY <2>2, <3>1, <3>3, <3>4, <3>5
  <2>4. CASE \A l \in LiveIn(T) : Role(l) # role
    <3>1. \A l \in Legs : Role(l) = role => Held(T, l) = 0
      BY <2>4 DEF LiveIn
    <3>2. NetOf(kind, side) = 0
      BY <2>1, <3>1, FlatRole
    <3> QED BY <2>2, <2>4, <3>2
  <2> QED BY <2>3, <2>4
<1> QED BY <1>1 DEF Winged

-----------------------------------------------------------------------------
(* What the invariant says of the condor.                                  *)

\* Nothing has been traded and nothing runs.
LEMMA CondorStart ==
  ASSUME Init
  PROVE  CondorInv
<1>1. paper_trades = {} /\ entry = NoEntry /\ monitor = Down /\ today = 1
  BY DEF Init
<1>2. IsTable({}, Legs) /\ \A l : Held({}, l) = 0
  BY EmptyTable
<1>3. LiveIn(paper_trades) = {}
  BY <1>1, <1>2 DEF LiveIn
<1>4. /\ NoEntry.pc = "none" /\ Down.pc = "down"
  BY DEF NoEntry, Down
<1>5. TypeOK
  <2>1. /\ credit \in 0 .. MaxWork /\ cycle \in 0 .. MaxWork /\ batches \in 0 .. MaxWork
        /\ today \in Days /\ locks \in Nat
    BY CondorAssumption DEF Init, Days
  <2>2. /\ lock \in [zone : 0 .. 2, executed : BOOLEAN]
        /\ rolls \in [Sides -> Nat]
        /\ {interrupted, skipped, uncovered, reused, abandoned} \subseteq BOOLEAN
    <3>1. lock = [zone |-> 0, executed |-> FALSE]
      BY DEF Init, NoLock
    <3>2. 0 \in 0 .. 2
      OBVIOUS
    <3>3. lock \in [zone : 0 .. 2, executed : BOOLEAN]
      BY <3>1, <3>2
    <3>4. rolls \in [Sides -> Nat]
      BY DEF Init
    <3>5. {interrupted, skipped, uncovered, reused, abandoned} \subseteq BOOLEAN
      BY DEF Init
    <3> QED BY <3>3, <3>4, <3>5
  <2> QED BY <1>1, <1>4, <2>1, <2>2 DEF TypeOK, IsMonitor
<1>6. CondorTypes
  BY <1>1, <1>2, <1>5 DEF CondorTypes, IsEntry
<1>7. RowsInv
  BY <1>1, <1>2, <1>3 DEF RowsInv, OneLot, OneRole
<1>8. EntryInv
  BY <1>1, <1>3, <1>4 DEF EntryInv, Covered
<1>9. MonitorInv
  BY <1>1, <1>4 DEF MonitorInv
<1> QED BY <1>6, <1>7, <1>8, <1>9 DEF CondorInv

\* The properties of the rows follow from the invariant.
LEMMA CondorGives ==
  ASSUME CondorInv
  PROVE  NeverReversed /\ OneLegPerRole /\ LiveLegsAreOpen /\ ShortsAreCovered
<1> DEFINE T == paper_trades
<1>1. NeverReversed /\ OneLegPerRole /\ LiveLegsAreOpen
  BY NetIsHeld DEF CondorInv, RowsInv, OneLot, OneRole, Lot, NeverReversed, OneLegPerRole,
     LiveLegsAreOpen
<1>2. ShortsAreCovered
  <2> SUFFICES ASSUME entry = NoEntry, ~abandoned, ~uncovered, ~skipped, NEW side \in Sides
               PROVE  NetOf("short", side) + NetOf("long", side) >= 0
    BY DEF ShortsAreCovered
  <2>1. IsTable(T, Legs) /\ OneLot(T) /\ OneRole(T)
    BY DEF CondorInv, CondorTypes, RowsInv
  <2>2. Covered(T)
    BY DEF CondorInv, EntryInv, NoEntry
  <2> QED BY <2>1, <2>2, RoleQuantity DEF Covered
<1> QED BY <1>1, <1>2

\* Every step keeps the invariant, with the credit that is the condor's own: a
\* lock is only due for a condor that is not being built.
LEMMA CondorAlways == Spec => []CondorInv
<1>1. Init => CondorInv /\ CreditIsOwn
  BY CondorStart, CreditIsOwnInit
<1>2. CondorInv /\ CreditIsOwn /\ [Next]_vars => (CondorInv /\ CreditIsOwn)'
  BY CondorStep, CreditIsOwnStep
<1> QED
  BY <1>1, <1>2, PTL DEF Spec

\* Every variable holds values the program can hold; no counter passes its bound.
THEOREM CondorTyped == Spec => []TypeOK
<1>1. CondorInv => TypeOK
  BY DEF CondorInv, CondorTypes
<1> QED
  BY <1>1, CondorAlways, PTL

\* A short always has its wing, whatever the order in which the entry script
\* and the monitor place, undo, roll, lock and close, with the excuses the
\* property names.
THEOREM CondorShortsAreCovered == Spec => []ShortsAreCovered
<1>1. CondorInv => ShortsAreCovered
  BY CondorGives
<1> QED
  BY <1>1, CondorAlways, PTL

\* No leg is traded past flat or beyond its one lot, although the script
\* compensates and the monitor closes the same legs.
THEOREM CondorNeverReversed == Spec => []NeverReversed
<1>1. CondorInv => NeverReversed
  BY CondorGives
<1> QED
  BY <1>1, CondorAlways, PTL

\* A role is held in one instrument, which is what apply_action relies on when
\* it picks the leg of a role.
THEOREM CondorOneLegPerRole == Spec => []OneLegPerRole
<1>1. CondorInv => OneLegPerRole
  BY CondorGives
<1> QED
  BY <1>1, CondorAlways, PTL

\* The marks of closed legs never hide a live one from the settlement.
THEOREM CondorLiveLegsAreOpen == Spec => []LiveLegsAreOpen
<1>1. CondorInv => LiveLegsAreOpen
  BY CondorGives
<1> QED
  BY <1>1, CondorAlways, PTL

-----------------------------------------------------------------------------
(* The cash-secured put beside the condor.                                 *)

\* A behaviour of the two is one of the put: the condor leaves the put alone.
LEMMA PutBehaviour == CondorPutSpec => Csp!Spec
<1>1. CondorPutInit => Csp!Init
  BY DEF CondorPutInit
<1>2. [CondorPutNext]_<<vars, csp, running>> => [Csp!Next]_Csp!vars
  BY DEF CondorPutNext, csp, Csp!vars
<1> QED
  BY <1>1, <1>2, PTL DEF CondorPutSpec, Csp!Spec

\* The put's variables hold values the program can hold.
THEOREM PutTyped == CondorPutSpec => []CspTypeOK
<1>1. Csp!Spec => []Csp!CspTypeOK
  BY CspAssumption, Csp!CspTyped
<1> QED
  BY <1>1, PutBehaviour, PTL DEF CspTypeOK

\* There are never two lots or two puts short.
THEOREM PutOneLive == CondorPutSpec => []OneLivePut
<1>1. Csp!Spec => []Csp!OneLivePut
  BY CspAssumption, Csp!CspOneLivePut
<1> QED
  BY <1>1, PutBehaviour, PTL DEF OneLivePut

\* An entered put is rolled defensively once.
THEOREM PutNoSecondRoll == CondorPutSpec => []NoSecondRoll
<1>1. Csp!Spec => []Csp!NoSecondRoll
  BY CspAssumption, Csp!CspNoSecondRoll
<1> QED
  BY <1>1, PutBehaviour, PTL DEF NoSecondRoll

\* The state a delta breach is judged by is that of the live put.
THEOREM PutStateIsOwn == CondorPutSpec => []TradeStateIsOwn
<1>1. Csp!Spec => []Csp!TradeStateIsOwn
  BY CspAssumption, Csp!CspTradeStateIsOwn
<1> QED
  BY <1>1, PutBehaviour, PTL DEF TradeStateIsOwn
=============================================================================
