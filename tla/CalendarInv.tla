----------------------------- MODULE CalendarInv -----------------------------
(***************************************************************************)
(* The inductive invariant of CalendarCycle: what the ledger and the jobs  *)
(* of the two processes have to do with each other.                        *)
(***************************************************************************)
EXTENDS CalendarCycle, FiniteSetTheorems, TLAPS

\* A cycle has a day to hold, and the plan leaves before its near expiry.
Policy ==
    /\ CycleLength \in Nat \ {0, 1}
    /\ HardHold \in Nat /\ ExitDte \in Nat
    /\ FinalDay \in Nat \ {0}
    /\ MaxPlans \in Nat /\ MaxFailures \in Nat
    /\ Strikes \in SUBSET Int /\ Wings \in SUBSET Int

\* The near expiry of what is traded on day d: the next one after it.
NextAfter(near, d) == near % CycleLength = 0 /\ d < near /\ near < d + CycleLength

Doing(p, what) == job[p].doing = what

Reasons == {"entry", "recentre", "close"}
Row == [leg : Leg, date : Nat, action : {"BUY", "SELL"}, why : Reasons]
Job == [doing : {"rest", "planned", "open", "close"}, legs : Seq(Leg), why : Reasons]

\* The types.  What is traded is of the next expiry, and so is what a process is
\* about to trade.
Types ==
    /\ IsFiniteSet(ledger)
    /\ ledger \subseteq Row
    /\ \A r \in ledger : r.date \in 1 .. day /\ NextAfter(r.leg.near, r.date)
    /\ job \in [Processes -> Job]
    /\ \A p \in Processes :
          IF Doing(p, "rest") THEN job[p] = Rest
          ELSE /\ Len(job[p].legs) \in 1 .. 4
               /\ \A i \in 1 .. Len(job[p].legs) : NextAfter(job[p].legs[i].near, day)
    /\ ~Doing("script", "close")
    /\ day \in 1 .. FinalDay
    /\ afternoon \in BOOLEAN
    /\ plans \in 0 .. MaxPlans
    /\ failures \in 0 .. MaxFailures
    /\ cycleStart \in 0 .. FinalDay
    /\ upsets \subseteq Upsets

\* All that is held is of one expiry, which is still ahead when a process trades
\* it or the exit rule can see it.
NearInv ==
    /\ \A l, m \in Held : l.near = m.near
    /\ \A p \in Processes : job[p].doing \in {"open", "close"} =>
          \A l \in Held : NextAfter(l.near, day)
    /\ \A legs \in Resolved : CycleOrigin(EntryDate(legs)) # 0 =>
          \A l \in legs : NextAfter(l.near, day)

\* A leg is flat, or was opened once more than it was closed.
Balanced ==
    \A l \in Leg :
        LET opened == Cardinality(RowsOf(l, OpeningSide(l)))
            closed == Cardinality(RowsOf(l, ClosingSide(l)))
        IN  opened = closed \/ opened = closed + 1

OnePerRole == \A l, m \in Held : l.role = m.role => l = m

\* Held are the legs of the first n roles, one each.
FirstRoles(n) ==
    /\ OnePerRole
    /\ \A l \in Held : \E i \in 1 .. n : l.role = ROLES[i]
    /\ \A i \in 1 .. n : \E l \in Held : l.role = ROLES[i]

\* The legs a job has left are those of the last roles.
LastRoles(p) ==
    LET legs == job[p].legs
    IN  \A i \in 1 .. Len(legs) : legs[i].role = ROLES[4 - Len(legs) + i]

\* The opening row of a leg that is still to be opened is not there yet today.
Untraded(p) ==
    \A i \in 1 .. Len(job[p].legs) :
        ~\E r \in ledger : /\ r.date = day /\ r.leg = job[p].legs[i]
                           /\ r.action = OpeningSide(job[p].legs[i])

Waits(p) == job[p].doing \in {"rest", "planned"}

NoRace == "race" \notin upsets

\* Unless both opened at once: what is held is one leg of a role, a plan that is
\* not overtaken is still a good one, and a process that opens or closes is the
\* only one.  What it has opened is of today, and what it has left to close is
\* held.
Orderly ==
    /\ Balanced
    /\ OnePerRole
    /\ \A p \in Processes : ~Doing(p, "rest") => LastRoles(p)
    /\ \A p \in Processes : Doing(p, "planned") =>
          Len(job[p].legs) = 4 /\ (Held # {} \/ (Untraded(p) /\ MayEnter))
    /\ \A p \in Processes : Doing(p, "open") =>
          /\ FirstRoles(4 - Len(job[p].legs))
          /\ Untraded(p)
          /\ \A l \in Held : \E r \in RowsOf(l, OpeningSide(l)) : r.date = day
          /\ \A q \in Processes \ {p} : Waits(q)
    /\ Doing("monitor", "close") =>
          /\ \A i \in 1 .. Len(job["monitor"].legs) : job["monitor"].legs[i] \in Held
          /\ Doing("script", "rest")
          /\ job["monitor"].why # "entry"

OrderInv == NoRace => Orderly

\* If nothing else went wrong either, a close leaves nothing behind, and what is
\* held between two jobs is whole.
Whole ==
    /\ Doing("monitor", "close") =>
          Held = {job["monitor"].legs[i] : i \in 1 .. Len(job["monitor"].legs)}
    /\ (\A p \in Processes : Waits(p)) => Held = {} \/ FirstRoles(4)

Good == upsets \cap {"crash", "race", "dropped"} = {}

WholeInv == Good => Whole

\* The shorts that are held were sold last.
SoldLast ==
    \A l \in Held : l.role \in Shorts =>
        \E r \in RowsOf(l, "SELL") :
            \A s \in ledger : s.leg.role \in Shorts /\ s.action = "SELL" => s.date <= r.date

RealCloses == {r \in ShortCalls("BUY") : ~IsRecentreClose(r)}

\* Every sale of a short call was ended by a real close.
AllEnded == \A s \in ShortCalls("SELL") : \E c \in RealCloses : s.date <= c.date

\* The cycle that began on cycleStart is the last one, and goes on: every sale
\* before it was ended, and none of its own.
CycleGoesOn ==
    /\ cycleStart \in 1 .. day /\ EntryWindow(cycleStart)
    /\ \A c \in RealCloses : c.date < cycleStart
    /\ \A s \in ShortCalls("SELL") :
          s.date < cycleStart => \E c \in RealCloses : s.date <= c.date

SoldAtStart == \E s \in ShortCalls("SELL") : s.date = cycleStart

RecentredToday == \E r \in Todays : IsRecentreClose(r) /\ IsCloseTrade(r)

CallHeld == \E l \in Held : l.role = "short_call"

Opens == \E p \in Processes : Doing(p, "open")

\* No re-centre was left without a re-entry, and both never opened at once.
Continuous == upsets \cap {"stranded", "race"} = {}

\* A call that is held is of the cycle that goes on.  When it is not held any
\* more, the cycle was ended or is re-centred today, which NextDay makes a
\* stranded one; what is about to be sold continues it or begins the next.
OwnInv ==
    Continuous =>
        /\ CallHeld => CycleGoesOn /\ SoldAtStart
        /\ ~CallHeld /\ (Held = {} \/ Doing("monitor", "close")) =>
              IF Opens
              THEN /\ CycleGoesOn
                   /\ \/ AllEnded /\ cycleStart = day
                      \/ SoldAtStart /\ RecentredToday
              ELSE AllEnded \/ (CycleGoesOn /\ SoldAtStart /\ RecentredToday)

CycleInv == (NoRace => SoldLast) /\ OwnInv

Inv == Types /\ NearInv /\ OrderInv /\ WholeInv /\ CycleInv
=============================================================================
