--------------------------- MODULE CalendarCycle ---------------------------
(***************************************************************************)
(* The monthly Nifty calendar, src/strategy/nifty_calendar_v1.py: a four   *)
(* leg structure opened the day after a monthly expiry, re-centred or      *)
(* closed by the exit rule, and owned by no table: every tick rebuilds the *)
(* position, the cycle it belongs to and the plan of that cycle from       *)
(* paper_trades.  The monitor and the entry script are two processes, and  *)
(* each writes its legs one transaction at a time.                         *)
(*                                                                         *)
(* Every day is a trading day and expiries lie CycleLength days apart.     *)
(* Quotes, Greeks and P&L are abstracted to the decision they lead to.     *)
(***************************************************************************)
EXTENDS Integers, Sequences, FiniteSets, FiniteSetsExt

CONSTANTS
    Strikes,        \* strikes the selector may choose for the shorts
    Wings,          \* wing offsets it may choose
    CycleLength,    \* days from one monthly expiry to the next
    HardHold,       \* hard_hold_days
    ExitDte,        \* exit_by_dte
    BreachWindow,   \* breach_adjust_window_days
    FinalDay,       \* bound on the days
    MaxPlans,       \* bound on the entries planned
    MaxFailures     \* bound on the crashes

VARIABLES
    ledger,      \* the strategy's paper_trades
    job,         \* what each process is doing, and the legs it has left
    day,
    afternoon,   \* it is hard_exit_time_ist or later
    plans,       \* the entries planned so far
    failures,    \* the crashes so far
    cycleStart,  \* history: the day of the last fresh entry
    upsets       \* history: what has gone wrong so far

vars == <<ledger, job, day, afternoon, plans, failures, cycleStart, upsets>>

Processes == {"monitor", "script"}
Shorts == {"short_call", "short_put"}
ROLES == <<"short_call", "short_put", "long_call_wing", "long_put_wing">>
Roles == {ROLES[i] : i \in 1 .. 4}
Upsets == {"crash", "race", "dropped", "stranded"}

Rest == [doing |-> "rest", legs |-> <<>>, why |-> "entry"]

Init ==
    /\ ledger = {}
    /\ job = [p \in Processes |-> Rest]
    /\ day = 1
    /\ afternoon = FALSE
    /\ plans = 0
    /\ failures = 0
    /\ cycleStart = 0
    /\ upsets = {}

(***************************************************************************)
(* The cycle policy: entry on the day after an expiry, a hard exit that    *)
(* never lies inside the guard before the near expiry.                     *)
(***************************************************************************)
EntryWindow(d) == d % CycleLength = 1

NearExpiry(d) == d - 1 + CycleLength

HardExit(d) == Min({d + HardHold, NearExpiry(d) - (ExitDte + 1)})

(***************************************************************************)
(* What is rebuilt from the ledger.                                        *)
(***************************************************************************)
OpeningSide(leg) == IF leg.role \in Shorts THEN "SELL" ELSE "BUY"
ClosingSide(leg) == IF leg.role \in Shorts THEN "BUY" ELSE "SELL"

RowsOf(leg, action) == {r \in ledger : r.leg = leg /\ r.action = action}

\* get_positions: the legs whose net quantity is not zero.
Held ==
    {leg \in {r.leg : r \in ledger} :
        Cardinality(RowsOf(leg, "BUY")) # Cardinality(RowsOf(leg, "SELL"))}

Todays == {r \in ledger : r.date = day}

ShortCalls(action) == {r \in ledger : r.leg.role = "short_call" /\ r.action = action}

\* is_recentre_close: the note of a closing leg says so.
IsRecentreClose(r) == r.why = "recentre"

IsCloseTrade(r) == r.action = ClosingSide(r.leg)

\* cycle_entry_date: the day the shorts were sold, the last time each was.
EntryDate(legs) ==
    Min({Max({r.date : r \in RowsOf(leg, "SELL")}) : leg \in {l \in legs : l.role \in Shorts}})

\* Taking the newest sale for the origin.
CycleOriginNewest(entry) ==
    LET sold == {r \in ShortCalls("SELL") : r.date <= entry}
        origin == IF sold = {} THEN 0 ELSE Max({r.date : r \in sold})
    IN  IF origin # 0 /\ EntryWindow(origin) THEN origin ELSE 0

\* cycle_origin_date: the first short call sold after the last real close, if
\* that day is an entry window; 0 for none.
CycleOrigin(entry) ==
    LET closes == {r \in ShortCalls("BUY") : ~IsRecentreClose(r) /\ r.date <= entry}
        lastClose == IF closes = {} THEN 0 ELSE Max({r.date : r \in closes})
        sold == {r \in ShortCalls("SELL") : r.date <= entry /\ r.date > lastClose}
        origin == IF sold = {} THEN 0 ELSE Min({r.date : r \in sold})
    IN  IF origin # 0 /\ EntryWindow(origin) THEN origin ELSE 0

(***************************************************************************)
(* Entry.                                                                  *)
(***************************************************************************)
\* The day whose plan governs an entry today; 0 for none.
PlanDay == IF Todays # {} THEN CycleOrigin(day)
           ELSE IF EntryWindow(day) THEN day
           ELSE 0

\* The structure on a strike and a wing offset: the wings are of the far expiry,
\* which the near one determines.
Structure(strike, wing, near) ==
    LET key == <<strike, strike, strike + wing, strike - wing>>
    IN  [i \in 1 .. 4 |-> [role |-> ROLES[i], key |-> key[i], near |-> near]]

\* sold_short_strikes_on: shorts sold today, which a re-entry must not reuse.
SoldToday ==
    {r.leg.key : r \in {t \in Todays : t.leg.role \in Shorts /\ t.action = "SELL"}}

\* A plan that does not look at today's rows.
NoCollisions(legs) == {}

\* ledger_collisions: legs of a structure that are already traded today.
Collisions(legs) ==
    {i \in DOMAIN legs : \E r \in Todays : r.leg = legs[i] /\ r.action = OpeningSide(legs[i])}

\* The guards of plan_entry: no churn, one re-entry a day, a plan not yet due.
MayEnter ==
    /\ ~\E r \in Todays : IsCloseTrade(r) /\ ~IsRecentreClose(r)
    /\ Cardinality({r \in Todays : r.leg.role = "short_call" /\ IsRecentreClose(r)}) <= 1
    /\ PlanDay # 0
    /\ day < HardExit(PlanDay)

\* check_signals of a flat strategy in the monitor, run_entry in the script: the
\* script also wants today to be an entry window.
PlanEntry(p) ==
    /\ job[p] = Rest
    /\ Held = {}
    /\ p = "script" => EntryWindow(day)
    /\ MayEnter
    /\ plans < MaxPlans
    /\ plans' = plans + 1
    /\ \E strike \in Strikes, wing \in Wings :
          LET legs == Structure(strike, wing, NearExpiry(PlanDay))
          IN  /\ strike \notin SoldToday
              /\ Collisions(legs) = {}
              /\ job' = [job EXCEPT ![p] = [doing |-> "planned", legs |-> legs, why |-> "entry"]]
    /\ UNCHANGED <<ledger, day, afternoon, failures, cycleStart, upsets>>

\* _open_structure looks at the positions once more before it writes.
OpenStructure(p) ==
    /\ job[p].doing = "planned"
    /\ IF Held = {}
       THEN /\ job' = [job EXCEPT ![p].doing = "open"]
            /\ cycleStart' = IF Todays = {} THEN day ELSE cycleStart
            /\ upsets' = upsets \cup
                   (IF \E q \in Processes \ {p} : job[q].doing = "open" THEN {"race"} ELSE {})
       ELSE /\ job' = [job EXCEPT ![p] = Rest]
            /\ UNCHANGED <<cycleStart, upsets>>
    /\ UNCHANGED <<ledger, day, afternoon, plans, failures>>

\* record_trade drops a row that has the key of an existing one.
Record(leg, action, why) ==
    ledger' = IF \E r \in Todays : r.leg = leg /\ r.action = action
              THEN ledger
              ELSE ledger \cup {[leg |-> leg, date |-> day, action |-> action, why |-> why]}

AfterLeg(p) ==
    job' = [job EXCEPT ![p] =
        IF Len(@.legs) = 1 THEN Rest
        ELSE [doing |-> @.doing, legs |-> Tail(@.legs), why |-> @.why]]

OpenLeg(p) ==
    LET leg == Head(job[p].legs)
    IN  /\ job[p].doing = "open"
        /\ Record(leg, OpeningSide(leg), "entry")
        /\ AfterLeg(p)
        /\ UNCHANGED <<day, afternoon, plans, failures, cycleStart, upsets>>

(***************************************************************************)
(* Exit, in the monitor only.                                              *)
(***************************************************************************)
\* resolve_open_legs: one held leg for each role, or the structure is
\* incomplete and nothing is done but a warning.
Resolved == {legs \in SUBSET Held : Cardinality(legs) = 4 /\ {l.role : l \in legs} = Roles}

\* A hard exit that waits for the day after.
MustExitNextDay(origin) ==
    \/ NearExpiry(origin) - day <= ExitDte
    \/ day > HardExit(origin)

\* DTE_GUARD and TIME_EXIT under the plan of a day: they leave no choice.
MustExit(origin) ==
    \/ NearExpiry(origin) - day <= ExitDte
    \/ day > HardExit(origin)
    \/ day = HardExit(origin) /\ afternoon

\* What MonthlyExitRule.evaluate may ask for besides holding: a target or a
\* confirmed breach may come at any time.
Decisions(origin) ==
    IF MustExit(origin) THEN {"close"}
    ELSE {"close"} \cup (IF day - origin < BreachWindow THEN {"recentre"} ELSE {})

\* A plan waits for two chains at most, for less than the time between two
\* ticks: no structure is opened and closed while another plan is pending.
CloseStructure ==
    /\ job["monitor"] = Rest
    /\ job["script"].doing # "planned"
    /\ \E legs \in Resolved :
          LET origin == CycleOrigin(EntryDate(legs))
          IN  /\ origin # 0
              /\ \E why \in Decisions(origin) :
                    job' = [job EXCEPT !["monitor"] =
                        [doing |-> "close",
                         legs |-> [i \in 1 .. 4 |-> CHOOSE l \in legs : l.role = ROLES[i]],
                         why |-> why]]
    /\ UNCHANGED <<ledger, day, afternoon, plans, failures, cycleStart, upsets>>

\* What cycle_origin_date takes for the end of a cycle.
EndsCycle(leg, why) == why = "close" /\ leg.role = "short_call"

CloseLeg ==
    LET leg == Head(job["monitor"].legs)
        why == job["monitor"].why
    IN  /\ job["monitor"].doing = "close"
        /\ Record(leg, ClosingSide(leg), why)
        /\ upsets' =
               IF ledger' = ledger THEN upsets \cup {"dropped"}
               ELSE IF EndsCycle(leg, why) THEN upsets \ {"stranded"} ELSE upsets
        /\ AfterLeg("monitor")
        /\ UNCHANGED <<day, afternoon, plans, failures, cycleStart>>

(***************************************************************************)
(* Crashes and the clock.                                                  *)
(***************************************************************************)
\* A process dies between two legs; nothing remembers what it was doing.
Crash(p) ==
    /\ job[p].doing \in {"open", "close"}
    /\ failures < MaxFailures
    /\ failures' = failures + 1
    /\ job' = [job EXCEPT ![p] = Rest]
    /\ upsets' = upsets \cup {"crash"}
    /\ UNCHANGED <<ledger, day, afternoon, plans, cycleStart>>

Afternoon ==
    /\ ~afternoon
    /\ afternoon' = TRUE
    /\ UNCHANGED <<ledger, job, day, plans, failures, cycleStart, upsets>>

\* The re-centred structure was not entered again the same day.
Stranded == Held = {} /\ \E r \in Todays : IsRecentreClose(r) /\ IsCloseTrade(r)

\* The monitor ticks until the session ends, so an exit that is due is made.
ExitDue == \E legs \in Resolved :
    LET origin == CycleOrigin(EntryDate(legs)) IN origin # 0 /\ MustExit(origin)

NextDay ==
    /\ afternoon
    /\ ~ExitDue
    /\ day < FinalDay
    /\ \A p \in Processes : job[p] = Rest
    /\ day' = day + 1
    /\ afternoon' = FALSE
    /\ upsets' = upsets \cup (IF Stranded THEN {"stranded"} ELSE {})
    /\ UNCHANGED <<ledger, job, plans, failures, cycleStart>>

Next ==
    \/ \E p \in Processes :
          \/ PlanEntry(p)
          \/ OpenStructure(p)
          \/ OpenLeg(p)
          \/ Crash(p)
    \/ CloseStructure
    \/ CloseLeg
    \/ Afternoon
    \/ NextDay

Spec == Init /\ [][Next]_vars

-----------------------------------------------------------------------------
Leg == [role : Roles, key : Int, near : CycleLength .. FinalDay + CycleLength]

\* Type correctness; no row is of a contract on its last day.
TypeOK ==
    /\ \A r \in ledger :
          /\ r.leg \in Leg
          /\ r.date \in 1 .. day /\ r.date < r.leg.near
          /\ r.action \in {"BUY", "SELL"}
          /\ r.why \in {"entry", "recentre", "close"}
    /\ \A p \in Processes :
          /\ job[p].doing \in {"rest", "planned", "open", "close"}
          /\ Len(job[p].legs) <= 4
          /\ \A i \in DOMAIN job[p].legs : job[p].legs[i] \in Leg
          /\ job[p].why \in {"entry", "recentre", "close"}
    /\ day \in 1 .. FinalDay
    /\ afternoon \in BOOLEAN
    /\ plans \in 0 .. MaxPlans
    /\ failures \in 0 .. MaxFailures
    /\ cycleStart \in 0 .. FinalDay
    /\ upsets \subseteq Upsets

Resting == \A p \in Processes : job[p] = Rest

\* WholeOrFlat: between jobs the strategy holds nothing or one structure of four
\* legs, unless a process died between two legs, both processes opened at once,
\* or a second close of the same leg on one day was dropped by the unique key.
WholeOrFlat ==
    Resting /\ upsets \cap {"crash", "race", "dropped"} = {} =>
        Held = {} \/ Held \in Resolved

\* OwnPlan: a whole structure is governed by the plan of the cycle it was entered
\* in, however often it was re-centred, unless an earlier cycle ended in a
\* re-centre without a re-entry, so that the ledger shows no end of it, or both
\* processes opened at once.
OwnPlan ==
    Resting /\ upsets \cap {"stranded", "race"} = {} =>
        \A legs \in Resolved : CycleOrigin(EntryDate(legs)) = cycleStart
=============================================================================
