---------------------------- MODULE SignalTrack ----------------------------
(***************************************************************************)
(* The signals paper track, src/strategy/signal_track_v1.py over its       *)
(* tables in src/paper/store.py.  A morning pipeline decides the option of *)
(* the day and opens one long position; a manual script may do the same    *)
(* from the stored signal; the monitor daemon sells it on a price level or *)
(* at 15:00; an evening job pairs the entry with its exit.  They are four  *)
(* processes and meet only in the database: every store call is one        *)
(* transaction, and other processes run between two calls.                 *)
(*                                                                         *)
(* Prices, marks, messages and the shadow series are abstracted: a tick    *)
(* either hits a level or does not.                                        *)
(***************************************************************************)
EXTENDS Integers, Sequences, FiniteSets, FiniteSetsExt

CONSTANTS
    Options,      \* the instruments a signal can recommend
    NoTrade,      \* the consensus that recommends none
    LastDay,      \* bound on the days
    MaxCrashes,   \* bound on the crashes of the daemon
    Faults        \* those of "crash", "blind" and "raise" that may happen

ASSUME SignalAssumption ==
    /\ IsFiniteSet(Options)
    /\ LastDay \in Nat \ {0}
    /\ MaxCrashes \in Nat

Days == 1 .. LastDay
Openers == {"morning", "manual"}
Sides == {"BUY", "SELL"}

\* Rows are unique in leg, date and action, which bounds their number.
MaxRows == Cardinality(Options) * LastDay * 2

VARIABLES
    paper_trades,  \* the rows of the track; the id of a row is its index
    entries,       \* paper_signal_entries, by trade_id
    exit_events,   \* the trade ids with a row in paper_exit_events
    signal,        \* the option daily_signals holds for today
    opener,        \* the progress of each process in open_signal_paper_entry
    monitor,       \* the daemon: "down", at "rest", about to "sell" or "close"
    fired,         \* _exit_fired_trade_ids, in the daemon's memory
    today,
    late,          \* it is 15:00 or later
    crashes,
    soldBy,        \* history: which entry inserted which SELL row
    overtaken,     \* history: an entry was opened after one with a larger id
    swallowed      \* history: an exit's SELL was the duplicate of another entry's

tables == <<paper_trades, entries, exit_events>>
clock == <<today, late>>
history == <<soldBy, overtaken, swallowed>>
vars == <<tables, signal, opener, monitor, fired, clock, crashes, history>>

Idle == [pc |-> "idle", leg |-> NoTrade, id |-> 0]

Init ==
    /\ paper_trades = <<>>
    /\ entries = {}
    /\ exit_events = {}
    /\ signal = NoTrade
    /\ opener = [o \in Openers |-> Idle]
    /\ monitor = [pc |-> "down", entry |-> 0]
    /\ fired = {}
    /\ today = 1
    /\ late = FALSE
    /\ crashes = 0
    /\ soldBy = {}
    /\ overtaken = FALSE
    /\ swallowed = FALSE

(***************************************************************************)
(* The tables.                                                             *)
(***************************************************************************)
Rows(leg, date, action) ==
    {i \in DOMAIN paper_trades :
        /\ paper_trades[i].leg = leg
        /\ paper_trades[i].date = date
        /\ paper_trades[i].action = action}

Sells == {i \in DOMAIN paper_trades : paper_trades[i].action = "SELL"}

IsClosed(e) == paper_trades[e].state = "CLOSED"

OpenEntries == {e \in entries : ~IsClosed(e)}

\* INSERT ... ON CONFLICT DO NOTHING, today.
InsertTrade(leg, action) ==
    paper_trades' =
        IF Rows(leg, today, action) # {}
        THEN paper_trades
        ELSE Append(paper_trades, [leg |-> leg, date |-> today, action |-> action, state |-> "OPEN"])

\* Taking the newest SELL for the exit.
SignalExitNewest(e) == IF e \in exit_events THEN Max(Sells) ELSE 0

\* get_signal_exit: the first SELL after the opening row, once an exit event
\* says that the position closed; 0 for none.
SignalExit(e) ==
    LET after == {i \in Sells : i > e}
    IN  IF e \in exit_events /\ after # {} THEN Min(after) ELSE 0

\* The evening job, run_record_phase, for a date: the first entry of the date
\* and its exit, if it has one by then.
LiveEntries(date) == {e \in entries : paper_trades[e].date = date}

Outcome(date) ==
    LET e == Min(LiveEntries(date))
    IN  [entry |-> e, sell |-> SignalExit(e)]

(***************************************************************************)
(* Opening.  The checks of open_signal_paper_entry come before the chain   *)
(* is fetched; the row and the entry are written after it, in two          *)
(* transactions.                                                           *)
(***************************************************************************)
\* The guards, up to the quote: actionable, in session, nothing open.
Consider(o, leg) ==
    /\ opener[o] = Idle
    /\ opener' = IF leg # NoTrade /\ ~late /\ OpenEntries = {}
                 THEN [opener EXCEPT ![o] = [Idle EXCEPT !.pc = "quoted", !.leg = leg]]
                 ELSE opener

\* The pipeline replaces today's signal, and may be run again by hand.
RunPipeline ==
    /\ \E option \in Options \cup {NoTrade} :
          /\ signal' = option
          /\ Consider("morning", option)
    /\ UNCHANGED <<tables, monitor, fired, clock, crashes, history>>

StartManual ==
    /\ signal # NoTrade
    /\ Consider("manual", signal)
    /\ UNCHANGED <<tables, signal, monitor, fired, clock, crashes, history>>

\* Returning the last row's id, whether or not the insert was a duplicate.
RecordOpenLegLast(o) ==
    /\ opener[o].pc = "quoted"
    /\ InsertTrade(opener[o].leg, "BUY")
    /\ opener' = [opener EXCEPT ![o].pc = "legged", ![o].id = Len(paper_trades')]
    /\ UNCHANGED <<entries, exit_events, signal, monitor, fired, clock, crashes, history>>

\* record_signal_open_leg returns the id of the row, new or found.
RecordOpenLeg(o) ==
    /\ opener[o].pc = "quoted"
    /\ InsertTrade(opener[o].leg, "BUY")
    /\ \E id \in DOMAIN paper_trades' :
          /\ paper_trades'[id].leg = opener[o].leg
          /\ paper_trades'[id].date = today
          /\ paper_trades'[id].action = "BUY"
          /\ opener' = [opener EXCEPT ![o].pc = "legged", ![o].id = id]
    /\ UNCHANGED <<entries, exit_events, signal, monitor, fired, clock, crashes, history>>

\* open_signal_entry raises when an entry is open or the trade has one already.
MayOpen(id) == OpenEntries = {} /\ id \notin entries

OpenEntry(o) ==
    /\ opener[o].pc = "legged"
    /\ MayOpen(opener[o].id)
    /\ entries' = entries \cup {opener[o].id}
    /\ overtaken' = (overtaken \/ \E e \in entries : e > opener[o].id)
    /\ opener' = [opener EXCEPT ![o] = Idle]
    /\ UNCHANGED <<paper_trades, exit_events, signal, monitor, fired, clock, crashes, soldBy, swallowed>>

EntryRefused(o) ==
    /\ opener[o].pc = "legged"
    /\ ~MayOpen(opener[o].id)
    /\ opener' = [opener EXCEPT ![o] = Idle]
    /\ UNCHANGED <<tables, signal, monitor, fired, clock, crashes, history>>

\* No leg, no quote, or the process dies; a recorded BUY stays behind.
OpenerStops(o) ==
    /\ opener[o] # Idle
    /\ opener' = [opener EXCEPT ![o] = Idle]
    /\ UNCHANGED <<tables, signal, monitor, fired, clock, crashes, history>>

(***************************************************************************)
(* The monitor.                                                            *)
(***************************************************************************)
StartDaemon ==
    /\ monitor.pc = "down"
    /\ monitor' = [monitor EXCEPT !.pc = "rest"]
    /\ UNCHANGED <<tables, signal, opener, fired, clock, crashes, history>>

\* get_open_signal_entry; an entry that has fired is left alone.
Watched == OpenEntries # {} /\ Max(OpenEntries) \notin fired

\* An exit rule without the time exit.
FiresOnLevel(hit) == hit

\* _process_leg: the price hits a level, or evaluate says TIME_EXIT.
Fires(hit) == hit \/ late

Tick(hit) ==
    /\ monitor.pc = "rest"
    /\ Watched
    /\ Fires(hit)
    /\ fired' = fired \cup {Max(OpenEntries)}
    /\ monitor' = [pc |-> "sell", entry |-> Max(OpenEntries)]
    /\ UNCHANGED <<tables, signal, opener, clock, crashes, history>>

\* _close_position, first call: record_trade of the SELL.
RecordSell ==
    LET e == monitor.entry
        leg == paper_trades[e].leg
        earlier == Rows(leg, today, "SELL")
    IN  /\ monitor.pc = "sell"
        /\ InsertTrade(leg, "SELL")
        /\ soldBy' = IF earlier = {} THEN soldBy \cup {<<e, Len(paper_trades')>>} ELSE soldBy
        /\ swallowed' = (swallowed \/ \E p \in soldBy : p[2] \in earlier /\ p[1] # e)
        /\ monitor' = [monitor EXCEPT !.pc = "close"]
        /\ UNCHANGED <<entries, exit_events, signal, opener, fired, clock, crashes, overtaken>>

\* Closing every open row of the strategy, whatever its instrument.
CloseEntryAnyLeg ==
    LET e == monitor.entry
    IN  /\ monitor.pc = "close"
        /\ paper_trades' = [i \in DOMAIN paper_trades |-> [paper_trades[i] EXCEPT !.state = "CLOSED"]]
        /\ exit_events' = exit_events \cup {e}
        /\ monitor' = [pc |-> "rest", entry |-> 0]
        /\ UNCHANGED <<entries, signal, opener, fired, clock, crashes, history>>

\* _close_position, second call: close_signal_entry closes the entry's row and
\* every open row of its leg, and logs the exit, in one transaction.
CloseEntry ==
    LET e == monitor.entry
    IN  /\ monitor.pc = "close"
        /\ paper_trades' = [i \in DOMAIN paper_trades |->
               IF i = e \/ paper_trades[i].leg = paper_trades[e].leg
               THEN [paper_trades[i] EXCEPT !.state = "CLOSED"]
               ELSE paper_trades[i]]
        /\ exit_events' = exit_events \cup {e}
        /\ monitor' = [pc |-> "rest", entry |-> 0]
        /\ UNCHANGED <<entries, signal, opener, fired, clock, crashes, history>>

\* Either call raises: _tick logs it and the loop goes on.
CallRaises ==
    /\ "raise" \in Faults
    /\ monitor.pc \in {"sell", "close"}
    /\ monitor' = [pc |-> "rest", entry |-> 0]
    /\ UNCHANGED <<tables, signal, opener, fired, clock, crashes, history>>

DaemonCrashes ==
    /\ "crash" \in Faults
    /\ monitor.pc # "down"
    /\ crashes < MaxCrashes
    /\ crashes' = crashes + 1
    /\ monitor' = [pc |-> "down", entry |-> 0]
    /\ fired' = {}
    /\ UNCHANGED <<tables, signal, opener, clock, history>>

(***************************************************************************)
(* The clock.                                                              *)
(***************************************************************************)
SquareOff ==
    /\ ~late
    /\ late' = TRUE
    /\ UNCHANGED <<tables, signal, opener, monitor, fired, today, crashes, history>>

\* The daemon ticks until 15:30 and starts again the next morning: unless it
\* was down or saw no price, it has left no entry unwatched.
NextDay ==
    /\ late
    /\ today < LastDay
    /\ \A o \in Openers : opener[o] = Idle
    /\ \/ monitor.pc = "down"
       \/ monitor.pc = "rest" /\ (Watched => "blind" \in Faults)
    /\ today' = today + 1
    /\ late' = FALSE
    /\ signal' = NoTrade
    /\ monitor' = [pc |-> "down", entry |-> 0]
    /\ fired' = {}
    /\ UNCHANGED <<tables, opener, crashes, history>>

Next ==
    \/ RunPipeline
    \/ StartManual
    \/ \E o \in Openers :
          \/ RecordOpenLeg(o)
          \/ OpenEntry(o)
          \/ EntryRefused(o)
          \/ OpenerStops(o)
    \/ StartDaemon
    \/ \E hit \in BOOLEAN : Tick(hit)
    \/ RecordSell
    \/ CloseEntry
    \/ CallRaises
    \/ DaemonCrashes
    \/ SquareOff
    \/ NextDay

\* The daemon is kept running and ticks, and the day reaches 15:00; no price
\* need ever hit a level.
Fairness ==
    /\ WF_vars(StartDaemon)
    /\ WF_vars(Tick(FALSE))
    /\ WF_vars(RecordSell)
    /\ WF_vars(CloseEntry)
    /\ WF_vars(SquareOff)

Spec == Init /\ [][Next]_vars /\ Fairness

-----------------------------------------------------------------------------
Trade == [leg : Options, date : Days, action : Sides, state : {"OPEN", "CLOSED"}]

\* Type correctness; every entry and every exit event is of a BUY row.
TypeOK ==
    /\ paper_trades \in Seq(Trade) /\ Len(paper_trades) <= MaxRows
    /\ entries \subseteq DOMAIN paper_trades \ Sells
    /\ exit_events \subseteq entries
    /\ signal \in Options \cup {NoTrade}
    /\ opener \in [Openers -> [pc : {"idle", "quoted", "legged"},
                               leg : Options \cup {NoTrade},
                               id : 0 .. MaxRows]]
    /\ monitor \in [pc : {"down", "rest", "sell", "close"}, entry : {0} \cup entries]
    /\ fired \subseteq entries
    /\ today \in Days
    /\ late \in BOOLEAN
    /\ crashes \in 0 .. MaxCrashes
    /\ soldBy \subseteq entries \X Sells
    /\ overtaken \in BOOLEAN
    /\ swallowed \in BOOLEAN

\* An exit repeated on a later day inserts a second SELL of the same entry.
SoldAgain == \E p, q \in soldBy : p[1] = q[1] /\ p # q

\* SellsPair: cumulative_pnl does not raise.  Closed entries and SELL rows are
\* as many, but for an entry whose exit stands between its two transactions,
\* unless an exit was repeated on a later day or swallowed as a duplicate.
SellsPair ==
    SoldAgain \/ swallowed \/
        Cardinality({e \in entries : IsClosed(e)})
            + Cardinality({e \in OpenEntries : \E p \in soldBy : p[1] = e})
          = Cardinality(Sells)

\* OutcomeIsOwn: the evening job, whenever it runs and for whichever date,
\* pairs an entry with its own exit, unless entries were opened out of the
\* order of their rows or an exit was swallowed.
OutcomeIsOwn ==
    overtaken \/ swallowed \/
        \A date \in {d \in Days : LiveEntries(d) # {}} :
            LET o == Outcome(date)
            IN  o.sell # 0 => <<o.entry, o.sell>> \in soldBy

\* SoldOnce: the comment of _close_position - if close_signal_entry raises, the
\* next tick fires again and the SELL it records is a duplicate, a no-op.
SoldOnce == ~SoldAgain

\* EntryCloses: an open position is sold by the 15:00 time exit at the latest,
\* through crashes and outages, unless a call of its exit raised: the entry has
\* fired then, and no tick of that day looks at it again.
EntryCloses ==
    OpenEntries # {} ~> OpenEntries = {} \/ (monitor.pc = "rest" /\ ~Watched)
=============================================================================
