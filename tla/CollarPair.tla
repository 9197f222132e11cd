----------------------------- MODULE CollarPair -----------------------------
(***************************************************************************)
(* The collar overlay: a short call and a long put, entered, closed and    *)
(* re-entered as a pair.                                                   *)
(*                                                                         *)
(* During the session the monitor closes the pair on a signal and, after   *)
(* some awaits, enters a new one (CollarOverlayV1).  After the session the *)
(* snapshot script turns a signal on the call into an exit event and       *)
(* closes the pair (auto_close_overlay, OverlayCloser.close_collar_all).   *)
(* The entry script may run at any time.  All of them write both legs in   *)
(* one record_trades batch, whose trades are skipped one by one when today *)
(* already has a trade of that leg and side.  Cron starts the snapshot     *)
(* when the daemon is down.  Every entry is one lot.                       *)
(***************************************************************************)
EXTENDS PaperTrades, FiniteSetsExt

CONSTANTS
    Calls,     \* instruments of leg overlay_collar_call
    Puts,      \* instruments of leg overlay_collar_put
    Signals,   \* exit signals of AUTO_CLOSE_SIGNALS for the call
    LastDay,   \* bound: the days explored
    MaxOpens   \* bound: the opening trades explored

PairLegs == Calls \cup Puts
Days == 1 .. LastDay

VARIABLES
    paper_trades,  \* rows of the two legs
    exit_events,   \* rows of paper_exit_events the snapshot created
    today,
    daemon,        \* "up" or "down"
    tick,          \* what the monitor's apply_action is doing
    cron,          \* what the snapshot script is doing
    skipped,       \* history: some trade of a batch was skipped
    overtaken      \* history: an entry came while another process was closing

ledger == <<paper_trades, skipped>>
vars == <<paper_trades, exit_events, today, daemon, tick, cron, skipped,
          overtaken>>

Idle == [pc |-> "idle"]

Trades ==
    [leg : PairLegs, date : Days, action : Actions, qty : Nat \ {0}, state : States]

\* closes are the closing trades built from the positions that were read.
IsTick(t) ==
    /\ t.pc \in {"close", "mark", "reenter"}
    /\ t.closes \subseteq Trades
    /\ t.to_mark \subseteq PairLegs

Statuses == {"OPEN", "ACTED", "DISMISSED"}
ExitEvents == [call : Calls, signal : Signals, date : Days, status : Statuses]

IsSnapshot(s) ==
    /\ s.pc \in {"scan", "read", "close", "failed", "mark", "resolve"}
    /\ s.seen \subseteq Calls
    /\ s.event \subseteq s.existing /\ s.existing \subseteq Calls \X Signals
    /\ s.closes \subseteq Trades
    /\ s.to_mark \subseteq PairLegs

OpeningSide(l) == IF l \in Calls THEN "SELL" ELSE "BUY"
Open(l) == Trade(l, today, OpeningSide(l), 1)

MayOpen ==
    Cardinality({r \in paper_trades : r.action = OpeningSide(r.leg)}) + 2 <= MaxOpens

\* get_positions.
Net(l) == NetQty(RowsOf(paper_trades, l))
LiveCalls == {c \in Calls : Net(c) < 0}
LivePuts == {p \in Puts : Net(p) > 0}

\* The close of all that is held.
Close(l) == Trade(l, today, Opposite(OpeningSide(l)), Magnitude(Net(l)))

\* get_position of a role: of several live legs, one entered last.
EntryDate(l) ==
    Max({r.date : r \in {t \in paper_trades : t.leg = l /\ t.action = OpeningSide(l)}})
Newest(S) == {l \in S : \A k \in S : EntryDate(k) <= EntryDate(l)}

\* At most one of S, and none only when S is empty.
PickOf(S) == IF S = {} THEN {{}} ELSE {{l} : l \in S}

Record(trades) ==
    /\ paper_trades' = RecordTrades(paper_trades, trades)
    /\ skipped' = (skipped \/ Inserted(paper_trades, trades) # trades)

\* The legs of those trades that the batch did insert.
InsertedLegs(trades) == {t.leg : t \in Inserted(paper_trades, trades)}

\* The call is marked before the put.
NextToMark(l, to_mark) == l \in to_mark /\ (l \in Puts => to_mark \cap Calls = {})

Init ==
    /\ paper_trades = {}
    /\ exit_events = {}
    /\ today = 1
    /\ daemon = "down"
    /\ tick = Idle
    /\ cron = Idle
    /\ skipped = FALSE
    /\ overtaken = FALSE

-----------------------------------------------------------------------------
(* paper_3track_overlay_entry.py --auto-collar.                            *)

\* An entry script without its bootstrap gate.
EnterPairUngated(c, p) ==
    /\ MayOpen
    /\ Record({Open(c), Open(p)})
    /\ overtaken' = (overtaken \/ tick # Idle \/ cron # Idle)
    /\ UNCHANGED <<exit_events, today, daemon, tick, cron>>

\* Refused while a collar put is live; what record_trades skipped is logged.
EnterPair(c, p) ==
    /\ MayOpen
    /\ LivePuts = {}
    /\ Record({Open(c), Open(p)})
    /\ overtaken' = (overtaken \/ tick # Idle \/ cron # Idle)
    /\ UNCHANGED <<exit_events, today, daemon, tick, cron>>

-----------------------------------------------------------------------------
(* The monitor: CollarOverlayV1.                                           *)

\* The positions of a tick, and an ACTION signal on them; without a short
\* call there is none.
Signal(c) ==
    /\ daemon = "up"
    /\ tick = Idle
    /\ c \in LiveCalls
    /\ \E put \in PickOf(LivePuts) :
         tick' = [pc |-> "close", closes |-> {Close(l) : l \in {c} \cup put},
                  to_mark |-> {}]
    /\ UNCHANGED <<ledger, exit_events, today, daemon, cron, overtaken>>

\* Closing only the leg the signal names.
CloseNamedLeg ==
    /\ tick.pc = "close"
    /\ LET closes == {t \in tick.closes : t.leg \in Calls}
       IN  /\ Record(closes)
           /\ tick' = [tick EXCEPT !.to_mark = InsertedLegs(closes),
                         !.pc = IF InsertedLegs(closes) = {} THEN "reenter"
                                ELSE "mark"]
    /\ UNCHANGED <<exit_events, today, daemon, cron, overtaken>>

\* Going on to the marks when nothing was inserted.
CloseBothLegsAlwaysMark ==
    /\ tick.pc = "close"
    /\ Record(tick.closes)
    /\ tick' = [tick EXCEPT !.to_mark = InsertedLegs(tick.closes), !.pc = "mark"]
    /\ UNCHANGED <<exit_events, today, daemon, cron, overtaken>>

\* _close_both_legs: the batch; only what was inserted is marked, and a close
\* that was skipped does not stop the re-entry.
CloseBothLegs ==
    /\ tick.pc = "close"
    /\ Record(tick.closes)
    /\ tick' = [tick EXCEPT !.to_mark = InsertedLegs(tick.closes),
                  !.pc = IF InsertedLegs(tick.closes) = {} THEN "reenter"
                         ELSE "mark"]
    /\ UNCHANGED <<exit_events, today, daemon, cron, overtaken>>

MarkClosedLeg(l) ==
    /\ tick.pc = "mark"
    /\ NextToMark(l, tick.to_mark)
    /\ paper_trades' = MarkTradeClosed(paper_trades, l)
    /\ tick' = [tick EXCEPT !.to_mark = @ \ {l},
                  !.pc = IF tick.to_mark = {l} THEN "reenter" ELSE "mark"]
    /\ UNCHANGED <<exit_events, today, daemon, cron, skipped, overtaken>>

\* _reenter_collar, after its selection's awaits.
Reenter(c, p) ==
    /\ tick.pc = "reenter"
    /\ MayOpen
    /\ Record({Open(c), Open(p)})
    /\ tick' = Idle
    /\ UNCHANGED <<exit_events, today, daemon, cron, overtaken>>

\* No chain for the close, a write that raised, or no candidate to re-enter.
TickGivesUp ==
    /\ tick # Idle
    /\ tick' = Idle
    /\ UNCHANGED <<ledger, exit_events, today, daemon, cron, overtaken>>

-----------------------------------------------------------------------------
(* The snapshot script: compute_and_record_exit_signals and its auto-close. *)

\* The positions, and today's OPEN events, for which nothing is done again.
StartSnapshot ==
    /\ daemon = "down"
    /\ cron = Idle
    /\ cron' = [pc |-> "scan", seen |-> LiveCalls, event |-> {},
                existing |-> {<<e.call, e.signal>> : e \in
                   {x \in exit_events : x.status = "OPEN" /\ x.date = today}},
                closes |-> {}, to_mark |-> {}]
    /\ UNCHANGED <<ledger, exit_events, today, daemon, tick, overtaken>>

\* create_exit_event for a signal on a call read at the start.
CreateExitEvent(c, s) ==
    /\ cron.pc = "scan"
    /\ c \in cron.seen
    /\ <<c, s>> \notin cron.existing
    /\ exit_events' = exit_events \cup
         {[call |-> c, signal |-> s, date |-> today, status |-> "OPEN"]}
    /\ cron' = [cron EXCEPT !.pc = "read", !.event = {<<c, s>>},
                  !.existing = @ \cup {<<c, s>>}]
    /\ UNCHANGED <<ledger, today, daemon, tick, overtaken>>

\* resolve_exit_event_with_audit; an OPEN event of this day is unique.
Resolved(status) ==
    {IF <<e.call, e.signal>> \in cron.event /\ e.date = today /\ e.status = "OPEN"
       THEN [e EXCEPT !.status = status] ELSE e : e \in exit_events}

\* close_collar_all reads both legs again.
ReadPair ==
    /\ cron.pc = "read"
    /\ \/ /\ LiveCalls \cup LivePuts = {}
          /\ exit_events' = Resolved("DISMISSED")
          /\ cron' = [cron EXCEPT !.pc = "scan"]
       \/ /\ LiveCalls \cup LivePuts # {}
          /\ \E call \in PickOf(Newest(LiveCalls)), put \in PickOf(Newest(LivePuts)) :
               cron' = [cron EXCEPT !.pc = "close",
                          !.closes = {Close(l) : l \in call \cup put}]
          /\ UNCHANGED exit_events
    /\ UNCHANGED <<ledger, today, daemon, tick, overtaken>>

\* Not looking at what was skipped.
WritePairUnchecked ==
    /\ cron.pc = "close"
    /\ Record(cron.closes)
    /\ cron' = [cron EXCEPT !.to_mark = {t.leg : t \in cron.closes}, !.pc = "mark"]
    /\ UNCHANGED <<exit_events, today, daemon, tick, overtaken>>

\* The batch commits; only then does a skipped trade raise.
WritePair ==
    /\ cron.pc = "close"
    /\ Record(cron.closes)
    /\ cron' = IF Inserted(paper_trades, cron.closes) = cron.closes
                 THEN [cron EXCEPT !.to_mark = {t.leg : t \in cron.closes},
                         !.pc = "mark"]
                 ELSE [cron EXCEPT !.pc = "failed"]
    /\ UNCHANGED <<exit_events, today, daemon, tick, overtaken>>

\* close_collar_all returns False: AUTO-CLOSE FAILED is sent, the event
\* stays OPEN.
ReportFailure ==
    /\ cron.pc = "failed"
    /\ cron' = [cron EXCEPT !.pc = "scan"]
    /\ UNCHANGED <<ledger, exit_events, today, daemon, tick, overtaken>>

MarkWrittenLeg(l) ==
    /\ cron.pc = "mark"
    /\ NextToMark(l, cron.to_mark)
    /\ paper_trades' = MarkTradeClosed(paper_trades, l)
    /\ cron' = [cron EXCEPT !.to_mark = @ \ {l},
                  !.pc = IF cron.to_mark = {l} THEN "resolve" ELSE "mark"]
    /\ UNCHANGED <<exit_events, today, daemon, tick, skipped, overtaken>>

ResolveActed ==
    /\ cron.pc = "resolve"
    /\ exit_events' = Resolved("ACTED")
    /\ cron' = [cron EXCEPT !.pc = "scan"]
    /\ UNCHANGED <<ledger, today, daemon, tick, overtaken>>

\* No price for a leg, or a store call that raised.
AutoCloseFails ==
    /\ cron.pc \in {"read", "close", "mark", "resolve"}
    /\ cron' = [cron EXCEPT !.pc = "scan", !.to_mark = {}]
    /\ UNCHANGED <<ledger, exit_events, today, daemon, tick, overtaken>>

\* The script ends or dies.
EndSnapshot ==
    /\ cron # Idle
    /\ cron' = Idle
    /\ UNCHANGED <<ledger, exit_events, today, daemon, tick, overtaken>>

-----------------------------------------------------------------------------
StartDaemon ==
    /\ daemon = "down"
    /\ cron = Idle
    /\ daemon' = "up"
    /\ UNCHANGED <<ledger, exit_events, today, tick, cron, overtaken>>

\* Shutdown or crash, possibly in the middle of an action.
DaemonEnds ==
    /\ daemon = "up"
    /\ daemon' = "down"
    /\ tick' = Idle
    /\ UNCHANGED <<ledger, exit_events, today, cron, overtaken>>

NextDay ==
    /\ daemon = "down"
    /\ cron = Idle
    /\ today < LastDay
    /\ today' = today + 1
    /\ UNCHANGED <<ledger, exit_events, daemon, tick, cron, overtaken>>

Next ==
    \/ \E c \in Calls, p \in Puts : EnterPair(c, p) \/ Reenter(c, p)
    \/ \E c \in Calls : Signal(c)
    \/ CloseBothLegs
    \/ TickGivesUp
    \/ \E l \in PairLegs : MarkClosedLeg(l) \/ MarkWrittenLeg(l)
    \/ StartSnapshot
    \/ \E c \in Calls, s \in Signals : CreateExitEvent(c, s)
    \/ ReadPair \/ WritePair \/ ReportFailure \/ ResolveActed
    \/ AutoCloseFails \/ EndSnapshot
    \/ StartDaemon \/ DaemonEnds \/ NextDay

Spec == Init /\ [][Next]_vars

-----------------------------------------------------------------------------
(* Correctness                                                             *)

\* Every variable holds values the program can hold, and a closer is marking
\* legs exactly while it has legs to mark.
CollarTypeOK ==
    /\ paper_trades \subseteq Trades
    /\ exit_events \subseteq ExitEvents
    /\ today \in Days
    /\ daemon \in {"up", "down"}
    /\ tick # Idle =>
         IsTick(tick) /\ (tick.pc = "mark" <=> tick.to_mark # {})
    /\ cron # Idle =>
         IsSnapshot(cron) /\ (cron.pc = "mark" <=> cron.to_mark # {})
    /\ {skipped, overtaken} \subseteq BOOLEAN

Whole == LiveCalls = {} <=> LivePuts = {}

\* A short call is never left without its put, nor a put without its call,
\* by a crash, a failed write or a failed re-entry, nor by any number of entries
\* and closes: it takes a batch of which one trade was skipped as a duplicate,
\* or an entry script that ran in the middle of a close (of the two collars
\* that then live, one may later be re-entered with a leg of the other).
PartialOnlyByDuplicate == ~skipped /\ ~overtaken => Whole

\* The entry script's gate and the close before each re-entry keep a single
\* pair, as long as no close was dropped as a duplicate and the entry script
\* did not run between a close and its re-entry.
OnePair ==
    ~skipped /\ ~overtaken =>
      Cardinality(LiveCalls) <= 1 /\ Cardinality(LivePuts) <= 1

\* An exit event becomes ACTED only when the call it names is flat, even if
\* the pair was closed and re-entered on the same day before the snapshot.
\* It needs a snapshot that saw a single live call: of two, get_position may
\* pick the one the event does not name.
ActedIsFlat ==
    [][\A e \in exit_events' \ exit_events :
         e.status = "ACTED" /\ cron.seen = {e.call} /\ ~overtaken =>
           e.call \notin LiveCalls]_vars

\* "A partial collar (put without call or call without put) is never
\* permitted at the entry/close layer", and close_collar_all and the entry
\* script call their batch atomic: while no action is under way, the pair is
\* whole.
NeverPartial == tick = Idle /\ cron = Idle => Whole
==============================================================================
