----------------------------- MODULE GammaScan -----------------------------
(***************************************************************************)
(* The near-expiry gamma strategy, scripts/gamma_scan.py.  Every few       *)
(* minutes of the last two days before an expiry, cron starts a scan: it   *)
(* reads the open positions from gamma_signal_log, awaits the chain, buys  *)
(* at most one option per direction and sells what the exit rules say.     *)
(* A position is a row of the signal log and a leg of paper_trades, and    *)
(* the two are written together.  The daemon's expiry settlement and an    *)
(* operator write the ledger meanwhile, and know nothing of the log.       *)
(*                                                                         *)
(* Cron fires at the even instants of a day, and a scan reads the clock an *)
(* instant after it was started.  What the signal stack and the price      *)
(* rules decide is left open; one lot is bought at a time.                 *)
(***************************************************************************)
EXTENDS PaperTrades, FiniteSetsExt

CONSTANTS
    Directions,   \* option types: calls and puts
    Strikes,
    Expiries,     \* days on which the weekly contracts expire
    LastDay,      \* bound on the days; every day is a trading day
    LastEntry,    \* 14:30, the last entry and the time stop of the last day
    ScanEnd,      \* 15:00, the last scan and the time stop of the day before
    MaxSignals,   \* bound on the positions opened
    Faults        \* those of "blind", "raise" and "hand" that may happen

VARIABLES
    paper_trades,  \* rows of the strategy
    signal_log,    \* the filled rows of gamma_signal_log
    scan,          \* what the process that holds the lock is doing
    today,
    clock,         \* the cron instant that was reached last
    upsets         \* history: what has gone wrong so far

vars == <<paper_trades, signal_log, scan, today, clock, upsets>>

Contract == [dir : Directions, strike : Strikes, expiry : Expiries]

Idle == [pc |-> "idle"]
Cron == [pc |-> "cron"]

Init ==
    /\ paper_trades = {}
    /\ signal_log = {}
    /\ scan = Cron
    /\ today = 1
    /\ clock = 0
    /\ upsets = {}

Net(leg) == NetQty(RowsOf(paper_trades, leg))

\* net_qty, of a leg role: of all contracts of a direction together.
NetOf(table, dir) == NetQty({r \in table : r.leg.dir = dir})

\* get_open_signal_positions.
OpenSignals == {s \in signal_log : ~s.exited}

-----------------------------------------------------------------------------
(* One scan.                                                               *)

Reading == clock + 1

\* resolve_expiries: the next expiry, today included.
Expiry == Min({e \in Expiries : e >= today})
DaysToExpiry == Expiry - today

\* run_scan's early returns but the chain: outside the session's scans, or
\* farther than a day from the expiry.
Gated == Reading > ScanEnd \/ DaysToExpiry > 1

\* E3, the time stop, of what is left unless it is carried with a profit.
TimeStop(now, dte, profit) ==
    \/ dte = 0 /\ now >= LastEntry
    \/ dte = 1 /\ now >= ScanEnd /\ ~profit

\* A missed scan is an upset when it is one that must exit.
Blind == IF TimeStop(Reading, DaysToExpiry, FALSE) THEN {"blind"} ELSE {}

SkipScan ==
    /\ scan = Cron
    /\ Gated
    /\ scan' = Idle
    /\ UNCHANGED <<paper_trades, signal_log, today, clock, upsets>>

\* Cron did not run it, the chain could not be fetched, or the last scan still
\* holds the lock.
MissScan ==
    /\ scan = Cron
    /\ "blind" \in Faults
    /\ scan' = Idle
    /\ upsets' = upsets \cup Blind
    /\ UNCHANGED <<paper_trades, signal_log, today, clock>>

\* Trading whenever a signal fires, whatever the time.
EntryWindowAlways(now) == TRUE

EntryWindow(now) == now <= LastEntry

\* The positions are read once; the contracts that the chain quotes and the BOD
\* file resolves are evaluated, and the best of a direction may be chosen.
StartScan ==
    /\ scan = Cron
    /\ ~Gated
    /\ \E quoted \in SUBSET {c \in Contract : c.expiry = Expiry},
          chosen \in SUBSET {c \in Contract : c.expiry = Expiry} :
         /\ "blind" \in Faults \/ quoted = {c \in Contract : c.expiry = Expiry}
         /\ chosen \subseteq quoted
         /\ \A a, b \in chosen : a.dir = b.dir => a = b
         /\ chosen # {} => EntryWindow(Reading) /\ Cardinality(signal_log) < MaxSignals
         /\ scan' = [pc |-> "scan", now |-> Reading, quoted |-> quoted,
                     enter |-> chosen,
                     exit |-> {[leg |-> s.leg, day |-> s.day] : s \in OpenSignals}]
    /\ UNCHANGED <<paper_trades, signal_log, today, clock, upsets>>

\* A check of the log alone.
BlockedByLog(dir) == \E s \in OpenSignals : s.leg.dir = dir

\* A position of the direction is open, in the log or in the ledger.
Blocked(dir) ==
    \/ \E s \in OpenSignals : s.leg.dir = dir
    \/ NetOf(paper_trades, dir) # 0

OpenSignal(leg) == [leg |-> leg, day |-> today, exited |-> FALSE, profit |-> FALSE]

\* Taking the BUY for filled although the table dropped it.
EnterUnchecked(leg) ==
    /\ scan.pc = "scan" /\ leg \in scan.enter
    /\ scan' = [scan EXCEPT !.enter = @ \ {leg}]
    /\ IF Blocked(leg.dir)
         THEN UNCHANGED <<paper_trades, signal_log>>
         ELSE /\ paper_trades' = RecordTrade(paper_trades, Trade(leg, today, "BUY", 1))
              /\ signal_log' = signal_log \cup {OpenSignal(leg)}
    /\ UNCHANGED <<today, clock, upsets>>

\* _atomic_entry: the check, the BUY and the log row in one transaction.
Enter(leg) ==
    LET buy == Trade(leg, today, "BUY", 1)
        filled == ~Blocked(leg.dir) /\ ~Duplicate(paper_trades, buy)
    IN  /\ scan.pc = "scan" /\ leg \in scan.enter
        /\ scan' = [scan EXCEPT !.enter = @ \ {leg}]
        /\ IF filled
             THEN /\ paper_trades' = RecordTrade(paper_trades, buy)
                  /\ signal_log' = signal_log \cup {OpenSignal(leg)}
             ELSE UNCHANGED <<paper_trades, signal_log>>
        /\ UNCHANGED <<today, clock, upsets>>

\* It raised and was rolled back; the scan goes on.
EnterFails(leg) ==
    /\ "raise" \in Faults
    /\ scan.pc = "scan" /\ leg \in scan.enter
    /\ scan' = [scan EXCEPT !.enter = @ \ {leg}]
    /\ UNCHANGED <<paper_trades, signal_log, today, clock, upsets>>

\* Exits follow the entries.
Exiting(p) == scan.pc = "scan" /\ scan.enter = {} /\ p \in scan.exit
Of(p) == CHOOSE s \in signal_log : s.leg = p.leg /\ s.day = p.day
Quoted(p) == p.leg \in scan.quoted
Done(p) == [scan EXCEPT !.exit = @ \ {p}]
Due(p, profit) == TimeStop(scan.now, p.leg.expiry - today, profit)

\* close_long: the SELL, and the mark of the contract's rows when the leg role
\* is flat.
CloseLong(leg) ==
    LET sold == RecordTrade(paper_trades, Trade(leg, today, "SELL", 1))
    IN  IF NetOf(sold, leg.dir) = 0 THEN MarkTradeClosed(sold, leg) ELSE sold

\* _atomic_exit: a price rule fires or the time stop is due.  The log row is
\* exited also when the SELL was the duplicate of an earlier one.
Exit(p) ==
    /\ Exiting(p) /\ Quoted(p)
    /\ paper_trades' = CloseLong(p.leg)
    /\ signal_log' = (signal_log \ {Of(p)}) \cup {[Of(p) EXCEPT !.exited = TRUE]}
    /\ scan' = Done(p)
    /\ upsets' = upsets \cup
         (IF Duplicate(paper_trades, Trade(p.leg, today, "SELL", 1))
            THEN {"swallowed"} ELSE {})
    /\ UNCHANGED <<today, clock>>

\* No rule fires at a bid that is, or is not, worth carrying overnight; the log
\* keeps the marks, of which the last one before the expiry day matters here.
Hold(p) ==
    /\ Exiting(p) /\ Quoted(p)
    /\ \E profit \in BOOLEAN :
         /\ ~Due(p, profit)
         /\ signal_log' = (signal_log \ {Of(p)}) \cup {[Of(p) EXCEPT
              !.profit = IF today < p.leg.expiry THEN profit ELSE @]}
    /\ scan' = Done(p)
    /\ UNCHANGED <<paper_trades, today, clock, upsets>>

\* The contract has no quote, or its exit raised and was rolled back.
Unexited(p) ==
    /\ Exiting(p)
    /\ ~Quoted(p) \/ "raise" \in Faults
    /\ scan' = Done(p)
    /\ upsets' = upsets \cup (IF Due(p, FALSE) THEN {"blind"} ELSE {})
    /\ UNCHANGED <<paper_trades, signal_log, today, clock>>

EndScan ==
    /\ scan.pc = "scan" /\ scan.enter = {} /\ scan.exit = {}
    /\ scan' = Idle
    /\ UNCHANGED <<paper_trades, signal_log, today, clock, upsets>>

\* The process dies: the transaction it was in is rolled back.
ScanDies ==
    /\ "raise" \in Faults
    /\ scan.pc = "scan"
    /\ scan' = Idle
    /\ upsets' = upsets \cup (IF scan.exit = {} THEN {} ELSE Blind)
    /\ UNCHANGED <<paper_trades, signal_log, today, clock>>

-----------------------------------------------------------------------------
(* Other writers of the ledger, and the clock.                             *)

\* The daemon's startup settles what has expired, dated at its expiry.
Settle(leg) ==
    LET trade == Trade(leg, leg.expiry, IF Net(leg) > 0 THEN "SELL" ELSE "BUY",
                       Magnitude(Net(leg)))
    IN  /\ leg.expiry < today
        /\ Net(leg) # 0
        /\ HasOpenRow(paper_trades, leg)
        /\ ~Duplicate(paper_trades, trade)
        /\ paper_trades' = MarkTradeClosed(RecordTrade(paper_trades, trade), leg)
        /\ UNCHANGED <<signal_log, scan, today, clock, upsets>>

\* record_paper_trade.py, as the strategy's document shows it: open a leg, or
\* close what is held of it.
Operator(leg) ==
    /\ "hand" \in Faults
    /\ "hand" \notin upsets
    /\ leg.expiry = Expiry
    /\ LET held == Net(leg)
           trade == IF held = 0 THEN Trade(leg, today, "BUY", 1)
                    ELSE Trade(leg, today, IF held > 0 THEN "SELL" ELSE "BUY",
                               Magnitude(held))
       IN  /\ ~Duplicate(paper_trades, trade)
           /\ paper_trades' = IF held = 0 THEN RecordTrade(paper_trades, trade)
                ELSE MarkTradeClosed(RecordTrade(paper_trades, trade), leg)
    /\ upsets' = upsets \cup {"hand"}
    /\ UNCHANGED <<signal_log, scan, today, clock>>

\* The next run of cron, up to the one at the end of the scans.
NextCron ==
    /\ scan = Idle
    /\ clock < ScanEnd
    /\ clock' = clock + 2
    /\ scan' = Cron
    /\ UNCHANGED <<paper_trades, signal_log, today, upsets>>

NextDay ==
    /\ scan = Idle
    /\ clock >= ScanEnd
    /\ today < LastDay
    /\ today' = today + 1
    /\ clock' = 0
    /\ scan' = Cron
    /\ UNCHANGED <<paper_trades, signal_log, upsets>>

Next ==
    \/ SkipScan \/ MissScan \/ StartScan \/ EndScan \/ ScanDies
    \/ \E leg \in Contract :
         Enter(leg) \/ EnterFails(leg) \/ Settle(leg) \/ Operator(leg)
    \/ \E p \in [leg : Contract, day : 1 .. LastDay] :
         Exit(p) \/ Hold(p) \/ Unexited(p)
    \/ NextCron \/ NextDay

Spec == Init /\ [][Next]_vars

-----------------------------------------------------------------------------
(* Correctness                                                             *)

\* Every variable holds values the program can hold.
TypeOK ==
    /\ paper_trades \subseteq [leg : Contract, date : 1 .. LastDay,
                               action : Actions, qty : Nat \ {0}, state : States]
    /\ signal_log \subseteq [leg : Contract, day : 1 .. LastDay,
                             exited : BOOLEAN, profit : BOOLEAN]
    /\ \/ scan \in {Idle, Cron}
       \/ /\ scan.pc = "scan" /\ scan.now \in 1 .. ScanEnd
          /\ scan.enter \subseteq scan.quoted /\ scan.quoted \subseteq Contract
          /\ scan.exit \subseteq [leg : Contract, day : 1 .. LastDay]
    /\ today \in 1 .. LastDay
    /\ clock \in 0 .. ScanEnd
    /\ upsets \subseteq {"blind", "swallowed", "hand"}

\* The two halves of a position agree: of every contract the ledger holds one
\* lot for each open signal, through crashes, failed exits and restarts, until
\* it expires; unless an operator traded it or an exit's SELL was dropped as a
\* duplicate.
LogIsLedger ==
    upsets \cap {"hand", "swallowed"} = {} =>
        \A leg \in Contract : leg.expiry >= today =>
            Net(leg) = Cardinality({s \in OpenSignals : s.leg = leg})

\* "Max concurrent positions: 2 (one CE, one PE ...)": of a direction one signal
\* is open at most and one contract held, also when the log and the ledger have
\* come to disagree, unless an operator bought a second one.
OnePerDirection ==
    \A dir \in Directions :
        /\ Cardinality({s \in OpenSignals : s.leg.dir = dir}) <= 1
        /\ "hand" \notin upsets =>
             Cardinality({leg \in Contract : leg.dir = dir /\ Net(leg) # 0}) <= 1

\* A signal that was never exited blocks its direction for ever after its
\* contract has expired, so there is none: unless a scan that had to sell was
\* missed, did not see the contract, or failed.
NoneOutlivesContract ==
    "blind" \notin upsets => \A s \in OpenSignals : s.leg.expiry >= today

\* "DTE 1: Close by 15:00 unless mark >= 1.5 x entry ask": when no scan is
\* missed, what is held overnight was worth carrying when it was last marked before the night.
OvernightIsCarried == \A s \in OpenSignals : s.day < today => s.profit
=============================================================================
