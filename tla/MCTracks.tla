------------------------------ MODULE MCTracks ------------------------------
(***************************************************************************)
(* Small instances of SignalTrack, CalendarCycle and GammaScan.  They      *)
(* share no table rows and no process state, so a behaviour is one of one  *)
(* of the three; those that do not run keep their initial state.           *)
(***************************************************************************)
EXTENDS SignalTrack, TLC

CONSTANTS
    Strikes, Wings, CycleLength, HardHold, ExitDte, BreachWindow, FinalDay,
    MaxPlans, MaxFailures,
    Directions, GammaStrikes, Expiries, GammaDays, LastEntry, ScanEnd,
    MaxSignals, GammaFaults

VARIABLES
    ledger, job, day, afternoon, plans, failures, cycleStart, upsets,
    gamma_trades, signal_log, scan, gammaDay, gammaClock, gammaUpsets,
    running   \* the track this behaviour is about

Calendar == INSTANCE CalendarInv

Gamma == INSTANCE GammaInv WITH
    Strikes <- GammaStrikes, LastDay <- GammaDays, Faults <- GammaFaults,
    paper_trades <- gamma_trades, today <- gammaDay, clock <- gammaClock,
    upsets <- gammaUpsets

ASSUME CalendarAssumption == Calendar!Policy

ASSUME GammaAssumption == Gamma!Timetable

calendar == <<ledger, job, day, afternoon, plans, failures, cycleStart, upsets>>
gamma == <<gamma_trades, signal_log, scan, gammaDay, gammaClock, gammaUpsets>>

TracksInit ==
    /\ Init
    /\ Calendar!Init
    /\ Gamma!Init
    /\ running \in {"signal", "calendar", "gamma"}

TracksNext ==
    \/ /\ running = "signal"
       /\ Next
       /\ UNCHANGED <<calendar, gamma, running>>
    \/ /\ running = "calendar"
       /\ Calendar!Next
       /\ UNCHANGED <<vars, gamma, running>>
    \/ /\ running = "gamma"
       /\ Gamma!Next
       /\ UNCHANGED <<vars, calendar, running>>

\* With the fairness of SignalTrack, for the behaviours that are about it.
TracksSpec ==
    /\ TracksInit
    /\ [][TracksNext]_<<vars, calendar, gamma, running>>
    /\ WF_vars(running = "signal" /\ StartDaemon)
    /\ WF_vars(running = "signal" /\ Tick(FALSE))
    /\ WF_vars(running = "signal" /\ RecordSell)
    /\ WF_vars(running = "signal" /\ CloseEntry)
    /\ WF_vars(running = "signal" /\ SquareOff)

-----------------------------------------------------------------------------
\* The types of the three; every signal entry and exit event is of a BUY row,
\* and no calendar leg is traded on the day its contract expires.
TracksTypeOK == TypeOK /\ Calendar!TypeOK /\ Gamma!TypeOK

\* The calendar holds nothing or one whole structure, unless a process died
\* between two legs, two opened at once, or a close was dropped as a duplicate.
WholeOrFlat == Calendar!WholeOrFlat

\* A calendar structure is governed by the plan of its own cycle, however often
\* it was re-centred, unless a re-centre left an earlier cycle without an end.
OwnPlan == Calendar!OwnPlan

\* The gamma ledger holds one lot of a contract for each of its open signals,
\* unless an operator traded it or an exit's SELL was dropped as a duplicate.
LogIsLedger == Gamma!LogIsLedger

\* One gamma position is open per direction, also when the signal log and the
\* ledger disagree.
OnePerDirection == Gamma!OnePerDirection

\* No open signal outlives its contract and blocks its direction for ever,
\* unless a scan that had to sell was missed or failed.
NoneOutlivesContract == Gamma!NoneOutlivesContract
=============================================================================
