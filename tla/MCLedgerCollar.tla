--------------------------- MODULE MCLedgerCollar ---------------------------
(***************************************************************************)
(* Small instances of PaperLedger and CollarPair.  They are about          *)
(* different rows of one table, so a behaviour is one of the one or of the *)
(* other; the one that does not run keeps its initial state.  The ledger   *)
(* has a short leg and a long leg with different expiries and two closers. *)
(***************************************************************************)
EXTENDS PaperLedger, TLC

CONSTANTS
    shortLeg, longLeg, monitor, worker,
    Calls, Puts, Signals, CollarDays, MaxOpens

ASSUME CollarAssumption ==
    /\ Calls \cap Puts = {}
    /\ CollarDays \in Nat \ {0} /\ MaxOpens \in Nat

MCOpenSide == shortLeg :> "SELL" @@ longLeg :> "BUY"
MCExpiry == shortLeg :> 2 @@ longLeg :> 3

VARIABLES
    collar_trades, exit_events, collarDay, collarDaemon, tick, cron,
    collarSkipped, collarOvertaken,
    running   \* what this behaviour is about

\* CollarPair with its theorems.
Collar == INSTANCE CollarPairProofs WITH
    LastDay <- CollarDays, paper_trades <- collar_trades, today <- collarDay,
    daemon <- collarDaemon, skipped <- collarSkipped,
    overtaken <- collarOvertaken

collar == <<collar_trades, exit_events, collarDay, collarDaemon, tick, cron,
            collarSkipped, collarOvertaken>>

LedgerCollarInit ==
    /\ Init
    /\ Collar!Init
    /\ running \in {"ledger", "collar"}

LedgerCollarNext ==
    \/ /\ running = "ledger"
       /\ Next
       /\ UNCHANGED <<collar, running>>
    \/ /\ running = "collar"
       /\ Collar!Next
       /\ UNCHANGED <<vars, running>>

LedgerCollarSpec ==
    LedgerCollarInit /\ [][LedgerCollarNext]_<<vars, collar, running>>

\* The closers do the same.
CloserSymmetry == Permutations(Closers)

-----------------------------------------------------------------------------
\* The collar's variables hold values the program can hold.
CollarTypeOK == Collar!CollarTypeOK

\* The collar is broken only by a batch of which one trade was skipped, or by
\* an entry that came while another process closed.
PartialOnlyByDuplicate == Collar!PartialOnlyByDuplicate

\* There is one collar, unless a trade was skipped or an entry came while
\* another process closed.
OnePair == Collar!OnePair

\* An exit event of the collar's call becomes ACTED only when the call is flat.
ActedIsFlat == Collar!ActedIsFlat
=============================================================================
