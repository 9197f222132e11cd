---------------------------- MODULE MCCondorPut ----------------------------
(***************************************************************************)
(* Small instances of IronCondor and CspRoll.  They are rows of different  *)
(* strategies and tasks that share nothing, so a behaviour is one of the   *)
(* one or of the other; the one that does not run keeps its initial state. *)
(* Three put strikes give the condor's put side a strike to roll to, two   *)
(* call strikes give the call side none; the puts of CspRoll are           *)
(* interchangeable.                                                        *)
(***************************************************************************)
EXTENDS IronCondor, TLC

CONSTANTS Puts, PutDays, MaxSells

ASSUME CspAssumption == PutDays \in Nat \ {0} /\ MaxSells \in Nat

VARIABLES
    put_trades, sells, putDay, putDaemon, roll, defences, putInterrupted,
    overtaken, putSkipped,
    running   \* the strategy this behaviour is about

\* CspRoll with its theorems.
Csp == INSTANCE CspRollProofs WITH
    LastDay <- PutDays, paper_trades <- put_trades, today <- putDay,
    daemon <- putDaemon, interrupted <- putInterrupted, skipped <- putSkipped

csp == <<put_trades, sells, putDay, putDaemon, roll, defences,
         putInterrupted, overtaken, putSkipped>>

CondorPutInit ==
    /\ Init
    /\ Csp!Init
    /\ running \in {"condor", "csp"}

CondorPutNext ==
    \/ /\ running = "condor"
       /\ Next
       /\ UNCHANGED <<csp, running>>
    \/ /\ running = "csp"
       /\ Csp!Next
       /\ UNCHANGED <<vars, running>>

CondorPutSpec == CondorPutInit /\ [][CondorPutNext]_<<vars, csp, running>>

PutSymmetry == Permutations(Puts)

-----------------------------------------------------------------------------
\* The put's variables hold values the program can hold.
CspTypeOK == Csp!CspTypeOK

\* The strategy never has two lots or two puts short, unless another process
\* wrote while an action ran or a trade was dropped as a duplicate.
OneLivePut == Csp!OneLivePut

\* An entered put is rolled defensively once.
NoSecondRoll == Csp!NoSecondRoll

\* The state a delta breach is judged by is that of the live put.
TradeStateIsOwn == Csp!TradeStateIsOwn
=============================================================================
