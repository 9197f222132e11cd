------------------------------ MODULE GammaInv ------------------------------
(***************************************************************************)
(* The inductive invariant of GammaScan: what the table, the signal log    *)
(* and the scan in progress know of each other.                            *)
(***************************************************************************)
EXTENDS GammaScan, PaperTradesProofs

\* A contract is always listed ahead, and the last scans of an expiry day come
\* after the last entries; cron fires at the even instants.
Timetable ==
    /\ LastDay \in Nat \ {0}
    /\ Expiries \in SUBSET Nat
    /\ \A d \in 1 .. LastDay : \E e \in Expiries : d <= e
    /\ LastEntry \in Nat /\ ScanEnd \in Nat /\ ScanEnd % 2 = 0
    /\ LastEntry + 2 <= ScanEnd

Position == [leg : Contract, day : 1 .. LastDay]
Scan == [pc : {"scan"}, now : 1 .. ScanEnd, quoted : SUBSET Contract,
         enter : SUBSET Contract, exit : SUBSET Position]

\* The types, the key of the table, and the instants at which cron fires.
Types ==
    /\ TypeOK
    /\ scan \in {Idle, Cron} \cup Scan
    /\ clock % 2 = 0
    /\ IsTable(paper_trades, Contract)
    /\ \A r \in paper_trades : r.date <= r.leg.expiry

\* A signal of the log has its BUY in the table, whose key makes it the only one
\* of its contract and day, and the gate makes an open one the only one of its
\* direction.
LogInv ==
    /\ \A s \in signal_log : \E r \in paper_trades :
         r.leg = s.leg /\ r.date = s.day /\ r.action = "BUY"
    /\ \A s, t \in signal_log : s.leg = t.leg /\ s.day = t.day => s = t
    /\ \A s, t \in OpenSignals : s.leg.dir = t.leg.dir => s = t

\* The scan in progress read the clock when cron started it, and what it has
\* still to look at is still open: nobody else exits a signal.
ScanInv ==
    scan.pc = "scan" =>
        /\ scan.now = clock + 1
        /\ \A c \in scan.quoted : c.expiry = Expiry
        /\ scan.enter \subseteq scan.quoted
        /\ scan.enter # {} => scan.now <= LastEntry
        /\ \A p \in scan.exit : \E s \in OpenSignals : s.leg = p.leg /\ s.day = p.day

\* Without an operator, one lot at most is held of a contract and one contract
\* of a direction; an open signal that has not expired holds its lot, and unless
\* a SELL was dropped no other contract is held.
HeldInv ==
    "hand" \notin upsets =>
        /\ \A l \in Contract : Net(l) \in {0, 1}
        /\ \A a, b \in Contract : a.dir = b.dir /\ Net(a) # 0 /\ Net(b) # 0 => a = b
        /\ \A s \in OpenSignals : s.leg.expiry >= today => Net(s.leg) = 1
        /\ "swallowed" \notin upsets =>
             \A l \in Contract : l.expiry >= today /\ Net(l) # 0 =>
                 \E s \in OpenSignals : s.leg = l

\* As long as no scan that had to sell was missed or failed, what is open on its
\* last day was not yet due at the last scan that is done, and the scan in
\* progress will still look at it if it is due now.
SoldInv ==
    "blind" \notin upsets =>
        \A s \in OpenSignals :
            /\ s.leg.expiry >= today
            /\ s.leg.expiry = today =>
                 /\ scan = Idle => clock < LastEntry
                 /\ scan = Cron => clock < LastEntry + 2
                 /\ scan.pc = "scan" => \/ clock < LastEntry
                                        \/ [leg |-> s.leg, day |-> s.day] \in scan.exit

Inv == Types /\ LogInv /\ ScanInv /\ HeldInv /\ SoldInv
=============================================================================
