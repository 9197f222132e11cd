--------------------------- MODULE ApprovalsProofs ---------------------------
(***************************************************************************)
(* Approvals implements ApprovalLifecycle, for any rows, presses, stops.   *)
(***************************************************************************)
EXTENDS Approvals, TLAPS

Statuses == {"none", "PENDING", "EXPIRED"} \cup Decisions

\* The types the proof needs; the bounds of TypeOK on the presses taken are
\* not among them.
Types ==
    /\ pending_approvals \in [Requests -> Statuses]
    /\ executed \subseteq Requests
    /\ sending \subseteq Requests
    /\ updates \in Seq(Presses)
    /\ offset \in Nat /\ batch \in Nat /\ confirmed \in Nat
    /\ confirmed <= offset /\ offset <= batch /\ batch <= Len(updates)
    /\ handler \in Handlers

\* What a handler knows of its row between the lookup and its last write: the
\* row it found PENDING can only have expired, and the row it approved stays
\* approved and not yet executed.  Nobody else can decide a row, because the
\* gateway handles one press at a time.
HandlerView ==
    /\ handler.pc = "resolve" =>
         pending_approvals[handler.request] \in {"PENDING", "EXPIRED"}
    /\ handler.pc = "apply" =>
         /\ pending_approvals[handler.request] = "APPROVED"
         /\ handler.request \notin executed

\* Only approved rows were executed, and a row being sent is not in the table.
RowsView ==
    /\ \A r \in executed : pending_approvals[r] = "APPROVED"
    /\ \A r \in sending : pending_approvals[r] = "none"

IInv == Types /\ HandlerView /\ RowsView

-----------------------------------------------------------------------------
LEMMA InitIInv == Init => IInv
BY DEF Init, IInv, Types, HandlerView, RowsView, Statuses, Handlers, Idle, Nobody

LEMMA NextIInv == IInv /\ [Next]_vars => IInv'
<1> SUFFICES ASSUME IInv, [Next]_vars PROVE IInv'
  OBVIOUS
<1> USE DEF IInv, Types, HandlerView, RowsView, table, monitor, polling
<1>1. ASSUME NEW r \in Requests, SendRequest(r) PROVE IInv'
  BY <1>1 DEF SendRequest, Nobody
<1>2. ASSUME NEW r \in Requests, CreateApproval(r) PROVE IInv'
  BY <1>2 DEF CreateApproval, Nobody, Statuses, Handlers, Idle, Decisions
<1>3. ASSUME NEW r \in Requests, Overdue(r) PROVE IInv'
  BY <1>3 DEF Overdue
<1>4. ASSUME NEW p \in Presses, Press(p) PROVE IInv'
  BY <1>4 DEF Press
<1>5. CASE GetUpdates
  BY <1>5 DEF GetUpdates
<1>6. CASE HandlePress
  <2>1. updates[offset + 1] \in Presses
    BY <1>6 DEF HandlePress
  <2>2. CASE Lookup(updates[offset + 1])
    BY <1>6, <2>1, <2>2 DEF HandlePress, Lookup, Handlers, Presses
  <2>3. CASE ~Lookup(updates[offset + 1])
    BY <1>6, <2>3 DEF HandlePress, Handlers, Idle
  <2> QED BY <2>2, <2>3
<1>7. CASE Resolve
  BY <1>7 DEF Resolve, Statuses, Handlers, Idle, Decisions
<1>8. CASE ResolveFails
  BY <1>8 DEF ResolveFails, Handlers, Idle
<1>9. CASE Apply
  BY <1>9 DEF Apply, Handlers, Idle
<1>10. CASE ApplyFails
  BY <1>10 DEF ApplyFails, Handlers, Idle
<1>11. CASE ScanExpiredApprovals
  BY <1>11 DEF ScanExpiredApprovals, Expired, Pending, Statuses, Handlers, Idle
<1>12. CASE StartDaemon
  BY <1>12 DEF StartDaemon
<1>13. CASE Shutdown
  BY <1>13 DEF Shutdown, Handlers, Idle, Nobody
<1>14. CASE ExpireAll
  BY <1>14 DEF ExpireAll, Expired, Pending, Statuses, Handlers, Idle
<1>15. CASE Exit
  BY <1>15 DEF Exit
<1>16. CASE Crash
  BY <1>16 DEF Crash, Handlers, Idle, Nobody
<1>17. CASE CreateApprovalFails
  BY <1>17 DEF CreateApprovalFails, Nobody
<1>18. CASE ExpireAllFails
  BY <1>18 DEF ExpireAllFails
<1>19. CASE UNCHANGED vars
  BY <1>19 DEF vars
<1> QED BY <1>1, <1>2, <1>3, <1>4, <1>5, <1>6, <1>7, <1>8, <1>9, <1>10, <1>11,
           <1>12, <1>13, <1>14, <1>15, <1>16, <1>17, <1>18, <1>19 DEF Next

\* Every step of the daemon is a step of the lifecycle, or none.
LEMMA NextSimulation == IInv /\ [Next]_vars => [Lifecycle!Next]_Lifecycle!vars
<1> SUFFICES ASSUME IInv, [Next]_vars PROVE [Lifecycle!Next]_Lifecycle!vars
  OBVIOUS
<1> USE DEF IInv, Types, HandlerView, RowsView, table, monitor, polling,
            Lifecycle!vars
<1>1. ASSUME NEW r \in Requests, CreateApproval(r) PROVE Lifecycle!Request(r)
  BY <1>1 DEF CreateApproval, Lifecycle!Request
<1>2. CASE Resolve
  <2>1. handler.request \in Requests /\ handler.decision \in Decisions
    BY <1>2 DEF Resolve, Handlers, Idle
  <2>2. Lifecycle!Decide(handler.request, handler.decision)
    BY <1>2, <2>1 DEF Resolve, Lifecycle!Decide
  <2> QED BY <2>1, <2>2 DEF Lifecycle!Next, Decisions, Lifecycle!Decisions
<1>3. CASE Apply
  <2>1. handler.request \in Requests
    BY <1>3 DEF Apply, Handlers, Idle
  <2>2. Lifecycle!Execute(handler.request)
    BY <1>3, <2>1 DEF Apply, Lifecycle!Execute
  <2> QED BY <2>1, <2>2 DEF Lifecycle!Next
<1>4. CASE ScanExpiredApprovals
  <2>1. Lifecycle!Expire(Pending \cap overdue)
    BY <1>4 DEF ScanExpiredApprovals, Expired, Pending, Lifecycle!Expire
  <2>2. Pending \cap overdue \in SUBSET Requests
    BY DEF Pending
  <2> QED BY <2>1, <2>2 DEF Lifecycle!Next
<1>5. CASE ExpireAll
  <2>1. Lifecycle!Expire(Pending)
    BY <1>5 DEF ExpireAll, Expired, Pending, Lifecycle!Expire
  <2>2. Pending \in SUBSET Requests
    BY DEF Pending
  <2> QED BY <2>1, <2>2 DEF Lifecycle!Next
<1>6. CASE \/ \E r \in Requests : SendRequest(r) \/ Overdue(r)
           \/ \E p \in Presses : Press(p)
           \/ CreateApprovalFails
           \/ GetUpdates \/ HandlePress \/ ResolveFails \/ ApplyFails
           \/ StartDaemon \/ Shutdown \/ ExpireAllFails \/ Exit \/ Crash
           \/ UNCHANGED vars
  BY <1>6 DEF SendRequest, CreateApprovalFails, Overdue, Press, GetUpdates,
              HandlePress, ResolveFails, ApplyFails, StartDaemon, Shutdown,
              ExpireAllFails, Exit, Crash, vars
<1> QED BY <1>1, <1>2, <1>3, <1>4, <1>5, <1>6 DEF Next, Lifecycle!Next

LEMMA SpecIInv == Spec => []IInv
<1> QED BY InitIInv, NextIInv, PTL DEF Spec

\* A row is requested once, decided once and executed at most once, and only
\* after its approval: whatever the order of presses, redeliveries, scans,
\* shutdowns and crashes.
THEOREM ApprovalsImplementLifecycle == Spec => LifecycleSpec
<1>1. Init => Lifecycle!Init
  BY DEF Init, Lifecycle!Init
<1> QED BY <1>1, NextSimulation, SpecIInv, PTL DEF Spec, LifecycleSpec, Lifecycle!Spec

-----------------------------------------------------------------------------
(* Type correctness: what Types leaves out.                                *)

RestTypes ==
    /\ overdue \subseteq Requests
    /\ messages \subseteq Requests
    /\ linked \subseteq messages
    /\ daemon \in {"up", "stopping", "expired", "down"}
    /\ stops \in 0 .. MaxStops

LEMMA InitRestTypes == Init => RestTypes
BY ApprovalsAssumption DEF Init, RestTypes

LEMMA NextRestTypes == RestTypes /\ [Next]_vars => RestTypes'
<1> SUFFICES ASSUME RestTypes, [Next]_vars PROVE RestTypes'
  OBVIOUS
<1> USE ApprovalsAssumption DEF RestTypes, table, monitor, polling
<1>1. ASSUME NEW r \in Requests, SendRequest(r) PROVE RestTypes'
  BY <1>1 DEF SendRequest
<1>2. ASSUME NEW r \in Requests, CreateApproval(r) \/ Overdue(r)
      PROVE  RestTypes'
  BY <1>2 DEF CreateApproval, Overdue
<1>3. ASSUME NEW p \in Presses, Press(p) PROVE RestTypes'
  BY <1>3 DEF Press
<1>4. CASE Shutdown \/ Crash
  BY <1>4 DEF Shutdown, Crash
<1>5. CASE StartDaemon \/ ExpireAll \/ ExpireAllFails \/ Exit
  BY <1>5 DEF StartDaemon, ExpireAll, ExpireAllFails, Exit
<1>6. CASE \/ CreateApprovalFails \/ GetUpdates \/ HandlePress \/ Resolve
           \/ ResolveFails \/ Apply \/ ApplyFails \/ ScanExpiredApprovals
           \/ UNCHANGED vars
  BY <1>6 DEF CreateApprovalFails, GetUpdates, HandlePress, Resolve,
              ResolveFails, Apply, ApplyFails, ScanExpiredApprovals, vars
<1> QED BY <1>1, <1>2, <1>3, <1>4, <1>5, <1>6 DEF Next

\* The approval flow keeps its types: in particular the daemon's offset stays
\* between what Telegram confirmed and what it returned, so that a restart
\* neither loses a press nor reads one that does not exist.
THEOREM ApprovalsTypeOK == Spec => []TypeOK
<1>1. Init => RestTypes
  BY InitRestTypes
<1>2. RestTypes /\ [Next]_vars => RestTypes'
  BY NextRestTypes
<1>3. IInv /\ RestTypes => TypeOK
  BY DEF IInv, Types, RestTypes, TypeOK, Statuses
<1> QED
  BY <1>1, <1>2, <1>3, SpecIInv, PTL DEF Spec
==============================================================================
