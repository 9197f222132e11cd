------------------------------ MODULE Approvals ------------------------------
(***************************************************************************)
(* The human approval of an ACTION signal: the monitor sends an inline     *)
(* keyboard and then inserts a pending_approvals row, the user presses     *)
(* buttons whenever they like, the gateway polls the presses and runs      *)
(* on_approved or on_rejected, a scanner expires overdue rows, and the     *)
(* shutdown expires what is left.  All of them share one event loop, so a  *)
(* step is what runs between two awaits; the store calls of the handlers   *)
(* run in worker threads, which outlive a cancelled handler.               *)
(***************************************************************************)
EXTENDS Naturals, Sequences

CONSTANTS
    Requests,     \* ids of the pending_approvals rows
    Actionable,   \* rows whose payload has an "actions" list
    MaxPresses,   \* bound: button presses explored
    MaxStops      \* bound: shutdowns and crashes of the daemon explored

ASSUME ApprovalsAssumption ==
    /\ Actionable \subseteq Requests
    /\ MaxPresses \in Nat
    /\ MaxStops \in Nat

VARIABLES
    pending_approvals,  \* status of each row, "none" before its INSERT
    overdue,            \* rows whose expires_at has passed
    executed,           \* rows whose action PaperExecutor or OverlayCloser ran
    sending,            \* the row the monitor has sent but not yet inserted
    messages,           \* rows whose message Telegram shows to the user
    linked,             \* rows that will carry the id of that message
    updates,            \* every press, in the order of its update_id
    offset,             \* presses the running daemon has handled
    batch,              \* presses the last getUpdates returned, up to this one
    confirmed,          \* presses Telegram will not deliver again
    handler,            \* the callback being handled
    daemon,             \* "up", "stopping", "expired" (stopping, rows done), "down"
    stops

table == <<pending_approvals, overdue, executed>>
monitor == <<sending, messages, linked>>
polling == <<offset, batch, confirmed>>
vars == <<pending_approvals, overdue, executed, sending, messages,
          linked, updates, offset, batch, confirmed, handler, daemon, stops>>

Nobody == {}
Idle == [pc |-> "idle"]
Decisions == {"APPROVED", "REJECTED"}
Presses == [request : Requests, decision : Decisions]
Handlers ==
    {Idle} \cup [pc : {"resolve", "apply"}, request : Requests, decision : Decisions]

Init ==
    /\ pending_approvals = [r \in Requests |-> "none"]
    /\ overdue = {}
    /\ executed = {}
    /\ sending = Nobody
    /\ messages = {}
    /\ linked = {}
    /\ updates = <<>>
    /\ offset = 0
    /\ batch = 0
    /\ confirmed = 0
    /\ handler = Idle
    /\ daemon = "down"
    /\ stops = 0

Pending == {r \in Requests : pending_approvals[r] = "PENDING"}

Expired(R) ==
    [r \in Requests |-> IF r \in R THEN "EXPIRED" ELSE pending_approvals[r]]

-----------------------------------------------------------------------------
(* The monitor: _route_event's approval branch.                            *)

\* await send_approval_request: the message appears or not, and its id comes
\* back or, on any error, None.
SendRequest(r) ==
    /\ daemon = "up"
    /\ sending = Nobody
    /\ pending_approvals[r] = "none"
    /\ r \notin messages
    /\ sending' = {r}
    /\ messages' \in {messages, messages \cup {r}}
    /\ linked' \in {linked, linked \cup {r}}
    /\ linked' \subseteq messages'
    /\ UNCHANGED <<table, updates, polling, handler, daemon, stops>>

\* create_approval, with the message id or NULL.
CreateApproval(r) ==
    /\ r \in sending
    /\ pending_approvals' = [pending_approvals EXCEPT ![r] = "PENDING"]
    /\ sending' = Nobody
    /\ UNCHANGED <<overdue, executed, messages, linked, updates, polling,
                   handler, daemon, stops>>

\* The INSERT raised and ended the tick: the message stays without a row.
CreateApprovalFails ==
    /\ sending # Nobody
    /\ sending' = Nobody
    /\ UNCHANGED <<table, messages, linked, updates, polling, handler, daemon,
                   stops>>

\* One hour passes for a row.
Overdue(r) ==
    /\ pending_approvals[r] # "none"
    /\ r \notin overdue
    /\ overdue' = overdue \cup {r}
    /\ UNCHANGED <<pending_approvals, executed, monitor, updates, polling,
                   handler, daemon, stops>>

-----------------------------------------------------------------------------
(* The user and Telegram.                                                  *)

\* The keyboard stays on screen: any button, at any time, more than once.
Press(p) ==
    /\ p.request \in messages
    /\ Len(updates) < MaxPresses
    /\ updates' = Append(updates, p)
    /\ UNCHANGED <<table, monitor, polling, handler, daemon, stops>>

\* The next offset computed one too far.
GetUpdatesSkipping ==
    /\ daemon = "up"
    /\ handler = Idle
    /\ offset = batch
    /\ confirmed' = offset + 1
    /\ batch' = Len(updates)
    /\ UNCHANGED <<table, monitor, updates, offset, handler, daemon, stops>>

\* getUpdates(offset) confirms what was handled and returns the rest, which
\* may be nothing.
GetUpdates ==
    /\ daemon = "up"
    /\ handler = Idle
    /\ offset = batch
    /\ confirmed' = offset
    /\ batch' = Len(updates)
    /\ UNCHANGED <<table, monitor, updates, offset, handler, daemon, stops>>

-----------------------------------------------------------------------------
(* The gateway's callbacks, one press at a time.                           *)

\* A lookup that forgot "AND status = 'PENDING'".
LookupAnyStatus(p) ==
    p.request \in linked /\ pending_approvals[p.request] # "none"

\* get_pending_approval_by_msg_id.
Lookup(p) == p.request \in linked /\ pending_approvals[p.request] = "PENDING"

\* The press is taken; without a PENDING row under its message it is dropped.
HandlePress ==
    /\ daemon = "up"
    /\ handler = Idle
    /\ offset < batch
    /\ offset' = offset + 1
    /\ LET p == updates[offset + 1]
       IN  handler' = IF Lookup(p)
                        THEN [pc |-> "resolve", request |-> p.request,
                              decision |-> p.decision]
                        ELSE Idle
    /\ UNCHANGED <<table, monitor, updates, batch, confirmed, daemon, stops>>

\* resolve_approval in its worker thread: no look at the current status.  An
\* approval goes on to the action its payload holds, unless the handler was
\* cancelled meanwhile; without an action of that rank it ends here.
Resolve ==
    /\ handler.pc = "resolve"
    /\ pending_approvals' =
         [pending_approvals EXCEPT ![handler.request] = handler.decision]
    /\ handler' = IF /\ handler.decision = "APPROVED"
                     /\ handler.request \in Actionable
                     /\ daemon = "up"
                    THEN [handler EXCEPT !.pc = "apply"] ELSE Idle
    /\ UNCHANGED <<overdue, executed, monitor, updates, polling, daemon, stops>>

\* The UPDATE failed: logged, and the press is lost.
ResolveFails ==
    /\ handler.pc = "resolve"
    /\ handler' = Idle
    /\ UNCHANGED <<table, monitor, updates, polling, daemon, stops>>

\* executor.apply or overlay_closer.route, after the chain fetch.
Apply ==
    /\ handler.pc = "apply"
    /\ executed' = executed \cup {handler.request}
    /\ handler' = Idle
    /\ UNCHANGED <<pending_approvals, overdue, monitor, updates, polling,
                   daemon, stops>>

\* The action raised: logged, the row stays APPROVED.
ApplyFails ==
    /\ handler.pc = "apply"
    /\ handler' = Idle
    /\ UNCHANGED <<table, monitor, updates, polling, daemon, stops>>

\* A scanner that only looks at rows with a message.
ScanShownApprovals ==
    /\ daemon = "up"
    /\ Pending \cap overdue \cap linked # {}
    /\ pending_approvals' = Expired(Pending \cap overdue \cap linked)
    /\ UNCHANGED <<overdue, executed, monitor, updates, polling, handler,
                   daemon, stops>>

\* scan_expired_approvals, every five minutes while the gateway polls.
ScanExpiredApprovals ==
    /\ daemon = "up"
    /\ Pending \cap overdue # {}
    /\ pending_approvals' = Expired(Pending \cap overdue)
    /\ UNCHANGED <<overdue, executed, monitor, updates, polling, handler,
                   daemon, stops>>

-----------------------------------------------------------------------------
(* The daemon's life.                                                      *)

\* offset is 0 again: Telegram returns every unconfirmed press.
StartDaemon ==
    /\ daemon = "down"
    /\ daemon' = "up"
    /\ offset' = confirmed
    /\ batch' = confirmed
    /\ UNCHANGED <<table, monitor, updates, confirmed, handler, stops>>

\* SIGTERM cancels the monitor and the gateway.  A store call or an action
\* already in its worker thread goes on.
Shutdown ==
    /\ daemon = "up"
    /\ stops < MaxStops
    /\ stops' = stops + 1
    /\ daemon' = "stopping"
    /\ sending' = Nobody
    /\ handler' \in {Idle, handler}
    /\ UNCHANGED <<table, messages, linked, updates, polling>>

\* expire_all_pending_approvals.
ExpireAll ==
    /\ daemon = "stopping"
    /\ pending_approvals' = Expired(Pending)
    /\ daemon' = "expired"
    /\ UNCHANGED <<overdue, executed, monitor, updates, polling, handler, stops>>

\* Logged, and the shutdown goes on.
ExpireAllFails ==
    /\ daemon = "stopping"
    /\ daemon' = "expired"
    /\ UNCHANGED <<table, monitor, updates, polling, handler, stops>>

\* sys.exit waits for the worker threads.
Exit ==
    /\ daemon = "expired"
    /\ handler = Idle
    /\ daemon' = "down"
    /\ UNCHANGED <<table, monitor, updates, polling, handler, stops>>

\* The process dies at any point.
Crash ==
    /\ daemon # "down"
    /\ stops < MaxStops
    /\ stops' = stops + 1
    /\ daemon' = "down"
    /\ sending' = Nobody
    /\ handler' = Idle
    /\ UNCHANGED <<table, messages, linked, updates, polling>>

-----------------------------------------------------------------------------
Next ==
    \/ \E r \in Requests : SendRequest(r) \/ CreateApproval(r) \/ Overdue(r)
    \/ CreateApprovalFails
    \/ \E p \in Presses : Press(p)
    \/ GetUpdates
    \/ HandlePress
    \/ Resolve \/ ResolveFails
    \/ Apply \/ ApplyFails
    \/ ScanExpiredApprovals
    \/ StartDaemon \/ Shutdown \/ ExpireAll \/ ExpireAllFails \/ Exit \/ Crash

Spec == Init /\ [][Next]_vars

\* Time passes, the scanner's loop turns, handlers end, a shutdown goes
\* through, and cron starts the daemon again.
Fairness ==
    /\ \A r \in Requests : WF_vars(Overdue(r))
    /\ WF_vars(ScanExpiredApprovals)
    /\ WF_vars(Resolve \/ ResolveFails \/ Apply \/ ApplyFails)
    /\ WF_vars(StartDaemon)
    /\ WF_vars(ExpireAll \/ ExpireAllFails)
    /\ WF_vars(Exit)

FairSpec == Spec /\ Fairness

-----------------------------------------------------------------------------
(* Correctness                                                             *)

\* Every variable holds values the program can hold, and the daemon's offset
\* never runs past what Telegram returned nor behind what it confirmed.
TypeOK ==
    /\ pending_approvals \in
         [Requests -> {"none", "PENDING", "EXPIRED"} \cup Decisions]
    /\ overdue \subseteq Requests
    /\ executed \subseteq Requests
    /\ sending \subseteq Requests
    /\ messages \subseteq Requests
    /\ linked \subseteq messages
    /\ updates \in Seq(Presses)
    /\ offset \in Nat /\ batch \in Nat /\ confirmed \in Nat
    /\ confirmed <= offset /\ offset <= batch /\ batch <= Len(updates)
    /\ handler \in Handlers
    /\ daemon \in {"up", "stopping", "expired", "down"}
    /\ stops \in 0 .. MaxStops

\* Double presses, redelivered presses, an expiry or a shutdown between the
\* lookup and the UPDATE: each row still goes through the lifecycle of
\* ApprovalLifecycle, and its action runs at most once and only if approved.
Lifecycle ==
    INSTANCE ApprovalLifecycle WITH status <- pending_approvals
LifecycleSpec == Lifecycle!Spec

\* A row never waits for an answer for ever: a decision, the scanner or a
\* shutdown ends it, through stops and failed sends (a row whose message
\* id is NULL can only expire).
NoRequestPendsForever ==
    \A r \in Requests :
      pending_approvals[r] = "PENDING" ~> pending_approvals[r] # "PENDING"

\* What the approval flow is for: once the handler of an approval has ended
\* and the daemon was never stopped, the approved action was carried out.  An
\* action that raises (ApplyFails) would excuse it, and cannot happen to a row
\* that is not Actionable.
ApprovedIsExecuted ==
    \A r \in Requests :
      pending_approvals[r] = "APPROVED" /\ handler = Idle /\ stops = 0 =>
        r \in executed
==============================================================================
