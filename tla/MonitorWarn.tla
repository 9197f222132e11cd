---------------------------- MODULE MonitorWarn ----------------------------
(***************************************************************************)
(* WARN signals of StrategyMonitor.  A strategy's check_signals re-emits a *)
(* WARN on every tick while its condition lasts; warn_signal_state keeps a *)
(* row per condition so that one message is sent when the condition        *)
(* appears, and reconcile_warn_state clears the rows of conditions that    *)
(* did not fire in a tick.  Between these store calls the tick awaits the  *)
(* chains, the strategy and Telegram; conditions come and go meanwhile.    *)
(*                                                                         *)
(* The positions of a strategy are evaluated one expiry group at a time.   *)
(* A group without a chain, or whose check_signals raises, is skipped; an  *)
(* exception anywhere else ends the tick before its reconciliation.        *)
(***************************************************************************)
EXTENDS Naturals

CONSTANTS
    Conditions,  \* keys <<event_type, leg_role, expiry>> of one strategy
    Groups,      \* its expiry groups
    GroupOf,     \* the group each condition is evaluated in
    MaxFaults    \* bound: skipped groups, aborted ticks and crashes explored

ASSUME MonitorAssumption ==
    /\ GroupOf \in [Conditions -> Groups]
    /\ MaxFaults \in Nat

VARIABLES
    breached,    \* conditions that hold
    active,      \* rows of warn_signal_state with active = 1
    daemon,      \* "up" or "down"
    tick,        \* what _tick is doing
    faults,
    alerted,     \* history: conditions alerted since they last appeared
    repeated,    \* history: alerted more than once since then
    forgotten,   \* history: since then a fault hid the condition or its alert
    delivered    \* history: conditions whose alert reached the user, by row

history == <<alerted, repeated, forgotten, delivered>>
vars == <<breached, active, daemon, tick, faults, alerted, repeated,
          forgotten, delivered>>

Idle == [pc |-> "idle"]

IsTick(t) ==
    /\ t.pc \in {"route", "send", "set"}
    /\ t.todo \subseteq Groups
    /\ t.events \subseteq Conditions
    /\ t.fired \subseteq Conditions
    /\ t.unseen \subseteq Conditions
    /\ t.sending \subseteq Conditions

InGroup(g) == {c \in Conditions : GroupOf[c] = g}

Init ==
    /\ breached = {}
    /\ active = {}
    /\ daemon = "down"
    /\ tick = Idle
    /\ faults = 0
    /\ alerted = {}
    /\ repeated = {}
    /\ forgotten = {}
    /\ delivered = {}

-----------------------------------------------------------------------------
(* The market.                                                             *)

\* A condition appears: what was sent before was for an earlier breach.
Breach(c) ==
    /\ c \notin breached
    /\ breached' = breached \cup {c}
    /\ alerted' = alerted \ {c}
    /\ repeated' = repeated \ {c}
    /\ forgotten' = forgotten \ {c}
    /\ UNCHANGED <<active, daemon, tick, faults, delivered>>

Recover(c) ==
    /\ c \in breached
    /\ breached' = breached \ {c}
    /\ UNCHANGED <<active, daemon, tick, faults, history>>

-----------------------------------------------------------------------------
(* One tick.                                                               *)

StartTick ==
    /\ daemon = "up"
    /\ tick = Idle
    /\ tick' = [pc |-> "route", todo |-> Groups, events |-> {}, fired |-> {},
                unseen |-> {}, sending |-> {}]
    /\ UNCHANGED <<breached, active, daemon, faults, history>>

\* check_signals of the next group.
CheckSignals(g) ==
    /\ tick.pc = "route"
    /\ tick.events = {}
    /\ g \in tick.todo
    /\ tick' = [tick EXCEPT !.todo = @ \ {g}, !.events = breached \cap InGroup(g)]
    /\ UNCHANGED <<breached, active, daemon, faults, history>>

\* No chain for the expiry, or check_signals raised.
SkipGroup(g) ==
    /\ tick.pc = "route"
    /\ tick.events = {}
    /\ g \in tick.todo
    /\ faults < MaxFaults
    /\ faults' = faults + 1
    /\ tick' = [tick EXCEPT !.todo = @ \ {g}, !.unseen = @ \cup InGroup(g)]
    /\ UNCHANGED <<breached, active, daemon, history>>

Route(c) == [tick EXCEPT !.events = @ \ {c}, !.fired = @ \cup {c}]

\* A dedup row looked up without its leg_role.
RouteActiveAnyLeg(c) ==
    /\ tick.pc = "route"
    /\ c \in tick.events
    /\ active \cap InGroup(GroupOf[c]) # {}
    /\ tick' = Route(c)
    /\ UNCHANGED <<breached, active, daemon, faults, history>>

\* The row is active already: no message.
RouteActive(c) ==
    /\ tick.pc = "route"
    /\ c \in tick.events \cap active
    /\ tick' = Route(c)
    /\ UNCHANGED <<breached, active, daemon, faults, history>>

\* Not asking is_warn_active.
RouteAlertAlways(c) ==
    /\ tick.pc = "route"
    /\ c \in tick.events
    /\ tick' = [Route(c) EXCEPT !.pc = "send", !.sending = {c}]
    /\ UNCHANGED <<breached, active, daemon, faults, history>>

\* Marking the condition as routed only once its message is out.
RouteAlertUnrouted(c) ==
    /\ tick.pc = "route"
    /\ c \in tick.events \ active
    /\ tick' = [tick EXCEPT !.fired = @ \cup {c}, !.pc = "send", !.sending = {c}]
    /\ UNCHANGED <<breached, active, daemon, faults, history>>

RouteAlert(c) ==
    /\ tick.pc = "route"
    /\ c \in tick.events \ active
    /\ tick' = [Route(c) EXCEPT !.pc = "send", !.sending = {c}]
    /\ UNCHANGED <<breached, active, daemon, faults, history>>

\* send_plain_message; whether it succeeded is not looked at.
Send ==
    /\ tick.pc = "send"
    /\ tick' = [tick EXCEPT !.pc = "set"]
    /\ alerted' = alerted \cup tick.sending
    /\ repeated' = repeated \cup (alerted \cap tick.sending)
    /\ delivered' \in {delivered, delivered \cup tick.sending}
    /\ UNCHANGED <<breached, active, daemon, faults, forgotten>>

SetWarnActive ==
    /\ tick.pc = "set"
    /\ active' = active \cup tick.sending
    /\ tick' = [tick EXCEPT !.pc = "route", !.sending = {}]
    /\ UNCHANGED <<breached, daemon, faults, history>>

TickDone == tick.pc = "route" /\ tick.todo = {} /\ tick.events = {}

\* A tick that ends without its reconciliation.
EndTickUnreconciled ==
    /\ TickDone
    /\ tick' = Idle
    /\ UNCHANGED <<breached, active, daemon, faults, history>>

\* reconcile_warn_state: what did not fire is taken to have recovered.
ReconcileWarnState ==
    /\ TickDone
    /\ active' = active \cap tick.fired
    /\ delivered' = delivered \cap tick.fired
    /\ forgotten' = forgotten \cup tick.unseen
    /\ tick' = Idle
    /\ UNCHANGED <<breached, daemon, faults, alerted, repeated>>

\* A message that was sent and not recorded.
Unrecorded == IF tick.pc = "set" THEN tick.sending ELSE {}

\* No chain at all, or an exception that only run() catches.
AbortTick ==
    /\ tick # Idle
    /\ faults < MaxFaults
    /\ faults' = faults + 1
    /\ tick' = Idle
    /\ forgotten' = forgotten \cup Unrecorded
    /\ UNCHANGED <<breached, active, daemon, alerted, repeated, delivered>>

-----------------------------------------------------------------------------
StartDaemon ==
    /\ daemon = "down"
    /\ daemon' = "up"
    /\ UNCHANGED <<breached, active, tick, faults, history>>

\* Shutdown or crash; warn_signal_state stays.
DaemonEnds ==
    /\ daemon = "up"
    /\ faults < MaxFaults
    /\ faults' = faults + 1
    /\ daemon' = "down"
    /\ tick' = Idle
    /\ forgotten' = IF tick = Idle THEN forgotten ELSE forgotten \cup Unrecorded
    /\ UNCHANGED <<breached, active, alerted, repeated, delivered>>

TickStep ==
    \/ StartTick
    \/ \E g \in Groups : CheckSignals(g)
    \/ \E c \in Conditions : RouteActive(c) \/ RouteAlert(c)
    \/ Send \/ SetWarnActive \/ ReconcileWarnState

Next ==
    \/ \E c \in Conditions : Breach(c) \/ Recover(c)
    \/ TickStep
    \/ \E g \in Groups : SkipGroup(g)
    \/ AbortTick
    \/ StartDaemon \/ DaemonEnds

Spec == Init /\ [][Next]_vars

\* run() ticks for ever, and cron starts the daemon again.
FairSpec == Spec /\ WF_vars(TickStep) /\ WF_vars(StartDaemon)

-----------------------------------------------------------------------------
(* Correctness                                                             *)

\* Every variable holds values the program can hold; an event is routed once
\* in a tick, and only one message is under way.
TypeOK ==
    /\ breached \subseteq Conditions
    /\ active \subseteq Conditions
    /\ daemon \in {"up", "down"}
    /\ tick # Idle => /\ IsTick(tick)
                      /\ tick.events \cap tick.fired = {}
                      /\ tick.pc = "route" <=> tick.sending = {}
    /\ faults \in 0 .. MaxFaults
    /\ repeated \subseteq alerted /\ alerted \subseteq Conditions
    /\ forgotten \subseteq Conditions
    /\ delivered \subseteq Conditions

\* One message per breach, however often it comes and goes during a tick:
\* a second one needs a tick that died between a message and its record, or
\* that could not evaluate the condition's group (reconcile_warn_state then
\* clears a row whose condition never recovered).
AlertOnce == repeated \subseteq forgotten

\* A breach that lasts is alerted: its row becomes active, through crashes,
\* aborted ticks and skipped groups.
BreachBecomesActive ==
    \A c \in Conditions : c \in breached ~> c \in active \/ c \notin breached

\* A condition that stays away is armed again, so that its next breach is
\* not swallowed by the row of the last one.
RecoveryClears ==
    \A c \in Conditions : c \in active ~> c \notin active \/ c \in breached

\* "True to mark the condition as currently ongoing (alert already sent this
\* occurrence)": an active row stands for a message the user got.
ActiveWasDelivered == active \subseteq delivered
==============================================================================
