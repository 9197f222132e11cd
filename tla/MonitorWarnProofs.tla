------------------------- MODULE MonitorWarnProofs -------------------------
(***************************************************************************)
(* Proofs about MonitorWarn for any conditions, groups and faults.         *)
(***************************************************************************)
EXTENDS MonitorWarn, TLAPS

Ticks ==
    [pc : {"route", "send", "set"}, todo : SUBSET Groups,
     events : SUBSET Conditions, fired : SUBSET Conditions,
     unseen : SUBSET Conditions, sending : SUBSET Conditions]

Types ==
    /\ breached \subseteq Conditions
    /\ active \subseteq Conditions
    /\ daemon \in {"up", "down"}
    /\ tick \in {Idle} \cup Ticks
    /\ faults \in 0 .. MaxFaults
    /\ repeated \subseteq alerted /\ alerted \subseteq Conditions
    /\ forgotten \subseteq Conditions
    /\ delivered \subseteq Conditions

\* A group is evaluated once in a tick, an event is routed before it is sent.
TickOrder ==
    tick # Idle =>
      /\ tick.events \cap tick.fired = {}
      /\ tick.sending \subseteq tick.fired
      /\ tick.pc = "route" <=> tick.sending = {}
      /\ \A c \in tick.fired \cup tick.events : GroupOf[c] \notin tick.todo

\* A breach that was alerted is on record, or its record is being written.
AlertRecorded ==
    \A c \in (alerted \cap breached) \ forgotten :
      c \in active \/ (tick.pc = "set" /\ c \in tick.sending)

\* ... and the tick has evaluated it, still has to, or knows it could not.
AlertSeen ==
    tick # Idle =>
      \A c \in (alerted \cap breached) \ forgotten :
        \/ c \in tick.fired \cup tick.events \cup tick.unseen
        \/ GroupOf[c] \in tick.todo

\* So an event that was alerted before is not sent again.
NoSecondSend ==
    tick # Idle =>
      /\ \A c \in (tick.events \cap alerted) \ forgotten : c \in active
      /\ tick.pc = "send" => tick.sending \cap alerted \subseteq forgotten

IInv ==
    /\ Types
    /\ TickOrder
    /\ AlertRecorded
    /\ AlertSeen
    /\ NoSecondSend
    /\ AlertOnce

-----------------------------------------------------------------------------
LEMMA InitIInv == Init => IInv
BY MonitorAssumption
   DEF Init, IInv, Types, TickOrder, AlertRecorded, AlertSeen, NoSecondSend,
       AlertOnce, Idle

\* The market may change between any two steps of a tick: a new breach starts
\* with a clean history.
LEMMA MarketInv ==
    ASSUME IInv, NEW c \in Conditions, Breach(c) \/ Recover(c)
    PROVE  IInv'
<1> USE DEF IInv, history
<1>1. CASE Breach(c)
  BY <1>1 DEF Breach, Types, TickOrder, AlertRecorded, AlertSeen,
              NoSecondSend, AlertOnce
<1>2. CASE Recover(c)
  BY <1>2 DEF Recover, Types, TickOrder, AlertRecorded, AlertSeen,
              NoSecondSend, AlertOnce
<1> QED BY <1>1, <1>2

\* The evaluation of a group, or its loss.
LEMMA GroupInv ==
    ASSUME IInv, NEW g \in Groups, CheckSignals(g) \/ SkipGroup(g)
    PROVE  IInv'
<1> USE DEF IInv, history
<1>0. tick \in Ticks
  BY DEF CheckSignals, SkipGroup, Types, Idle
<1>1. CASE CheckSignals(g)
  <2>1. tick' = [tick EXCEPT !.todo = tick.todo \ {g},
                             !.events = breached \cap InGroup(g)]
    BY <1>1 DEF CheckSignals
  <2>2. tick' \in Ticks /\ tick' # Idle
    BY <2>1, <1>0 DEF Types, Ticks, Idle, InGroup
  <2>3. Types'
    BY <1>1, <2>2 DEF CheckSignals, Types
  <2>2a. /\ tick'.pc = "route" /\ tick'.sending = tick.sending
        /\ tick'.fired = tick.fired /\ tick'.unseen = tick.unseen
        /\ tick'.todo = tick.todo \ {g} /\ g \in tick.todo
        /\ tick'.events = {c \in breached : GroupOf[c] = g}
        /\ tick.events = {} /\ tick.pc = "route" /\ tick # Idle
    BY <1>0, <1>1, <2>1 DEF CheckSignals, Ticks, InGroup, Idle, Types
  <2>4. TickOrder'
    <3>1. \A c \in tick'.fired \cup tick'.events : GroupOf[c] \notin tick'.todo
      BY <2>2a DEF TickOrder
    <3> QED BY <2>2a, <3>1 DEF TickOrder
  <2>5. AlertRecorded' /\ NoSecondSend' /\ AlertOnce'
    BY <1>0, <1>1, <2>1, <2>2
       DEF CheckSignals, AlertRecorded, NoSecondSend, AlertOnce, Ticks, Idle
  <2>6. AlertSeen'
    BY <1>1, <2>2a DEF CheckSignals, AlertSeen
  <2> QED BY <2>3, <2>4, <2>5, <2>6
<1>2. CASE SkipGroup(g)
  <2>1. tick' = [tick EXCEPT !.todo = tick.todo \ {g},
                             !.unseen = tick.unseen \cup InGroup(g)]
    BY <1>2 DEF SkipGroup
  <2>2. tick' \in Ticks /\ tick' # Idle
    BY <2>1, <1>0 DEF Types, Ticks, Idle, InGroup
  <2>3. Types'
    BY <1>2, <2>2, MonitorAssumption DEF SkipGroup, Types
  <2>4. TickOrder'
    BY <1>0, <1>2, <2>1, <2>2 DEF SkipGroup, TickOrder, Ticks, Idle
  <2>5. AlertRecorded' /\ NoSecondSend' /\ AlertOnce'
    BY <1>0, <1>2, <2>1, <2>2
       DEF SkipGroup, AlertRecorded, NoSecondSend, AlertOnce, Ticks, Idle
  <2>6. AlertSeen'
    <3>1. /\ tick'.fired = tick.fired /\ tick'.events = tick.events
          /\ tick'.todo = tick.todo \ {g}
          /\ tick'.unseen = tick.unseen \cup {c \in Conditions : GroupOf[c] = g}
      BY <1>0, <2>1 DEF Ticks, InGroup
    <3>2. alerted \subseteq Conditions /\ tick # Idle
      BY <1>0 DEF Types, Ticks, Idle
    <3> QED BY <1>2, <3>1, <3>2 DEF SkipGroup, AlertSeen
  <2> QED BY <2>3, <2>4, <2>5, <2>6
<1> QED BY <1>1, <1>2

\* Routing an event that fired: it is sent only if it is not on record.
LEMMA RouteInv ==
    ASSUME IInv, NEW c \in Conditions, RouteActive(c) \/ RouteAlert(c)
    PROVE  IInv'
<1> USE DEF IInv, history
<1>0. tick \in Ticks /\ tick # Idle /\ tick.pc = "route" /\ c \in tick.events
  BY DEF RouteActive, RouteAlert, Types, Idle
<1>1. CASE RouteActive(c)
  <2>1. tick' = [tick EXCEPT !.events = tick.events \ {c},
                             !.fired = tick.fired \cup {c}]
    BY <1>1 DEF RouteActive, Route
  <2>2. tick' \in Ticks /\ tick' # Idle
    BY <2>1, <1>0 DEF Ticks, Idle
  <2>3. Types' /\ TickOrder'
    BY <1>0, <1>1, <2>1, <2>2 DEF RouteActive, Types, TickOrder, Ticks, Idle
  <2>4. AlertRecorded' /\ AlertSeen' /\ NoSecondSend' /\ AlertOnce'
    BY <1>0, <1>1, <2>1, <2>2
       DEF RouteActive, AlertRecorded, AlertSeen, NoSecondSend, AlertOnce, Ticks, Idle
  <2> QED BY <2>3, <2>4
<1>2. CASE RouteAlert(c)
  <2>1. tick' = [tick EXCEPT !.events = tick.events \ {c},
                             !.fired = tick.fired \cup {c},
                             !.pc = "send", !.sending = {c}]
    BY <1>0, <1>2 DEF RouteAlert, Route, Ticks
  <2>2. /\ tick'.pc = "send" /\ tick'.sending = {c}
        /\ tick'.events = tick.events \ {c} /\ tick'.fired = tick.fired \cup {c}
        /\ tick'.unseen = tick.unseen /\ tick'.todo = tick.todo
    BY <2>1, <1>0 DEF Ticks
  <2>3. tick' \in Ticks /\ tick' # Idle
    BY <2>1, <1>0 DEF Ticks, Idle
  <2>4. Types'
    BY <1>2, <2>3 DEF RouteAlert, Types
  <2>5. TickOrder'
    BY <1>0, <2>2 DEF TickOrder
  <2>6. AlertRecorded' /\ AlertSeen' /\ AlertOnce'
    BY <1>0, <1>2, <2>2 DEF RouteAlert, AlertRecorded, AlertSeen, AlertOnce
  <2>7. NoSecondSend'
    BY <1>0, <1>2, <2>2 DEF RouteAlert, NoSecondSend
  <2> QED BY <2>4, <2>5, <2>6, <2>7
<1> QED BY <1>1, <1>2

\* The message goes out: by NoSecondSend it is the first of its breach.
LEMMA SendInv == ASSUME IInv, Send PROVE IInv'
<1> USE DEF IInv, history
<1>0. tick \in Ticks /\ tick # Idle /\ tick.pc = "send"
  BY DEF Send, Types, Idle
<1>1. tick' = [tick EXCEPT !.pc = "set"]
  BY DEF Send
<1>2. tick' \in Ticks /\ tick' # Idle
  BY <1>0, <1>1 DEF Ticks, Idle
<1>3. Types' /\ TickOrder'
  BY <1>0, <1>1, <1>2 DEF Send, Types, TickOrder, Ticks, Idle
<1>4. AlertRecorded' /\ AlertSeen'
  BY <1>0, <1>1, <1>2 DEF Send, AlertRecorded, AlertSeen, TickOrder, Ticks, Idle
<1>5. NoSecondSend' /\ AlertOnce'
  BY <1>0, <1>1, <1>2 DEF Send, NoSecondSend, AlertOnce, TickOrder, Ticks, Idle
<1> QED BY <1>3, <1>4, <1>5

\* The record of the message.
LEMMA SetWarnActiveInv == ASSUME IInv, SetWarnActive PROVE IInv'
<1> USE DEF IInv, history
<1>0. tick \in Ticks /\ tick # Idle /\ tick.pc = "set"
  BY DEF SetWarnActive, Types, Idle
<1>1. tick' = [tick EXCEPT !.pc = "route", !.sending = {}]
  BY DEF SetWarnActive
<1>2. tick' \in Ticks /\ tick' # Idle
  BY <1>0, <1>1 DEF Ticks, Idle
<1>3. Types' /\ TickOrder'
  BY <1>0, <1>1, <1>2 DEF SetWarnActive, Types, TickOrder, Ticks, Idle
<1>4. AlertRecorded' /\ AlertSeen' /\ NoSecondSend' /\ AlertOnce'
  BY <1>0, <1>1, <1>2
     DEF SetWarnActive, AlertRecorded, AlertSeen, NoSecondSend, AlertOnce, Ticks, Idle
<1> QED BY <1>3, <1>4

\* The reconciliation drops the record of a lasting breach only if its group
\* was skipped, and then it counts as forgotten.
LEMMA ReconcileInv == ASSUME IInv, ReconcileWarnState PROVE IInv'
<1> USE DEF IInv, history
<1>0. /\ tick \in Ticks /\ tick # Idle /\ tick.pc = "route"
      /\ tick.todo = {} /\ tick.events = {}
  BY DEF ReconcileWarnState, TickDone, Types, Idle
<1>1. Types' /\ TickOrder' /\ AlertSeen' /\ NoSecondSend'
  BY <1>0 DEF ReconcileWarnState, Types, TickOrder, AlertSeen, NoSecondSend, Ticks
<1>2. AlertRecorded'
  BY <1>0 DEF ReconcileWarnState, AlertRecorded, AlertSeen, Idle
<1>3. AlertOnce'
  BY DEF ReconcileWarnState, AlertOnce
<1> QED BY <1>1, <1>2, <1>3

\* A new tick, an abandoned one, the daemon's start and its end: a message
\* that was not yet recorded counts as forgotten.
LEMMA TickBoundsInv ==
    ASSUME IInv, StartTick \/ AbortTick \/ StartDaemon \/ DaemonEnds
    PROVE  IInv'
<1> USE DEF IInv, history
<1>1. CASE StartTick
  <2>1. tick' \in Ticks /\ tick' # Idle
    BY <1>1 DEF StartTick, Ticks, Idle
  <2>2. Types' /\ TickOrder'
    BY <1>1, <2>1 DEF StartTick, Types, TickOrder
  <2>3. AlertRecorded' /\ NoSecondSend' /\ AlertOnce'
    BY <1>1 DEF StartTick, AlertRecorded, NoSecondSend, AlertOnce, Idle
  <2>4. AlertSeen'
    BY <1>1, MonitorAssumption DEF StartTick, AlertSeen, Types
  <2> QED BY <2>2, <2>3, <2>4
<1>2. CASE AbortTick
  <2>1. Types'
    BY <1>2, MonitorAssumption DEF AbortTick, Types, Unrecorded, Ticks, Idle
  <2>2. TickOrder' /\ AlertSeen' /\ NoSecondSend' /\ AlertOnce'
    BY <1>2 DEF AbortTick, TickOrder, AlertSeen, NoSecondSend, AlertOnce
  <2>3. AlertRecorded'
    BY <1>2 DEF AbortTick, AlertRecorded, Unrecorded, Idle
  <2> QED BY <2>1, <2>2, <2>3
<1>3. CASE StartDaemon
  BY <1>3 DEF StartDaemon, Types, TickOrder, AlertRecorded, AlertSeen,
              NoSecondSend, AlertOnce
<1>4. CASE DaemonEnds
  <2>1. Types'
    BY <1>4, MonitorAssumption DEF DaemonEnds, Types, Unrecorded, Ticks, Idle
  <2>2. TickOrder' /\ AlertSeen' /\ NoSecondSend' /\ AlertOnce'
    BY <1>4 DEF DaemonEnds, TickOrder, AlertSeen, NoSecondSend, AlertOnce
  <2>3. AlertRecorded'
    BY <1>4 DEF DaemonEnds, AlertRecorded, Unrecorded, Idle
  <2> QED BY <2>1, <2>2, <2>3
<1> QED BY <1>1, <1>2, <1>3, <1>4

LEMMA NextIInv == IInv /\ [Next]_vars => IInv'
<1> SUFFICES ASSUME IInv, [Next]_vars PROVE IInv'
  OBVIOUS
<1>1. CASE UNCHANGED vars
  BY <1>1 DEF vars, IInv, Types, TickOrder, AlertRecorded, AlertSeen,
              NoSecondSend, AlertOnce
<1>2. CASE Next
  BY <1>2, MarketInv, GroupInv, RouteInv, SendInv, SetWarnActiveInv,
     ReconcileInv, TickBoundsInv DEF Next, TickStep
<1> QED BY <1>1, <1>2

LEMMA SpecIInv == Spec => []IInv
BY InitIInv, NextIInv, PTL DEF Spec

-----------------------------------------------------------------------------
(* The theorems.                                                           *)

\* The monitor's rows and its tick keep their types, and one message is under
\* way at a time, for any conditions, groups and faults.
THEOREM MonitorTypeOK == Spec => []TypeOK
<1>1. IInv => TypeOK
  BY DEF IInv, Types, TickOrder, TypeOK, IsTick, Ticks, Idle
<1> QED BY <1>1, SpecIInv, PTL

\* StrategyMonitor alerts a breach at most once, unless a skipped group or a
\* tick that died between a message and its record hid it.
THEOREM MonitorAlertOnce == Spec => []AlertOnce
<1>1. IInv => AlertOnce
  BY DEF IInv
<1> QED BY <1>1, SpecIInv, PTL
==============================================================================
