------------------------------ MODULE LiveGraph ------------------------------
(***************************************************************************)
(* The live graph of the GUI: controller/gui/live_graph.py, the trace      *)
(* controls of controller/gui/main_window.py, and the subscription of the  *)
(* hub that feeds them (hub/subscriptions.py, in detail in Subscriptions). *)
(*                                                                         *)
(* Three threads meet.  The GUI thread runs one handler at a time: todo is *)
(* what the handler still has to do, one RPC call or one change of the     *)
(* panel after the other.  The push loop of the hub reads the device and   *)
(* sends events meanwhile.  The reader thread hands each event to the      *)
(* panel's queue, from which the GUI thread takes them between handlers.   *)
(*                                                                         *)
(* The calculation mode that goes with a trace is left out.                *)
(***************************************************************************)
EXTENDS Naturals, Sequences, SequencesExt

CONSTANTS
    Traces, NoTrace,    \* the traces of the device
    Axes, NoAxis,       \* the frequency axes the device may sweep
    MaxActs,            \* bound: what the user does and what fails
    MaxQueue            \* bound: events waiting for the GUI thread

ASSUME NoneAssumption == NoTrace \notin Traces /\ NoAxis \notin Axes
ASSUME TracesAssumption == IsFiniteSet(Traces)
ASSUME BoundsAssumption == {MaxActs, MaxQueue} \subseteq Nat

VARIABLES
    graph,      \* the traces whose Graph box is checked
    stats,      \* _stats_trace_id
    lastFreqs,  \* _last_freqs, of the main window
    display,    \* the statistics shown: the axis used and the axis measured on
    todo,       \* what the running handler has left to do
    running,    \* _running of the panel; its event callback is registered with it
    curves,     \* the traces that have a curve
    freqs,      \* _frequencies
    plotted,    \* per curve: the axis it is drawn on and the one measured on
    queue,      \* events on their way from the reader to the GUI thread
    unsure,     \* traces whose last enable or disable failed
    sub,        \* the traces the hub pushes to the panel, {} without subscription
    fresh,      \* the push loop has not read the axis for the first time
    last,       \* last_freqs of the push loop
    measured,   \* the axis of the values the push loop has read, NoAxis before
    tail,       \* events of a stopped push loop whose join timed out
    axis,       \* the axis the device sweeps now
    enabled,    \* the traces the device shows
    alive,      \* the connection of the panel is served by the hub
    attached,   \* the window uses the same connection as the panel
    acts,       \* how much the user has done and how much has failed
    failed,     \* a call has failed, or the connection
    late        \* an event was queued after the end of its subscription

window == <<graph, stats, lastFreqs, display>>
panel == <<running, curves, freqs, plotted>>
hub == <<sub, fresh, last, measured, tail>>
device == <<axis, enabled>>
link == <<alive, attached>>
counts == <<acts, failed, late>>
vars == <<window, todo, panel, queue, unsure, hub, device, link, counts>>

Nothing == [on |-> NoAxis, of |-> NoAxis]
Shown == graph \cup ({stats} \ {NoTrace})

Pictures == [on : Axes \cup {NoAxis}, of : Axes \cup {NoAxis}]
\* An event carries the axis only when it changed, and values of an axis.
Events == [freqs : Axes \cup {NoAxis}, values : Axes \cup {NoAxis}, ids : SUBSET Traces, old : BOOLEAN]
Work == [op : {"enable", "show", "hide"}, id : Traces]
            \cup [op : {"halt", "unsubscribe", "register", "subscribe"}, id : {NoTrace}]

TypeOK ==
    /\ graph \subseteq Traces /\ stats \in Traces \cup {NoTrace}
    /\ {lastFreqs, freqs, last, measured} \subseteq Axes \cup {NoAxis} /\ axis \in Axes
    /\ display \in Pictures /\ plotted \in [Traces -> Pictures]
    /\ todo \in Seq(Work) /\ {running, fresh, alive, attached, failed, late} \subseteq BOOLEAN
    /\ {curves, sub, enabled, unsure} \subseteq SUBSET Traces
    /\ queue \in Seq(Events) /\ tail \in Seq(Events)
    /\ acts \in 0..MaxActs

Init ==
    /\ graph = {} /\ stats = NoTrace /\ lastFreqs = NoAxis /\ display = Nothing
    /\ todo = <<>> /\ running = FALSE /\ curves = {} /\ freqs = NoAxis
    /\ plotted = [t \in Traces |-> Nothing] /\ queue = <<>> /\ unsure = {}
    /\ sub = {} /\ fresh = FALSE /\ last = NoAxis /\ measured = NoAxis /\ tail = <<>>
    /\ axis \in Axes /\ enabled \in SUBSET Traces
    /\ alive = TRUE /\ attached = TRUE
    /\ acts = 0 /\ failed = FALSE /\ late = FALSE

----------------------------------------------------------------------------
(* What the handlers of the window ask for. *)

Item(op) == [op |-> op, id |-> NoTrace]

\* stop(): nothing is shown any more, whatever becomes of the call.
StopItems == <<Item("halt"), Item("unsubscribe")>>

\* A bug: the callback is registered once the subscription is under way (mutated).
StartItemsLate(ids) ==
    (IF running THEN StopItems ELSE <<>>)
        \o SetToSeq([op : {"enable"}, id : ids])
        \o <<Item("subscribe"), Item("register")>>

\* start(): every trace is enabled, and the callback registered before the
\* subscription can push its first event, which carries the axis.
StartItems(ids) ==
    (IF running THEN StopItems ELSE <<>>)
        \o SetToSeq([op : {"enable"}, id : ids])
        \o <<Item("register"), Item("subscribe")>>

\* A bug: a running subscription is not replaced (mutated).
UpdateOnce(ids) ==
    IF ids = {} THEN StopItems ELSE IF running THEN <<>> ELSE StartItems(ids)

\* _update_subscription
Update(ids) == IF ids = {} THEN StopItems ELSE StartItems(ids)

\* A bug: the statistics are forgotten (mutated).
ManageBoxes(t, boxes, chosen) ==
    <<[op |-> IF t = chosen THEN "show" ELSE "hide", id |-> t]>>

\* _trace_manage_enabled
Manage(t, boxes, chosen) ==
    <<[op |-> IF t \in boxes \/ t = chosen THEN "show" ELSE "hide", id |-> t]>>

Act == acts < MaxActs /\ acts' = acts + 1
Fault == Act /\ failed' = TRUE

\* The user turns to the window only when no handler is running.
Click ==
    /\ todo = <<>> /\ Act
    /\ UNCHANGED <<panel, queue, unsure, hub, device, failed, late>>

\* _on_graph_toggled
ToggleGraph(t) ==
    LET boxes == IF t \in graph THEN graph \ {t} ELSE graph \cup {t} IN
    /\ Click /\ graph' = boxes
    /\ todo' = Manage(t, boxes, stats) \o Update(boxes \cup ({stats} \ {NoTrace}))
    /\ UNCHANGED <<stats, lastFreqs, display, link>>

\* _on_stats_toggled(checked): the previous trace is managed while it is
\* still the one in _stats_trace_id, so it stays enabled.
StatsOn(t) ==
    /\ Click /\ t # stats /\ stats' = t
    /\ todo' = (IF stats = NoTrace THEN <<>> ELSE Manage(stats, graph, stats))
                    \o Manage(t, graph, t) \o Update(graph \cup {t})
    /\ UNCHANGED <<graph, lastFreqs, display, link>>

\* _on_stats_toggled(not checked)
StatsOff ==
    /\ Click /\ stats # NoTrace /\ stats' = NoTrace /\ display' = Nothing
    /\ todo' = Update(graph) \o Manage(stats, graph, NoTrace)
    /\ UNCHANGED <<graph, lastFreqs, link>>

\* _on_refresh_interval_changed
IntervalChanged ==
    /\ Click /\ todo' = Update(Shown)
    /\ UNCHANGED <<window, link>>

----------------------------------------------------------------------------
(* The handler that runs takes the next item of its list. *)

Take(op) == todo # <<>> /\ Head(todo).op = op

\* A call goes through, or fails with or without effect on the device.  The
\* errors of these calls are swallowed.
SetTrace(connected, effect) ==
    LET t == Head(todo).id IN
    /\ \/ /\ connected /\ enabled' = effect /\ unsure' = unsure \ {t} /\ UNCHANGED <<acts, failed>>
       \/ /\ connected /\ Fault
          /\ enabled' \in {enabled, effect} /\ unsure' = unsure \cup {t}
       \/ /\ ~connected /\ unsure' = unsure \cup {t} /\ UNCHANGED <<enabled, acts, failed>>
    /\ todo' = Tail(todo)
    /\ UNCHANGED <<window, panel, queue, hub, axis, link, late>>

\* The panel enables over its own connection, the window over its own, which
\* is another one after a failed attempt to reconnect.
EnableTrace == Take("enable") /\ SetTrace(alive, enabled \cup {Head(todo).id})
ShowTrace == Take("show") /\ SetTrace(alive /\ attached, enabled \cup {Head(todo).id})
HideTrace == Take("hide") /\ SetTrace(alive /\ attached, enabled \ {Head(todo).id})

\* _running and the callback are reset before the call.
Halt ==
    /\ Take("halt") /\ running' = FALSE /\ todo' = Tail(todo)
    /\ UNCHANGED <<window, curves, freqs, plotted, queue, unsure, hub, device, link, counts>>

\* The push loop is joined; a join that times out leaves an event behind.  The
\* curves go whatever becomes of the call.
Unsubscribe ==
    /\ Take("unsubscribe") /\ todo' = Tail(todo)
    /\ IF alive
       THEN /\ sub' = {} /\ fresh' = FALSE /\ last' = NoAxis /\ measured' = NoAxis
            /\ \/ tail' = tail
               \/ /\ measured # NoAxis /\ tail = <<>>
                  /\ tail' = <<[freqs |-> IF axis = last THEN NoAxis ELSE axis,
                                values |-> measured, ids |-> sub, old |-> FALSE]>>
       ELSE UNCHANGED hub
    /\ curves' = {} /\ plotted' = [t \in Traces |-> Nothing]
    /\ UNCHANGED <<window, running, freqs, queue, unsure, device, link, counts>>

\* A curve for each trace of graph_ids; the window passes none when no Graph
\* box is checked, and then the statistics trace gets one.
Register ==
    /\ Take("register") /\ todo' = Tail(todo) /\ running' = TRUE
    /\ curves' = IF graph = {} THEN Shown ELSE graph
    /\ plotted' = [t \in Traces |-> Nothing]
    /\ UNCHANGED <<window, freqs, queue, unsure, hub, device, link, counts>>

\* An error of this call is not caught: it ends the handler.
Subscribe ==
    /\ Take("subscribe")
    /\ \/ /\ alive /\ sub' = Shown /\ todo' = Tail(todo) /\ UNCHANGED <<acts, failed>>
       \/ /\ sub' = {} /\ todo' = <<>>
          /\ IF alive THEN Fault ELSE UNCHANGED <<acts, failed>>
    /\ fresh' = (sub' # {}) /\ last' = NoAxis /\ measured' = NoAxis
    /\ UNCHANGED <<window, panel, queue, unsure, tail, device, link, late>>

Step == \/ EnableTrace \/ ShowTrace \/ HideTrace \/ Halt \/ Unsubscribe \/ Register \/ Subscribe

----------------------------------------------------------------------------
(* The push loop, the reader and the events. *)

\* The reader drops an event while no callback is registered.
Deliver(e) ==
    /\ Len(queue) < MaxQueue
    /\ queue' = IF running THEN Append(queue, e) ELSE queue

\* The axis comes first, in an event without values, unless its read fails.
FirstAxis ==
    /\ fresh /\ fresh' = FALSE
    /\ \/ /\ last' = axis
          /\ Deliver([freqs |-> axis, values |-> NoAxis, ids |-> {}, old |-> FALSE])
       \/ UNCHANGED <<last, queue>>
    /\ UNCHANGED <<window, todo, panel, unsure, sub, measured, tail, device, link, counts>>

\* All values of one event are read at one time here.
Fetch ==
    /\ sub # {} /\ ~fresh /\ measured = NoAxis /\ measured' = axis
    /\ UNCHANGED <<window, todo, panel, queue, unsure, sub, fresh, last, tail, device, link, counts>>

\* seen is the axis read with the values, NoAxis if that read failed.
Push(seen) ==
    /\ measured # NoAxis /\ measured' = NoAxis
    /\ Deliver([freqs |-> IF seen = last THEN NoAxis ELSE seen,
                values |-> measured, ids |-> sub, old |-> FALSE])
    /\ last' = IF seen = NoAxis THEN last ELSE seen
    /\ UNCHANGED <<window, todo, panel, unsure, sub, fresh, tail, device, link, counts>>

\* The last event of a loop that was not joined in time.
PushLate ==
    /\ tail # <<>> /\ tail' = <<>> /\ Deliver(Head(tail))
    /\ late' = (late \/ running)
    /\ UNCHANGED <<window, todo, panel, unsure, sub, fresh, last, measured, device, link, acts, failed>>

\* _on_subscription_data; all axes have the same number of points here.
Summarise(e) ==
    IF stats = NoTrace THEN UNCHANGED <<lastFreqs, display>>
    ELSE /\ lastFreqs' = IF e.freqs = NoAxis THEN lastFreqs ELSE e.freqs
         /\ display' = IF lastFreqs' # NoAxis /\ stats \in e.ids
                       THEN [on |-> lastFreqs', of |-> e.values] ELSE display

\* _on_event, by the panel the event was queued for.
OnEvent ==
    /\ todo = <<>> /\ queue # <<>> /\ queue' = Tail(queue)
    /\ LET e == Head(queue) IN
       \/ /\ ~e.old /\ running
          /\ freqs' = IF e.freqs = NoAxis THEN freqs ELSE e.freqs
          /\ plotted' = [t \in Traces |-> IF t \in curves \cap e.ids
                                          THEN [on |-> freqs', of |-> e.values] ELSE plotted[t]]
          /\ Summarise(e)
       \/ e.old /\ Summarise(e) /\ UNCHANGED <<freqs, plotted>>
       \/ ~e.old /\ ~running /\ UNCHANGED <<freqs, plotted, lastFreqs, display>>
    /\ UNCHANGED <<graph, stats, todo, running, curves, unsure, hub, device, link, counts>>

----------------------------------------------------------------------------
(* The device, the connection, and _connect of the window. *)

ChangeAxis(x) ==
    /\ x # axis /\ axis' = x /\ Act
    /\ UNCHANGED <<window, todo, panel, queue, unsure, hub, enabled, link, failed, late>>

HubForgets == sub' = {} /\ fresh' = FALSE /\ last' = NoAxis /\ measured' = NoAxis /\ tail' = <<>>

\* The connection breaks: the push loop ends at its next event.
Disconnected ==
    /\ alive /\ Fault /\ alive' = FALSE /\ HubForgets
    /\ UNCHANGED <<window, todo, panel, queue, unsure, device, attached, late>>

\* connect() raises: the window has a new client, and the old one stays open.
ConnectFails ==
    /\ todo = <<>> /\ Act /\ attached' = FALSE
    /\ UNCHANGED <<window, todo, panel, queue, unsure, hub, device, alive, failed, late>>

\* A new panel on a new connection.  The previous client of the window is
\* closed only afterwards, so a hub that still serves the panel's connection
\* may refuse the new one, and does when the window no longer had that client.
Connect ==
    /\ todo = <<>> /\ Act
    /\ attached' = TRUE /\ alive' \in {~alive, alive /\ attached} /\ HubForgets
    /\ running' = FALSE /\ curves' = {} /\ freqs' = NoAxis
    /\ plotted' = [t \in Traces |-> Nothing]
    /\ queue' = IF running THEN [i \in DOMAIN queue |-> [queue[i] EXCEPT !.old = TRUE]] ELSE <<>>
    /\ UNCHANGED <<window, todo, unsure, device, failed, late>>

----------------------------------------------------------------------------

Next ==
    \/ \E t \in Traces : ToggleGraph(t) \/ StatsOn(t)
    \/ StatsOff \/ IntervalChanged \/ Step \/ OnEvent
    \/ FirstAxis \/ Fetch \/ PushLate \/ \E x \in {axis, NoAxis} : Push(x)
    \/ \E x \in Axes : ChangeAxis(x)
    \/ Disconnected \/ ConnectFails \/ Connect

Spec == Init /\ [][Next]_vars

\* The threads run on; a read that is tried again and again succeeds at times.
FairSpec ==
    /\ Spec /\ WF_vars(Step) /\ WF_vars(OnEvent) /\ WF_vars(FirstAxis)
    /\ SF_vars(Fetch) /\ SF_vars(Push(axis))

----------------------------------------------------------------------------

\* Between two handlers the hub pushes exactly what the window shows, and
\* nothing for a panel that is stopped; only a failed call may leave a panel
\* that waits for events without a subscription (start, stop and
\* _update_subscription, through all restarts and reconnections).
PushesShown ==
    todo = <<>> /\ alive =>
        IF running THEN sub = Shown \/ (sub = {} /\ failed) ELSE sub = {}

\* Whatever the order in which boxes and buttons are used, the device shows
\* every trace the panel has subscribed to, unless the last call about that
\* trace failed (start enables what _trace_manage_enabled may have disabled).
ShownEnabled == todo = <<>> /\ running => Shown \subseteq enabled \cup unsure

\* The first event of a subscription is not missed, stale events are
\* overtaken: once the user, the axis and the faults come to rest, every
\* curve and the statistics end up drawn on the axis the device sweeps, with
\* values measured on it.  An event that outlives its subscription may undo
\* this for good, since _on_event does not look at subscription ids.
GraphSettles ==
    <>[](alive /\ sub # {} /\ todo = <<>>) =>
        \/ <>late
        \/ <>[](LET current == [on |-> axis, of |-> axis] IN
                    /\ \A t \in curves : plotted[t] = current
                    /\ stats # NoTrace => display = current)
=============================================================================
