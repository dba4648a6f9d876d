--------------------------- MODULE Subscriptions ---------------------------
(***************************************************************************)
(* The hub's live-graph subscriptions (hub/subscriptions.py): the manager, *)
(* which keeps one active subscription, and one thread per subscription    *)
(* that reads the device and pushes events to a controller.                *)
(*                                                                         *)
(* subscribe, unsubscribe and shutdown run under the manager's lock, which *)
(* is held while the old thread is joined; the join gives up after two     *)
(* seconds.  Trace values and frequencies are separate reads of the        *)
(* device, whose sweep other requests may change in between; axis is the   *)
(* frequency axis the device is sweeping.                                  *)
(***************************************************************************)
EXTENDS Naturals, FiniteSets

CONSTANTS
    Connections,    \* controller connections
    NoConnection,
    Axes,           \* frequency axes the device may sweep
    NoAxis,
    MaxSubs         \* bound: how many subscriptions are started in all

ASSUME NoConnectionAssumption == NoConnection \notin Connections
ASSUME NoAxisAssumption == NoAxis \notin Axes
ASSUME MaxSubsAssumption == MaxSubs \in Nat

Subs == 0 .. MaxSubs - 1

\* The value of _active when it is None.
NoSub == MaxSubs

VARIABLES
    current,        \* connection of the active session
    closed,         \* connections closed on either side
    device,         \* "ok", or "lost" once its serial link is broken
    axis,           \* the axis the device sweeps now
    active,         \* _active
    nextId,         \* _next_id
    manager,        \* "free", or the method that holds the lock
    pc,             \* where each subscription's thread is
    stop,           \* its stop event
    target,         \* its connection
    last,           \* its last_freqs
    out,            \* the frequencies in the event it is about to push
    view,           \* the axis its controller was last sent
    late            \* events it has sent after its stop event was set

envVars == <<current, closed, device, axis>>
managerVars == <<active, nextId, manager>>
threadVars == <<pc, stop, target, last, out, view, late>>
vars == <<envVars, managerVars, threadVars>>

Locations == {"unborn", "start", "first", "sendfirst", "loop", "freqs", "push", "send",
              "pace", "ended"}

\* A thread with an event to send.
Pushing == {"first", "sendfirst", "push", "send"}

\* The thread of s has been started and has not returned.
Live(s) == pc[s] \notin {"unborn", "ended"}

TypeOK ==
    /\ current \in Connections \cup {NoConnection}
    /\ closed \subseteq Connections
    /\ device \in {"ok", "lost"}
    /\ axis \in Axes
    /\ active \in Subs \cup {NoSub}
    /\ nextId \in 0 .. MaxSubs
    /\ manager \in {"free", "replace", "create", "remove"}
    /\ pc \in [Subs -> Locations]
    /\ stop \in [Subs -> BOOLEAN]
    /\ target \in [Subs -> Connections \cup {NoConnection}]
    /\ last \in [Subs -> Axes \cup {NoAxis}]
    /\ out \in [Subs -> Axes \cup {NoAxis}]
    /\ view \in [Subs -> Axes \cup {NoAxis}]
    /\ late \in [Subs -> Nat]
    /\ \A s \in Subs : pc[s] # "unborn" => target[s] \in Connections

Init ==
    /\ current \in Connections
    /\ closed = {}
    /\ device = "ok"
    /\ axis \in Axes
    /\ active = NoSub
    /\ nextId = 0
    /\ manager = "free"
    /\ pc = [s \in Subs |-> "unborn"]
    /\ stop = [s \in Subs |-> FALSE]
    /\ target = [s \in Subs |-> NoConnection]
    /\ last = [s \in Subs |-> NoAxis]
    /\ out = [s \in Subs |-> NoAxis]
    /\ view = [s \in Subs |-> NoAxis]
    /\ late = [s \in Subs |-> 0]

-----------------------------------------------------------------------------
(* SubscriptionManager: _stop_locked sets the event and joins. *)

SetStop == stop' = [s \in Subs |-> stop[s] \/ s = active]

\* A mutated replacement that keeps the old subscription registered only
\* until the new one is: the event is never set.
SubscribeUnstopped ==
    /\ manager = "free"
    /\ nextId < MaxSubs
    /\ manager' = "replace"
    /\ UNCHANGED <<envVars, active, nextId, threadVars>>

Subscribe ==
    /\ manager = "free"
    /\ nextId < MaxSubs
    /\ SetStop
    /\ manager' = "replace"
    /\ UNCHANGED <<envVars, active, nextId, pc, target, last, out, view, late>>

\* unsubscribe, and shutdown, which is the same steps.
Unsubscribe ==
    /\ manager = "free"
    /\ SetStop
    /\ manager' = "remove"
    /\ UNCHANGED <<envVars, active, nextId, pc, target, last, out, view, late>>

Forget ==
    /\ active' = NoSub
    /\ manager' = IF manager = "replace" THEN "create" ELSE "free"
    /\ UNCHANGED <<envVars, nextId, threadVars>>

Joined ==
    /\ manager \in {"replace", "remove"}
    /\ \A s \in Subs : active = s => ~Live(s)
    /\ Forget

\* thread.join(timeout=2.0) returns although the thread runs on.
JoinTimesOut ==
    /\ manager \in {"replace", "remove"}
    /\ \E s \in Subs : active = s /\ Live(s)
    /\ Forget

\* The session is read now; its connection is the one the events go to.
Create ==
    /\ manager = "create"
    /\ current # NoConnection
    /\ nextId \in Subs
    /\ pc' = [pc EXCEPT ![nextId] = "start"]
    /\ target' = [target EXCEPT ![nextId] = current]
    /\ active' = nextId
    /\ nextId' = nextId + 1
    /\ manager' = "free"
    /\ UNCHANGED <<envVars, stop, last, out, view, late>>

\* No session, no device selected, or a device that is no longer registered:
\* the old subscription has been stopped all the same.
CreateFails ==
    /\ manager = "create"
    /\ manager' = "free"
    /\ UNCHANGED <<envVars, active, nextId, threadVars>>

-----------------------------------------------------------------------------
(* Subscription._run *)

Goto(s, l) == pc' = [pc EXCEPT ![s] = l]

\* A mutated start that leaves the first axis to the first event with values.
InitialFrequenciesUnsent(s) ==
    /\ pc[s] = "start"
    /\ device = "ok"
    /\ last' = [last EXCEPT ![s] = axis]
    /\ Goto(s, "loop")
    /\ UNCHANGED <<envVars, managerVars, stop, target, out, view, late>>

\* A read of the frequencies: the axis being swept, or None when it fails.
InitialFrequencies(s) ==
    /\ pc[s] = "start"
    /\ device = "ok"
    /\ last' = [last EXCEPT ![s] = axis]
    /\ out' = [out EXCEPT ![s] = axis]
    /\ Goto(s, "first")
    /\ UNCHANGED <<envVars, managerVars, stop, target, view, late>>

InitialFrequenciesFail(s) ==
    /\ pc[s] = "start"
    /\ Goto(s, "loop")
    /\ UNCHANGED <<envVars, managerVars, stop, target, last, out, view, late>>

\* _push returns at once when stop is set ...
PushStopped(s) ==
    /\ pc[s] \in {"first", "push"}
    /\ stop[s]
    /\ Goto(s, IF pc[s] = "first" THEN "loop" ELSE "pace")
    /\ UNCHANGED <<envVars, managerVars, stop, target, last, out, view, late>>

Push(s) ==
    /\ pc[s] \in {"first", "push"}
    /\ ~stop[s]
    /\ Goto(s, IF pc[s] = "first" THEN "sendfirst" ELSE "send")
    /\ UNCHANGED <<envVars, managerVars, stop, target, last, out, view, late>>

\* A mutated send that may repeat the event it has just sent.
SendAgain(s) ==
    /\ pc[s] \in {"sendfirst", "send"}
    /\ target[s] \notin closed
    /\ view' = [view EXCEPT ![s] = IF out[s] = NoAxis THEN @ ELSE out[s]]
    /\ late' = [late EXCEPT ![s] = IF stop[s] THEN @ + 1 ELSE @]
    /\ \/ Goto(s, IF pc[s] = "sendfirst" THEN "loop" ELSE "pace")
       \/ Goto(s, pc[s])
    /\ UNCHANGED <<envVars, managerVars, stop, target, last, out>>

\* ... and sends after that test, so an event can follow the stop.
Send(s) ==
    /\ pc[s] \in {"sendfirst", "send"}
    /\ target[s] \notin closed
    /\ view' = [view EXCEPT ![s] = IF out[s] = NoAxis THEN @ ELSE out[s]]
    /\ late' = [late EXCEPT ![s] = IF stop[s] THEN @ + 1 ELSE @]
    /\ Goto(s, IF pc[s] = "sendfirst" THEN "loop" ELSE "pace")
    /\ UNCHANGED <<envVars, managerVars, stop, target, last, out>>

\* A mutated push loop that takes a failed send for one lost event.
SendFailsIgnored(s) ==
    /\ pc[s] \in {"sendfirst", "send"}
    /\ target[s] \in closed
    /\ Goto(s, IF pc[s] = "sendfirst" THEN "loop" ELSE "pace")
    /\ UNCHANGED <<envVars, managerVars, stop, target, last, out, view, late>>

\* The send raises and the thread ends.
SendFails(s) ==
    /\ pc[s] \in {"sendfirst", "send"}
    /\ target[s] \in closed
    /\ Goto(s, "ended")
    /\ UNCHANGED <<envVars, managerVars, stop, target, last, out, view, late>>

LoopEnds(s) ==
    /\ pc[s] = "loop"
    /\ stop[s]
    /\ Goto(s, "ended")
    /\ UNCHANGED <<envVars, managerVars, stop, target, last, out, view, late>>

\* Every requested trace is read.
ReadTraces(s) ==
    /\ pc[s] = "loop"
    /\ ~stop[s]
    /\ device = "ok"
    /\ Goto(s, "freqs")
    /\ UNCHANGED <<envVars, managerVars, stop, target, last, out, view, late>>

\* A trace cannot be read, for whatever reason: the cycle is skipped.
ReadTracesFails(s) ==
    /\ pc[s] = "loop"
    /\ ~stop[s]
    /\ Goto(s, "pace")
    /\ UNCHANGED <<envVars, managerVars, stop, target, last, out, view, late>>

\* A mutated read that sends the frequencies only the first time.
ReadFrequenciesOnce(s) ==
    /\ pc[s] = "freqs"
    /\ device = "ok"
    /\ last' = [last EXCEPT ![s] = axis]
    /\ out' = [out EXCEPT ![s] = IF last[s] = NoAxis THEN axis ELSE NoAxis]
    /\ Goto(s, "push")
    /\ UNCHANGED <<envVars, managerVars, stop, target, view, late>>

\* The frequencies go into the event when they differ from the last ones.
ReadFrequencies(s) ==
    /\ pc[s] = "freqs"
    /\ device = "ok"
    /\ last' = [last EXCEPT ![s] = axis]
    /\ out' = [out EXCEPT ![s] = IF axis = last[s] THEN NoAxis ELSE axis]
    /\ Goto(s, "push")
    /\ UNCHANGED <<envVars, managerVars, stop, target, view, late>>

ReadFrequenciesFails(s) ==
    /\ pc[s] = "freqs"
    /\ out' = [out EXCEPT ![s] = NoAxis]
    /\ Goto(s, "push")
    /\ UNCHANGED <<envVars, managerVars, stop, target, last, view, late>>

\* The pause of the interval, which the stop event cuts short.
Pace(s) ==
    /\ pc[s] = "pace"
    /\ Goto(s, "loop")
    /\ UNCHANGED <<envVars, managerVars, stop, target, last, out, view, late>>

-----------------------------------------------------------------------------
(* The rest of the hub: sessions end and begin, connections close, another *)
(* request changes the sweep, the device is unplugged.                     *)

SessionChanges ==
    /\ current' \in ((Connections \ closed) \cup {NoConnection}) \ {current}
    /\ UNCHANGED <<closed, device, axis, managerVars, threadVars>>

ConnectionCloses ==
    /\ \E c \in Connections \ closed : closed' = closed \cup {c}
    /\ UNCHANGED <<current, device, axis, managerVars, threadVars>>

SweepChanges ==
    /\ axis' \in Axes \ {axis}
    /\ UNCHANGED <<current, closed, device, managerVars, threadVars>>

DeviceLost ==
    /\ device = "ok"
    /\ device' = "lost"
    /\ UNCHANGED <<current, closed, axis, managerVars, threadVars>>

-----------------------------------------------------------------------------
ManagerStep == Joined \/ JoinTimesOut \/ Create \/ CreateFails

ThreadStep(s) ==
    InitialFrequencies(s) \/ InitialFrequenciesFail(s) \/ PushStopped(s) \/ Push(s)
    \/ Send(s) \/ SendFails(s) \/ LoopEnds(s) \/ ReadTraces(s) \/ ReadTracesFails(s)
    \/ ReadFrequencies(s) \/ ReadFrequenciesFails(s) \/ Pace(s)

Next ==
    \/ Subscribe \/ Unsubscribe \/ ManagerStep
    \/ \E s \in Subs : ThreadStep(s)
    \/ SessionChanges \/ ConnectionCloses \/ SweepChanges \/ DeviceLost

\* The threads run, and a device that is read again and again while it is
\* connected answers at some time.
Fairness ==
    /\ WF_vars(ManagerStep)
    /\ \A s \in Subs : /\ WF_vars(ThreadStep(s))
                       /\ SF_vars(ReadTraces(s))
                       /\ SF_vars(ReadFrequencies(s))

Spec == Init /\ [][Next]_vars
FairSpec == Spec /\ Fairness

-----------------------------------------------------------------------------
(* Properties. *)

\* A push loop that has not been told to stop is the manager's active one:
\* none is left running that nothing could stop.
NoOrphan == \A s \in Subs : Live(s) /\ ~stop[s] => active = s

\* After its stop event at most one event of a subscription is still sent,
\* the one whose test of the event came before.
OneLateEvent == \A s \in Subs : late[s] <= 1

\* What a push loop takes its controller to know (last_freqs) is the axis the
\* controller was sent last, or is in the event that is about to be sent: no
\* change is taken for sent, whatever reads fail and whenever the sweep moves.
AxisKnown ==
    \A s \in Subs : Live(s) /\ ~stop[s] /\ view[s] # last[s]
        => pc[s] \in Pushing /\ out[s] = last[s]

\* A controller's axis catches up with the sweep although frequencies are
\* sent only when they change and some reads fail: while its subscription
\* lasts and the sweep rests, it comes to have the axis that is swept.
AxisConverges ==
    <>[](active \in Subs /\ Live(active) /\ device = "ok")
        => []<>(active \in Subs /\ view[active] = axis) \/ []<><<axis' # axis>>_axis

\* Loops of controllers that have gone end, replaced or not, while the device
\* answers: the next send fails, and nothing else needs to stop them.
EndsWithConnection ==
    (\E s \in Subs : Live(s) /\ target[s] \in closed)
        ~> (device = "lost" \/ \A s \in Subs : target[s] \in closed => ~Live(s))
=============================================================================
