------------------------ MODULE SubscriptionsProofs ------------------------
(***************************************************************************)
(* Theorems about Subscriptions, for any number of subscriptions.          *)
(***************************************************************************)
EXTENDS Subscriptions, TLAPS

\* While the manager joins, the thread it joins has been told to stop; when
\* it creates the next one, no subscription is active.
ManagerInv ==
    /\ manager \in {"replace", "remove"} => \A s \in Subs : active = s => stop[s]
    /\ manager = "create" => active = NoSub

\* A late event needs the stop to fall between a thread's test of the event
\* and its send, and a stopped thread passes that test no more.
LateInv ==
    \A s \in Subs :
        /\ late[s] <= 1
        /\ ~stop[s] \/ pc[s] \in {"sendfirst", "send"} => late[s] = 0

SubsInv == TypeOK /\ ManagerInv /\ LateInv /\ NoOrphan

LEMMA SubsInit == Init => SubsInv
BY MaxSubsAssumption
   DEF Init, SubsInv, TypeOK, ManagerInv, LateInv, NoOrphan, Live, Subs, NoSub, Locations

LEMMA SubsManager == SubsInv /\ (Subscribe \/ Unsubscribe \/ ManagerStep) => SubsInv'
<1> SUFFICES ASSUME SubsInv, Subscribe \/ Unsubscribe \/ ManagerStep PROVE SubsInv'
  OBVIOUS
<1> USE MaxSubsAssumption
    DEF SubsInv, TypeOK, ManagerInv, LateInv, NoOrphan, Live, Subs, NoSub, Locations, envVars,
        threadVars
<1>1. CASE Subscribe \/ Unsubscribe
  BY <1>1 DEF Subscribe, Unsubscribe, SetStop
<1>2. CASE Joined \/ JoinTimesOut
  BY <1>2 DEF Joined, JoinTimesOut, Forget
<1>3. CASE Create
  BY <1>3 DEF Create
<1>4. CASE CreateFails
  BY <1>4 DEF CreateFails
<1>5. QED
  BY <1>1, <1>2, <1>3, <1>4 DEF ManagerStep

LEMMA SubsThread == ASSUME SubsInv, NEW s \in Subs, ThreadStep(s) PROVE SubsInv'
<1> USE DEF SubsInv, TypeOK, ManagerInv, LateInv, NoOrphan, Live, Locations, envVars,
            managerVars, Goto
<1>1. CASE InitialFrequencies(s) \/ InitialFrequenciesFail(s)
  BY <1>1 DEF InitialFrequencies, InitialFrequenciesFail
<1>2. CASE PushStopped(s) \/ Push(s)
  BY <1>2 DEF PushStopped, Push
<1>3. CASE Send(s)
  BY <1>3 DEF Send
<1>4. CASE SendFails(s) \/ LoopEnds(s)
  BY <1>4 DEF SendFails, LoopEnds
<1>5. CASE ReadTraces(s) \/ ReadTracesFails(s)
  BY <1>5 DEF ReadTraces, ReadTracesFails
<1>6. CASE ReadFrequencies(s) \/ ReadFrequenciesFails(s)
  BY <1>6 DEF ReadFrequencies, ReadFrequenciesFails
<1>7. CASE Pace(s)
  BY <1>7 DEF Pace
<1>8. QED
  BY <1>1, <1>2, <1>3, <1>4, <1>5, <1>6, <1>7 DEF ThreadStep

LEMMA SubsStep == SubsInv /\ [Next]_vars => SubsInv'
<1> SUFFICES ASSUME SubsInv, [Next]_vars PROVE SubsInv'
  OBVIOUS
<1>1. CASE Subscribe \/ Unsubscribe \/ ManagerStep
  BY <1>1, SubsManager
<1>2. ASSUME NEW s \in Subs, ThreadStep(s) PROVE SubsInv'
  BY <1>2, SubsThread
<1>3. CASE SessionChanges \/ ConnectionCloses \/ SweepChanges \/ DeviceLost \/ UNCHANGED vars
  BY <1>3 DEF SessionChanges, ConnectionCloses, SweepChanges, DeviceLost, vars, envVars,
              managerVars, threadVars, SubsInv, TypeOK, ManagerInv, LateInv, NoOrphan, Live
<1>4. QED
  BY <1>1, <1>2, <1>3 DEF Next

LEMMA SubsHolds == Spec => []SubsInv
BY SubsInit, SubsStep, PTL DEF Spec

\* The variables of the manager and of its threads keep their types.
THEOREM SubsTypeCorrect == Spec => []TypeOK
BY SubsHolds, PTL DEF SubsInv

\* Whatever joins time out and whatever replacements fail, every push loop
\* that has not been told to stop is the active one, which the next
\* subscribe, unsubscribe or shutdown stops.
THEOREM NeverOrphaned == Spec => []NoOrphan
BY SubsHolds, PTL DEF SubsInv

\* A stopped subscription sends at most one event more.
THEOREM AtMostOneLateEvent == Spec => []OneLateEvent
<1>1. SubsInv => OneLateEvent
  BY DEF SubsInv, LateInv, OneLateEvent
<1>2. QED
  BY <1>1, SubsHolds, PTL

-----------------------------------------------------------------------------
(* What a controller knows of the axis.                                    *)

\* An event to send carries what its loop read last, or nothing; what it
\* carries, or what was sent before, is what the loop takes to be known.  A
\* subscription that is created is a new one.
AxisInv ==
    /\ \A s \in Subs : nextId <= s => pc[s] = "unborn"
    /\ \A s \in Subs : pc[s] # "ended" /\ ~stop[s] =>
           /\ pc[s] \in Pushing => out[s] \in {last[s], NoAxis}
           /\ view[s] = last[s] \/ (pc[s] \in Pushing /\ out[s] = last[s] /\ out[s] # NoAxis)

LEMMA AxisInit == Init => AxisInv
BY DEF Init, AxisInv, Pushing

\* Only its own thread changes what a subscription has read and sent.
LEMMA AxisThread == ASSUME TypeOK, AxisInv, NEW s \in Subs, ThreadStep(s) PROVE AxisInv'
<1> USE NoAxisAssumption
    DEF TypeOK, AxisInv, Pushing, Locations, envVars, managerVars, Goto
<1>1. CASE InitialFrequencies(s) \/ InitialFrequenciesFail(s)
  BY <1>1 DEF InitialFrequencies, InitialFrequenciesFail
<1>2. CASE PushStopped(s) \/ Push(s)
  BY <1>2 DEF PushStopped, Push
<1>3. CASE Send(s)
  BY <1>3 DEF Send
<1>4. CASE SendFails(s) \/ LoopEnds(s)
  BY <1>4 DEF SendFails, LoopEnds
<1>5. CASE ReadTraces(s) \/ ReadTracesFails(s)
  BY <1>5 DEF ReadTraces, ReadTracesFails
<1>6. CASE ReadFrequencies(s) \/ ReadFrequenciesFails(s)
  BY <1>6 DEF ReadFrequencies, ReadFrequenciesFails
<1>7. CASE Pace(s)
  BY <1>7 DEF Pace
<1>8. QED
  BY <1>1, <1>2, <1>3, <1>4, <1>5, <1>6, <1>7 DEF ThreadStep

LEMMA AxisStep == TypeOK /\ AxisInv /\ [Next]_vars => AxisInv'
<1> SUFFICES ASSUME TypeOK, AxisInv, [Next]_vars PROVE AxisInv'
  OBVIOUS
<1>1. CASE Subscribe \/ Unsubscribe
  BY <1>1 DEF Subscribe, Unsubscribe, SetStop, AxisInv, TypeOK
<1>2. CASE Joined \/ JoinTimesOut \/ CreateFails
  BY <1>2 DEF Joined, JoinTimesOut, CreateFails, Forget, AxisInv, threadVars
<1>3. CASE Create
  <2>1. /\ \A s \in Subs : nextId' <= s => s # nextId /\ nextId <= s
        /\ pc[nextId] = "unborn"
    BY <1>3, MaxSubsAssumption DEF Create, AxisInv, TypeOK, Subs
  <2>2. QED
    BY <1>3, <2>1 DEF Create, AxisInv, TypeOK, Pushing
<1>4. ASSUME NEW s \in Subs, ThreadStep(s) PROVE AxisInv'
  BY <1>4, AxisThread
<1>5. CASE SessionChanges \/ ConnectionCloses \/ SweepChanges \/ DeviceLost \/ UNCHANGED vars
  BY <1>5 DEF SessionChanges, ConnectionCloses, SweepChanges, DeviceLost, vars, threadVars,
              managerVars, AxisInv
<1>6. QED
  BY <1>1, <1>2, <1>3, <1>4, <1>5 DEF Next, ManagerStep

\* A push loop that has not been told to stop never takes an axis for known
\* that its controller has neither been sent nor is about to be.
THEOREM AxisAlwaysKnown == Spec => []AxisKnown
<1>1. Spec => []TypeOK
  BY SubsTypeCorrect
<1>2. AxisInv => AxisKnown
  BY DEF AxisInv, AxisKnown, Live
<1>3. QED
  BY <1>1, <1>2, AxisInit, AxisStep, PTL DEF Spec
=============================================================================
