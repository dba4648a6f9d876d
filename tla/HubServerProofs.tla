-------------------------- MODULE HubServerProofs --------------------------
(***************************************************************************)
(* Theorems about HubServer, for any number of connections and devices.    *)
(***************************************************************************)
EXTENDS HubServer, TLAPS

-----------------------------------------------------------------------------
(* Type correctness. *)

LEMMA TypeInit == Init => TypeOK
<1> SUFFICES ASSUME Init PROVE TypeOK
  OBVIOUS
<1>1. SessionTypeOK /\ Registry!TableTypeOK
  BY DEF Init, SessionInit, SessionTypeOK, Registry!TableInit, Registry!TableTypeOK
<1>2. /\ pc \in [Connections -> Locations] /\ op \in [Connections -> AllOps]
      /\ \A c \in Connections : pc[c] = "offered"
  BY DEF Init, Locations, AllOps
<1>3. QED
  BY <1>1, <1>2 DEF Init, TypeOK

\* Whatever thread moves, and wherever, the variables of the threads keep
\* their types.
LEMMA TypeArrive ==
    ASSUME TypeOK, NEW c \in Connections, Arrive(c)
    PROVE  TypeOK'
<1>1. PICK l \in {"admit", "done"} : pc' = [pc EXCEPT ![c] = l]
  BY DEF Arrive, Accept, HandshakeRejected, HandshakeBroken, Goto
<1>2. accepting' \in BOOLEAN /\ UNCHANGED <<sessionVars, registryVars, running, op, sess, dev, fmt, gone>>
  BY DEF TypeOK, Arrive, Accept, HandshakeRejected, HandshakeBroken
<1>3. pc' \in [Connections -> Locations]
  BY <1>1 DEF TypeOK, Locations
<1>4. \A e \in Connections : pc'[e] \in {"lookup", "format"} => sess'[e] \in Connections
  BY <1>1, <1>2 DEF TypeOK
<1>5. QED
  BY <1>2, <1>3, <1>4 DEF TypeOK, SessionTypeOK, Registry!TableTypeOK, sessionVars, registryVars

LEMMA TypeEnter ==
    ASSUME TypeOK, NEW c \in Connections, Enter(c)
    PROVE  TypeOK'
<1> USE DEF TypeOK, SessionTypeOK, Registry!TableTypeOK, Locations, Serving, Closing, AllOps,
            Goto, sessionVars, registryVars, serverVars, OnlyThread, LoopTop, ScopeEnds
<1>1. CASE AdmitSession(c)
  BY <1>1 DEF AdmitSession, Admit, CloseConnection
<1>2. CASE AdmitBusy(c)
  BY <1>2 DEF AdmitBusy
<1>3. CASE AdmitFailed(c)
  BY <1>3 DEF AdmitFailed, CloseConnection
<1>4. CASE ListOneDevice(c)
  BY <1>4 DEF ListOneDevice
<1>5. CASE ListOtherwise(c)
  BY <1>5 DEF ListOtherwise
<1>6. CASE AutoSelect(c)
  BY <1>6 DEF AutoSelect, SelectDevice
<1>7. CASE AutoSelectFails(c)
  BY <1>7 DEF AutoSelectFails
<1>8. CASE Reject(c)
  BY <1>8 DEF Reject, CloseConnection
<1>9. CASE RejectFails(c)
  BY <1>9 DEF RejectFails
<1>10. QED
  BY <1>1, <1>2, <1>3, <1>4, <1>5, <1>6, <1>7, <1>8, <1>9 DEF Enter

LEMMA TypeHandle ==
    ASSUME TypeOK, NEW c \in Connections, Handle(c)
    PROVE  TypeOK'
<1> USE DEF TypeOK, SessionTypeOK, Registry!TableTypeOK, Locations, Serving, Closing, AllOps,
            Goto, sessionVars, registryVars, serverVars, OnlyThread, LoopTop, ScopeEnds
<1>1. CASE DispatchQuery(c)
  BY <1>1 DEF DispatchQuery
<1>2. CASE DispatchSelect(c)
  BY <1>2 DEF DispatchSelect
<1>3. CASE Select(c)
  BY <1>3 DEF Select, SelectDevice
<1>4. CASE DispatchDisconnect(c)
  BY <1>4 DEF DispatchDisconnect, Disconnect
<1>5. CASE DispatchTakeover(c)
  BY <1>5 DEF DispatchTakeover, AllowTakeover
<1>6. CASE DispatchDevice(c)
  BY <1>6 DEF DispatchDevice
<1>7. CASE Lookup(c)
  BY <1>7 DEF Lookup
<1>8. CASE CaptureSession(c)
  BY <1>8 DEF CaptureSession
<1>9. CASE CaptureModel(c)
  BY <1>9 DEF CaptureModel
<1>10. CASE Execute(c)
  BY <1>10 DEF Execute
<1>11. CASE Reply(c)
  BY <1>11 DEF Reply
<1>12. CASE ReplyFails(c)
  BY <1>12 DEF ReplyFails
<1>13. QED
  BY <1>1, <1>2, <1>3, <1>4, <1>5, <1>6, <1>7, <1>8, <1>9, <1>10, <1>11, <1>12 DEF Handle

LEMMA TypeInput ==
    ASSUME TypeOK, NEW c \in Connections, Input(c)
    PROVE  TypeOK'
<1> USE DEF TypeOK, SessionTypeOK, Registry!TableTypeOK, Locations, Serving, Closing, AllOps,
            Goto, sessionVars, registryVars, serverVars, OnlyThread, LoopTop
<1>1. CASE Receive(c)
  BY <1>1, OpsAssumption DEF Receive
<1>2. CASE IgnoreMessage(c)
  BY <1>2 DEF IgnoreMessage
<1>3. CASE ReceiveFails(c)
  BY <1>3 DEF ReceiveFails
<1>4. QED
  BY <1>1, <1>2, <1>3 DEF Input

LEMMA TypeLeave ==
    ASSUME TypeOK, NEW c \in Connections, Leave(c)
    PROVE  TypeOK'
<1> USE DEF TypeOK, SessionTypeOK, Registry!TableTypeOK, Locations, Serving, Closing, AllOps,
            Goto, sessionVars, registryVars, serverVars, OnlyThread
<1>1. CASE Cleanup(c)
  BY <1>1 DEF Cleanup
<1>2. CASE Release(c)
  BY <1>2 DEF Release, Disconnect
<1>3. CASE Close(c)
  BY <1>3 DEF Close, CloseConnection
<1>4. QED
  BY <1>1, <1>2, <1>3 DEF Leave

LEMMA TypeNext == TypeOK /\ [Next]_vars => TypeOK'
<1> SUFFICES ASSUME TypeOK, [Next]_vars PROVE TypeOK'
  OBVIOUS
<1>1. ASSUME NEW c \in Connections,
             Arrive(c) \/ Enter(c) \/ Input(c) \/ Handle(c) \/ Leave(c)
      PROVE  TypeOK'
  BY <1>1, TypeArrive, TypeEnter, TypeInput, TypeHandle, TypeLeave
<1>2. ASSUME NEW c \in Connections, PeerGone(c) PROVE TypeOK'
  BY <1>2 DEF PeerGone, TypeOK, SessionTypeOK, Registry!TableTypeOK, sessionVars, serverVars,
              registryVars, threadVars
<1>3. CASE RegistryStep
  BY <1>3 DEF RegistryStep, TypeOK, SessionTypeOK, Registry!TableTypeOK, Registry!AddDevice,
              Registry!DropDevices, sessionVars, serverVars, threadVars
<1>4. CASE StopServing \/ CloseListener \/ CloseRegistry
  BY <1>4 DEF StopServing, CloseListener, CloseRegistry, TypeOK, SessionTypeOK,
              Registry!TableTypeOK, Registry!ShutTable, sessionVars, serverVars, registryVars,
              threadVars
<1>5. CASE UNCHANGED vars
  BY <1>5 DEF vars, TypeOK, SessionTypeOK, Registry!TableTypeOK, sessionVars, serverVars,
              registryVars, threadVars
<1>6. QED
  BY <1>1, <1>2, <1>3, <1>4, <1>5 DEF Next

\* Every variable of the hub keeps its type, whatever the requests, the
\* peers and the poller do.
THEOREM TypeCorrect == Spec => []TypeOK
BY TypeInit, TypeNext, PTL DEF Spec

-----------------------------------------------------------------------------
(* A session never outlives the thread that clears it.                     *)

LEMMA SessionHasServerStep ==
    TypeOK /\ SessionHasServer /\ [Next]_vars => SessionHasServer'
<1> SUFFICES ASSUME TypeOK, SessionHasServer, [Next]_vars PROVE SessionHasServer'
  OBVIOUS
<1> USE NoConnectionAssumption
    DEF TypeOK, SessionTypeOK, SessionHasServer, Locations, Serving, Closing, Goto,
        sessionVars, registryVars, serverVars, OnlyThread, LoopTop
<1>1. ASSUME NEW c \in Connections, Arrive(c) PROVE SessionHasServer'
  BY <1>1 DEF Arrive, Accept, HandshakeRejected, HandshakeBroken
<1>2. ASSUME NEW c \in Connections, Enter(c) PROVE SessionHasServer'
  <2>1. CASE AdmitSession(c)
    BY <2>1 DEF AdmitSession, Admit
  <2>2. CASE AdmitBusy(c)
    BY <2>2 DEF AdmitBusy
  <2>3. CASE ListOneDevice(c) \/ ListOtherwise(c)
    BY <2>3 DEF ListOneDevice, ListOtherwise
  <2>4. CASE AutoSelect(c) \/ AutoSelectFails(c)
    BY <2>4 DEF AutoSelect, AutoSelectFails, SelectDevice
  <2>5. CASE Reject(c) \/ RejectFails(c)
    BY <2>5 DEF Reject, RejectFails
  <2>6. CASE AdmitFailed(c)
    BY <2>6 DEF AdmitFailed
  <2>7. QED
    BY <1>2, <2>1, <2>2, <2>3, <2>4, <2>5, <2>6 DEF Enter
<1>3. ASSUME NEW c \in Connections, Input(c) PROVE SessionHasServer'
  BY <1>3 DEF Input, Receive, IgnoreMessage, ReceiveFails
<1>4. ASSUME NEW c \in Connections, Handle(c) PROVE SessionHasServer'
  <2>1. CASE DispatchQuery(c) \/ DispatchSelect(c) \/ DispatchDevice(c)
    BY <2>1 DEF DispatchQuery, DispatchSelect, DispatchDevice
  <2>2. CASE Select(c)
    BY <2>2 DEF Select, SelectDevice
  <2>3. CASE DispatchDisconnect(c) \/ DispatchTakeover(c)
    BY <2>3 DEF DispatchDisconnect, DispatchTakeover, Disconnect, AllowTakeover
  <2>4. CASE Lookup(c) \/ CaptureSession(c) \/ CaptureModel(c)
    BY <2>4 DEF Lookup, CaptureSession, CaptureModel
  <2>5. CASE Execute(c) \/ Reply(c) \/ ReplyFails(c)
    BY <2>5 DEF Execute, Reply, ReplyFails
  <2>6. QED
    BY <1>4, <2>1, <2>2, <2>3, <2>4, <2>5 DEF Handle
<1>5. ASSUME NEW c \in Connections, Leave(c) PROVE SessionHasServer'
  BY <1>5 DEF Leave, Cleanup, Release, Close, Disconnect
<1>6. ASSUME NEW c \in Connections, PeerGone(c) PROVE SessionHasServer'
  BY <1>6 DEF PeerGone, threadVars
<1>7. CASE RegistryStep \/ StopServing \/ CloseListener \/ CloseRegistry
  BY <1>7 DEF RegistryStep, StopServing, CloseListener, CloseRegistry, threadVars
<1>8. CASE UNCHANGED vars
  BY <1>8 DEF vars, threadVars
<1>9. QED
  BY <1>1, <1>2, <1>3, <1>4, <1>5, <1>6, <1>7, <1>8 DEF Next

\* Whatever requests are sent (a disconnect or a takeover of another's
\* session included), the active session belongs to a thread that has not
\* passed _serve's cleanup and so will still clear it.
THEOREM SessionAlwaysServed == Spec => []SessionHasServer
<1>1. Init => SessionHasServer
  BY DEF Init, SessionInit, SessionHasServer
<1>2. QED
  BY <1>1, TypeCorrect, SessionHasServerStep, PTL DEF Spec

-----------------------------------------------------------------------------
(* Isolation: with no request that ends, or opens to takeover, a session   *)
(* that may be another's, the thread of a connection runs only while that  *)
(* connection holds the session.                                           *)

NoForeignOps == Ops \cap {"disconnect", "force_takeover"} = {}

NoTakeover == ~takeover

\* Only the requests of Ops are ever under way ("query" is also the value
\* of op between two requests).
OpsInUse == \A c \in Connections : op[c] \in Ops \cup {"query"}

\* The thread of c is between its admission and its release only while c is
\* the active session: stronger than CommandsByOwner, which names four of
\* these locations, and inductive because of it.
ServingOwns == \A c \in Connections : pc[c] \in Serving \cup {"release"} => current = c

\* What a handler read, twice, is still what its session holds.
ReadsOwn ==
    \A c \in Connections :
        /\ pc[c] \in {"lookup", "format"} => sess[c] = c
        /\ pc[c] \in {"model", "format"} => dev[c] = selected[c]
        /\ pc[c] = "execute" /\ op[c] = "capture" => fmt[c] = dev[c]

IsolationInv == TypeOK /\ NoTakeover /\ OpsInUse /\ ServingOwns /\ ReadsOwn

LEMMA IsolationInit == Init => IsolationInv
BY TypeInit DEF Init, SessionInit, IsolationInv, NoTakeover, OpsInUse, ServingOwns, ReadsOwn,
                Serving

LEMMA IsolationStep ==
    ASSUME NoForeignOps, IsolationInv, [Next]_vars
    PROVE  (NoTakeover /\ OpsInUse /\ ServingOwns /\ ReadsOwn)'
<1> USE NoConnectionAssumption, NoDeviceAssumption
    DEF NoForeignOps, IsolationInv, TypeOK, SessionTypeOK, Registry!TableTypeOK, NoTakeover,
        OpsInUse, ServingOwns, ReadsOwn, Locations, Serving, Closing, Goto,
        sessionVars, registryVars, serverVars, OnlyThread, LoopTop, ScopeEnds
<1> DEFINE Goal == (NoTakeover /\ OpsInUse /\ ServingOwns /\ ReadsOwn)'
<1>1. ASSUME NEW c \in Connections, Arrive(c) PROVE Goal
  BY <1>1 DEF Arrive, Accept, HandshakeRejected, HandshakeBroken
<1>2. ASSUME NEW c \in Connections, Enter(c) PROVE Goal
  <2>1. CASE AdmitSession(c)
    BY <2>1 DEF AdmitSession, Admit, CanAdmit
  <2>2. CASE AdmitBusy(c)
    BY <2>2 DEF AdmitBusy
  <2>3. CASE ListOneDevice(c) \/ ListOtherwise(c)
    BY <2>3 DEF ListOneDevice, ListOtherwise
  <2>4. CASE AutoSelect(c) \/ AutoSelectFails(c)
    BY <2>4 DEF AutoSelect, AutoSelectFails, SelectDevice
  <2>5. CASE Reject(c) \/ RejectFails(c)
    BY <2>5 DEF Reject, RejectFails
  <2>6. CASE AdmitFailed(c)
    BY <2>6 DEF AdmitFailed
  <2>7. QED
    BY <1>2, <2>1, <2>2, <2>3, <2>4, <2>5, <2>6 DEF Enter
<1>3. ASSUME NEW c \in Connections, Input(c) PROVE Goal
  BY <1>3 DEF Input, Receive, IgnoreMessage, ReceiveFails
<1>4. ASSUME NEW c \in Connections, Handle(c) PROVE Goal
  <2>1. CASE DispatchQuery(c) \/ DispatchSelect(c) \/ DispatchDevice(c)
    BY <2>1 DEF DispatchQuery, DispatchSelect, DispatchDevice
  <2>2. CASE Select(c)
    BY <2>2 DEF Select, SelectDevice
  <2>3. CASE DispatchDisconnect(c) \/ DispatchTakeover(c)
    BY <2>3 DEF DispatchDisconnect, DispatchTakeover
  <2>4. CASE Lookup(c)
    BY <2>4 DEF Lookup
  <2>5. CASE CaptureSession(c) \/ CaptureModel(c)
    BY <2>5 DEF CaptureSession, CaptureModel
  <2>6. CASE Execute(c) \/ Reply(c) \/ ReplyFails(c)
    BY <2>6 DEF Execute, Reply, ReplyFails
  <2>7. QED
    BY <1>4, <2>1, <2>2, <2>3, <2>4, <2>5, <2>6 DEF Handle
<1>5. ASSUME NEW c \in Connections, Leave(c) PROVE Goal
  BY <1>5 DEF Leave, Cleanup, Release, Close, Disconnect
<1>6. ASSUME NEW c \in Connections, PeerGone(c) PROVE Goal
  BY <1>6 DEF PeerGone, threadVars
<1>7. CASE RegistryStep \/ StopServing \/ CloseListener \/ CloseRegistry
  BY <1>7 DEF RegistryStep, StopServing, CloseListener, CloseRegistry, threadVars
<1>8. CASE UNCHANGED vars
  BY <1>8 DEF vars, threadVars
<1>9. QED
  BY <1>1, <1>2, <1>3, <1>4, <1>5, <1>6, <1>7, <1>8 DEF Next

LEMMA IsolationHolds == ASSUME NoForeignOps PROVE Spec => []IsolationInv
<1>1. ASSUME NoForeignOps PROVE IsolationInv /\ [Next]_vars => IsolationInv'
  BY <1>1, TypeNext, IsolationStep DEF IsolationInv
<1>2. QED
  BY <1>1, IsolationInit, PTL DEF Spec

\* A command resolves its device, and runs, only under its own connection's
\* session, when no controller disconnects a session or allows a takeover.
THEOREM IsolationCommands == ASSUME NoForeignOps PROVE Spec => []CommandsByOwner
<1>1. IsolationInv => CommandsByOwner
  BY DEF IsolationInv, ServingOwns, CommandsByOwner, Serving
<1>2. QED
  BY <1>1, IsolationHolds, PTL

\* The two reads of the session and of the registry that a capture makes
\* give the same device.
THEOREM IsolationCaptures == ASSUME NoForeignOps PROVE Spec => []CaptureMatches
<1>1. IsolationInv => CaptureMatches
  BY DEF IsolationInv, ReadsOwn, CaptureMatches
<1>2. QED
  BY <1>1, IsolationHolds, PTL

LEMMA OwnSelection ==
    ASSUME IsolationInv, [Next]_vars
    PROVE  [OwnSelectionStep]_vars
<1> USE NoConnectionAssumption
    DEF IsolationInv, TypeOK, SessionTypeOK, ServingOwns, OwnSelectionStep, Locations, Serving,
        Goto, sessionVars, OnlyThread, LoopTop
<1>1. CASE \E c \in Connections : AdmitSession(c)
  BY <1>1 DEF AdmitSession, Admit
<1>2. CASE \E c \in Connections : AutoSelect(c)
  BY <1>2 DEF AutoSelect, SelectDevice
<1>3. CASE \E c \in Connections : Select(c)
  BY <1>3 DEF Select, SelectDevice
<1>4. CASE UNCHANGED selected
  BY <1>4
<1>5. ASSUME NEW c \in Connections, Enter(c), ~AdmitSession(c), ~AutoSelect(c)
      PROVE  UNCHANGED selected
  BY <1>5 DEF Enter, AdmitBusy, AdmitFailed, ListOneDevice, ListOtherwise, AutoSelectFails,
              Reject, RejectFails
<1>6. ASSUME NEW c \in Connections, Handle(c), ~Select(c)
      PROVE  UNCHANGED selected
  BY <1>6 DEF Handle, DispatchQuery, DispatchSelect, DispatchDisconnect, DispatchTakeover,
              DispatchDevice, Lookup, CaptureSession, CaptureModel, Execute, Reply, ReplyFails,
              Disconnect, AllowTakeover
<1>7. ASSUME NEW c \in Connections,
             Arrive(c) \/ Input(c) \/ Leave(c) \/ PeerGone(c)
      PROVE  UNCHANGED selected
  BY <1>7 DEF Arrive, Accept, HandshakeRejected, HandshakeBroken, Input, Receive,
              IgnoreMessage, ReceiveFails, Leave, Cleanup, Release, Close, Disconnect, PeerGone
<1>8. CASE RegistryStep \/ StopServing \/ CloseListener \/ CloseRegistry
  BY <1>4, <1>8 DEF RegistryStep, StopServing, CloseListener, CloseRegistry
<1>9. QED
  BY <1>1, <1>2, <1>3, <1>4, <1>5, <1>6, <1>7, <1>8 DEF Next, vars

\* Only the thread of a connection changes the device its session selects.
THEOREM IsolationSelection == ASSUME NoForeignOps PROVE Spec => SelectionByOwner
<1>1. IsolationInv /\ [Next]_vars => [OwnSelectionStep]_vars
  BY OwnSelection
<1>2. QED
  BY <1>1, IsolationHolds, PTL DEF Spec, SelectionByOwner

-----------------------------------------------------------------------------
(* The hub that accepts nobody any more.                                   *)

LEMMA DeafStep ==
    ASSUME NEW c \in Connections
    PROVE  TypeOK /\ ~accepting /\ pc[c] = "offered" /\ [Next]_vars => (~accepting /\ pc[c] = "offered")'
<1> SUFFICES ASSUME TypeOK, ~accepting, pc[c] = "offered", [Next]_vars
             PROVE  accepting' = accepting /\ pc'[c] = pc[c]
  OBVIOUS
<1>0. pc \in [Connections -> Locations]
  BY DEF TypeOK
<1>1. ASSUME NEW e \in Connections, Arrive(e) PROVE FALSE
  BY <1>1 DEF Arrive, Accept, HandshakeRejected, HandshakeBroken
<1>2. ASSUME NEW e \in Connections, Enter(e) \/ Leave(e)
      PROVE  accepting' = accepting /\ pc'[c] = pc[c]
  BY <1>0, <1>2 DEF Enter, Leave, AdmitSession, AdmitBusy, AdmitFailed, ListOneDevice, ListOtherwise,
       AutoSelect, AutoSelectFails, Reject, RejectFails, Cleanup, Release, Close, Goto, OnlyThread,
       serverVars
<1>3. ASSUME NEW e \in Connections, Input(e) \/ Handle(e)
      PROVE  accepting' = accepting /\ pc'[c] = pc[c]
  <2>1. /\ accepting' = accepting /\ pc[e] # "offered"
        /\ \E l \in Locations : pc' = [pc EXCEPT ![e] = l]
    BY <1>3 DEF Input, Handle, Receive, IgnoreMessage, ReceiveFails, DispatchQuery, DispatchSelect,
         Select, DispatchDisconnect, DispatchTakeover, DispatchDevice, Lookup, CaptureSession,
         CaptureModel, Execute, Reply, ReplyFails, Goto, OnlyThread, serverVars, LoopTop, Locations,
         Serving, Closing
  <2>2. QED
    BY <1>0, <2>1
<1>4. ASSUME NEW e \in Connections, PeerGone(e) PROVE accepting' = accepting /\ pc'[c] = pc[c]
  BY <1>4 DEF PeerGone, serverVars, threadVars
<1>5. CASE RegistryStep \/ StopServing \/ CloseListener \/ CloseRegistry \/ UNCHANGED vars
  BY <1>5 DEF RegistryStep, StopServing, CloseListener, CloseRegistry, vars, serverVars, threadVars
<1>6. QED
  BY <1>1, <1>2, <1>3, <1>4, <1>5 DEF Next

\* Once the accept loop of _accept_loop has ended, of a handshake that broke off
\* or of a stop, no connection that is offered is ever served or refused.
THEOREM DeafForGood ==
    ASSUME NEW c \in Connections
    PROVE  Spec => [](~accepting /\ pc[c] = "offered" => [](pc[c] = "offered"))
<1>1. TypeOK /\ ~accepting /\ pc[c] = "offered" /\ [Next]_vars => (~accepting /\ pc[c] = "offered")'
  BY DeafStep
<1>2. QED
  BY <1>1, TypeCorrect, PTL DEF Spec

-----------------------------------------------------------------------------
(* The hub implements SingleUserHub.                                       *)

\* What a thread is about to select is a device.
LooksUp == \A c \in Connections : pc[c] \in {"autoselect", "select"} => dev[c] \in Devices

SingleInv == IsolationInv /\ LooksUp

LEMMA LooksUpStep == ASSUME TypeOK, LooksUp, [Next]_vars PROVE LooksUp'
<1> USE DEF TypeOK, Registry!TableTypeOK, LooksUp, Locations, Serving, Closing, Goto, LoopTop,
            ScopeEnds
<1>1. ASSUME NEW c \in Connections, Arrive(c) PROVE LooksUp'
  BY <1>1 DEF Arrive, Accept, HandshakeRejected, HandshakeBroken
<1>2. ASSUME NEW c \in Connections, Enter(c) PROVE LooksUp'
  <2>1. CASE AdmitSession(c) \/ AdmitBusy(c) \/ AdmitFailed(c)
    BY <2>1 DEF AdmitSession, AdmitBusy, AdmitFailed
  <2>2. CASE ListOneDevice(c) \/ ListOtherwise(c)
    BY <2>2 DEF ListOneDevice, ListOtherwise
  <2>3. CASE AutoSelect(c) \/ AutoSelectFails(c)
    BY <2>3 DEF AutoSelect, AutoSelectFails
  <2>4. CASE Reject(c) \/ RejectFails(c)
    BY <2>4 DEF Reject, RejectFails
  <2> QED
    BY <1>2, <2>1, <2>2, <2>3, <2>4 DEF Enter
<1>3. ASSUME NEW c \in Connections, Input(c) PROVE LooksUp'
  BY <1>3 DEF Input, Receive, IgnoreMessage, ReceiveFails
<1>4. ASSUME NEW c \in Connections, Handle(c) PROVE LooksUp'
  <2>1. CASE DispatchQuery(c) \/ DispatchSelect(c) \/ DispatchDevice(c)
    BY <2>1 DEF DispatchQuery, DispatchSelect, DispatchDevice
  <2>2. CASE Select(c) \/ DispatchDisconnect(c) \/ DispatchTakeover(c)
    BY <2>2 DEF Select, DispatchDisconnect, DispatchTakeover
  <2>3. CASE Lookup(c) \/ CaptureSession(c) \/ CaptureModel(c)
    BY <2>3 DEF Lookup, CaptureSession, CaptureModel
  <2>4. CASE Execute(c) \/ Reply(c) \/ ReplyFails(c)
    BY <2>4 DEF Execute, Reply, ReplyFails
  <2> QED
    BY <1>4, <2>1, <2>2, <2>3, <2>4 DEF Handle
<1>5. ASSUME NEW c \in Connections, Leave(c) PROVE LooksUp'
  BY <1>5 DEF Leave, Cleanup, Release, Close
<1>6. CASE \/ \E c \in Connections : PeerGone(c)
           \/ RegistryStep \/ StopServing \/ CloseListener \/ CloseRegistry \/ UNCHANGED vars
  BY <1>6 DEF PeerGone, RegistryStep, StopServing, CloseListener, CloseRegistry, vars, threadVars
<1> QED
  BY <1>1, <1>2, <1>3, <1>4, <1>5, <1>6 DEF Next

LEMMA SingleInvariant == ASSUME NoForeignOps PROVE Spec => []SingleInv
<1>1. Init => LooksUp
  BY DEF Init, LooksUp
<1>2. IsolationInv /\ LooksUp /\ [Next]_vars => LooksUp'
  BY LooksUpStep DEF IsolationInv
<1>3. Spec => []IsolationInv
  BY IsolationHolds
<1> QED
  BY <1>1, <1>2, <1>3, PTL DEF Spec, SingleInv

LEMMA SingleInitially == Init => Single!HubInit
BY DEF Init, SessionInit, Choice, Using, Single!HubInit

\* A thread runs commands for the active session only.
LEMMA UsingForms ==
    ASSUME IsolationInv
    PROVE  /\ \A c \in Connections : pc[c] = "execute" => c = current /\ Using = {<<c, dev[c]>>}
           /\ (\A c \in Connections : pc[c] # "execute") => Using = {}
<1>1. \A c \in Connections : pc[c] = "execute" => c = current
  BY DEF IsolationInv, ServingOwns, Serving
<1> QED
  BY <1>1 DEF Using

LEMMA UsingNext ==
    IsolationInv' =>
        /\ \A c \in Connections :
              pc'[c] = "execute" => c = current' /\ Using' = {<<c, dev'[c]>>}
        /\ (\A c \in Connections : pc'[c] # "execute") => Using' = {}
<1> SUFFICES ASSUME IsolationInv'
             PROVE  /\ \A c \in Connections :
                          pc'[c] = "execute" => c = current' /\ Using' = {<<c, dev'[c]>>}
                    /\ (\A c \in Connections : pc'[c] # "execute") => Using' = {}
  OBVIOUS
<1>1. \A c \in Connections : pc'[c] = "execute" => c = current'
  BY DEF IsolationInv, ServingOwns, Serving
<1> QED
  BY <1>1 DEF Using

\* A thread whose own connection holds the session is the only one that moves
\* between its admission and its release.
LEMMA Idle ==
    ASSUME IsolationInv, NEW c \in Connections, pc[c] \in (Serving \ {"execute"}) \cup {"release"}
    PROVE  c = current /\ Using = {} /\ current # NoConnection /\ Choice = selected[c]
<1>1. c = current /\ \A e \in Connections : pc[e] \in Serving => e = current
  BY DEF IsolationInv, ServingOwns
<1>2. \A e \in Connections : pc[e] # "execute"
  BY <1>1 DEF Serving
<1> QED
  BY <1>1, <1>2, UsingForms, NoConnectionAssumption DEF Choice

\* A step that neither begins nor ends a command, and keeps the session and its
\* device, is one the controller does not see.
LEMMA Unseen ==
    ASSUME UNCHANGED <<current, selected>>,
           \A c \in Connections : /\ pc'[c] = "execute" <=> pc[c] = "execute"
                                  /\ pc[c] = "execute" => dev'[c] = dev[c]
    PROVE  UNCHANGED <<current, Choice, Using>>
<1>1. Choice' = Choice
  BY DEF Choice
<1>2. \A x : x \in Using' <=> x \in Using
  BY DEF Using
<1> QED
  BY <1>1, <1>2

LEMMA AdmitUserStep ==
    ASSUME SingleInv, NEW c \in Connections, AdmitSession(c)
    PROVE  Single!AdmitUser(c)
<1>1. current = NoConnection
  BY DEF SingleInv, IsolationInv, NoTakeover, AdmitSession, Admit, CanAdmit
<1>2. /\ current' = c /\ selected'[c] = NoDevice /\ dev' = dev
      /\ pc[c] = "admit" /\ pc'[c] = "list" /\ \A e \in Connections : e # c => pc'[e] = pc[e]
  BY DEF SingleInv, IsolationInv, TypeOK, SessionTypeOK, AdmitSession, Admit, Goto
<1>3. Choice = NoDevice /\ Choice' = NoDevice
  BY <1>1, <1>2, NoConnectionAssumption DEF Choice
<1>4. \A x : x \in Using' <=> x \in Using
  BY <1>2 DEF Using
<1> QED
  BY <1>1, <1>2, <1>3, <1>4 DEF Single!AdmitUser

LEMMA ChooseStep ==
    ASSUME SingleInv, NEW c \in Connections, AutoSelect(c) \/ Select(c)
    PROVE  Single!Choose(dev[c]) /\ dev[c] \in Devices
<1>1. pc[c] \in {"autoselect", "select"}
  BY DEF AutoSelect, Select
<1>2. c = current /\ Using = {} /\ current # NoConnection /\ dev[c] \in Devices
  BY <1>1, Idle DEF SingleInv, LooksUp, Serving
<1>3. /\ current' = current /\ selected' = [selected EXCEPT ![current] = dev[c]]
      /\ \E l \in {"recv", "cleanup", "reply"} : pc' = [pc EXCEPT ![c] = l]
  BY <1>2 DEF AutoSelect, Select, SelectDevice, Goto, LoopTop
<1>4. Choice' = dev[c]
  BY <1>2, <1>3 DEF Choice, SingleInv, IsolationInv, TypeOK, SessionTypeOK
<1>5. \A e \in Connections : pc[e] # "execute"
  BY <1>2 DEF Using
<1>6. \A e \in Connections : pc'[e] # "execute"
  BY <1>3, <1>5 DEF SingleInv, IsolationInv, TypeOK
<1>7. Using' = {}
  BY <1>6 DEF Using
<1> QED
  BY <1>2, <1>3, <1>4, <1>7 DEF Single!Choose

\* The device is looked up in the session, once for a command and twice for a
\* capture, and is the one that the session still selects.
LEMMA BeginStep ==
    ASSUME SingleInv, SingleInv', NEW c \in Connections, Lookup(c) \/ CaptureModel(c)
    PROVE  Single!BeginCommand \/ UNCHANGED <<current, Choice, Using>>
<1>0. IsolationInv /\ IsolationInv' /\ TypeOK /\ ReadsOwn
  BY DEF SingleInv, IsolationInv
<1>1. pc[c] \in {"lookup", "format"} /\ UNCHANGED <<current, selected>>
  BY DEF Lookup, CaptureModel, OnlyThread, sessionVars
<1>2. c = current /\ Using = {} /\ current # NoConnection /\ Choice = selected[c] /\ sess[c] = c
  BY <1>0, <1>1, Idle DEF Serving, ReadsOwn
<1>3. \A e \in Connections : pc[e] # "execute"
  BY <1>2 DEF Using
<1>4. \E l \in Locations : pc' = [pc EXCEPT ![c] = l]
  BY DEF Lookup, CaptureModel, Goto, Locations, Serving, Closing
<1>5. \A e \in Connections : e # c => pc'[e] = pc[e]
  BY <1>0, <1>4 DEF TypeOK
<1>6. CASE pc'[c] = "execute"
  <2>1. dev'[c] = selected[c] /\ selected[c] \in Devices
    <3>1. CASE Lookup(c)
      BY <1>0, <1>2, <1>6, <3>1 DEF Lookup, Goto, TypeOK, Registry!TableTypeOK
    <3>2. CASE CaptureModel(c)
      BY <1>0, <1>2, <1>6, <3>2 DEF CaptureModel, Goto, TypeOK, ReadsOwn, Registry!TableTypeOK
    <3> QED
      BY <3>1, <3>2
  <2>2. Using' = {<<current, Choice>>}
    BY <1>0, <1>2, <1>6, <2>1, UsingNext
  <2>3. Choice' = Choice /\ Choice # NoDevice
    BY <1>1, <1>2, <2>1, NoDeviceAssumption DEF Choice
  <2> QED
    BY <1>1, <1>2, <2>2, <2>3 DEF Single!BeginCommand
<1>7. CASE pc'[c] # "execute"
  BY <1>1, <1>3, <1>5, <1>7, Unseen
<1> QED
  BY <1>6, <1>7

LEMMA EndStep ==
    ASSUME SingleInv, SingleInv', NEW c \in Connections, Execute(c)
    PROVE  Single!EndCommand
<1>0. IsolationInv /\ IsolationInv' /\ TypeOK
  BY DEF SingleInv, IsolationInv
<1>1. pc[c] = "execute" /\ pc' = [pc EXCEPT ![c] = "reply"] /\ UNCHANGED <<current, selected>>
  BY DEF Execute, Goto, OnlyThread, sessionVars
<1>2. Using = {<<c, dev[c]>>} /\ \A e \in Connections : pc[e] = "execute" => e = c
  BY <1>0, <1>1, UsingForms
<1>3. \A e \in Connections : pc'[e] # "execute"
  BY <1>0, <1>1, <1>2 DEF TypeOK
<1>4. Using' = {}
  BY <1>0, <1>3, UsingNext
<1>5. Choice' = Choice
  BY <1>1 DEF Choice
<1> QED
  BY <1>1, <1>2, <1>4, <1>5 DEF Single!EndCommand

LEMMA LeaveStep ==
    ASSUME SingleInv, NEW c \in Connections, Release(c)
    PROVE  Single!LeaveHub
<1>0. IsolationInv /\ TypeOK
  BY DEF SingleInv, IsolationInv
<1>1. pc[c] = "release" /\ current' = NoConnection /\ pc' = [pc EXCEPT ![c] = "close"]
  BY DEF Release, Disconnect, Goto
<1>2. Using = {} /\ current # NoConnection
  BY <1>0, <1>1, Idle
<1>3. \A e \in Connections : pc[e] # "execute"
  BY <1>2 DEF Using
<1>4. \A e \in Connections : pc'[e] # "execute"
  BY <1>0, <1>1, <1>3 DEF TypeOK
<1>5. Using' = {} /\ Choice' = NoDevice
  BY <1>1, <1>4 DEF Using, Choice
<1> QED
  BY <1>1, <1>2, <1>5 DEF Single!LeaveHub

\* Every other step of a thread is about requests, replies and sockets.
LEMMA UnseenStep ==
    ASSUME NoForeignOps, SingleInv, NEW c \in Connections,
           \/ Arrive(c) \/ Input(c) \/ Cleanup(c) \/ Close(c) \/ PeerGone(c)
           \/ Enter(c) /\ ~AdmitSession(c) /\ ~AutoSelect(c)
           \/ Handle(c) /\ ~Select(c) /\ ~Lookup(c) /\ ~CaptureModel(c) /\ ~Execute(c)
    PROVE  UNCHANGED <<current, Choice, Using>>
<1> DEFINE Same == /\ UNCHANGED <<current, selected>>
                   /\ \A e \in Connections : /\ pc'[e] = "execute" <=> pc[e] = "execute"
                                             /\ pc[e] = "execute" => dev'[e] = dev[e]
<1> SUFFICES Same
  BY Unseen
<1>0. TypeOK /\ OpsInUse
  BY DEF SingleInv, IsolationInv
<1> USE <1>0 DEF TypeOK, Goto, OnlyThread, sessionVars, threadVars, LoopTop, ScopeEnds
<1>1. CASE Arrive(c)
  BY <1>1 DEF Arrive, Accept, HandshakeRejected, HandshakeBroken
<1>2. CASE Input(c)
  BY <1>2 DEF Input, Receive, IgnoreMessage, ReceiveFails
<1>3. CASE Cleanup(c) \/ Close(c) \/ PeerGone(c)
  BY <1>3 DEF Cleanup, Close, PeerGone
<1>4. CASE AdmitBusy(c) \/ AdmitFailed(c) \/ Reject(c) \/ RejectFails(c)
  BY <1>4 DEF AdmitBusy, AdmitFailed, Reject, RejectFails
<1>5. CASE ListOneDevice(c) \/ ListOtherwise(c) \/ AutoSelectFails(c)
  BY <1>5 DEF ListOneDevice, ListOtherwise, AutoSelectFails
<1>6. CASE DispatchQuery(c) \/ DispatchSelect(c) \/ DispatchDevice(c)
  BY <1>6 DEF DispatchQuery, DispatchSelect, DispatchDevice
<1>7. ~DispatchDisconnect(c) /\ ~DispatchTakeover(c)
  BY DEF NoForeignOps, OpsInUse, DispatchDisconnect, DispatchTakeover
<1>8. CASE CaptureSession(c) \/ Reply(c) \/ ReplyFails(c)
  BY <1>8 DEF CaptureSession, Reply, ReplyFails
<1> QED
  BY <1>1, <1>2, <1>3, <1>4, <1>5, <1>6, <1>7, <1>8 DEF Enter, Handle

LEMMA SingleStep ==
    ASSUME NoForeignOps, SingleInv, SingleInv', [Next]_vars
    PROVE  [Single!HubNext]_(Single!hubVars)
<1> SUFFICES Single!HubNext \/ UNCHANGED <<current, Choice, Using>>
  BY DEF Single!hubVars
<1>1. ASSUME NEW c \in Connections, AdmitSession(c) PROVE Single!HubNext
  BY <1>1, AdmitUserStep DEF Single!HubNext
<1>2. ASSUME NEW c \in Connections, AutoSelect(c) \/ Select(c) PROVE Single!HubNext
  BY <1>2, ChooseStep DEF Single!HubNext
<1>3. ASSUME NEW c \in Connections, Lookup(c) \/ CaptureModel(c)
      PROVE  Single!HubNext \/ UNCHANGED <<current, Choice, Using>>
  BY <1>3, BeginStep DEF Single!HubNext
<1>4. ASSUME NEW c \in Connections, Execute(c) PROVE Single!HubNext
  BY <1>4, EndStep DEF Single!HubNext
<1>5. ASSUME NEW c \in Connections, Release(c) PROVE Single!HubNext
  BY <1>5, LeaveStep DEF Single!HubNext
<1>6. ASSUME NEW c \in Connections,
             \/ Arrive(c) \/ Input(c) \/ Cleanup(c) \/ Close(c) \/ PeerGone(c)
             \/ Enter(c) /\ ~AdmitSession(c) /\ ~AutoSelect(c)
             \/ Handle(c) /\ ~Select(c) /\ ~Lookup(c) /\ ~CaptureModel(c) /\ ~Execute(c)
      PROVE  UNCHANGED <<current, Choice, Using>>
  BY <1>6, UnseenStep
<1>7. CASE RegistryStep \/ StopServing \/ CloseListener \/ CloseRegistry \/ UNCHANGED vars
  <2>1. UNCHANGED <<current, selected, pc, dev>>
    BY <1>7 DEF RegistryStep, StopServing, CloseListener, CloseRegistry, vars, sessionVars,
                threadVars
  <2> QED
    BY <2>1, Unseen
<1> QED
  BY <1>1, <1>2, <1>3, <1>4, <1>5, <1>6, <1>7 DEF Next, Leave

\* The hub implements SingleUserHub, when no controller disconnects a session or
\* allows a takeover: a new session starts without the device of the last, each
\* command runs on the device that its own controller has selected, and neither
\* that session nor its device changes under a command that runs.
THEOREM HubServesOneUser == ASSUME NoForeignOps PROVE Spec => ServesOneUser
<1>1. SingleInv /\ SingleInv' /\ [Next]_vars => [Single!HubNext]_(Single!hubVars)
  BY SingleStep
<1>2. Spec => []SingleInv
  BY SingleInvariant
<1> QED
  BY <1>1, <1>2, SingleInitially, PTL DEF Spec, ServesOneUser, Single!HubSpec
=============================================================================
