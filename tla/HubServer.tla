----------------------------- MODULE HubServer -----------------------------
(***************************************************************************)
(* The hub in listen mode: the accept loop and one serve thread for each   *)
(* accepted controller connection (hub/server.py), the request dispatcher  *)
(* those threads run (hub/dispatcher.py), the session manager they share   *)
(* and the device registry they query.                                     *)
(*                                                                         *)
(* A serve thread is a program counter per connection.  Every lock         *)
(* acquisition of the code is a step of its own, so a value read under one *)
(* lock and used after its release can be stale: the session read at the   *)
(* end of a connection, the session read to resolve the device, the device *)
(* looked up before it is selected.                                        *)
(***************************************************************************)
EXTENDS SessionManager

CONSTANT Ops        \* the kinds of request that controllers send

AllOps == {"query", "select", "disconnect", "force_takeover", "command", "capture"}

ASSUME OpsAssumption == Ops \subseteq AllOps

VARIABLES
    running,        \* HubServer._running
    accepting,      \* the accept loop is alive and its listener open
    table, shut,    \* the device registry
    pc,             \* where each connection's serve thread is
    op,             \* the request it is handling
    sess,           \* the Session it read last from sessions.current
    dev,            \* the device id it looked up
    fmt,            \* the device whose model sizes the captured frame
    gone            \* peers that have closed, and sent nothing more to read

threadVars == <<pc, op, sess, dev, fmt>>
serverVars == <<running, accepting>>
registryVars == <<table, shut>>
vars == <<sessionVars, serverVars, registryVars, threadVars, gone>>

Registry == INSTANCE DeviceTable

\* "offered" is a connection the accept loop has not returned yet, "done" one
\* whose thread has ended.
Serving == {"list", "autoselect", "recv", "dispatch", "select", "lookup", "model",
            "format", "execute", "reply"}
Closing == {"cleanup", "release", "close"}
Locations == Serving \cup Closing \cup {"offered", "admit", "reject", "done"}

TypeOK ==
    /\ SessionTypeOK
    /\ Registry!TableTypeOK
    /\ running \in BOOLEAN
    /\ accepting \in BOOLEAN
    /\ pc \in [Connections -> Locations]
    /\ op \in [Connections -> AllOps]
    /\ sess \in [Connections -> Connections \cup {NoConnection}]
    /\ dev \in [Connections -> Devices \cup {NoDevice}]
    /\ fmt \in [Connections -> Devices \cup {NoDevice}]
    /\ gone \subseteq Connections
    /\ \A c \in Connections : pc[c] \in {"lookup", "format"} => sess[c] \in Connections

Init ==
    /\ SessionInit
    /\ Registry!TableInit
    /\ running = TRUE
    /\ accepting = TRUE
    /\ pc = [c \in Connections |-> "offered"]
    /\ op = [c \in Connections |-> "query"]
    /\ sess = [c \in Connections |-> NoConnection]
    /\ dev = [c \in Connections |-> NoDevice]
    /\ fmt = [c \in Connections |-> NoDevice]
    /\ gone = {}

-----------------------------------------------------------------------------
(* Helpers of the serve threads. *)

Goto(c, l) == pc' = [pc EXCEPT ![c] = l]

\* The test at the top of the request loop.
LoopTop == IF running THEN "recv" ELSE "cleanup"

Broken(c) == c \in closed \cup gone

\* The handler's local variables go out of scope when its response is sent.
ScopeEnds(c) ==
    /\ op' = [op EXCEPT ![c] = "query"]
    /\ sess' = [sess EXCEPT ![c] = NoConnection]
    /\ dev' = [dev EXCEPT ![c] = NoDevice]
    /\ fmt' = [fmt EXCEPT ![c] = NoDevice]

\* Steps that change nothing but the thread's own position.
OnlyThread == UNCHANGED <<sessionVars, serverVars, registryVars, gone>>

-----------------------------------------------------------------------------
(* The accept loop: listener.accept() includes the security handshake. *)

Accept(c) ==
    /\ accepting
    /\ pc[c] = "offered"
    /\ Goto(c, "admit")
    /\ accepting' = running
    /\ UNCHANGED <<sessionVars, registryVars, running, op, sess, dev, fmt, gone>>

\* AuthenticationError or ConnectionClosed in the handshake: continue.
HandshakeRejected(c) ==
    /\ accepting
    /\ pc[c] = "offered"
    /\ Goto(c, "done")
    /\ accepting' = running
    /\ UNCHANGED <<sessionVars, registryVars, running, op, sess, dev, fmt, gone>>

\* The handshake's receive times out or the peer resets the connection: both
\* are OSError, and the loop breaks.
HandshakeBroken(c) ==
    /\ accepting
    /\ pc[c] = "offered"
    /\ Goto(c, "done")
    /\ accepting' = FALSE
    /\ UNCHANGED <<sessionVars, registryVars, running, op, sess, dev, fmt, gone>>

-----------------------------------------------------------------------------
(* _serve: admission and automatic device selection. *)

\* A mutated admission that would evict whenever asked, as with force=True.
AdmitForcing(c) ==
    /\ pc[c] = "admit"
    /\ Admit(c, TRUE)
    /\ Goto(c, "list")
    /\ UNCHANGED <<serverVars, registryVars, op, sess, dev, fmt, gone>>

AdmitSession(c) ==
    /\ pc[c] = "admit"
    /\ Admit(c, FALSE)
    /\ Goto(c, "list")
    /\ UNCHANGED <<serverVars, registryVars, op, sess, dev, fmt, gone>>

AdmitBusy(c) ==
    /\ pc[c] = "admit"
    /\ ~CanAdmit(FALSE)
    /\ Goto(c, "reject")
    /\ OnlyThread /\ UNCHANGED <<op, sess, dev, fmt>>

\* getpeername fails on a connection that was reset: no session is created.
AdmitFailed(c) ==
    /\ pc[c] = "admit"
    /\ c \in gone
    /\ Goto(c, "done")
    /\ CloseConnection(c)
    /\ UNCHANGED <<current, selected, takeover, serverVars, registryVars, op, sess, dev,
                   fmt, gone>>

\* _auto_select_device, its registry.list(): exactly one device is present.
\* (No code of the hub marks a device busy, so every device is free.)
ListOneDevice(c) ==
    /\ pc[c] = "list"
    /\ \E d \in Devices :
         /\ table = {d}
         /\ dev' = [dev EXCEPT ![c] = d]
    /\ Goto(c, "autoselect")
    /\ OnlyThread /\ UNCHANGED <<op, sess, fmt>>

ListOtherwise(c) ==
    /\ pc[c] = "list"
    /\ \A d \in Devices : table # {d}
    /\ Goto(c, LoopTop)
    /\ OnlyThread /\ UNCHANGED <<op, sess, dev, fmt>>

AutoSelect(c) ==
    /\ pc[c] = "autoselect"
    /\ SelectDevice(dev[c])
    /\ Goto(c, LoopTop)
    /\ ScopeEnds(c)
    /\ UNCHANGED <<serverVars, registryVars, gone>>

\* select_device raises SessionBusy when the session has ended meanwhile.
AutoSelectFails(c) ==
    /\ pc[c] = "autoselect"
    /\ current = NoConnection
    /\ Goto(c, "reject")
    /\ ScopeEnds(c) /\ OnlyThread

\* The error response and the close; when the send fails the exception ends
\* the thread before the close.
Reject(c) ==
    /\ pc[c] = "reject"
    /\ c \notin closed
    /\ CloseConnection(c)
    /\ Goto(c, "done")
    /\ UNCHANGED <<current, selected, takeover, serverVars, registryVars, op, sess, dev,
                   fmt, gone>>

RejectFails(c) ==
    /\ pc[c] = "reject"
    /\ Broken(c)
    /\ Goto(c, "done")
    /\ OnlyThread /\ UNCHANGED <<op, sess, dev, fmt>>

-----------------------------------------------------------------------------
(* _request_loop and Dispatcher.dispatch. *)

Receive(c) ==
    /\ pc[c] = "recv"
    /\ ~Broken(c)
    /\ \E o \in Ops : op' = [op EXCEPT ![c] = o]
    /\ Goto(c, "dispatch")
    /\ OnlyThread /\ UNCHANGED <<sess, dev, fmt>>

\* A message that is not a request is dropped and the loop test runs again.
IgnoreMessage(c) ==
    /\ pc[c] = "recv"
    /\ ~Broken(c)
    /\ Goto(c, LoopTop)
    /\ OnlyThread /\ UNCHANGED <<op, sess, dev, fmt>>

\* A mutated loop that swallows the failure and receives again.
ReceiveFailsIgnored(c) ==
    /\ pc[c] = "recv"
    /\ Goto(c, LoopTop)
    /\ OnlyThread /\ UNCHANGED <<op, sess, dev, fmt>>

\* The peer has closed, the socket is closed here, or the frame received is
\* malformed: whatever the exception, the loop is left.
ReceiveFails(c) ==
    /\ pc[c] = "recv"
    /\ Goto(c, "cleanup")
    /\ OnlyThread /\ UNCHANGED <<op, sess, dev, fmt>>

\* devices.list, session.status, session.list, and every malformed request:
\* the handlers read, or raise, and the reply is all that follows.
DispatchQuery(c) ==
    /\ pc[c] = "dispatch"
    /\ op[c] = "query"
    /\ Goto(c, "reply")
    /\ OnlyThread /\ UNCHANGED <<op, sess, dev, fmt>>

\* devices.select: the id may be missing, and registry.get raises KeyError
\* for an unknown device ...
DispatchSelect(c) ==
    /\ pc[c] = "dispatch"
    /\ op[c] = "select"
    /\ \/ /\ \E d \in table : dev' = [dev EXCEPT ![c] = d]
          /\ Goto(c, "select")
       \/ /\ Goto(c, "reply")
          /\ UNCHANGED dev
    /\ OnlyThread /\ UNCHANGED <<op, sess, fmt>>

\* ... and select_device raises SessionBusy without a session.
Select(c) ==
    /\ pc[c] = "select"
    /\ IF current = NoConnection THEN UNCHANGED sessionVars ELSE SelectDevice(dev[c])
    /\ Goto(c, "reply")
    /\ UNCHANGED <<serverVars, registryVars, op, sess, dev, fmt, gone>>

DispatchDisconnect(c) ==
    /\ pc[c] = "dispatch"
    /\ op[c] = "disconnect"
    /\ Disconnect
    /\ Goto(c, "reply")
    /\ UNCHANGED <<serverVars, registryVars, op, sess, dev, fmt, gone>>

DispatchTakeover(c) ==
    /\ pc[c] = "dispatch"
    /\ op[c] = "force_takeover"
    /\ AllowTakeover
    /\ Goto(c, "reply")
    /\ UNCHANGED <<serverVars, registryVars, op, sess, dev, fmt, gone>>

-----------------------------------------------------------------------------
(* Requests for a device: _resolve_device, then the domain's handler. *)

DispatchDevice(c) ==
    /\ pc[c] = "dispatch"
    /\ op[c] \in {"command", "capture"}
    /\ sess' = [sess EXCEPT ![c] = current]
    /\ Goto(c, IF current = NoConnection THEN "reply" ELSE "lookup")
    /\ OnlyThread /\ UNCHANGED <<op, dev, fmt>>

\* The selected device of the session read above, which may have ended.
Lookup(c) ==
    /\ pc[c] = "lookup"
    /\ LET d == selected[sess[c]]
       IN  IF d \in table
           THEN /\ dev' = [dev EXCEPT ![c] = d]
                /\ Goto(c, IF op[c] = "capture" THEN "model" ELSE "execute")
           ELSE /\ Goto(c, "reply")
                /\ UNCHANGED dev
    /\ OnlyThread /\ UNCHANGED <<op, sess, fmt>>

\* _handle_capture reads the session again for the model; its assertion
\* fails, and becomes an error response, when there is none.
CaptureSession(c) ==
    /\ pc[c] = "model"
    /\ sess' = [sess EXCEPT ![c] = current]
    /\ Goto(c, IF current = NoConnection THEN "reply" ELSE "format")
    /\ OnlyThread /\ UNCHANGED <<op, dev, fmt>>

CaptureModel(c) ==
    /\ pc[c] = "format"
    /\ LET d == selected[sess[c]]
       IN  IF d \in table
           THEN /\ fmt' = [fmt EXCEPT ![c] = d]
                /\ Goto(c, "execute")
           ELSE /\ Goto(c, "reply")
                /\ UNCHANGED fmt
    /\ OnlyThread /\ UNCHANGED <<op, sess, dev>>

\* The handler's serial commands on dev[c], from the first to the last; the
\* result, or the exception, becomes the response.
Execute(c) ==
    /\ pc[c] = "execute"
    /\ Goto(c, "reply")
    /\ OnlyThread /\ UNCHANGED <<op, sess, dev, fmt>>

Reply(c) ==
    /\ pc[c] = "reply"
    /\ c \notin closed
    /\ Goto(c, LoopTop)
    /\ ScopeEnds(c) /\ OnlyThread

ReplyFails(c) ==
    /\ pc[c] = "reply"
    /\ Broken(c)
    /\ Goto(c, "cleanup")
    /\ ScopeEnds(c) /\ OnlyThread

-----------------------------------------------------------------------------
(* _serve's finally block. *)

\* A mutated cleanup that does not clear the session.
CleanupForgetting(c) ==
    /\ pc[c] = "cleanup"
    /\ Goto(c, "close")
    /\ OnlyThread /\ UNCHANGED <<op, sess, dev, fmt>>

Cleanup(c) ==
    /\ pc[c] = "cleanup"
    /\ Goto(c, IF current = c THEN "release" ELSE "close")
    /\ OnlyThread /\ UNCHANGED <<op, sess, dev, fmt>>

Release(c) ==
    /\ pc[c] = "release"
    /\ Disconnect
    /\ Goto(c, "close")
    /\ UNCHANGED <<serverVars, registryVars, op, sess, dev, fmt, gone>>

Close(c) ==
    /\ pc[c] = "close"
    /\ CloseConnection(c)
    /\ Goto(c, "done")
    /\ UNCHANGED <<current, selected, takeover, serverVars, registryVars, op, sess, dev,
                   fmt, gone>>

-----------------------------------------------------------------------------
(* The environment: peers, the poller, the thread that calls stop(). *)

PeerGone(c) ==
    /\ pc[c] \notin {"offered", "done"}
    /\ c \notin gone
    /\ gone' = gone \cup {c}
    /\ UNCHANGED <<sessionVars, serverVars, registryVars, threadVars>>

RegistryStep ==
    /\ \/ \E d \in Devices : Registry!AddDevice(d)
       \/ \E D \in SUBSET table : Registry!DropDevices(D)
    /\ UNCHANGED <<sessionVars, serverVars, threadVars, gone>>

StopServing ==
    /\ running
    /\ running' = FALSE
    /\ UNCHANGED <<sessionVars, accepting, registryVars, threadVars, gone>>

CloseListener ==
    /\ ~running /\ accepting
    /\ accepting' = FALSE
    /\ UNCHANGED <<sessionVars, running, registryVars, threadVars, gone>>

\* poller.stop() joins the poller before registry.close() empties the table.
CloseRegistry ==
    /\ ~running /\ ~accepting
    /\ Registry!ShutTable
    /\ UNCHANGED <<sessionVars, serverVars, threadVars, gone>>

-----------------------------------------------------------------------------
Arrive(c) == Accept(c) \/ HandshakeRejected(c) \/ HandshakeBroken(c)

Enter(c) == AdmitSession(c) \/ AdmitBusy(c) \/ AdmitFailed(c) \/ ListOneDevice(c)
            \/ ListOtherwise(c) \/ AutoSelect(c) \/ AutoSelectFails(c)
            \/ Reject(c) \/ RejectFails(c)

Handle(c) == DispatchQuery(c) \/ DispatchSelect(c) \/ Select(c) \/ DispatchDisconnect(c)
             \/ DispatchTakeover(c) \/ DispatchDevice(c) \/ Lookup(c) \/ CaptureSession(c)
             \/ CaptureModel(c) \/ Execute(c) \/ Reply(c) \/ ReplyFails(c)

Leave(c) == Cleanup(c) \/ Release(c) \/ Close(c)

Input(c) == Receive(c) \/ IgnoreMessage(c) \/ ReceiveFails(c)

Next ==
    \/ \E c \in Connections : Arrive(c) \/ Enter(c) \/ Input(c) \/ Handle(c) \/ Leave(c)
                              \/ PeerGone(c)
    \/ RegistryStep \/ StopServing \/ CloseListener \/ CloseRegistry

\* A serve thread that can run does, and recv returns once the peer is gone;
\* nothing obliges a peer to send, to leave, or the hub to be stopped.
Fairness == \A c \in Connections :
    /\ WF_vars(Enter(c) \/ Handle(c) \/ Leave(c))
    /\ WF_vars(c \in gone /\ ReceiveFails(c))

Spec == Init /\ [][Next]_vars
FairSpec == Spec /\ Fairness

-----------------------------------------------------------------------------
(* Properties.                                                             *)

\* A session never outlives the thread that will clear it: the connection
\* of the active session has a serve thread that has not passed the cleanup
\* of _serve.  Otherwise every later admission would be refused for good.
SessionHasServer ==
    current # NoConnection => pc[current] \in Serving \cup {"cleanup", "release"}

\* A command is resolved and executed only by the connection that holds the
\* session: "A hub serves a single controller session at a time".  It rests
\* on admit refusing a second session, and on nobody else's ending it.  No lock
\* guards a serial port: this is all that keeps two serve threads off it.
CommandsByOwner ==
    \A c \in Connections :
        pc[c] \in {"lookup", "model", "format", "execute"} => current = c

\* A captured frame is decoded with the model of the device it was read
\* from, though _handle_capture reads the session and registry a second time.
CaptureMatches ==
    \A c \in Connections : pc[c] = "execute" /\ op[c] = "capture" => fmt[c] = dev[c]

\* The device of a session is set only by the thread of its own connection:
\* neither a late automatic selection nor another's devices.select moves it.
OwnSelectionStep ==
    \A c \in Connections :
        selected'[c] # selected[c] => pc[c] \in {"admit", "autoselect", "select"}
                                      /\ pc'[c] # pc[c]

SelectionByOwner == [][OwnSelectionStep]_vars

\* The device of the active session, and who runs a command on which device.
Choice == IF current = NoConnection THEN NoDevice ELSE selected[current]

Using == {<<c, dev[c]>> : c \in {e \in Connections : pc[e] = "execute"}}

Single == INSTANCE SingleUserHub WITH
    Users <- Connections, Nobody <- NoConnection,
    holder <- current, choice <- Choice, using <- Using

\* However the threads interleave, the hub serves one controller at a time: a
\* new session starts without the device of the last, a command runs on the
\* device that its own controller has selected, and no session ends, begins or
\* selects another device under a command that runs.
ServesOneUser == Single!HubSpec

\* A controller that vanishes does not hold the hub: its session ends.
SessionFreed ==
    \A c \in Connections : (c \in gone /\ current = c) ~> current # c

\* "rather than letting one bad client take the hub down": no failed
\* handshake ends the accept loop of a running hub.
HubStaysUp == running => accepting
=============================================================================
