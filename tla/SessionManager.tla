--------------------------- MODULE SessionManager ---------------------------
(***************************************************************************)
(* The single controller session of the hub, hub/session.py.               *)
(*                                                                         *)
(* SessionManager holds one Session object, or None, and the takeover      *)
(* permission; every method runs under one lock, so each is one action.    *)
(* A connection is admitted at most once, so its Session object is         *)
(* identified by the connection, and a thread that keeps a reference to a  *)
(* Session that has been evicted still reads that object's selected        *)
(* device: selected is a function over connections.                        *)
(***************************************************************************)
EXTENDS Naturals, FiniteSets

CONSTANTS
    Connections,    \* controller connections that ever reach the hub
    NoConnection,   \* the value of _current when it is None
    Devices,        \* device ids (serial port paths)
    NoDevice        \* the value of selected_device_id when it is None

ASSUME NoConnectionAssumption == NoConnection \notin Connections
ASSUME NoDeviceAssumption == NoDevice \notin Devices

VARIABLES
    current,        \* _current: the connection of the active session
    selected,       \* selected_device_id of each connection's Session
    takeover,       \* _allow_takeover
    closed          \* sockets closed on the hub's side

sessionVars == <<current, selected, takeover, closed>>

SessionTypeOK ==
    /\ current \in Connections \cup {NoConnection}
    /\ selected \in [Connections -> Devices \cup {NoDevice}]
    /\ takeover \in BOOLEAN
    /\ closed \subseteq Connections

SessionInit ==
    /\ current = NoConnection
    /\ selected = [c \in Connections |-> NoDevice]
    /\ takeover = FALSE
    /\ closed = {}

-----------------------------------------------------------------------------
\* Connection.close of the transport: idempotent, never fails.
CloseConnection(c) == closed' = closed \cup ({c} \cap Connections)

\* admit raises SessionBusy exactly when this is false.
CanAdmit(force) == current = NoConnection \/ force \/ takeover

\* A mutated admission: the check of the incumbent is dropped.
AdmitUnchecked(c, force) ==
    /\ current' = c
    /\ selected' = [selected EXCEPT ![c] = NoDevice]
    /\ UNCHANGED <<takeover, closed>>

\* The incumbent's socket is closed under the lock before the newcomer's
\* Session replaces it; the permission is cleared only on that path.
Admit(c, force) ==
    /\ CanAdmit(force)
    /\ CloseConnection(current)
    /\ takeover' = (takeover /\ current = NoConnection)
    /\ current' = c
    /\ selected' = [selected EXCEPT ![c] = NoDevice]

\* disconnect ends whatever session is active, whoever calls it.
Disconnect ==
    /\ current' = NoConnection
    /\ UNCHANGED <<selected, takeover, closed>>

\* select_device writes to the active session, whoever calls it.
SelectDevice(d) ==
    /\ current # NoConnection
    /\ selected' = [selected EXCEPT ![current] = d]
    /\ UNCHANGED <<current, takeover, closed>>

AllowTakeover ==
    /\ takeover' = TRUE
    /\ UNCHANGED <<current, selected, closed>>
=============================================================================
