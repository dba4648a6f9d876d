--------------------------- MODULE DeviceRegistry ---------------------------
(***************************************************************************)
(* The registry of connected tinySA devices and the poller thread that     *)
(* reconciles it with the serial ports present (hub/registry.py, with the  *)
(* probe of device/discovery.py).                                          *)
(*                                                                         *)
(* A scan takes the lock three times and does its serial I/O in between,   *)
(* without the lock: ports come and go under it, and stop() may be called  *)
(* at any of its steps.  registered is the key set of _devices; handles    *)
(* counts the open serial connections of each port, so that one opened     *)
(* twice, or opened and forgotten, shows.                                  *)
(***************************************************************************)
EXTENDS Naturals

CONSTANTS
    Ports,          \* the names list_serial_ports can return
    NoPort          \* no port: the poller holds no device of its own

ASSUME NoPortAssumption == NoPort \notin Ports

VARIABLES
    present,        \* ports plugged in now
    registered,     \* the keys of _devices
    handles,        \* open connections of each port
    poller,         \* where the poller thread is
    listed,         \* the scan's snapshot of the ports present
    known,          \* the scan's snapshot of the registered ports
    todo,           \* new ports the scan still has to probe
    probing,        \* the port being probed, or opened and not yet inserted
    stopping        \* how far HubServer.stop has come

scanVars == <<listed, known, todo, probing>>
vars == <<present, registered, handles, poller, scanVars, stopping>>

PollerLocations == {"list", "snapshot", "probe", "identify", "open", "insert", "drop",
                    "wait", "ended", "dead"}

\* The poller thread has returned, by its loop test or by an exception.
PollerGone == poller \in {"ended", "dead"}

TypeOK ==
    /\ present \subseteq Ports
    /\ registered \subseteq Ports
    /\ handles \in [Ports -> 0 .. 1]
    /\ poller \in PollerLocations
    /\ listed \subseteq Ports
    /\ known \subseteq Ports
    /\ todo \subseteq Ports
    /\ probing \in Ports \cup {NoPort}
    /\ stopping \in {"no", "requested", "joined", "closed"}

Init ==
    /\ present \in SUBSET Ports
    /\ registered = {}
    /\ handles = [p \in Ports |-> 0]
    /\ poller = "list"
    /\ listed = {} /\ known = {} /\ todo = {}
    /\ probing = NoPort
    /\ stopping = "no"

-----------------------------------------------------------------------------
(* DeviceRegistry.scan, run by the poller thread. *)

\* Every open connection of the ports in P is closed.
CloseHandles(P) == handles' = [p \in Ports |-> IF p \in P THEN 0 ELSE handles[p]]

ListPorts ==
    /\ poller = "list"
    /\ listed' = present
    /\ poller' = "snapshot"
    /\ UNCHANGED <<present, registered, handles, known, todo, probing, stopping>>

\* A mutated snapshot with the operands of the difference swapped.
SnapshotSwapped ==
    /\ poller = "snapshot"
    /\ known' = registered
    /\ todo' = registered \ listed
    /\ poller' = "probe"
    /\ UNCHANGED <<present, registered, handles, listed, probing, stopping>>

\* A mutated snapshot that probes the registered ports again.
SnapshotAll ==
    /\ poller = "snapshot"
    /\ known' = registered
    /\ todo' = listed
    /\ poller' = "probe"
    /\ UNCHANGED <<present, registered, handles, listed, probing, stopping>>

Snapshot ==
    /\ poller = "snapshot"
    /\ known' = registered
    /\ todo' = listed \ registered
    /\ poller' = "probe"
    /\ UNCHANGED <<present, registered, handles, listed, probing, stopping>>

\* The loop over the new ports; the code takes them in sorted order, which
\* nothing here depends on.
NextPort ==
    /\ poller = "probe"
    /\ \E p \in todo :
         /\ probing' = p
         /\ todo' = todo \ {p}
    /\ poller' = "identify"
    /\ UNCHANGED <<present, registered, handles, listed, known, stopping>>

AllProbed ==
    /\ poller = "probe"
    /\ todo = {}
    /\ poller' = "drop"
    /\ UNCHANGED <<present, registered, handles, scanVars, stopping>>

\* discovery.probe: up to three attempts on connections of its own, which it
\* closes.  The port cannot be opened, or nothing there answers as a tinySA.
NotIdentified ==
    /\ poller \in {"identify", "open"}
    /\ poller' = "probe"
    /\ probing' = NoPort
    /\ UNCHANGED <<present, registered, handles, listed, known, todo, stopping>>

Identified ==
    /\ poller = "identify"
    /\ probing \in present
    /\ poller' = "open"
    /\ UNCHANGED <<present, registered, handles, scanVars, stopping>>

\* TinySA(port): the connection the registry is going to own.
OpenPort ==
    /\ poller = "open"
    /\ probing \in present
    /\ handles' = [handles EXCEPT ![probing] = @ + 1]
    /\ poller' = "insert"
    /\ UNCHANGED <<present, registered, scanVars, stopping>>

Insert ==
    /\ poller = "insert"
    /\ registered' = registered \cup {probing}
    /\ probing' = NoPort
    /\ poller' = "probe"
    /\ UNCHANGED <<present, handles, listed, known, todo, stopping>>

\* A mutated removal: the device is forgotten and its connection left open.
DropUnclosed ==
    /\ poller = "drop"
    /\ registered' = registered \ (known \ listed)
    /\ poller' = "wait"
    /\ UNCHANGED <<present, handles, scanVars, stopping>>

\* A mutated removal that drops nothing.
DropNothing ==
    /\ poller = "drop"
    /\ poller' = "wait"
    /\ UNCHANGED <<present, registered, handles, scanVars, stopping>>

Drop ==
    /\ poller = "drop"
    /\ registered' = registered \ (known \ listed)
    /\ CloseHandles(known \ listed)
    /\ poller' = "wait"
    /\ UNCHANGED <<present, scanVars, stopping>>

\* An exception other than those the scan expects: from the listing of the
\* ports, or from serial I/O on a port that vanished after it was listed.
\* Neither scan nor _run catches it, and the thread ends.
ScanRaises ==
    /\ poller \in {"list", "identify", "open"}
    /\ poller' = "dead"
    /\ probing' = NoPort
    /\ UNCHANGED <<present, registered, handles, listed, known, todo, stopping>>

\* The same, from close() of a device that has vanished: it has left the table
\* and its connection is gone, those after it in the order of the ports are kept.
DropRaises ==
    /\ poller = "drop"
    /\ \E D \in SUBSET (known \ listed) :
         /\ D # {}
         /\ registered' = registered \ D
         /\ CloseHandles(D)
    /\ poller' = "dead"
    /\ UNCHANGED <<present, scanVars, stopping>>

-----------------------------------------------------------------------------
(* RegistryPoller's loop, and the steps of HubServer.stop that concern it. *)

\* A mutated loop that does not look at the stop event.
WaitEndsDeaf ==
    /\ poller = "wait"
    /\ poller' = "list"
    /\ UNCHANGED <<present, registered, handles, scanVars, stopping>>

\* The wait between scans ends early when stop is set, and the loop test
\* then ends the thread.
WaitEnds ==
    /\ poller = "wait"
    /\ poller' = IF stopping = "no" THEN "list" ELSE "ended"
    /\ UNCHANGED <<present, registered, handles, scanVars, stopping>>

\* The loop test finds stop set, before the first scan or after a wait that
\* timed out.
LoopTestEnds ==
    /\ poller = "list"
    /\ stopping # "no"
    /\ poller' = "ended"
    /\ UNCHANGED <<present, registered, handles, scanVars, stopping>>

RequestStop ==
    /\ stopping = "no"
    /\ stopping' = "requested"
    /\ UNCHANGED <<present, registered, handles, poller, scanVars>>

\* A mutated stop that does not wait for the thread.
JoinImpatient ==
    /\ stopping = "requested"
    /\ stopping' = "joined"
    /\ UNCHANGED <<present, registered, handles, poller, scanVars>>

Join ==
    /\ stopping = "requested"
    /\ PollerGone
    /\ stopping' = "joined"
    /\ UNCHANGED <<present, registered, handles, poller, scanVars>>

CloseRegistry ==
    /\ stopping = "joined"
    /\ CloseHandles(registered)
    /\ registered' = {}
    /\ stopping' = "closed"
    /\ UNCHANGED <<present, poller, scanVars>>

-----------------------------------------------------------------------------
(* The environment. *)

Plug(p) ==
    /\ p \notin present
    /\ present' = present \cup {p}
    /\ UNCHANGED <<registered, handles, poller, scanVars, stopping>>

Unplug(p) ==
    /\ p \in present
    /\ present' = present \ {p}
    /\ UNCHANGED <<registered, handles, poller, scanVars, stopping>>

-----------------------------------------------------------------------------
PollerStep == ListPorts \/ Snapshot \/ NextPort \/ AllProbed \/ NotIdentified \/ Identified
              \/ OpenPort \/ Insert \/ Drop \/ ScanRaises \/ DropRaises
              \/ WaitEnds \/ LoopTestEnds

StopStep == Join \/ CloseRegistry

Next ==
    \/ PollerStep
    \/ RequestStop \/ StopStep
    \/ \E p \in Ports : Plug(p) \/ Unplug(p)

\* The two threads run; a port that is probed over and over while its device
\* stays plugged in is identified and opened at some time.
Fairness ==
    /\ WF_vars(PollerStep) /\ WF_vars(StopStep)
    /\ \A p \in Ports : /\ SF_vars(probing = p /\ Identified)
                        /\ SF_vars(probing = p /\ OpenPort)

Spec == Init /\ [][Next]_vars
FairSpec == Spec /\ Fairness

-----------------------------------------------------------------------------
(* Properties. *)

\* Every open serial connection has exactly one owner, the table or the scan
\* in progress: none leaks when a device vanishes, and no port is opened
\* twice, although the probing is done without the lock.
HandlesOwned ==
    \A p \in Ports :
        handles[p] = (IF p \in registered THEN 1 ELSE 0)
                     + (IF poller = "insert" /\ probing = p THEN 1 ELSE 0)

\* Once stop() has closed the registry, no device is registered and no port
\* open, for good: the poller has been joined before.
ClosedForGood ==
    stopping = "closed" => registered = {} /\ \A p \in Ports : handles[p] = 0

\* A device whose port has disappeared is dropped, unless it comes back or
\* the poller has died.
VanishedDropped ==
    \A p \in Ports :
        (p \in registered \ present)
            ~> (p \notin registered \/ p \in present \/ poller = "dead")

\* A device that stays plugged in is registered, unless the poller has died
\* or the hub is stopping.
PluggedRegistered ==
    \A p \in Ports :
        (p \in present)
            ~> (p \in registered \/ p \notin present \/ poller = "dead" \/ stopping # "no")

\* stop() ends: it never waits for a poller that does not come back.
StopEnds == (stopping = "requested") ~> (stopping = "closed")

\* What the rest of the hub sees is the abstract device table.
Table == INSTANCE DeviceTable
    WITH Devices <- Ports, table <- registered, shut <- stopping = "closed"
ImplementsTable == Table!TableSpec
=============================================================================
