---------------------------- MODULE DeviceTable ----------------------------
(***************************************************************************)
(* What the hub's device registry (hub/registry.py) promises to the rest   *)
(* of the hub: a set of registered devices that changes by one device      *)
(* appearing, by some devices disappearing together, and by one final      *)
(* shutdown that empties it for good.  DeviceRegistry shows that the scan  *)
(* implements this; HubServer runs the request handlers against it.        *)
(***************************************************************************)
CONSTANT Devices

VARIABLES
    table,          \* the device ids that registry.list() and get() know
    shut            \* registry.close() has returned, after the poller ended

tableVars == <<table, shut>>

TableTypeOK ==
    /\ table \subseteq Devices
    /\ shut \in BOOLEAN

TableInit ==
    /\ table = {}
    /\ shut = FALSE

AddDevice(d) ==
    /\ ~shut
    /\ d \notin table
    /\ table' = table \cup {d}
    /\ UNCHANGED shut

\* scan drops every vanished port under one hold of the lock.
DropDevices(D) ==
    /\ ~shut
    /\ D # {}
    /\ table' = table \ D
    /\ UNCHANGED shut

ShutTable ==
    /\ ~shut
    /\ table' = {}
    /\ shut' = TRUE

TableNext ==
    \/ \E d \in Devices : AddDevice(d)
    \/ \E D \in SUBSET table : DropDevices(D)
    \/ ShutTable

TableSpec == TableInit /\ [][TableNext]_tableVars
=============================================================================
