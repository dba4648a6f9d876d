------------------------ MODULE DeviceRegistryProofs ------------------------
(***************************************************************************)
(* Theorems about DeviceRegistry, for any set of ports.                    *)
(***************************************************************************)
EXTENDS DeviceRegistry, TLAPS

\* What the scan relies on between its three holds of the lock: only this
\* thread registers devices, and nobody but it removes them before it has
\* been joined, so its snapshots stay right about the registered ports.
ScanInv ==
    /\ poller \in {"probe", "identify", "open", "insert"} => todo \cap registered = {}
    /\ poller \in {"probe", "identify", "open", "insert", "drop"} => known \subseteq registered
    /\ IF poller \in {"identify", "open", "insert"}
       THEN probing \in Ports \ (registered \cup todo)
       ELSE probing = NoPort

\* The order of stop(): the poller is gone before the registry is closed.
StopInv ==
    /\ stopping \in {"joined", "closed"} => PollerGone
    /\ stopping = "closed" => registered = {}

RegistryInv == TypeOK /\ ScanInv /\ StopInv /\ HandlesOwned

LEMMA RegistryInit == Init => RegistryInv
BY DEF Init, RegistryInv, TypeOK, ScanInv, StopInv, HandlesOwned, PollerLocations, PollerGone

LEMMA RegistryStep == RegistryInv /\ [Next]_vars => RegistryInv'
<1> SUFFICES ASSUME RegistryInv, [Next]_vars PROVE RegistryInv'
  OBVIOUS
<1> USE NoPortAssumption
    DEF RegistryInv, TypeOK, ScanInv, StopInv, HandlesOwned, PollerLocations, PollerGone,
        scanVars
<1>1. CASE ListPorts
  BY <1>1 DEF ListPorts
<1>2. CASE Snapshot
  BY <1>2 DEF Snapshot
<1>3. CASE NextPort
  BY <1>3 DEF NextPort
<1>4. CASE AllProbed
  BY <1>4 DEF AllProbed
<1>5. CASE NotIdentified
  BY <1>5 DEF NotIdentified
<1>6. CASE Identified
  BY <1>6 DEF Identified
<1>7. CASE OpenPort
  BY <1>7 DEF OpenPort
<1>8. CASE Insert
  BY <1>8 DEF Insert
<1>9. CASE Drop
  BY <1>9 DEF Drop, CloseHandles
<1>10. CASE ScanRaises
  BY <1>10 DEF ScanRaises
<1>11. CASE WaitEnds \/ LoopTestEnds
  BY <1>11 DEF WaitEnds, LoopTestEnds
<1>12. CASE RequestStop
  BY <1>12 DEF RequestStop
<1>13. CASE Join
  BY <1>13 DEF Join
<1>14. CASE CloseRegistry
  BY <1>14 DEF CloseRegistry, CloseHandles
<1>15. CASE \E p \in Ports : Plug(p) \/ Unplug(p)
  BY <1>15 DEF Plug, Unplug
<1>16. CASE UNCHANGED vars
  BY <1>16 DEF vars
<1>17. CASE DropRaises
  BY <1>17 DEF DropRaises, CloseHandles
<1>18. QED
  BY <1>1, <1>2, <1>3, <1>4, <1>5, <1>6, <1>7, <1>8, <1>9, <1>10, <1>11, <1>12, <1>13, <1>14,
     <1>15, <1>16, <1>17 DEF Next, PollerStep, StopStep

LEMMA RegistryHolds == Spec => []RegistryInv
BY RegistryInit, RegistryStep, PTL DEF Spec

\* The variables of the registry keep their types.
THEOREM RegistryTypeCorrect == Spec => []TypeOK
BY RegistryHolds, PTL DEF RegistryInv

\* Every open serial connection has exactly one owner at every step of a
\* scan, whatever is plugged and unplugged under it.
THEOREM HandlesAlwaysOwned == Spec => []HandlesOwned
BY RegistryHolds, PTL DEF RegistryInv

\* After stop() nothing is registered and no port is open, for good.
THEOREM ClosedStaysClosed == Spec => []ClosedForGood
<1>1. RegistryInv => ClosedForGood
  BY DEF RegistryInv, TypeOK, StopInv, HandlesOwned, ClosedForGood, PollerGone
<1>2. QED
  BY <1>1, RegistryHolds, PTL

-----------------------------------------------------------------------------
(* The scan implements the abstract device table.                          *)

LEMMA TableInitially == Init => Table!TableInit
BY DEF Init, Table!TableInit

LEMMA TableStep == RegistryInv /\ [Next]_vars => [Table!TableNext]_(Table!tableVars)
<1> SUFFICES ASSUME RegistryInv, [Next]_vars
             PROVE  Table!TableNext \/ UNCHANGED <<registered, stopping = "closed">>
  BY DEF Table!tableVars
<1> USE DEF RegistryInv, TypeOK, scanVars
<1>1. CASE Insert
  <2>1. stopping # "closed"
    BY <1>1 DEF Insert, StopInv, PollerGone
  <2>2. probing \in Ports /\ probing \notin registered
    BY <1>1 DEF Insert, ScanInv
  <2>3. Table!AddDevice(probing)
    BY <1>1, <2>1, <2>2 DEF Insert, Table!AddDevice
  <2>4. QED
    BY <2>2, <2>3 DEF Table!TableNext
<1>2. CASE Drop
  <2> DEFINE D == known \ listed
  <2>1. stopping # "closed" /\ D \in SUBSET registered
    BY <1>2 DEF Drop, ScanInv, StopInv, PollerGone
  <2>2. CASE D = {}
    BY <1>2, <2>2 DEF Drop
  <2>3. CASE D # {}
    <3>1. Table!DropDevices(D)
      BY <1>2, <2>1, <2>3 DEF Drop, Table!DropDevices
    <3>2. QED
      BY <2>1, <3>1 DEF Table!TableNext
  <2>4. QED
    BY <2>2, <2>3
<1>3. CASE CloseRegistry
  BY <1>3 DEF CloseRegistry, Table!ShutTable, Table!TableNext
<1>4. CASE RequestStop \/ Join
  BY <1>4 DEF RequestStop, Join
<1>5. CASE ListPorts \/ Snapshot \/ NextPort \/ AllProbed \/ NotIdentified \/ Identified
           \/ OpenPort \/ ScanRaises \/ WaitEnds \/ LoopTestEnds
  BY <1>5 DEF ListPorts, Snapshot, NextPort, AllProbed, NotIdentified, Identified, OpenPort,
              ScanRaises, WaitEnds, LoopTestEnds
<1>6. CASE \E p \in Ports : Plug(p) \/ Unplug(p)
  BY <1>6 DEF Plug, Unplug
<1>7. CASE UNCHANGED vars
  BY <1>7 DEF vars
<1>8. CASE DropRaises
  <2>1. PICK D \in SUBSET (known \ listed) : D # {} /\ registered' = registered \ D
    BY <1>8 DEF DropRaises
  <2>2. stopping # "closed" /\ stopping' = stopping /\ D \in SUBSET registered
    BY <1>8, <2>1 DEF DropRaises, ScanInv, StopInv, PollerGone
  <2>3. Table!DropDevices(D)
    BY <2>1, <2>2 DEF Table!DropDevices
  <2>4. QED
    BY <2>2, <2>3 DEF Table!TableNext
<1>9. QED
  BY <1>1, <1>2, <1>3, <1>4, <1>5, <1>6, <1>7, <1>8 DEF Next, PollerStep, StopStep

\* The registry implements DeviceTable, the table that HubServer's request
\* handlers are modelled against.
THEOREM RegistryRefines == Spec => ImplementsTable
BY TableInitially, TableStep, RegistryHolds, PTL DEF Spec, ImplementsTable, Table!TableSpec
=============================================================================
