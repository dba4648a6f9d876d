--------------------------- MODULE SingleUserHub ---------------------------
(***************************************************************************)
(* What the hub promises the one controller it serves at a time: serve     *)
(* threads, requests and replies are gone, and so is the device registry.  *)
(* A user that is admitted starts with no device chosen; commands run one  *)
(* after another, each on the device that the user has chosen; and neither *)
(* the user nor the choice changes while one runs.                         *)
(***************************************************************************)
CONSTANTS Users, Nobody, Devices, NoDevice

VARIABLES
    holder,         \* who is served
    choice,         \* the device it has chosen
    using           \* the user and the device of the command that runs

hubVars == <<holder, choice, using>>

HubInit == holder = Nobody /\ choice = NoDevice /\ using = {}

AdmitUser(u) ==
    /\ holder = Nobody
    /\ holder' = u
    /\ UNCHANGED <<choice, using>>

Choose(d) ==
    /\ holder # Nobody /\ using = {}
    /\ choice' = d
    /\ UNCHANGED <<holder, using>>

BeginCommand ==
    /\ holder # Nobody /\ choice # NoDevice /\ using = {}
    /\ using' = {<<holder, choice>>}
    /\ UNCHANGED <<holder, choice>>

EndCommand ==
    /\ using # {}
    /\ using' = {}
    /\ UNCHANGED <<holder, choice>>

LeaveHub ==
    /\ holder # Nobody /\ using = {}
    /\ holder' = Nobody /\ choice' = NoDevice
    /\ UNCHANGED using

HubNext ==
    \/ \E u \in Users : AdmitUser(u)
    \/ \E d \in Devices : Choose(d)
    \/ BeginCommand \/ EndCommand \/ LeaveHub

HubSpec == HubInit /\ [][HubNext]_hubVars
=============================================================================
