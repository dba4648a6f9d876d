---------------------------- MODULE HubLifecycle ----------------------------
(***************************************************************************)
(* The life of a hub process in both network modes: start() and stop() of  *)
(* hub/server.py, the signal handler of hub/cli.py that calls stop(), the  *)
(* handshake of protocol/security.py and the sockets of                    *)
(* protocol/transport.py.                                                  *)
(*                                                                         *)
(* The signal handler interrupts the main thread, which waits until it has *)
(* returned.  In listen mode the main thread only accepts; in dial mode it *)
(* serves the connection itself, and may be interrupted while it holds one *)
(* of the locks that stop() needs.  A lock is held by whoever is at a      *)
(* place of its critical section.                                          *)
(*                                                                         *)
(* Sessions (SessionManager), scans (DeviceRegistry) and push loops        *)
(* (Subscriptions) are reduced to what starting and stopping needs; nobody *)
(* takes a session over here.                                              *)
(***************************************************************************)
EXTENDS Naturals

CONSTANTS
    Peers,          \* connections to the hub, or of the hub to a controller
    Modes,          \* network modes of the configuration
    Securities      \* security modes of the configuration

ASSUME ModesAssumption == Modes \subseteq {"listen", "dial"}
ASSUME SecuritiesAssumption == Securities \subseteq {"none", "token", "tls-token"}

VARIABLES
    mode, security, \* the configuration
    main,           \* where the main thread is
    handler,        \* where the signal handler is: "none" before, "done" after
    running,        \* _running
    listener,       \* the listening socket
    poller,         \* where the poller thread is
    devices,        \* the registry has devices, with their ports open
    pushing,        \* a push loop runs that has not been told to stop
    peer,           \* what a peer has sent of the handshake, or how it left
    thread,         \* where the service of each peer is
    more,           \* requests received from it after the stop
    broken          \* a handshake has ended the accept loop

config == <<mode, security>>
stopVars == <<handler, running>>
hubVars == <<poller, devices, pushing>>
peerVars == <<peer, thread, more>>
vars == <<config, main, stopVars, listener, hubVars, peerVars, broken>>

\* Places where a service holds the lock of the registry, of the subscriptions.
InRegistry == {"listing", "getting", "finding"}
InSubscriptions == {"joining", "find", "finding", "removing"}
InSession == {"list", "loop", "recv", "get", "sub", "unsub"} \cup InRegistry \cup InSubscriptions

TypeOK ==
    /\ mode \in Modes /\ security \in Securities
    /\ main \in {"begin", "bind", "poll", "flag", "loop", "accept", "verify", "dial", "present",
                 "serve", "sleep", "done"}
    /\ handler \in {"none", "listener", "join", "shutdown", "close", "done"}
    /\ {running, devices, pushing, broken} \subseteq BOOLEAN
    /\ listener \in (IF mode = "listen" THEN {"none", "open", "closed"} ELSE {"none"})
    /\ poller \in {"off", "head", "scan", "locked", "ended"}
    /\ peer \in [Peers -> {"away", "silent", "right", "gone", "wrong", "closed", "reset"}]
    /\ thread \in [Peers -> InSession \cup {"none", "shaking", "rejected", "admit", "refused", "ended"}]
    /\ more \in [Peers -> Nat]

Init ==
    /\ mode \in Modes /\ security \in Securities
    /\ main = "begin" /\ handler = "none" /\ running = FALSE /\ listener = "none"
    /\ poller = "off" /\ devices = FALSE /\ pushing = FALSE /\ broken = FALSE
    /\ peer = [p \in Peers |-> "away"] /\ thread = [p \in Peers |-> "none"]
    /\ more = [p \in Peers |-> 0]

RegistryFree == poller # "locked" /\ \A p \in Peers : thread[p] \notin InRegistry
SubscriptionsFree == \A p \in Peers : thread[p] \notin InSubscriptions

\* The main thread runs when the handler does not.
MainFree == handler \in {"none", "done"}

----------------------------------------------------------------------------
(* start() *)

MainAt(from, to) == main = from /\ MainFree /\ main' = to

\* build_provider raises for a mode that is not implemented.
Configure ==
    /\ MainAt("begin", IF security = "tls-token" THEN "done"
                       ELSE IF mode = "listen" THEN "bind" ELSE "poll")
    /\ UNCHANGED <<config, stopVars, listener, hubVars, peerVars, broken>>

\* The address may be in use: start() raises.
Bind ==
    /\ \/ MainAt("bind", "poll") /\ listener' = "open"
       \/ MainAt("bind", "done") /\ listener' = "none"
    /\ UNCHANGED <<config, stopVars, hubVars, peerVars, broken>>

StartPoller ==
    /\ MainAt("poll", "flag") /\ poller' = "head"
    /\ UNCHANGED <<config, stopVars, listener, devices, pushing, peerVars, broken>>

SetRunning ==
    /\ MainAt("flag", "loop") /\ running' = TRUE
    /\ UNCHANGED <<config, handler, listener, hubVars, peerVars, broken>>

\* The test of _running of both loops.
LoopHead ==
    /\ MainAt("loop", IF ~running THEN "done" ELSE IF mode = "listen" THEN "accept" ELSE "dial")
    /\ UNCHANGED <<config, stopVars, listener, hubVars, peerVars, broken>>

At(p, from, to) == thread[p] = from /\ thread' = [thread EXCEPT ![p] = to]

\* accept() of the listener, which hands the socket to the security provider.
Accept(p) ==
    /\ listener = "open" /\ peer[p] # "away"
    /\ IF security = "token" THEN MainAt("accept", "verify") /\ At(p, "none", "shaking")
                             ELSE MainAt("accept", "loop") /\ At(p, "none", "admit")
    /\ UNCHANGED <<config, stopVars, listener, hubVars, peer, more, broken>>

\* The accept that was interrupted by the signal finds its socket closed.
AcceptClosed ==
    /\ listener = "closed" /\ MainAt("accept", "done")
    /\ UNCHANGED <<config, stopVars, listener, hubVars, peerVars, broken>>

\* _verify: the token is right, and the acknowledgement sent.
Verified(p) ==
    /\ MainAt("verify", "loop") /\ peer[p] \in {"right", "gone"} /\ At(p, "shaking", "admit")
    /\ UNCHANGED <<config, stopVars, listener, hubVars, peer, more, broken>>

\* A bug: a failed handshake ends the accept loop (mutated).
RejectedEnds(p) ==
    /\ MainAt("verify", "done") /\ peer[p] \in {"wrong", "closed"} /\ At(p, "shaking", "rejected")
    /\ UNCHANGED <<config, stopVars, listener, hubVars, peer, more, broken>>

\* AuthenticationError, or ConnectionClosed by the peer: the next one, please.
Rejected(p) ==
    /\ MainAt("verify", "loop") /\ peer[p] \in {"wrong", "closed"} /\ At(p, "shaking", "rejected")
    /\ UNCHANGED <<config, stopVars, listener, hubVars, peer, more, broken>>

\* A peer that resets or is silent for five seconds at any byte: an OSError,
\* which breaks the loop.
HandshakeBreaks(p) ==
    /\ MainAt("verify", "done") /\ peer[p] \in {"silent", "reset"}
    /\ At(p, "shaking", "rejected") /\ broken' = TRUE
    /\ UNCHANGED <<config, stopVars, listener, hubVars, peer, more>>

\* dial(): connect, then present the token.
Dial(p) ==
    /\ peer[p] = "away"
    /\ peer' = [peer EXCEPT ![p] = IF security = "token" THEN "silent" ELSE "right"]
    /\ IF security = "token" THEN MainAt("dial", "present") /\ At(p, "none", "shaking")
                             ELSE MainAt("dial", "serve") /\ At(p, "none", "admit")
    /\ UNCHANGED <<config, stopVars, listener, hubVars, more, broken>>

\* Refused, or unreachable.
DialFails ==
    /\ MainAt("dial", "sleep")
    /\ UNCHANGED <<config, stopVars, listener, hubVars, peerVars, broken>>

\* _present: the byte that acknowledges the token.
Presented(p) ==
    /\ MainAt("present", "serve") /\ peer[p] \in {"right", "gone"} /\ At(p, "shaking", "admit")
    /\ UNCHANGED <<config, stopVars, listener, hubVars, peer, more, broken>>

\* Every way to fail leads to another attempt, a second later.
PresentFails(p) ==
    /\ MainAt("present", "sleep") /\ peer[p] \notin {"right", "gone"} /\ At(p, "shaking", "rejected")
    /\ UNCHANGED <<config, stopVars, listener, hubVars, peer, more, broken>>

ServeReturns ==
    /\ MainAt("serve", "sleep")
    /\ \A p \in Peers : thread[p] \notin InSession \cup {"admit"}
    /\ UNCHANGED <<config, stopVars, listener, hubVars, peerVars, broken>>

Sleep ==
    /\ MainAt("sleep", "loop")
    /\ UNCHANGED <<config, stopVars, listener, hubVars, peerVars, broken>>

MainStep ==
    \/ Configure \/ Bind \/ StartPoller \/ SetRunning \/ LoopHead \/ AcceptClosed
    \/ \E p \in Peers : \/ Accept(p) \/ Verified(p) \/ Rejected(p) \/ HandshakeBreaks(p)
                        \/ Dial(p) \/ Presented(p) \/ PresentFails(p)
    \/ DialFails \/ ServeReturns \/ Sleep

----------------------------------------------------------------------------
(* stop(), in the signal handler.  A signal before _running is set, or a   *)
(* second one, changes nothing.                                            *)

HandlerAt(from, to) == handler = from /\ handler' = to

Signal ==
    /\ main # "done" /\ running /\ HandlerAt("none", "listener") /\ running' = FALSE
    /\ UNCHANGED <<config, main, listener, hubVars, peerVars, broken>>

\* A bug: stop() relies on _running alone (mutated).
LeaveListener ==
    /\ HandlerAt("listener", "join")
    /\ UNCHANGED <<config, main, running, listener, hubVars, peerVars, broken>>

CloseListener ==
    /\ HandlerAt("listener", "join")
    /\ listener' = IF listener = "open" THEN "closed" ELSE listener
    /\ UNCHANGED <<config, main, running, hubVars, peerVars, broken>>

\* A bug: the poller is told to stop, but not joined (mutated).
LeavePoller ==
    /\ HandlerAt("join", "shutdown")
    /\ UNCHANGED <<config, main, running, listener, hubVars, peerVars, broken>>

\* The stop event is set when the handler comes here.
JoinPoller ==
    /\ HandlerAt("join", "shutdown") /\ poller = "ended"
    /\ UNCHANGED <<config, main, running, listener, hubVars, peerVars, broken>>

ShutdownSubscriptions ==
    /\ HandlerAt("shutdown", "close") /\ SubscriptionsFree /\ pushing' = FALSE
    /\ UNCHANGED <<config, main, running, listener, poller, devices, peerVars, broken>>

CloseRegistry ==
    /\ HandlerAt("close", "done") /\ RegistryFree /\ devices' = FALSE
    /\ UNCHANGED <<config, main, running, listener, poller, pushing, peerVars, broken>>

HandlerStep == CloseListener \/ JoinPoller \/ ShutdownSubscriptions \/ CloseRegistry

----------------------------------------------------------------------------
(* RegistryPoller._run *)

PollerAt(from, to) == poller = from /\ poller' = to

PollerHead ==
    /\ PollerAt("head", IF handler \in {"none", "listener"} THEN "scan" ELSE "ended")
    /\ UNCHANGED <<config, main, stopVars, listener, devices, pushing, peerVars, broken>>

\* A scan probes without the lock and updates the table with it, or raises.
Scan ==
    /\ \/ PollerAt("scan", "locked") /\ RegistryFree
       \/ PollerAt("scan", "ended")
    /\ UNCHANGED <<config, main, stopVars, listener, devices, pushing, peerVars, broken>>

Update ==
    /\ PollerAt("locked", "head") /\ devices' \in BOOLEAN
    /\ UNCHANGED <<config, main, stopVars, listener, pushing, peerVars, broken>>

PollerStep == PollerHead \/ Scan \/ Update

----------------------------------------------------------------------------
(* _serve of one connection: in a thread of its own, or in the main thread. *)

Runs(p, from, to) == At(p, from, to) /\ (mode = "dial" => MainFree)
Serving == <<config, main, stopVars, listener, poller, devices, peer, broken>>

Admit(p) ==
    /\ Runs(p, "admit", IF \E q \in Peers : thread[q] \in InSession THEN "refused" ELSE "list")
    /\ UNCHANGED <<Serving, pushing, more>>

\* getpeername raises for a peer that has reset.
AdmitFails(p) ==
    /\ peer[p] = "reset" /\ Runs(p, "admit", "ended")
    /\ UNCHANGED <<Serving, pushing, more>>

\* The registry is read at admission, by every command and to subscribe.
EnterRegistry(p) ==
    /\ RegistryFree
    /\ Runs(p, "list", "listing") \/ Runs(p, "get", "getting") \/ Runs(p, "find", "finding")
    /\ UNCHANGED <<Serving, pushing, more>>

LeaveRegistry(p) ==
    /\ Runs(p, "listing", "loop") \/ Runs(p, "getting", "loop")
    /\ UNCHANGED <<Serving, pushing, more>>

\* A bug: the loop is left only when the connection ends (mutated).
RequestLoopDeaf(p) ==
    /\ Runs(p, "loop", "recv")
    /\ UNCHANGED <<Serving, pushing, more>>

\* The request loop tests _running before each receive.
RequestLoop(p) ==
    /\ Runs(p, "loop", IF running THEN "recv" ELSE "ended")
    /\ UNCHANGED <<Serving, pushing, more>>

Receive(p) ==
    /\ peer[p] = "right" /\ \E request \in {"get", "sub", "unsub"} : Runs(p, "recv", request)
    /\ more' = [more EXCEPT ![p] = IF running THEN 0 ELSE @ + 1]
    /\ UNCHANGED <<Serving, pushing>>

ReceiveFails(p) ==
    /\ peer[p] # "right" /\ Runs(p, "recv", "ended")
    /\ UNCHANGED <<Serving, pushing, more>>

\* subscribe and unsubscribe take the lock and stop the push loop ...
StopPushing(p) ==
    /\ SubscriptionsFree /\ pushing' = FALSE
    /\ Runs(p, "sub", "joining") \/ Runs(p, "unsub", "removing")
    /\ UNCHANGED <<Serving, more>>

\* ... which they join, for two seconds at most.
Joined(p) ==
    /\ Runs(p, "joining", "find") \/ Runs(p, "removing", "loop")
    /\ UNCHANGED <<Serving, pushing, more>>

\* A push loop is started when the device that is selected is there.
StartPushing(p) ==
    /\ Runs(p, "finding", "loop") /\ pushing' \in {FALSE, devices}
    /\ UNCHANGED <<Serving, more>>

ThreadStep(p) ==
    \/ Admit(p) \/ AdmitFails(p) \/ EnterRegistry(p) \/ LeaveRegistry(p) \/ RequestLoop(p)
    \/ ReceiveFails(p) \/ StopPushing(p) \/ Joined(p) \/ StartPushing(p)

\* A push loop ends by itself when a send fails.
PushLoopEnds ==
    /\ pushing /\ pushing' = FALSE
    /\ UNCHANGED <<config, main, stopVars, listener, poller, devices, peerVars, broken>>

----------------------------------------------------------------------------
(* The peers. *)

PeerMoves(p, to) ==
    /\ peer' = [peer EXCEPT ![p] = to]
    /\ UNCHANGED <<config, main, stopVars, listener, hubVars, thread, more, broken>>

\* The backlog takes a connection before it is accepted.
Connect(p) ==
    /\ listener = "open" /\ peer[p] = "away"
    /\ PeerMoves(p, IF security = "token" THEN "silent" ELSE "right")

\* The token, or the verdict on the token of the hub.
Present(p) == peer[p] = "silent" /\ \E sent \in {"right", "wrong"} : PeerMoves(p, sent)

\* What a peer has sent can still be read when it is gone, unless it resets.
Leave(p) ==
    \/ peer[p] = "silent" /\ PeerMoves(p, "closed")
    \/ peer[p] = "right" /\ PeerMoves(p, "gone")
    \/ /\ peer[p] \in {"silent", "right"} /\ thread[p] \in {"none", "shaking", "admit"}
       /\ PeerMoves(p, "reset")

----------------------------------------------------------------------------

Next ==
    \/ MainStep \/ Signal \/ HandlerStep \/ PollerStep \/ PushLoopEnds
    \/ \E p \in Peers : ThreadStep(p) \/ Receive(p) \/ Connect(p) \/ Present(p) \/ Leave(p)

Spec == Init /\ [][Next]_vars

\* Threads run when nothing holds them, and handshakes and joins time out.
\* Peers need not send anything, and nobody needs to stop the hub.
FairSpec ==
    /\ Spec /\ WF_vars(MainStep) /\ WF_vars(HandlerStep) /\ WF_vars(PollerStep)
    /\ \A p \in Peers : WF_vars(ThreadStep(p))

----------------------------------------------------------------------------

\* When stop() has returned, no scan runs that could open a port again, the
\* listener and all ports are closed and, where the main thread itself serves,
\* nothing pushes: a subscribe that follows finds no device.
StoppedIsClean ==
    handler = "done" =>
        /\ poller = "ended" /\ listener # "open" /\ ~devices
        /\ mode = "dial" => ~pushing

\* stop() neither closes the connections nor wakes their threads: each may
\* still receive one request, on a closed registry, but never two.
OneMoreRequest == \A p \in Peers : more[p] <= 1

\* Peers with the right token come through, whatever others present before
\* them: the accept loop ends only by a stop or a handshake that breaks off.
AcceptsOn ==
    LET waiting == {p \in Peers : peer[p] = "right" /\ thread[p] \in {"none", "shaking"}} IN
    mode = "listen" /\ running /\ waiting # {} ~> waiting = {} \/ ~running \/ broken

\* In listen mode stop() ends the hub, through whatever locks are held and
\* whatever handshake is under way.
ListenStops == mode = "listen" /\ handler # "none" ~> main = "done"

\* "Initiate shutdown. Safe to call from any thread."
StopReturns == handler # "none" ~> handler = "done"
=============================================================================
