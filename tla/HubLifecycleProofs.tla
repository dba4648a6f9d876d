------------------------- MODULE HubLifecycleProofs -------------------------
(***************************************************************************)
(* Proofs about HubLifecycle: type correctness, a hub that is stopped      *)
(* leaves nothing behind, and no connection outlives a stop by more than   *)
(* one request.                                                            *)
(***************************************************************************)
EXTENDS HubLifecycle, TLAPS

Starting == {"begin", "bind", "poll", "flag"}

\* What start() relies on: nothing can be stopped, and nobody is served, before
\* _running is set.
StartInv ==
    /\ main \in Starting =>
           handler = "none" /\ ~running /\ \A p \in Peers : thread[p] = "none" /\ more[p] = 0
    /\ main = "bind" => mode = "listen"

\* What each step of stop() leaves behind.
StopInv ==
    /\ handler \in {"join", "shutdown", "close", "done"} => listener # "open"
    /\ handler \in {"shutdown", "close", "done"} => poller = "ended"
    /\ handler = "done" => ~devices
    /\ mode = "dial" /\ handler \in {"close", "done"} => ~pushing

\* A thread in recv has received nothing since the stop.
RequestInv ==
    \A p \in Peers : /\ more[p] \in {0, 1}
                     /\ thread[p] = "recv" \/ running => more[p] = 0

LifeInv == TypeOK /\ StartInv /\ StopInv /\ RequestInv

USE DEF MainAt, At, HandlerAt, PollerAt, Runs, MainFree, InSession, InRegistry, InSubscriptions

LEMMA LifeInit == Init => LifeInv
<1> SUFFICES ASSUME Init PROVE LifeInv
  OBVIOUS
<1> USE DEF Init
<1>1. TypeOK
  <2>1. /\ listener \in (IF mode = "listen" THEN {"none", "open", "closed"} ELSE {"none"})
        /\ {running, devices, pushing, broken} \subseteq BOOLEAN
    OBVIOUS
  <2>2. /\ peer \in [Peers -> {"away", "silent", "right", "gone", "wrong", "closed", "reset"}]
        /\ thread \in [Peers -> InSession \cup {"none", "shaking", "rejected", "admit", "refused",
                                                "ended"}]
        /\ more \in [Peers -> Nat]
    OBVIOUS
  <2> HIDE DEF InSession
  <2> QED
    BY <2>1, <2>2, Zenon DEF TypeOK
<1>2. StartInv
  BY DEF StartInv, Starting
<1>3. StopInv
  <2>1. handler = "none" /\ "none" \notin {"join", "shutdown", "close", "done"}
    OBVIOUS
  <2> QED
    BY <2>1, Zenon DEF StopInv
<1>4. RequestInv
  <2>1. more = [p \in Peers |-> 0] /\ thread = [p \in Peers |-> "none"] /\ ~running
    BY Zenon
  <2> HIDE DEF Init
  <2>2. \A p \in Peers : more[p] = 0
    BY <2>1, Zenon
  <2> QED
    BY <2>2, Zenon DEF RequestInv
<1> QED
  BY <1>1, <1>2, <1>3, <1>4, Zenon DEF LifeInv

LEMMA LifeMain == LifeInv /\ MainStep => LifeInv'
<1> SUFFICES ASSUME LifeInv, MainStep PROVE LifeInv'
  OBVIOUS
<1> USE DEF LifeInv, TypeOK, StartInv, StopInv, RequestInv, Starting,
           config, stopVars, hubVars, peerVars
<1>1. CASE Configure
  BY <1>1 DEF Configure
<1>2. CASE Bind
  BY <1>2 DEF Bind
<1>3. CASE StartPoller
  BY <1>3 DEF StartPoller
<1>4. CASE SetRunning
  BY <1>4 DEF SetRunning
<1>5. CASE LoopHead
  BY <1>5 DEF LoopHead
<1>6. CASE AcceptClosed
  BY <1>6 DEF AcceptClosed
<1>7. CASE \E p \in Peers : Accept(p)
  BY <1>7 DEF Accept
<1>8. CASE \E p \in Peers : Verified(p)
  BY <1>8 DEF Verified
<1>9. CASE \E p \in Peers : Rejected(p)
  BY <1>9 DEF Rejected
<1>10. CASE \E p \in Peers : HandshakeBreaks(p)
  BY <1>10 DEF HandshakeBreaks
<1>11. CASE \E p \in Peers : Dial(p)
  BY <1>11 DEF Dial
<1>12. CASE \E p \in Peers : Presented(p)
  BY <1>12 DEF Presented
<1>13. CASE \E p \in Peers : PresentFails(p)
  BY <1>13 DEF PresentFails
<1>14. CASE DialFails
  BY <1>14 DEF DialFails
<1>15. CASE ServeReturns
  BY <1>15 DEF ServeReturns
<1>16. CASE Sleep
  BY <1>16 DEF Sleep
<1> QED
  BY <1>1, <1>2, <1>3, <1>4, <1>5, <1>6, <1>7, <1>8, <1>9, <1>10, <1>11, <1>12, <1>13,
     <1>14, <1>15, <1>16 DEF MainStep

LEMMA LifeStop == LifeInv /\ (Signal \/ HandlerStep) => LifeInv'
<1> SUFFICES ASSUME LifeInv, Signal \/ HandlerStep PROVE LifeInv'
  OBVIOUS
<1> USE DEF LifeInv, TypeOK, StartInv, StopInv, RequestInv, Starting,
           config, stopVars, hubVars, peerVars
<1>1. CASE Signal
  BY <1>1 DEF Signal
<1>2. CASE CloseListener
  BY <1>2 DEF CloseListener
<1>3. CASE JoinPoller
  BY <1>3 DEF JoinPoller
<1>4. CASE ShutdownSubscriptions
  BY <1>4 DEF ShutdownSubscriptions
<1>5. CASE CloseRegistry
  BY <1>5 DEF CloseRegistry
<1> QED
  BY <1>1, <1>2, <1>3, <1>4, <1>5 DEF HandlerStep

LEMMA LifePoller == LifeInv /\ PollerStep => LifeInv'
<1> SUFFICES ASSUME LifeInv, PollerStep PROVE LifeInv'
  OBVIOUS
<1> USE DEF LifeInv, TypeOK, StartInv, StopInv, RequestInv, Starting,
           config, stopVars, hubVars, peerVars
<1>1. CASE PollerHead
  BY <1>1 DEF PollerHead
<1>2. CASE Scan
  BY <1>2 DEF Scan
<1>3. CASE Update
  BY <1>3 DEF Update
<1> QED
  BY <1>1, <1>2, <1>3 DEF PollerStep

LEMMA LifeThread == ASSUME NEW p \in Peers, LifeInv, ThreadStep(p) \/ Receive(p)
                    PROVE  LifeInv'
<1> USE DEF LifeInv, TypeOK, StartInv, StopInv, RequestInv, Starting, Serving,
           config, stopVars, hubVars, peerVars
<1>1. CASE Admit(p)
  BY <1>1 DEF Admit
<1>2. CASE AdmitFails(p)
  BY <1>2 DEF AdmitFails
<1>3. CASE EnterRegistry(p)
  BY <1>3 DEF EnterRegistry
<1>4. CASE LeaveRegistry(p)
  BY <1>4 DEF LeaveRegistry
<1>5. CASE RequestLoop(p)
  BY <1>5 DEF RequestLoop
<1>6. CASE ReceiveFails(p)
  BY <1>6 DEF ReceiveFails
<1>7. CASE StopPushing(p)
  <2>1. TypeOK'
    BY <1>7 DEF StopPushing
  <2>2. StartInv' /\ StopInv'
    BY <1>7 DEF StopPushing
  <2>3. RequestInv'
    BY <1>7 DEF StopPushing
  <2> QED
    BY <2>1, <2>2, <2>3, Zenon
<1>8. CASE Joined(p)
  BY <1>8 DEF Joined
<1>9. CASE StartPushing(p)
  <2>1. pushing' = FALSE \/ pushing' = devices
    BY <1>9, Zenon DEF StartPushing
  <2>2. CASE pushing' = FALSE
    BY <1>9, <2>2 DEF StartPushing
  <2>3. CASE pushing' = devices
    BY <1>9, <2>3 DEF StartPushing
  <2> QED
    BY <2>1, <2>2, <2>3
<1>10. CASE Receive(p)
  BY <1>10 DEF Receive
<1> QED
  BY <1>1, <1>2, <1>3, <1>4, <1>5, <1>6, <1>7, <1>8, <1>9, <1>10 DEF ThreadStep

LEMMA LifePeers == ASSUME NEW p \in Peers, LifeInv,
                          Connect(p) \/ Present(p) \/ Leave(p)
                   PROVE  LifeInv'
<1> USE DEF LifeInv, TypeOK, StartInv, StopInv, RequestInv, Starting, PeerMoves,
           config, stopVars, hubVars, peerVars
<1>1. CASE Connect(p)
  BY <1>1 DEF Connect
<1>2. CASE Present(p)
  BY <1>2 DEF Present
<1>3. CASE Leave(p)
  BY <1>3 DEF Leave
<1> QED
  BY <1>1, <1>2, <1>3

LEMMA LifeStep == LifeInv /\ [Next]_vars => LifeInv'
<1> SUFFICES ASSUME LifeInv, [Next]_vars PROVE LifeInv'
  OBVIOUS
<1>1. CASE MainStep \/ Signal \/ HandlerStep \/ PollerStep
  BY <1>1, LifeMain, LifeStop, LifePoller, Zenon
<1>2. CASE PushLoopEnds
  <2>1. ~pushing' /\ UNCHANGED <<config, main, stopVars, listener, poller, devices, peerVars, broken>>
    BY <1>2 DEF PushLoopEnds
  <2>2. TypeOK'
    <3>1. {running, devices, pushing, broken}' \subseteq BOOLEAN
      <4>1. {running, devices, pushing, broken} \subseteq BOOLEAN
        BY Zenon DEF LifeInv, TypeOK
      <4>2. pushing' = FALSE /\ running' = running /\ devices' = devices /\ broken' = broken
        BY <2>1 DEF stopVars
      <4> QED
        BY <4>1, <4>2
    <3>2. /\ UNCHANGED <<mode, security, main, handler, listener, poller>>
          /\ UNCHANGED <<peer, thread, more>>
      BY <2>1 DEF config, stopVars, peerVars
    <3> HIDE DEF InSession
    <3>3. /\ mode' \in Modes /\ security' \in Securities
          /\ main' \in {"begin", "bind", "poll", "flag", "loop", "accept", "verify", "dial",
                        "present", "serve", "sleep", "done"}
          /\ handler' \in {"none", "listener", "join", "shutdown", "close", "done"}
          /\ poller' \in {"off", "head", "scan", "locked", "ended"}
      BY <3>2, Zenon DEF LifeInv, TypeOK
    <3>4. /\ listener' \in (IF mode' = "listen" THEN {"none", "open", "closed"} ELSE {"none"})
          /\ peer' \in [Peers -> {"away", "silent", "right", "gone", "wrong", "closed", "reset"}]
          /\ thread' \in [Peers -> InSession \cup {"none", "shaking", "rejected", "admit", "refused",
                                                   "ended"}]
          /\ more' \in [Peers -> Nat]
      BY <3>2, Zenon DEF LifeInv, TypeOK
    <3> QED
      BY <3>1, <3>3, <3>4, Zenon DEF TypeOK
  <2>3. StartInv'
    BY <2>1 DEF LifeInv, StartInv, Starting, config, stopVars, peerVars
  <2>4. StopInv'
    <3>1. /\ ~pushing'
          /\ UNCHANGED <<mode, handler, listener, poller, devices>>
      BY <2>1 DEF config, stopVars
    <3> QED
      BY <3>1, Zenon DEF LifeInv, StopInv
  <2>5. RequestInv'
    BY <2>1 DEF LifeInv, RequestInv, stopVars, peerVars
  <2>6. QED
    BY <2>2, <2>3, <2>4, <2>5, Zenon DEF LifeInv
<1>3. ASSUME NEW p \in Peers, ThreadStep(p) \/ Receive(p) \/ Connect(p) \/ Present(p) \/ Leave(p)
      PROVE  LifeInv'
  BY <1>3, LifeThread, LifePeers, Zenon
<1>4. CASE UNCHANGED vars
  BY <1>4 DEF LifeInv, TypeOK, StartInv, StopInv, RequestInv, Starting,
              vars, config, stopVars, hubVars, peerVars
<1> QED
  BY <1>1, <1>2, <1>3, <1>4, Zenon DEF Next

LEMMA LifeInvariant == Spec => []LifeInv
BY LifeInit, LifeStep, PTL DEF Spec

\* The places of the main thread, the signal handler, the poller and the
\* service of each connection stay within the code's, in both network modes.
THEOREM LifecycleTypeCorrect == Spec => []TypeOK
<1>1. LifeInv => TypeOK
  BY DEF LifeInv
<1> QED
  BY <1>1, LifeInvariant, PTL

\* stop() of the hub: when it has returned, the poller has ended, the listener
\* and the devices are closed and, in dial mode, nothing pushes.
THEOREM StopIsClean == Spec => []StoppedIsClean
<1>1. LifeInv => StoppedIsClean
  BY DEF LifeInv, StopInv, StoppedIsClean
<1> QED
  BY <1>1, LifeInvariant, PTL

\* The request loop of _serve: no connection is served more than one request
\* after the hub has been told to stop, however many connections there are.
THEOREM AtMostOneRequest == Spec => []OneMoreRequest
<1>1. ASSUME NEW n \in {0, 1} PROVE n <= 1
  OBVIOUS
<1>2. LifeInv => OneMoreRequest
  BY <1>1, Zenon DEF LifeInv, RequestInv, OneMoreRequest
<1> QED
  BY <1>2, LifeInvariant, PTL

-----------------------------------------------------------------------------
(* The stop that never returns.                                            *)

\* In dial mode the handler has interrupted the main thread in a section that
\* it has still to enter itself.
Interlocked(p) ==
    /\ mode = "dial"
    /\ \/ thread[p] \in InSubscriptions /\ handler \in {"listener", "join", "shutdown"}
       \/ thread[p] \in InRegistry /\ handler \in {"listener", "join", "shutdown", "close"}

\* The thread that is interrupted does not move.
LEMMA InterlockedStep ==
    ASSUME NEW p \in Peers PROVE Interlocked(p) /\ [Next]_vars => Interlocked(p)'
<1> SUFFICES ASSUME Interlocked(p), [Next]_vars PROVE Interlocked(p)'
  OBVIOUS
<1> USE DEF Interlocked
<1>1. ~MainFree /\ mode = "dial"
  BY DEF MainFree
<1>2. CASE MainStep
  BY <1>1, <1>2
     DEF MainStep, Configure, Bind, StartPoller, SetRunning, LoopHead, AcceptClosed, Accept, Verified,
         Rejected, HandshakeBreaks, Dial, Presented, PresentFails, DialFails, ServeReturns, Sleep,
         MainAt
<1>3. CASE HandlerStep
  BY <1>3
     DEF HandlerStep, CloseListener, JoinPoller, ShutdownSubscriptions, CloseRegistry, HandlerAt,
         SubscriptionsFree, RegistryFree, config, peerVars
<1>4. CASE Signal \/ PollerStep \/ PushLoopEnds \/ UNCHANGED vars
  BY <1>4
     DEF Signal, PollerStep, PollerHead, Scan, Update, PushLoopEnds, vars, HandlerAt, config,
         stopVars, peerVars
<1>5. ASSUME NEW q \in Peers, ThreadStep(q) \/ Receive(q) PROVE Interlocked(p)'
  BY <1>1, <1>5
     DEF ThreadStep, Receive, Admit, AdmitFails, EnterRegistry, LeaveRegistry, RequestLoop,
         ReceiveFails, StopPushing, Joined, StartPushing, Runs
<1>6. ASSUME NEW q \in Peers, Connect(q) \/ Present(q) \/ Leave(q) PROVE Interlocked(p)'
  BY <1>6 DEF Connect, Present, Leave, PeerMoves, config, stopVars
<1>7. QED
  BY <1>2, <1>3, <1>4, <1>5, <1>6 DEF Next

\* stop(), called by the signal handler of hub/cli.py, never returns in dial
\* mode when the signal comes while the main thread, which serves the connection
\* itself, is in a section of the registry or of the subscriptions.
THEOREM StopHangs ==
    ASSUME NEW p \in Peers PROVE Spec => [](Interlocked(p) => [](handler # "done"))
<1>1. Interlocked(p) /\ [Next]_vars => Interlocked(p)'
  BY InterlockedStep
<1>2. Interlocked(p) => handler # "done"
  BY DEF Interlocked
<1>3. QED
  BY <1>1, <1>2, PTL DEF Spec
=============================================================================
