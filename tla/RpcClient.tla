----------------------------- MODULE RpcClient -----------------------------
(***************************************************************************)
(* The controller's RPC client (controller/rpc_client.py): threads that    *)
(* call, one reader thread that matches responses to them by request id,   *)
(* and the connection between them and the hub.                            *)
(*                                                                         *)
(* call() allocates the id and sends under one lock, then waits on a       *)
(* condition for its id to appear in _pending; the reader fills _pending.  *)
(* The hub and the network are the environment: the hub answers requests   *)
(* in order, pushes events, refuses a controller when it is busy, and the  *)
(* connection may die at any step.  An exception may also be recorded on a *)
(* connection that stays up, and ends the use of the client as well.       *)
(***************************************************************************)
EXTENDS Naturals, Sequences, FiniteSets

CONSTANTS
    Callers,        \* threads of the controller that call the hub
    Args,           \* what distinguishes one request from another
    MaxCalls        \* bound: how many calls are made in all

ASSUME MaxCallsAssumption == MaxCalls \in Nat

Ids == 0 .. MaxCalls

\* What _pending holds for an id, and what call() then returns or raises.
Data(a) == [kind |-> "data", arg |-> a]
RpcError == [kind |-> "rpc_error"]
ConnectionError == [kind |-> "connection_error"]
NoResult == [kind |-> "none"]
Results == {Data(a) : a \in Args} \cup {RpcError, ConnectionError}

Requests == [id : Ids, arg : Args]
Event == [kind |-> "event"]
Response(i, r) == [kind |-> "response", id |-> i, result |-> r]
Responses == {Response(i, r) : i \in Ids, r \in Results \ {ConnectionError}}

VARIABLES
    nextId,         \* _next_id
    pending,        \* _pending, NoResult for an id that is not a key
    error,          \* _error is set
    running,        \* _running
    connected,      \* _connection is not None
    reader,         \* where the reader thread is
    pc,             \* where each caller is
    req,            \* the id its call waits for
    arg,            \* the arguments of its call
    result,         \* what its last call returned or raised
    link,           \* the connection: "open", or "down" once it has died
    admitted,       \* the hub has taken this controller on
    toHub,          \* requests under way
    toClient        \* messages under way to the reader

clientVars == <<nextId, pending, error, running, connected>>
callVars == <<pc, req, arg, result>>
netVars == <<link, admitted, toHub, toClient>>
vars == <<clientVars, reader, callVars, netVars>>

TypeOK ==
    /\ nextId \in Ids
    /\ pending \in [Ids -> Results \cup {NoResult}]
    /\ error \in BOOLEAN
    /\ running \in BOOLEAN
    /\ connected \in BOOLEAN
    /\ reader \in {"recv", "torn", "failing", "done"}
    /\ pc \in [Callers -> {"idle", "waiting"}]
    /\ req \in [Callers -> Ids]
    /\ arg \in [Callers -> Args]
    /\ result \in [Callers -> Results \cup {NoResult}]
    /\ link \in {"open", "down"}
    /\ admitted \in BOOLEAN
    /\ toHub \in Seq(Requests)
    /\ toClient \in Seq(Responses \cup {Event})

\* connect() has returned: the connection is up and the reader started.
Init ==
    /\ nextId = 0
    /\ pending = [i \in Ids |-> NoResult]
    /\ error = FALSE
    /\ running = TRUE
    /\ connected = TRUE
    /\ reader = "recv"
    /\ pc = [c \in Callers |-> "idle"]
    /\ req = [c \in Callers |-> 0]
    /\ arg \in [Callers -> Args]
    /\ result = [c \in Callers |-> NoResult]
    /\ link = "open"
    /\ admitted = FALSE
    /\ toHub = <<>>
    /\ toClient = <<>>

-----------------------------------------------------------------------------
(* call() *)

\* _record_error: every id that is in _pending gets the error.  The id of a
\* call that is still waiting is not in _pending.
ErrorPending == [i \in Ids |-> IF pending[i] = NoResult THEN NoResult ELSE ConnectionError]

CanCall(c) == pc[c] = "idle" /\ nextId < MaxCalls

\* A mutated call that forgets to count the request.
SendUncounted(c, a) ==
    /\ CanCall(c)
    /\ connected /\ ~error
    /\ req' = [req EXCEPT ![c] = nextId]
    /\ arg' = [arg EXCEPT ![c] = a]
    /\ pc' = [pc EXCEPT ![c] = "waiting"]
    /\ toHub' = IF link = "open" THEN Append(toHub, [id |-> nextId, arg |-> a]) ELSE toHub
    /\ UNCHANGED <<nextId, pending, error, running, connected, reader, result, link, admitted,
                   toClient>>

\* The request goes out.  On a connection that has died it may still be
\* accepted by the local socket, and is lost.
Send(c, a) ==
    /\ CanCall(c)
    /\ connected /\ ~error
    /\ req' = [req EXCEPT ![c] = nextId]
    /\ arg' = [arg EXCEPT ![c] = a]
    /\ nextId' = nextId + 1
    /\ pc' = [pc EXCEPT ![c] = "waiting"]
    /\ toHub' = IF link = "open" THEN Append(toHub, [id |-> nextId, arg |-> a]) ELSE toHub
    /\ UNCHANGED <<pending, error, running, connected, reader, result, link, admitted, toClient>>

\* conn.send raises: the error is recorded and raised.  The connection need
\* not have died: an argument that cannot be packed raises before the socket
\* is used, and sendall gives up a receiver that is slower than the timeout.
\* No whole request has reached the hub then.
SendFails(c) ==
    /\ CanCall(c)
    /\ connected /\ ~error
    /\ nextId' = nextId + 1
    /\ error' = TRUE
    /\ pending' = ErrorPending
    /\ result' = [result EXCEPT ![c] = ConnectionError]
    /\ UNCHANGED <<running, connected, reader, pc, req, arg, netVars>>

\* Not connected, or an error recorded earlier: call() raises at once.
CallRefused(c) ==
    /\ pc[c] = "idle"
    /\ ~connected \/ error
    /\ result' = [result EXCEPT ![c] = ConnectionError]
    /\ UNCHANGED <<clientVars, reader, pc, req, arg, netVars>>

\* A mutated return that leaves the response in _pending.
ReturnKeeping(c) ==
    /\ pc[c] = "waiting"
    /\ pending[req[c]] # NoResult
    /\ result' = [result EXCEPT ![c] = pending[req[c]]]
    /\ pc' = [pc EXCEPT ![c] = "idle"]
    /\ UNCHANGED <<clientVars, reader, req, arg, netVars>>

\* A mutated return that clears _pending instead of deleting its id.
ReturnClearing(c) ==
    /\ pc[c] = "waiting"
    /\ pending[req[c]] # NoResult
    /\ result' = [result EXCEPT ![c] = pending[req[c]]]
    /\ pending' = [i \in Ids |-> NoResult]
    /\ pc' = [pc EXCEPT ![c] = "idle"]
    /\ UNCHANGED <<nextId, error, running, connected, reader, req, arg, netVars>>

\* The wait ends when the id is in _pending, and only then.
Return(c) ==
    /\ pc[c] = "waiting"
    /\ pending[req[c]] # NoResult
    /\ result' = [result EXCEPT ![c] = pending[req[c]]]
    /\ pending' = [pending EXCEPT ![req[c]] = NoResult]
    /\ pc' = [pc EXCEPT ![c] = "idle"]
    /\ UNCHANGED <<nextId, error, running, connected, reader, req, arg, netVars>>

-----------------------------------------------------------------------------
(* The reader thread. *)

\* The loop test that follows each message and each receive timeout.
ReaderTop == IF running THEN "recv" ELSE "done"

\* A mutated reader that takes a response for the request sent last.
ReadNewestOnly ==
    /\ reader = "recv"
    /\ connected /\ toClient # <<>>
    /\ LET m == Head(toClient)
       IN  pending' = IF m.kind = "response" /\ nextId = m.id + 1
                      THEN [pending EXCEPT ![m.id] = m.result] ELSE pending
    /\ toClient' = Tail(toClient)
    /\ reader' = ReaderTop
    /\ UNCHANGED <<nextId, error, running, connected, callVars, link, admitted, toHub>>

\* A response is stored under its id; an event goes to the callback.
Read ==
    /\ reader = "recv"
    /\ connected /\ toClient # <<>>
    /\ LET m == Head(toClient)
       IN  pending' = IF m.kind = "response" THEN [pending EXCEPT ![m.id] = m.result]
                                             ELSE pending
    /\ toClient' = Tail(toClient)
    /\ reader' = ReaderTop
    /\ UNCHANGED <<nextId, error, running, connected, callVars, link, admitted, toHub>>

\* A receive timeout in the middle of a frame throws away the part that has
\* been read.  What follows on the connection is torn for good: the message
\* and those behind it stay where they are, and none is read any more.
ReadTears ==
    /\ reader = "recv"
    /\ connected /\ toClient # <<>>
    /\ running
    /\ reader' = "torn"
    /\ UNCHANGED <<clientVars, callVars, netVars>>

\* recv raises while running, at the end of the connection or on a torn
\* frame: _record_error sets _error first ...
ReadFails ==
    /\ reader \in {"recv", "torn"}
    /\ reader = "recv" => link = "down" /\ toClient = <<>>
    /\ running
    /\ error' = TRUE
    /\ reader' = "failing"
    /\ UNCHANGED <<nextId, pending, running, connected, callVars, netVars>>

\* ... and then, under the condition, marks the ids in _pending.
MarkPending ==
    /\ reader = "failing"
    /\ pending' = ErrorPending
    /\ reader' = "done"
    /\ UNCHANGED <<nextId, error, running, connected, callVars, netVars>>

\* A receive timeout after close(), or a failure that close() caused.
ReaderStops ==
    /\ reader \in {"recv", "torn"}
    /\ ~running
    /\ reader' = "done"
    /\ UNCHANGED <<clientVars, callVars, netVars>>

-----------------------------------------------------------------------------
(* close(): the flag, then the connection (the join of the reader waits at *)
(* most two seconds, less than a receive does, so it may still be there).  *)

CloseBegins ==
    /\ running
    /\ running' = FALSE
    /\ UNCHANGED <<nextId, pending, error, connected, reader, callVars, netVars>>

CloseEnds ==
    /\ ~running /\ connected
    /\ connected' = FALSE
    /\ link' = "down"
    /\ UNCHANGED <<nextId, pending, error, running, reader, callVars, admitted, toHub, toClient>>

-----------------------------------------------------------------------------
(* The hub and the network. *)

\* The hub answers the oldest request, with data or with an error.
HubReplies ==
    /\ link = "open" /\ toHub # <<>>
    /\ \E r \in {Data(Head(toHub).arg), RpcError} :
         toClient' = Append(toClient, Response(Head(toHub).id, r))
    /\ toHub' = Tail(toHub)
    /\ admitted' = TRUE
    /\ UNCHANGED <<clientVars, reader, callVars, link>>

\* Events are pushed once a request has subscribed; at most one of them is
\* under way here.
HubPushes ==
    /\ link = "open"
    /\ admitted \/ toHub # <<>>
    /\ \A i \in 1 .. Len(toClient) : toClient[i] # Event
    /\ toClient' = Append(toClient, Event)
    /\ admitted' = TRUE
    /\ UNCHANGED <<clientVars, reader, callVars, link, toHub>>

\* A busy hub sends an error response with id 0 before any request is read,
\* and closes; requests it has not read can cost the client that response.
HubRejects ==
    /\ link = "open"
    /\ ~admitted
    /\ toClient' \in {<<Response(0, RpcError)>>, <<>>}
    /\ toHub' = <<>>
    /\ link' = "down"
    /\ UNCHANGED <<clientVars, reader, callVars, admitted>>

\* The hub ends or the connection breaks; what was under way to the client
\* may still be read, or is lost with it.
LinkDies ==
    /\ link = "open"
    /\ link' = "down"
    /\ toHub' = <<>>
    /\ toClient' \in {toClient, <<>>}
    /\ UNCHANGED <<clientVars, reader, callVars, admitted>>

-----------------------------------------------------------------------------
Calling(c) == (\E a \in Args : Send(c, a)) \/ SendFails(c) \/ CallRefused(c) \/ Return(c)

ReaderStep == Read \/ ReadFails \/ MarkPending \/ ReaderStops

Next ==
    \/ \E c \in Callers : Calling(c)
    \/ ReaderStep \/ ReadTears \/ CloseBegins \/ CloseEnds
    \/ HubReplies \/ HubPushes \/ HubRejects \/ LinkDies

\* A torn frame may take its missing bytes from messages that never come, so on
\* a connection that stays up the reader may wait on it for ever.
RecvEnds == reader # "torn" \/ link = "down" \/ ~running

\* The reader and the woken callers run, close() goes on to its end, and the
\* hub answers what it has received.  Nothing has to tear a frame.
Fairness ==
    /\ WF_vars(RecvEnds /\ ReaderStep) /\ WF_vars(CloseEnds) /\ WF_vars(HubReplies)
    /\ \A c \in Callers : WF_vars(Return(c))

Spec == Init /\ [][Next]_vars
FairSpec == Spec /\ Fairness

-----------------------------------------------------------------------------
(* Properties. *)

\* A call that returns data returns the answer to its own request, however
\* many threads call at once, in whatever order the responses are stored.
OwnResponse ==
    \A c \in Callers :
        pc[c] = "idle" /\ result[c].kind = "data" => result[c] = Data(arg[c])

\* A response is kept only for a call that still waits for it.  The one
\* exception is the refusal of a busy hub, which comes under id 0 before any
\* call may have been made.
NothingLeftBehind ==
    \A i \in Ids : pending[i] # NoResult
        => i = 0 \/ \E c \in Callers : pc[c] = "waiting" /\ req[c] = i

\* No call is forgotten while the reader reads a connection that is up, whatever
\* other calls do, those included whose sending fails: one that waits has a
\* result to wake up to, or its request or the response to it is still under
\* way.
NothingForgotten ==
    \A c \in Callers : link = "open" /\ reader = "recv" /\ pc[c] = "waiting" =>
        \/ pending[req[c]] # NoResult
        \/ \E k \in 1 .. Len(toHub) : toHub[k].id = req[c]
        \/ \E k \in 1 .. Len(toClient) : toClient[k].kind = "response" /\ toClient[k].id = req[c]

\* Who waits, whose requests are under way in their order, and to whom a reply
\* out of R has come as far as the connection or _pending.
Waiting == {c \in Callers : pc[c] = "waiting"}

Caller(i) == CHOOSE c \in Callers : pc[c] = "waiting" /\ req[c] = i

Asked == [k \in 1 .. (IF link = "open" THEN Len(toHub) ELSE 0) |-> Caller(toHub[k].id)]

Replied(c, R) ==
    \/ pending[req[c]] \in R
    \/ \E k \in 1 .. Len(toClient) : /\ toClient[k].kind = "response"
                                      /\ toClient[k].id = req[c] /\ toClient[k].result \in R

Answered == {c \in Waiting : Replied(c, {Data(arg[c])})}
Failed == {c \in Waiting : Replied(c, {RpcError, ConnectionError})}

Remote == INSTANCE RemoteCalls WITH
    Answer <- [a \in Args |-> Data(a)], Errors <- {RpcError, ConnectionError},
    up <- link = "open", broken <- error, calling <- Waiting, asked <- Asked, answered <- Answered,
    failed <- Failed

\* The ids, the table of results and the reader thread amount to calls that the
\* hub takes in order and once, and that return what came of themselves.  No
\* answer turns into an error, and no call is refused, on a connection that is up
\* unless an exception has been recorded, which no call gets through after; a
\* dead connection returns no data that the hub did not answer.
ImplementsCalls == Remote!CallsSpec

\* A call on a connection that stays up is answered, unless the client is
\* closed or a timeout has torn a frame under its reader.  A send of another
\* thread that fails keeps no answer from it.
AnsweredWhileUp ==
    \A c \in Callers : pc[c] = "waiting" ~>
        (pc[c] = "idle" \/ link = "down" \/ ~running \/ reader # "recv")

\* "Raises ConnectionClosed if the connection dies": no call waits for ever,
\* unless the client is closed under it.
CallsReturn == \A c \in Callers : pc[c] = "waiting" ~> (pc[c] = "idle" \/ ~running)
=============================================================================
