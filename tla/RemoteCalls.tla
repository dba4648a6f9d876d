---------------------------- MODULE RemoteCalls ----------------------------
(***************************************************************************)
(* What the RPC client (controller/rpc_client.py) promises to the threads  *)
(* that call the hub.  Ids, the table of results and the reader thread are *)
(* gone.  While the connection is up the hub takes the calls in the order  *)
(* in which they were made, each once, a call returns only with what came  *)
(* of itself, and none is lost.  A connection that ends takes with it any  *)
(* call and any answer that is under way.  An exception, once recorded,    *)
(* breaks the client for good, on a connection that stays up as well.      *)
(***************************************************************************)
EXTENDS Sequences

CONSTANTS
    Callers, Args,
    Answer,         \* what a call returns that succeeds, by its argument
    Errors,         \* what a call raises
    NoResult

VARIABLES
    up,             \* the connection is up
    broken,         \* an exception has been recorded
    calling,        \* who has called and waits
    arg,            \* with what argument
    asked,          \* whose calls the hub has still to take, in order
    answered,       \* whose answers are on their way
    failed,         \* whose errors are
    result          \* what the last call of each returned or raised

callsVars == <<up, broken, calling, arg, asked, answered, failed, result>>

CallsInit ==
    /\ up = TRUE /\ broken = FALSE
    /\ calling = {} /\ answered = {} /\ failed = {}
    /\ arg \in [Callers -> Args]
    /\ asked = <<>>
    /\ result = [c \in Callers |-> NoResult]

\* On a connection that is down a call is lost, or takes the refusal of a
\* busy hub that came before it for its error.
Ask(c, a) ==
    /\ c \notin calling /\ ~broken
    /\ calling' = calling \cup {c}
    /\ arg' = [arg EXCEPT ![c] = a]
    /\ asked' = IF up THEN Append(asked, c) ELSE asked
    /\ failed' \in IF up THEN {failed} ELSE {failed, failed \cup {c}}
    /\ UNCHANGED <<up, broken, answered, result>>

Perform ==
    /\ asked # <<>>
    /\ asked' = Tail(asked)
    /\ \/ answered' = answered \cup {Head(asked)} /\ UNCHANGED failed
       \/ failed' = failed \cup {Head(asked)} /\ UNCHANGED answered
    /\ UNCHANGED <<up, broken, calling, arg, result>>

Return(c) ==
    /\ c \in calling
    /\ \/ c \in answered /\ result' = [result EXCEPT ![c] = Answer[arg[c]]]
       \/ c \in failed /\ \E e \in Errors : result' = [result EXCEPT ![c] = e]
    /\ calling' = calling \ {c}
    /\ answered' = answered \ {c} /\ failed' = failed \ {c}
    /\ UNCHANGED <<up, broken, arg, asked>>

\* An exception that is recorded may turn answers that have come into errors.
Spoil ==
    /\ broken' = TRUE
    /\ answered' \subseteq answered
    /\ failed' = failed \cup (answered \ answered')

Break == Spoil /\ UNCHANGED <<up, calling, arg, asked, result>>

\* A call fails at once when it meets or causes an exception, or finds the
\* connection closed.
Refuse(c) ==
    /\ c \notin calling
    /\ \E e \in Errors : result' = [result EXCEPT ![c] = e]
    /\ Spoil \/ (~up /\ UNCHANGED <<broken, answered, failed>>)
    /\ UNCHANGED <<up, calling, arg, asked>>

\* The first call may be told that the hub is busy.
GoDown ==
    /\ up /\ up' = FALSE
    /\ asked' = <<>>
    /\ answered' \subseteq answered
    /\ failed' \subseteq failed \cup (IF asked = <<>> THEN {} ELSE {Head(asked)})
    /\ UNCHANGED <<broken, calling, arg, result>>

CallsNext ==
    \/ \E c \in Callers : (\E a \in Args : Ask(c, a)) \/ Return(c) \/ Refuse(c)
    \/ Perform \/ GoDown \/ Break

CallsSpec == CallsInit /\ [][CallsNext]_callsVars
=============================================================================
