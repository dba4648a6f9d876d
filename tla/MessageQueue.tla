---------------------------- MODULE MessageQueue ----------------------------
(***************************************************************************)
(* What a Connection (protocol/transport.py) promises to those who send    *)
(* and receive on it in one direction: a queue of messages.  Each is       *)
(* delivered unchanged, once, after all that were sent before it, unless   *)
(* the queue breaks; a broken queue promises nothing.  What is still in    *)
(* the queue when an end closes is not delivered.  FrameStream shows that  *)
(* the frames and the loops over the socket implement this; RpcClient      *)
(* assumes it of what is under way to its reader thread.                   *)
(***************************************************************************)
EXTENDS Sequences

CONSTANT Messages

VARIABLES
    queue,          \* what has been sent and not been received
    delivered,      \* what has been received
    intact          \* the queue is not broken

queueVars == <<queue, delivered, intact>>

QueueInit ==
    /\ queue = <<>>
    /\ delivered = <<>>
    /\ intact = TRUE

\* send()
Enqueue(m) ==
    /\ queue' = Append(queue, m)
    /\ UNCHANGED <<delivered, intact>>

\* recv() returns.
Deliver ==
    /\ queue # <<>>
    /\ delivered' = Append(delivered, Head(queue))
    /\ queue' = Tail(queue)
    /\ UNCHANGED intact

\* recv() raises in the middle of a message.
Break ==
    /\ intact' = FALSE
    /\ UNCHANGED <<queue, delivered>>

QueueNext ==
    \/ intact /\ ((\E m \in Messages : Enqueue(m)) \/ Deliver \/ Break)
    \/ ~intact /\ ~intact'

QueueSpec == QueueInit /\ [][QueueNext]_queueVars
=============================================================================
