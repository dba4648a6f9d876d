---------------------------- MODULE FrameStream ----------------------------
(***************************************************************************)
(* The byte stream under a connection (protocol/transport.py and codec.py) *)
(* in the direction from the hub to a controller: the serve thread and the *)
(* subscription send on one Connection, the controller's reader thread     *)
(* receives with a timeout (controller/rpc_client.py).                     *)
(*                                                                         *)
(* A message is named by its place in the order of sending and a byte by   *)
(* the message and its place in the frame: a length header, then the       *)
(* payload.  The socket moves bytes one at a time, which includes every    *)
(* way of cutting the stream into chunks.                                  *)
(***************************************************************************)
EXTENDS Naturals, Sequences

CONSTANTS
    Senders,        \* threads that send on the connection
    Unlocked,       \* no sender
    HeaderSize,     \* HEADER_SIZE
    MaxFrameSize,   \* MAX_FRAME_SIZE: encode() raises for a larger payload
    WireSize,       \* bytes the two sockets hold; a full socket blocks
    MaxMessages     \* bound: how many messages are sent in all

ASSUME UnlockedAssumption == Unlocked \notin Senders
ASSUME HeaderSizeAssumption == HeaderSize \in Nat \ {0}
ASSUME MaxFrameSizeAssumption == MaxFrameSize \in Nat \ {0}
ASSUME WireSizeAssumption == WireSize \in Nat \ {0}
ASSUME MaxMessagesAssumption == MaxMessages \in Nat

Sizes == 1 .. MaxFrameSize

VARIABLES
    sent,           \* the payload size of each message whose sending began
    lock,           \* the thread that holds _send_lock
    frame,          \* the message each thread is sending, 0 for none
    at,             \* the next byte of its frame
    wire,           \* bytes under way
    link,           \* "up", or "down" once either side closed or it broke
    reader,         \* "recv", or "done" when the reader loop has ended
    phase,          \* what recv() waits for: "header" or "payload"
    need,           \* the count _recv_exact was called with
    chunks,         \* the bytes _recv_exact has collected
    received,       \* the messages recv() has returned, 0 for a misread one
    torn            \* a timeout has thrown away part of a frame

sendVars == <<sent, lock, frame, at>>
recvVars == <<reader, phase, need, chunks, received, torn>>
vars == <<sendVars, wire, link, recvVars>>

FrameSize(n) == HeaderSize + sent[n]

Byte(n, i) == [msg |-> n, at |-> i]

Bytes == [msg : 1 .. Len(sent), at : Nat \ {0}]

TypeOK ==
    /\ sent \in Seq(Sizes)
    /\ Len(sent) <= MaxMessages
    /\ lock \in Senders \cup {Unlocked}
    /\ frame \in [Senders -> 0 .. Len(sent)]
    /\ at \in [Senders -> Nat \ {0}]
    /\ wire \in Seq(Bytes)
    /\ link \in {"up", "down"}
    /\ reader \in {"recv", "done"}
    /\ phase \in {"header", "payload"}
    /\ need \in Nat \ {0}
    /\ chunks \in Seq(Bytes)
    /\ Len(chunks) < need
    /\ received \in Seq(0 .. Len(sent))
    /\ torn \in BOOLEAN

Init ==
    /\ sent = <<>>
    /\ lock = Unlocked
    /\ frame = [s \in Senders |-> 0]
    /\ at = [s \in Senders |-> 1]
    /\ wire = <<>>
    /\ link = "up"
    /\ reader = "recv"
    /\ phase = "header"
    /\ need = HeaderSize
    /\ chunks = <<>>
    /\ received = <<>>
    /\ torn = FALSE

-----------------------------------------------------------------------------
(* Connection.send: the frame is encoded, then written by sendall under    *)
(* the lock.                                                               *)

Begin(s, size) ==
    /\ frame[s] = 0
    /\ Len(sent) < MaxMessages
    /\ sent' = Append(sent, size)
    /\ frame' = [frame EXCEPT ![s] = Len(sent) + 1]
    /\ at' = [at EXCEPT ![s] = 1]
    /\ UNCHANGED <<wire, link, recvVars>>

\* A mutated send that does not wait for the lock.
SendUnlocked(s, size) == Begin(s, size) /\ lock' = s

Send(s, size) == Begin(s, size) /\ lock = Unlocked /\ lock' = s

\* The lock is released when the last byte has been written.
PutByte(s) ==
    /\ frame[s] # 0
    /\ link = "up"
    /\ Len(wire) < WireSize
    /\ wire' = Append(wire, Byte(frame[s], at[s]))
    /\ IF at[s] = FrameSize(frame[s])
       THEN /\ frame' = [frame EXCEPT ![s] = 0]
            /\ lock' = Unlocked
            /\ UNCHANGED at
       ELSE /\ at' = [at EXCEPT ![s] = at[s] + 1]
            /\ UNCHANGED <<frame, lock>>
    /\ UNCHANGED <<sent, link, recvVars>>

\* A mutated send that waits until the rest of the frame fits the sockets.
PutIfFits(s) ==
    /\ frame[s] # 0
    /\ FrameSize(frame[s]) - at[s] < WireSize - Len(wire)
    /\ PutByte(s)

Put(s) == PutByte(s)

\* sendall raises, perhaps in the middle of a frame, and releases the lock.
\* A send begun on a connection that is down raises too and changes nothing.
SendFails(s) ==
    /\ frame[s] # 0
    /\ link = "down"
    /\ frame' = [frame EXCEPT ![s] = 0]
    /\ lock' = Unlocked
    /\ UNCHANGED <<sent, at, wire, link, recvVars>>

\* Either side closes the connection, or it breaks; bytes that have not been
\* read may be lost.
LinkDies ==
    /\ link = "up"
    /\ link' = "down"
    /\ wire' \in {wire, <<>>}
    /\ UNCHANGED <<sendVars, recvVars>>

-----------------------------------------------------------------------------
(* Connection.recv: two calls of _recv_exact, which loops over the socket. *)

Header(n) == [i \in 1 .. HeaderSize |-> Byte(n, i)]
Payload(n) == [i \in 1 .. sent[n] |-> Byte(n, HeaderSize + i)]

\* What has been collected with the byte that comes next.
Collected == Append(chunks, Head(wire))

Take ==
    /\ reader = "recv"
    /\ wire # <<>>
    /\ wire' = Tail(wire)
    /\ UNCHANGED <<sendVars, link, torn>>

TakeByte ==
    /\ Take
    /\ Len(chunks) + 1 < need
    /\ chunks' = Collected
    /\ UNCHANGED <<reader, phase, need, received>>

Expect(p, count) == phase' = p /\ need' = count /\ chunks' = <<>>

TakeHeader ==
    /\ Take
    /\ phase = "header"
    /\ \E n \in 1 .. Len(sent) : Collected = Header(n) /\ Expect("payload", sent[n])
    /\ UNCHANGED <<reader, received>>

\* Bytes that are no header: any length, or one above MAX_FRAME_SIZE, which
\* is a FrameError and ends the reader loop.
MisreadHeader ==
    /\ Take
    /\ phase = "header"
    /\ Len(chunks) + 1 = need
    /\ \A n \in 1 .. Len(sent) : Collected # Header(n)
    /\ \/ /\ \E count \in Sizes : Expect("payload", count)
          /\ UNCHANGED reader
       \/ /\ Expect("header", HeaderSize)
          /\ reader' = "done"
    /\ UNCHANGED received

\* A mutated recv that does not go back to the size of a header.
TakePayloadOnly ==
    /\ Take
    /\ phase = "payload"
    /\ \E n \in 1 .. Len(sent) : Collected = Payload(n) /\ received' = Append(received, n)
    /\ Expect("header", need)
    /\ UNCHANGED reader

TakePayload ==
    /\ Take
    /\ phase = "payload"
    /\ need = Len(chunks) + 1
    /\ \E n \in 1 .. Len(sent) : Collected = Payload(n) /\ received' = Append(received, n)
    /\ Expect("header", HeaderSize)
    /\ UNCHANGED reader

\* Bytes that are no payload: a FrameError, or by chance some message.
MisreadPayload ==
    /\ Take
    /\ phase = "payload"
    /\ Len(chunks) + 1 = need
    /\ \A n \in 1 .. Len(sent) : Collected # Payload(n)
    /\ \/ received' = Append(received, 0) /\ UNCHANGED reader
       \/ reader' = "done" /\ UNCHANGED received
    /\ Expect("header", HeaderSize)

\* The socket times out in any of its recv calls and the reader loop calls
\* recv() again: what had been collected of a frame is thrown away.
TimeOut ==
    /\ reader = "recv"
    /\ torn' = (torn \/ phase = "payload" \/ chunks # <<>>)
    /\ Expect("header", HeaderSize)
    /\ UNCHANGED <<sendVars, wire, link, reader, received>>

\* The stream has ended, or close() has cleared _running.
ReaderEnds ==
    /\ reader = "recv"
    /\ reader' = "done"
    /\ UNCHANGED <<sendVars, wire, link, phase, need, chunks, received, torn>>

-----------------------------------------------------------------------------
Receive == TakeByte \/ TakeHeader \/ MisreadHeader \/ TakePayload \/ MisreadPayload

Next ==
    \/ \E s \in Senders : (\E size \in Sizes : Send(s, size)) \/ Put(s) \/ SendFails(s)
    \/ Receive \/ TimeOut \/ ReaderEnds
    \/ LinkDies

\* The threads run.
Fairness == WF_vars(Receive) /\ \A s \in Senders : WF_vars(Put(s))

Spec == Init /\ [][Next]_vars
FairSpec == Spec /\ Fairness

-----------------------------------------------------------------------------
(* Properties. *)

\* The byte that follows b in a stream of whole frames.
After(b) == IF b.at < FrameSize(b.msg) THEN Byte(b.msg, b.at + 1) ELSE Byte(b.msg + 1, 1)

\* Frames of threads that send at the same time follow each other whole:
\* their bytes never mix, however the writes are cut up and whatever fails.
FramesWhole == \A i \in 1 .. Len(wire) - 1 : wire[i + 1] = After(wire[i])

\* recv() returns what send() was given, unchanged, in that order, each message
\* once and without a gap, until a timeout strikes inside a frame: a timeout
\* between two frames loses nothing, and none is returned before it was sent.
Queue == INSTANCE MessageQueue WITH
    Messages <- 1 .. MaxMessages,
    queue <- [i \in 1 .. (Len(sent) - Len(received)) |-> Len(received) + i],
    delivered <- received,
    intact <- ~torn

ImplementsQueue == Queue!QueueSpec

\* A message whose sending has begun arrives, although a frame may be larger
\* than what the sockets hold, unless the connection or the reader ends or a
\* timeout has torn a frame.
Arrives ==
    \A n \in 1 .. MaxMessages :
        Len(sent) >= n ~> (Len(received) >= n \/ torn \/ link = "down" \/ reader = "done")
=============================================================================
