------------------------- MODULE FrameStreamProofs -------------------------
(***************************************************************************)
(* Theorems about FrameStream, for any number of threads and messages and  *)
(* any sizes of headers, payloads and sockets.                             *)
(***************************************************************************)
EXTENDS FrameStream, TLAPS

\* Only the thread that holds the lock is sending, and what it sends is the
\* last message begun.
LockInv ==
    /\ \A s \in Senders : frame[s] # 0
         => lock = s /\ frame[s] = Len(sent) /\ at[s] <= FrameSize(frame[s])
    /\ lock # Unlocked => frame[lock] # 0

\* The byte that will be written next.
NextOut == IF lock = Unlocked THEN Byte(Len(sent) + 1, 1) ELSE Byte(Len(sent), at[lock])

\* What is under way runs up to that byte.
WireInv ==
    /\ FramesWhole
    /\ \A i \in 1 .. Len(wire) : wire[i].at <= FrameSize(wire[i].msg)
    /\ link = "up" /\ wire # <<>> => After(wire[Len(wire)]) = NextOut

\* The i-th byte of what recv() is collecting, when it reads in step.
Place(i) == Byte(Len(received) + 1, (IF phase = "header" THEN 0 ELSE HeaderSize) + i)

InStep ==
    /\ \A i \in 1 .. Len(received) : received[i] = i
    /\ \A i \in 1 .. Len(chunks) : chunks[i] = Place(i)
    /\ wire # <<>> => wire[1] = Place(Len(chunks) + 1)
    /\ link = "up" /\ wire = <<>> => NextOut = Place(Len(chunks) + 1)
    /\ phase = "payload"
         => Len(received) + 1 \in 1 .. Len(sent) /\ need = sent[Len(received) + 1]

RecvInv == (phase = "header" => need = HeaderSize) /\ (~torn => InStep)

StreamInv == TypeOK /\ LockInv /\ WireInv /\ RecvInv

-----------------------------------------------------------------------------
LEMMA TailMember ==
    ASSUME NEW S, NEW q \in Seq(S), q # <<>>
    PROVE  /\ Tail(q) \in Seq(S)
           /\ Len(q) \in Nat \ {0} /\ Len(Tail(q)) = Len(q) - 1
           /\ Head(q) = q[1] /\ Head(q) \in S
           /\ \A k \in 1 .. Len(Tail(q)) : k + 1 \in 1 .. Len(q) /\ Tail(q)[k] = q[k + 1]
OBVIOUS

LEMMA AppendMember ==
    ASSUME NEW S, NEW q \in Seq(S), NEW m \in S
    PROVE  /\ Append(q, m) \in Seq(S)
           /\ Len(Append(q, m)) = Len(q) + 1
           /\ Append(q, m) # <<>>
           /\ \A k \in 1 .. Len(q) : Append(q, m)[k] = q[k]
           /\ Append(q, m)[Len(q) + 1] = m
OBVIOUS

LEMMA Length == ASSUME NEW S, NEW q \in Seq(S) PROVE Len(q) \in Nat
OBVIOUS

LEMMA EmptySequence == ASSUME NEW S PROVE <<>> \in Seq(S) /\ Len(<<>>) = 0
OBVIOUS

LEMMA Element == ASSUME NEW S, NEW q \in Seq(S), NEW k \in 1 .. Len(q) PROVE q[k] \in S
OBVIOUS

LEMMA WiderSequence ==
    ASSUME NEW S, NEW T, S \subseteq T, NEW q \in Seq(S)
    PROVE  q \in Seq(T)
OBVIOUS

\* A byte is that of a message that was sent, at a place in its frame.
LEMMA ByteForm ==
    ASSUME NEW b \in Bytes
    PROVE  /\ b.msg \in 1 .. Len(sent) /\ b.at \in Nat \ {0}
           /\ b = Byte(b.msg, b.at)
BY DEF Bytes, Byte

LEMMA Numbers ==
    ASSUME TypeOK
    PROVE  /\ HeaderSize \in Nat /\ HeaderSize > 0 /\ MaxFrameSize \in Nat /\ MaxFrameSize > 0
           /\ Len(sent) \in Nat /\ Len(wire) \in Nat /\ Len(chunks) \in Nat
           /\ Len(received) \in Nat /\ need \in Nat
           /\ \A n \in 1 .. Len(sent) :
                /\ sent[n] \in Nat /\ sent[n] > 0 /\ sent[n] <= MaxFrameSize
                /\ FrameSize(n) \in Nat /\ FrameSize(n) = HeaderSize + sent[n]
BY HeaderSizeAssumption, MaxFrameSizeAssumption, Element DEF TypeOK, Sizes, FrameSize

LEMMA StreamInit == Init => StreamInv
<1> SUFFICES ASSUME Init PROVE StreamInv
  OBVIOUS
<1>2. Len(sent) = 0 /\ Len(wire) = 0 /\ Len(chunks) = 0 /\ Len(received) = 0
  BY EmptySequence DEF Init
<1>1. TypeOK
  <2>1. <<>> \in Seq(Sizes) /\ <<>> \in Seq(Bytes) /\ <<>> \in Seq(0 .. Len(sent))
    BY EmptySequence
  <2>2. frame \in [Senders -> 0 .. Len(sent)] /\ at \in [Senders -> Nat \ {0}]
    BY <1>2 DEF Init
  <2>3. Len(sent) <= MaxMessages /\ Len(chunks) < need /\ need \in Nat \ {0}
    BY <1>2, HeaderSizeAssumption, MaxMessagesAssumption DEF Init
  <2>4. QED
    BY <2>1, <2>2, <2>3 DEF Init, TypeOK
<1>3. LockInv /\ WireInv
  BY <1>2 DEF Init, LockInv, WireInv, FramesWhole
<1>4. RecvInv
  BY <1>2 DEF Init, RecvInv, InStep, NextOut, Place, Byte
<1>5. QED
  BY <1>1, <1>3, <1>4 DEF StreamInv

-----------------------------------------------------------------------------
(* What a receiving step takes.                                            *)

LEMMA Taking ==
    ASSUME TypeOK, Take
    PROVE  /\ Head(wire) = wire[1] /\ Head(wire) \in Bytes
           /\ wire' \in Seq(Bytes) /\ Len(wire) > 0 /\ Len(wire') = Len(wire) - 1
           /\ \A k \in 1 .. Len(wire') : k + 1 \in 1 .. Len(wire) /\ wire'[k] = wire[k + 1]
           /\ Collected \in Seq(Bytes) /\ Len(Collected) = Len(chunks) + 1
           /\ \A k \in 1 .. Len(chunks) : Collected[k] = chunks[k]
           /\ Collected[Len(chunks) + 1] = wire[1]
           /\ UNCHANGED <<sent, lock, frame, at, link, torn>>
<1>1. wire \in Seq(Bytes) /\ chunks \in Seq(Bytes) /\ wire # <<>> /\ wire' = Tail(wire)
  BY DEF TypeOK, Take
<1>2. Head(wire) \in Bytes /\ Head(wire) = wire[1]
  BY <1>1, TailMember
<1>3. Collected \in Seq(Bytes) /\ Len(Collected) = Len(chunks) + 1
        /\ (\A k \in 1 .. Len(chunks) : Collected[k] = chunks[k])
        /\ Collected[Len(chunks) + 1] = wire[1]
  BY <1>1, <1>2, AppendMember DEF Collected
<1>4. wire' \in Seq(Bytes) /\ Len(wire) > 0 /\ Len(wire') = Len(wire) - 1
        /\ \A k \in 1 .. Len(wire') : k + 1 \in 1 .. Len(wire) /\ wire'[k] = wire[k + 1]
  BY <1>1, TailMember
<1>5. QED
  BY <1>2, <1>3, <1>4 DEF Take, sendVars

\* Every step keeps the types.
LEMMA TypeStep == TypeOK /\ [Next]_vars => TypeOK'
<1> SUFFICES ASSUME TypeOK, [Next]_vars PROVE TypeOK'
  OBVIOUS
<1> USE DEF sendVars, recvVars
<1>n. HeaderSize \in Nat \ {0} /\ MaxFrameSize \in Nat \ {0} /\ MaxMessages \in Nat
  BY HeaderSizeAssumption, MaxFrameSizeAssumption, MaxMessagesAssumption
<1>l. Len(sent) \in Nat /\ 0 \in 0 .. Len(sent)
  BY Length DEF TypeOK
<1>1. ASSUME NEW s \in Senders, NEW size \in Sizes, Send(s, size) PROVE TypeOK'
  <2>1. sent' \in Seq(Sizes) /\ Len(sent') = Len(sent) + 1 /\ Len(sent) \in Nat
    BY <1>1, AppendMember DEF Send, Begin, TypeOK
  <2>2. Bytes \subseteq Bytes' /\ 0 .. Len(sent) \subseteq 0 .. Len(sent')
    BY <2>1 DEF Bytes
  <2>3. wire' \in Seq(Bytes') /\ chunks' \in Seq(Bytes') /\ received' \in Seq(0 .. Len(sent'))
    BY <1>1, <2>2, WiderSequence DEF Send, Begin, TypeOK
  <2>4. frame' \in [Senders -> 0 .. Len(sent')] /\ at' \in [Senders -> Nat \ {0}]
    BY <1>1, <1>n, <2>1, <2>2 DEF Send, Begin, TypeOK
  <2>5. Len(sent') <= MaxMessages
    BY <1>1, <1>n, <2>1 DEF Send, Begin, TypeOK
  <2>6. QED
    BY <1>1, <2>1, <2>3, <2>4, <2>5 DEF Send, Begin, TypeOK
<1>2. ASSUME NEW s \in Senders, Put(s) PROVE TypeOK'
  <2>1. frame[s] \in 1 .. Len(sent) /\ Byte(frame[s], at[s]) \in Bytes
    BY <1>2 DEF Put, PutByte, TypeOK, Byte, Bytes
  <2>2. wire' \in Seq(Bytes) /\ sent' = sent /\ Bytes' = Bytes
    BY <1>2, <2>1, AppendMember DEF Put, PutByte, TypeOK, Bytes
  <2>3. frame' \in [Senders -> 0 .. Len(sent)] /\ at' \in [Senders -> Nat \ {0}]
          /\ lock' \in Senders \cup {Unlocked}
    <3>1. CASE at[s] = FrameSize(frame[s])
      BY <1>l, <1>2, <3>1 DEF Put, PutByte, TypeOK
    <3>2. CASE at[s] # FrameSize(frame[s])
      <4>1. UNCHANGED <<frame, lock>> /\ at' = [at EXCEPT ![s] = at[s] + 1]
        BY <1>2, <3>2 DEF Put, PutByte
      <4>2. at[s] + 1 \in Nat \ {0}
        BY DEF TypeOK
      <4>3. QED
        BY <4>1, <4>2 DEF TypeOK
    <3>3. QED
      BY <3>1, <3>2
  <2>4. QED
    BY <1>2, <2>2, <2>3 DEF Put, PutByte, TypeOK
<1>3. ASSUME NEW s \in Senders, SendFails(s) PROVE TypeOK'
  BY <1>3 DEF SendFails, TypeOK, Bytes
<1>4. CASE Receive
  <2>1. Take
    BY <1>4 DEF Receive, TakeByte, TakeHeader, MisreadHeader, TakePayload, MisreadPayload
  <2>2. /\ wire' \in Seq(Bytes) /\ Collected \in Seq(Bytes)
        /\ Len(Collected) = Len(chunks) + 1 /\ Len(chunks) \in Nat
        /\ UNCHANGED <<sent, lock, frame, at, link, torn>> /\ Bytes' = Bytes
    <3>1. UNCHANGED <<sent, lock, frame, at, link, torn>>
      BY <2>1 DEF Take
    <3>2. Bytes' = Bytes
      BY <3>1 DEF Bytes
    <3>3. Len(chunks) \in Nat
      BY DEF TypeOK
    <3>4. QED
      BY <2>1, <3>1, <3>2, <3>3, Taking
  <2>3. ASSUME NEW p, NEW count, p \in {"header", "payload"}, count \in Nat \ {0},
               Expect(p, count)
        PROVE  /\ phase' \in {"header", "payload"} /\ need' \in Nat \ {0}
               /\ chunks' \in Seq(Bytes) /\ Len(chunks') < need'
    BY <2>3, EmptySequence DEF Expect
  <2>4. HeaderSize \in Nat \ {0} /\ Sizes \subseteq Nat \ {0}
    BY <1>n DEF Sizes
  <2>5. CASE TakeByte
    BY <2>5, <2>1, <2>2 DEF TakeByte, TypeOK, Take
  <2>6. CASE TakeHeader
    <3>1. PICK n \in 1 .. Len(sent) : Expect("payload", sent[n])
      BY <2>6 DEF TakeHeader
    <3>2. sent[n] \in Nat \ {0}
      BY <2>4, Element DEF TypeOK
    <3>3. QED
      BY <2>6, <2>1, <2>2, <2>3, <3>1, <3>2 DEF TakeHeader, TypeOK, Take
  <2>7. CASE MisreadHeader
    <3>1. \E p \in {"header", "payload"}, count \in Nat \ {0} : Expect(p, count)
      BY <2>7, <2>4 DEF MisreadHeader
    <3>2. reader' \in {"recv", "done"} /\ received' = received
      BY <2>7 DEF MisreadHeader, TypeOK
    <3>3. /\ phase' \in {"header", "payload"} /\ need' \in Nat \ {0}
          /\ chunks' \in Seq(Bytes) /\ Len(chunks') < need'
      BY <2>3, <3>1
    <3>4. QED
      BY <2>2, <3>2, <3>3 DEF TypeOK
  <2>8. CASE TakePayload
    <3>1. received' \in Seq(0 .. Len(sent))
      <4>1. PICK n \in 1 .. Len(sent) : received' = Append(received, n)
        BY <2>8 DEF TakePayload
      <4>2. QED
        BY <4>1, AppendMember DEF TypeOK
    <3>2. Expect("header", HeaderSize) /\ reader' = reader
      BY <2>8 DEF TakePayload
    <3>3. /\ phase' \in {"header", "payload"} /\ need' \in Nat \ {0}
          /\ chunks' \in Seq(Bytes) /\ Len(chunks') < need'
      BY <2>3, <2>4, <3>2
    <3>4. QED
      BY <2>2, <3>1, <3>2, <3>3 DEF TypeOK
  <2>9. CASE MisreadPayload
    <3>1. received' \in Seq(0 .. Len(sent))
      <4>1. CASE received' = Append(received, 0)
        BY <1>l, <4>1, AppendMember DEF TypeOK
      <4>2. CASE received' = received
        BY <4>2 DEF TypeOK
      <4>3. QED
        BY <2>9, <4>1, <4>2 DEF MisreadPayload
    <3>2. Expect("header", HeaderSize) /\ reader' \in {"recv", "done"}
      BY <2>9 DEF MisreadPayload, TypeOK
    <3>3. /\ phase' \in {"header", "payload"} /\ need' \in Nat \ {0}
          /\ chunks' \in Seq(Bytes) /\ Len(chunks') < need'
      BY <2>3, <2>4, <3>2
    <3>4. QED
      BY <2>2, <3>1, <3>2, <3>3 DEF TypeOK
  <2>10. QED
    BY <1>4, <2>5, <2>6, <2>7, <2>8, <2>9 DEF Receive
<1>5. CASE TimeOut
  BY <1>5, <1>n, EmptySequence DEF TimeOut, Expect, TypeOK, Bytes
<1>6. CASE ReaderEnds
  BY <1>6 DEF ReaderEnds, TypeOK, Bytes
<1>7. CASE LinkDies
  BY <1>7, EmptySequence DEF LinkDies, TypeOK, Bytes
<1>8. CASE UNCHANGED vars
  BY <1>8 DEF vars, TypeOK, Bytes
<1>9. QED
  BY <1>1, <1>2, <1>3, <1>4, <1>5, <1>6, <1>7, <1>8 DEF Next

-----------------------------------------------------------------------------
(* Every step keeps StreamInv, one lemma per step.                         *)

LEMMA SendStep ==
    ASSUME StreamInv, TypeOK', NEW s \in Senders, NEW size \in Sizes, Send(s, size)
    PROVE  StreamInv'
<1> USE DEF StreamInv
<1>1. /\ Len(sent) \in Nat /\ Len(sent') = Len(sent) + 1
      /\ \A n \in 1 .. Len(sent) : sent'[n] = sent[n]
      /\ sent'[Len(sent) + 1] = size
  BY AppendMember, Length DEF TypeOK, Send, Begin
<1>2. UNCHANGED <<wire, link, recvVars>> /\ lock = Unlocked /\ lock' = s
  BY DEF Send, Begin
<1>3. \A t \in Senders : frame[t] = 0
  BY <1>2, UnlockedAssumption DEF LockInv
<1>4. frame'[s] = Len(sent') /\ at'[s] = 1 /\ \A t \in Senders \ {s} : frame'[t] = 0
  BY <1>1, <1>3 DEF Send, Begin, TypeOK
<1>5. HeaderSize \in Nat \ {0} /\ size \in Nat \ {0}
  BY HeaderSizeAssumption, MaxFrameSizeAssumption DEF Sizes
<1>6. LockInv'
  BY <1>1, <1>2, <1>4, <1>5 DEF LockInv, FrameSize
<1>7. NextOut' = NextOut
  BY <1>1, <1>2, <1>4, UnlockedAssumption DEF NextOut, Byte
<1>8. \A b \in Bytes : After(b)' = After(b) /\ FrameSize(b.msg)' = FrameSize(b.msg)
  BY <1>1, ByteForm DEF After, FrameSize
<1>9. \A i \in 1 .. Len(wire) : wire[i] \in Bytes
  BY Element DEF TypeOK
<1>10. Len(wire) \in Nat
  BY Length DEF TypeOK
<1>11. WireInv'
  BY <1>2, <1>7, <1>8, <1>9, <1>10 DEF WireInv, FramesWhole
<1>12. RecvInv'
  BY <1>1, <1>2, <1>7 DEF RecvInv, InStep, Place, recvVars, Byte
<1>13. QED
  BY <1>6, <1>11, <1>12

LEMMA PutStep ==
    ASSUME StreamInv, TypeOK', NEW s \in Senders, Put(s)
    PROVE  StreamInv'
<1> USE DEF StreamInv
<1> DEFINE b == Byte(frame[s], at[s])
<1>1. /\ Len(sent) \in Nat /\ frame[s] = Len(sent) /\ frame[s] \in 1 .. Len(sent)
      /\ at[s] \in Nat \ {0} /\ at[s] <= FrameSize(frame[s]) /\ lock = s
  BY Length DEF Put, PutByte, LockInv, TypeOK
<1>2. link = "up" /\ UNCHANGED <<sent, link, recvVars>> /\ wire' = Append(wire, b)
  BY DEF Put, PutByte
<1>3. FrameSize(frame[s]) \in Nat
  BY <1>1, Numbers
<1>4. b = NextOut /\ b.msg = frame[s] /\ b.at = at[s] /\ b \in Bytes
  BY <1>1, UnlockedAssumption DEF NextOut, Byte, Bytes
<1>5. /\ Len(wire) \in Nat /\ Len(wire') = Len(wire) + 1 /\ wire' # <<>>
      /\ \A k \in 1 .. Len(wire) : wire'[k] = wire[k]
      /\ wire'[Len(wire) + 1] = b
  <2>1. wire \in Seq(Bytes)
    BY DEF TypeOK
  <2>2. QED
    BY <1>2, <1>4, <2>1, AppendMember, Length
<1>6. ASSUME at[s] = FrameSize(frame[s]) PROVE LockInv' /\ After(b) = NextOut'
  <2>1. lock' = Unlocked /\ frame' = [frame EXCEPT ![s] = 0] /\ at' = at
    BY <1>6 DEF Put, PutByte
  <2>2. \A t \in Senders : frame'[t] = 0
    BY <1>1, <2>1 DEF LockInv, TypeOK
  <2>3. LockInv'
    BY <2>1, <2>2 DEF LockInv
  <2>4. After(b) = NextOut'
    BY <1>1, <1>2, <1>4, <1>3, <1>6, <2>1 DEF After, NextOut
  <2>5. QED
    BY <2>3, <2>4
<1>7. ASSUME at[s] # FrameSize(frame[s]) PROVE LockInv' /\ After(b) = NextOut'
  <2>1. lock' = lock /\ frame' = frame /\ at' = [at EXCEPT ![s] = at[s] + 1]
    BY <1>7 DEF Put, PutByte
  <2>2. at'[s] = at[s] + 1 /\ \A t \in Senders \ {s} : frame[t] = 0
    BY <1>1, <2>1 DEF LockInv, TypeOK
  <2>3. LockInv'
    BY <1>1, <1>2, <1>3, <1>7, <2>1, <2>2 DEF LockInv, FrameSize
  <2>4. After(b) = NextOut'
    BY <1>1, <1>2, <1>3, <1>4, <1>7, <2>1, <2>2, UnlockedAssumption DEF After, NextOut
  <2>5. QED
    BY <2>3, <2>4
<1>8. LockInv' /\ After(b) = NextOut'
  BY <1>6, <1>7
<1>9. \A x : After(x)' = After(x) /\ FrameSize(x.msg)' = FrameSize(x.msg)
  BY <1>2 DEF After, FrameSize
<1>10. FramesWhole'
  <2>1. SUFFICES ASSUME NEW i \in 1 .. Len(wire') - 1 PROVE wire'[i + 1] = After(wire'[i])
    BY <1>9 DEF FramesWhole
  <2>2. CASE i = Len(wire)
    <3>1. wire # <<>>
      BY <2>2, EmptySequence
    <3>2. After(wire[Len(wire)]) = b
      BY <1>2, <1>4, <3>1 DEF WireInv
    <3>3. QED
      BY <1>5, <2>2, <3>2
  <2>3. CASE i # Len(wire)
    BY <1>5, <2>1, <2>3 DEF WireInv, FramesWhole
  <2>4. QED
    BY <2>2, <2>3
<1>11. \A i \in 1 .. Len(wire') : wire'[i].at <= FrameSize(wire'[i].msg)
  <2>1. TAKE i \in 1 .. Len(wire')
  <2>2. CASE i = Len(wire) + 1
    BY <1>1, <1>4, <1>5, <2>2
  <2>3. CASE i # Len(wire) + 1
    BY <1>5, <2>1, <2>3 DEF WireInv
  <2>4. QED
    BY <2>2, <2>3
<1>12. WireInv'
  BY <1>5, <1>8, <1>9, <1>10, <1>11 DEF WireInv
<1>13. RecvInv'
  <2>1. wire'[1] = IF wire = <<>> THEN NextOut ELSE wire[1]
    <3>1. CASE wire = <<>>
      BY <1>4, <1>5, <3>1, EmptySequence
    <3>2. CASE wire # <<>>
      <4>1. 1 \in 1 .. Len(wire)
        BY <1>5, <3>2 DEF TypeOK
      <4>2. QED
        BY <1>5, <3>2, <4>1
    <3>3. QED
      BY <3>1, <3>2
  <2>2. QED
    BY <1>2, <1>5, <2>1 DEF RecvInv, InStep, Place, recvVars
<1>14. QED
  BY <1>8, <1>12, <1>13

LEMMA SendFailsStep ==
    ASSUME StreamInv, TypeOK', NEW s \in Senders, SendFails(s)
    PROVE  StreamInv'
<1> USE DEF StreamInv
<1>1. link = "down" /\ lock' = Unlocked /\ UNCHANGED <<sent, at, wire, link, recvVars>>
  BY DEF SendFails
<1>2. \A t \in Senders : frame'[t] = 0
  BY DEF SendFails, LockInv, TypeOK
<1>3. LockInv'
  BY <1>1, <1>2 DEF LockInv
<1>4. WireInv'
  BY <1>1 DEF WireInv, FramesWhole, After, FrameSize
<1>5. RecvInv'
  BY <1>1 DEF RecvInv, InStep, Place, recvVars
<1>6. QED
  BY <1>3, <1>4, <1>5

LEMMA LinkDiesStep ==
    ASSUME StreamInv, TypeOK', LinkDies
    PROVE  StreamInv'
<1> USE DEF StreamInv
<1>1. link' = "down" /\ UNCHANGED <<sendVars, recvVars>> /\ (wire' = wire \/ wire' = <<>>)
  BY DEF LinkDies
<1>2. LockInv'
  BY <1>1 DEF LockInv, FrameSize, sendVars
<1>3. CASE wire' = wire
  BY <1>1, <1>2, <1>3
     DEF WireInv, FramesWhole, After, FrameSize, RecvInv, InStep, Place, sendVars, recvVars
<1>4. CASE wire' = <<>>
  <2>1. Len(wire') = 0
    BY <1>4, EmptySequence
  <2>2. WireInv'
    BY <1>1, <1>4, <2>1 DEF WireInv, FramesWhole
  <2>3. RecvInv'
    BY <1>1, <1>4 DEF RecvInv, InStep, Place, sendVars, recvVars
  <2>4. QED
    BY <1>2, <2>2, <2>3
<1>5. QED
  BY <1>1, <1>3, <1>4

LEMMA TimeOutStep ==
    ASSUME StreamInv, TypeOK', TimeOut
    PROVE  StreamInv'
<1> USE DEF StreamInv
<1>1. /\ UNCHANGED <<sendVars, wire, link, reader, received>> /\ Expect("header", HeaderSize)
      /\ ~torn' => ~torn /\ phase # "payload" /\ chunks = <<>>
  BY DEF TimeOut, TypeOK
<1>2. LockInv' /\ WireInv'
  BY <1>1 DEF LockInv, WireInv, FramesWhole, After, FrameSize, NextOut, sendVars
<1>3. RecvInv'
  <2>1. phase' = "header" /\ need' = HeaderSize /\ chunks' = <<>>
    BY <1>1 DEF Expect
  <2>2. CASE ~torn'
    <3>1. phase = "header" /\ chunks' = chunks /\ UNCHANGED phase
      BY <1>1, <2>1, <2>2 DEF TypeOK
    <3>2. QED
      BY <1>1, <2>1, <2>2, <3>1 DEF RecvInv, InStep, Place, NextOut, sendVars
  <2>3. QED
    BY <2>1, <2>2 DEF RecvInv
<1>4. QED
  BY <1>2, <1>3

\* Taking a byte leaves the senders alone and shortens what is under way.
LEMMA TakeStep ==
    ASSUME StreamInv, Take
    PROVE  LockInv' /\ WireInv' /\ NextOut' = NextOut
<1> USE DEF StreamInv
<1>1. UNCHANGED <<sent, lock, frame, at, link, torn>>
  BY DEF Take, sendVars
<1>2. /\ Len(wire) \in Nat /\ Len(wire) > 0 /\ Len(wire') = Len(wire) - 1
      /\ \A k \in 1 .. Len(wire') : k + 1 \in 1 .. Len(wire) /\ wire'[k] = wire[k + 1]
  BY Taking, Length DEF TypeOK
<1>3. LockInv' /\ NextOut' = NextOut
  BY <1>1 DEF LockInv, FrameSize, NextOut
<1>4. \A x : After(x)' = After(x) /\ FrameSize(x.msg)' = FrameSize(x.msg)
  BY <1>1 DEF After, FrameSize
<1>5. FramesWhole'
  <2>1. SUFFICES ASSUME NEW i \in 1 .. Len(wire') - 1 PROVE wire'[i + 1] = After(wire'[i])
    BY <1>4 DEF FramesWhole
  <2>2. wire'[i] = wire[i + 1] /\ wire'[i + 1] = wire[i + 2] /\ i + 1 \in 1 .. Len(wire) - 1
    BY <1>2
  <2>3. QED
    BY <2>2 DEF WireInv, FramesWhole
<1>6. \A i \in 1 .. Len(wire') : wire'[i].at <= FrameSize(wire'[i].msg)
  BY <1>2 DEF WireInv
<1>7. link = "up" /\ wire' # <<>> => After(wire'[Len(wire')]) = NextOut
  <2>1. SUFFICES ASSUME link = "up", wire' # <<>> PROVE After(wire'[Len(wire')]) = NextOut
    OBVIOUS
  <2>2. wire' \in Seq(Bytes) /\ wire # <<>>
    BY Taking DEF Take
  <2>3. Len(wire') \in 1 .. Len(wire')
    BY <1>2, <2>1, <2>2
  <2>4. wire'[Len(wire')] = wire[Len(wire)]
    BY <1>2, <2>3
  <2>5. QED
    BY <2>1, <2>2, <2>4 DEF WireInv
<1>8. WireInv'
  BY <1>1, <1>3, <1>4, <1>5, <1>6, <1>7 DEF WireInv
<1>9. QED
  BY <1>3, <1>8

\* A reader in step takes the byte it expects, and the one that follows it
\* comes next.
LEMMA InStepTake ==
    ASSUME StreamInv, Take, ~torn
    PROVE  /\ Len(received) + 1 \in 1 .. Len(sent)
           /\ wire[1] = Place(Len(chunks) + 1)
           /\ Len(Collected) = Len(chunks) + 1 /\ Collected \in Seq(Bytes)
           /\ \A k \in 1 .. Len(Collected) : Collected[k] = Place(k)
           /\ wire' # <<>> => wire'[1] = After(wire[1])
           /\ link' = "up" /\ wire' = <<>> => NextOut' = After(wire[1])
<1> USE DEF StreamInv
<1>1. /\ wire[1] \in Bytes /\ wire # <<>> /\ Len(wire) > 0 /\ Len(wire') = Len(wire) - 1
      /\ \A k \in 1 .. Len(wire') : k + 1 \in 1 .. Len(wire) /\ wire'[k] = wire[k + 1]
      /\ link' = link /\ Len(wire) \in Nat /\ Len(chunks) \in Nat /\ Len(received) \in Nat
  BY Taking, Numbers DEF Take
<1>2. InStep /\ wire[1] = Place(Len(chunks) + 1)
  BY <1>1 DEF RecvInv, InStep
<1>3. Len(received) + 1 \in 1 .. Len(sent)
  <2>1. wire[1].msg = Len(received) + 1
    BY <1>2 DEF Place, Byte
  <2>2. QED
    BY <1>1, <2>1, ByteForm
<1>4. \A k \in 1 .. Len(Collected) : Collected[k] = Place(k)
  <2>1. TAKE k \in 1 .. Len(Collected)
  <2>2. Len(Collected) = Len(chunks) + 1 /\ Collected[Len(chunks) + 1] = wire[1]
          /\ \A j \in 1 .. Len(chunks) : Collected[j] = chunks[j]
    BY Taking
  <2>3. CASE k = Len(chunks) + 1
    BY <1>2, <2>2, <2>3
  <2>4. CASE k # Len(chunks) + 1
    BY <1>1, <1>2, <2>1, <2>2, <2>4 DEF InStep
  <2>5. QED
    BY <2>3, <2>4
<1>5. ASSUME wire' # <<>> PROVE wire'[1] = After(wire[1])
  <2>1. wire' \in Seq(Bytes)
    BY Taking
  <2>2. 1 \in 1 .. Len(wire') /\ 1 \in 1 .. Len(wire) - 1
    BY <1>1, <1>5, <2>1
  <2>3. wire'[1] = wire[2] /\ wire[2] = After(wire[1])
    BY <1>1, <2>2 DEF WireInv, FramesWhole
  <2>4. QED
    BY <2>3
<1>6. ASSUME link' = "up", wire' = <<>> PROVE NextOut' = After(wire[1])
  <2>1. Len(wire) = 1
    BY <1>1, <1>6, EmptySequence
  <2>2. After(wire[1]) = NextOut
    BY <1>1, <1>6, <2>1 DEF WireInv
  <2>3. QED
    BY <2>2, TakeStep
<1>7. QED
  BY <1>2, <1>3, <1>4, <1>5, <1>6, Taking

LEMMA TakeByteStep ==
    ASSUME StreamInv, TypeOK', TakeByte
    PROVE  RecvInv'
<1> USE DEF StreamInv
<1>1. Take /\ Len(chunks) + 1 < need /\ chunks' = Collected
        /\ UNCHANGED <<reader, phase, need, received>>
  BY DEF TakeByte
<1>2. UNCHANGED <<sent, torn>>
  BY <1>1 DEF Take, sendVars
<1>3. CASE ~torn
  <2>1. /\ Len(received) + 1 \in 1 .. Len(sent) /\ wire[1] = Place(Len(chunks) + 1)
        /\ Len(Collected) = Len(chunks) + 1
        /\ \A k \in 1 .. Len(Collected) : Collected[k] = Place(k)
        /\ wire' # <<>> => wire'[1] = After(wire[1])
        /\ link' = "up" /\ wire' = <<>> => NextOut' = After(wire[1])
    BY <1>1, <1>3, InStepTake
  <2>2. \A k : Place(k)' = Place(k)
    BY <1>1 DEF Place
  <2>3. After(wire[1]) = Place(Len(chunks) + 2)
    <3>1. wire[1].msg = Len(received) + 1
            /\ wire[1].at = (IF phase = "header" THEN 0 ELSE HeaderSize) + (Len(chunks) + 1)
      BY <2>1 DEF Place, Byte
    <3>2. wire[1].at < FrameSize(wire[1].msg)
      <4>1. CASE phase = "header"
        BY <1>1, <2>1, <3>1, <4>1, Numbers DEF RecvInv
      <4>2. CASE phase = "payload"
        BY <1>1, <1>3, <2>1, <3>1, <4>2, Numbers DEF RecvInv, InStep
      <4>3. QED
        BY <4>1, <4>2 DEF TypeOK
    <3>3. wire[1].at + 1 = (IF phase = "header" THEN 0 ELSE HeaderSize) + (Len(chunks) + 2)
      <4>1. CASE phase = "header"
        BY <3>1, <4>1, Numbers
      <4>2. CASE phase # "header"
        BY <3>1, <4>2, Numbers
      <4>3. QED
        BY <4>1, <4>2
    <3>4. After(wire[1]) = Byte(wire[1].msg, wire[1].at + 1)
      BY <3>2 DEF After
    <3>5. QED
      BY <3>1, <3>3, <3>4 DEF Place
  <2>4. InStep
    BY <1>3 DEF RecvInv
  <2>5. InStep'
    BY <1>1, <1>2, <2>1, <2>2, <2>3, <2>4, Numbers DEF InStep
  <2>6. QED
    BY <1>1, <2>5 DEF RecvInv
<1>4. CASE torn
  BY <1>1, <1>2, <1>4 DEF RecvInv
<1>5. QED
  BY <1>3, <1>4

LEMMA TakeHeaderStep ==
    ASSUME StreamInv, TypeOK', TakeHeader
    PROVE  RecvInv'
<1> USE DEF StreamInv
<1>1. Take /\ phase = "header" /\ received' = received
  BY DEF TakeHeader
<1>2. PICK n \in 1 .. Len(sent) : Collected = Header(n) /\ Expect("payload", sent[n])
  BY DEF TakeHeader
<1>3. phase' = "payload" /\ need' = sent[n] /\ chunks' = <<>> /\ UNCHANGED <<sent, torn>>
  BY <1>1, <1>2 DEF Expect, Take, sendVars
<1>4. CASE ~torn
  <2>1. /\ Len(received) + 1 \in 1 .. Len(sent) /\ wire[1] = Place(Len(chunks) + 1)
        /\ Len(Collected) = Len(chunks) + 1 /\ Collected \in Seq(Bytes)
        /\ \A k \in 1 .. Len(Collected) : Collected[k] = Place(k)
        /\ wire' # <<>> => wire'[1] = After(wire[1])
        /\ link' = "up" /\ wire' = <<>> => NextOut' = After(wire[1])
    BY <1>1, <1>4, InStepTake
  <2>2. Len(Collected) = HeaderSize
    BY <1>2, <2>1, Numbers DEF Header
  <2>3. n = Len(received) + 1
    <3>1. 1 \in 1 .. HeaderSize
      BY Numbers
    <3>2. Collected[1] = Byte(n, 1) /\ Collected[1] = Place(1)
      BY <1>2, <2>1, <2>2, <3>1 DEF Header
    <3>3. QED
      BY <3>2 DEF Place, Byte
  <2>4. After(wire[1]) = Byte(n, HeaderSize + 1)
    <3>1. wire[1].msg = n /\ wire[1].at = HeaderSize
      BY <1>1, <2>1, <2>2, <2>3, Numbers DEF Place, Byte
    <3>2. HeaderSize < FrameSize(n)
      BY Numbers
    <3>3. QED
      BY <3>1, <3>2 DEF After
  <2>5. Place(1)' = Byte(n, HeaderSize + 1) /\ Len(chunks') = 0
    BY <1>1, <1>3, <2>3, EmptySequence DEF Place
  <2>6. InStep
    BY <1>4 DEF RecvInv
  <2>7. InStep'
    BY <1>1, <1>3, <2>1, <2>3, <2>4, <2>5, <2>6 DEF InStep
  <2>8. QED
    BY <1>3, <2>7 DEF RecvInv
<1>5. CASE torn
  BY <1>3, <1>5 DEF RecvInv
<1>6. QED
  BY <1>4, <1>5

\* A reader in step misreads nothing.
LEMMA MisreadHeaderStep ==
    ASSUME StreamInv, TypeOK', MisreadHeader
    PROVE  RecvInv'
<1> USE DEF StreamInv
<1>1. /\ Take /\ phase = "header" /\ Len(chunks) + 1 = need
      /\ \A n \in 1 .. Len(sent) : Collected # Header(n)
  BY DEF MisreadHeader
<1>2. torn
  <2>1. SUFFICES ASSUME ~torn PROVE FALSE
    BY DEF TypeOK
  <2>2. /\ Len(received) + 1 \in 1 .. Len(sent)
        /\ Len(Collected) = Len(chunks) + 1 /\ Collected \in Seq(Bytes)
        /\ \A k \in 1 .. Len(Collected) : Collected[k] = Place(k)
    BY <1>1, <2>1, InStepTake
  <2>3. Len(Collected) = HeaderSize
    BY <1>1, <2>2 DEF RecvInv
  <2>4. Collected = [k \in 1 .. HeaderSize |-> Collected[k]]
    BY <2>2, <2>3
  <2>5. \A k \in 1 .. HeaderSize : Collected[k] = Byte(Len(received) + 1, k)
    BY <1>1, <2>2, <2>3, Numbers DEF Place
  <2>6. Collected = Header(Len(received) + 1)
    BY <2>4, <2>5 DEF Header
  <2>7. QED
    BY <1>1, <2>2, <2>6
<1>3. torn' = torn
  BY <1>1 DEF Take
<1>4. phase' = "header" => need' = HeaderSize
  BY DEF MisreadHeader, Expect
<1>5. QED
  BY <1>2, <1>3, <1>4 DEF RecvInv

LEMMA TakePayloadStep ==
    ASSUME StreamInv, TypeOK', TakePayload
    PROVE  RecvInv'
<1> USE DEF StreamInv
<1>1. Take /\ phase = "payload" /\ need = Len(chunks) + 1 /\ Expect("header", HeaderSize)
  BY DEF TakePayload
<1>2. PICK n \in 1 .. Len(sent) : Collected = Payload(n) /\ received' = Append(received, n)
  BY DEF TakePayload
<1>3. phase' = "header" /\ need' = HeaderSize /\ chunks' = <<>> /\ UNCHANGED <<sent, torn>>
  BY <1>1 DEF Expect, Take, sendVars
<1>4. CASE ~torn
  <2>1. /\ Len(received) + 1 \in 1 .. Len(sent) /\ wire[1] = Place(Len(chunks) + 1)
        /\ Len(Collected) = Len(chunks) + 1 /\ Collected \in Seq(Bytes)
        /\ \A k \in 1 .. Len(Collected) : Collected[k] = Place(k)
        /\ wire' # <<>> => wire'[1] = After(wire[1])
        /\ link' = "up" /\ wire' = <<>> => NextOut' = After(wire[1])
    BY <1>1, <1>4, InStepTake
  <2>2. InStep /\ need = sent[Len(received) + 1]
    BY <1>1, <1>4 DEF RecvInv, InStep
  <2>3. Len(Collected) = sent[n]
    BY <1>2, <2>1, Numbers DEF Payload
  <2>4. n = Len(received) + 1
    <3>1. 1 \in 1 .. sent[n]
      BY Numbers
    <3>2. Collected[1] = Byte(n, HeaderSize + 1) /\ Collected[1] = Place(1)
      BY <1>2, <2>1, <2>3, <3>1 DEF Payload
    <3>3. QED
      BY <3>2 DEF Place, Byte
  <2>5. After(wire[1]) = Byte(n + 1, 1)
    <3>1. wire[1].msg = n /\ wire[1].at = HeaderSize + sent[n]
      BY <1>1, <2>1, <2>3, <2>4 DEF Place, Byte
    <3>2. FrameSize(n) = HeaderSize + sent[n] /\ FrameSize(n) \in Nat
      BY Numbers
    <3>3. QED
      BY <3>1, <3>2 DEF After
  <2>6. /\ Len(received') = n /\ received'[n] = n
        /\ \A i \in 1 .. n - 1 : received'[i] = i
    <3>1. received \in Seq(0 .. Len(sent)) /\ n \in 0 .. Len(sent)
      BY DEF TypeOK
    <3>2. QED
      BY <1>2, <2>2, <2>4, <3>1, AppendMember, Numbers DEF InStep
  <2>7. Place(1)' = Byte(n + 1, 1) /\ Len(chunks') = 0
    BY <1>3, <2>6, EmptySequence DEF Place
  <2>8. InStep'
    BY <1>3, <2>1, <2>5, <2>6, <2>7 DEF InStep
  <2>9. QED
    BY <1>3, <2>8 DEF RecvInv
<1>5. CASE torn
  BY <1>3, <1>5 DEF RecvInv
<1>6. QED
  BY <1>4, <1>5

LEMMA MisreadPayloadStep ==
    ASSUME StreamInv, TypeOK', MisreadPayload
    PROVE  RecvInv'
<1> USE DEF StreamInv
<1>1. /\ Take /\ phase = "payload" /\ Len(chunks) + 1 = need /\ Expect("header", HeaderSize)
      /\ \A n \in 1 .. Len(sent) : Collected # Payload(n)
  BY DEF MisreadPayload
<1>2. torn
  <2>1. SUFFICES ASSUME ~torn PROVE FALSE
    BY DEF TypeOK
  <2>2. /\ Len(received) + 1 \in 1 .. Len(sent)
        /\ Len(Collected) = Len(chunks) + 1 /\ Collected \in Seq(Bytes)
        /\ \A k \in 1 .. Len(Collected) : Collected[k] = Place(k)
    BY <1>1, <2>1, InStepTake
  <2>3. Len(Collected) = sent[Len(received) + 1]
    BY <1>1, <2>1, <2>2 DEF RecvInv, InStep
  <2>4. Collected = [k \in 1 .. sent[Len(received) + 1] |-> Collected[k]]
    BY <2>2, <2>3
  <2>5. \A k \in 1 .. sent[Len(received) + 1] :
           Collected[k] = Byte(Len(received) + 1, HeaderSize + k)
    BY <1>1, <2>2, <2>3 DEF Place
  <2>6. Collected = Payload(Len(received) + 1)
    BY <2>4, <2>5 DEF Payload
  <2>7. QED
    BY <1>1, <2>2, <2>6
<1>3. torn' = torn /\ phase' = "header" /\ need' = HeaderSize
  BY <1>1 DEF Take, Expect
<1>4. QED
  BY <1>2, <1>3 DEF RecvInv

LEMMA StreamStep == StreamInv /\ [Next]_vars => StreamInv'
<1> SUFFICES ASSUME StreamInv, [Next]_vars PROVE StreamInv'
  OBVIOUS
<1>1. TypeOK'
  BY TypeStep DEF StreamInv
<1>2. CASE Receive
  <2>1. Take
    BY <1>2 DEF Receive, TakeByte, TakeHeader, MisreadHeader, TakePayload, MisreadPayload
  <2>2. RecvInv'
    BY <1>1, <1>2, TakeByteStep, TakeHeaderStep, MisreadHeaderStep, TakePayloadStep,
       MisreadPayloadStep DEF Receive
  <2>3. QED
    BY <1>1, <2>1, <2>2, TakeStep DEF StreamInv
<1>3. CASE ReaderEnds
  BY <1>1, <1>3
     DEF ReaderEnds, StreamInv, LockInv, WireInv, FramesWhole, After, FrameSize, NextOut,
         RecvInv, InStep, Place, sendVars
<1>4. CASE UNCHANGED vars
  BY <1>1, <1>4
     DEF vars, StreamInv, LockInv, WireInv, FramesWhole, After, FrameSize, NextOut,
         RecvInv, InStep, Place, sendVars, recvVars
<1>5. QED
  BY <1>1, <1>2, <1>3, <1>4, SendStep, PutStep, SendFailsStep, LinkDiesStep, TimeOutStep
     DEF Next

LEMMA StreamInvariant == Spec => []StreamInv
<1>1. QED
  BY StreamInit, StreamStep, PTL DEF Spec

-----------------------------------------------------------------------------
\* Type correctness: in particular _recv_exact never collects as many bytes as
\* it was asked for without returning.
THEOREM TypeCorrect == Spec => []TypeOK
<1>1. StreamInv => TypeOK
  BY DEF StreamInv
<1>2. QED
  BY <1>1, StreamInvariant, PTL

\* Threads that send at the same time never mix the bytes of their frames
\* (Connection._send_lock), whatever is cut up, fails or times out.
THEOREM FramesStayWhole == Spec => []FramesWhole
<1>1. StreamInv => FramesWhole
  BY DEF StreamInv, WireInv
<1>2. QED
  BY <1>1, StreamInvariant, PTL

\* Until a timeout tears a frame, recv() has returned the first messages that
\* send() was given, in their order.
InOrder == ~torn => \A i \in 1 .. Len(received) : received[i] = i

\* So it is on every connection.
THEOREM MessagesInOrder == Spec => []InOrder
<1>1. StreamInv => InOrder
  BY DEF StreamInv, RecvInv, InStep, InOrder
<1>2. QED
  BY <1>1, StreamInvariant, PTL

-----------------------------------------------------------------------------
(* The stream implements a message queue. *)

\* What the reader has still to receive of n messages, when it has k.
Due(k, n) == [i \in 1 .. (n - k) |-> k + i]

\* Sequences of the same length with the same elements are equal.
LEMMA SameElements ==
    ASSUME NEW s \in Seq(Nat), NEW t \in Seq(Nat), Len(s) = Len(t),
           \A i \in 1 .. Len(s) : s[i] = t[i]
    PROVE  s = t
<1>1. DOMAIN s = 1 .. Len(s) /\ DOMAIN t = 1 .. Len(t)
  OBVIOUS
<1>2. s = [i \in 1 .. Len(s) |-> s[i]] /\ t = [i \in 1 .. Len(t) |-> t[i]]
  OBVIOUS
<1>3. QED
  BY <1>2

LEMMA DueGrows ==
    ASSUME NEW n \in Nat, NEW k \in 0 .. n
    PROVE  Due(k, n + 1) = Append(Due(k, n), n + 1)
<1>1. /\ Due(k, n) \in Seq(Nat) /\ Len(Due(k, n)) = n - k
      /\ Due(k, n + 1) \in Seq(Nat) /\ Len(Due(k, n + 1)) = n - k + 1
  BY DEF Due
<1>2. \A i \in 1 .. n - k + 1 : Due(k, n + 1)[i] = Append(Due(k, n), n + 1)[i]
  BY <1>1 DEF Due
<1>3. /\ Append(Due(k, n), n + 1) \in Seq(Nat)
      /\ Len(Append(Due(k, n), n + 1)) = n - k + 1
  BY <1>1
<1>4. QED
  BY <1>1, <1>2, <1>3, SameElements

LEMMA DueShrinks ==
    ASSUME NEW n \in Nat, NEW k \in 0 .. n, k < n
    PROVE  Due(k, n) # <<>> /\ Head(Due(k, n)) = k + 1 /\ Tail(Due(k, n)) = Due(k + 1, n)
<1>1. Due(k, n) \in Seq(Nat) /\ Len(Due(k, n)) = n - k
  BY DEF Due
<1>2. /\ Due(k + 1, n) \in Seq(Nat) /\ Len(Due(k + 1, n)) = n - k - 1
      /\ Tail(Due(k, n)) \in Seq(Nat) /\ Len(Tail(Due(k, n))) = n - k - 1
  BY <1>1 DEF Due
<1>3. \A i \in 1 .. n - k - 1 : Tail(Due(k, n))[i] = Due(k + 1, n)[i]
  BY <1>1, <1>2 DEF Due
<1>4. Due(k, n) # <<>> /\ Head(Due(k, n)) = k + 1
  BY <1>1 DEF Due
<1>5. Tail(Due(k, n)) = Due(k + 1, n)
  <2> DEFINE s == Tail(Due(k, n))
             t == Due(k + 1, n)
  <2>1. /\ s \in Seq(Nat) /\ t \in Seq(Nat) /\ Len(s) = Len(t)
        /\ \A i \in 1 .. Len(s) : s[i] = t[i]
    BY <1>2, <1>3
  <2> HIDE DEF s, t
  <2>2. s = t
    BY <2>1, SameElements
  <2>3. QED
    BY <2>2 DEF s, t
<1>6. QED
  BY <1>4, <1>5

\* A reader in step has received the first of the messages sent.
LEMMA ReceivedSent ==
    ASSUME TypeOK, InOrder, ~torn
    PROVE  Len(sent) \in Nat /\ Len(received) \in 0 .. Len(sent)
<1>1. Len(sent) \in Nat /\ Len(received) \in Nat
  BY Length DEF TypeOK
<1>2. CASE received # <<>>
  <2>1. Len(received) \in 1 .. Len(received)
    BY <1>1, <1>2 DEF TypeOK
  <2>2. received[Len(received)] = Len(received) /\ received[Len(received)] \in 0 .. Len(sent)
    BY <2>1, Element DEF TypeOK, InOrder
  <2>3. QED
    BY <1>1, <2>2
<1>3. CASE received = <<>>
  BY <1>1, <1>3
<1>4. QED
  BY <1>2, <1>3

LEMMA QueueInitially == Init => Queue!QueueInit
<1> SUFFICES ASSUME Init PROVE Queue!QueueInit
  OBVIOUS
<1>1. Len(sent) = 0 /\ Len(received) = 0
  BY DEF Init
<1>2. QED
  BY <1>1 DEF Init, Queue!QueueInit

\* The messages sent or the messages received change, or neither.
LEMMA StreamMoves ==
    ASSUME StreamInv, [Next]_vars
    PROVE  \/ /\ \E size \in Sizes : sent' = Append(sent, size)
              /\ Len(sent) < MaxMessages /\ received' = received /\ torn' = torn
           \/ /\ sent' = sent /\ torn' = torn
              /\ \E n \in 0 .. Len(sent) : received' = Append(received, n)
           \/ sent' = sent /\ received' = received /\ (torn => torn')
<1>1. ASSUME NEW s \in Senders, NEW size \in Sizes, Send(s, size)
      PROVE  sent' = Append(sent, size) /\ Len(sent) < MaxMessages /\ UNCHANGED recvVars
  BY <1>1 DEF Send, Begin
<1>2. CASE \E s \in Senders : Put(s) \/ SendFails(s)
  BY <1>2 DEF Put, PutByte, SendFails, recvVars
<1>3. CASE TakeByte \/ TakeHeader \/ MisreadHeader
  BY <1>3 DEF TakeByte, TakeHeader, MisreadHeader, Take, sendVars
<1>4. CASE TakePayload \/ MisreadPayload
  <2>1. Len(sent) \in Nat
    BY Length DEF StreamInv, TypeOK
  <2>2. QED
    BY <1>4, <2>1 DEF TakePayload, MisreadPayload, Take, sendVars
<1>5. CASE TimeOut \/ ReaderEnds \/ LinkDies \/ UNCHANGED vars
  BY <1>5 DEF TimeOut, ReaderEnds, LinkDies, vars, sendVars, recvVars
<1>6. QED
  BY <1>1, <1>2, <1>3, <1>4, <1>5 DEF Next, Receive, recvVars

LEMMA QueueStep ==
    StreamInv /\ StreamInv' /\ [Next]_vars => [Queue!QueueNext]_Queue!queueVars
<1> DEFINE k == Len(received)
           n == Len(sent)
<1> SUFFICES ASSUME StreamInv, StreamInv', [Next]_vars
             PROVE  [Queue!QueueNext]_Queue!queueVars
  OBVIOUS
<1>1. TypeOK /\ TypeOK' /\ InOrder /\ InOrder'
  BY DEF StreamInv, RecvInv, InStep, InOrder
<1>2. CASE torn
  <2>1. torn'
    BY <1>2, StreamMoves
  <2>2. QED
    BY <1>2, <2>1 DEF Queue!QueueNext
<1>3. CASE ~torn /\ \E size \in Sizes : sent' = Append(sent, size)
  <2>1. received' = received /\ torn' = torn /\ n < MaxMessages
    BY <1>3, StreamMoves
  <2>2. n \in Nat /\ k \in 0 .. n /\ Len(sent') = n + 1
    BY <1>1, <1>3, ReceivedSent, AppendMember DEF TypeOK
  <2>3. Due(k, Len(sent')) = Append(Due(k, n), n + 1)
    BY <2>2, DueGrows
  <2>4. n + 1 \in 1 .. MaxMessages
    BY <2>1, <2>2, MaxMessagesAssumption
  <2>5. QED
    BY <1>3, <2>1, <2>3, <2>4 DEF Queue!QueueNext, Queue!Enqueue, Due
<1>4. CASE ~torn /\ sent' = sent /\ torn' = torn /\ \E m \in 0 .. n : received' = Append(received, m)
  <2>1. PICK m \in 0 .. n : received' = Append(received, m)
    BY <1>4
  <2>2. Len(received') = k + 1 /\ received'[k + 1] = m
    BY <1>1, <2>1, AppendMember DEF TypeOK
  <2>3. n \in Nat /\ k \in 0 .. n
    BY <1>1, <1>4, ReceivedSent
  <2>4. m = k + 1
    BY <1>1, <1>4, <2>2, <2>3 DEF InOrder
  <2>5. Due(k, n) # <<>> /\ Head(Due(k, n)) = m /\ Tail(Due(k, n)) = Due(Len(received'), n)
    BY <2>2, <2>3, <2>4, DueShrinks
  <2>6. QED
    BY <1>4, <2>1, <2>5 DEF Queue!QueueNext, Queue!Deliver, Due
<1>5. CASE ~torn /\ sent' = sent /\ received' = received
  <2>1. CASE torn'
    BY <1>5, <2>1 DEF Queue!QueueNext, Queue!Break
  <2>2. CASE ~torn'
    BY <1>1, <1>5, <2>2 DEF Queue!queueVars, TypeOK
  <2>3. QED
    BY <2>1, <2>2
<1>6. QED
  BY <1>2, <1>3, <1>4, <1>5, StreamMoves

\* A connection implements a message queue: what recv() returns is what send()
\* was given, unchanged, in order and once, until a receive times out inside a
\* frame; however the socket cuts the stream, whichever threads send at once,
\* and whatever is lost when an end closes.
THEOREM StreamRefines == Spec => ImplementsQueue
BY QueueInitially, QueueStep, StreamInvariant, PTL DEF Spec, ImplementsQueue, Queue!QueueSpec
=============================================================================
