-------------------------- MODULE RpcClientProofs --------------------------
(***************************************************************************)
(* Theorems about RpcClient, for any number of callers and calls.          *)
(***************************************************************************)
EXTENDS RpcClient, TLAPS

Waits(c, i) == pc[c] = "waiting" /\ req[c] = i

IsResponse(k) == toClient[k].kind = "response"

IsData(r) == r.kind = "data"

\* Ids are given out once: those in use are below the next one.
WaitingIds == \A c \in Callers : pc[c] = "waiting" => req[c] < nextId

HubIds == \A k \in 1 .. Len(toHub) : toHub[k].id < nextId

ClientIds ==
    \A k \in 1 .. Len(toClient) :
        IsResponse(k) /\ IsData(toClient[k].result) => toClient[k].id < nextId

PendingIds == \A i \in Ids : IsData(pending[i]) => i < nextId

IdsInv == WaitingIds /\ HubIds /\ ClientIds /\ PendingIds

\* The data of a call, wherever its request or response has got to, is what
\* the call asked for.
HubData(c) == \A k \in 1 .. Len(toHub) : toHub[k].id = req[c] => toHub[k].arg = arg[c]

ClientData(c) ==
    \A k \in 1 .. Len(toClient) :
        IsResponse(k) /\ IsData(toClient[k].result) /\ toClient[k].id = req[c]
            => toClient[k].result = Data(arg[c])

PendingData(c) == IsData(pending[req[c]]) => pending[req[c]] = Data(arg[c])

DataInv ==
    \A c \in Callers : pc[c] = "waiting" => HubData(c) /\ ClientData(c) /\ PendingData(c)

MatchInv == TypeOK /\ IdsInv /\ DataInv /\ OwnResponse

-----------------------------------------------------------------------------
(* What a message queue holds after its head is taken or a message added.  *)

LEMMA TailMember ==
    ASSUME NEW S, NEW s \in Seq(S), s # <<>>
    PROVE  /\ Tail(s) \in Seq(S)
           /\ Head(s) = s[1] /\ 1 \in 1 .. Len(s) /\ Head(s) \in S
           /\ \A k \in 1 .. Len(Tail(s)) : k + 1 \in 1 .. Len(s) /\ Tail(s)[k] = s[k + 1]
OBVIOUS

LEMMA AppendMember ==
    ASSUME NEW S, NEW s \in Seq(S), NEW m \in S
    PROVE  /\ Append(s, m) \in Seq(S)
           /\ \A k \in 1 .. Len(Append(s, m)) :
                \/ k \in 1 .. Len(s) /\ Append(s, m)[k] = s[k]
                \/ k = Len(s) + 1 /\ Append(s, m)[k] = m
OBVIOUS

LEMMA ShortSequences ==
    ASSUME NEW S, NEW m \in S
    PROVE  <<>> \in Seq(S) /\ <<m>> \in Seq(S)
OBVIOUS

LEMMA EmptySequence == ASSUME NEW S PROVE <<>> \in Seq(S)
OBVIOUS

LEMMA Element == ASSUME NEW S, NEW s \in Seq(S), NEW k \in 1 .. Len(s) PROVE s[k] \in S
OBVIOUS

\* The forms of the results and of the messages.
LEMMA DataForm ==
    ASSUME NEW a \in Args
    PROVE  /\ Data(a) \in Results \ {ConnectionError}
           /\ IsData(Data(a)) /\ Data(a) # NoResult
BY DEF Data, Results, RpcError, ConnectionError, IsData, NoResult

LEMMA ErrorForm ==
    /\ RpcError \in Results \ {ConnectionError} /\ ConnectionError \in Results
    /\ ~IsData(RpcError) /\ ~IsData(ConnectionError) /\ ~IsData(NoResult)
BY DEF Data, Results, RpcError, ConnectionError, IsData, NoResult

LEMMA ResponseForm ==
    ASSUME NEW i \in Ids, NEW r \in Results \ {ConnectionError}
    PROVE  /\ Response(i, r) \in Responses
           /\ Response(i, r).kind = "response"
           /\ Response(i, r).id = i /\ Response(i, r).result = r
BY DEF Response, Responses

LEMMA MessageForm ==
    ASSUME NEW m \in Responses \cup {Event}
    PROVE  IF m.kind = "response" THEN m.id \in Ids /\ m.result \in Results
                                  ELSE m = Event
BY DEF Response, Responses, Event

LEMMA MatchInit == Init => MatchInv
<1> SUFFICES ASSUME Init PROVE MatchInv
  OBVIOUS
<1>1. TypeOK
  BY MaxCallsAssumption DEF Init, TypeOK, Ids
<1>2. IdsInv /\ DataInv /\ OwnResponse
  BY DEF Init, IdsInv, WaitingIds, HubIds, ClientIds, PendingIds, DataInv, OwnResponse,
         NoResult, IsData
<1>3. QED
  BY <1>1, <1>2 DEF MatchInv

-----------------------------------------------------------------------------
(* Every step keeps MatchInv: first the types, then the data.              *)

LEMMA TypeStep == TypeOK /\ [Next]_vars => TypeOK'
<1> SUFFICES ASSUME TypeOK, [Next]_vars PROVE TypeOK'
  OBVIOUS
<1> USE DEF clientVars, callVars, netVars
<1>1. ASSUME NEW c \in Callers, NEW a \in Args, Send(c, a) PROVE TypeOK'
  <2>1. [id |-> nextId, arg |-> a] \in Requests
    BY DEF TypeOK, Requests
  <2>2. toHub' \in Seq(Requests)
    BY <1>1, <2>1, AppendMember DEF Send, TypeOK
  <2>3. nextId' \in Ids
    BY <1>1, MaxCallsAssumption DEF Send, CanCall, TypeOK, Ids
  <2>4. QED
    BY <1>1, <2>2, <2>3 DEF Send, TypeOK
<1>2. ASSUME NEW c \in Callers, SendFails(c) PROVE TypeOK'
  <2>1. nextId' \in Ids
    BY <1>2, MaxCallsAssumption DEF SendFails, CanCall, TypeOK, Ids
  <2>2. QED
    BY <1>2, <2>1, ErrorForm DEF SendFails, ErrorPending, TypeOK
<1>3. ASSUME NEW c \in Callers, CallRefused(c) PROVE TypeOK'
  BY <1>3, ErrorForm DEF CallRefused, TypeOK
<1>4. ASSUME NEW c \in Callers, Return(c) PROVE TypeOK'
  BY <1>4 DEF Return, TypeOK
<1>5. CASE Read
  <2>1. Head(toClient) \in Responses \cup {Event} /\ toClient' \in Seq(Responses \cup {Event})
    BY <1>5, TailMember DEF Read, TypeOK
  <2>2. pending' \in [Ids -> Results \cup {NoResult}]
    BY <1>5, <2>1, MessageForm DEF Read, TypeOK
  <2>3. QED
    BY <1>5, <2>1, <2>2 DEF Read, ReaderTop, TypeOK
<1>6. CASE ReadTears \/ ReadFails \/ ReaderStops \/ CloseBegins \/ CloseEnds
  BY <1>6 DEF ReadTears, ReadFails, ReaderStops, CloseBegins, CloseEnds, TypeOK
<1>7. CASE MarkPending
  BY <1>7, ErrorForm DEF MarkPending, ErrorPending, TypeOK
<1>8. CASE HubReplies
  <2>1. Head(toHub) \in Requests /\ toHub' \in Seq(Requests)
    BY <1>8, TailMember DEF HubReplies, TypeOK
  <2>2. PICK r \in {Data(Head(toHub).arg), RpcError} :
          toClient' = Append(toClient, Response(Head(toHub).id, r))
    BY <1>8 DEF HubReplies
  <2>3. r \in Results \ {ConnectionError} /\ Head(toHub).id \in Ids
    BY <2>1, <2>2, DataForm, ErrorForm DEF Requests
  <2>4. toClient' \in Seq(Responses \cup {Event})
    BY <2>2, <2>3, ResponseForm, AppendMember DEF TypeOK
  <2>5. QED
    BY <1>8, <2>1, <2>4 DEF HubReplies, TypeOK
<1>9. CASE HubPushes
  BY <1>9, AppendMember DEF HubPushes, TypeOK
<1>10. CASE HubRejects
  <2>1. 0 \in Ids
    BY MaxCallsAssumption DEF Ids
  <2>2. Response(0, RpcError) \in Responses \cup {Event}
    BY <2>1, ErrorForm, ResponseForm
  <2>3. toClient' \in Seq(Responses \cup {Event}) /\ toHub' \in Seq(Requests)
    BY <1>10, <2>2, ShortSequences, EmptySequence DEF HubRejects
  <2>4. QED
    BY <1>10, <2>3 DEF HubRejects, TypeOK
<1>11. CASE LinkDies
  <2>1. toClient' \in Seq(Responses \cup {Event}) /\ toHub' \in Seq(Requests)
    BY <1>11, EmptySequence DEF LinkDies, TypeOK
  <2>2. QED
    BY <1>11, <2>1 DEF LinkDies, TypeOK
<1>12. CASE UNCHANGED vars
  BY <1>12 DEF vars, TypeOK
<1>13. QED
  BY <1>1, <1>2, <1>3, <1>4, <1>5, <1>6, <1>7, <1>8, <1>9, <1>10, <1>11, <1>12
     DEF Next, Calling, ReaderStep

\* The numbers that ids are.
LEMMA IdNumbers ==
    ASSUME TypeOK
    PROVE  /\ nextId \in Nat
           /\ \A c \in Callers : req[c] \in Ids /\ req[c] \in Nat
           /\ \A i \in Ids : i \in Nat
           /\ \A k \in 1 .. Len(toHub) : toHub[k].id \in Nat
           /\ \A k \in 1 .. Len(toClient) : IsResponse(k) => toClient[k].id \in Nat
<1>1. \A i \in Ids : i \in Nat
  BY MaxCallsAssumption DEF Ids
<1>2. nextId \in Nat /\ \A c \in Callers : req[c] \in Ids /\ req[c] \in Nat
  BY <1>1 DEF TypeOK
<1>3. ASSUME NEW k \in 1 .. Len(toHub) PROVE toHub[k].id \in Nat
  <2>1. toHub[k] \in Requests
    BY Element DEF TypeOK
  <2>2. QED
    BY <1>1, <2>1 DEF Requests
<1>4. ASSUME NEW k \in 1 .. Len(toClient), IsResponse(k) PROVE toClient[k].id \in Nat
  <2>1. toClient[k] \in Responses \cup {Event}
    BY Element DEF TypeOK
  <2>2. QED
    BY <1>1, <1>4, <2>1, MessageForm DEF IsResponse
<1>5. QED
  BY <1>1, <1>2, <1>3, <1>4

LEMMA MatchStep == MatchInv /\ [Next]_vars => MatchInv'
<1> DEFINE Parts == WaitingIds /\ HubIds /\ ClientIds /\ PendingIds /\ DataInv /\ OwnResponse
<1> SUFFICES ASSUME MatchInv, [Next]_vars PROVE Parts'
  BY TypeStep DEF MatchInv, IdsInv
<1>0. TypeOK /\ Parts
  BY DEF MatchInv, IdsInv
<1>1. ASSUME NEW c \in Callers, NEW a \in Args, Send(c, a) PROVE Parts'
  <2> DEFINE m == [id |-> nextId, arg |-> a]
  <2>1. m \in Requests /\ toHub \in Seq(Requests) /\ nextId \in Nat
        /\ toHub' \in {Append(toHub, m), toHub}
    BY <1>0, <1>1, MaxCallsAssumption DEF TypeOK, Requests, Ids, Send
  <2>2. \A k \in 1 .. Len(toHub') :
          \/ k \in 1 .. Len(toHub) /\ toHub'[k] = toHub[k]
          \/ toHub'[k] = m
    BY <2>1, AppendMember
  <2>3. /\ pending' = pending /\ toClient' = toClient /\ result' = result
        /\ nextId' = nextId + 1
    BY <1>1 DEF Send
  <2>4. /\ pc'[c] = "waiting" /\ req'[c] = nextId /\ arg'[c] = a
        /\ \A e \in Callers \ {c} : pc'[e] = pc[e] /\ req'[e] = req[e] /\ arg'[e] = arg[e]
    BY <1>0, <1>1 DEF Send, TypeOK
  <2>5. /\ \A e \in Callers : req[e] \in Nat
        /\ \A i \in Ids : i \in Nat
        /\ \A k \in 1 .. Len(toHub) : toHub[k].id \in Nat
        /\ \A k \in 1 .. Len(toClient) : IsResponse(k) => toClient[k].id \in Nat
    BY <1>0, IdNumbers
  <2>6. WaitingIds'
    BY <1>0, <2>1, <2>3, <2>4, <2>5 DEF WaitingIds
  <2>7. HubIds'
    BY <1>0, <2>1, <2>2, <2>3, <2>5 DEF HubIds
  <2>8. ClientIds' /\ PendingIds'
    BY <1>0, <2>1, <2>3, <2>5 DEF ClientIds, PendingIds, IsResponse
  <2>9. HubData(c)' /\ ClientData(c)' /\ PendingData(c)'
    <3>1. HubData(c)'
      BY <1>0, <2>1, <2>2, <2>4, <2>5 DEF HubData, HubIds
    <3>2. ClientData(c)'
      BY <1>0, <2>1, <2>3, <2>4, <2>5 DEF ClientData, ClientIds, IsResponse
    <3>3. PendingData(c)'
      BY <1>0, <2>1, <2>3, <2>4, <2>5 DEF PendingData, PendingIds, TypeOK
    <3>4. QED
      BY <3>1, <3>2, <3>3
  <2>10. ASSUME NEW e \in Callers \ {c}, pc'[e] = "waiting"
         PROVE  HubData(e)' /\ ClientData(e)' /\ PendingData(e)'
    <3>1. HubData(e) /\ ClientData(e) /\ PendingData(e) /\ req[e] < nextId
      BY <1>0, <2>4, <2>10 DEF DataInv, WaitingIds
    <3>2. HubData(e)'
      <4>1. ASSUME NEW k \in 1 .. Len(toHub'), toHub'[k].id = req[e] PROVE toHub'[k].arg = arg[e]
        <5>1. toHub'[k] # m
          BY <2>1, <2>5, <3>1, <4>1
        <5> QED
          BY <2>2, <3>1, <4>1, <5>1 DEF HubData
      <4> QED
        BY <2>4, <4>1 DEF HubData
    <3>3. ClientData(e)' /\ PendingData(e)'
      BY <2>3, <2>4, <3>1 DEF ClientData, PendingData, IsResponse
    <3>4. QED
      BY <3>2, <3>3
  <2>11. DataInv'
    BY <2>9, <2>10 DEF DataInv
  <2>12. OwnResponse'
    BY <1>0, <2>3, <2>4 DEF OwnResponse
  <2>13. QED
    BY <2>6, <2>7, <2>8, <2>11, <2>12
<1>2. ASSUME NEW c \in Callers, SendFails(c) PROVE Parts'
  <2>1. /\ \A i \in Ids : ~IsData(pending'[i])
        /\ pc' = pc /\ req' = req /\ arg' = arg /\ toHub' = toHub /\ toClient' = toClient
        /\ nextId' = nextId + 1
    BY <1>2, ErrorForm DEF SendFails, ErrorPending, netVars
  <2>2. \A e \in Callers : result'[e] = result[e] \/ ~IsData(result'[e])
    BY <1>0, <1>2, ErrorForm DEF SendFails, TypeOK
  <2>7. /\ nextId \in Nat /\ \A e \in Callers : req[e] \in Nat
        /\ \A k \in 1 .. Len(toHub) : toHub[k].id \in Nat
        /\ \A k \in 1 .. Len(toClient) : IsResponse(k) => toClient[k].id \in Nat
    BY <1>0, IdNumbers
  <2>8. WaitingIds' /\ HubIds'
    BY <1>0, <2>1, <2>7 DEF WaitingIds, HubIds
  <2>9. ClientIds' /\ PendingIds'
    BY <1>0, <2>1, <2>7 DEF ClientIds, PendingIds, IsResponse
  <2>4. DataInv'
    BY <1>0, <2>1, IdNumbers DEF DataInv, HubData, ClientData, PendingData, IsResponse
  <2>5. OwnResponse'
    BY <1>0, <2>1, <2>2 DEF OwnResponse, IsData
  <2>6. QED
    BY <2>4, <2>5, <2>8, <2>9
<1>3. ASSUME NEW c \in Callers, CallRefused(c) PROVE Parts'
  <2>1. \A e \in Callers : result'[e] = result[e] \/ ~IsData(result'[e])
    BY <1>0, <1>3, ErrorForm DEF CallRefused, TypeOK
  <2>2. UNCHANGED <<clientVars, pc, req, arg, netVars>>
    BY <1>3 DEF CallRefused
  <2>3. QED
    BY <1>0, <2>1, <2>2 DEF WaitingIds, HubIds, ClientIds, PendingIds, DataInv, HubData,
       ClientData, PendingData, IsResponse, OwnResponse, IsData, clientVars, netVars
<1>4. ASSUME NEW c \in Callers, Return(c) PROVE Parts'
  <2>1. UNCHANGED <<nextId, req, arg, netVars>>
    BY <1>4 DEF Return
  <2>2. /\ \A i \in Ids : pending'[i] = pending[i] \/ ~IsData(pending'[i])
        /\ \A e \in Callers : pc'[e] = "waiting" => pc[e] = "waiting"
        /\ result'[c] = pending[req[c]] /\ pc[c] = "waiting"
        /\ \A e \in Callers \ {c} : result'[e] = result[e] /\ pc'[e] = pc[e]
    BY <1>0, <1>4, ErrorForm DEF Return, TypeOK
  <2>3. WaitingIds' /\ HubIds' /\ ClientIds' /\ PendingIds'
    BY <1>0, <2>1, <2>2 DEF WaitingIds, HubIds, ClientIds, PendingIds, IsResponse, netVars
  <2>4. DataInv'
    BY <1>0, <2>1, <2>2, IdNumbers DEF DataInv, HubData, ClientData, PendingData, IsResponse,
       netVars
  <2>5. PendingData(c)
    BY <1>0, <2>2 DEF DataInv
  <2>6. OwnResponse'
    BY <1>0, <2>1, <2>2, <2>5 DEF OwnResponse, PendingData, IsData
  <2>7. QED
    BY <2>3, <2>4, <2>6
<1>5. CASE Read
  <2> DEFINE h == Head(toClient)
  <2>1. toClient \in Seq(Responses \cup {Event}) /\ toClient # <<>> /\ toClient' = Tail(toClient)
    BY <1>0, <1>5 DEF Read, TypeOK
  <2>2. /\ h = toClient[1] /\ 1 \in 1 .. Len(toClient) /\ h \in Responses \cup {Event}
        /\ \A k \in 1 .. Len(toClient') :
             k + 1 \in 1 .. Len(toClient) /\ toClient'[k] = toClient[k + 1]
    BY <2>1, TailMember
  <2>3. \A i \in Ids : \/ pending'[i] = pending[i]
                       \/ h.kind = "response" /\ i = h.id /\ pending'[i] = h.result
    <3>1. pending \in [Ids -> Results \cup {NoResult}]
      BY <1>0 DEF TypeOK
    <3>2. CASE h.kind = "response"
      <4>1. pending' = [pending EXCEPT ![h.id] = h.result]
        BY <1>5, <3>2 DEF Read
      <4>2. QED
        BY <3>1, <3>2, <4>1
    <3>3. CASE h.kind # "response"
      BY <1>5, <3>3 DEF Read
    <3>4. QED
      BY <3>2, <3>3
  <2>4. UNCHANGED <<nextId, toHub, pc, req, arg, result>>
    BY <1>5 DEF Read, callVars
  <2>5. WaitingIds' /\ HubIds' /\ OwnResponse'
    BY <1>0, <2>4 DEF WaitingIds, HubIds, OwnResponse
  <2>6. ClientIds'
    BY <1>0, <2>2, <2>4 DEF ClientIds, IsResponse
  <2>7. PendingIds'
    BY <1>0, <2>2, <2>3, <2>4 DEF PendingIds, ClientIds, IsResponse
  <2>8. ASSUME NEW c \in Callers, pc[c] = "waiting"
        PROVE  HubData(c)' /\ ClientData(c)' /\ PendingData(c)'
    <3>1. HubData(c) /\ ClientData(c) /\ PendingData(c)
      BY <1>0, <2>8 DEF DataInv
    <3>2. HubData(c)'
      BY <2>4, <3>1 DEF HubData
    <3>3. ClientData(c)'
      BY <2>2, <2>4, <3>1 DEF ClientData, IsResponse
    <3>4. req[c] \in Ids
      BY <1>0 DEF TypeOK
    <3>5. PendingData(c)'
      BY <2>2, <2>3, <2>4, <3>1, <3>4 DEF PendingData, ClientData, IsResponse
    <3>6. QED
      BY <3>2, <3>3, <3>5
  <2>9. DataInv'
    BY <2>4, <2>8 DEF DataInv
  <2>10. QED
    BY <2>5, <2>6, <2>7, <2>9
<1>6. CASE ReadTears \/ ReadFails \/ ReaderStops \/ CloseBegins \/ CloseEnds \/ UNCHANGED vars
  <2>1. UNCHANGED <<nextId, pending, toHub, toClient, pc, req, arg, result>>
    BY <1>6 DEF ReadTears, ReadFails, ReaderStops, CloseBegins, CloseEnds, vars, clientVars, callVars,
                netVars
  <2>2. QED
    BY <1>0, <2>1 DEF WaitingIds, HubIds, ClientIds, PendingIds, DataInv, HubData, ClientData,
                      PendingData, IsResponse, OwnResponse
<1>7. CASE MarkPending
  <2>1. /\ \A i \in Ids : ~IsData(pending'[i])
        /\ UNCHANGED <<nextId, toHub, toClient, pc, req, arg, result>>
    BY <1>7, ErrorForm DEF MarkPending, ErrorPending, callVars, netVars
  <2>2. QED
    BY <1>0, <2>1, IdNumbers DEF WaitingIds, HubIds, ClientIds, PendingIds, DataInv, HubData,
                                 ClientData, PendingData, IsResponse, OwnResponse
<1>8. CASE HubReplies
  <2> DEFINE h == Head(toHub)
  <2>1. toHub \in Seq(Requests) /\ toHub # <<>> /\ toHub' = Tail(toHub)
    BY <1>0, <1>8 DEF HubReplies, TypeOK
  <2>2. /\ h = toHub[1] /\ 1 \in 1 .. Len(toHub) /\ h \in Requests
        /\ \A k \in 1 .. Len(toHub') : k + 1 \in 1 .. Len(toHub) /\ toHub'[k] = toHub[k + 1]
    BY <2>1, TailMember
  <2>3. PICK r \in {Data(h.arg), RpcError} : toClient' = Append(toClient, Response(h.id, r))
    BY <1>8 DEF HubReplies
  <2>4. h.id \in Ids /\ h.arg \in Args /\ r \in Results \ {ConnectionError}
    BY <2>2, <2>3, DataForm, ErrorForm DEF Requests
  <2>5. /\ Response(h.id, r) \in Responses \cup {Event}
        /\ Response(h.id, r).id = h.id /\ Response(h.id, r).result = r
    BY <2>4, ResponseForm
  <2>6. \A k \in 1 .. Len(toClient') :
          \/ k \in 1 .. Len(toClient) /\ toClient'[k] = toClient[k]
          \/ toClient'[k] = Response(h.id, r)
    BY <1>0, <2>3, <2>5, AppendMember DEF TypeOK
  <2>7. UNCHANGED <<nextId, pending, pc, req, arg, result>>
    BY <1>8 DEF HubReplies, clientVars, callVars
  <2>8. WaitingIds' /\ PendingIds' /\ OwnResponse'
    BY <1>0, <2>7 DEF WaitingIds, PendingIds, OwnResponse
  <2>9. HubIds'
    BY <1>0, <2>2, <2>7 DEF HubIds
  <2>10. ClientIds'
    BY <1>0, <2>2, <2>5, <2>6, <2>7 DEF ClientIds, HubIds, IsResponse
  <2>11. ASSUME NEW c \in Callers, pc[c] = "waiting"
         PROVE  HubData(c)' /\ ClientData(c)' /\ PendingData(c)'
    <3>1. HubData(c) /\ ClientData(c) /\ PendingData(c)
      BY <1>0, <2>11 DEF DataInv
    <3>2. HubData(c)'
      BY <2>2, <2>7, <3>1 DEF HubData
    <3>3. h.id = req[c] /\ IsData(r) => r = Data(arg[c])
      BY <2>2, <2>3, <3>1, ErrorForm DEF HubData
    <3>4. ClientData(c)'
      BY <2>5, <2>6, <2>7, <3>1, <3>3 DEF ClientData, IsResponse
    <3>5. PendingData(c)'
      BY <2>7, <3>1 DEF PendingData
    <3>6. QED
      BY <3>2, <3>4, <3>5
  <2>12. DataInv'
    BY <2>7, <2>11 DEF DataInv
  <2>13. QED
    BY <2>8, <2>9, <2>10, <2>12
<1>9. CASE HubPushes
  <2>1. \A k \in 1 .. Len(toClient') :
          \/ k \in 1 .. Len(toClient) /\ toClient'[k] = toClient[k]
          \/ toClient'[k] = Event
    BY <1>0, <1>9, AppendMember DEF HubPushes, TypeOK
  <2>2. UNCHANGED <<nextId, pending, toHub, pc, req, arg, result>>
    BY <1>9 DEF HubPushes, clientVars, callVars
  <2>3. Event.kind # "response"
    BY DEF Event
  <2>4. QED
    BY <1>0, <2>1, <2>2, <2>3 DEF WaitingIds, HubIds, ClientIds, PendingIds, DataInv, HubData,
       ClientData, PendingData, IsResponse, OwnResponse
<1>10. CASE HubRejects
  <2>1. 0 \in Ids
    BY MaxCallsAssumption DEF Ids
  <2>2. ~IsData(Response(0, RpcError).result)
    BY <2>1, ErrorForm, ResponseForm
  <2>3. /\ \A k \in 1 .. Len(toClient') : ~IsData(toClient'[k].result)
        /\ Len(toHub') = 0
    BY <1>10, <2>2 DEF HubRejects
  <2>4. UNCHANGED <<nextId, pending, pc, req, arg, result>>
    BY <1>10 DEF HubRejects, clientVars, callVars
  <2>5. QED
    BY <1>0, <2>3, <2>4 DEF WaitingIds, HubIds, ClientIds, PendingIds, DataInv, HubData,
       ClientData, PendingData, IsResponse, OwnResponse
<1>11. CASE LinkDies
  <2>1. /\ toClient' = toClient \/ Len(toClient') = 0
        /\ Len(toHub') = 0
    BY <1>11 DEF LinkDies
  <2>2. UNCHANGED <<nextId, pending, pc, req, arg, result>>
    BY <1>11 DEF LinkDies, clientVars, callVars
  <2>3. QED
    BY <1>0, <2>1, <2>2 DEF WaitingIds, HubIds, ClientIds, PendingIds, DataInv, HubData,
       ClientData, PendingData, IsResponse, OwnResponse
<1>12. QED
  BY <1>1, <1>2, <1>3, <1>4, <1>5, <1>6, <1>7, <1>8, <1>9, <1>10, <1>11
     DEF Next, Calling, ReaderStep

LEMMA MatchHolds == Spec => []MatchInv
BY MatchInit, MatchStep, PTL DEF Spec

\* The variables of the client and of the two channels keep their types.
THEOREM RpcTypeCorrect == Spec => []TypeOK
BY MatchHolds, PTL DEF MatchInv

\* However many threads call at once, a call returns no other call's data.
THEOREM OwnResponseAlways == Spec => []OwnResponse
BY MatchHolds, PTL DEF MatchInv
-----------------------------------------------------------------------------
(* Nothing is left behind.  A message that is under way belongs to a call   *)
(* that waits and has no result yet, and it is the only one with its id.    *)
(* Id 0 is left out: a busy hub's refusal uses it too.                      *)

Live(i) == i = 0 \/ (pending[i] = NoResult /\ \E c \in Callers : Waits(c, i))

HubLive == \A k \in 1 .. Len(toHub) : Live(toHub[k].id)

ClientLive == \A k \in 1 .. Len(toClient) : IsResponse(k) => Live(toClient[k].id)

HubOnce == \A k, l \in 1 .. Len(toHub) : k # l => toHub[k].id # toHub[l].id

ClientOnce ==
    \A k, l \in 1 .. Len(toClient) :
        k # l /\ IsResponse(k) /\ IsResponse(l) /\ toClient[k].id = toClient[l].id
            => toClient[k].id = 0

CrossOnce ==
    \A k \in 1 .. Len(toHub), l \in 1 .. Len(toClient) :
        IsResponse(l) /\ toHub[k].id = toClient[l].id => toHub[k].id = 0

KeepInv == NothingLeftBehind /\ HubLive /\ ClientLive /\ HubOnce /\ ClientOnce /\ CrossOnce

LEMMA KeepInit == Init => KeepInv
BY DEF Init, KeepInv, NothingLeftBehind, HubLive, ClientLive, HubOnce, ClientOnce, CrossOnce

LEMMA IdsUnderWay ==
    ASSUME TypeOK
    PROVE  /\ \A k \in 1 .. Len(toHub) : toHub[k].id \in Ids
           /\ \A k \in 1 .. Len(toClient) : IsResponse(k) => toClient[k].id \in Ids
<1>1. ASSUME NEW k \in 1 .. Len(toHub) PROVE toHub[k].id \in Ids
  <2>1. toHub[k] \in Requests
    BY Element DEF TypeOK
  <2> QED
    BY <2>1 DEF Requests
<1>2. ASSUME NEW k \in 1 .. Len(toClient), IsResponse(k) PROVE toClient[k].id \in Ids
  <2>1. toClient[k] \in Responses \cup {Event}
    BY Element DEF TypeOK
  <2> QED
    BY <1>2, <2>1, MessageForm DEF IsResponse
<1> QED
  BY <1>1, <1>2

\* A step that keeps which ids have a result, who waits for what, and the
\* channels, keeps KeepInv.
LEMMA KeepSame ==
    ASSUME KeepInv, UNCHANGED <<toHub, toClient, pc, req>>, TypeOK,
           \A i \in Ids : pending'[i] = NoResult <=> pending[i] = NoResult
    PROVE  KeepInv'
<1>1. \A i \in Ids : Live(i)' <=> Live(i)
  BY DEF Live, Waits
<1>2. \A k \in 1 .. Len(toHub) : toHub[k].id \in Ids
  BY IdsUnderWay
<1>3. \A k \in 1 .. Len(toClient) : IsResponse(k) => toClient[k].id \in Ids
  BY IdsUnderWay
<1>4. NothingLeftBehind'
  BY DEF KeepInv, NothingLeftBehind
<1> HIDE DEF Live
<1>5. HubLive'
  BY <1>1, <1>2 DEF KeepInv, HubLive
<1>6. ClientLive'
  BY <1>1, <1>3 DEF KeepInv, ClientLive, IsResponse
<1>7. HubOnce' /\ ClientOnce' /\ CrossOnce'
  BY DEF KeepInv, HubOnce, ClientOnce, CrossOnce, IsResponse
<1> QED
  BY <1>4, <1>5, <1>6, <1>7 DEF KeepInv

\* A step that leaves the results and the callers alone, and loses messages
\* or adds some that carry no response, keeps KeepInv.
LEMMA KeepLosing ==
    ASSUME KeepInv, UNCHANGED <<pending, pc, req>>,
           toHub' = toHub \/ toHub' = <<>>,
           \/ \A k \in 1 .. Len(toClient') :
                  \/ k \in 1 .. Len(toClient) /\ toClient'[k] = toClient[k]
                  \/ toClient'[k].kind # "response"
           \/ Len(toClient') = 1 /\ toClient'[1].id = 0
           \/ Len(toClient') = 0
    PROVE  KeepInv'
<1>1. \A i : Live(i)' <=> Live(i)
  BY DEF Live, Waits
<1>2. /\ \A k \in 1 .. Len(toHub') : k \in 1 .. Len(toHub) /\ toHub'[k] = toHub[k]
      /\ \A k \in 1 .. Len(toClient') :
            IsResponse(k)' => \/ k \in 1 .. Len(toClient) /\ toClient'[k] = toClient[k]
                              \/ toClient'[k].id = 0 /\ Len(toClient') = 1
  BY DEF IsResponse
<1>3. Live(0)
  BY DEF Live
<1>4. NothingLeftBehind'
  BY DEF KeepInv, NothingLeftBehind
<1>5. HubLive' /\ HubOnce'
  BY <1>1, <1>2 DEF KeepInv, HubLive, HubOnce
<1>6. ClientLive'
  BY <1>1, <1>2, <1>3 DEF KeepInv, ClientLive, IsResponse
<1>7. ClientOnce'
  BY <1>2 DEF KeepInv, ClientOnce, IsResponse
<1>8. CrossOnce'
  BY <1>2 DEF KeepInv, CrossOnce, IsResponse
<1> QED
  BY <1>4, <1>5, <1>6, <1>7, <1>8 DEF KeepInv

LEMMA KeepSend ==
    ASSUME MatchInv, KeepInv, NEW c \in Callers, NEW a \in Args, Send(c, a)
    PROVE  KeepInv'
<1> DEFINE m == [id |-> nextId, arg |-> a]
<1>0. TypeOK /\ WaitingIds /\ HubIds
  BY DEF MatchInv, IdsInv
<1>1. m \in Requests /\ toHub \in Seq(Requests) /\ nextId \in Nat /\ nextId \in Ids
      /\ toHub' \in {Append(toHub, m), toHub}
  BY <1>0, MaxCallsAssumption DEF TypeOK, Requests, Ids, Send
<1>2. /\ \A k \in 1 .. Len(toHub') :
           \/ k \in 1 .. Len(toHub) /\ toHub'[k] = toHub[k]
           \/ k = Len(toHub) + 1 /\ toHub'[k].id = nextId
  BY <1>1, AppendMember
<1>3. pending' = pending /\ toClient' = toClient
  BY DEF Send
<1>4. /\ pc[c] = "idle" /\ pc'[c] = "waiting" /\ req'[c] = nextId
      /\ \A e \in Callers \ {c} : pc'[e] = pc[e] /\ req'[e] = req[e]
  BY <1>0 DEF Send, CanCall, TypeOK
<1>5. \A e \in Callers : \A i : Waits(e, i) => Waits(e, i)'
  BY <1>4 DEF Waits
<1>6. \A i : Live(i) => Live(i)'
  BY <1>3, <1>5 DEF Live
<1>7. nextId # 0 => pending[nextId] = NoResult
  BY <1>0, <1>1 DEF KeepInv, NothingLeftBehind, WaitingIds
<1>8. \A i : i = nextId => Waits(c, i)'
  BY <1>4 DEF Waits
<1>9. \A i : i = nextId => Live(i)'
  BY <1>3, <1>7, <1>8 DEF Live
<1>10. NothingLeftBehind'
  BY <1>3, <1>5 DEF KeepInv, NothingLeftBehind, Waits
<1>11. HubLive'
  BY <1>2, <1>6, <1>9 DEF KeepInv, HubLive
<1>12. ClientLive' /\ ClientOnce'
  BY <1>3, <1>6 DEF KeepInv, ClientLive, ClientOnce, IsResponse
<1>13. /\ \A k \in 1 .. Len(toHub) : toHub[k].id \in Nat /\ toHub[k].id < nextId
       /\ \A i \in Ids : i \in Nat
  BY <1>0, IdNumbers DEF HubIds
<1>14. HubOnce'
  BY <1>1, <1>2, <1>13 DEF KeepInv, HubOnce
<1>15. \A l \in 1 .. Len(toClient) : IsResponse(l) => toClient[l].id = 0 \/ toClient[l].id # nextId
  BY <1>0, <1>1 DEF KeepInv, ClientLive, Live, Waits, WaitingIds
<1>16. CrossOnce'
  BY <1>2, <1>3, <1>15 DEF KeepInv, CrossOnce, IsResponse
<1> QED
  BY <1>10, <1>11, <1>12, <1>14, <1>16 DEF KeepInv

LEMMA KeepReturn ==
    ASSUME TypeOK, KeepInv, NEW c \in Callers, Return(c)
    PROVE  KeepInv'
<1>1. toHub' = toHub /\ toClient' = toClient /\ req' = req
  BY DEF Return, netVars
<1>2. /\ pending[req[c]] # NoResult /\ req[c] \in Ids /\ pending'[req[c]] = NoResult
      /\ \A i \in Ids \ {req[c]} : pending'[i] = pending[i]
      /\ \A e \in Callers \ {c} : pc'[e] = pc[e]
  BY DEF Return, TypeOK
<1>3. \A e \in Callers : \A i : Waits(e, i) /\ i # req[c] => Waits(e, i)'
  BY <1>1, <1>2 DEF Waits
<1>4. \A i \in Ids : Live(i) => Live(i)'
  BY <1>2, <1>3 DEF Live
<1>5. /\ \A k \in 1 .. Len(toHub) : toHub[k].id \in Ids
      /\ \A k \in 1 .. Len(toClient) : IsResponse(k) => toClient[k].id \in Ids
  BY IdsUnderWay
<1>6. NothingLeftBehind'
  BY <1>1, <1>2, <1>3 DEF KeepInv, NothingLeftBehind, Waits
<1>7. HubLive' /\ ClientLive'
  BY <1>1, <1>4, <1>5 DEF KeepInv, HubLive, ClientLive, IsResponse
<1>8. HubOnce' /\ ClientOnce' /\ CrossOnce'
  BY <1>1 DEF KeepInv, HubOnce, ClientOnce, CrossOnce, IsResponse
<1> QED
  BY <1>6, <1>7, <1>8 DEF KeepInv

LEMMA KeepRead ==
    ASSUME TypeOK, KeepInv, Read
    PROVE  KeepInv'
<1> DEFINE h == Head(toClient)
<1>1. toClient \in Seq(Responses \cup {Event}) /\ toClient # <<>> /\ toClient' = Tail(toClient)
  BY DEF Read, TypeOK
<1>2. /\ h = toClient[1] /\ 1 \in 1 .. Len(toClient) /\ h \in Responses \cup {Event}
      /\ \A k \in 1 .. Len(toClient') :
           /\ k + 1 \in 1 .. Len(toClient) /\ toClient'[k] = toClient[k + 1]
           /\ k \in Nat /\ k >= 1
  BY <1>1, TailMember
<1>3. UNCHANGED <<toHub, pc, req>>
  BY DEF Read, callVars
<1>4. \A i \in Ids : \/ pending'[i] = pending[i]
                     \/ h.kind = "response" /\ i = h.id /\ pending'[i] = h.result
  <2>1. pending \in [Ids -> Results \cup {NoResult}]
    BY DEF TypeOK
  <2>2. CASE h.kind = "response"
    <3>1. pending' = [pending EXCEPT ![h.id] = h.result]
      BY <2>2 DEF Read
    <3> QED
      BY <2>1, <2>2, <3>1
  <2>3. CASE h.kind # "response"
    BY <2>3 DEF Read
  <2> QED
    BY <2>2, <2>3
<1>5. h.kind = "response" => Live(h.id)
  BY <1>2 DEF KeepInv, ClientLive, IsResponse
<1>6. \A i \in Ids : Live(i) /\ (h.kind = "response" => i # h.id \/ i = 0) => Live(i)'
  BY <1>3, <1>4 DEF Live, Waits
<1>7. /\ \A k \in 1 .. Len(toHub) : toHub[k].id \in Ids
      /\ \A k \in 1 .. Len(toClient) : IsResponse(k) => toClient[k].id \in Ids
  BY IdsUnderWay
<1>8. NothingLeftBehind'
  BY <1>3, <1>4, <1>5 DEF KeepInv, NothingLeftBehind, Live, Waits
<1>9. HubLive'
  <2>1. ASSUME NEW k \in 1 .. Len(toHub) PROVE \A i : i = toHub[k].id => Live(i)'
    <3>1. Live(toHub[k].id)
      BY DEF KeepInv, HubLive
    <3>2. h.kind = "response" => toHub[k].id # h.id \/ toHub[k].id = 0
      BY <1>2 DEF KeepInv, CrossOnce, IsResponse
    <3> QED
      BY <1>3, <1>6, <1>7, <3>1, <3>2
  <2> QED
    BY <1>3, <2>1 DEF HubLive
<1>10. ClientLive'
  <2>1. ASSUME NEW k \in 1 .. Len(toClient), k # 1, IsResponse(k)
        PROVE  \A i : i = toClient[k].id => Live(i)'
    <3>1. Live(toClient[k].id)
      BY <2>1 DEF KeepInv, ClientLive
    <3>2. h.kind = "response" => toClient[k].id # h.id \/ toClient[k].id = 0
      BY <1>2, <2>1 DEF KeepInv, ClientOnce, IsResponse
    <3>3. toClient[k].id \in Ids
      BY <1>7, <2>1
    <3> QED
      BY <1>6, <3>1, <3>2, <3>3
  <2>2. ASSUME NEW k \in 1 .. Len(toClient'), IsResponse(k)'
        PROVE  \A i : i = toClient'[k].id => Live(i)'
    <3>1. k + 1 \in 1 .. Len(toClient) /\ k + 1 # 1 /\ toClient'[k] = toClient[k + 1]
      BY <1>2
    <3> QED
      BY <2>1, <2>2, <3>1 DEF IsResponse
  <2> QED
    BY <2>2 DEF ClientLive
<1>11. HubOnce' /\ CrossOnce'
  BY <1>2, <1>3 DEF KeepInv, HubOnce, CrossOnce, IsResponse
<1>12. ClientOnce'
  <2>1. ASSUME NEW k \in 1 .. Len(toClient'), NEW l \in 1 .. Len(toClient'), k # l,
               IsResponse(k)', IsResponse(l)', toClient'[k].id = toClient'[l].id
        PROVE  toClient'[k].id = 0
    <3>1. /\ k + 1 \in 1 .. Len(toClient) /\ l + 1 \in 1 .. Len(toClient) /\ k + 1 # l + 1
          /\ toClient'[k] = toClient[k + 1] /\ toClient'[l] = toClient[l + 1]
      BY <1>2, <2>1
    <3>2. IsResponse(k + 1) /\ IsResponse(l + 1)
      BY <2>1, <3>1 DEF IsResponse
    <3> QED
      BY <2>1, <3>1, <3>2 DEF KeepInv, ClientOnce
  <2> QED
    BY <2>1 DEF ClientOnce
<1> QED
  BY <1>8, <1>9, <1>10, <1>11, <1>12 DEF KeepInv

LEMMA KeepReplies ==
    ASSUME TypeOK, KeepInv, HubReplies
    PROVE  KeepInv'
<1> DEFINE h == Head(toHub)
<1>1. toHub \in Seq(Requests) /\ toHub # <<>> /\ toHub' = Tail(toHub)
  BY DEF HubReplies, TypeOK
<1>2. /\ h = toHub[1] /\ 1 \in 1 .. Len(toHub) /\ h \in Requests
      /\ \A k \in 1 .. Len(toHub') :
           /\ k + 1 \in 1 .. Len(toHub) /\ toHub'[k] = toHub[k + 1]
           /\ k \in Nat /\ k >= 1
  BY <1>1, TailMember
<1>3. PICK r \in {Data(h.arg), RpcError} : toClient' = Append(toClient, Response(h.id, r))
  BY DEF HubReplies
<1>4. h.id \in Ids /\ h.arg \in Args /\ r \in Results \ {ConnectionError}
  BY <1>2, <1>3, DataForm, ErrorForm DEF Requests
<1>5. Response(h.id, r) \in Responses \cup {Event} /\ Response(h.id, r).id = h.id
  BY <1>4, ResponseForm
<1>6. \A k \in 1 .. Len(toClient') :
        \/ k \in 1 .. Len(toClient) /\ toClient'[k] = toClient[k]
        \/ k = Len(toClient) + 1 /\ toClient'[k].id = h.id
  BY <1>3, <1>5, AppendMember DEF TypeOK
<1>7. UNCHANGED <<pending, pc, req>>
  BY DEF HubReplies, clientVars, callVars
<1>8. \A i : Live(i) => Live(i)'
  BY <1>7 DEF Live, Waits
<1>9. NothingLeftBehind'
  BY <1>7 DEF KeepInv, NothingLeftBehind
<1>10. HubLive'
  BY <1>2, <1>8 DEF KeepInv, HubLive
<1>17. HubOnce'
  <2>1. ASSUME NEW k \in 1 .. Len(toHub'), NEW l \in 1 .. Len(toHub'), k # l
        PROVE  toHub'[k].id # toHub'[l].id
    <3>1. /\ k + 1 \in 1 .. Len(toHub) /\ l + 1 \in 1 .. Len(toHub) /\ k + 1 # l + 1
          /\ toHub'[k] = toHub[k + 1] /\ toHub'[l] = toHub[l + 1]
      BY <1>2, <2>1
    <3> QED
      BY <3>1 DEF KeepInv, HubOnce
  <2> QED
    BY <2>1 DEF HubOnce
<1>11. Live(h.id)
  BY <1>2 DEF KeepInv, HubLive
<1>12. ClientLive'
  BY <1>6, <1>8, <1>11 DEF KeepInv, ClientLive, IsResponse
<1>13. \A l \in 1 .. Len(toClient) : IsResponse(l) /\ toClient[l].id = h.id => h.id = 0
  BY <1>2 DEF KeepInv, CrossOnce
<1>14. ClientOnce'
  BY <1>6, <1>13 DEF KeepInv, ClientOnce, IsResponse
<1>15. \A k \in 1 .. Len(toHub') : toHub'[k].id # h.id
  BY <1>2 DEF KeepInv, HubOnce
<1>16. CrossOnce'
  BY <1>2, <1>6, <1>15 DEF KeepInv, CrossOnce, IsResponse
<1> QED
  BY <1>9, <1>10, <1>12, <1>14, <1>16, <1>17 DEF KeepInv

LEMMA KeepStep == MatchInv /\ KeepInv /\ [Next]_vars => KeepInv'
<1> SUFFICES ASSUME MatchInv, KeepInv, [Next]_vars PROVE KeepInv'
  OBVIOUS
<1>0. TypeOK
  BY DEF MatchInv
<1>1. ASSUME NEW c \in Callers, NEW a \in Args, Send(c, a) PROVE KeepInv'
  BY <1>1, KeepSend
<1>2. ASSUME NEW c \in Callers, SendFails(c) PROVE KeepInv'
  <2>1. /\ UNCHANGED <<toHub, toClient, pc, req>>
        /\ pending' = ErrorPending
    BY <1>2 DEF SendFails, netVars
  <2>2. \A i \in Ids : pending'[i] = NoResult <=> pending[i] = NoResult
    BY <2>1 DEF ErrorPending, ConnectionError, NoResult
  <2> QED
    BY <1>0, <2>1, <2>2, KeepSame
<1>3. ASSUME NEW c \in Callers, CallRefused(c) PROVE KeepInv'
  BY <1>0, <1>3, KeepSame DEF CallRefused, clientVars, netVars
<1>4. ASSUME NEW c \in Callers, Return(c) PROVE KeepInv'
  BY <1>0, <1>4, KeepReturn
<1>5. CASE Read
  BY <1>0, <1>5, KeepRead
<1>6. CASE ReadTears \/ ReadFails \/ ReaderStops \/ CloseBegins \/ CloseEnds \/ UNCHANGED vars
  <2>1. UNCHANGED <<pending, toHub, toClient, pc, req>>
    BY <1>6 DEF ReadTears, ReadFails, ReaderStops, CloseBegins, CloseEnds, vars, clientVars, callVars,
                netVars
  <2> QED
    BY <1>0, <2>1, KeepSame
<1>7. CASE MarkPending
  <2>1. /\ UNCHANGED <<toHub, toClient, pc, req>>
        /\ pending' = ErrorPending
    BY <1>7 DEF MarkPending, netVars, callVars
  <2>2. \A i \in Ids : pending'[i] = NoResult <=> pending[i] = NoResult
    BY <2>1 DEF ErrorPending, ConnectionError, NoResult
  <2> QED
    BY <1>0, <2>1, <2>2, KeepSame
<1>8. CASE HubReplies
  BY <1>0, <1>8, KeepReplies
<1>9. CASE HubPushes
  <2>1. UNCHANGED <<pending, toHub, pc, req>>
    BY <1>9 DEF HubPushes, clientVars, callVars
  <2>2. \A k \in 1 .. Len(toClient') :
          \/ k \in 1 .. Len(toClient) /\ toClient'[k] = toClient[k]
          \/ toClient'[k].kind # "response"
    BY <1>0, <1>9, AppendMember DEF HubPushes, TypeOK, Event
  <2> QED
    BY <2>1, <2>2, KeepLosing
<1>10. CASE HubRejects
  <2>1. UNCHANGED <<pending, pc, req>> /\ toHub' = <<>>
    BY <1>10 DEF HubRejects, clientVars, callVars
  <2>2. \/ Len(toClient') = 1 /\ toClient'[1].id = 0
        \/ Len(toClient') = 0
    BY <1>10 DEF HubRejects, Response
  <2> QED
    BY <2>1, <2>2, KeepLosing
<1>11. CASE LinkDies
  <2>1. UNCHANGED <<pending, pc, req>> /\ toHub' = <<>>
    BY <1>11 DEF LinkDies, clientVars, callVars
  <2>2. toClient' = toClient \/ Len(toClient') = 0
    BY <1>11 DEF LinkDies
  <2> QED
    BY <2>1, <2>2, KeepLosing
<1>12. QED
  BY <1>1, <1>2, <1>3, <1>4, <1>5, <1>6, <1>7, <1>8, <1>9, <1>10, <1>11
     DEF Next, Calling, ReaderStep

\* Whatever the order of responses, errors and calls, the table of results
\* holds nothing that no call waits for, but for id 0.
THEOREM NothingKept == Spec => []NothingLeftBehind
<1>1. Spec => [](MatchInv /\ KeepInv)
  BY MatchInit, MatchStep, KeepInit, KeepStep, PTL DEF Spec
<1> QED
  BY <1>1, PTL DEF KeepInv

-----------------------------------------------------------------------------
(* Nothing is forgotten.  A call that waits without a result has something *)
(* under way, as long as the connection is up, were it behind a torn frame. *)

UnderWay ==
    \A c \in Callers : link = "open" /\ pc[c] = "waiting" =>
        \/ pending[req[c]] # NoResult
        \/ \E k \in 1 .. Len(toHub) : toHub[k].id = req[c]
        \/ \E k \in 1 .. Len(toClient) : IsResponse(k) /\ toClient[k].id = req[c]

\* Ids of calls that wait differ, so that a return takes no other's result.
WaitingApart ==
    \A c, d \in Callers : pc[c] = "waiting" /\ pc[d] = "waiting" /\ req[c] = req[d] => c = d

ForgetInv == UnderWay /\ WaitingApart

LEMMA ForgetInit == Init => ForgetInv
BY DEF Init, ForgetInv, UnderWay, WaitingApart

LEMMA TailRest ==
    ASSUME NEW S, NEW s \in Seq(S), s # <<>>
    PROVE  \A k \in 1 .. Len(s) :
             s[k] = Head(s) \/ \E j \in 1 .. Len(Tail(s)) : Tail(s)[j] = s[k]
<1>1. Len(Tail(s)) = Len(s) - 1 /\ Len(s) \in Nat /\ Head(s) = s[1]
  OBVIOUS
<1>2. ASSUME NEW k \in 1 .. Len(s), k # 1
      PROVE  k - 1 \in 1 .. Len(Tail(s)) /\ Tail(s)[k - 1] = s[k]
  BY <1>1, <1>2, TailMember
<1>3. QED
  BY <1>1, <1>2

LEMMA AppendRest ==
    ASSUME NEW S, NEW s \in Seq(S), NEW m \in S
    PROVE  /\ \A k \in 1 .. Len(s) : k \in 1 .. Len(Append(s, m)) /\ Append(s, m)[k] = s[k]
           /\ \E k \in 1 .. Len(Append(s, m)) : Append(s, m)[k] = m
<1>1. Len(s) \in Nat /\ Len(Append(s, m)) = Len(s) + 1 /\ Append(s, m)[Len(s) + 1] = m
  OBVIOUS
<1>2. Len(s) + 1 \in 1 .. Len(Append(s, m))
  BY <1>1
<1>3. QED
  BY <1>1, <1>2

LEMMA ForgetStep == MatchInv /\ ForgetInv /\ [Next]_vars => ForgetInv'
<1> SUFFICES ASSUME TypeOK, WaitingIds, ForgetInv, [Next]_vars PROVE ForgetInv'
  BY DEF MatchInv, IdsInv
<1> USE DEF ForgetInv, UnderWay, IsResponse, WaitingApart, clientVars, callVars, netVars
<1>1. ASSUME NEW d \in Callers, NEW a \in Args, Send(d, a) PROVE ForgetInv'
  <2>1. /\ pc' = [pc EXCEPT ![d] = "waiting"] /\ req' = [req EXCEPT ![d] = nextId]
        /\ UNCHANGED <<pending, link, toClient>>
        /\ \A c \in Callers \ {d} : pc'[c] = pc[c] /\ req'[c] = req[c]
        /\ pc'[d] = "waiting" /\ req'[d] = nextId /\ nextId \in Nat
    BY <1>1, MaxCallsAssumption DEF Send, TypeOK, Ids
  <2>2. WaitingApart'
    <3>1. \A c \in Callers : pc[c] = "waiting" => req[c] # nextId
      BY <2>1 DEF WaitingIds, TypeOK, Ids
    <3>2. QED
      BY <2>1, <3>1
  <2>3. ASSUME link = "open"
        PROVE  /\ \A k \in 1 .. Len(toHub) : k \in 1 .. Len(toHub') /\ toHub'[k] = toHub[k]
               /\ \E k \in 1 .. Len(toHub') : toHub'[k].id = nextId
    <3>1. /\ toHub' = Append(toHub, [id |-> nextId, arg |-> a])
          /\ [id |-> nextId, arg |-> a] \in Requests
      BY <1>1, <2>3 DEF Send, TypeOK, Requests
    <3>2. toHub \in Seq(Requests) /\ [id |-> nextId, arg |-> a].id = nextId
      BY DEF TypeOK
    <3>3. QED
      BY <3>1, <3>2, AppendRest
  <2>4. ASSUME NEW c \in Callers, link = "open", pc'[c] = "waiting"
        PROVE  \/ pending'[req'[c]] # NoResult
               \/ \E k \in 1 .. Len(toHub') : toHub'[k].id = req'[c]
               \/ \E k \in 1 .. Len(toClient') :
                    toClient'[k].kind = "response" /\ toClient'[k].id = req'[c]
    <3>1. CASE c = d
      BY <2>1, <2>3, <2>4, <3>1
    <3>2. CASE c # d
      BY <2>1, <2>3, <2>4, <3>2
    <3>3. QED
      BY <3>1, <3>2
  <2>5. QED
    BY <2>1, <2>2, <2>4
<1>2. ASSUME NEW d \in Callers, SendFails(d) \/ CallRefused(d) PROVE ForgetInv'
  <2>1. /\ \A i \in Ids : pending[i] # NoResult => pending'[i] # NoResult
        /\ UNCHANGED <<toHub, toClient, pc, req, link>>
    BY <1>2 DEF SendFails, CallRefused, ErrorPending, NoResult, ConnectionError
  <2>2. \A c \in Callers : req[c] \in Ids
    BY DEF TypeOK
  <2>3. QED
    BY <2>1, <2>2
<1>3. ASSUME NEW d \in Callers, Return(d) PROVE ForgetInv'
  <2>1. /\ \A c \in Callers : pc'[c] = "waiting" => pc[c] = "waiting" /\ c # d
        /\ \A c \in Callers : pc[c] = "waiting" /\ c # d => pending'[req[c]] = pending[req[c]]
        /\ UNCHANGED <<req, link, toHub, toClient>>
    BY <1>3 DEF Return, TypeOK
  <2>2. QED
    BY <2>1
<1>4. CASE Read
  <2> DEFINE m == Head(toClient)
  <2>1. /\ toClient \in Seq(Responses \cup {Event}) /\ toClient # <<>> /\ toClient' = Tail(toClient)
        /\ UNCHANGED <<nextId, toHub, pc, req, link>>
        /\ pending' = IF m.kind = "response" THEN [pending EXCEPT ![m.id] = m.result] ELSE pending
    BY <1>4 DEF Read, TypeOK
  <2>2. m \in Responses \cup {Event}
    BY <2>1, TailMember
  <2>3. m.kind = "response" => m.id \in Ids /\ m.result # NoResult
    BY <2>2 DEF Responses, Response, Results, Data, RpcError, ConnectionError, NoResult, Event
  <2>4. ASSUME NEW i \in Ids
        PROVE  /\ pending[i] # NoResult => pending'[i] # NoResult
               /\ m.kind = "response" /\ m.id = i => pending'[i] # NoResult
    BY <2>1, <2>3 DEF TypeOK
  <2>5. \A k \in 1 .. Len(toClient) :
          toClient[k] = m \/ \E j \in 1 .. Len(toClient') : toClient'[j] = toClient[k]
    BY <2>1, TailRest
  <2> HIDE DEF m
  <2>6. ASSUME NEW c \in Callers, link = "open", pc[c] = "waiting"
        PROVE  \/ pending'[req[c]] # NoResult
               \/ \E k \in 1 .. Len(toHub) : toHub[k].id = req[c]
               \/ \E k \in 1 .. Len(toClient') :
                    toClient'[k].kind = "response" /\ toClient'[k].id = req[c]
    <3>1. req[c] \in Ids
      BY DEF TypeOK
    <3>2. QED
      BY <2>4, <2>5, <2>6, <3>1
  <2>7. QED
    BY <2>1, <2>6
<1>5. CASE ReadTears \/ ReadFails \/ ReaderStops \/ CloseBegins \/ UNCHANGED vars
  BY <1>5 DEF ReadTears, ReadFails, ReaderStops, CloseBegins, vars
<1>6. CASE MarkPending
  <2>1. /\ \A i \in Ids : pending[i] # NoResult => pending'[i] # NoResult
        /\ UNCHANGED <<toHub, toClient, pc, req, link>>
    BY <1>6 DEF MarkPending, ErrorPending, NoResult, ConnectionError
  <2>2. \A c \in Callers : req[c] \in Ids
    BY DEF TypeOK
  <2>3. QED
    BY <2>1, <2>2
<1>7. CASE CloseEnds \/ HubRejects \/ LinkDies
  BY <1>7 DEF CloseEnds, HubRejects, LinkDies
<1>8. CASE HubReplies
  <2> DEFINE h == Head(toHub)
  <2>1. toHub \in Seq(Requests) /\ toHub # <<>> /\ toHub' = Tail(toHub)
    BY <1>8 DEF HubReplies, TypeOK
  <2>2. h \in Requests /\ \A k \in 1 .. Len(toHub) :
          toHub[k] = h \/ \E j \in 1 .. Len(toHub') : toHub'[j] = toHub[k]
    BY <2>1, TailMember, TailRest
  <2>3. PICK r \in {Data(h.arg), RpcError} : toClient' = Append(toClient, Response(h.id, r))
    BY <1>8 DEF HubReplies
  <2>4. /\ Response(h.id, r) \in Responses \cup {Event}
        /\ Response(h.id, r).kind = "response" /\ Response(h.id, r).id = h.id
    BY <2>2, <2>3, DataForm, ErrorForm, ResponseForm DEF Requests
  <2>5. /\ \A k \in 1 .. Len(toClient) : k \in 1 .. Len(toClient') /\ toClient'[k] = toClient[k]
        /\ \E k \in 1 .. Len(toClient') :
             toClient'[k].kind = "response" /\ toClient'[k].id = h.id
    <3> DEFINE m == Response(h.id, r)
    <3>1. toClient \in Seq(Responses \cup {Event}) /\ m \in Responses \cup {Event}
      BY <2>4 DEF TypeOK
    <3>2. toClient' = Append(toClient, m) /\ m.kind = "response" /\ m.id = h.id
      BY <2>3, <2>4, Zenon
    <3> HIDE DEF m
    <3>3. /\ \A k \in 1 .. Len(toClient) :
               k \in 1 .. Len(Append(toClient, m)) /\ Append(toClient, m)[k] = toClient[k]
          /\ \E k \in 1 .. Len(Append(toClient, m)) : Append(toClient, m)[k] = m
      BY <3>1, AppendRest
    <3>4. QED
      BY <3>2, <3>3, Zenon
  <2>6. UNCHANGED <<pending, pc, req, link>>
    BY <1>8 DEF HubReplies
  <2> HIDE DEF h
  <2>7. ASSUME NEW c \in Callers, link = "open", pc[c] = "waiting"
        PROVE  \/ pending[req[c]] # NoResult
               \/ \E k \in 1 .. Len(toHub') : toHub'[k].id = req[c]
               \/ \E k \in 1 .. Len(toClient') :
                    toClient'[k].kind = "response" /\ toClient'[k].id = req[c]
    <3>1. CASE pending[req[c]] # NoResult
      BY <3>1
    <3>2. CASE \E k \in 1 .. Len(toHub) : toHub[k].id = req[c]
      <4>1. PICK k \in 1 .. Len(toHub) : toHub[k].id = req[c]
        BY <3>2
      <4>2. CASE toHub[k] = h
        BY <2>5, <4>1, <4>2
      <4>3. CASE \E j \in 1 .. Len(toHub') : toHub'[j] = toHub[k]
        BY <4>1, <4>3
      <4>4. QED
        BY <2>2, <4>2, <4>3
    <3>3. CASE \E k \in 1 .. Len(toClient) :
                 toClient[k].kind = "response" /\ toClient[k].id = req[c]
      BY <2>5, <3>3
    <3>4. QED
      BY <2>7, <3>1, <3>2, <3>3
  <2>8. QED
    BY <2>6, <2>7
<1>9. CASE HubPushes
  <2>1. \A k \in 1 .. Len(toClient) : k \in 1 .. Len(toClient') /\ toClient'[k] = toClient[k]
    BY <1>9, AppendRest DEF HubPushes, TypeOK
  <2>2. UNCHANGED <<pending, pc, req, link, toHub>>
    BY <1>9 DEF HubPushes
  <2>3. QED
    BY <2>1, <2>2
<1>10. QED
  BY <1>1, <1>2, <1>3, <1>4, <1>5, <1>6, <1>7, <1>8, <1>9 DEF Next, Calling, ReaderStep

\* A call that waits while the reader reads a connection that is up has a result,
\* or a request or a response of its own under way: what liveness needs fairness
\* only to move on.
THEOREM NothingIsForgotten == Spec => []NothingForgotten
<1>1. ForgetInv => NothingForgotten
  BY DEF ForgetInv, UnderWay, NothingForgotten, IsResponse
<1>2. QED
  BY <1>1, MatchHolds, ForgetInit, ForgetStep, PTL DEF Spec

-----------------------------------------------------------------------------
(* The calls that never return.                                            *)

\* A call waits without a result, and the reader has stopped, or will find
\* nothing more on a connection that has died.
Lost(c) ==
    /\ pc[c] = "waiting" /\ pending[req[c]] = NoResult
    /\ reader # "recv" \/ (link = "down" /\ toClient = <<>>)

LEMMA LostStep == ASSUME NEW c \in Callers PROVE TypeOK /\ Lost(c) /\ [Next]_vars => Lost(c)'
<1> SUFFICES ASSUME TypeOK, Lost(c), [Next]_vars PROVE Lost(c)'
  OBVIOUS
<1> USE DEF Lost, clientVars, callVars, netVars
<1>1. req[c] \in Ids
  BY DEF TypeOK
<1>2. ASSUME NEW d \in Callers, NEW a \in Args, Send(d, a) PROVE Lost(c)'
  BY <1>2 DEF Send, CanCall, TypeOK
<1>3. ASSUME NEW d \in Callers, SendFails(d) PROVE Lost(c)'
  BY <1>1, <1>3 DEF SendFails, CanCall, ErrorPending
<1>4. ASSUME NEW d \in Callers, CallRefused(d) PROVE Lost(c)'
  BY <1>4 DEF CallRefused
<1>5. ASSUME NEW d \in Callers, Return(d) PROVE Lost(c)'
  BY <1>1, <1>5 DEF Return, TypeOK
<1>6. CASE Read \/ ReadTears \/ ReadFails \/ ReaderStops
  BY <1>6 DEF Read, ReadTears, ReadFails, ReaderStops
<1>7. CASE MarkPending
  BY <1>1, <1>7 DEF MarkPending, ErrorPending
<1>8. CASE CloseBegins \/ CloseEnds
  BY <1>8 DEF CloseBegins, CloseEnds
<1>9. CASE HubReplies \/ HubPushes \/ HubRejects \/ LinkDies
  BY <1>9 DEF HubReplies, HubPushes, HubRejects, LinkDies
<1>10. CASE UNCHANGED vars
  BY <1>10 DEF vars
<1>11. QED
  BY <1>2, <1>3, <1>4, <1>5, <1>6, <1>7, <1>8, <1>9, <1>10 DEF Next, Calling, ReaderStep

\* _record_error stores an error for the ids in _pending, where that of a call
\* that waits is not: once the connection has died with no response under way,
\* or the reader has stopped, a call without a result waits for ever, whatever
\* is scheduled and whoever calls or closes.
THEOREM LostForGood ==
    ASSUME NEW c \in Callers PROVE Spec => [](Lost(c) => [](pc[c] = "waiting"))
<1>1. TypeOK /\ Lost(c) /\ [Next]_vars => Lost(c)'
  BY LostStep
<1>2. Lost(c) => pc[c] = "waiting"
  BY DEF Lost
<1>3. QED
  BY <1>1, <1>2, RpcTypeCorrect, PTL DEF Spec

-----------------------------------------------------------------------------
(* The client implements RemoteCalls.  No id, 0 included, is in two places *)
(* at once: under way to the hub, under way back, or stored.               *)

HubOwned == \A k \in 1 .. Len(toHub) : \E c \in Callers : Waits(c, toHub[k].id)

HubAlone ==
    \A k \in 1 .. Len(toHub) :
        /\ pending[toHub[k].id] = NoResult
        /\ \A l \in 1 .. Len(toClient) : IsResponse(l) => toClient[l].id # toHub[k].id

ReplyAlone ==
    \A k \in 1 .. Len(toClient) : IsResponse(k) =>
        /\ pending[toClient[k].id] = NoResult
        /\ \A l \in 1 .. Len(toClient) :
              l # k /\ IsResponse(l) => toClient[l].id # toClient[k].id

\* The hub takes the requests in the order of their ids.
InOrder == \A k, l \in 1 .. Len(toHub) : k < l => toHub[k].id < toHub[l].id

\* A hub that has not taken the controller on has had no request, and has sent
\* nothing on an open connection.
FirstInv ==
    /\ nextId = 0 => ~admitted
    /\ link = "open" /\ ~admitted => toClient = <<>> /\ \A i \in Ids : pending[i] = NoResult

EndInv == (reader = "failing" => error) /\ (~connected => link # "open")

OnceInv == HubOwned /\ HubAlone /\ ReplyAlone /\ InOrder /\ FirstInv /\ EndInv

LEMMA OnceInit == Init => OnceInv
<1> SUFFICES ASSUME Init PROVE OnceInv
  OBVIOUS
<1>1. Len(toHub) = 0 /\ Len(toClient) = 0
  BY DEF Init
<1>2. FirstInv /\ EndInv
  BY DEF Init, FirstInv, EndInv
<1> QED
  BY <1>1, <1>2 DEF OnceInv, HubOwned, HubAlone, ReplyAlone, InOrder

\* A step that keeps who waits, which ids have a result and what is under way,
\* and does not open the connection, keeps OnceInv.
LEMMA OnceSame ==
    ASSUME TypeOK, OnceInv, UNCHANGED <<toHub, toClient, pc, req, admitted>>,
           \A i \in Ids : pending'[i] = NoResult <=> pending[i] = NoResult,
           link' = "open" => link = "open",
           nextId' = 0 => nextId = 0,
           EndInv'
    PROVE  OnceInv'
<1>1. /\ \A k \in 1 .. Len(toHub) : toHub[k].id \in Ids
      /\ \A k \in 1 .. Len(toClient) : IsResponse(k) => toClient[k].id \in Ids
  BY IdsUnderWay
<1>3. HubOwned' /\ InOrder'
  BY DEF OnceInv, HubOwned, InOrder, Waits
<1>4. HubAlone'
  BY <1>1 DEF OnceInv, HubAlone, IsResponse
<1>5. ReplyAlone'
  BY <1>1 DEF OnceInv, ReplyAlone, IsResponse
<1>6. FirstInv'
  BY DEF OnceInv, FirstInv
<1> QED
  BY <1>3, <1>4, <1>5, <1>6, Zenon DEF OnceInv

LEMMA OnceSend ==
    ASSUME MatchInv, KeepInv, OnceInv, NEW c \in Callers, NEW a \in Args, Send(c, a)
    PROVE  OnceInv'
<1> DEFINE m == [id |-> nextId, arg |-> a]
<1>0. TypeOK /\ WaitingIds /\ HubIds
  BY DEF MatchInv, IdsInv
<1>1. /\ pc[c] = "idle" /\ nextId \in Nat /\ nextId \in Ids /\ nextId' = nextId + 1
      /\ pc' = [pc EXCEPT ![c] = "waiting"] /\ req' = [req EXCEPT ![c] = nextId]
      /\ toHub' = IF link = "open" THEN Append(toHub, m) ELSE toHub
      /\ UNCHANGED <<pending, error, connected, reader, link, admitted, toClient>>
  BY <1>0 DEF Send, CanCall, TypeOK, Ids
<1>8. FirstInv' /\ EndInv'
  BY <1>1 DEF OnceInv, FirstInv, EndInv
<1>2. \A e \in Callers : pc[e] = "waiting" => e # c /\ pc'[e] = "waiting" /\ req'[e] = req[e]
  BY <1>0, <1>1 DEF TypeOK
<1>3. pc'[c] = "waiting" /\ req'[c] = nextId
  BY <1>0, <1>1 DEF TypeOK
<1>4. ASSUME NEW i, NEW e \in Callers, Waits(e, i) PROVE pc'[e] = "waiting" /\ req'[e] = i
  BY <1>2, <1>4 DEF Waits
<1>5. ~\E e \in Callers : Waits(e, nextId)
  BY <1>0, <1>1 DEF WaitingIds, Waits
<1>6. CASE link = "open"
  <2>1. /\ toHub \in Seq(Requests) /\ m \in Requests /\ m.id = nextId
        /\ toHub' = Append(toHub, m)
    BY <1>0, <1>1, <1>6 DEF TypeOK, Requests
  <2>0. nextId' = nextId + 1 /\ nextId \in Nat
    BY <1>1
  <2> HIDE DEF m
  <2>2. /\ \A k \in 1 .. Len(toHub') : \/ k \in 1 .. Len(toHub) /\ toHub'[k] = toHub[k]
                                       \/ k = Len(toHub) + 1 /\ toHub'[k] = m
        /\ Len(toHub') = Len(toHub) + 1 /\ Len(toHub) \in Nat
    BY <2>1, AppendMember
  <2>3. pending[nextId] = NoResult
    BY <1>1, <1>5, <1>6 DEF KeepInv, NothingLeftBehind, OnceInv, FirstInv, Waits
  <2>4. \A l \in 1 .. Len(toClient) : IsResponse(l) => toClient[l].id # nextId
    BY <1>1, <1>5, <1>6 DEF KeepInv, ClientLive, Live, OnceInv, FirstInv
  <2>5. HubOwned'
    <3>1. ASSUME NEW k \in 1 .. Len(toHub')
          PROVE  \E e \in Callers : pc'[e] = "waiting" /\ req'[e] = toHub'[k].id
      <4>1. CASE k \in 1 .. Len(toHub) /\ toHub'[k] = toHub[k]
        BY <1>4, <4>1 DEF OnceInv, HubOwned
      <4>2. CASE toHub'[k] = m
        BY <1>3, <2>1, <4>2
      <4> QED
        BY <2>2, <4>1, <4>2
    <3> QED
      BY <3>1 DEF HubOwned, Waits
  <2>6. HubAlone'
    <3>1. ASSUME NEW k \in 1 .. Len(toHub')
          PROVE  /\ pending[toHub'[k].id] = NoResult
                 /\ \A l \in 1 .. Len(toClient) : IsResponse(l) => toClient[l].id # toHub'[k].id
      <4>1. CASE k \in 1 .. Len(toHub) /\ toHub'[k] = toHub[k]
        BY <4>1 DEF OnceInv, HubAlone
      <4>2. CASE toHub'[k] = m
        BY <2>1, <2>3, <2>4, <4>2
      <4> QED
        BY <2>2, <4>1, <4>2
    <3> QED
      BY <1>1, <3>1 DEF HubAlone, IsResponse
  <2>7. ReplyAlone'
    BY <1>1 DEF OnceInv, ReplyAlone, IsResponse
  <2>8. InOrder'
    <3>1. \A k \in 1 .. Len(toHub) : toHub[k].id < nextId
      BY <1>0 DEF HubIds
    <3>2. \A k, l \in 1 .. Len(toHub') : k < l =>
            k \in 1 .. Len(toHub) /\ toHub'[k] = toHub[k] /\ k # Len(toHub) + 1
      BY <2>2
    <3> QED
      BY <2>1, <2>2, <3>1, <3>2 DEF OnceInv, InOrder
  <2> QED
    BY <1>8, <2>5, <2>6, <2>7, <2>8, Zenon DEF OnceInv
<1>7. CASE link # "open"
  <2>1. UNCHANGED toHub
    BY <1>1, <1>7
  <2>2. HubOwned'
    BY <1>4, <2>1 DEF OnceInv, HubOwned, Waits
  <2>3. HubAlone' /\ ReplyAlone'
    BY <1>1, <2>1 DEF OnceInv, HubAlone, ReplyAlone, IsResponse
  <2>4. InOrder'
    BY <2>1 DEF OnceInv, InOrder
  <2> QED
    BY <1>8, <2>2, <2>3, <2>4, Zenon DEF OnceInv
<1> QED
  BY <1>6, <1>7

LEMMA OnceReturn ==
    ASSUME TypeOK, OnceInv, NEW c \in Callers, Return(c)
    PROVE  OnceInv'
<1>1. /\ pc[c] = "waiting" /\ pending[req[c]] # NoResult /\ req[c] \in Ids
      /\ pc' = [pc EXCEPT ![c] = "idle"] /\ pending' = [pending EXCEPT ![req[c]] = NoResult]
      /\ UNCHANGED <<nextId, error, connected, reader, req, link, admitted, toHub, toClient>>
  BY DEF Return, TypeOK, netVars
<1>2. \A i \in Ids : pending[i] = NoResult => pending'[i] = NoResult
  BY <1>1 DEF TypeOK
<1>3. /\ \A k \in 1 .. Len(toHub) : toHub[k].id \in Ids
      /\ \A k \in 1 .. Len(toClient) : IsResponse(k) => toClient[k].id \in Ids
  BY IdsUnderWay
<1>4. HubOwned'
  <2>1. ASSUME NEW k \in 1 .. Len(toHub)
        PROVE  \E e \in Callers : pc'[e] = "waiting" /\ req'[e] = toHub[k].id
    <3>1. PICK e \in Callers : Waits(e, toHub[k].id)
      BY DEF OnceInv, HubOwned
    <3>2. pending[toHub[k].id] = NoResult
      BY DEF OnceInv, HubAlone
    <3>3. e # c
      BY <1>1, <3>1, <3>2 DEF Waits
    <3>4. pc'[e] = "waiting" /\ req'[e] = toHub[k].id
      BY <1>1, <3>1, <3>3 DEF Waits, TypeOK
    <3> QED
      BY <3>4
  <2> QED
    BY <1>1, <2>1 DEF HubOwned, Waits
<1>5. HubAlone'
  BY <1>1, <1>2, <1>3 DEF OnceInv, HubAlone, IsResponse
<1>6. ReplyAlone'
  BY <1>1, <1>2, <1>3 DEF OnceInv, ReplyAlone, IsResponse
<1>7. InOrder' /\ EndInv'
  BY <1>1 DEF OnceInv, InOrder, EndInv
<1>8. FirstInv'
  BY <1>1, <1>2 DEF OnceInv, FirstInv
<1> QED
  BY <1>4, <1>5, <1>6, <1>7, <1>8, Zenon DEF OnceInv

LEMMA OnceRead == ASSUME TypeOK, OnceInv, Read PROVE OnceInv'
<1> DEFINE m == Head(toClient)
<1>1. /\ toClient \in Seq(Responses \cup {Event}) /\ toClient # <<>> /\ toClient' = Tail(toClient)
      /\ pending' = IF m.kind = "response" THEN [pending EXCEPT ![m.id] = m.result] ELSE pending
      /\ UNCHANGED <<nextId, error, connected, pc, req, link, admitted, toHub>>
      /\ reader' # "failing"
  BY DEF Read, TypeOK, callVars, ReaderTop
<1>2. /\ m = toClient[1] /\ 1 \in 1 .. Len(toClient)
      /\ \A k \in 1 .. Len(toClient') : k + 1 \in 1 .. Len(toClient) /\ toClient'[k] = toClient[k + 1]
  BY <1>1, TailMember
<1> HIDE DEF m
<1>3. /\ \A k \in 1 .. Len(toHub) : toHub[k].id \in Ids
      /\ \A k \in 1 .. Len(toClient) : IsResponse(k) => toClient[k].id \in Ids
  BY IdsUnderWay
<1>4. \A i \in Ids : (m.kind = "response" => i # m.id) => pending'[i] = pending[i]
  BY <1>1 DEF TypeOK
<1>5. HubOwned'
  BY <1>1 DEF OnceInv, HubOwned, Waits
<1>6. HubAlone'
  <2>1. ASSUME NEW k \in 1 .. Len(toHub)
        PROVE  /\ pending'[toHub[k].id] = NoResult
               /\ \A l \in 1 .. Len(toClient') : IsResponse(l)' => toClient'[l].id # toHub[k].id
    <3>1. /\ pending[toHub[k].id] = NoResult
          /\ \A l \in 1 .. Len(toClient) : IsResponse(l) => toClient[l].id # toHub[k].id
      BY DEF OnceInv, HubAlone
    <3>2. m.kind = "response" => toHub[k].id # m.id
      BY <1>2, <3>1 DEF IsResponse
    <3> QED
      BY <1>2, <1>3, <1>4, <3>1, <3>2 DEF IsResponse
  <2> QED
    BY <1>1, <2>1 DEF HubAlone
<1>7. ReplyAlone'
  <2>1. ASSUME NEW k \in 1 .. Len(toClient'), IsResponse(k)'
        PROVE  /\ pending'[toClient'[k].id] = NoResult
               /\ \A l \in 1 .. Len(toClient') :
                     l # k /\ IsResponse(l)' => toClient'[l].id # toClient'[k].id
    <3>1. /\ k + 1 \in 1 .. Len(toClient) /\ toClient'[k] = toClient[k + 1] /\ IsResponse(k + 1)
          /\ k + 1 # 1
      BY <1>2, <2>1 DEF IsResponse
    <3>2. /\ pending[toClient[k + 1].id] = NoResult
          /\ \A l \in 1 .. Len(toClient) :
                l # k + 1 /\ IsResponse(l) => toClient[l].id # toClient[k + 1].id
      BY <3>1 DEF OnceInv, ReplyAlone
    <3>3. m.kind = "response" => toClient[k + 1].id # m.id
      BY <1>2, <3>1, <3>2 DEF IsResponse
    <3>4. pending'[toClient'[k].id] = NoResult
      BY <1>3, <1>4, <3>1, <3>2, <3>3
    <3>5. ASSUME NEW l \in 1 .. Len(toClient'), l # k, IsResponse(l)'
          PROVE  toClient'[l].id # toClient'[k].id
      <4>1. /\ l + 1 \in 1 .. Len(toClient) /\ toClient'[l] = toClient[l + 1]
            /\ IsResponse(l + 1) /\ l + 1 # k + 1
        BY <1>2, <3>5 DEF IsResponse
      <4> QED
        BY <3>1, <3>2, <4>1
    <3> QED
      BY <3>4, <3>5
  <2> QED
    BY <2>1 DEF ReplyAlone
<1>8. InOrder' /\ EndInv'
  BY <1>1 DEF OnceInv, InOrder, EndInv
<1>9. FirstInv'
  BY <1>1 DEF OnceInv, FirstInv
<1> QED
  BY <1>5, <1>6, <1>7, <1>8, <1>9, Zenon DEF OnceInv

LEMMA OnceReplies == ASSUME MatchInv, KeepInv, OnceInv, HubReplies PROVE OnceInv'
<1> DEFINE h == Head(toHub)
<1>0. TypeOK /\ HubIds
  BY DEF MatchInv, IdsInv
<1>1. PICK r \in {Data(h.arg), RpcError} : toClient' = Append(toClient, Response(h.id, r))
  BY DEF HubReplies
<1>2. /\ toHub \in Seq(Requests) /\ toHub # <<>> /\ toHub' = Tail(toHub) /\ admitted' = TRUE
      /\ UNCHANGED <<pending, nextId, error, connected, pc, req, link, reader>>
  BY <1>0 DEF HubReplies, TypeOK, clientVars, callVars
<1>3. /\ h = toHub[1] /\ 1 \in 1 .. Len(toHub) /\ h \in Requests
      /\ \A k \in 1 .. Len(toHub') : k + 1 \in 1 .. Len(toHub) /\ toHub'[k] = toHub[k + 1]
  BY <1>2, TailMember
<1>4. Len(toHub') = Len(toHub) - 1 /\ Len(toHub) \in Nat
  BY <1>2
<1> HIDE DEF h
<1> DEFINE m == Response(h.id, r)
<1>5. /\ h.id \in Ids /\ m \in Responses \cup {Event} /\ m.kind = "response" /\ m.id = h.id
  BY <1>3, DataForm, ErrorForm, ResponseForm DEF Requests
<1> HIDE DEF m
<1>6. /\ \A k \in 1 .. Len(toClient') : \/ k \in 1 .. Len(toClient) /\ toClient'[k] = toClient[k]
                                        \/ k = Len(toClient) + 1 /\ toClient'[k] = m
  BY <1>0, <1>1, <1>5, AppendMember DEF TypeOK, m
<1>7. \A k \in 1 .. Len(toHub') : toHub'[k].id # h.id
  BY <1>3 DEF KeepInv, HubOnce
<1>8. pending[h.id] = NoResult /\ \A l \in 1 .. Len(toClient) : IsResponse(l) => toClient[l].id # h.id
  BY <1>3 DEF OnceInv, HubAlone
<1>9. HubOwned'
  BY <1>2, <1>3 DEF OnceInv, HubOwned, Waits
<1>10. HubAlone'
  <2>1. ASSUME NEW k \in 1 .. Len(toHub')
        PROVE  /\ pending[toHub'[k].id] = NoResult
               /\ \A l \in 1 .. Len(toClient') : IsResponse(l)' => toClient'[l].id # toHub'[k].id
    <3>1. /\ pending[toHub'[k].id] = NoResult
          /\ \A l \in 1 .. Len(toClient) : IsResponse(l) => toClient[l].id # toHub'[k].id
      BY <1>3 DEF OnceInv, HubAlone
    <3>2. ASSUME NEW l \in 1 .. Len(toClient'), IsResponse(l)' PROVE toClient'[l].id # toHub'[k].id
      BY <1>5, <1>6, <1>7, <3>1, <3>2 DEF IsResponse
    <3> QED
      BY <3>1, <3>2
  <2> QED
    BY <1>2, <2>1 DEF HubAlone
<1>11. ReplyAlone'
  <2>1. ASSUME NEW k \in 1 .. Len(toClient'), IsResponse(k)'
        PROVE  /\ pending[toClient'[k].id] = NoResult
               /\ \A l \in 1 .. Len(toClient') :
                     l # k /\ IsResponse(l)' => toClient'[l].id # toClient'[k].id
    <3>1. CASE k \in 1 .. Len(toClient) /\ toClient'[k] = toClient[k]
      <4>1. /\ pending[toClient[k].id] = NoResult /\ toClient[k].id # h.id
            /\ \A l \in 1 .. Len(toClient) : l # k /\ IsResponse(l) => toClient[l].id # toClient[k].id
        BY <1>8, <2>1, <3>1 DEF OnceInv, ReplyAlone, IsResponse
      <4> QED
        BY <1>5, <1>6, <3>1, <4>1 DEF IsResponse
    <3>2. CASE k = Len(toClient) + 1 /\ toClient'[k] = m
      BY <1>5, <1>6, <1>8, <3>2 DEF IsResponse
    <3> QED
      BY <1>6, <3>1, <3>2
  <2> QED
    BY <1>2, <2>1 DEF ReplyAlone
<1>12. InOrder'
  <2>1. ASSUME NEW k \in 1 .. Len(toHub'), NEW l \in 1 .. Len(toHub'), k < l
        PROVE  toHub'[k].id < toHub'[l].id
    <3>1. /\ k + 1 \in 1 .. Len(toHub) /\ l + 1 \in 1 .. Len(toHub) /\ k + 1 < l + 1
          /\ toHub'[k] = toHub[k + 1] /\ toHub'[l] = toHub[l + 1]
      BY <1>3, <2>1
    <3> QED
      BY <3>1 DEF OnceInv, InOrder
  <2> QED
    BY <2>1 DEF InOrder
<1>13. FirstInv'
  <2>1. h.id < nextId /\ nextId \in Nat /\ h.id \in Nat
    BY <1>0, <1>3, <1>5, MaxCallsAssumption DEF HubIds, TypeOK, Ids
  <2> QED
    BY <1>2, <2>1 DEF FirstInv
<1>14. EndInv'
  BY <1>2 DEF OnceInv, EndInv
<1> QED
  BY <1>9, <1>10, <1>11, <1>12, <1>13, <1>14, Zenon DEF OnceInv

\* The refusal of a busy hub comes before the response to any request.
LEMMA Unanswered == ASSUME OnceInv, HubRejects PROVE pending[0] = NoResult
BY MaxCallsAssumption DEF OnceInv, FirstInv, HubRejects, Ids

LEMMA OnceStep == MatchInv /\ KeepInv /\ OnceInv /\ [Next]_vars => OnceInv'
<1> SUFFICES ASSUME MatchInv, KeepInv, OnceInv, [Next]_vars PROVE OnceInv'
  OBVIOUS
<1>0. TypeOK
  BY DEF MatchInv
<1>1. ASSUME NEW c \in Callers, NEW a \in Args, Send(c, a) PROVE OnceInv'
  BY <1>1, OnceSend
<1>2. ASSUME NEW c \in Callers, SendFails(c) PROVE OnceInv'
  <2>1. /\ UNCHANGED <<toHub, toClient, pc, req, link, admitted, reader, connected>>
        /\ pending' = ErrorPending /\ nextId' = nextId + 1 /\ nextId \in Nat /\ error' = TRUE
    BY <1>0, <1>2, MaxCallsAssumption DEF SendFails, netVars, TypeOK, Ids
  <2>2. \A i \in Ids : pending'[i] = NoResult <=> pending[i] = NoResult
    BY <2>1 DEF ErrorPending, ConnectionError, NoResult
  <2>3. EndInv' /\ nextId' # 0
    BY <2>1 DEF OnceInv, EndInv
  <2> QED
    BY <1>0, <2>1, <2>2, <2>3, OnceSame
<1>3. ASSUME NEW c \in Callers, CallRefused(c) PROVE OnceInv'
  <2>1. UNCHANGED <<clientVars, toHub, toClient, pc, req, link, admitted, reader>>
    BY <1>3 DEF CallRefused, netVars
  <2>2. EndInv'
    BY <2>1 DEF OnceInv, EndInv, clientVars
  <2> QED
    BY <1>0, <2>1, <2>2, OnceSame DEF clientVars
<1>4. ASSUME NEW c \in Callers, Return(c) PROVE OnceInv'
  BY <1>0, <1>4, OnceReturn
<1>5. CASE Read
  BY <1>0, <1>5, OnceRead
<1>6. CASE ReadTears \/ ReadFails \/ ReaderStops \/ CloseBegins \/ CloseEnds \/ UNCHANGED vars
  <2>1. /\ UNCHANGED <<pending, toHub, toClient, pc, req, admitted, nextId>>
        /\ link' = link \/ link' = "down"
    BY <1>6 DEF ReadTears, ReadFails, ReaderStops, CloseBegins, CloseEnds, vars, clientVars,
                callVars, netVars
  <2>2. EndInv'
    BY <1>6 DEF ReadTears, ReadFails, ReaderStops, CloseBegins, CloseEnds, vars, clientVars,
                netVars, OnceInv, EndInv
  <2> QED
    BY <1>0, <2>1, <2>2, OnceSame
<1>7. CASE MarkPending
  <2>1. /\ UNCHANGED <<toHub, toClient, pc, req, link, admitted, nextId, connected>>
        /\ pending' = ErrorPending /\ reader' = "done"
    BY <1>7 DEF MarkPending, netVars, callVars
  <2>2. \A i \in Ids : pending'[i] = NoResult <=> pending[i] = NoResult
    BY <2>1 DEF ErrorPending, ConnectionError, NoResult
  <2>3. EndInv'
    BY <2>1 DEF OnceInv, EndInv
  <2> QED
    BY <1>0, <2>1, <2>2, <2>3, OnceSame
<1>8. CASE HubReplies
  BY <1>8, OnceReplies
<1>9. CASE HubPushes
  <2>1. /\ UNCHANGED <<pending, toHub, pc, req, link, nextId, error, connected, reader>>
        /\ toClient' = Append(toClient, Event) /\ admitted' = TRUE
        /\ admitted \/ toHub # <<>>
    BY <1>9 DEF HubPushes, clientVars, callVars
  <2>2. \A k \in 1 .. Len(toClient') :
          IsResponse(k)' => k \in 1 .. Len(toClient) /\ toClient'[k] = toClient[k] /\ IsResponse(k)
    BY <1>0, <2>1, AppendMember DEF TypeOK, Event, IsResponse
  <2>3. HubOwned' /\ HubAlone'
    BY <2>1, <2>2 DEF OnceInv, HubOwned, HubAlone, Waits
  <2>4. ReplyAlone'
    BY <2>1, <2>2 DEF OnceInv, ReplyAlone
  <2>5. nextId # 0
    <3>1. CASE toHub # <<>>
      <4>1. 1 \in 1 .. Len(toHub)
        BY <1>0, <3>1 DEF TypeOK
      <4>2. toHub[1].id < nextId /\ toHub[1].id \in Nat /\ nextId \in Nat
        BY <1>0, <4>1, IdNumbers DEF MatchInv, IdsInv, HubIds
      <4> QED
        BY <4>2
    <3> QED
      BY <2>1, <3>1 DEF OnceInv, FirstInv
  <2>6. InOrder' /\ FirstInv' /\ EndInv'
    BY <2>1, <2>5 DEF OnceInv, InOrder, FirstInv, EndInv
  <2> QED
    BY <2>3, <2>4, <2>6, Zenon DEF OnceInv
<1>10. CASE HubRejects \/ LinkDies
  <2>1. /\ UNCHANGED <<nextId, pending, error, connected, pc, req, reader, admitted>>
        /\ link' = "down" /\ Len(toHub') = 0
    BY <1>10 DEF HubRejects, LinkDies, clientVars, callVars
  <2>2. HubOwned' /\ HubAlone' /\ InOrder'
    BY <2>1 DEF HubOwned, HubAlone, InOrder
  <2>4. FirstInv' /\ EndInv'
    BY <2>1 DEF OnceInv, FirstInv, EndInv
  <2>3. ReplyAlone'
    <3>1. CASE toClient' = toClient
      BY <2>1, <3>1 DEF OnceInv, ReplyAlone, IsResponse
    <3>2. CASE toClient' = <<>>
      BY <3>2 DEF ReplyAlone
    <3>3. CASE HubRejects /\ toClient' = <<Response(0, RpcError)>>
      <4>1. Len(toClient') = 1 /\ toClient'[1].id = 0
        BY <3>3 DEF Response
      <4>2. \A k \in 1 .. Len(toClient') : k = 1
        BY <4>1
      <4> QED
        BY <2>1, <3>3, <4>1, <4>2, Unanswered DEF ReplyAlone
    <3> QED
      BY <1>10, <3>1, <3>2, <3>3 DEF HubRejects, LinkDies
  <2> QED
    BY <2>2, <2>3, <2>4, Zenon DEF OnceInv
<1> QED
  BY <1>1, <1>2, <1>3, <1>4, <1>5, <1>6, <1>7, <1>8, <1>9, <1>10
     DEF Next, Calling, ReaderStep

RemoteInv == MatchInv /\ KeepInv /\ ForgetInv /\ OnceInv

LEMMA RemoteInvariant == Spec => []RemoteInv
<1>1. Init => RemoteInv
  BY MatchInit, KeepInit, ForgetInit, OnceInit DEF RemoteInv
<1>2. RemoteInv /\ [Next]_vars => RemoteInv'
  BY MatchStep, KeepStep, ForgetStep, OnceStep DEF RemoteInv
<1> QED
  BY <1>1, <1>2, PTL DEF Spec

LEMMA AppendIs ==
    ASSUME NEW S, NEW s \in Seq(S), NEW e \in S, NEW t \in Seq(S), Len(t) = Len(s) + 1,
           \A k \in 1 .. Len(s) : t[k] = s[k], t[Len(s) + 1] = e
    PROVE  t = Append(s, e)
OBVIOUS

LEMMA TailIs ==
    ASSUME NEW S, NEW s \in Seq(S), NEW t \in Seq(S), s # <<>>, Len(t) = Len(s) - 1,
           \A k \in 1 .. Len(t) : t[k] = s[k + 1]
    PROVE  t = Tail(s)
OBVIOUS

LEMMA CallerIs ==
    ASSUME NEW i, NEW c \in Callers, Waits(c, i), WaitingApart
    PROVE  Caller(i) = c
<1>1. \A d \in Callers : pc[d] = "waiting" /\ req[d] = i => d = c
  BY DEF Waits, WaitingApart
<1>2. pc[c] = "waiting" /\ req[c] = i
  BY DEF Waits
<1> QED
  BY <1>1, <1>2, Zenon DEF Caller

\* Every request under way is asked by the one caller that waits for it.
LEMMA AskedForm ==
    RemoteInv =>
        /\ Asked \in Seq(Callers)
        /\ Len(Asked) = IF link = "open" THEN Len(toHub) ELSE 0
        /\ \A k \in 1 .. Len(Asked), c \in Callers : Waits(c, toHub[k].id) => Asked[k] = c
        /\ \A k \in 1 .. Len(Asked) : \E c \in Callers : Waits(c, toHub[k].id)
<1> SUFFICES ASSUME RemoteInv
             PROVE  /\ Asked \in Seq(Callers)
                    /\ Len(Asked) = IF link = "open" THEN Len(toHub) ELSE 0
                    /\ \A k \in 1 .. Len(Asked), c \in Callers : Waits(c, toHub[k].id) => Asked[k] = c
                    /\ \A k \in 1 .. Len(Asked) : \E c \in Callers : Waits(c, toHub[k].id)
  OBVIOUS
<1> DEFINE n == IF link = "open" THEN Len(toHub) ELSE 0
<1>1. n \in Nat /\ \A k \in 1 .. n : k \in 1 .. Len(toHub)
  BY DEF RemoteInv, MatchInv, TypeOK
<1>2. Asked = [k \in 1 .. n |-> Caller(toHub[k].id)]
  BY Zenon DEF Asked
<1> HIDE DEF n
<1>3. \A k \in 1 .. n : \E c \in Callers : Waits(c, toHub[k].id)
  BY <1>1, Zenon DEF RemoteInv, OnceInv, HubOwned
<1>4. \A k \in 1 .. n, c \in Callers : Waits(c, toHub[k].id) => Caller(toHub[k].id) = c
  BY CallerIs, Zenon DEF RemoteInv, ForgetInv
<1>5. Asked \in [1 .. n -> Callers]
  BY <1>2, <1>3, <1>4
<1>6. Asked \in Seq(Callers) /\ Len(Asked) = n
  BY <1>1, <1>5
<1>7. \A k \in 1 .. n, c \in Callers : Waits(c, toHub[k].id) => Asked[k] = c
  BY <1>2, <1>4
<1> QED
  BY <1>3, <1>6, <1>7, Zenon DEF n

LEMMA AskedNext ==
    RemoteInv' =>
        (/\ Asked \in Seq(Callers)
         /\ Len(Asked) = IF link = "open" THEN Len(toHub) ELSE 0
         /\ \A k \in 1 .. Len(Asked), c \in Callers : Waits(c, toHub[k].id) => Asked[k] = c
         /\ \A k \in 1 .. Len(Asked) : \E c \in Callers : Waits(c, toHub[k].id))'
BY AskedForm, PTL

\* Who has asked stays so when no request comes or goes.
LEMMA AskedSame ==
    ASSUME RemoteInv, RemoteInv', UNCHANGED <<toHub, link>>,
           \A k \in 1 .. Len(toHub), c \in Callers :
               Waits(c, toHub[k].id) => pc'[c] = "waiting" /\ req'[c] = req[c]
    PROVE  UNCHANGED Asked
<1>1. Len(Asked') = Len(Asked) /\ Asked \in Seq(Callers) /\ Asked' \in Seq(Callers)
  BY AskedForm, AskedNext
<1>2. ASSUME NEW k \in 1 .. Len(Asked) PROVE Asked'[k] = Asked[k]
  <2>1. k \in 1 .. Len(toHub) /\ k \in 1 .. Len(Asked')
    BY <1>1, <1>2, AskedForm
  <2>2. PICK c \in Callers : Waits(c, toHub[k].id)
    BY <1>2, AskedForm
  <2>3. pc'[c] = "waiting" /\ req'[c] = toHub'[k].id
    BY <2>1, <2>2 DEF Waits
  <2>4. Asked[k] = c
    BY <1>2, <2>2, AskedForm
  <2>5. Asked'[k] = c
    BY <2>1, <2>3, AskedNext DEF Waits
  <2> QED
    BY <2>4, <2>5
<1> QED
  BY <1>1, <1>2

\* A connection that is down carries no request.
LEMMA AskedDown == RemoteInv' /\ link' # "open" => Asked' = <<>>
BY AskedNext

LEMMA RemoteInitially == Init => Remote!CallsInit
<1> SUFFICES ASSUME Init PROVE Remote!CallsInit
  OBVIOUS
<1>1. Waiting = {} /\ Answered = {} /\ Failed = {}
  BY DEF Init, Waiting, Answered, Failed
<1>2. Asked = <<>>
  <2>1. RemoteInv /\ Len(toHub) = 0
    BY MatchInit, KeepInit, ForgetInit, OnceInit DEF RemoteInv, Init
  <2> QED
    BY <2>1, AskedForm
<1>3. link = "open" /\ error = FALSE /\ arg \in [Callers -> Args] /\ result = [c \in Callers |-> NoResult]
  BY DEF Init
<1> QED
  BY <1>1, <1>2, <1>3 DEF Remote!CallsInit

\* The reply r to the request i has come, as far as the table p or the
\* connection t.
Came(p, t, i, r) ==
    \/ p[i] = r
    \/ \E k \in 1 .. Len(t) : t[k].kind = "response" /\ t[k].id = i /\ t[k].result = r

CameError(p, t, i) == Came(p, t, i, RpcError) \/ Came(p, t, i, ConnectionError)

LEMMA SetForms ==
    /\ \A e : e \in Waiting <=> e \in Callers /\ pc[e] = "waiting"
    /\ \A e : e \in Answered <=>
          e \in Callers /\ pc[e] = "waiting" /\ Came(pending, toClient, req[e], Data(arg[e]))
    /\ \A e : e \in Failed <=>
          e \in Callers /\ pc[e] = "waiting" /\ CameError(pending, toClient, req[e])
BY DEF Waiting, Answered, Failed, Replied, Came, CameError

LEMMA SetNext ==
    /\ \A e : e \in Waiting' <=> e \in Callers /\ pc'[e] = "waiting"
    /\ \A e : e \in Answered' <=>
          e \in Callers /\ pc'[e] = "waiting" /\ Came(pending', toClient', req'[e], Data(arg'[e]))
    /\ \A e : e \in Failed' <=>
          e \in Callers /\ pc'[e] = "waiting" /\ CameError(pending', toClient', req'[e])
BY DEF Waiting, Answered, Failed, Replied, Came, CameError

\* Where the same replies have come to the same calls, nothing is answered anew.
LEMMA SetsSame ==
    ASSUME TypeOK, UNCHANGED <<pc, req, arg>>,
           \A i \in Ids : \A r \in Results :
               Came(pending', toClient', i, r) <=> Came(pending, toClient, i, r)
    PROVE  UNCHANGED <<Waiting, Answered, Failed>>
<1>1. \A e \in Callers : req[e] \in Ids /\ Data(arg[e]) \in Results
  BY DataForm DEF TypeOK
<1>2. \A e \in Callers :
        /\ Came(pending', toClient', req'[e], Data(arg'[e]))
              <=> Came(pending, toClient, req[e], Data(arg[e]))
        /\ CameError(pending', toClient', req'[e]) <=> CameError(pending, toClient, req[e])
  BY <1>1, ErrorForm DEF CameError
<1>3. \A e : /\ e \in Waiting' <=> e \in Waiting
             /\ e \in Answered' <=> e \in Answered
             /\ e \in Failed' <=> e \in Failed
  BY <1>2, SetForms, SetNext
<1> QED
  BY <1>3

\* The reader moves a reply from the connection to the table.
LEMMA CameRead ==
    ASSUME RemoteInv, Read, NEW i \in Ids, NEW r \in Results
    PROVE  Came(pending', toClient', i, r) <=> Came(pending, toClient, i, r)
<1> DEFINE m == Head(toClient)
<1>0. TypeOK /\ ReplyAlone
  BY DEF RemoteInv, MatchInv, OnceInv
<1>1. /\ toClient \in Seq(Responses \cup {Event}) /\ toClient # <<>> /\ toClient' = Tail(toClient)
      /\ pending' = IF m.kind = "response" THEN [pending EXCEPT ![m.id] = m.result] ELSE pending
  BY <1>0 DEF Read, TypeOK
<1>2. /\ m = toClient[1] /\ 1 \in 1 .. Len(toClient)
      /\ \A k \in 1 .. Len(toClient') : k + 1 \in 1 .. Len(toClient) /\ toClient'[k] = toClient[k + 1]
  BY <1>1, TailMember
<1>3. \A k \in 1 .. Len(toClient) :
        toClient[k] = m \/ \E j \in 1 .. Len(toClient') : toClient'[j] = toClient[k]
  BY <1>1, TailRest
<1> HIDE DEF m
<1>4. r # NoResult
  BY DEF Results, Data, RpcError, ConnectionError, NoResult
<1>5. m.kind = "response" => m.id \in Ids /\ pending[m.id] = NoResult
  BY <1>0, <1>2, IdsUnderWay DEF ReplyAlone, IsResponse
<1>6. pending'[i] = IF m.kind = "response" /\ m.id = i THEN m.result ELSE pending[i]
  BY <1>0, <1>1, <1>5 DEF TypeOK
<1>7. ASSUME Came(pending, toClient, i, r) PROVE Came(pending', toClient', i, r)
  <2>1. CASE pending[i] = r
    BY <1>4, <1>5, <1>6, <2>1 DEF Came
  <2>2. ASSUME NEW k \in 1 .. Len(toClient), toClient[k].kind = "response", toClient[k].id = i,
               toClient[k].result = r
        PROVE  Came(pending', toClient', i, r)
    <3>1. CASE toClient[k] = m
      BY <1>6, <2>2, <3>1 DEF Came
    <3>2. CASE \E j \in 1 .. Len(toClient') : toClient'[j] = toClient[k]
      BY <2>2, <3>2 DEF Came
    <3> QED
      BY <1>3, <3>1, <3>2
  <2> QED
    BY <1>7, <2>1, <2>2 DEF Came
<1>8. ASSUME Came(pending', toClient', i, r) PROVE Came(pending, toClient, i, r)
  <2>1. CASE pending'[i] = r
    BY <1>2, <1>6, <2>1 DEF Came
  <2>2. CASE \E k \in 1 .. Len(toClient') :
               toClient'[k].kind = "response" /\ toClient'[k].id = i /\ toClient'[k].result = r
    BY <1>2, <2>2 DEF Came
  <2> QED
    BY <1>8, <2>1, <2>2 DEF Came
<1> QED
  BY <1>7, <1>8

\* Nothing has come under an id that was never given out, but for the refusal
\* of a busy hub, which closes the connection.
LEMMA NothingCame ==
    ASSUME RemoteInv, NEW c \in Callers, CanCall(c), NEW a \in Args
    PROVE  /\ ~Came(pending, toClient, nextId, Data(a))
           /\ link = "open" => ~CameError(pending, toClient, nextId)
<1>1. TypeOK /\ IdsInv /\ KeepInv /\ OnceInv
  BY DEF RemoteInv, MatchInv
<1>2. nextId \in Nat /\ nextId \in Ids
  BY <1>1, MaxCallsAssumption DEF TypeOK, Ids
<1>3. ~\E e \in Callers : Waits(e, nextId)
  BY <1>1, <1>2 DEF IdsInv, WaitingIds, Waits, TypeOK, Ids
<1>4. IsData(Data(a))
  BY DataForm
<1>5. ~Came(pending, toClient, nextId, Data(a))
  <2>1. ~(nextId < nextId)
    BY <1>2
  <2>2. pending[nextId] # Data(a)
    BY <1>1, <1>2, <1>4, <2>1 DEF IdsInv, PendingIds
  <2>3. \A k \in 1 .. Len(toClient) :
          ~(toClient[k].kind = "response" /\ toClient[k].id = nextId /\ toClient[k].result = Data(a))
    BY <1>1, <1>4, <2>1 DEF IdsInv, ClientIds, IsResponse
  <2> QED
    BY <2>2, <2>3 DEF Came
<1>6. ASSUME link = "open" PROVE ~CameError(pending, toClient, nextId)
  <2>1. pending[nextId] = NoResult
    BY <1>1, <1>2, <1>3, <1>6 DEF KeepInv, NothingLeftBehind, OnceInv, FirstInv, Waits
  <2>2. \A l \in 1 .. Len(toClient) : ~(toClient[l].kind = "response" /\ toClient[l].id = nextId)
    BY <1>1, <1>3, <1>6 DEF KeepInv, ClientLive, Live, OnceInv, FirstInv, IsResponse
  <2>3. NoResult # RpcError /\ NoResult # ConnectionError
    BY DEF NoResult, RpcError, ConnectionError
  <2> QED
    BY <2>1, <2>2, <2>3 DEF CameError, Came
<1> QED
  BY <1>5, <1>6

LEMMA AskStep ==
    ASSUME RemoteInv, RemoteInv', NEW c \in Callers, NEW a \in Args, Send(c, a)
    PROVE  Remote!Ask(c, a)
<1> DEFINE m == [id |-> nextId, arg |-> a]
<1>0. TypeOK
  BY DEF RemoteInv, MatchInv
<1>1. /\ pc[c] = "idle" /\ CanCall(c) /\ ~error /\ error' = error
      /\ pc' = [pc EXCEPT ![c] = "waiting"] /\ req' = [req EXCEPT ![c] = nextId]
      /\ arg' = [arg EXCEPT ![c] = a]
      /\ toHub' = IF link = "open" THEN Append(toHub, m) ELSE toHub
      /\ UNCHANGED <<pending, result, link, toClient>>
  BY DEF Send, CanCall
<1>2. pc'[c] = "waiting" /\ req'[c] = nextId /\ arg'[c] = a
  BY <1>0, <1>1 DEF TypeOK
<1>3. \A e \in Callers : e # c => pc'[e] = pc[e] /\ req'[e] = req[e] /\ arg'[e] = arg[e]
  BY <1>0, <1>1 DEF TypeOK
<1>4. /\ ~Came(pending, toClient, nextId, Data(a))
      /\ link = "open" => ~CameError(pending, toClient, nextId)
  BY <1>1, NothingCame
<1>5. c \notin Waiting /\ Waiting' = Waiting \cup {c}
  <2>1. pc[c] # "waiting"
    BY <1>1
  <2>2. \A e : e \in Waiting' <=> e \in Waiting \cup {c}
    BY <1>2, <1>3, SetForms, SetNext
  <2> QED
    BY <2>1, <2>2, SetForms
<1>6. Answered' = Answered
  <2>1. c \notin Answered /\ c \notin Answered'
    BY <1>1, <1>2, <1>4, SetForms, SetNext
  <2>2. \A e : e # c => (e \in Answered' <=> e \in Answered)
    BY <1>1, <1>3, SetForms, SetNext
  <2> QED
    BY <2>1, <2>2
<1>7. Failed' \in IF link = "open" THEN {Failed} ELSE {Failed, Failed \cup {c}}
  <2>1. c \notin Failed /\ (link = "open" => c \notin Failed')
    BY <1>1, <1>2, <1>4, SetForms, SetNext
  <2>2. \A e : e # c => (e \in Failed' <=> e \in Failed)
    BY <1>1, <1>3, SetForms, SetNext
  <2>3. CASE c \in Failed'
    <3>1. \A e : e \in Failed' <=> e \in Failed \cup {c}
      BY <2>2, <2>3
    <3> QED
      BY <2>1, <2>3, <3>1
  <2>4. CASE c \notin Failed'
    <3>1. \A e : e \in Failed' <=> e \in Failed
      BY <2>1, <2>2, <2>4
    <3> QED
      BY <3>1
  <2> QED
    BY <2>3, <2>4
<1>8. Asked' = IF link = "open" THEN Append(Asked, c) ELSE Asked
  <2>1. ASSUME NEW e \in Callers, NEW i, Waits(e, i) PROVE pc'[e] = "waiting" /\ req'[e] = i
    BY <1>1, <1>3, <2>1 DEF Waits
  <2>2. CASE link = "open"
    <3>1. /\ toHub \in Seq(Requests) /\ m \in Requests /\ m.id = nextId
          /\ toHub' = Append(toHub, m)
      BY <1>0, <1>1, <2>2 DEF TypeOK, Requests
    <3> HIDE DEF m
    <3>2. /\ Len(toHub') = Len(toHub) + 1 /\ Len(toHub) \in Nat
          /\ \A k \in 1 .. Len(toHub) : toHub'[k] = toHub[k]
          /\ toHub'[Len(toHub) + 1] = m
      BY <3>1
    <3>3. /\ Asked \in Seq(Callers) /\ Len(Asked) = Len(toHub)
          /\ Asked' \in Seq(Callers) /\ Len(Asked') = Len(toHub) + 1
      BY <1>1, <2>2, <3>2, AskedForm, AskedNext
    <3>4. ASSUME NEW k \in 1 .. Len(Asked) PROVE Asked'[k] = Asked[k]
      <4>1. PICK e \in Callers : Waits(e, toHub[k].id)
        BY AskedForm
      <4>2. k \in 1 .. Len(Asked') /\ toHub'[k] = toHub[k]
        BY <3>2, <3>3
      <4>3. pc'[e] = "waiting" /\ req'[e] = toHub'[k].id
        BY <2>1, <4>1, <4>2
      <4>4. Asked'[k] = e
        BY <4>2, <4>3, AskedNext DEF Waits
      <4> QED
        BY <4>1, <4>4, AskedForm
    <3>5. Asked'[Len(Asked) + 1] = c
      <4>1. Len(toHub) + 1 \in 1 .. Len(Asked')
        BY <3>2, <3>3
      <4> QED
        BY <1>2, <3>1, <3>2, <3>3, <4>1, AskedNext DEF Waits
    <3>6. Asked' = Append(Asked, c)
      BY <3>3, <3>4, <3>5, AppendIs
    <3> QED
      BY <2>2, <3>6
  <2>3. CASE link # "open"
    <3>1. UNCHANGED Asked
      <4>1. \A k \in 1 .. Len(toHub), e \in Callers :
              Waits(e, toHub[k].id) => pc'[e] = "waiting" /\ req'[e] = req[e]
        BY <2>1 DEF Waits
      <4>2. UNCHANGED <<toHub, link>>
        BY <1>1, <2>3
      <4> QED
        BY <4>1, <4>2, AskedSame
    <3> QED
      BY <2>3, <3>1
  <2> QED
    BY <2>2, <2>3
<1> QED
  BY <1>1, <1>5, <1>6, <1>7, <1>8 DEF Remote!Ask

\* A call returns the reply that has come to it, and takes no other's.
LEMMA ReturnStep ==
    ASSUME RemoteInv, RemoteInv', NEW c \in Callers, Return(c)
    PROVE  Remote!Return(c)
<1>0. TypeOK /\ DataInv /\ WaitingApart /\ HubAlone
  BY DEF RemoteInv, MatchInv, ForgetInv, OnceInv
<1>1. /\ pc[c] = "waiting" /\ pending[req[c]] # NoResult /\ req[c] \in Ids /\ arg[c] \in Args
      /\ pc' = [pc EXCEPT ![c] = "idle"] /\ pending' = [pending EXCEPT ![req[c]] = NoResult]
      /\ result' = [result EXCEPT ![c] = pending[req[c]]]
      /\ UNCHANGED <<error, req, arg, link, toHub, toClient>>
  BY <1>0 DEF Return, TypeOK, netVars
<1>2. pc'[c] # "waiting" /\ \A e \in Callers : e # c => pc'[e] = pc[e]
  BY <1>0, <1>1 DEF TypeOK
<1>3. \A e \in Callers : e # c /\ pc[e] = "waiting" => pending'[req[e]] = pending[req[e]]
  <2>1. \A e \in Callers : e # c /\ pc[e] = "waiting" => req[e] # req[c] /\ req[e] \in Ids
    BY <1>0, <1>1 DEF WaitingApart, TypeOK
  <2> QED
    BY <1>0, <1>1, <2>1 DEF TypeOK
<1>4. \A e \in Callers : e # c /\ pc[e] = "waiting" =>
        /\ \A r : Came(pending', toClient', req'[e], r) <=> Came(pending, toClient, req[e], r)
        /\ CameError(pending', toClient', req'[e]) <=> CameError(pending, toClient, req[e])
  BY <1>1, <1>3 DEF Came, CameError
<1>5. /\ \A e : e \in Waiting' <=> e \in Waiting \ {c}
      /\ \A e : e \in Answered' <=> e \in Answered \ {c}
      /\ \A e : e \in Failed' <=> e \in Failed \ {c}
  BY <1>1, <1>2, <1>4, SetForms, SetNext
<1>6. UNCHANGED Asked
  <2>1. ASSUME NEW k \in 1 .. Len(toHub), NEW e \in Callers, Waits(e, toHub[k].id)
        PROVE  pc'[e] = "waiting" /\ req'[e] = req[e]
    <3>1. e # c
      BY <1>0, <1>1, <2>1 DEF HubAlone, Waits
    <3> QED
      BY <1>1, <1>2, <2>1, <3>1 DEF Waits
  <2> QED
    BY <1>1, <2>1, AskedSame
<1>7. CASE IsData(pending[req[c]])
  <2>1. pending[req[c]] = Data(arg[c])
    BY <1>0, <1>1, <1>7 DEF DataInv, PendingData
  <2>2. c \in Answered
    BY <1>1, <2>1, SetForms DEF Came
  <2>3. result' = [result EXCEPT ![c] = [b \in Args |-> Data(b)][arg[c]]]
    BY <1>1, <2>1
  <2> QED
    BY <1>1, <1>5, <1>6, <2>2, <2>3, SetForms DEF Remote!Return
<1>8. CASE ~IsData(pending[req[c]])
  <2>1. pending[req[c]] \in {RpcError, ConnectionError}
    <3>1. pending[req[c]] \in Results
      BY <1>0, <1>1 DEF TypeOK
    <3> QED
      BY <1>8, <3>1, DataForm DEF Results
  <2>2. c \in Failed
    BY <1>1, <2>1, SetForms DEF Came, CameError
  <2> QED
    BY <1>1, <1>5, <1>6, <2>1, <2>2, SetForms DEF Remote!Return
<1> QED
  BY <1>7, <1>8

\* An error that is recorded overwrites the replies that are stored.
LEMMA SpoilStep ==
    ASSUME RemoteInv, pending' = ErrorPending, error' = TRUE,
           UNCHANGED <<pc, req, arg, toClient>>
    PROVE  Remote!Spoil /\ UNCHANGED Waiting
<1>0. TypeOK /\ ReplyAlone /\ DataInv
  BY DEF RemoteInv, MatchInv, OnceInv
<1>1. ASSUME NEW e \in Callers, pc[e] = "waiting"
      PROVE  /\ e \in Answered' => e \in Answered
             /\ e \in Failed' <=> e \in Failed \cup (Answered \ Answered')
  <2> DEFINE under(r) == \E k \in 1 .. Len(toClient) :
               toClient[k].kind = "response" /\ toClient[k].id = req[e] /\ toClient[k].result = r
  <2>1. pc'[e] = "waiting" /\ req'[e] = req[e] /\ arg'[e] = arg[e] /\ toClient' = toClient
    BY <1>1
  <2>2. req[e] \in Ids /\ arg[e] \in Args /\ pending[req[e]] \in Results \cup {NoResult}
    BY <1>0 DEF TypeOK
  <2>3. pending'[req[e]] = IF pending[req[e]] = NoResult THEN NoResult ELSE ConnectionError
    BY <2>2 DEF ErrorPending
  <2>4. \A r : under(r) => pending[req[e]] = NoResult
    BY <1>0 DEF ReplyAlone, IsResponse
  <2>5. /\ e \in Answered <=> pending[req[e]] = Data(arg[e]) \/ under(Data(arg[e]))
        /\ e \in Answered' <=> pending'[req[e]] = Data(arg[e]) \/ under(Data(arg[e]))
    BY <1>1, <2>1, SetForms, SetNext DEF Came
  <2>6. /\ e \in Failed <=> \/ pending[req[e]] \in {RpcError, ConnectionError}
                            \/ under(RpcError) \/ under(ConnectionError)
        /\ e \in Failed' <=> \/ pending'[req[e]] \in {RpcError, ConnectionError}
                             \/ under(RpcError) \/ under(ConnectionError)
    BY <1>1, <2>1, SetForms, SetNext DEF Came, CameError
  <2> HIDE DEF under
  <2>7. /\ Data(arg[e]) \notin {NoResult, RpcError, ConnectionError}
        /\ NoResult \notin {RpcError, ConnectionError}
    BY DEF Data, RpcError, ConnectionError, NoResult
  <2>8. pending[req[e]] \in {NoResult, Data(arg[e]), RpcError, ConnectionError}
    BY <1>0, <1>1, <2>2, DataForm DEF DataInv, PendingData, Results
  <2> QED
    BY <2>3, <2>4, <2>5, <2>6, <2>7, <2>8
<1>2. \A e : e \in Waiting' <=> e \in Waiting
  BY SetForms, SetNext
<1>3. \A e : e \in Answered' => e \in Answered
  BY <1>1, <1>2, SetForms, SetNext
<1>4. \A e : e \in Failed' <=> e \in Failed \cup (Answered \ Answered')
  <2>1. \A e : e \notin Waiting => e \notin Failed /\ e \notin Failed' /\ e \notin Answered
    BY <1>2, SetForms, SetNext
  <2>2. \A e : e \in Waiting => e \in Callers /\ pc[e] = "waiting"
    BY SetForms
  <2> QED
    BY <1>1, <2>1, <2>2
<1>5. Answered' \subseteq Answered /\ Failed' = Failed \cup (Answered \ Answered')
  BY <1>3, <1>4
<1> QED
  BY <1>2, <1>5 DEF Remote!Spoil

\* The hub's reply is to the request that was asked first.
LEMMA PerformStep ==
    ASSUME RemoteInv, RemoteInv', HubReplies
    PROVE  Remote!Perform /\ UNCHANGED Waiting
<1> DEFINE h == Head(toHub)
<1>0. TypeOK /\ DataInv /\ WaitingApart
  BY DEF RemoteInv, MatchInv, ForgetInv
<1>1. PICK r \in {Data(h.arg), RpcError} : toClient' = Append(toClient, Response(h.id, r))
  BY DEF HubReplies
<1>2. /\ link = "open" /\ toHub \in Seq(Requests) /\ toHub # <<>> /\ toHub' = Tail(toHub)
      /\ UNCHANGED <<pending, error, pc, req, arg, result, link>>
  BY <1>0 DEF HubReplies, TypeOK, clientVars, callVars
<1>3. /\ h = toHub[1] /\ 1 \in 1 .. Len(toHub) /\ h \in Requests
      /\ \A k \in 1 .. Len(toHub') : k + 1 \in 1 .. Len(toHub) /\ toHub'[k] = toHub[k + 1]
  BY <1>2, TailMember
<1>4. Len(toHub') = Len(toHub) - 1 /\ Len(toHub) \in Nat
  BY <1>2
<1> HIDE DEF h
<1>5. /\ Asked \in Seq(Callers) /\ Len(Asked) = Len(toHub)
      /\ Asked' \in Seq(Callers) /\ Len(Asked') = Len(toHub) - 1
  <2>1. Asked \in Seq(Callers) /\ Len(Asked) = Len(toHub)
    BY <1>2, AskedForm
  <2>2. Asked' \in Seq(Callers) /\ Len(Asked') = Len(toHub')
    BY <1>2, AskedNext
  <2> QED
    BY <1>4, <2>1, <2>2
<1>6. PICK c \in Callers : Waits(c, h.id)
  BY <1>3, <1>5, AskedForm
<1>7. Asked # <<>> /\ Head(Asked) = c
  <2>1. Asked[1] = c
    BY <1>3, <1>5, <1>6, AskedForm
  <2> QED
    BY <1>3, <1>5, <2>1
<1>8. Asked' = Tail(Asked)
  <2>1. ASSUME NEW k \in 1 .. Len(Asked') PROVE Asked'[k] = Asked[k + 1]
    <3>1. k \in 1 .. Len(toHub') /\ k + 1 \in 1 .. Len(Asked) /\ toHub'[k] = toHub[k + 1]
      BY <1>3, <1>4, <1>5
    <3>2. PICK e \in Callers : Waits(e, toHub[k + 1].id)
      BY <3>1, AskedForm
    <3>3. pc'[e] = "waiting" /\ req'[e] = toHub'[k].id
      BY <1>2, <3>1, <3>2 DEF Waits
    <3>4. Asked'[k] = e
      BY <3>3, AskedNext DEF Waits
    <3> QED
      BY <3>1, <3>2, <3>4, AskedForm
  <2> QED
    BY <1>5, <1>7, <2>1, TailIs
<1>9. h.arg = arg[c] /\ pc[c] = "waiting" /\ req[c] = h.id
  BY <1>0, <1>3, <1>6 DEF DataInv, HubData, Waits
<1>10. \A i, s : Came(pending', toClient', i, s)
                   <=> Came(pending, toClient, i, s) \/ (i = h.id /\ s = r)
  <2> DEFINE m == Response(h.id, r)
  <2>1. /\ m \in Responses \cup {Event} /\ m.kind = "response" /\ m.id = h.id /\ m.result = r
    BY <1>3, DataForm, ErrorForm, ResponseForm DEF Requests
  <2> HIDE DEF m
  <2>2. /\ \A k \in 1 .. Len(toClient') : \/ k \in 1 .. Len(toClient) /\ toClient'[k] = toClient[k]
                                          \/ toClient'[k] = m
        /\ \A k \in 1 .. Len(toClient) : k \in 1 .. Len(toClient') /\ toClient'[k] = toClient[k]
        /\ \E k \in 1 .. Len(toClient') : toClient'[k] = m
    <3>1. toClient \in Seq(Responses \cup {Event}) /\ toClient' = Append(toClient, m)
      BY <1>0, <1>1 DEF TypeOK, m
    <3> QED
      BY <2>1, <3>1, AppendMember, AppendRest
  <2> QED
    BY <1>2, <2>1, <2>2 DEF Came
<1>11. \A e : e \in Waiting' <=> e \in Waiting
  BY <1>2, SetForms, SetNext
<1>12. ASSUME NEW e
       PROVE  /\ e \in Answered' <=> e \in Answered \/ (e = c /\ Data(arg[c]) = r)
              /\ e \in Failed' <=> e \in Failed \/ (e = c /\ r \in {RpcError, ConnectionError})
  <2>1. e \in Callers /\ pc[e] = "waiting" => (req[e] = h.id <=> e = c)
    BY <1>0, <1>9 DEF WaitingApart
  <2>2. e \in Answered' <=> e \in Answered \/ (e = c /\ Data(arg[c]) = r)
    BY <1>2, <1>9, <1>10, <2>1, SetForms, SetNext
  <2>3. e \in Failed' <=> e \in Failed \/ (e = c /\ r \in {RpcError, ConnectionError})
    BY <1>2, <1>9, <1>10, <2>1, SetForms, SetNext DEF CameError
  <2> QED
    BY <2>2, <2>3
<1>13. Data(arg[c]) \notin {RpcError, ConnectionError}
  BY DEF Data, RpcError, ConnectionError
<1>14. CASE r = RpcError
  <2>1. Failed' = Failed \cup {c} /\ Answered' = Answered
    BY <1>12, <1>13, <1>14
  <2> QED
    BY <1>2, <1>7, <1>8, <1>11, <2>1 DEF Remote!Perform
<1>15. CASE r = Data(arg[c])
  <2>1. Answered' = Answered \cup {c} /\ Failed' = Failed
    BY <1>12, <1>13, <1>15
  <2> QED
    BY <1>2, <1>7, <1>8, <1>11, <2>1 DEF Remote!Perform
<1> QED
  BY <1>9, <1>14, <1>15

\* A connection that ends takes with it what is under way, and may leave the
\* refusal of a busy hub to the first call.
LEMMA DownStep ==
    ASSUME RemoteInv, RemoteInv', link = "open", HubRejects \/ LinkDies \/ CloseEnds
    PROVE  Remote!GoDown
<1>0. TypeOK /\ UnderWay /\ OnceInv
  BY DEF RemoteInv, MatchInv, ForgetInv
<1>1. link' = "down" /\ UNCHANGED <<error, pending, pc, req, arg, result>>
  BY DEF HubRejects, LinkDies, CloseEnds, clientVars, callVars
<1>2. Asked' = <<>>
  BY <1>1, AskedDown
<1>3. \A e : e \in Waiting' <=> e \in Waiting
  BY <1>1, SetForms, SetNext
<1>4. /\ Answered' \subseteq Answered
      /\ Failed' \subseteq Failed \cup (IF Asked = <<>> THEN {} ELSE {Head(Asked)})
  <2>1. CASE toClient' = toClient
    <3>1. \A e : (e \in Answered' <=> e \in Answered) /\ (e \in Failed' <=> e \in Failed)
      BY <1>1, <2>1, SetForms, SetNext
    <3> QED
      BY <3>1
  <2>2. CASE toClient' = <<>>
    <3>1. \A i, r : Came(pending', toClient', i, r) => Came(pending, toClient, i, r)
      BY <1>1, <2>2 DEF Came
    <3>2. \A e : (e \in Answered' => e \in Answered) /\ (e \in Failed' => e \in Failed)
      BY <1>1, <3>1, SetForms, SetNext DEF CameError
    <3> QED
      BY <3>2
  <2>3. CASE HubRejects /\ toClient' = <<Response(0, RpcError)>>
    <3>1. /\ Len(toClient') = 1 /\ toClient'[1].id = 0 /\ toClient'[1].result = RpcError
      BY <2>3 DEF Response
    <3>2. \A k \in 1 .. Len(toClient') : k = 1
      BY <3>1
    <3>3. \A i, r : Came(pending', toClient', i, r) =>
                      Came(pending, toClient, i, r) \/ (i = 0 /\ r = RpcError)
      BY <1>1, <3>1, <3>2 DEF Came
    <3>4. \A a : Data(a) # RpcError
      BY DEF Data, RpcError
    <3>5. \A e : e \in Answered' => e \in Answered
      BY <1>1, <3>3, <3>4, SetForms, SetNext
    <3>6. ASSUME NEW e \in Callers, pc[e] = "waiting", req[e] = 0
          PROVE  Asked # <<>> /\ Head(Asked) = e
      <4>1. PICK k \in 1 .. Len(toHub) : toHub[k].id = 0
        <5>1. pending[req[e]] = NoResult /\ Len(toClient) = 0
          BY <1>0, <2>3 DEF OnceInv, FirstInv, HubRejects, TypeOK
        <5> QED
          BY <1>0, <3>6, <5>1 DEF UnderWay
      <4>2. 1 \in 1 .. Len(toHub) /\ toHub[1].id = 0
        <5>1. 1 \in 1 .. Len(toHub) /\ k \in Nat /\ toHub[1].id \in Nat
          BY <1>0, <4>1, IdNumbers DEF TypeOK
        <5>2. 1 < k => toHub[1].id < toHub[k].id
          BY <1>0, <5>1 DEF OnceInv, InOrder
        <5> QED
          BY <4>1, <5>1, <5>2
      <4>3. Asked \in Seq(Callers) /\ 1 \in 1 .. Len(Asked) /\ Asked[1] = e
        BY <3>6, <4>2, AskedForm DEF Waits
      <4> QED
        BY <4>3
    <3>7. \A e : e \in Failed' => e \in Failed \/ (Asked # <<>> /\ Head(Asked) = e)
      BY <1>1, <3>3, <3>6, SetForms, SetNext DEF CameError
    <3> QED
      BY <3>5, <3>7
  <2> QED
    BY <2>1, <2>2, <2>3 DEF HubRejects, LinkDies, CloseEnds
<1>5. Waiting' = Waiting
  BY <1>3
<1>6. (link = "open")' = FALSE
  BY <1>1
<1> QED
  BY <1>1, <1>2, <1>4, <1>5, <1>6 DEF Remote!GoDown

LEMMA RemoteStep ==
    RemoteInv /\ RemoteInv' /\ [Next]_vars => [Remote!CallsNext]_(Remote!callsVars)
<1> SUFFICES ASSUME RemoteInv, RemoteInv', [Next]_vars
             PROVE  Remote!CallsNext \/ UNCHANGED <<link = "open", error, Waiting, arg, Asked, Answered,
                                                    Failed, result>>
  BY DEF Remote!callsVars
<1>0. TypeOK
  BY DEF RemoteInv, MatchInv
<1>1. ASSUME NEW c \in Callers, NEW a \in Args, Send(c, a) PROVE Remote!CallsNext
  BY <1>1, AskStep DEF Remote!CallsNext
<1>2. ASSUME NEW c \in Callers, SendFails(c) PROVE Remote!CallsNext
  <2>1. /\ pc[c] = "idle" /\ pending' = ErrorPending /\ error' = TRUE
        /\ result' = [result EXCEPT ![c] = ConnectionError]
        /\ UNCHANGED <<pc, req, arg, link, toHub, toClient>>
    BY <1>2 DEF SendFails, CanCall, netVars
  <2>2. Remote!Spoil /\ UNCHANGED Waiting
    BY <2>1, SpoilStep
  <2>3. UNCHANGED Asked
    BY <2>1, AskedSame DEF Waits
  <2>4. c \notin Waiting
    BY <2>1, SetForms
  <2>5. Remote!Refuse(c)
    BY <2>1, <2>2, <2>3, <2>4 DEF Remote!Refuse
  <2> QED
    BY <2>5 DEF Remote!CallsNext
<1>3. ASSUME NEW c \in Callers, CallRefused(c) PROVE Remote!CallsNext
  <2>1. /\ pc[c] = "idle" /\ result' = [result EXCEPT ![c] = ConnectionError]
        /\ UNCHANGED <<error, pending, pc, req, arg, link, toHub, toClient>>
        /\ error = TRUE \/ link # "open"
    BY <1>0, <1>3 DEF CallRefused, clientVars, netVars, TypeOK, RemoteInv, OnceInv, EndInv
  <2>2. UNCHANGED <<Waiting, Answered, Failed>>
    BY <1>0, <2>1, SetsSame
  <2>3. UNCHANGED Asked
    BY <2>1, AskedSame DEF Waits
  <2>4. c \notin Waiting
    BY <2>1, SetForms
  <2>5. Remote!Spoil \/ (link # "open" /\ UNCHANGED <<error, Answered, Failed>>)
    BY <2>1, <2>2 DEF Remote!Spoil
  <2>6. Remote!Refuse(c)
    BY <2>1, <2>2, <2>3, <2>4, <2>5 DEF Remote!Refuse
  <2> QED
    BY <2>6 DEF Remote!CallsNext
<1>4. ASSUME NEW c \in Callers, Return(c) PROVE Remote!CallsNext
  BY <1>4, ReturnStep DEF Remote!CallsNext
<1>5. CASE Read
  <2>1. UNCHANGED <<error, pc, req, arg, result, link, toHub>>
    BY <1>5 DEF Read, callVars
  <2>2. UNCHANGED <<Waiting, Answered, Failed>>
    BY <1>0, <1>5, <2>1, CameRead, SetsSame
  <2>3. UNCHANGED Asked
    BY <2>1, AskedSame DEF Waits
  <2> QED
    BY <2>1, <2>2, <2>3
<1>6. CASE MarkPending
  <2>1. /\ pending' = ErrorPending /\ reader = "failing" /\ error' = error
        /\ UNCHANGED <<pc, req, arg, result, link, toHub, toClient>>
    BY <1>6 DEF MarkPending, callVars, netVars
  <2>2. error' = TRUE
    BY <1>0, <2>1 DEF RemoteInv, OnceInv, EndInv, TypeOK
  <2>3. Remote!Spoil /\ UNCHANGED Waiting
    BY <2>1, <2>2, SpoilStep
  <2>4. UNCHANGED Asked
    BY <2>1, AskedSame DEF Waits
  <2> QED
    BY <2>1, <2>3, <2>4 DEF Remote!Break, Remote!CallsNext
<1>7. CASE HubReplies
  <2>1. Remote!Perform
    BY <1>7, PerformStep
  <2> QED
    BY <2>1 DEF Remote!CallsNext
<1>8. CASE HubPushes
  <2>1. /\ UNCHANGED <<error, pending, pc, req, arg, result, link, toHub>>
        /\ toClient' = Append(toClient, Event)
    BY <1>8 DEF HubPushes, clientVars, callVars
  <2>2. /\ \A k \in 1 .. Len(toClient') : toClient'[k].kind = "response" =>
             k \in 1 .. Len(toClient) /\ toClient'[k] = toClient[k]
        /\ \A k \in 1 .. Len(toClient) : k \in 1 .. Len(toClient') /\ toClient'[k] = toClient[k]
    BY <1>0, <2>1, AppendMember, AppendRest DEF TypeOK, Event
  <2>3. \A i, r : Came(pending', toClient', i, r) <=> Came(pending, toClient, i, r)
    BY <2>1, <2>2 DEF Came
  <2>4. UNCHANGED <<Waiting, Answered, Failed>>
    BY <1>0, <2>1, <2>3, SetsSame
  <2>5. UNCHANGED Asked
    BY <2>1, AskedSame DEF Waits
  <2> QED
    BY <2>1, <2>4, <2>5
<1>9. CASE link = "open" /\ (HubRejects \/ LinkDies \/ CloseEnds)
  BY <1>9, DownStep DEF Remote!CallsNext
<1>10. ASSUME \/ ReadTears \/ ReadFails \/ ReaderStops \/ CloseBegins \/ UNCHANGED vars
              \/ link # "open" /\ CloseEnds
       PROVE  Remote!CallsNext \/ UNCHANGED <<link = "open", error, Waiting, arg, Asked, Answered,
                                              Failed, result>>
  <2>1. /\ UNCHANGED <<pending, pc, req, arg, result, toHub, toClient>>
        /\ link' = link \/ (link # "open" /\ link' # "open")
        /\ error' = error \/ (error' = TRUE /\ link' = link)
    BY <1>10 DEF ReadTears, ReadFails, ReaderStops, CloseBegins, CloseEnds, vars, clientVars,
                 callVars, netVars
  <2>2. UNCHANGED <<Waiting, Answered, Failed>>
    BY <1>0, <2>1, SetsSame
  <2>3. UNCHANGED Asked
    <3>1. CASE link' = link
      BY <2>1, <3>1, AskedSame DEF Waits
    <3>2. CASE link # "open" /\ link' # "open"
      <4>1. Asked' = <<>>
        BY <3>2, AskedDown
      <4>2. Asked = <<>>
        BY <3>2, AskedForm
      <4> QED
        BY <4>1, <4>2
    <3> QED
      BY <2>1, <3>1, <3>2
  <2>4. CASE error' = error
    BY <2>1, <2>2, <2>3, <2>4
  <2>5. CASE error' = TRUE /\ link' = link
    BY <2>1, <2>2, <2>3, <2>5 DEF Remote!Break, Remote!Spoil, Remote!CallsNext
  <2> QED
    BY <2>1, <2>4, <2>5
<1>11. HubRejects \/ LinkDies => link = "open"
  BY DEF HubRejects, LinkDies
<1> QED
  BY <1>1, <1>2, <1>3, <1>4, <1>5, <1>6, <1>7, <1>8, <1>9, <1>10, <1>11
     DEF Next, Calling, ReaderStep

\* The client implements RemoteCalls: seen without ids, table and reader, the
\* hub takes the calls in the order in which they were made, each once, and every
\* call returns what came of itself.  Only the end of the connection, or an
\* exception that is recorded and lets no later call through, takes an answer
\* away.
THEOREM ClientImplementsCalls == Spec => ImplementsCalls
BY RemoteInitially, RemoteStep, RemoteInvariant, PTL DEF Spec, ImplementsCalls, Remote!CallsSpec
=============================================================================
