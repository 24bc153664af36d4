----------------------- MODULE WebSocketClient_proofs -----------------------
(***************************************************************************)
(* Proofs about WebSocketClient for any number of calls, sockets and       *)
(* miliseconds: type correctness, which promise an answer settles, which   *)
(* promise an opened socket settles, and that no socket is left behind.    *)
(***************************************************************************)
EXTENDS WebSocketClient, SequenceTheorems, TLAPS

\* The id of a call tells its kind, and only a request reaches the server.
CallOK(i) ==
    /\ calls[i].kind = "connect" => calls[i].id = Login /\ calls[i].message = "unsent"
    /\ calls[i].kind # "connect" => \E t \in 0..MaxTime : calls[i].id = <<calls[i].kind, t>>
    /\ calls[i].kind = "connect" => (calls[i].promise = "rejected" <=> calls[i].socket = 0)
    /\ calls[i].message # "unsent" => calls[i].promise # "rejected"
    /\ calls[i].socket <= Len(readyState) /\ calls[i].answer <= Len(calls)

\* A request under way is the one its id leads to, unless the id is shared.
RequestOK(i) ==
    calls[i].message \in {"sent", "ack"} => requestMap[calls[i].id] = i \/ SharesId(i)

\* 'login' leads to the call that made the current socket, and no two calls
\* made one socket.
LoginOK ==
    /\ ws # 0 => requestMap[Login] # 0 /\ calls[requestMap[Login]].socket = ws
    /\ \A i, j \in DOMAIN calls :
            /\ calls[i].kind = "connect" /\ calls[j].kind = "connect"
            /\ calls[i].socket = calls[j].socket /\ calls[i].socket # 0
            => i = j
    /\ \A s \in opened : readyState[s] # "connecting"

IInv ==
    /\ TypeOK
    /\ \A i \in DOMAIN calls : CallOK(i) /\ RequestOK(i)
    /\ LoginOK
    /\ AnswerOfOwnKind /\ OnlyCollisionsLoseAnswers
    /\ ConnectResolvesWithItsSocket /\ NoOrphanSocket

LEMMA CallsAreASequence ==
    TypeOK => /\ DOMAIN calls = 1..Len(calls) /\ Len(calls) \in Nat
              /\ \A i \in DOMAIN calls : calls[i] \in Call
              /\ DOMAIN readyState = 1..Len(readyState) /\ Len(readyState) \in Nat
              /\ \A s \in DOMAIN readyState :
                    readyState[s] \in {"connecting", "open", "closing", "closed"}
              /\ \A id \in Ids : requestMap[id] \in 0..Len(calls)
BY LenProperties, ElementOfSeq DEF TypeOK

\* 'login' is not the id of a request.
LEMMA IdsApart ==
    /\ Login \in Ids
    /\ \A kind \in Kinds : \A t \in 0..MaxTime :
            <<kind, t>> \in Ids /\ <<kind, t>> # Login
    /\ \A k, m \in Kinds : \A t, u \in 0..MaxTime : <<k, t>> = <<m, u>> => k = m
<1>1. \A kind \in Kinds : kind # "login"
  BY DEF Kinds
<1>2. QED
  BY <1>1 DEF Ids, Login

\* A call appends its record and leaves the earlier ones alone.
LEMMA CallAppended ==
    ASSUME TypeOK, NEW new \in Call, Len(calls) < MaxCalls, calls' = Append(calls, new)
    PROVE  /\ calls' \in Seq(Call) /\ Len(calls') = Len(calls) + 1 /\ Len(calls') <= MaxCalls
           /\ DOMAIN calls = 1..Len(calls) /\ Len(calls) \in Nat
           /\ DOMAIN calls' = DOMAIN calls \cup {Len(calls')} /\ Len(calls') \notin DOMAIN calls
           /\ \A i \in DOMAIN calls : calls'[i] = calls[i]
           /\ calls'[Len(calls')] = new
<1>1. calls \in Seq(Call)
  BY DEF TypeOK
<1>2. /\ calls' \in Seq(Call) /\ Len(calls') = Len(calls) + 1
      /\ \A i \in 1..Len(calls) : calls'[i] = calls[i]
      /\ calls'[Len(calls) + 1] = new
  BY <1>1, AppendProperties
<1>3. Len(calls) \in Nat /\ DOMAIN calls = 1..Len(calls) /\ DOMAIN calls' = 1..Len(calls')
  BY <1>1, <1>2, LenProperties
<1>4. QED
  BY <1>2, <1>3, BoundsAssumption

\* A new call shares its id with those before, and takes no sharing away.
LEMMA SharingStays ==
    ASSUME NEW i \in DOMAIN calls, SharesId(i), DOMAIN calls \subseteq DOMAIN calls',
           \A j \in DOMAIN calls : calls'[j].kind = calls[j].kind /\ calls'[j].id = calls[j].id
    PROVE  SharesId(i)'
BY DEF SharesId

LEMMA InitIInv == Init => IInv
<1> SUFFICES ASSUME Init
             PROVE  IInv
  OBVIOUS
<1> USE DEF Init
<1>1. /\ Len(calls) = 0 /\ DOMAIN calls = {} /\ calls \in Seq(Call)
      /\ Len(readyState) = 0 /\ DOMAIN readyState = {}
      /\ readyState \in Seq({"connecting", "open", "closing", "closed"})
  OBVIOUS
<1>2. TypeOK
  BY <1>1, BoundsAssumption DEF TypeOK
<1>3. QED
  BY <1>1, <1>2 DEF IInv, LoginOK, AnswerOfOwnKind, OnlyCollisionsLoseAnswers,
     ConnectResolvesWithItsSocket, NoOrphanSocket

\* subscribe(), unsubscribe() and listSubscriptions(), whether they send their
\* message, drop it or throw.
LEMMA RequestMadeKeepsIInv ==
    ASSUME IInv, NEW kind \in Kinds,
           NEW promise \in {"pending", "rejected"}, NEW message \in {"unsent", "sent"},
           message = "sent" => promise = "pending",
           Return(kind, RequestId(kind), ws, promise, message),
           \/ Await(RequestId(kind))
           \/ promise = "rejected" /\ UNCHANGED requestMap,
           UNCHANGED <<clock, ws, readyState, opened>>
    PROVE  IInv'
<1> DEFINE id == RequestId(kind)
           n == Len(calls')
<1>1. id \in Ids /\ id # Login /\ id = <<kind, clock>> /\ clock \in 0..MaxTime
  BY IdsApart DEF RequestId, IInv, TypeOK
<1>2. kind # "connect" /\ ws \in 0..MaxSockets /\ ws <= Len(readyState)
  BY CallsAreASequence, BoundsAssumption DEF Kinds, IInv, TypeOK
<1> HIDE DEF id
<1>3. /\ calls' \in Seq(Call) /\ n = Len(calls) + 1 /\ n <= MaxCalls
      /\ DOMAIN calls' = DOMAIN calls \cup {n} /\ n \notin DOMAIN calls
      /\ DOMAIN calls = 1..Len(calls) /\ Len(calls) \in Nat
      /\ \A i \in DOMAIN calls : calls'[i] = calls[i]
      /\ calls'[n] = [kind |-> kind, id |-> id, socket |-> ws, promise |-> promise,
                      message |-> message, answer |-> 0]
  <2> DEFINE new == [kind |-> kind, id |-> id, socket |-> ws, promise |-> promise,
                     message |-> message, answer |-> 0]
  <2>1. new \in Call
    BY <1>1, <1>2, BoundsAssumption DEF Call
  <2>2. TypeOK /\ Len(calls) < MaxCalls /\ calls' = Append(calls, new)
    BY DEF IInv, Return, id
  <2> HIDE DEF new
  <2>3. QED
    BY <2>1, <2>2, CallAppended DEF new
<1>4. /\ \A m \in Ids \ {id} : requestMap'[m] = requestMap[m]
      /\ requestMap'[id] = n \/ (promise = "rejected" /\ requestMap'[id] = requestMap[id])
      /\ requestMap' \in [Ids -> 0..n]
  <2>1. requestMap \in [Ids -> 0..Len(calls)] /\ Len(calls) \in Nat
    BY <1>3 DEF IInv, TypeOK
  <2>2. requestMap \in [Ids -> 0..n] /\ n \in 0..n
    BY <1>3, <2>1
  <2>3. requestMap' = [requestMap EXCEPT ![id] = n] \/ (promise = "rejected" /\ requestMap' = requestMap)
    BY DEF Await, id
  <2> HIDE DEF n
  <2>4. QED
    BY <1>1, <2>2, <2>3
<1> HIDE DEF n
<1> USE DEF IInv
<1>5. TypeOK'
  <2>1. \A m \in Ids : requestMap'[m] # 0 =>
            /\ calls'[requestMap'[m]].id = m
            /\ m # Login => calls'[requestMap'[m]].promise # "resolved"
    BY <1>3, <1>4 DEF TypeOK
  <2>2. requestMap' \in [Ids -> 0..Len(calls')]
    BY <1>4 DEF n
  <2>3. QED
    BY <1>3, <2>1, <2>2 DEF TypeOK, n
<1>6. \A i \in DOMAIN calls : calls[i].kind = kind /\ calls[i].id = id => SharesId(i)'
  BY <1>3 DEF SharesId
<1>7. ASSUME NEW i \in DOMAIN calls'
      PROVE  CallOK(i)' /\ RequestOK(i)'
  <2>1. CASE i = n
    <3>1. CallOK(i)'
      BY <1>1, <1>2, <1>3, <2>1 DEF CallOK, n
    <3>2. RequestOK(i)'
      BY <1>3, <1>4, <2>1 DEF RequestOK
    <3>3. QED
      BY <3>1, <3>2
  <2>2. CASE i \in DOMAIN calls
    <3>1. CallOK(i) /\ RequestOK(i) /\ calls[i].id \in Ids
      BY <2>2, CallsAreASequence DEF Call
    <3>2. CallOK(i)'
      <4>1. calls[i].answer \in Nat /\ calls[i].answer <= Len(calls')
        BY <1>3, <2>2, <3>1, CallsAreASequence DEF CallOK, n, Call
      <4>2. QED
        BY <1>3, <2>2, <3>1, <4>1 DEF CallOK
    <3>3. ASSUME calls[i].message \in {"sent", "ack"}
          PROVE  requestMap'[calls[i].id] = i \/ SharesId(i)'
      <4>1. CASE SharesId(i)
        BY <1>3, <2>2, <4>1, SharingStays
      <4>2. CASE requestMap[calls[i].id] = i /\ calls[i].id # id
        BY <1>4, <3>1, <4>2
      <4>3. CASE calls[i].id = id
        <5>1. calls[i].kind # "connect" /\ calls[i].kind \in Kinds
          BY <2>2, <3>1, <3>3, CallsAreASequence DEF CallOK, Call
        <5>2. calls[i].kind = kind
          BY <1>1, <3>1, <4>3, <5>1, IdsApart DEF CallOK
        <5>3. QED
          BY <1>6, <2>2, <4>3, <5>2
      <4>4. QED
        BY <3>1, <3>3, <4>1, <4>2, <4>3 DEF RequestOK
    <3>4. RequestOK(i)'
      BY <1>3, <2>2, <3>3 DEF RequestOK
    <3>5. QED
      BY <3>2, <3>4
  <2>3. QED
    BY <1>3, <2>1, <2>2
<1>8. LoginOK'
  <2>1. ws # 0 => requestMap'[Login] # 0 /\ calls'[requestMap'[Login]].socket = ws
    <3>1. requestMap'[Login] = requestMap[Login] /\ requestMap[Login] \in 0..Len(calls)
      BY <1>1, <1>4, IdsApart, CallsAreASequence
    <3>2. QED
      BY <1>3, <3>1 DEF LoginOK
  <2>2. \A i \in DOMAIN calls' : calls'[i].kind = "connect" =>
            i \in DOMAIN calls /\ calls'[i] = calls[i]
    BY <1>2, <1>3
  <2>3. QED
    BY <2>1, <2>2 DEF LoginOK
<1>9. AnswerOfOwnKind'
  <2>1. \A i \in DOMAIN calls : calls[i].answer \in 0..Len(calls)
    BY CallsAreASequence DEF CallOK, Call
  <2>2. QED
    BY <1>3, <2>1 DEF AnswerOfOwnKind
<1>10. OnlyCollisionsLoseAnswers'
  BY <1>3, SharingStays DEF OnlyCollisionsLoseAnswers
<1>11. ConnectResolvesWithItsSocket' /\ NoOrphanSocket'
  BY <1>2, <1>3 DEF ConnectResolvesWithItsSocket, NoOrphanSocket
<1>12. QED
  BY <1>5, <1>7, <1>8, <1>9, <1>10, <1>11

States == {"connecting", "open", "closing", "closed"}

\* After close() no socket is open or connecting.
LEMMA ClosingClosesAll ==
    ASSUME TypeOK, NoOrphanSocket
    PROVE  /\ Closing(readyState, ws) \in Seq(States)
           /\ Len(Closing(readyState, ws)) = Len(readyState)
           /\ \A s \in DOMAIN readyState : Closing(readyState, ws)[s] \in {"closing", "closed"}
<1>1. /\ readyState \in Seq(States) /\ DOMAIN readyState = 1..Len(readyState)
      /\ \A s \in DOMAIN readyState : s # ws => readyState[s] \in {"closing", "closed"}
      /\ ws # 0 => ws \in DOMAIN readyState
  BY CallsAreASequence DEF TypeOK, States, NoOrphanSocket
<1>2. CASE ws # 0 /\ readyState[ws] # "closed"
  <2>1. Closing(readyState, ws) = [readyState EXCEPT ![ws] = "closing"] /\ "closing" \in States
    BY <1>2 DEF Closing, States
  <2>2. QED
    BY <1>1, <1>2, <2>1, ExceptSeq
<1>3. CASE ~(ws # 0 /\ readyState[ws] # "closed")
  BY <1>1, <1>3 DEF Closing
<1>4. QED
  BY <1>2, <1>3

\* connect() closes the old sockets; only the one it makes, if any, is new.
LEMMA ConnectReplacesSocket ==
    ASSUME IInv, Connect \/ ConnectThrows
    PROVE  \E socket \in 0..MaxSockets : \E promise \in {"pending", "rejected"} :
        /\ Return("connect", Login, socket, promise, "unsent")
        /\ Await(Login)
        /\ ws' = socket /\ (promise = "rejected" <=> socket = 0)
        /\ socket # 0 => /\ socket \notin DOMAIN readyState
                         /\ readyState'[socket] = "connecting"
        /\ socket <= Len(readyState')
        /\ readyState' \in Seq(States) /\ Len(readyState') <= MaxSockets
        /\ Len(readyState) <= Len(readyState')
        /\ \A s \in DOMAIN readyState' \ {socket} : s \in DOMAIN readyState
        /\ \A s \in DOMAIN readyState :
                s \in DOMAIN readyState' /\ readyState'[s] \in {"closing", "closed"}
<1> DEFINE closed == Closing(readyState, ws)
<1>1. /\ closed \in Seq(States) /\ Len(closed) = Len(readyState)
      /\ DOMAIN readyState = 1..Len(readyState) /\ Len(readyState) \in Nat
      /\ Len(readyState) <= MaxSockets
      /\ \A s \in DOMAIN readyState : closed[s] \in {"closing", "closed"}
  BY ClosingClosesAll, CallsAreASequence DEF IInv, TypeOK
<1>2. CASE Connect
  <2>1. /\ Len(readyState) < MaxSockets /\ readyState' = Append(closed, "connecting")
        /\ ws' = Len(readyState') /\ Return("connect", Login, ws', "pending", "unsent")
        /\ Await(Login)
    BY <1>2 DEF Connect
  <2> HIDE DEF closed
  <2>2. "connecting" \in States
    BY DEF States
  <2>3. /\ readyState' \in Seq(States) /\ Len(readyState') = Len(readyState) + 1
        /\ \A s \in DOMAIN readyState : readyState'[s] = closed[s]
        /\ readyState'[Len(readyState) + 1] = "connecting"
    BY <1>1, <2>1, <2>2, AppendProperties
  <2>4. DOMAIN readyState' = 1..Len(readyState) + 1
    BY <2>3, LenProperties
  <2>5. /\ ws' \in 0..MaxSockets /\ ws' # 0 /\ Len(readyState') <= MaxSockets
        /\ ws' \notin DOMAIN readyState /\ readyState'[ws'] = "connecting"
    BY <1>1, <2>1, <2>3, BoundsAssumption
  <2>6. /\ \A s \in DOMAIN readyState' \ {ws'} : s \in DOMAIN readyState
        /\ \A s \in DOMAIN readyState : s \in DOMAIN readyState'
    BY <1>1, <2>1, <2>3, <2>4
  <2>7. /\ ws' <= Len(readyState') /\ Len(readyState) <= Len(readyState')
        /\ \A s \in DOMAIN readyState : readyState'[s] \in {"closing", "closed"}
    BY <1>1, <2>1, <2>3
  <2>8. QED
    BY <2>1, <2>3, <2>5, <2>6, <2>7
<1>3. CASE ConnectThrows
  <2>1. /\ readyState' = closed /\ ws' = 0 /\ Await(Login)
        /\ Return("connect", Login, 0, "rejected", "unsent")
    BY <1>3 DEF ConnectThrows
  <2> HIDE DEF closed
  <2>2. DOMAIN readyState' = DOMAIN readyState
    BY <1>1, <2>1, LenProperties
  <2>3. 0 \in 0..MaxSockets
    BY BoundsAssumption
  <2>4. QED
    BY <1>1, <2>1, <2>2, <2>3
<1>4. QED
  BY <1>2, <1>3

\* connect(), with a socket or without one: its promise is the one 'login'
\* leads to, the old sockets are closed and the calls before keep theirs.
LEMMA ConnectMadeKeepsIInv ==
    ASSUME IInv, Connect \/ ConnectThrows
    PROVE  IInv'
<1> DEFINE n == Len(calls')
<1>1. PICK socket \in 0..MaxSockets, promise \in {"pending", "rejected"} :
        /\ Return("connect", Login, socket, promise, "unsent")
        /\ Await(Login)
        /\ ws' = socket /\ (promise = "rejected" <=> socket = 0)
        /\ socket # 0 => /\ socket \notin DOMAIN readyState
                         /\ readyState'[socket] = "connecting"
        /\ socket <= Len(readyState')
        /\ readyState' \in Seq(States) /\ Len(readyState') <= MaxSockets
        /\ Len(readyState) <= Len(readyState')
        /\ \A s \in DOMAIN readyState' \ {socket} : s \in DOMAIN readyState
        /\ \A s \in DOMAIN readyState :
                s \in DOMAIN readyState' /\ readyState'[s] \in {"closing", "closed"}
  BY ConnectReplacesSocket
<1>2. UNCHANGED <<clock, opened>>
  BY DEF Connect, ConnectThrows
<1>3. Login \in Ids
  BY IdsApart
<1>4. /\ calls' \in Seq(Call) /\ n = Len(calls) + 1 /\ n <= MaxCalls
      /\ DOMAIN calls' = DOMAIN calls \cup {n} /\ n \notin DOMAIN calls
      /\ DOMAIN calls = 1..Len(calls) /\ Len(calls) \in Nat
      /\ \A i \in DOMAIN calls : calls'[i] = calls[i]
      /\ calls'[n] = [kind |-> "connect", id |-> Login, socket |-> socket, promise |-> promise,
                      message |-> "unsent", answer |-> 0]
  <2> DEFINE new == [kind |-> "connect", id |-> Login, socket |-> socket, promise |-> promise,
                     message |-> "unsent", answer |-> 0]
  <2>1. new \in Call
    BY <1>3, BoundsAssumption DEF Call
  <2>2. TypeOK /\ Len(calls) < MaxCalls /\ calls' = Append(calls, new)
    BY <1>1 DEF Return, IInv
  <2> HIDE DEF new
  <2>3. QED
    BY <2>1, <2>2, CallAppended DEF new
<1>5. requestMap' = [requestMap EXCEPT ![Login] = n]
  BY <1>1 DEF Await
<1>6. n \in Nat /\ n # 0 /\ Len(calls) < n
  BY <1>4
<1> HIDE DEF n
<1>7. /\ requestMap' \in [Ids -> 0..n] /\ requestMap'[Login] = n
      /\ \A m \in Ids \ {Login} : requestMap'[m] = requestMap[m]
  <2>1. requestMap \in [Ids -> 0..n] /\ n \in 0..n
    BY <1>4, <1>6 DEF TypeOK, IInv
  <2>2. QED
    BY <1>5, <1>3, <2>1
<1>8. /\ \A m \in Ids : requestMap[m] \in 0..Len(calls)
      /\ \A i \in DOMAIN calls : calls[i] \in Call /\ CallOK(i) /\ RequestOK(i)
  BY CallsAreASequence DEF IInv
<1>9. \A i \in DOMAIN calls : calls[i].socket \in Nat /\ calls[i].answer \in Nat
                              /\ calls[i].id \in Ids
  BY <1>8 DEF Call
<1>10. opened \subseteq DOMAIN readyState
  BY DEF IInv, TypeOK
<1>11. TypeOK'
  <2>1. \A m \in Ids : requestMap'[m] # 0 =>
            /\ calls'[requestMap'[m]].id = m
            /\ m # Login => calls'[requestMap'[m]].promise # "resolved"
    <3>1. ASSUME NEW m \in Ids \ {Login}, requestMap[m] # 0
          PROVE  /\ calls'[requestMap[m]].id = m /\ calls'[requestMap[m]].promise # "resolved"
      <4>1. requestMap[m] \in DOMAIN calls
        BY <1>4, <1>8, <3>1
      <4>2. QED
        BY <1>4, <3>1, <4>1 DEF IInv, TypeOK
    <3>2. calls'[n].id = Login
      BY <1>4
    <3>3. QED
      BY <1>7, <3>1, <3>2
  <2>2. ws' \in 0..Len(readyState')
    <3>1. Len(readyState') \in Nat
      BY <1>1, LenProperties
    <3>2. QED
      BY <1>1, <3>1
  <2>3. opened' \subseteq DOMAIN readyState'
    BY <1>1, <1>2, <1>10
  <2>4. readyState' \in Seq({"connecting", "open", "closing", "closed"})
    BY <1>1 DEF States
  <2>5. clock' \in 0..MaxTime /\ Len(readyState') <= MaxSockets
    BY <1>1, <1>2 DEF IInv, TypeOK
  <2>6. QED
    BY <1>4, <1>7, <2>1, <2>2, <2>3, <2>4, <2>5 DEF TypeOK, n
<1>12. Len(readyState) \in Nat /\ Len(readyState') \in Nat
  BY <1>1, LenProperties, CallsAreASequence DEF IInv
<1>13. ASSUME NEW i \in DOMAIN calls
       PROVE  CallOK(i)' /\ RequestOK(i)'
  <2>1. /\ calls'[i] = calls[i] /\ calls[i] \in Call /\ CallOK(i) /\ RequestOK(i)
        /\ calls[i].id \in Ids
    BY <1>4, <1>8, <1>9
  <2>2. CallOK(i)'
    <3>1. calls[i].socket <= Len(readyState') /\ calls[i].answer <= Len(calls')
      BY <1>1, <1>4, <1>6, <1>9, <1>12, <2>1 DEF CallOK, n
    <3>2. QED
      BY <2>1, <3>1 DEF CallOK
  <2>3. ASSUME calls[i].message \in {"sent", "ack"}
        PROVE  requestMap'[calls[i].id] = i \/ SharesId(i)'
    <3>1. calls[i].id # Login
      <4>1. calls[i].kind # "connect"
        BY <2>1, <2>3 DEF CallOK
      <4>2. calls[i].kind \in Kinds /\ \E t \in 0..MaxTime : calls[i].id = <<calls[i].kind, t>>
        BY <2>1, <4>1 DEF CallOK, Call
      <4>3. QED
        BY <4>2, IdsApart
    <3>2. SharesId(i) => SharesId(i)'
      BY <1>4, SharingStays
    <3>3. QED
      BY <1>7, <2>1, <2>3, <3>1, <3>2 DEF RequestOK
  <2>4. QED
    BY <2>1, <2>2, <2>3 DEF RequestOK
<1>14. ASSUME NEW i \in {n}
       PROVE  CallOK(i)' /\ RequestOK(i)'
  <2>1. 0 <= Len(calls')
    BY <1>6 DEF n
  <2>2. /\ calls'[i].kind = "connect" /\ calls'[i].id = Login /\ calls'[i].socket = socket
        /\ calls'[i].promise = promise /\ calls'[i].message = "unsent" /\ calls'[i].answer = 0
    BY <1>4
  <2>3. CallOK(i)'
    BY <1>1, <2>1, <2>2 DEF CallOK
  <2>4. QED
    BY <2>2, <2>3 DEF RequestOK
<1>15. LoginOK'
  <2>1. requestMap'[Login] # 0 /\ calls'[requestMap'[Login]].socket = ws'
    BY <1>1, <1>4, <1>6, <1>7
  <2>2. \A i \in DOMAIN calls : socket # 0 => calls[i].socket # socket
    <3>1. \A s \in Nat : s # 0 /\ s <= Len(readyState) => s \in DOMAIN readyState
      BY CallsAreASequence DEF IInv
    <3>2. QED
      BY <1>1, <1>8, <1>9, <3>1 DEF CallOK
  <2>3. \A s \in opened' : readyState'[s] # "connecting"
    BY <1>1, <1>2, <1>10
  <2>4. \A i, j \in DOMAIN calls :
            /\ calls[i].kind = "connect" /\ calls[j].kind = "connect"
            /\ calls[i].socket = calls[j].socket /\ calls[i].socket # 0
            => i = j
    BY DEF IInv, LoginOK
  <2>5. \A i, j \in DOMAIN calls' :
            /\ calls'[i].kind = "connect" /\ calls'[j].kind = "connect"
            /\ calls'[i].socket = calls'[j].socket /\ calls'[i].socket # 0
            => i = j
    BY <1>4, <2>2, <2>4
  <2>6. QED
    BY <2>1, <2>3, <2>5 DEF LoginOK
<1>16. AnswerOfOwnKind'
  <2>1. \A i \in DOMAIN calls : calls[i].answer # 0 => calls[i].answer \in DOMAIN calls
    BY <1>4, <1>8, <1>9 DEF CallOK
  <2>2. QED
    BY <1>4, <2>1 DEF AnswerOfOwnKind, IInv
<1>17. OnlyCollisionsLoseAnswers'
  BY <1>4, SharingStays DEF OnlyCollisionsLoseAnswers, IInv
<1>18. ConnectResolvesWithItsSocket'
  <2>1. socket \notin opened
    <3>1. 0 \notin DOMAIN readyState
      BY CallsAreASequence DEF IInv
    <3>2. QED
      BY <1>1, <1>10, <3>1
  <2>2. calls'[n].promise # "resolved" /\ calls'[n].socket = socket
    BY <1>4
  <2>3. QED
    BY <1>2, <1>4, <2>1, <2>2 DEF ConnectResolvesWithItsSocket, IInv
<1>19. NoOrphanSocket'
  BY <1>1 DEF NoOrphanSocket
<1>20. \A i \in DOMAIN calls' : CallOK(i)' /\ RequestOK(i)'
  BY <1>4, <1>13, <1>14
<1>21. QED
  BY <1>11, <1>15, <1>16, <1>17, <1>18, <1>19, <1>20 DEF IInv

\* close(), and a socket that closes: some sockets are closing or closed now.
LEMMA SocketsClosedKeepIInv ==
    ASSUME IInv, ws' \in {0, ws},
           readyState' \in Seq(States), Len(readyState') = Len(readyState),
           \A s \in DOMAIN readyState :
                \/ readyState'[s] \in {"closing", "closed"}
                \/ readyState'[s] = readyState[s] /\ ws' = ws,
           UNCHANGED <<clock, requestMap, calls, opened>>
    PROVE  IInv'
<1>1. DOMAIN readyState' = DOMAIN readyState
  BY CallsAreASequence, LenProperties DEF IInv
<1>2. TypeOK'
  <2>1. ws' \in 0..Len(readyState')
    BY CallsAreASequence DEF IInv, TypeOK
  <2>2. QED
    BY <1>1, <2>1 DEF IInv, TypeOK, States
<1>3. \A i \in DOMAIN calls' : CallOK(i)' /\ RequestOK(i)'
  BY DEF IInv, CallOK, RequestOK, SharesId
<1>4. LoginOK'
  <2>1. \A s \in opened : s \in DOMAIN readyState /\ readyState[s] # "connecting"
    BY DEF IInv, TypeOK, LoginOK
  <2>2. \A s \in opened' : readyState'[s] # "connecting"
    BY <2>1
  <2>3. QED
    BY <2>2 DEF IInv, LoginOK
<1>5. NoOrphanSocket'
  BY <1>1 DEF IInv, NoOrphanSocket
<1>6. AnswerOfOwnKind' /\ ConnectResolvesWithItsSocket'
  BY DEF IInv, AnswerOfOwnKind, ConnectResolvesWithItsSocket
<1>7. OnlyCollisionsLoseAnswers'
  BY DEF IInv, OnlyCollisionsLoseAnswers, SharesId
<1>8. QED
  BY <1>2, <1>3, <1>4, <1>5, <1>6, <1>7 DEF IInv

LEMMA CloseKeepsIInv == IInv /\ Close => IInv'
<1> SUFFICES ASSUME IInv, Close
             PROVE  IInv'
  OBVIOUS
<1>1. TypeOK /\ NoOrphanSocket
  BY DEF IInv
<1>2. QED
  BY <1>1, ClosingClosesAll, SocketsClosedKeepIInv DEF Close

LEMMA ClosesKeepsIInv ==
    ASSUME IInv, NEW s \in DOMAIN readyState, Closes(s)
    PROVE  IInv'
<1>1. readyState \in Seq(States) /\ "closed" \in States
  BY DEF IInv, TypeOK, States
<1>2. readyState' = [readyState EXCEPT ![s] = "closed"]
  BY DEF Closes
<1>3. /\ readyState' \in Seq(States) /\ Len(readyState') = Len(readyState)
      /\ \A t \in DOMAIN readyState :
            readyState'[t] = IF t = s THEN "closed" ELSE readyState[t]
  BY <1>1, <1>2, ExceptSeq
<1>4. QED
  BY <1>3, SocketsClosedKeepIInv DEF Closes

\* The id of a call tells its kind.
LEMMA IdTellsKind ==
    ASSUME IInv
    PROVE  /\ \A i \in DOMAIN calls : calls[i].id = Login <=> calls[i].kind = "connect"
           /\ \A i, j \in DOMAIN calls :
                calls[i].id = calls[j].id => calls[i].kind = calls[j].kind
<1>1. ASSUME NEW i \in DOMAIN calls
      PROVE  /\ calls[i].kind = "connect" => calls[i].id = Login
             /\ calls[i].kind # "connect" =>
                    /\ calls[i].kind \in Kinds
                    /\ \E t \in 0..MaxTime : calls[i].id = <<calls[i].kind, t>>
  <2>1. calls[i] \in Call /\ CallOK(i)
    BY CallsAreASequence DEF IInv
  <2>2. QED
    BY <2>1 DEF CallOK, Call
<1>2. \A i \in DOMAIN calls : calls[i].id = Login <=> calls[i].kind = "connect"
  BY <1>1, IdsApart
<1>3. ASSUME NEW i \in DOMAIN calls, NEW j \in DOMAIN calls, calls[i].id = calls[j].id
      PROVE  calls[i].kind = calls[j].kind
  <2>1. CASE calls[i].id = Login
    BY <1>2, <1>3, <2>1
  <2>2. CASE calls[i].id # Login
    BY <1>1, <1>2, <1>3, <2>2, IdsApart
  <2>3. QED
    BY <2>1, <2>2
<1>4. QED
  BY <1>2, <1>3

\* A step that neither makes calls nor changes what they asked for.
LEMMA SharingUnchanged ==
    ASSUME DOMAIN calls' = DOMAIN calls, NEW i \in DOMAIN calls,
           \A j \in DOMAIN calls : calls'[j].kind = calls[j].kind /\ calls'[j].id = calls[j].id
    PROVE  SharesId(i)' <=> SharesId(i)
BY DEF SharesId

\* A socket opens: it is the current one, and the promise that 'login' leads to
\* is the pending one of the connect() that made it.
LEMMA OpensKeepsIInv ==
    ASSUME IInv, NEW s \in DOMAIN readyState, Opens(s)
    PROVE  IInv'
<1> DEFINE k == requestMap[Login]
<1>1. /\ TypeOK /\ DOMAIN calls = 1..Len(calls) /\ DOMAIN readyState = 1..Len(readyState)
      /\ \A i \in DOMAIN calls : calls[i] \in Call /\ CallOK(i) /\ RequestOK(i)
      /\ k \in 0..Len(calls)
  BY CallsAreASequence, IdsApart DEF IInv
<1>2. s = ws /\ ws # 0 /\ s \notin opened
  BY <1>1 DEF Opens, IInv, NoOrphanSocket, LoginOK
<1>3. /\ k \in DOMAIN calls /\ calls[k].socket = s /\ calls[k].id = Login
  BY <1>1, <1>2, IdsApart DEF IInv, LoginOK, TypeOK
<1>4. calls[k].kind = "connect" /\ calls[k].promise = "pending"
  <2>1. calls[k].kind = "connect"
    BY <1>3, IdTellsKind
  <2>2. calls[k].promise # "resolved"
    BY <1>2, <1>3, <2>1 DEF IInv, ConnectResolvesWithItsSocket
  <2>3. calls[k].promise # "rejected"
    BY <1>1, <1>2, <1>3, <2>1 DEF CallOK
  <2>4. QED
    BY <1>1, <1>3, <2>1, <2>2, <2>3 DEF Call
<1>5. /\ calls' = [calls EXCEPT ![k].promise = Resolved(@)]
      /\ readyState' = [readyState EXCEPT ![s] = "open"]
      /\ opened' = opened \cup {s}
      /\ UNCHANGED <<clock, ws, requestMap>>
  BY DEF Opens
<1> HIDE DEF k
<1>6. /\ calls' \in Seq(Call) /\ Len(calls') = Len(calls) /\ DOMAIN calls' = DOMAIN calls
      /\ \A i \in DOMAIN calls : i # k => calls'[i] = calls[i]
      /\ calls'[k] = [calls[k] EXCEPT !.promise = "resolved"]
  <2> DEFINE new == [calls[k] EXCEPT !.promise = "resolved"]
  <2>1. new \in Call
    BY <1>1, <1>3 DEF Call
  <2>2. calls' = [calls EXCEPT ![k] = new] /\ calls \in Seq(Call)
    BY <1>1, <1>4, <1>5 DEF TypeOK, Resolved
  <2> HIDE DEF new
  <2>3. QED
    BY <1>3, <2>1, <2>2, ExceptSeq, LenProperties DEF new
<1>7. \A i \in DOMAIN calls :
        /\ calls'[i].kind = calls[i].kind /\ calls'[i].id = calls[i].id
        /\ calls'[i].socket = calls[i].socket /\ calls'[i].message = calls[i].message
        /\ calls'[i].answer = calls[i].answer
        /\ calls'[i].promise = IF i = k THEN "resolved" ELSE calls[i].promise
  BY <1>1, <1>3, <1>6 DEF Call
<1>8. /\ readyState' \in Seq(States) /\ Len(readyState') = Len(readyState)
      /\ DOMAIN readyState' = DOMAIN readyState
      /\ \A t \in DOMAIN readyState :
            readyState'[t] = IF t = s THEN "open" ELSE readyState[t]
  <2>1. readyState \in Seq(States) /\ "open" \in States
    BY <1>1 DEF TypeOK, States
  <2>2. QED
    BY <1>5, <2>1, ExceptSeq, LenProperties
<1>9. TypeOK'
  <2>1. \A m \in Ids : requestMap'[m] # 0 =>
            /\ calls'[requestMap'[m]].id = m
            /\ m # Login => calls'[requestMap'[m]].promise # "resolved"
    <3>1. ASSUME NEW m \in Ids, requestMap[m] # 0
          PROVE  /\ requestMap[m] \in DOMAIN calls /\ calls[requestMap[m]].id = m
                 /\ m # Login => requestMap[m] # k /\ calls[requestMap[m]].promise # "resolved"
      BY <1>1, <1>3, <3>1, CallsAreASequence DEF TypeOK
    <3>2. QED
      BY <1>5, <1>7, <3>1
  <2>2. requestMap' \in [Ids -> 0..Len(calls')] /\ Len(calls') <= MaxCalls /\ clock' \in 0..MaxTime
    BY <1>1, <1>5, <1>6 DEF TypeOK
  <2>3. ws' \in 0..Len(readyState') /\ Len(readyState') <= MaxSockets
    BY <1>1, <1>5, <1>8 DEF TypeOK
  <2>4. opened' \subseteq DOMAIN readyState'
    BY <1>1, <1>5, <1>8 DEF TypeOK
  <2>5. QED
    BY <1>6, <1>8, <2>1, <2>2, <2>3, <2>4 DEF TypeOK, States
<1>10. ASSUME NEW i \in DOMAIN calls'
       PROVE  CallOK(i)' /\ RequestOK(i)'
  <2>1. i \in DOMAIN calls /\ CallOK(i) /\ RequestOK(i)
    BY <1>1, <1>6
  <2>2. CallOK(i)'
    BY <1>4, <1>6, <1>7, <1>8, <2>1 DEF CallOK
  <2>3. SharesId(i)' <=> SharesId(i)
    BY <1>6, <1>7, <2>1, SharingUnchanged
  <2>4. RequestOK(i)'
    BY <1>5, <1>7, <2>1, <2>3 DEF RequestOK
  <2>5. QED
    BY <2>2, <2>4
<1>11. LoginOK'
  <2>1. ws' # 0 => requestMap'[Login] # 0 /\ calls'[requestMap'[Login]].socket = ws'
    BY <1>1, <1>2, <1>3, <1>5, <1>7 DEF k
  <2>2. \A i, j \in DOMAIN calls' :
            /\ calls'[i].kind = "connect" /\ calls'[j].kind = "connect"
            /\ calls'[i].socket = calls'[j].socket /\ calls'[i].socket # 0
            => i = j
    BY <1>6, <1>7 DEF IInv, LoginOK
  <2>3. \A t \in opened' : readyState'[t] # "connecting"
    BY <1>1, <1>5, <1>8 DEF IInv, TypeOK, LoginOK
  <2>4. QED
    BY <2>1, <2>2, <2>3 DEF LoginOK
<1>12. ConnectResolvesWithItsSocket'
  <2>1. \A i \in DOMAIN calls : calls[i].kind = "connect" /\ calls[i].socket = s => i = k
    BY <1>1, <1>2, <1>3, <1>4 DEF IInv, LoginOK
  <2>2. \A i \in DOMAIN calls : calls[i].kind = "connect" =>
            (calls[i].promise = "resolved" <=> calls[i].socket \in opened)
    BY DEF IInv, ConnectResolvesWithItsSocket
  <2>3. \A i \in DOMAIN calls : calls[i].kind = "connect" =>
            (calls'[i].promise = "resolved" <=> calls[i].socket \in opened \cup {s})
    BY <1>3, <1>7, <2>1, <2>2
  <2>4. QED
    BY <1>5, <1>6, <1>7, <2>3 DEF ConnectResolvesWithItsSocket
<1>13. AnswerOfOwnKind'
  <2>1. \A i \in DOMAIN calls : calls[i].answer # 0 => calls[i].answer \in DOMAIN calls
    BY <1>1 DEF CallOK, Call
  <2>2. QED
    BY <1>4, <1>6, <1>7, <2>1 DEF IInv, AnswerOfOwnKind
<1>14. OnlyCollisionsLoseAnswers'
  BY <1>6, <1>7, SharingUnchanged DEF IInv, OnlyCollisionsLoseAnswers
<1>15. NoOrphanSocket'
  BY <1>2, <1>5, <1>8 DEF IInv, NoOrphanSocket
<1>16. QED
  BY <1>9, <1>10, <1>11, <1>12, <1>13, <1>14, <1>15 DEF IInv

\* A message that is not a delivered acknowledgement moves on.
LEMMA MessageMovesKeepsIInv ==
    ASSUME IInv, NEW i \in DOMAIN calls, NEW m \in {"ack", "error", "refused"},
           calls[i].message \in {"sent", "error"},
           m = "ack" => calls[i].message = "sent",
           calls' = [calls EXCEPT ![i].message = m],
           UNCHANGED <<clock, ws, readyState, requestMap, opened>>
    PROVE  IInv'
<1>1. /\ TypeOK /\ DOMAIN calls = 1..Len(calls)
      /\ \A j \in DOMAIN calls : calls[j] \in Call /\ CallOK(j) /\ RequestOK(j)
  BY CallsAreASequence DEF IInv
<1>2. /\ calls' \in Seq(Call) /\ Len(calls') = Len(calls) /\ DOMAIN calls' = DOMAIN calls
      /\ \A j \in DOMAIN calls :
            calls'[j] = IF j = i THEN [calls[i] EXCEPT !.message = m] ELSE calls[j]
  <2> DEFINE new == [calls[i] EXCEPT !.message = m]
  <2>1. new \in Call
    BY <1>1 DEF Call
  <2>2. calls' = [calls EXCEPT ![i] = new] /\ calls \in Seq(Call)
    BY <1>1 DEF TypeOK
  <2> HIDE DEF new
  <2>3. QED
    BY <2>1, <2>2, ExceptSeq, LenProperties DEF new
<1>3. \A j \in DOMAIN calls :
        /\ calls'[j].kind = calls[j].kind /\ calls'[j].id = calls[j].id
        /\ calls'[j].socket = calls[j].socket /\ calls'[j].answer = calls[j].answer
        /\ calls'[j].promise = calls[j].promise
        /\ calls'[j].message = IF j = i THEN m ELSE calls[j].message
  BY <1>1, <1>2 DEF Call
<1>4. TypeOK'
  <2>1. \A id \in Ids : requestMap'[id] # 0 =>
            /\ calls'[requestMap'[id]].id = id
            /\ id # Login => calls'[requestMap'[id]].promise # "resolved"
    <3>1. \A id \in Ids : requestMap[id] # 0 => requestMap[id] \in DOMAIN calls
      BY <1>1, CallsAreASequence
    <3>2. QED
      BY <1>1, <1>3, <3>1 DEF TypeOK
  <2>2. QED
    BY <1>1, <1>2, <2>1 DEF TypeOK
<1>5. ASSUME NEW j \in DOMAIN calls'
      PROVE  CallOK(j)' /\ RequestOK(j)'
  <2>1. j \in DOMAIN calls /\ CallOK(j) /\ RequestOK(j)
    BY <1>1, <1>2
  <2>2. CallOK(j)'
    BY <1>2, <1>3, <2>1 DEF CallOK
  <2>3. SharesId(j)' <=> SharesId(j)
    BY <1>2, <1>3, <2>1, SharingUnchanged
  <2>4. RequestOK(j)'
    BY <1>3, <2>1, <2>3 DEF RequestOK
  <2>5. QED
    BY <2>2, <2>4
<1>6. LoginOK'
  <2>1. ws # 0 => requestMap[Login] # 0 /\ requestMap[Login] \in DOMAIN calls
    BY <1>1, CallsAreASequence, IdsApart DEF IInv, LoginOK
  <2>2. QED
    BY <1>2, <1>3, <2>1 DEF IInv, LoginOK
<1>7. AnswerOfOwnKind'
  <2>1. \A j \in DOMAIN calls : calls[j].answer # 0 => calls[j].answer \in DOMAIN calls
    BY <1>1 DEF CallOK, Call
  <2>2. QED
    BY <1>2, <1>3, <2>1 DEF IInv, AnswerOfOwnKind
<1>8. OnlyCollisionsLoseAnswers'
  BY <1>2, <1>3, SharingUnchanged DEF IInv, OnlyCollisionsLoseAnswers
<1>9. ConnectResolvesWithItsSocket' /\ NoOrphanSocket'
  BY <1>2, <1>3 DEF IInv, ConnectResolvesWithItsSocket, NoOrphanSocket
<1>10. QED
  BY <1>4, <1>5, <1>6, <1>7, <1>8, <1>9 DEF IInv

\* An acknowledgement is delivered: the callback under its id, if it is still
\* there, is of a call of the same kind and milisecond; it is the request's own
\* unless the id is shared.
LEMMA ReceiveAckKeepsIInv ==
    ASSUME IInv, NEW i \in DOMAIN calls, ReceiveAck(i)
    PROVE  IInv'
<1> DEFINE id == calls[i].id
           h == requestMap[id]
           settles(j) == j = h /\ calls[j].promise = "pending"
<1>1. /\ TypeOK /\ DOMAIN calls = 1..Len(calls) /\ Len(calls) \in Nat
      /\ \A j \in DOMAIN calls : calls[j] \in Call /\ CallOK(j) /\ RequestOK(j)
  BY CallsAreASequence DEF IInv
<1>2. /\ calls[i].message = "ack" /\ calls' = Settled(i, h)
      /\ requestMap' = [requestMap EXCEPT ![id] = 0]
      /\ UNCHANGED <<clock, ws, readyState, opened>>
  BY DEF ReceiveAck
<1>3. id \in Ids /\ id # Login /\ calls[i].kind # "connect" /\ calls[i].promise # "rejected"
  <2>1. calls[i].kind # "connect" /\ calls[i].promise # "rejected"
    BY <1>1, <1>2 DEF CallOK
  <2>2. QED
    BY <1>1, <2>1, IdTellsKind DEF Call
<1>4. h \in 0..Len(calls) /\ (h = i \/ SharesId(i))
  BY <1>1, <1>2, <1>3, CallsAreASequence DEF RequestOK
<1>5. h # 0 => /\ h \in DOMAIN calls /\ calls[h].id = id /\ calls[h].kind = calls[i].kind
               /\ calls[h].promise # "resolved"
  <2>1. h # 0 => h \in DOMAIN calls /\ calls[h].id = id /\ calls[h].promise # "resolved"
    BY <1>1, <1>3, <1>4 DEF TypeOK
  <2>2. QED
    BY <2>1, IdTellsKind
<1>6. /\ requestMap' \in [Ids -> 0..Len(calls)] /\ requestMap'[id] = 0
      /\ \A m \in Ids \ {id} : requestMap'[m] = requestMap[m]
  BY <1>1, <1>2, <1>3 DEF TypeOK
<1> HIDE DEF h, id
<1>7. /\ calls' \in Seq(Call) /\ Len(calls') = Len(calls) /\ DOMAIN calls' = DOMAIN calls
      /\ \A j \in DOMAIN calls :
            /\ calls'[j].kind = calls[j].kind /\ calls'[j].id = calls[j].id
            /\ calls'[j].socket = calls[j].socket
            /\ calls'[j].message = IF j = i THEN "delivered" ELSE calls[j].message
            /\ calls'[j].promise = IF settles(j) THEN "resolved" ELSE calls[j].promise
            /\ calls'[j].answer = IF settles(j) THEN i ELSE calls[j].answer
  <2>1. calls' = [j \in 1..Len(calls) |-> calls'[j]]
    BY <1>1, <1>2 DEF Settled
  <2>2. ASSUME NEW j \in DOMAIN calls
        PROVE  /\ calls'[j] \in Call
               /\ calls'[j].kind = calls[j].kind /\ calls'[j].id = calls[j].id
               /\ calls'[j].socket = calls[j].socket
               /\ calls'[j].message = IF j = i THEN "delivered" ELSE calls[j].message
               /\ calls'[j].promise = IF settles(j) THEN "resolved" ELSE calls[j].promise
               /\ calls'[j].answer = IF settles(j) THEN i ELSE calls[j].answer
    <3>1. calls'[j] = [calls[j] EXCEPT
                        !.message = IF j = i THEN "delivered" ELSE @,
                        !.promise = IF j = h THEN Resolved(@) ELSE @,
                        !.answer = IF settles(j) THEN i ELSE @]
      BY <1>2 DEF Settled
    <3>2. calls[j] \in Call /\ i \in 0..MaxCalls
      BY <1>1, BoundsAssumption DEF TypeOK
    <3>3. (IF j = h THEN Resolved(calls[j].promise) ELSE calls[j].promise)
             = IF settles(j) THEN "resolved" ELSE calls[j].promise
      BY DEF Resolved
    <3>4. QED
      BY <3>1, <3>2, <3>3 DEF Call
  <2>3. calls' \in Seq(Call)
    BY <1>1, <2>1, <2>2, IsASeq
  <2>4. DOMAIN calls' = DOMAIN calls
    BY <1>1, <2>1
  <2>5. Len(calls') = Len(calls)
    BY <1>1, <2>3, <2>4, LenProperties
  <2>6. QED
    BY <2>2, <2>3, <2>4, <2>5
<1>8. \A j \in DOMAIN calls : settles(j) => calls[j].id = id /\ calls[j].kind = calls[i].kind
                                            /\ calls[j].kind # "connect"
  BY <1>1, <1>3, <1>5
<1>9. \A j \in DOMAIN calls : SharesId(j)' <=> SharesId(j)
  BY <1>7, SharingUnchanged
<1>10. \A j \in DOMAIN calls \ {i} : calls[j].id = id => SharesId(j)
  BY IdTellsKind DEF SharesId, id
<1>11. TypeOK'
  <2>1. \A m \in Ids : requestMap'[m] # 0 =>
            /\ calls'[requestMap'[m]].id = m
            /\ m # Login => calls'[requestMap'[m]].promise # "resolved"
    <3>1. ASSUME NEW m \in Ids \ {id}, requestMap[m] # 0
          PROVE  /\ requestMap[m] \in DOMAIN calls /\ calls[requestMap[m]].id = m
                 /\ m # Login => calls[requestMap[m]].promise # "resolved"
      BY <1>1, <3>1, CallsAreASequence DEF TypeOK
    <3>2. QED
      BY <1>6, <1>7, <1>8, <3>1
  <2>2. QED
    BY <1>1, <1>2, <1>6, <1>7, <2>1 DEF TypeOK
<1>12. ASSUME NEW j \in DOMAIN calls'
       PROVE  CallOK(j)' /\ RequestOK(j)'
  <2>1. j \in DOMAIN calls /\ CallOK(j) /\ RequestOK(j) /\ calls[j].id \in Ids
    BY <1>1, <1>7 DEF Call
  <2>2. CallOK(j)'
    BY <1>1, <1>2, <1>3, <1>7, <1>8, <2>1 DEF CallOK
  <2>3. RequestOK(j)'
    BY <1>6, <1>7, <1>9, <1>10, <2>1 DEF RequestOK
  <2>4. QED
    BY <2>2, <2>3
<1>13. LoginOK'
  <2>1. ws # 0 => requestMap[Login] # 0 /\ requestMap[Login] \in DOMAIN calls
    BY <1>1, CallsAreASequence, IdsApart DEF IInv, LoginOK
  <2>2. requestMap'[Login] = requestMap[Login]
    BY <1>3, <1>6, IdsApart
  <2>3. QED
    BY <1>2, <1>7, <2>1, <2>2 DEF IInv, LoginOK
<1>14. AnswerOfOwnKind'
  <2>1. \A j \in DOMAIN calls : calls[j].answer # 0 => calls[j].answer \in DOMAIN calls
    BY <1>1 DEF CallOK, Call
  <2>2. ASSUME NEW j \in DOMAIN calls, calls[j].kind # "connect", calls'[j].promise = "resolved"
        PROVE  /\ calls'[j].answer # 0 /\ calls'[calls'[j].answer].message = "delivered"
               /\ calls'[calls'[j].answer].kind = calls[j].kind
               /\ calls'[calls'[j].answer].id = calls[j].id
    <3>1. CASE settles(j)
      BY <1>1, <1>7, <1>8, <3>1 DEF id
    <3>2. CASE ~settles(j)
      BY <1>7, <2>1, <2>2, <3>2 DEF IInv, AnswerOfOwnKind
    <3>3. QED
      BY <3>1, <3>2
  <2>3. QED
    BY <1>7, <2>2 DEF AnswerOfOwnKind
<1>15. OnlyCollisionsLoseAnswers'
  <2>1. ASSUME NEW j \in DOMAIN calls, calls'[j].message = "delivered", calls'[j].answer # j
        PROVE  SharesId(j)
    <3>1. CASE j = i
      <4>1. h = i => settles(i)
        BY <1>1, <1>3, <1>5 DEF Call
      <4>2. QED
        BY <1>4, <1>7, <2>1, <3>1, <4>1
    <3>2. CASE j # i /\ settles(j)
      BY <1>8, <1>10, <3>2
    <3>3. CASE j # i /\ ~settles(j)
      BY <1>7, <2>1, <3>3 DEF IInv, OnlyCollisionsLoseAnswers
    <3>4. QED
      BY <3>1, <3>2, <3>3
  <2>2. QED
    BY <1>7, <1>9, <2>1 DEF OnlyCollisionsLoseAnswers
<1>16. ConnectResolvesWithItsSocket' /\ NoOrphanSocket'
  BY <1>2, <1>7, <1>8 DEF IInv, ConnectResolvesWithItsSocket, NoOrphanSocket
<1>17. QED
  BY <1>11, <1>12, <1>13, <1>14, <1>15, <1>16 DEF IInv

LEMMA RequestKeepsIInv ==
    ASSUME IInv, NEW kind \in Kinds, Request(kind)
    PROVE  IInv'
<1>1. CASE Return(kind, RequestId(kind), ws, "pending", "sent") /\ Await(RequestId(kind))
  BY <1>1, RequestMadeKeepsIInv DEF Request
<1>2. CASE Return(kind, RequestId(kind), ws, "rejected", "unsent") /\ UNCHANGED requestMap
  BY <1>2, RequestMadeKeepsIInv DEF Request
<1>3. QED
  BY <1>1, <1>2 DEF Request

LEMMA ListSubscriptionsKeepsIInv ==
    ASSUME IInv, ListSubscriptions
    PROVE  IInv'
<1> DEFINE kind == "listSubscriptions"
<1>1. PICK promise \in {"pending", "rejected"}, message \in {"unsent", "sent"} :
        /\ message = "sent" => promise = "pending"
        /\ Return(kind, RequestId(kind), ws, promise, message)
  BY DEF ListSubscriptions
<1>2. kind \in Kinds
  BY DEF Kinds
<1>3. Await(RequestId(kind)) /\ UNCHANGED <<clock, ws, readyState, opened>>
  BY DEF ListSubscriptions
<1>4. QED
  BY <1>1, <1>2, <1>3, RequestMadeKeepsIInv

\* Time goes on, and nothing else.
LEMMA TickKeepsIInv ==
    ASSUME IInv, clock' \in 0..MaxTime, UNCHANGED <<ws, readyState, requestMap, calls, opened>>
    PROVE  IInv'
<1>1. TypeOK'
  BY DEF IInv, TypeOK
<1>2. \A i \in DOMAIN calls' : CallOK(i)' /\ RequestOK(i)'
  BY DEF IInv, CallOK, RequestOK, SharesId
<1>3. LoginOK' /\ NoOrphanSocket'
  BY DEF IInv, LoginOK, NoOrphanSocket
<1>4. AnswerOfOwnKind' /\ ConnectResolvesWithItsSocket' /\ OnlyCollisionsLoseAnswers'
  BY DEF IInv, AnswerOfOwnKind, ConnectResolvesWithItsSocket, OnlyCollisionsLoseAnswers, SharesId
<1>5. QED
  BY <1>1, <1>2, <1>3, <1>4 DEF IInv

LEMMA NextKeepsIInv == IInv /\ [Next]_vars => IInv'
<1> SUFFICES ASSUME IInv, [Next]_vars
             PROVE  IInv'
  OBVIOUS
<1>1. CASE Connect \/ ConnectThrows
  BY <1>1, ConnectMadeKeepsIInv
<1>2. CASE Close
  BY <1>2, CloseKeepsIInv
<1>3. ASSUME NEW kind \in {"subscribe", "unsubscribe"}, Request(kind)
      PROVE  IInv'
  BY <1>3, RequestKeepsIInv DEF Kinds
<1>4. CASE ListSubscriptions
  BY <1>4, ListSubscriptionsKeepsIInv
<1>5. ASSUME NEW s \in DOMAIN readyState, Opens(s) \/ Closes(s)
      PROVE  IInv'
  BY <1>5, OpensKeepsIInv, ClosesKeepsIInv
<1>6. ASSUME NEW i \in DOMAIN calls, ReceiveAck(i)
      PROVE  IInv'
  BY <1>6, ReceiveAckKeepsIInv
<1>7. ASSUME NEW i \in DOMAIN calls, ReceiveError(i) \/ ServerAnswers(i)
      PROVE  IInv'
  <2>1. CASE ReceiveError(i)
    BY <2>1, MessageMovesKeepsIInv DEF ReceiveError
  <2>2. CASE ServerAnswers(i)
    BY <2>2, MessageMovesKeepsIInv DEF ServerAnswers
  <2>3. QED
    BY <1>7, <2>1, <2>2
<1>8. CASE Tick
  <2>1. clock' \in 0..MaxTime
    BY <1>8, BoundsAssumption DEF Tick, IInv, TypeOK
  <2>2. QED
    BY <1>8, <2>1, TickKeepsIInv DEF Tick
<1>9. CASE UNCHANGED vars
  BY <1>9, TickKeepsIInv DEF vars, IInv, TypeOK
<1>10. QED
  BY <1>1, <1>2, <1>3, <1>4, <1>5, <1>6, <1>7, <1>8, <1>9 DEF Next

\* The inductive invariant holds in every behaviour: callbacks, sockets and
\* promises stay tied together through any interleaving of calls, answers,
\* reconnections and closed sockets.
THEOREM ClientInvariant == Spec => []IInv
<1>1. Init => IInv
  BY InitIInv
<1>2. IInv /\ [Next]_vars => IInv'
  BY NextKeepsIInv
<1>3. QED
  BY <1>1, <1>2, PTL DEF Spec

\* Every variable keeps its type, and a callback in requestMap is of the call
\* that made its id and has not been answered.
THEOREM TypeCorrect == Spec => []TypeOK
<1>1. IInv => TypeOK
  BY DEF IInv
<1>2. QED
  BY <1>1, ClientInvariant, PTL

\* No promise is resolved with an answer to another kind of request.
THEOREM AnswersOwnKind == Spec => []AnswerOfOwnKind
<1>1. IInv => AnswerOfOwnKind
  BY DEF IInv
<1>2. QED
  BY <1>1, ClientInvariant, PTL

\* Only two requests of one kind in one milisecond can lose an answer.
THEOREM AnswersLostByCollision == Spec => []OnlyCollisionsLoseAnswers
<1>1. IInv => OnlyCollisionsLoseAnswers
  BY DEF IInv
<1>2. QED
  BY <1>1, ClientInvariant, PTL

\* A connect() is resolved exactly when the socket it made has opened.
THEOREM ConnectResolvedByOwnSocket == Spec => []ConnectResolvesWithItsSocket
<1>1. IInv => ConnectResolvesWithItsSocket
  BY DEF IInv
<1>2. QED
  BY <1>1, ClientInvariant, PTL

\* Every socket but the current one is closed or closing.
THEOREM NoSocketLeftBehind == Spec => []NoOrphanSocket
<1>1. IInv => NoOrphanSocket
  BY DEF IInv
<1>2. QED
  BY <1>1, ClientInvariant, PTL

\* A call is never unmade, nor does it change what it asked for or on which
\* socket.
LEMMA CallsKept ==
    ASSUME IInv, [Next]_vars, NEW i \in DOMAIN calls
    PROVE  i \in DOMAIN calls' /\ calls'[i].kind = calls[i].kind
           /\ calls'[i].socket = calls[i].socket
<1>1. calls \in Seq(Call) /\ calls[i] \in Call
  BY CallsAreASequence DEF IInv, TypeOK
<1>2. ASSUME NEW kind, NEW id, NEW socket, NEW promise, NEW message,
             Return(kind, id, socket, promise, message)
      PROVE  i \in DOMAIN calls' /\ calls'[i] = calls[i]
  <2> DEFINE new == [kind |-> kind, id |-> id, socket |-> socket,
                     promise |-> promise, message |-> message, answer |-> 0]
  <2>1. calls' = Append(calls, new)
    BY <1>2 DEF Return
  <2> HIDE DEF new
  <2>2. QED
    BY <1>1, <2>1
<1>3. CASE Connect \/ ConnectThrows
  BY <1>2, <1>3 DEF Connect, ConnectThrows
<1>4. ASSUME NEW kind, Request(kind)
      PROVE  i \in DOMAIN calls' /\ calls'[i] = calls[i]
  BY <1>2, <1>4 DEF Request
<1>5. CASE ListSubscriptions
  BY <1>2, <1>5 DEF ListSubscriptions
<1>6. ASSUME NEW s \in DOMAIN readyState, Opens(s)
      PROVE  i \in DOMAIN calls' /\ calls'[i].kind = calls[i].kind
             /\ calls'[i].socket = calls[i].socket
  BY <1>1, <1>6 DEF Opens, Call
<1>7. ASSUME NEW j \in DOMAIN calls, ReceiveAck(j) \/ ReceiveError(j) \/ ServerAnswers(j)
      PROVE  i \in DOMAIN calls' /\ calls'[i].kind = calls[i].kind
             /\ calls'[i].socket = calls[i].socket
  <2>1. CASE ReceiveAck(j)
    BY <1>1, <2>1 DEF ReceiveAck, Settled, Call
  <2>2. CASE ReceiveError(j)
    BY <1>1, <2>2 DEF ReceiveError, Call
  <2>3. CASE ServerAnswers(j)
    BY <1>1, <2>3 DEF ServerAnswers, Call
  <2>4. QED
    BY <1>7, <2>1, <2>2, <2>3
<1>8. CASE UNCHANGED calls
  BY <1>8
<1>9. QED
  BY <1>3, <1>4, <1>5, <1>6, <1>7, <1>8 DEF Next, vars, Close, Closes, Tick

\* A connect() that is overtaken by another, or closed, before its socket opens
\* leaves its promise pending, and so it stays.
OvertakenConnectHangs ==
    \A i \in DOMAIN calls :
        calls[i].kind = "connect" /\ calls[i].promise = "pending" /\ calls[i].socket # ws =>
            calls'[i].promise = "pending" /\ calls'[i].socket # ws'

LEMMA StepKeepsOvertaken == IInv /\ [Next]_vars => OvertakenConnectHangs
<1> SUFFICES ASSUME IInv, [Next]_vars, NEW i \in DOMAIN calls,
                    calls[i].kind = "connect", calls[i].promise = "pending",
                    calls[i].socket # ws
             PROVE  calls'[i].promise = "pending" /\ calls'[i].socket # ws'
  BY DEF OvertakenConnectHangs
<1>1. IInv'
  BY NextKeepsIInv
<1>2. /\ calls[i] \in Call /\ calls[i].socket \in DOMAIN readyState /\ calls[i].socket # 0
      /\ calls[i].socket \notin opened
  <2>1. calls[i] \in Call /\ CallOK(i) /\ DOMAIN readyState = 1..Len(readyState)
    BY CallsAreASequence DEF IInv
  <2>2. calls[i].socket \in Nat /\ calls[i].socket # 0 /\ calls[i].socket <= Len(readyState)
    BY <2>1 DEF CallOK, Call
  <2>3. QED
    BY <2>1, <2>2, CallsAreASequence DEF IInv, ConnectResolvesWithItsSocket
<1>3. /\ i \in DOMAIN calls' /\ calls'[i].kind = "connect"
      /\ calls'[i].socket = calls[i].socket
  BY CallsKept
<1>4. calls[i].socket \notin opened' /\ calls[i].socket # ws'
  <2>1. CASE Connect \/ ConnectThrows
    BY <1>2, <2>1, ConnectReplacesSocket DEF Connect, ConnectThrows
  <2>2. ASSUME NEW s \in DOMAIN readyState, Opens(s)
        PROVE  calls[i].socket \notin opened' /\ calls[i].socket # ws'
    BY <1>2, <2>2 DEF Opens, IInv, NoOrphanSocket
  <2>3. CASE ws' \in {0, ws} /\ UNCHANGED opened
    BY <1>2, <2>3
  <2>4. QED
    BY <2>1, <2>2, <2>3 DEF Next, vars, Close, Request, ListSubscriptions, Closes,
       ReceiveAck, ReceiveError, ServerAnswers, Tick
<1>5. calls'[i].promise \in {"pending", "resolved", "rejected"} /\ CallOK(i)'
      /\ ConnectResolvesWithItsSocket'
  <2>1. TypeOK'
    BY <1>1 DEF IInv
  <2>2. calls'[i] \in Call
    BY <1>3, <2>1, ElementOfSeq, LenProperties DEF TypeOK
  <2>3. QED
    BY <1>1, <1>3, <2>2 DEF IInv, Call
<1>6. QED
  BY <1>2, <1>3, <1>4, <1>5 DEF CallOK, ConnectResolvesWithItsSocket

\* A connect that was overtaken, or closed, before its socket opened stays unsettled
\* for good: nothing in the client ever settles its promise.
THEOREM OvertakenConnectNeverSettles == Spec => [][OvertakenConnectHangs]_vars
<1>1. IInv /\ [Next]_vars => [OvertakenConnectHangs]_vars
  BY StepKeepsOvertaken
<1>2. QED
  BY <1>1, ClientInvariant, PTL DEF Spec

=============================================================================
