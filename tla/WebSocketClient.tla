--------------------------- MODULE WebSocketClient ---------------------------
(***************************************************************************)
(* WebSocketClient (packages/sdk/src/ws/WebSocketClient.ts). Each connect() *)
(* replaces the socket; the handlers of the replaced one stay bound and     *)
(* work on the same requestMap until it has closed. A promise is settled    *)
(* by the callback that its call left in requestMap: under 'login' for      *)
(* connect(), under the kind of the call and Date.now() for a request.      *)
(*                                                                         *)
(* Sockets (the package ws) and the server are external: a socket opens,    *)
(* fails or closes at any time, and delivers what the server sent until it  *)
(* is closed, also after close() was called on it. It opens only if close() *)
(* was not called before.                                                  *)
(***************************************************************************)
EXTENDS Naturals, Sequences

CONSTANTS
    MaxCalls,       \* bound: calls that return a promise
    MaxSockets,     \* bound: sockets ever created
    MaxTime         \* bound: the clock, in miliseconds

ASSUME BoundsAssumption == MaxCalls \in Nat /\ MaxSockets \in Nat /\ MaxTime \in Nat

VARIABLES
    clock,          \* Date.now()
    ws,             \* the current socket, 0 while undefined
    readyState,     \* of every socket created so far
    requestMap,     \* id -> the call whose callback it holds, or 0
    calls,          \* every call made, with the promise it returned
    opened          \* history: sockets that have opened

vars == <<clock, ws, readyState, requestMap, calls, opened>>

Kinds == {"subscribe", "unsubscribe", "listSubscriptions"}
Login == <<"login", 0>>
Ids == Kinds \X (0..MaxTime) \cup {Login}

\* Message is the way of a request: "unsent", "sent" to the server, on its way
\* back as "ack" or "error", "delivered", or the "error" delivered: "refused".
\* Answer is the request whose acknowledgement resolved the promise.
Call == [kind : Kinds \cup {"connect"}, id : Ids, socket : 0..MaxSockets,
         promise : {"pending", "resolved", "rejected"},
         message : {"unsent", "sent", "ack", "error", "delivered", "refused"},
         answer : 0..MaxCalls]

TypeOK ==
    /\ clock \in 0..MaxTime
    /\ readyState \in Seq({"connecting", "open", "closing", "closed"})
    /\ Len(readyState) <= MaxSockets
    /\ ws \in 0..Len(readyState)
    /\ calls \in Seq(Call)
    /\ Len(calls) <= MaxCalls
    /\ requestMap \in [Ids -> 0..Len(calls)]
    /\ \A id \in Ids : requestMap[id] # 0 =>
            /\ calls[requestMap[id]].id = id
            /\ id # Login => calls[requestMap[id]].promise # "resolved"
    /\ opened \subseteq DOMAIN readyState

Init ==
    /\ clock = 0
    /\ ws = 0 /\ readyState = <<>>
    /\ requestMap = [id \in Ids |-> 0]
    /\ calls = <<>>
    /\ opened = {}

IsConnected == ws # 0 /\ readyState[ws] = "open"

\* The method kind() returns a promise.
Return(kind, id, socket, promise, message) ==
    /\ Len(calls) < MaxCalls
    /\ calls' = Append(calls, [kind |-> kind, id |-> id, socket |-> socket,
                               promise |-> promise, message |-> message, answer |-> 0])

\* The call just made leaves its callback under id.
Await(id) == requestMap' = [requestMap EXCEPT ![id] = Len(calls')]

\* ws.close() on socket s, in the array of states.
Closing(states, s) ==
    IF s # 0 /\ states[s] # "closed" THEN [states EXCEPT ![s] = "closing"] ELSE states

----------------------------------------------------------------------------
(* The client's methods.                                                    *)

ConnectClearsRequests ==  \* mutant: a new connection starts with an empty map
    /\ Len(readyState) < MaxSockets
    /\ readyState' = Append(Closing(readyState, ws), "connecting")
    /\ ws' = Len(readyState')
    /\ Return("connect", Login, ws', "pending", "unsent")
    /\ requestMap' = [id \in Ids |-> IF id = Login THEN Len(calls') ELSE 0]
    /\ UNCHANGED <<clock, opened>>

ConnectKeepsOldSocket ==  \* mutant: the old socket is not closed
    /\ Len(readyState) < MaxSockets
    /\ readyState' = Append(readyState, "connecting")
    /\ ws' = Len(readyState')
    /\ Return("connect", Login, ws', "pending", "unsent")
    /\ Await(Login)
    /\ UNCHANGED <<clock, opened>>

\* connect(): the promise is left to the 'open' handler of the new socket.
Connect ==
    /\ Len(readyState) < MaxSockets
    /\ readyState' = Append(Closing(readyState, ws), "connecting")
    /\ ws' = Len(readyState')
    /\ Return("connect", Login, ws', "pending", "unsent")
    /\ Await(Login)
    /\ UNCHANGED <<clock, opened>>

\* new WebSocket(...) throws: the old socket is gone all the same.
ConnectThrows ==
    /\ readyState' = Closing(readyState, ws)
    /\ ws' = 0
    /\ Return("connect", Login, 0, "rejected", "unsent")
    /\ Await(Login)
    /\ UNCHANGED <<clock, opened>>

CloseForgetsSocket ==  \* mutant: only the reference is dropped
    /\ ws # 0
    /\ ws' = 0
    /\ UNCHANGED <<clock, readyState, requestMap, calls, opened>>

\* close(): promises that are pending stay so.
Close ==
    /\ ws # 0
    /\ readyState' = Closing(readyState, ws)
    /\ ws' = 0
    /\ UNCHANGED <<clock, requestMap, calls, opened>>

UnprefixedId(kind) == <<"subscribe", clock>>    \* mutant: all kinds share one prefix

\* `subscribe-${Date.now()}`
RequestId(kind) == <<kind, clock>>

\* subscribe() and unsubscribe(): assertClientIsInitializedAndConnected() throws
\* inside the promise's executor, which rejects it.
Request(kind) ==
    /\ \/ /\ IsConnected
          /\ Return(kind, RequestId(kind), ws, "pending", "sent")
          /\ Await(RequestId(kind))
       \/ /\ ~IsConnected
          /\ Return(kind, RequestId(kind), ws, "rejected", "unsent")
          /\ UNCHANGED requestMap
    /\ UNCHANGED <<clock, ws, readyState, opened>>

\* listSubscriptions() does not assert: without a socket emitSocketMessage drops
\* the request, one that is closing or closed does so too, and one that is
\* connecting throws.
ListSubscriptions ==
    /\ LET List(promise, message) == Return("listSubscriptions",
                RequestId("listSubscriptions"), ws, promise, message)
       IN  \/ IsConnected /\ List("pending", "sent")
           \/ /\ ws # 0 => readyState[ws] \in {"closing", "closed"}
              /\ List("pending", "unsent")
           \/ ws # 0 /\ readyState[ws] = "connecting" /\ List("rejected", "unsent")
    /\ Await(RequestId("listSubscriptions"))
    /\ UNCHANGED <<clock, ws, readyState, opened>>

----------------------------------------------------------------------------
(* The handlers that bind() puts on a socket.                               *)

Resolved(promise) == IF promise = "pending" THEN "resolved" ELSE promise

\* 'open': the 'login' callback is called and stays in the map.
Opens(s) ==
    /\ readyState[s] = "connecting"
    /\ readyState' = [readyState EXCEPT ![s] = "open"]
    /\ opened' = opened \cup {s}
    /\ calls' = [calls EXCEPT ![requestMap[Login]].promise = Resolved(@)]
    /\ UNCHANGED <<clock, ws, requestMap>>

\* 'error' and 'close' only raise events.
Closes(s) ==
    /\ readyState[s] # "closed"
    /\ readyState' = [readyState EXCEPT ![s] = "closed"]
    /\ UNCHANGED <<clock, ws, requestMap, calls, opened>>

Delivers(s) == s # 0 /\ readyState[s] \in {"open", "closing"}

\* The message i brings is taken up; handler, if there is one, is resolved with it.
Settled(i, handler) ==
    [j \in DOMAIN calls |->
        [calls[j] EXCEPT
            !.message = IF j = i THEN "delivered" ELSE @,
            !.promise = IF j = handler THEN Resolved(@) ELSE @,
            !.answer = IF j = handler /\ calls[j].promise = "pending" THEN i ELSE @]]

AckWithoutCase(i) ==  \* mutant: SUBSCRIPTIONS has no case
    /\ calls[i].message = "ack" /\ Delivers(calls[i].socket)
    /\ IF calls[i].kind = "listSubscriptions"
       THEN calls' = Settled(i, 0) /\ UNCHANGED requestMap
       ELSE /\ calls' = Settled(i, requestMap[calls[i].id])
            /\ requestMap' = [requestMap EXCEPT ![calls[i].id] = 0]
    /\ UNCHANGED <<clock, ws, readyState, opened>>

\* 'message' SUBSCRIBED, UNSUBSCRIBED or SUBSCRIPTIONS: the callback under the
\* response's id, if there is one, is called and removed.
ReceiveAck(i) ==
    /\ calls[i].message = "ack" /\ Delivers(calls[i].socket)
    /\ calls' = Settled(i, requestMap[calls[i].id])
    /\ requestMap' = [requestMap EXCEPT ![calls[i].id] = 0]
    /\ UNCHANGED <<clock, ws, readyState, opened>>

\* 'message' ERROR: raised as an event, whatever request it answers.
ReceiveError(i) ==
    /\ calls[i].message = "error" /\ Delivers(calls[i].socket)
    /\ calls' = [calls EXCEPT ![i].message = "refused"]
    /\ UNCHANGED <<clock, ws, readyState, requestMap, opened>>

\* External: the server acknowledges a request under its id, or refuses it.
ServerAnswers(i) ==
    /\ calls[i].message = "sent" /\ Delivers(calls[i].socket)
    /\ \E m \in {"ack", "error"} : calls' = [calls EXCEPT ![i].message = m]
    /\ UNCHANGED <<clock, ws, readyState, requestMap, opened>>

Tick ==
    /\ clock < MaxTime
    /\ clock' = clock + 1
    /\ UNCHANGED <<ws, readyState, requestMap, calls, opened>>

Next ==
    \/ Connect \/ ConnectThrows \/ Close
    \/ Request("subscribe") \/ Request("unsubscribe") \/ ListSubscriptions
    \/ \E s \in DOMAIN readyState : Opens(s) \/ Closes(s)
    \/ \E i \in DOMAIN calls : ReceiveAck(i) \/ ReceiveError(i) \/ ServerAnswers(i)
    \/ Tick

Spec == Init /\ [][Next]_vars

\* The server answers what reaches it, and the event loop hands the answer to
\* the 'message' handler, as long as the socket lives.
Fairness ==
    \A i \in 1..MaxCalls : WF_vars(i \in DOMAIN calls /\
                                   (ServerAnswers(i) \/ ReceiveAck(i) \/ ReceiveError(i)))

FairSpec == Spec /\ Fairness

----------------------------------------------------------------------------

SharesId(i) ==
    \E j \in DOMAIN calls \ {i} : calls[j].kind = calls[i].kind /\ calls[j].id = calls[i].id

\* A promise that a request returned is resolved only by the acknowledgement of
\* a request of the same kind, made in the same milisecond, whichever socket it
\* came on: subscribe() never takes the answer of unsubscribe().
AnswerOfOwnKind ==
    \A i \in DOMAIN calls : calls[i].kind # "connect" /\ calls[i].promise = "resolved" =>
        LET answer == calls[calls[i].answer]
        IN  /\ calls[i].answer # 0 /\ answer.message = "delivered"
            /\ answer.kind = calls[i].kind /\ answer.id = calls[i].id

\* An acknowledgement that was delivered resolved its own request, across any
\* reconnection, unless two calls of one kind shared a milisecond: the second's
\* callback replaced the first's.
OnlyCollisionsLoseAnswers ==
    \A i \in DOMAIN calls :
        calls[i].message = "delivered" /\ calls[i].answer # i => SharesId(i)

\* connect() resolves exactly when the socket that it made opens, though the
\* callback is looked up under the one name 'login': one that is overtaken by a
\* second connect(), or closed before it opened, never settles.
ConnectResolvesWithItsSocket ==
    \A i \in DOMAIN calls : calls[i].kind = "connect" =>
        (calls[i].promise = "resolved" <=> calls[i].socket \in opened)

\* No socket that the client has let go of stays open: each one except the
\* current one has been closed, whatever calls and failures came in between.
NoOrphanSocket ==
    \A s \in DOMAIN readyState : s # ws => readyState[s] \in {"closing", "closed"}

\* A request is answered as long as its socket lives, unless the server refuses
\* it or its id is shared: then its promise stays pending for ever.
RequestsSettle ==
    \A i \in 1..MaxCalls :
        i \in DOMAIN calls /\ calls[i].message = "sent" ~>
            i \in DOMAIN calls /\ (\/ calls[i].promise = "resolved"
                                  \/ calls[i].message = "refused"
                                  \/ ~Delivers(calls[i].socket)
                                  \/ SharesId(i))

==============================================================================
