------------------------------ MODULE Pipeline ------------------------------
(***************************************************************************)
(* The tasks of a running program and the bounded channels between them:   *)
(* the endpoint's task (transport/endpoint.rs), the stack's task           *)
(* (transport/stack.rs), the server's task (server/server.rs) and the      *)
(* callers (client.rs).  CoapStack says what an arm of the stack does to   *)
(* its sessions; here an arm is what it takes from one channel and what it *)
(* then waits to put into another, because a task that waits inside an arm *)
(* serves none of its other arms.                                          *)
(*                                                                         *)
(* tokio's mpsc channels: a send waits for room and fails once the receiver*)
(* is dropped; a receive waits for a message and returns None once all     *)
(* senders are dropped and the buffer is empty.  A task that returns drops *)
(* its ends of all channels, and with a receiver what is buffered in it.   *)
(***************************************************************************)
EXTENDS Integers, Sequences, FiniteSets

CONSTANTS
  Clients,        \* the callers, one request each
  Capacity,       \* capacity of every channel: 100 in the code
  MaxRequests     \* bound on the requests that arrive from the network

ASSUME ClientsAssumption == IsFiniteSet(Clients)
ASSUME CapacityAssumption == Capacity \in Nat \ {0} /\ MaxRequests \in Nat

VARIABLES
  endpoint,         \* "select", "deliver" or "done"
  received,         \* the packet the endpoint waits to deliver
  inbound,          \* channel from the endpoint to the stack
  outbound,         \* channel from the stack to the endpoint: its length
  stack,            \* "select", "hand_over", "send" or "done"
  to_hand_over,     \* the request the stack waits to hand to the server
  to_send,          \* number of packets the stack waits to hand to the endpoint
  to_complete,      \* the callers it answers after that
  open,             \* the callers whose exchange is open
  requests,         \* channel from the callers to the stack
  server_requests,  \* channel from the stack to the server
  server_responses, \* channel from the server to the stack: its length
  server,           \* "recv", "handle", "respond" or "done"
  client,           \* per caller: "idle", "sending", "waiting", "told" or "gone"
  arrived,          \* history: requests that came from the network, by number
  handled           \* history: the number of the request handled last

endpointVars == <<endpoint, received>>
stackVars == <<stack, to_hand_over, to_send, to_complete, open>>
channelVars == <<inbound, outbound, requests, server_requests, server_responses>>
historyVars == <<arrived, handled>>
vars == <<endpointVars, stackVars, channelVars, server, client, historyVars>>

\* What a packet makes the stack do.  A new request goes to the server.  Any
\* other packet is answered, with an ACK or the cached response of a
\* duplicate, or it is not, and then it may end the exchange of one caller, if
\* that is open, or like a ping, a duplicate or an empty ACK end none.
Packets ==
  [kind : {"request"}, number : 1 .. MaxRequests]
    \cup [kind : {"other"}, to : Clients, answered : BOOLEAN]
Request(n) == [kind |-> "request", number |-> n]
NoPacket == [kind |-> "none"]

\* Every variable has its type, and no channel holds more than its capacity.
TypeOK ==
  /\ endpoint \in {"select", "deliver", "done"}
  /\ received \in IF endpoint = "deliver" THEN Packets ELSE {NoPacket}
  /\ inbound \in Seq(Packets) /\ Len(inbound) <= Capacity
  /\ outbound \in 0 .. Capacity
  /\ stack \in {"select", "hand_over", "send", "done"}
  /\ to_hand_over \in 0 .. MaxRequests
  /\ to_send \in Nat /\ (stack = "send" => to_send > 0)
  /\ to_complete \in SUBSET Clients
  /\ open \in SUBSET Clients
  /\ requests \in Seq(Clients) /\ Len(requests) <= Capacity
  /\ server_requests \in Seq(0 .. MaxRequests) /\ Len(server_requests) <= Capacity
  /\ server_responses \in 0 .. Capacity
  /\ server \in {"recv", "handle", "respond", "done"}
  /\ client \in [Clients -> {"idle", "sending", "waiting", "told", "gone"}]
  /\ arrived \in 0 .. MaxRequests
  /\ handled \in 0 .. MaxRequests

Init ==
  /\ endpoint = "select" /\ received = NoPacket
  /\ inbound = << >> /\ outbound = 0
  /\ stack = "select" /\ to_hand_over = 0 /\ to_send = 0 /\ to_complete = {} /\ open = {}
  /\ requests = << >> /\ server_requests = << >> /\ server_responses = 0
  /\ server = "recv"
  /\ client = [c \in Clients |-> "idle"]
  /\ arrived = 0 /\ handled = 0
-----------------------------------------------------------------------------
(* The endpoint's task. *)

\* Any packet may come at any time; requests are numbered as they come.
EndpointReceives ==
  /\ endpoint = "select"
  /\ \/ /\ arrived < MaxRequests
        /\ arrived' = arrived + 1
        /\ received' = Request(arrived + 1)
     \/ /\ received' \in {p \in Packets : p.kind = "other"}
        /\ UNCHANGED arrived
  /\ endpoint' = "deliver"
  /\ UNCHANGED <<stackVars, channelVars, server, client, handled>>

\* inbound_sender.send: waits for room, or ends the task without a stack.
EndpointDelivers ==
  /\ endpoint = "deliver"
  /\ \/ /\ stack # "done"
        /\ Len(inbound) < Capacity
        /\ inbound' = Append(inbound, received)
        /\ endpoint' = "select"
        /\ UNCHANGED outbound
     \/ /\ stack = "done"
        /\ endpoint' = "done"
        /\ outbound' = 0
        /\ UNCHANGED inbound
  /\ received' = NoPacket
  /\ UNCHANGED <<stackVars, requests, server_requests, server_responses, server, client,
                 historyVars>>

EndpointSends ==
  /\ endpoint = "select"
  /\ outbound > 0
  /\ outbound' = outbound - 1
  /\ UNCHANGED <<endpointVars, stackVars, inbound, requests, server_requests, server_responses,
                 server, client, historyVars>>

\* Mutant: the endpoint goes on when its outbound channel is closed.
EndpointIgnoresClose == FALSE /\ UNCHANGED vars

\* The outbound channel is closed and empty.
EndpointReturns ==
  /\ endpoint = "select"
  /\ outbound = 0
  /\ stack = "done"
  /\ endpoint' = "done"
  /\ UNCHANGED <<received, stackVars, channelVars, server, client, historyVars>>

\* An error of the socket.
EndpointFails ==
  /\ endpoint = "select"
  /\ endpoint' = "done"
  /\ outbound' = 0
  /\ UNCHANGED <<received, stackVars, inbound, requests, server_requests, server_responses,
                 server, client, historyVars>>
-----------------------------------------------------------------------------
(* The stack's task. *)

Tell(callers) ==
  [c \in Clients |-> IF c \in callers /\ client[c] = "waiting" THEN "told" ELSE client[c]]

\* The task returns and drops its channels, the exchanges and, with them and
\* with the queued requests, every sender that a caller waits on.
StackReturns ==
  /\ stack' = "done"
  /\ to_hand_over' = 0 /\ to_send' = 0 /\ to_complete' = {} /\ open' = {}
  /\ inbound' = << >> /\ requests' = << >> /\ server_responses' = 0
  /\ client' = Tell(Clients)
  /\ UNCHANGED <<endpointVars, outbound, server_requests, server, historyVars>>

StackTakesPacket ==
  /\ stack = "select"
  /\ inbound # << >>
  /\ LET p == Head(inbound) IN
     \/ /\ p.kind = "request"
        /\ stack' = "hand_over" /\ to_hand_over' = p.number
        /\ UNCHANGED <<to_send, to_complete, open, client>>
     \/ /\ p.kind = "other" /\ p.answered
        /\ stack' = "send" /\ to_send' = 1
        /\ to_complete' \in SUBSET (open \cap {p.to})
        /\ UNCHANGED <<to_hand_over, open, client>>
     \/ /\ p.kind = "other" /\ ~ p.answered
        /\ \E completed \in SUBSET (open \cap {p.to}) :
             open' = open \ completed /\ client' = Tell(completed)
        /\ UNCHANGED <<stack, to_hand_over, to_send, to_complete>>
  /\ inbound' = Tail(inbound)
  /\ UNCHANGED <<endpointVars, outbound, requests, server_requests, server_responses, server,
                 historyVars>>

\* Mutant: the request is sent and forgotten: no exchange is registered.
FireAndForget ==
  /\ stack = "select"
  /\ requests # << >>
  /\ stack' = "send" /\ to_send' = 1
  /\ requests' = Tail(requests)
  /\ UNCHANGED <<endpointVars, to_hand_over, to_complete, open, inbound, outbound,
                 server_requests, server_responses, server, client, historyVars>>

\* The exchange is registered before the packet is handed over; a request
\* that cannot be encoded is dropped with its sender.
StackTakesRequest ==
  /\ stack = "select"
  /\ requests # << >>
  /\ \/ /\ stack' = "send" /\ to_send' = 1
        /\ open' = open \cup {Head(requests)}
        /\ UNCHANGED client
     \/ /\ client' = Tell({Head(requests)})
        /\ UNCHANGED <<stack, to_send, open>>
  /\ requests' = Tail(requests)
  /\ UNCHANGED <<endpointVars, to_hand_over, to_complete, inbound, outbound, server_requests,
                 server_responses, server, historyVars>>

\* A response that cannot be encoded is lost.
StackTakesResponse ==
  /\ stack = "select"
  /\ server_responses > 0
  /\ server_responses' = server_responses - 1
  /\ \/ stack' = "send" /\ to_send' = 1
     \/ UNCHANGED <<stack, to_send>>
  /\ UNCHANGED <<endpointVars, to_hand_over, to_complete, open, inbound, outbound, requests,
                 server_requests, server, client, historyVars>>

\* Some exchanges are due: a packet each for those that go on.
StackTimer ==
  /\ stack = "select"
  /\ \E resend \in SUBSET open : \E fail \in SUBSET (open \ resend) :
       /\ resend \cup fail # {}
       /\ open' = open \ fail
       /\ client' = Tell(fail)
       /\ to_send' = Cardinality(resend)
       /\ stack' = IF resend = {} THEN "select" ELSE "send"
  /\ UNCHANGED <<endpointVars, to_hand_over, to_complete, channelVars, server, historyVars>>

\* Mutant: the loop does not end with the server.
OutlivesTheServer ==
  /\ stack = "select"
  /\ \/ endpoint = "done" /\ inbound = << >>
     \/ (\A c \in Clients : client[c] = "gone") /\ requests = << >>
  /\ StackReturns

\* One of the three channels the loop selects on is closed and empty: the
\* endpoint, all callers or the server have gone.
StackChannelClosed ==
  /\ stack = "select"
  /\ \/ endpoint = "done" /\ inbound = << >>
     \/ (\A c \in Clients : client[c] = "gone") /\ requests = << >>
     \/ server = "done" /\ server_responses = 0
  /\ StackReturns

\* Mutant: try_send in the place of send.
HandOverOrDrop ==
  /\ stack = "hand_over"
  /\ server_requests' = IF server # "done" /\ Len(server_requests) < Capacity
                        THEN Append(server_requests, to_hand_over) ELSE server_requests
  /\ stack' = "select" /\ to_hand_over' = 0
  /\ UNCHANGED <<endpointVars, to_send, to_complete, open, inbound, outbound, requests,
                 server_responses, server, client, historyVars>>

\* server_request_sender.send: waits for room; without a server the request
\* is dropped.
StackHandsOver ==
  /\ stack = "hand_over"
  /\ \/ /\ server # "done"
        /\ Len(server_requests) < Capacity
        /\ server_requests' = Append(server_requests, to_hand_over)
     \/ server = "done" /\ UNCHANGED server_requests
  /\ stack' = "select" /\ to_hand_over' = 0
  /\ UNCHANGED <<endpointVars, to_send, to_complete, open, inbound, outbound, requests,
                 server_responses, server, client, historyVars>>

\* endpoint.send_packet: waits for room; without an endpoint the task returns.
StackSends ==
  /\ stack = "send"
  /\ \/ /\ endpoint # "done"
        /\ outbound < Capacity
        /\ outbound' = outbound + 1
        /\ to_send' = to_send - 1
        /\ IF to_send = 1
           THEN /\ stack' = "select"
                /\ open' = open \ to_complete
                /\ client' = Tell(to_complete)
                /\ to_complete' = {}
           ELSE UNCHANGED <<stack, to_complete, open, client>>
        /\ UNCHANGED <<endpointVars, to_hand_over, inbound, requests, server_requests,
                       server_responses, server, historyVars>>
     \/ endpoint = "done" /\ StackReturns
-----------------------------------------------------------------------------
(* The server's task. *)

\* The request is handled as soon as it is received.
ServerReceives ==
  /\ server = "recv"
  /\ server_requests # << >>
  /\ handled' = Head(server_requests)
  /\ server_requests' = Tail(server_requests)
  /\ server' = "handle"
  /\ UNCHANGED <<endpointVars, stackVars, inbound, outbound, requests, server_responses, client,
                 arrived>>

\* The handler returns its response.
HandlerReturns ==
  /\ server = "handle"
  /\ server' = "respond"
  /\ UNCHANGED <<endpointVars, stackVars, channelVars, client, historyVars>>

\* The handler panics: the server's task ends and drops its interface.
HandlerPanics ==
  /\ server = "handle"
  /\ server' = "done"
  /\ server_requests' = << >>
  /\ UNCHANGED <<endpointVars, stackVars, inbound, outbound, requests, server_responses, client,
                 historyVars>>

\* Mutant: the channel for responses has no bound.
RespondsWithoutRoom ==
  /\ server = "respond"
  /\ server_responses' = IF stack = "done" THEN server_responses ELSE server_responses + 1
  /\ server' = "recv"
  /\ UNCHANGED <<endpointVars, stackVars, inbound, outbound, requests, server_requests, client,
                 historyVars>>

\* send_response: waits for room; the error without a stack is ignored.
ServerResponds ==
  /\ server = "respond"
  /\ \/ /\ stack # "done"
        /\ server_responses < Capacity
        /\ server_responses' = server_responses + 1
     \/ stack = "done" /\ UNCHANGED server_responses
  /\ server' = "recv"
  /\ UNCHANGED <<endpointVars, stackVars, inbound, outbound, requests, server_requests, client,
                 historyVars>>

ServerReturns ==
  /\ server = "recv"
  /\ server_requests = << >>
  /\ stack = "done"
  /\ server' = "done"
  /\ UNCHANGED <<endpointVars, stackVars, channelVars, client, historyVars>>
-----------------------------------------------------------------------------
(* The callers. *)

ClientStarts(c) ==
  /\ client[c] = "idle"
  /\ client' = [client EXCEPT ![c] = "sending"]
  /\ UNCHANGED <<endpointVars, stackVars, channelVars, server, historyVars>>

\* outbound_sender.send: waits for room; EndpointClosed without a stack.
ClientSends(c) ==
  /\ client[c] = "sending"
  /\ \/ /\ stack # "done"
        /\ Len(requests) < Capacity
        /\ requests' = Append(requests, c)
        /\ client' = [client EXCEPT ![c] = "waiting"]
     \/ /\ stack = "done"
        /\ client' = [client EXCEPT ![c] = "told"]
        /\ UNCHANGED requests
  /\ UNCHANGED <<endpointVars, stackVars, inbound, outbound, server_requests, server_responses,
                 server, historyVars>>

\* The caller's own timeout.
ClientTimeout(c) ==
  /\ client[c] = "waiting"
  /\ client' = [client EXCEPT ![c] = "told"]
  /\ UNCHANGED <<endpointVars, stackVars, channelVars, server, historyVars>>

\* The caller drops its clone of the interface.
ClientGoes(c) ==
  /\ client[c] \in {"idle", "told"}
  /\ client' = [client EXCEPT ![c] = "gone"]
  /\ UNCHANGED <<endpointVars, stackVars, channelVars, server, historyVars>>

Next ==
  \/ EndpointReceives \/ EndpointDelivers \/ EndpointSends \/ EndpointReturns \/ EndpointFails
  \/ StackTakesPacket \/ StackTakesRequest \/ StackTakesResponse \/ StackTimer
  \/ StackChannelClosed \/ StackHandsOver \/ StackSends
  \/ ServerReceives \/ HandlerReturns \/ HandlerPanics \/ ServerResponds \/ ServerReturns
  \/ \E c \in Clients : ClientStarts(c) \/ ClientSends(c) \/ ClientTimeout(c) \/ ClientGoes(c)

Spec == Init /\ [][Next]_vars

\* tokio::select! starts with a random branch, so a branch that is ready again
\* and again is taken in the end; a task that can go on does, and handlers
\* return.  Nothing is assumed of the network, the timers or the callers.
FairSpec ==
  /\ Spec
  /\ WF_vars(EndpointDelivers) /\ SF_vars(EndpointSends) /\ SF_vars(EndpointReturns)
  /\ SF_vars(StackTakesPacket) /\ SF_vars(StackTakesRequest) /\ SF_vars(StackTakesResponse)
  /\ SF_vars(StackChannelClosed) /\ WF_vars(StackHandsOver) /\ WF_vars(StackSends)
  /\ WF_vars(ServerReceives) /\ WF_vars(HandlerReturns \/ HandlerPanics)
  /\ WF_vars(ServerResponds) /\ WF_vars(ServerReturns)
-----------------------------------------------------------------------------
(* Properties. *)

\* The stack waits for room in the server's channel, and the server for room
\* in the channel that only the stack empties.
ServerCycle ==
  /\ stack = "hand_over" /\ Len(server_requests) = Capacity
  /\ server = "respond" /\ server_responses = Capacity

\* The stack waits for room in the endpoint's channel, and the endpoint for
\* room in the channel that only the stack empties.
EndpointCycle ==
  /\ stack = "send" /\ outbound = Capacity
  /\ endpoint = "deliver" /\ Len(inbound) = Capacity

\* Two tasks that wait for each other do so for ever: nothing that the network,
\* the callers or the third task does frees them.
WaitingForEachOtherIsForEver ==
  [][(ServerCycle => ServerCycle') /\ (EndpointCycle => EndpointCycle')]_vars

Failed == endpoint = "done" \/ stack = "done" \/ server = "done"

\* Requests reach their handlers in the order in which they came from the
\* network, and none is passed over, through two channels and the hands of
\* three tasks.
HandledInOrder == [][handled' # handled => handled' = handled + 1]_vars

\* The requests between the network and the stack.
OnTheWay ==
  {n \in 1 .. MaxRequests :
     received = Request(n) \/ \E i \in DOMAIN inbound : inbound[i] = Request(n)}

\* The number of the last request that the stack has taken.
Taken == handled + Len(server_requests) + (IF stack = "hand_over" THEN 1 ELSE 0)

\* The invariant behind HandledInOrder: while the stack and the server run, the
\* requests in the two channels and in the hands of the two tasks before the
\* server are, from the front to the back, those from handled + 1 to arrived.
OrderInv ==
  server # "done" =>
    /\ \A i \in DOMAIN server_requests : server_requests[i] = handled + i
    /\ stack # "done" =>
         /\ stack = "hand_over" => to_hand_over = Taken
         /\ Taken <= arrived
         /\ OnTheWay = Taken + 1 .. arrived
         /\ \A i \in DOMAIN inbound : \A m, n \in OnTheWay :
              inbound[i] = Request(m) /\ received = Request(n) => m < n
         /\ \A i, j \in DOMAIN inbound : \A m, n \in OnTheWay :
              i < j /\ inbound[i] = Request(m) /\ inbound[j] = Request(n) => m < n

\* Each request that came is handled, unless a task has ended or two tasks
\* wait for each other: there is no other way to get stuck.
RequestsHandledOrStuck ==
  \A n \in 1 .. MaxRequests :
    arrived >= n ~> handled >= n \/ ServerCycle \/ EndpointCycle \/ Failed

\* "The transport layer calls this for every deduplicated CON/NON request"
\* (server/handler.rs:14), as long as no task has ended.
EveryRequestIsHandled ==
  \A n \in 1 .. MaxRequests : arrived >= n ~> handled >= n \/ Failed

\* When the stack's task has returned, the endpoint's and the server's return
\* as well, whatever they were waiting for.
TasksFollowTheStack == stack = "done" ~> endpoint = "done" /\ server = "done"

\* When all callers have gone, or the endpoint or the server has ended, the
\* stack's task returns, unless it waits for a task that waits for it.
StackFollowsItsPeers ==
  (\A c \in Clients : client[c] = "gone") \/ endpoint = "done" \/ server = "done"
    ~> stack = "done" \/ ServerCycle \/ EndpointCycle

\* A caller does not wait for a stack that has gone, and nobody has answered
\* a caller that waits unless its request is queued or its exchange is open.
WaitingCallerIsKnown ==
  \A c \in Clients : client[c] = "waiting" =>
    /\ stack # "done"
    /\ c \in open \/ \E i \in DOMAIN requests : requests[i] = c
=============================================================================
