--------------------------- MODULE PipelineProofs ---------------------------
(***************************************************************************)
(* Theorems about Pipeline for any callers, any capacity and any number of *)
(* requests.                                                               *)
(***************************************************************************)
EXTENDS Pipeline, TLAPS, FiniteSetTheorems

-----------------------------------------------------------------------------
(* Channels.                                                               *)

\* A send into a channel with room keeps it within its capacity.
LEMMA SendType ==
  ASSUME NEW S, NEW q \in Seq(S), Len(q) < Capacity, NEW m \in S
  PROVE  Append(q, m) \in Seq(S) /\ Len(Append(q, m)) <= Capacity
  BY CapacityAssumption

\* A receive takes a message out of a channel.
LEMMA ReceiveType ==
  ASSUME NEW S, NEW q \in Seq(S), q # << >>, Len(q) <= Capacity
  PROVE  Head(q) \in S /\ Tail(q) \in Seq(S) /\ Len(Tail(q)) <= Capacity
  BY CapacityAssumption

LEMMA EmptyChannelType == ASSUME NEW S PROVE << >> \in Seq(S) /\ Len(<< >>) <= Capacity
  BY CapacityAssumption

\* The packets of the timer arm are as many as the exchanges sent again.
LEMMA ResendType ==
  ASSUME NEW X \in SUBSET Clients
  PROVE  Cardinality(X) \in Nat /\ (X # {} => Cardinality(X) > 0)
<1>1. IsFiniteSet(X)
  BY ClientsAssumption, FS_Subset
<1> QED BY <1>1, FS_CardinalityType, FS_EmptySet

LEMMA TellType ==
  ASSUME TypeOK, NEW X
  PROVE  Tell(X) \in [Clients -> {"idle", "sending", "waiting", "told", "gone"}]
  BY DEF Tell, TypeOK

-----------------------------------------------------------------------------
(* Type correctness.                                                       *)

LEMMA StackReturnsType == ASSUME TypeOK, StackReturns PROVE TypeOK'
  BY EmptyChannelType, TellType, CapacityAssumption DEF StackReturns, TypeOK, endpointVars, historyVars

LEMMA EndpointType ==
  ASSUME TypeOK,
         EndpointReceives \/ EndpointDelivers \/ EndpointSends \/ EndpointReturns \/ EndpointFails
  PROVE  TypeOK'
<1> USE CapacityAssumption DEF TypeOK, endpointVars, stackVars, channelVars, historyVars
<1>1. CASE EndpointReceives
  BY <1>1 DEF EndpointReceives, Packets, Request
<1>2. CASE EndpointDelivers
  <2>1. CASE stack # "done" /\ Len(inbound) < Capacity /\ inbound' = Append(inbound, received)
             /\ endpoint' = "select" /\ UNCHANGED outbound
    BY <1>2, <2>1, SendType DEF EndpointDelivers
  <2>2. CASE stack = "done" /\ endpoint' = "done" /\ outbound' = 0 /\ UNCHANGED inbound
    BY <1>2, <2>2 DEF EndpointDelivers
  <2> QED BY <1>2, <2>1, <2>2 DEF EndpointDelivers
<1>3. CASE EndpointSends
  BY <1>3 DEF EndpointSends
<1>4. CASE EndpointReturns
  BY <1>4 DEF EndpointReturns
<1>5. CASE EndpointFails
  BY <1>5 DEF EndpointFails
<1> QED BY <1>1, <1>2, <1>3, <1>4, <1>5

LEMMA StackTakesPacketType == ASSUME TypeOK, StackTakesPacket PROVE TypeOK'
<1> DEFINE p == Head(inbound)
<1> USE DEF TypeOK, StackTakesPacket, endpointVars, historyVars
<1>1. p \in Packets /\ inbound' \in Seq(Packets) /\ Len(inbound') <= Capacity
  BY ReceiveType
<1>2. CASE p.kind = "request" /\ stack' = "hand_over" /\ to_hand_over' = p.number
           /\ UNCHANGED <<to_send, to_complete, open, client>>
  <2>1. p.number \in 1 .. MaxRequests
    BY <1>1, <1>2 DEF Packets
  <2> QED BY <1>1, <1>2, <2>1, CapacityAssumption
<1>3. CASE stack' = "send" /\ to_send' = 1 /\ to_complete' \in SUBSET (open \cap {p.to})
           /\ UNCHANGED <<to_hand_over, open, client>>
  BY <1>1, <1>3
<1>4. ASSUME NEW completed \in SUBSET (open \cap {p.to}),
             open' = open \ completed, client' = Tell(completed),
             UNCHANGED <<stack, to_hand_over, to_send, to_complete>>
      PROVE  TypeOK'
  BY <1>1, <1>4, TellType
<1> QED BY <1>2, <1>3, <1>4

LEMMA StackTakesRequestType == ASSUME TypeOK, StackTakesRequest PROVE TypeOK'
<1> USE DEF TypeOK, StackTakesRequest, endpointVars, historyVars
<1>1. Head(requests) \in Clients /\ requests' \in Seq(Clients) /\ Len(requests') <= Capacity
  BY ReceiveType
<1> QED BY <1>1, TellType

\* The packets of the timer arm and the calls it ends.
LEMMA StackTimerType == ASSUME TypeOK, StackTimer PROVE TypeOK'
<1>1. PICK resend \in SUBSET open : \E fail \in SUBSET (open \ resend) :
        /\ open' = open \ fail
        /\ client' = Tell(fail)
        /\ to_send' = Cardinality(resend)
        /\ stack' = IF resend = {} THEN "select" ELSE "send"
  BY DEF StackTimer
<1>2. PICK fail \in SUBSET (open \ resend) :
        /\ open' = open \ fail
        /\ client' = Tell(fail)
        /\ to_send' = Cardinality(resend)
        /\ stack' = IF resend = {} THEN "select" ELSE "send"
  BY <1>1
<1>3. resend \in SUBSET Clients
  BY DEF TypeOK
<1>4. to_send' \in Nat /\ (stack' = "send" => to_send' > 0)
  BY <1>2, <1>3, ResendType
<1>5. client' \in [Clients -> {"idle", "sending", "waiting", "told", "gone"}]
  BY <1>2, TellType
<1>6. stack' \in {"select", "send"} /\ open' \in SUBSET Clients
  BY <1>2 DEF TypeOK
<1> QED
  BY <1>4, <1>5, <1>6 DEF StackTimer, TypeOK, endpointVars, channelVars, historyVars

LEMMA StackHandsOverType == ASSUME TypeOK, StackHandsOver PROVE TypeOK'
<1>1. to_hand_over \in 0 .. MaxRequests /\ server_requests \in Seq(0 .. MaxRequests)
  BY DEF TypeOK
<1>2. Len(server_requests) < Capacity =>
        /\ Append(server_requests, to_hand_over) \in Seq(0 .. MaxRequests)
        /\ Len(Append(server_requests, to_hand_over)) <= Capacity
  BY <1>1, SendType
<1>3. server_requests' \in Seq(0 .. MaxRequests) /\ Len(server_requests') <= Capacity
  BY <1>2 DEF StackHandsOver, TypeOK
<1> QED
  BY <1>3, CapacityAssumption DEF StackHandsOver, TypeOK, endpointVars, historyVars

LEMMA StackSendsType == ASSUME TypeOK, StackSends PROVE TypeOK'
<1>1. CASE endpoint = "done" /\ StackReturns
  BY <1>1, StackReturnsType
<1>2. CASE ~ (endpoint = "done" /\ StackReturns)
  <2> USE <1>2, CapacityAssumption DEF StackSends, TypeOK, endpointVars, historyVars
  <2>1. CASE to_send = 1
    BY <2>1, TellType
  <2>2. CASE to_send # 1
    BY <2>2
  <2> QED BY <2>1, <2>2
<1> QED BY <1>1, <1>2

LEMMA ServerType ==
  ASSUME TypeOK,
         ServerReceives \/ HandlerReturns \/ HandlerPanics \/ ServerResponds \/ ServerReturns
  PROVE  TypeOK'
<1> USE CapacityAssumption
    DEF TypeOK, endpointVars, stackVars, channelVars, historyVars
<1>1. CASE ServerReceives
  BY <1>1, ReceiveType DEF ServerReceives
<1>2. CASE HandlerReturns
  BY <1>2 DEF HandlerReturns
<1>3. CASE HandlerPanics
  BY <1>3, EmptyChannelType DEF HandlerPanics
<1>4. CASE ServerResponds
  BY <1>4 DEF ServerResponds
<1>5. CASE ServerReturns
  BY <1>5 DEF ServerReturns
<1> QED BY <1>1, <1>2, <1>3, <1>4, <1>5

LEMMA ClientType ==
  ASSUME TypeOK, NEW c \in Clients,
         ClientStarts(c) \/ ClientSends(c) \/ ClientTimeout(c) \/ ClientGoes(c)
  PROVE  TypeOK'
<1> USE DEF TypeOK, endpointVars, stackVars, channelVars, historyVars
<1>1. CASE ClientStarts(c)
  BY <1>1 DEF ClientStarts
<1>2. CASE ClientSends(c)
  <2>1. Len(requests) < Capacity =>
          Append(requests, c) \in Seq(Clients) /\ Len(Append(requests, c)) <= Capacity
    BY SendType
  <2> QED BY <1>2, <2>1 DEF ClientSends
<1>3. CASE ClientTimeout(c)
  BY <1>3 DEF ClientTimeout
<1>4. CASE ClientGoes(c)
  BY <1>4 DEF ClientGoes
<1> QED BY <1>1, <1>2, <1>3, <1>4

\* Every reachable state is well typed: no channel ever holds more than its
\* capacity, and a task that waits to send has something to send.
THEOREM TypeCorrect == Spec => []TypeOK
<1>1. Init => TypeOK
  BY EmptyChannelType, CapacityAssumption DEF Init, TypeOK
<1>2. TypeOK /\ [Next]_vars => TypeOK'
  <2> SUFFICES ASSUME TypeOK, [Next]_vars PROVE TypeOK'
    OBVIOUS
  <2>1. CASE EndpointReceives \/ EndpointDelivers \/ EndpointSends \/ EndpointReturns
             \/ EndpointFails
    BY <2>1, EndpointType
  <2>2. CASE StackTakesPacket
    BY <2>2, StackTakesPacketType
  <2>3. CASE StackTakesRequest
    BY <2>3, StackTakesRequestType
  <2>4. CASE StackTakesResponse
    BY <2>4, CapacityAssumption DEF StackTakesResponse, TypeOK, endpointVars, historyVars
  <2>5. CASE StackTimer
    BY <2>5, StackTimerType
  <2>6. CASE StackChannelClosed
    BY <2>6, StackReturnsType DEF StackChannelClosed
  <2>7. CASE StackHandsOver
    BY <2>7, StackHandsOverType
  <2>8. CASE StackSends
    BY <2>8, StackSendsType
  <2>9. CASE ServerReceives \/ HandlerReturns \/ HandlerPanics \/ ServerResponds
             \/ ServerReturns
    BY <2>9, ServerType
  <2>10. CASE \E c \in Clients :
                ClientStarts(c) \/ ClientSends(c) \/ ClientTimeout(c) \/ ClientGoes(c)
    BY <2>10, ClientType
  <2>11. CASE UNCHANGED vars
    BY <2>11 DEF TypeOK, vars, endpointVars, stackVars, channelVars, historyVars
  <2> QED BY <2>1, <2>2, <2>3, <2>4, <2>5, <2>6, <2>7, <2>8, <2>9, <2>10, <2>11 DEF Next
<1> QED BY <1>1, <1>2, PTL DEF Spec

-----------------------------------------------------------------------------
(* Deadlock.                                                               *)

\* In a cycle each of the two tasks can only wait, and no step of the others
\* touches a task's own state or the two channels between them.
LEMMA ServerCycleStays ==
  ASSUME TypeOK, ServerCycle, Next PROVE ServerCycle'
<1> USE CapacityAssumption
    DEF TypeOK, ServerCycle, endpointVars, stackVars, channelVars, historyVars
<1>1. CASE EndpointReceives \/ EndpointDelivers \/ EndpointSends \/ EndpointReturns
           \/ EndpointFails
  BY <1>1
  DEF EndpointReceives, EndpointDelivers, EndpointSends, EndpointReturns, EndpointFails
<1>2. CASE StackTakesPacket \/ StackTakesRequest \/ StackTakesResponse \/ StackTimer
           \/ StackChannelClosed \/ StackHandsOver \/ StackSends
  BY <1>2
  DEF StackTakesPacket, StackTakesRequest, StackTakesResponse, StackTimer, StackChannelClosed,
      StackHandsOver, StackSends
<1>3. CASE ServerReceives \/ HandlerReturns \/ HandlerPanics \/ ServerResponds \/ ServerReturns
  BY <1>3 DEF ServerReceives, HandlerReturns, HandlerPanics, ServerResponds, ServerReturns
<1>4. CASE \E c \in Clients :
              ClientStarts(c) \/ ClientSends(c) \/ ClientTimeout(c) \/ ClientGoes(c)
  BY <1>4 DEF ClientStarts, ClientSends, ClientTimeout, ClientGoes
<1> QED BY <1>1, <1>2, <1>3, <1>4 DEF Next

LEMMA EndpointCycleStays ==
  ASSUME TypeOK, EndpointCycle, Next PROVE EndpointCycle'
<1> USE CapacityAssumption
    DEF TypeOK, EndpointCycle, endpointVars, stackVars, channelVars, historyVars
<1>1. CASE EndpointReceives \/ EndpointDelivers \/ EndpointSends \/ EndpointReturns
           \/ EndpointFails
  BY <1>1
  DEF EndpointReceives, EndpointDelivers, EndpointSends, EndpointReturns, EndpointFails
<1>2. CASE StackTakesPacket \/ StackTakesRequest \/ StackTakesResponse \/ StackTimer
           \/ StackChannelClosed \/ StackHandsOver \/ StackSends
  BY <1>2
  DEF StackTakesPacket, StackTakesRequest, StackTakesResponse, StackTimer, StackChannelClosed,
      StackHandsOver, StackSends
<1>3. CASE ServerReceives \/ HandlerReturns \/ HandlerPanics \/ ServerResponds \/ ServerReturns
  BY <1>3 DEF ServerReceives, HandlerReturns, HandlerPanics, ServerResponds, ServerReturns
<1>4. CASE \E c \in Clients :
              ClientStarts(c) \/ ClientSends(c) \/ ClientTimeout(c) \/ ClientGoes(c)
  BY <1>4 DEF ClientStarts, ClientSends, ClientTimeout, ClientGoes
<1> QED BY <1>1, <1>2, <1>3, <1>4 DEF Next

\* Whatever the capacity of the channels: once the stack and the server, or
\* the stack and the endpoint, wait for each other, they do so for ever.
THEOREM DeadlockIsForEver == Spec => WaitingForEachOtherIsForEver
<1>1. TypeOK /\ [Next]_vars =>
        [(ServerCycle => ServerCycle') /\ (EndpointCycle => EndpointCycle')]_vars
  BY ServerCycleStays, EndpointCycleStays
<1> QED BY <1>1, TypeCorrect, PTL DEF Spec, WaitingForEachOtherIsForEver

-----------------------------------------------------------------------------
(* Callers.                                                                *)

\* Told callers do not wait.
LEMMA TellEffect ==
  ASSUME TypeOK, NEW X, NEW c \in Clients
  PROVE  Tell(X)[c] = "waiting" => client[c] = "waiting" /\ c \notin X
  BY DEF Tell, TypeOK

\* Queued c: c is in the channel of the requests.
LEMMA QueueRest ==
  ASSUME NEW S, NEW q \in Seq(S), q # << >>, NEW i \in DOMAIN q, q[i] # Head(q)
  PROVE  \E j \in DOMAIN Tail(q) : Tail(q)[j] = q[i]
<1>1. i \in 2 .. Len(q)
  OBVIOUS
<1>2. i - 1 \in DOMAIN Tail(q) /\ Tail(q)[i - 1] = q[i]
  BY <1>1
<1> QED BY <1>2

\* A caller that waits is queued, has an open exchange, or is about to be
\* told: no step of any task loses it, whatever channel is full or closed.
THEOREM CallerIsKnown == Spec => []WaitingCallerIsKnown
<1>1. Init => WaitingCallerIsKnown
  BY DEF Init, WaitingCallerIsKnown
<1>2. TypeOK /\ WaitingCallerIsKnown /\ [Next]_vars => WaitingCallerIsKnown'
  <2> SUFFICES ASSUME TypeOK, WaitingCallerIsKnown, [Next]_vars,
                      NEW c \in Clients, client'[c] = "waiting"
               PROVE  /\ stack' # "done"
                      /\ c \in open' \/ \E i \in DOMAIN requests' : requests'[i] = c
    BY DEF WaitingCallerIsKnown
  <2>1. client[c] = "waiting" =>
          stack # "done" /\ (c \in open \/ \E i \in DOMAIN requests : requests[i] = c)
    BY DEF WaitingCallerIsKnown
  <2>2. ~ StackReturns
    BY TellEffect DEF StackReturns
  <2>3. CASE EndpointReceives \/ EndpointDelivers \/ EndpointSends \/ EndpointReturns
             \/ EndpointFails
    BY <2>1, <2>3
    DEF EndpointReceives, EndpointDelivers, EndpointSends, EndpointReturns, EndpointFails,
        stackVars, channelVars
  <2>4. CASE StackTakesPacket
    BY <2>1, <2>4, TellEffect DEF StackTakesPacket, stackVars
  <2>5. CASE StackTakesRequest
    <3>1. CASE c = Head(requests)
      BY <2>1, <2>5, <3>1, TellEffect DEF StackTakesRequest
    <3>2. CASE c # Head(requests)
      <4>1. /\ requests # << >> /\ requests' = Tail(requests)
            /\ stack # "done" /\ stack' # "done"
        BY <2>5 DEF StackTakesRequest
      <4>2. client[c] = "waiting" /\ open \subseteq open'
        BY <2>5, TellEffect DEF StackTakesRequest
      <4>3. CASE c \in open
        BY <4>1, <4>2, <4>3
      <4>4. CASE \E i \in DOMAIN requests : requests[i] = c
        <5>1. PICK i \in DOMAIN requests : requests[i] = c
          BY <4>4
        <5>2. requests \in Seq(Clients)
          BY DEF TypeOK
        <5>3. \E j \in DOMAIN Tail(requests) : Tail(requests)[j] = requests[i]
          BY <3>2, <4>1, <5>1, <5>2, QueueRest
        <5> QED BY <4>1, <5>1, <5>3
      <4> QED BY <2>1, <4>2, <4>3, <4>4
    <3> QED BY <3>1, <3>2
  <2>6. CASE StackTakesResponse \/ StackTimer
    BY <2>1, <2>6, TellEffect DEF StackTakesResponse, StackTimer, channelVars
  <2>7. CASE StackChannelClosed
    BY <2>2, <2>7 DEF StackChannelClosed
  <2>8. CASE StackHandsOver \/ StackSends
    BY <2>1, <2>2, <2>8, TellEffect DEF StackHandsOver, StackSends
  <2>9. CASE ServerReceives \/ HandlerReturns \/ HandlerPanics \/ ServerResponds
             \/ ServerReturns
    BY <2>1, <2>9
    DEF ServerReceives, HandlerReturns, HandlerPanics, ServerResponds, ServerReturns,
        stackVars, channelVars
  <2>10. CASE \E d \in Clients :
                ClientStarts(d) \/ ClientSends(d) \/ ClientTimeout(d) \/ ClientGoes(d)
    <3>1. PICK d \in Clients :
            ClientStarts(d) \/ ClientSends(d) \/ ClientTimeout(d) \/ ClientGoes(d)
      BY <2>10
    <3>2. CASE ClientStarts(d) \/ ClientTimeout(d) \/ ClientGoes(d)
      BY <2>1, <3>2 DEF ClientStarts, ClientTimeout, ClientGoes, TypeOK, stackVars, channelVars
    <3>3. CASE ClientSends(d)
      <4>1. c # d => client'[c] = client[c]
        BY <3>3 DEF ClientSends, TypeOK
      <4>2. stack' = stack /\ open' = open
        BY <3>3 DEF ClientSends, stackVars
      <4>3. CASE stack # "done" /\ requests' = Append(requests, d)
        <5>1. \A i \in DOMAIN requests : i \in DOMAIN requests' /\ requests'[i] = requests[i]
          BY <4>3 DEF TypeOK
        <5>2. \E i \in DOMAIN requests' : requests'[i] = d
          <6>1. Len(requests) + 1 \in DOMAIN requests' /\ requests'[Len(requests) + 1] = d
            BY <4>3 DEF TypeOK
          <6> QED BY <6>1
        <5> QED BY <2>1, <4>1, <4>2, <4>3, <5>1, <5>2
      <4>4. CASE stack = "done"
        BY <2>1, <3>3, <4>4 DEF ClientSends, TypeOK
      <4> QED BY <3>3, <4>3, <4>4 DEF ClientSends
    <3> QED BY <3>1, <3>2, <3>3
  <2>11. CASE UNCHANGED vars
    BY <2>1, <2>11 DEF vars, stackVars, channelVars
  <2> QED BY <2>3, <2>4, <2>5, <2>6, <2>7, <2>8, <2>9, <2>10, <2>11 DEF Next
<1> QED BY <1>1, <1>2, TypeCorrect, PTL DEF Spec

-----------------------------------------------------------------------------
(* The order of the requests.                                              *)

\* The part of OrderInv that concerns the server's channel.
QueueInOrder == \A i \in DOMAIN server_requests : server_requests[i] = handled + i

\* The parts that concern the endpoint and the stack.
LastInOrder ==
  \A i \in DOMAIN inbound : \A m, n \in OnTheWay :
    inbound[i] = Request(m) /\ received = Request(n) => m < n
InboundInOrder ==
  \A i, j \in DOMAIN inbound : \A m, n \in OnTheWay :
    i < j /\ inbound[i] = Request(m) /\ inbound[j] = Request(n) => m < n
StackInOrder ==
  /\ stack = "hand_over" => to_hand_over = Taken
  /\ Taken <= arrived
  /\ OnTheWay = Taken + 1 .. arrived
  /\ LastInOrder
  /\ InboundInOrder

LEMMA OrderParts ==
  OrderInv <=> (server # "done" => QueueInOrder /\ (stack # "done" => StackInOrder))
  BY DEF OrderInv, QueueInOrder, StackInOrder, LastInOrder, InboundInOrder

\* A request is named by its number alone.
LEMMA RequestInjective == \A m, n : Request(m) = Request(n) => m = n
<1> SUFFICES ASSUME NEW m, NEW n, Request(m) = Request(n) PROVE m = n
  OBVIOUS
<1>1. Request(m).number = m /\ Request(n).number = n
  BY DEF Request
<1> QED BY <1>1

LEMMA TakenType == ASSUME TypeOK PROVE Taken \in Nat
  BY CapacityAssumption DEF Taken, TypeOK

\* Steps that touch none of the requests under way.
LEMMA OtherStepsKeepOrder ==
  ASSUME OrderInv,
         UNCHANGED <<received, inbound, arrived, to_hand_over, server_requests, handled>>,
         stack = "hand_over" <=> stack' = "hand_over",
         stack' # "done" => stack # "done",
         server' # "done" => server # "done"
  PROVE  OrderInv'
<1>1. OnTheWay' = OnTheWay /\ Taken' = Taken
  BY DEF OnTheWay, Taken
<1> QED BY <1>1 DEF OrderInv

\* Without a stack the requests in the server's channel stay in order.
LEMMA StackReturnsOrder == ASSUME OrderInv, StackReturns PROVE OrderInv'
  BY DEF OrderInv, StackReturns, historyVars

\* A request that comes from the network is the last on the way.
LEMMA EndpointReceivesOrder == ASSUME TypeOK, OrderInv, EndpointReceives PROVE OrderInv'
<1> USE DEF EndpointReceives, stackVars, channelVars
<1>1. received = NoPacket
  BY DEF TypeOK
<1>2. \A n : NoPacket # Request(n)
  <2> SUFFICES ASSUME NEW n PROVE NoPacket # Request(n)
    OBVIOUS
  <2>1. NoPacket.kind = "none" /\ Request(n).kind = "request"
    BY DEF NoPacket, Request
  <2> QED BY <2>1
<1>3. Taken' = Taken /\ QueueInOrder' = QueueInOrder
  BY DEF Taken, QueueInOrder
<1> SUFFICES ASSUME server # "done", stack # "done" PROVE StackInOrder'
  BY <1>3, OrderParts
  DEF OrderInv, QueueInOrder, StackInOrder, LastInOrder, InboundInOrder
<1>4. StackInOrder
  BY OrderParts
<1>5. CASE arrived < MaxRequests /\ arrived' = arrived + 1 /\ received' = Request(arrived + 1)
  <2>1. OnTheWay' = OnTheWay \cup {arrived + 1}
    <3>1. arrived + 1 \in 1 .. MaxRequests
      BY <1>5, CapacityAssumption DEF TypeOK
    <3>2. \A n : received' = Request(n) <=> n = arrived + 1
      BY <1>5, RequestInjective
    <3>3. \A n : received # Request(n)
      BY <1>1, <1>2
    <3> QED BY <3>1, <3>2, <3>3 DEF OnTheWay
  <2>2. OnTheWay' = Taken + 1 .. arrived'
    BY <2>1, <1>4, <1>5, TakenType DEF StackInOrder, TypeOK
  <2>3. \A i \in DOMAIN inbound : inbound[i] # Request(arrived + 1)
    <3>1. arrived + 1 \in 1 .. MaxRequests /\ arrived + 1 \notin OnTheWay
      BY <1>4, <1>5, TakenType, CapacityAssumption DEF StackInOrder, TypeOK
    <3> QED BY <3>1 DEF OnTheWay
  <2>4. LastInOrder'
    <3> SUFFICES ASSUME NEW i \in DOMAIN inbound, NEW m \in OnTheWay', NEW n \in OnTheWay',
                        inbound[i] = Request(m), received' = Request(n)
                 PROVE  m < n
      BY DEF LastInOrder
    <3>1. n = arrived + 1
      BY <1>5, RequestInjective
    <3>2. m # arrived + 1
      BY <2>3
    <3>3. m \in Taken + 1 .. arrived
      BY <2>1, <3>2, <1>4 DEF StackInOrder
    <3> QED BY <3>1, <3>3, TakenType DEF TypeOK
  <2>5. InboundInOrder'
    BY <2>1, <2>3, <1>4 DEF StackInOrder, InboundInOrder
  <2> QED
    BY <1>3, <1>4, <1>5, <2>2, <2>4, <2>5, TakenType DEF StackInOrder, TypeOK
<1>6. CASE received' \in {p \in Packets : p.kind = "other"} /\ UNCHANGED arrived
  <2>1. \A n : received' # Request(n)
    BY <1>6 DEF Request
  <2>2. OnTheWay' = OnTheWay
    BY <1>1, <1>2, <2>1 DEF OnTheWay
  <2>3. LastInOrder' /\ InboundInOrder'
    BY <1>4, <2>1, <2>2 DEF StackInOrder, LastInOrder, InboundInOrder
  <2> QED BY <1>3, <1>4, <1>6, <2>2, <2>3 DEF StackInOrder
<1> QED BY <1>5, <1>6

\* A delivered packet goes behind all that are in the channel.
LEMMA EndpointDeliversOrder == ASSUME TypeOK, OrderInv, EndpointDelivers PROVE OrderInv'
<1> USE DEF EndpointDelivers, stackVars, historyVars
<1>1. Taken' = Taken /\ QueueInOrder' = QueueInOrder
  BY DEF Taken, QueueInOrder
<1> SUFFICES ASSUME server # "done", stack # "done" PROVE StackInOrder'
  BY <1>1, OrderParts
  DEF OrderInv, QueueInOrder, StackInOrder, LastInOrder, InboundInOrder
<1>2. StackInOrder
  BY OrderParts
<1>3. inbound' = Append(inbound, received) /\ received' = NoPacket
  OBVIOUS
<1>4. \A n : received' # Request(n)
  <2> SUFFICES ASSUME NEW n PROVE NoPacket # Request(n)
    BY <1>3
  <2>1. NoPacket.kind = "none" /\ Request(n).kind = "request"
    BY DEF NoPacket, Request
  <2> QED BY <2>1
<1>5. /\ Len(inbound) \in Nat
      /\ DOMAIN inbound = 1 .. Len(inbound)
      /\ DOMAIN inbound' = 1 .. Len(inbound) + 1
      /\ \A i \in DOMAIN inbound : inbound'[i] = inbound[i]
      /\ inbound'[Len(inbound) + 1] = received
  BY <1>3 DEF TypeOK
<1>6. OnTheWay' = OnTheWay
  <2>1. ASSUME NEW n
        PROVE  (\E i \in DOMAIN inbound' : inbound'[i] = Request(n))
                 <=> received = Request(n) \/ \E i \in DOMAIN inbound : inbound[i] = Request(n)
    BY <1>5
  <2> QED BY <2>1, <1>4 DEF OnTheWay
<1>7. LastInOrder'
  BY <1>4 DEF LastInOrder
<1>8. InboundInOrder'
  <2> SUFFICES ASSUME NEW i \in DOMAIN inbound', NEW j \in DOMAIN inbound',
                      NEW m \in OnTheWay, NEW n \in OnTheWay,
                      i < j, inbound'[i] = Request(m), inbound'[j] = Request(n)
               PROVE  m < n
    BY <1>6 DEF InboundInOrder
  <2>1. i \in DOMAIN inbound /\ inbound[i] = Request(m)
    BY <1>5
  <2>2. CASE j \in DOMAIN inbound
    BY <2>1, <2>2, <1>2, <1>5 DEF StackInOrder, InboundInOrder
  <2>3. CASE j = Len(inbound) + 1
    BY <2>1, <2>3, <1>2, <1>5 DEF StackInOrder, LastInOrder
  <2> QED BY <2>2, <2>3, <1>5
<1> QED BY <1>1, <1>2, <1>6, <1>7, <1>8 DEF StackInOrder

\* The stack takes the first request on the way.
LEMMA StackTakesPacketOrder == ASSUME TypeOK, OrderInv, StackTakesPacket PROVE OrderInv'
<1> DEFINE p == Head(inbound)
<1> USE DEF StackTakesPacket, endpointVars, historyVars
<1>1. QueueInOrder' = QueueInOrder /\ stack = "select"
  BY DEF QueueInOrder
<1> SUFFICES ASSUME server # "done" PROVE StackInOrder'
  BY <1>1, OrderParts
  DEF OrderInv, QueueInOrder, StackInOrder, LastInOrder, InboundInOrder
<1>2. StackInOrder
  BY <1>1, OrderParts
<1>3. /\ Len(inbound) \in Nat /\ DOMAIN inbound = 1 .. Len(inbound)
      /\ 1 \in DOMAIN inbound /\ p = inbound[1] /\ p \in Packets
      /\ DOMAIN inbound' = 1 .. Len(inbound) - 1
      /\ \A i \in DOMAIN inbound' : i + 1 \in DOMAIN inbound /\ inbound'[i] = inbound[i + 1]
      /\ \A i \in DOMAIN inbound : i = 1 \/ (i - 1 \in DOMAIN inbound' /\ inbound'[i - 1] = inbound[i])
  BY DEF TypeOK
<1>4. UNCHANGED <<received, arrived, handled, server, server_requests>>
  OBVIOUS
<1> HIDE DEF p, StackTakesPacket
<1>5. OnTheWay' \subseteq OnTheWay
  BY <1>3, <1>4 DEF OnTheWay
<1>6. LastInOrder'
  BY <1>2, <1>3, <1>4, <1>5 DEF StackInOrder, LastInOrder
<1>7. InboundInOrder'
  <2> SUFFICES ASSUME NEW i \in DOMAIN inbound', NEW j \in DOMAIN inbound',
                      NEW m \in OnTheWay', NEW n \in OnTheWay',
                      i < j, inbound'[i] = Request(m), inbound'[j] = Request(n)
               PROVE  m < n
    BY DEF InboundInOrder
  <2>1. i + 1 < j + 1 /\ inbound[i + 1] = Request(m) /\ inbound[j + 1] = Request(n)
    BY <1>3
  <2> QED BY <2>1, <1>2, <1>3, <1>5 DEF StackInOrder, InboundInOrder
<1>8. CASE p.kind = "request" /\ stack' = "hand_over" /\ to_hand_over' = p.number
  <2>1. p = Request(p.number) /\ p.number \in 1 .. MaxRequests
    BY <1>3, <1>8 DEF Packets, Request
  <2>2. p.number \in OnTheWay
    BY <2>1, <1>3 DEF OnTheWay
  <2>3. ASSUME NEW m \in OnTheWay, m # p.number
        PROVE  m \in OnTheWay' /\ p.number < m
    <3>1. CASE received = Request(m)
      BY <3>1, <2>1, <2>2, <1>2, <1>3, <1>4 DEF StackInOrder, LastInOrder, OnTheWay
    <3>2. CASE \E i \in DOMAIN inbound : inbound[i] = Request(m)
      <4>1. PICK i \in DOMAIN inbound : inbound[i] = Request(m)
        BY <3>2
      <4>2. i # 1
        BY <4>1, <2>1, <2>3, <1>3, RequestInjective
      <4>3. p.number < m
        BY <4>1, <4>2, <2>1, <2>2, <1>2, <1>3 DEF StackInOrder, InboundInOrder
      <4> QED BY <4>1, <4>2, <4>3, <1>3 DEF OnTheWay
    <3> QED BY <3>1, <3>2 DEF OnTheWay
  <2>4. p.number \notin OnTheWay'
    <3> SUFFICES ASSUME p.number \in OnTheWay' PROVE FALSE
      OBVIOUS
    <3>1. CASE received = Request(p.number)
      <4>1. LastInOrder /\ inbound[1] = Request(p.number)
        BY <1>2, <1>3, <2>1 DEF StackInOrder
      <4>2. p.number < p.number
        BY <4>1, <3>1, <2>2, <1>3 DEF LastInOrder
      <4> QED BY <4>2, <2>1
    <3>2. CASE \E i \in DOMAIN inbound' : inbound'[i] = Request(p.number)
      <4>1. PICK i \in DOMAIN inbound' : inbound'[i] = Request(p.number)
        BY <3>2
      <4>2. inbound[i + 1] = Request(p.number) /\ i + 1 \in DOMAIN inbound /\ 1 < i + 1
        BY <4>1, <1>3
      <4>3. p.number < p.number
        BY <4>2, <2>1, <2>2, <1>2, <1>3 DEF StackInOrder, InboundInOrder
      <4> QED BY <4>3, <2>1
    <3> QED BY <3>1, <3>2, <1>4 DEF OnTheWay
  <2>5. OnTheWay = Taken + 1 .. arrived /\ Taken \in Nat /\ arrived \in Nat
    BY <1>2, TakenType DEF StackInOrder, TypeOK
  <2>6. p.number = Taken + 1
    <3>1. p.number \in Taken + 1 .. arrived /\ Taken + 1 \in OnTheWay
      BY <2>2, <2>5
    <3>2. Taken + 1 # p.number => p.number < Taken + 1
      BY <3>1, <2>3
    <3> QED BY <3>1, <3>2, <2>5
  <2>7. Taken' = Taken + 1
    BY <1>1, <1>4, <1>8 DEF Taken, TypeOK
  <2>8. OnTheWay' = Taken' + 1 .. arrived
    <3>1. OnTheWay' = OnTheWay \ {p.number}
      BY <2>2, <2>3, <2>4, <1>5
    <3>2. (Taken + 1 .. arrived) \ {Taken + 1} = Taken + 2 .. arrived
      BY <2>5
    <3>3. Taken' + 1 = Taken + 2
      BY <2>5, <2>7
    <3> QED BY <3>1, <3>2, <3>3, <2>5, <2>6
  <2>9. Taken' <= arrived
    BY <1>4, <2>2, <2>5, <2>6, <2>7
  <2> QED BY <1>4, <1>6, <1>7, <1>8, <2>6, <2>7, <2>8, <2>9 DEF StackInOrder
<1>9. CASE p.kind = "other" /\ stack' # "hand_over"
  <2>1. \A n : inbound[1] # Request(n)
    BY <1>3, <1>9 DEF Request
  <2>2. OnTheWay \subseteq OnTheWay'
    BY <1>3, <1>4, <2>1 DEF OnTheWay
  <2>3. Taken' = Taken
    BY <1>1, <1>4, <1>9 DEF Taken
  <2> QED BY <1>2, <1>4, <1>5, <1>6, <1>7, <1>9, <2>2, <2>3 DEF StackInOrder
<1>10. (p.kind = "request" /\ stack' = "hand_over" /\ to_hand_over' = p.number)
         \/ (p.kind = "other" /\ stack' # "hand_over")
  BY <1>1 DEF p, stackVars, StackTakesPacket
<1> QED BY <1>8, <1>9, <1>10

\* A request that is handed over goes behind those in the server's channel.
LEMMA StackHandsOverOrder == ASSUME TypeOK, OrderInv, StackHandsOver PROVE OrderInv'
<1> USE DEF StackHandsOver, endpointVars, historyVars
<1> SUFFICES ASSUME server # "done" PROVE QueueInOrder' /\ StackInOrder'
  BY DEF OrderInv, QueueInOrder, StackInOrder, LastInOrder, InboundInOrder
<1>1. QueueInOrder /\ StackInOrder
  BY OrderParts
<1>2. server_requests' = Append(server_requests, to_hand_over) /\ Len(server_requests) \in Nat
  BY DEF TypeOK
<1>3. to_hand_over = handled + Len(server_requests) + 1
  BY <1>1 DEF StackInOrder, Taken
<1>4. QueueInOrder'
  <2>1. /\ DOMAIN server_requests' = 1 .. Len(server_requests) + 1
        /\ \A i \in DOMAIN server_requests : server_requests'[i] = server_requests[i]
        /\ server_requests'[Len(server_requests) + 1] = to_hand_over
    BY <1>2 DEF TypeOK
  <2>2. DOMAIN server_requests = 1 .. Len(server_requests) /\ handled' = handled
    BY DEF TypeOK
  <2> HIDE DEF StackHandsOver
  <2>3. handled \in Nat
    BY CapacityAssumption DEF TypeOK
  <2>4. ASSUME NEW i \in DOMAIN server_requests'
        PROVE  server_requests'[i] = handled + i
    <3>1. CASE i \in DOMAIN server_requests
      BY <3>1, <2>1, <1>1 DEF QueueInOrder
    <3>2. CASE i = Len(server_requests) + 1
      BY <3>2, <2>1, <2>3, <1>2, <1>3
    <3> QED BY <3>1, <3>2, <2>1, <2>2, <1>2
  <2> QED BY <2>2, <2>4 DEF QueueInOrder
<1>5. Taken' = Taken
  BY <1>2 DEF Taken, TypeOK
<1>6. OnTheWay' = OnTheWay
  BY DEF OnTheWay
<1> QED
  BY <1>1, <1>4, <1>5, <1>6 DEF StackInOrder, LastInOrder, InboundInOrder

\* The server takes the request after the one it handled last.
LEMMA ServerReceivesOrder ==
  ASSUME TypeOK, OrderInv, ServerReceives
  PROVE  OrderInv' /\ handled' = handled + 1
<1> USE DEF ServerReceives, endpointVars, stackVars
<1>1. QueueInOrder /\ (stack # "done" => StackInOrder)
  BY OrderParts
<1>2. /\ Len(server_requests) \in Nat /\ Len(server_requests) > 0
      /\ handled' = server_requests[1]
      /\ DOMAIN server_requests' = 1 .. Len(server_requests) - 1
      /\ Len(server_requests') = Len(server_requests) - 1
      /\ \A i \in DOMAIN server_requests' : server_requests'[i] = server_requests[i + 1]
  BY DEF TypeOK
<1>3. handled' = handled + 1
  BY <1>1, <1>2 DEF QueueInOrder
<1>4. QueueInOrder'
  <2> SUFFICES ASSUME NEW i \in DOMAIN server_requests'
               PROVE  server_requests'[i] = handled' + i
    BY DEF QueueInOrder
  <2>1. i + 1 \in DOMAIN server_requests /\ i \in Nat
    BY <1>2 DEF TypeOK
  <2>2. server_requests[i + 1] = handled + (i + 1)
    BY <2>1, <1>1 DEF QueueInOrder
  <2> QED BY <2>1, <2>2, <1>2, <1>3 DEF TypeOK
<1>5. Taken' = Taken
  <2>1. handled \in Nat /\ stack' = stack
    BY CapacityAssumption DEF TypeOK
  <2>2. handled' + Len(server_requests') = handled + Len(server_requests)
    BY <2>1, <1>2, <1>3
  <2> QED BY <2>1, <2>2 DEF Taken
<1>6. OnTheWay' = OnTheWay
  BY DEF OnTheWay
<1>7. stack # "done" => StackInOrder'
  BY <1>1, <1>5, <1>6 DEF StackInOrder, LastInOrder, InboundInOrder
<1>8. OrderInv'
  BY <1>4, <1>7 DEF OrderInv, QueueInOrder, StackInOrder, LastInOrder, InboundInOrder
<1> QED BY <1>3, <1>8

\* Every step keeps the order.
LEMMA StepKeepsOrder == ASSUME TypeOK, OrderInv, [Next]_vars PROVE OrderInv'
<1>1. CASE EndpointReceives
  BY <1>1, EndpointReceivesOrder
<1>2. CASE EndpointDelivers
  BY <1>2, EndpointDeliversOrder
<1>3. CASE EndpointSends \/ EndpointReturns \/ EndpointFails
  BY <1>3, OtherStepsKeepOrder
  DEF EndpointSends, EndpointReturns, EndpointFails, endpointVars, stackVars, channelVars, historyVars
<1>4. CASE StackTakesPacket
  BY <1>4, StackTakesPacketOrder
<1>5. CASE StackTakesRequest \/ StackTakesResponse \/ StackTimer
  BY <1>5, OtherStepsKeepOrder
  DEF StackTakesRequest, StackTakesResponse, StackTimer, endpointVars, channelVars, historyVars
<1>6. CASE StackReturns
  BY <1>6, StackReturnsOrder
<1>7. CASE StackHandsOver
  BY <1>7, StackHandsOverOrder
<1>8. CASE StackSends /\ ~ StackReturns
  BY <1>8, OtherStepsKeepOrder DEF StackSends, endpointVars, historyVars
<1>9. CASE ServerReceives
  BY <1>9, ServerReceivesOrder
<1>10. CASE HandlerReturns \/ ServerResponds \/ ServerReturns
  BY <1>10, OtherStepsKeepOrder
  DEF HandlerReturns, ServerResponds, ServerReturns, endpointVars, stackVars, channelVars, historyVars
<1>11. CASE HandlerPanics
  BY <1>11 DEF HandlerPanics, OrderInv
<1>12. CASE \E c \in Clients :
              ClientStarts(c) \/ ClientSends(c) \/ ClientTimeout(c) \/ ClientGoes(c)
  BY <1>12, OtherStepsKeepOrder
  DEF ClientStarts, ClientSends, ClientTimeout, ClientGoes, endpointVars, stackVars, channelVars,
      historyVars
<1>13. CASE UNCHANGED vars
  BY <1>13, OtherStepsKeepOrder DEF vars, endpointVars, stackVars, channelVars, historyVars
<1> QED
  BY <1>1, <1>2, <1>3, <1>4, <1>5, <1>6, <1>7, <1>8, <1>9, <1>10, <1>11, <1>12, <1>13
  DEF Next, StackChannelClosed

\* OrderInv is inductive with the types.
THEOREM OrderInvariant == Spec => []OrderInv
<1>1. Init => OrderInv
  <2> SUFFICES ASSUME Init PROVE OrderInv
    OBVIOUS
  <2>1. \A n : received # Request(n)
    <3> SUFFICES ASSUME NEW n PROVE NoPacket # Request(n)
      BY DEF Init
    <3>1. NoPacket.kind = "none" /\ Request(n).kind = "request"
      BY DEF NoPacket, Request
    <3> QED BY <3>1
  <2>2. OnTheWay = {}
    BY <2>1 DEF Init, OnTheWay
  <2>3. Taken = 0 /\ arrived = 0
    BY DEF Init, Taken
  <2> QED BY <2>2, <2>3 DEF Init, OrderInv
<1>2. TypeOK /\ OrderInv /\ [Next]_vars => OrderInv'
  BY StepKeepsOrder
<1> QED BY <1>1, <1>2, TypeCorrect, PTL DEF Spec

\* The handlers get the requests in the order of their arrival, without a gap.
THEOREM RequestsInOrder == Spec => HandledInOrder
<1>1. TypeOK /\ OrderInv /\ [Next]_vars =>
        [handled' # handled => handled' = handled + 1]_vars
  <2> SUFFICES ASSUME TypeOK, OrderInv, Next, handled' # handled PROVE handled' = handled + 1
    OBVIOUS
  <2>1. ServerReceives
    BY DEF Next, EndpointReceives, EndpointDelivers, EndpointSends, EndpointReturns,
      EndpointFails, StackTakesPacket, StackTakesRequest, StackTakesResponse, StackTimer,
      StackChannelClosed, StackReturns, StackHandsOver, StackSends, HandlerReturns,
      HandlerPanics, ServerResponds, ServerReturns, ClientStarts, ClientSends, ClientTimeout,
      ClientGoes, historyVars
  <2> QED BY <2>1, ServerReceivesOrder
<1> QED BY <1>1, OrderInvariant, TypeCorrect, PTL DEF Spec, HandledInOrder
=============================================================================
