---------------------------- MODULE PRSSystemProofs ----------------------------
(***************************************************************************)
(* Proofs about the server, its clients and the network together, for      *)
(* every set of processes, range of ports, delay and timeout.  First types *)
(* and the server's table; then the lock, which makes what reaches a       *)
(* socket answer the request its process waits for; then table and lock    *)
(* together, which leave nothing behind a close; then time, which keeps a  *)
(* port with the process that renews it.                                   *)
(***************************************************************************)
EXTENDS PRSSystem, PortTableProofs

USE DEF Tables

(***************************************************************************)
(* Types, with what keeps them: no answer carries a port from outside the  *)
(* table, and no error is pending once the bound on errors is reached.     *)
(***************************************************************************)
Typed ==
    /\ TypeOK
    /\ bounced => resets < MaxResets
    /\ \A c \in Clients : \A reply \in replies[c] : reply.response.port \in PortNumbers

(***************************************************************************)
(* The lock: who holds socketLock is blocked in a receive.                 *)
(***************************************************************************)
Calling == {"lookingUp", "requesting", "closing"}

\* The states of the calling thread in which there is no task.
Taskless == {"start", "lookingUp", "requesting", "granted", "failed", "closed"}

Locked(c) ==
    /\ socketLock[c] = "app" <=> app[c] \in Calling
    /\ socketLock[c] = "task" <=> task[c] = "waiting"
    /\ app[c] \in Taskless => task[c] = "none"

\* The datagrams that the socket which is open now has sent.
Own(c) == {d \in requests : Sender(d) = <<c, starts[c]>>}

(***************************************************************************)
(* At most one request of the open socket, or one answer to it, is on its  *)
(* way, and a thread is waiting for it.                                    *)
(***************************************************************************)
Matched(c) ==
    /\ \A d \in Own(c) :
          d.msg.type \in Pending(c) /\ Own(c) = {d} /\ replies[c] = {}
    /\ \A reply \in replies[c] :
          reply.answers \in Pending(c) /\ replies[c] = {reply}

Closes(reply) == reply.answers = "CLOSE_PORT" /\ Succeeds(reply)

CloseSeen(c) ==
    /\ \A reply \in replies[c] : Closes(reply) => <<c, starts[c]>> \in closedBy
    /\ app[c] \in {"released", "joining", "closed"} => <<c, starts[c]>> \in closedBy

Discipline ==
    /\ Typed
    /\ \A c \in Clients : Locked(c)
    /\ \A d \in requests : d.start <= starts[d.from]
    /\ duplicated = 0 /\ resets = 0 => \A c \in Clients : Matched(c) /\ CloseSeen(c)

-------------------------------------------------------------------------------
(***************************************************************************)
(* Types.                                                                  *)
(***************************************************************************)
LEMMA DatagramFields ==
    ASSUME NEW d \in Datagrams
    PROVE  /\ d.from \in Clients
           /\ d.start \in Starts
           /\ WellFormed(d.msg)
           /\ d.msg.port \in PortNumbers
<1>1. PortNumbers \subseteq Nat
  BY PortsAreNaturals DEF PortNumbers
<1>2. d.from \in Clients /\ d.start \in Starts
  BY DEF Datagrams
<1>3. d.msg \in [type : RequestTypes, serviceName : ServiceNames, port : PortNumbers]
  BY DEF Datagrams
<1> QED
  BY <1>1, <1>2, <1>3 DEF WellFormed

LEMMA DatagramType ==
    ASSUME NEW c \in Clients, NEW start \in Starts, NEW type \in RequestTypes,
           NEW name \in Names, NEW p \in PortNumbers
    PROVE  [from |-> c, start |-> start, msg |-> Request(type, name, p)] \in Datagrams
BY DEF Datagrams, Request, ServiceNames

\* The answers that may be on their way.
Proper(reply) == reply \in Replies /\ reply.response.port \in PortNumbers

LEMMA ReplyType ==
    ASSUME NEW type \in RequestTypes \cup {Unasked}, NEW response \in Responses \cup {Reset}
    PROVE  Reply(type, response) \in Replies
BY DEF Reply, Replies

LEMMA AnswersProper ==
    /\ \A d \in Datagrams : Proper(Reply(d.msg.type, Reset))
    /\ Proper(Reply(Unasked, Response(NoName, 0, "UNDEFINED_ERROR")))
<1>1. \A d \in Datagrams : d.msg.type \in RequestTypes
  BY DatagramFields DEF WellFormed
<1>2. Response(NoName, 0, "UNDEFINED_ERROR") \in Responses
  BY DEF Response, Responses, ServiceNames, Statuses
<1>3. Reset.port \in PortNumbers /\ Response(NoName, 0, "UNDEFINED_ERROR").port \in PortNumbers
  BY DEF Reset, Response, PortNumbers
<1>4. \A type, response : Reply(type, response).response = response
  BY DEF Reply
<1> QED
  BY <1>1, <1>2, <1>3, <1>4, ReplyType DEF Proper

LEMMA ServedProper ==
    ASSUME ports \in Tables, NEW d \in Datagrams
    PROVE  Proper(Reply(d.msg.type, HandleMessage(ports, d.msg).response))
<1> DEFINE response == HandleMessage(ports, d.msg).response
<1>1. WellFormed(d.msg) /\ d.msg.port \in PortNumbers
  BY DatagramFields
<1>2. response \in Responses
  BY <1>1, HandleMessageEffect DEF Answers
<1>3. response.port \in PortNumbers
  BY <1>1, AnswerPort DEF PortNumbers
<1>4. d.msg.type \in RequestTypes
  BY <1>1 DEF WellFormed
<1> HIDE DEF response
<1>5. Proper(Reply(d.msg.type, response))
  BY <1>2, <1>3, <1>4 DEF Proper, Replies, Reply
<1> QED
  BY <1>5 DEF response

\* What a client's socket can be given.
RepliesProper == replies \in [Clients -> SUBSET {reply \in Replies : Proper(reply)}]

LEMMA DeliverProper ==
    ASSUME RepliesProper, NEW socket, NEW reply, Proper(reply), Deliver(socket, reply)
    PROVE  RepliesProper'
BY DEF RepliesProper, Deliver, Proper

LEMMA SendTyped ==
    ASSUME ClientTypeOK, NEW c \in Clients, NEW type \in RequestTypes, NEW name \in Names,
           NEW p \in PortNumbers, Send(c, Request(type, name, p))
    PROVE  requests' \subseteq Datagrams
<1>1. starts[c] \in Starts /\ requests \subseteq Datagrams
  BY DEF ClientTypeOK
<1> QED
  BY <1>1, DatagramType DEF Send

LEMMA ReceiveTyped ==
    ASSUME RepliesProper, NEW c \in Clients, NEW reply, Receive(c, reply)
    PROVE  RepliesProper' /\ Proper(reply)
BY DEF RepliesProper, Receive

LEMMA ClientStepTyped ==
    ASSUME ClientTypeOK, RepliesProper, NEW c \in Clients,
           AppStep(c) \/ TaskStep(c) \/ Choice(c)
    PROVE  ClientTypeOK' /\ RepliesProper'
<1> DEFINE Goal == ClientTypeOK' /\ RepliesProper'
<1>1. /\ ServiceOf[c] \in Names /\ port[c] \in PortNumbers /\ 0 \in PortNumbers
      /\ starts \in [Clients -> Starts] /\ remaining[c] \in 0 .. KeepAliveDelay
      /\ KeepAliveDelay \in 0 .. KeepAliveDelay
  BY ClientAssumption DEF ClientTypeOK, PortNumbers
<1>2. RepliesProper' => replies' \in [Clients -> SUBSET Replies]
  BY DEF RepliesProper
<1>3. UNCHANGED replies => RepliesProper'
  BY DEF RepliesProper
<1> USE DEF AppGoes, TaskGoes, Acquire, Release, AppStates, TaskStates
<1>4. ASSUME NEW name \in Names, LookUpPort(c, name) PROVE Goal
  <2>1. requests' \subseteq Datagrams
    BY <1>1, <1>4, SendTyped DEF LookUpPort, RequestTypes
  <2> QED
    BY <1>2, <1>3, <1>4, <2>1 DEF LookUpPort, ClientTypeOK
<1>5. CASE CallRequestPort(c)
  <2>1. requests' \subseteq Datagrams
    BY <1>1, <1>5, SendTyped DEF CallRequestPort, RequestTypes
  <2> QED
    BY <1>2, <1>3, <1>5, <2>1 DEF CallRequestPort, ClientTypeOK
<1>6. CASE ClosePortSends(c)
  <2>1. requests' \subseteq Datagrams
    BY <1>1, <1>6, SendTyped DEF ClosePortSends, RequestTypes
  <2> QED
    BY <1>2, <1>3, <1>6, <2>1 DEF ClosePortSends, ClientTypeOK
<1>7. CASE KeepAliveSends(c)
  <2>1. requests' \subseteq Datagrams
    BY <1>1, <1>7, SendTyped DEF KeepAliveSends, RequestTypes
  <2> QED
    BY <1>2, <1>3, <1>7, <2>1 DEF KeepAliveSends, ClientTypeOK
<1>8. CASE LookUpPortReturns(c)
  <2>1. PICK reply \in replies[c] : Receive(c, reply)
    BY <1>8 DEF LookUpPortReturns
  <2>2. RepliesProper'
    BY <2>1, ReceiveTyped
  <2> QED
    BY <1>2, <1>8, <2>2 DEF LookUpPortReturns, ClientTypeOK
<1>9. CASE RequestPortReturns(c)
  <2>1. PICK reply \in replies[c] :
            /\ Receive(c, reply)
            /\ port' = [port EXCEPT ![c] = IF Succeeds(reply) THEN reply.response.port ELSE @]
    BY <1>9 DEF RequestPortReturns
  <2>2. RepliesProper' /\ reply.response.port \in PortNumbers
    BY <2>1, ReceiveTyped DEF Proper
  <2>3. port' \in [Clients -> PortNumbers]
    BY <2>1, <2>2 DEF ClientTypeOK
  <2> QED
    BY <1>2, <1>9, <2>2, <2>3 DEF RequestPortReturns, ClientTypeOK
<1>10. CASE ClosePortReceives(c)
  <2>1. PICK reply \in replies[c] : Receive(c, reply)
    BY <1>10 DEF ClosePortReceives
  <2>2. RepliesProper'
    BY <2>1, ReceiveTyped
  <2> QED
    BY <1>2, <1>10, <2>2 DEF ClosePortReceives, ClientTypeOK
<1>11. CASE KeepAliveReceives(c)
  <2>1. PICK reply \in replies[c] :
            /\ Receive(c, reply)
            /\ remaining' = [remaining EXCEPT ![c] = IF Throws(reply) THEN @ ELSE KeepAliveDelay]
            /\ TaskGoes(c, "waiting", IF Throws(reply) THEN "ready" ELSE "delay")
            /\ Release(c)
            /\ UNCHANGED <<app, port, cancelled, starts, requests>>
    BY <1>11 DEF KeepAliveReceives
  <2>2. RepliesProper'
    BY <2>1, ReceiveTyped
  <2>3. remaining' \in [Clients -> 0 .. KeepAliveDelay]
    BY <1>1, <2>1 DEF ClientTypeOK
  <2>4. task' \in [Clients -> TaskStates]
    BY <2>1 DEF ClientTypeOK
  <2> QED
    BY <1>2, <2>1, <2>2, <2>3, <2>4 DEF ClientTypeOK
<1>12. CASE CallKeepPortAlive(c)
  BY <1>2, <1>3, <1>12 DEF CallKeepPortAlive, ClientTypeOK, network
<1>13. CASE BindFails(c)
  BY <1>2, <1>3, <1>13 DEF BindFails, ClientTypeOK, network
<1>14. CASE CallClosePort(c)
  BY <1>2, <1>3, <1>14 DEF CallClosePort, ClientTypeOK, network
<1>15. CASE StopKeepAliveCancels(c)
  BY <1>2, <1>3, <1>15 DEF StopKeepAliveCancels, ClientTypeOK, network
<1>16. CASE StopKeepAliveReturns(c)
  <2>1. RepliesProper'
    BY <1>16 DEF StopKeepAliveReturns, RepliesProper
  <2> QED
    BY <1>2, <1>16, <2>1 DEF StopKeepAliveReturns, ClientTypeOK
<1>17. CASE KeepAliveLoops(c)
  BY <1>2, <1>3, <1>17 DEF KeepAliveLoops, ClientTypeOK, network
<1>18. CASE KeepAliveWakes(c) \/ KeepAliveCancelled(c)
  BY <1>2, <1>3, <1>18 DEF KeepAliveWakes, KeepAliveCancelled, ClientTypeOK, network
<1>19. CASE Restart(c)
  <2>1. RepliesProper'
    BY <1>19 DEF Restart, RepliesProper
  <2>2. starts' \in [Clients -> Starts]
    BY <1>1, <1>19, ClientAssumption DEF Restart, Starts
  <2>3. remaining' \in [Clients -> 0 .. KeepAliveDelay]
    BY <1>19, ClientAssumption DEF Restart, ClientTypeOK
  <2> QED
    BY <1>1, <1>2, <1>19, <2>1, <2>2, <2>3 DEF Restart, ClientTypeOK
<1> QED
  BY <1>4, <1>5, <1>6, <1>7, <1>8, <1>9, <1>10, <1>11, <1>12, <1>13, <1>14, <1>15, <1>16,
     <1>17, <1>18, <1>19 DEF AppStep, TaskStep, Choice

LEMMA TableType ==
    ASSUME TypeOK
    PROVE  ports \in Tables /\ \A p \in Ports : ports[p].idle \in IdleTimes
<1>1. IdleTimes \subseteq Int
  BY TimeoutAssumption DEF IdleTimes, IdleCap
<1>2. \A p \in Ports : ports[p] \in Reservation /\ ports[p].idle \in IdleTimes
  BY <1>1 DEF TypeOK, Reservation
<1> QED
  BY <1>2 DEF TypeOK

\* The table's part of TypeOK.
TableTyped == ports \in Tables /\ \A p \in Ports : ports[p].idle \in IdleTimes

LEMMA TableMeans ==
    ASSUME NEW table \in Tables, \A p \in Ports : table[p].idle \in IdleTimes
    PROVE  table \in [Ports -> [available : BOOLEAN, serviceName : ServiceNames,
                                idle : IdleTimes]]
<1> SUFFICES ASSUME NEW p \in Ports
             PROVE  table[p] \in [available : BOOLEAN, serviceName : ServiceNames,
                                  idle : IdleTimes]
  OBVIOUS
<1> QED
  BY DEF Reservation

LEMMA ServeTableTyped ==
    ASSUME TypeOK, NEW d \in Datagrams, ports' = HandleMessage(ports, d.msg).ports
    PROVE  TableTyped'
<1>1. WellFormed(d.msg) /\ ports \in Tables /\ \A p \in Ports : ports[p].idle \in 0 .. IdleCap
  BY DatagramFields, TableType DEF IdleTimes
<1>2. ports' \in Tables
  BY <1>1, CheckForExpiredPortsEffect, HandleMessageEffect, ChangesKeepType
<1>3. IdleCap \in Nat /\ NeverAlive <= IdleCap
  BY TimeoutAssumption DEF IdleCap, NeverAlive
<1>4. \A p \in Ports : ports'[p].idle \in 0 .. IdleCap
  BY <1>1, <1>3, IdleStaysBounded
<1> QED
  BY <1>2, <1>4 DEF TableTyped, IdleTimes

LEMMA EmptyTableType ==
    EmptyTable \in Tables /\ \A p \in Ports : EmptyTable[p].idle \in IdleTimes
<1>1. Fresh \in Reservation /\ Fresh.idle \in IdleTimes
  BY TimeoutAssumption
     DEF Fresh, Reservation, NeverAlive, ServiceNames, IdleTimes, IdleCap
<1> QED
  BY <1>1 DEF EmptyTable

LEMMA TickTableTyped ==
    ASSUME TypeOK, Tick
    PROVE  TableTyped'
<1>1. ports \in Tables /\ \A p \in Ports : ports[p].idle \in 0 .. IdleCap
  BY TableType DEF IdleTimes
<1>2. \A p \in Ports :
         ports'[p] = IF ports[p].available \/ ports[p].idle = IdleCap
                     THEN ports[p]
                     ELSE [ports[p] EXCEPT !.idle = @ + 1]
  BY DEF Tick
<1>3. ASSUME NEW p \in Ports
      PROVE  ports'[p] \in Reservation /\ ports'[p].idle \in 0 .. IdleCap
  <2>1. ports[p] \in Reservation /\ ports[p].idle \in 0 .. IdleCap /\ IdleCap \in Nat
    BY <1>1, TimeoutAssumption DEF IdleCap
  <2>2. CASE ports'[p] = ports[p]
    BY <2>1, <2>2
  <2>3. CASE ports[p].idle # IdleCap /\ ports'[p] = [ports[p] EXCEPT !.idle = @ + 1]
    <3>1. ports[p].idle + 1 \in 0 .. IdleCap
      BY <2>1, <2>3
    <3> QED
      BY <2>1, <2>3, <3>1 DEF Reservation
  <2> QED
    BY <1>2, <2>2, <2>3
<1>4. ports' \in Tables
  <2>1. ports' = [p \in Ports |-> ports'[p]]
    BY DEF Tick
  <2> QED
    BY <1>3, <2>1
<1> QED
  BY <1>3, <1>4 DEF TableTyped, IdleTimes

(***************************************************************************)
(* What is kept of errors and of the last sender.                          *)
(***************************************************************************)
ErrorsTyped ==
    /\ lastSender \in Sockets \cup {NoSender}
    /\ bounced \in BOOLEAN
    /\ bounced => resets < MaxResets

LEMMA RememberTyped ==
    ASSUME NEW socket \in Sockets \cup {NoSender}, NEW soFar, bounced \in BOOLEAN,
           resets' = soFar, Remember(socket, soFar)
    PROVE  ErrorsTyped'
<1>1. Gone(socket) \in BOOLEAN
  BY DEF Gone
<1>2. bounced' = (soFar < MaxResets /\ (bounced \/ Gone(socket)))
  BY DEF Remember
<1>3. bounced' \in BOOLEAN /\ (bounced' => soFar < MaxResets)
  BY <1>1, <1>2, Zenon
<1> QED
  BY <1>3 DEF Remember, ErrorsTyped

CountersTyped ==
    /\ lost \in 0 .. MaxLost /\ duplicated \in 0 .. MaxDuplicated
    /\ crashes \in 0 .. MaxCrashes /\ resets \in 0 .. MaxResets

\* The parts of Typed that the actions change one by one.
Parts ==
    /\ ClientTypeOK /\ RepliesProper
    /\ TableTyped /\ up \in BOOLEAN /\ closedBy \subseteq Sockets
    /\ ErrorsTyped /\ CountersTyped

LEMMA PartsAreTyped ==
    /\ Parts <=> Typed
    /\ Parts' <=> Typed'
<1>1. Parts <=> Typed
  <2>1. RepliesProper <=> /\ replies \in [Clients -> SUBSET Replies]
                          /\ \A c \in Clients : \A reply \in replies[c] :
                                reply.response.port \in PortNumbers
    BY DEF RepliesProper, Proper
  <2>2. TypeOK => TableTyped
    BY TableType DEF TableTyped
  <2> QED
    BY <2>1, <2>2, TableMeans
       DEF Parts, Typed, TypeOK, ClientTypeOK, TableTyped, ErrorsTyped, CountersTyped
<1> QED
  BY <1>1, PTL

LEMMA TypedInit == Init => Typed
<1> SUFFICES ASSUME Init PROVE Parts
  BY PartsAreTyped
<1>1. ClientTypeOK /\ RepliesProper
  <2>1. 0 \in PortNumbers /\ 1 \in Starts /\ 0 \in 0 .. KeepAliveDelay
    BY ClientAssumption DEF PortNumbers, Starts
  <2> QED
    BY <2>1 DEF Init, ClientInit, ClientTypeOK, RepliesProper, AppStates, TaskStates
<1>2. TableTyped
  BY EmptyTableType DEF Init, TableTyped
<1>3. ErrorsTyped
  BY DEF Init, ErrorsTyped
<1> QED
  BY <1>1, <1>2, <1>3, SystemAssumption DEF Init, Parts, CountersTyped

LEMMA TypedNext == Typed /\ [Next]_vars => Typed'
<1> SUFFICES ASSUME Typed, [Next]_vars PROVE Parts'
  BY PartsAreTyped
<1>1. /\ TypeOK /\ ClientTypeOK /\ RepliesProper /\ TableTyped /\ ErrorsTyped
      /\ lost \in 0 .. MaxLost /\ duplicated \in 0 .. MaxDuplicated
      /\ crashes \in 0 .. MaxCrashes /\ resets \in 0 .. MaxResets
      /\ up \in BOOLEAN /\ closedBy \subseteq Sockets /\ requests \subseteq Datagrams
  BY PartsAreTyped DEF Parts, Typed, ClientTypeOK, CountersTyped
<1>2. MaxLost \in Nat /\ MaxDuplicated \in Nat /\ MaxCrashes \in Nat /\ MaxResets \in Nat
  BY SystemAssumption
<1>3. UNCHANGED <<server, counters>> =>
          /\ TableTyped' /\ ErrorsTyped' /\ up' \in BOOLEAN
          /\ lost' \in 0 .. MaxLost /\ duplicated' \in 0 .. MaxDuplicated
          /\ crashes' \in 0 .. MaxCrashes /\ resets' \in 0 .. MaxResets
          /\ closedBy' \subseteq Sockets
  BY <1>1 DEF server, counters, TableTyped, ErrorsTyped
<1>4. /\ UNCHANGED clientvars /\ requests' \subseteq Datagrams /\ RepliesProper'
            => ClientTypeOK'
      /\ UNCHANGED replies => RepliesProper'
      /\ UNCHANGED <<clientvars, network>> => ClientTypeOK' /\ RepliesProper'
  <2>1. RepliesProper' => replies' \in [Clients -> SUBSET Replies]
    BY DEF RepliesProper
  <2>2. UNCHANGED replies => RepliesProper'
    BY <1>1 DEF RepliesProper
  <2> QED
    BY <1>1, <2>1, <2>2 DEF ClientTypeOK, clientvars, network
<1>5. ASSUME NEW c \in Clients, Client(c) PROVE Parts'
  <2>1. ClientTypeOK' /\ RepliesProper'
    BY <1>1, <1>5, ClientStepTyped DEF Client
  <2>2. UNCHANGED <<server, counters>>
    BY <1>5 DEF Client
  <2> QED
    BY <1>3, <2>1, <2>2 DEF Parts, CountersTyped
<1>6. ASSUME NEW d \in requests, Serve(d) PROVE Parts'
  <2>1. d \in Datagrams /\ Sender(d) \in Sockets
    BY <1>1, DatagramFields DEF Sender, Sockets
  <2>2. /\ Consume(d)
        /\ ports' = HandleMessage(ports, d.msg).ports
        /\ Deliver(Sender(d), Reply(d.msg.type, HandleMessage(ports, d.msg).response))
        /\ Remember(Sender(d), resets)
        /\ closedBy' \subseteq closedBy \cup {Sender(d)}
        /\ UNCHANGED <<clientvars, up, lost, crashes, resets>>
    BY <1>6 DEF Serve
  <2>3. TableTyped'
    BY <1>1, <2>1, <2>2, ServeTableTyped
  <2>4. RepliesProper'
    BY <1>1, <2>1, <2>2, ServedProper, DeliverProper DEF TableTyped
  <2>5. requests' \subseteq Datagrams /\ duplicated' \in 0 .. MaxDuplicated
    BY <1>1, <1>2, <2>2 DEF Consume
  <2>6. ErrorsTyped'
    BY <1>1, <2>1, <2>2, RememberTyped DEF ErrorsTyped
  <2> QED
    BY <1>1, <1>4, <2>1, <2>2, <2>3, <2>4, <2>5, <2>6 DEF Parts, CountersTyped
<1>7. ASSUME NEW d \in requests, Unreachable(d) PROVE Parts'
  <2>1. RepliesProper'
    BY <1>1, <1>4, <1>7, AnswersProper, DeliverProper DEF Unreachable
  <2>2. ClientTypeOK'
    BY <1>1, <1>4, <1>7, <2>1 DEF Unreachable
  <2> QED
    BY <1>3, <1>7, <2>1, <2>2 DEF Parts, CountersTyped, Unreachable
<1>8. CASE ReceiveThrows
  <2>1. resets < MaxResets /\ resets' = resets + 1
    BY <1>1, <1>8 DEF ReceiveThrows, ErrorsTyped
  <2>2. RepliesProper'
    BY <1>1, <1>8, AnswersProper, DeliverProper DEF ReceiveThrows
  <2>3. ErrorsTyped'
    BY <1>1, <1>8, RememberTyped DEF ReceiveThrows, ErrorsTyped
  <2>4. resets' \in 0 .. MaxResets
    BY <1>1, <1>2, <2>1
  <2> QED
    BY <1>1, <1>4, <1>8, <2>2, <2>3, <2>4 DEF Parts, CountersTyped, ReceiveThrows, TableTyped
<1>9. CASE Lose
  <2>1. RepliesProper' /\ requests' \subseteq Datagrams
    BY <1>1, <1>4, <1>9 DEF Lose, RepliesProper
  <2>2. lost' \in 0 .. MaxLost
    BY <1>1, <1>2, <1>9 DEF Lose
  <2> QED
    BY <1>1, <1>4, <1>9, <2>1, <2>2 DEF Parts, CountersTyped, Lose, server, TableTyped, ErrorsTyped
<1>10. CASE Crash
  <2>1. TableTyped'
    BY <1>10, EmptyTableType DEF Crash, TableTyped
  <2>2. ErrorsTyped'
    BY <1>10 DEF Crash, ErrorsTyped
  <2>3. crashes' \in 0 .. MaxCrashes
    BY <1>1, <1>2, <1>10 DEF Crash
  <2> QED
    BY <1>1, <1>4, <1>10, <2>1, <2>2, <2>3 DEF Parts, CountersTyped, Crash
<1>11. CASE StartServer
  BY <1>1, <1>4, <1>11 DEF Parts, CountersTyped, StartServer, TableTyped, ErrorsTyped, counters
<1>12. CASE Tick
  <2>1. TableTyped'
    BY <1>1, <1>12, TickTableTyped
  <2>2. remaining' \in [Clients -> 0 .. KeepAliveDelay]
    <3>1. \A c \in Clients : remaining[c] \in 0 .. KeepAliveDelay
      BY <1>1 DEF ClientTypeOK
    <3>2. \A n \in 0 .. KeepAliveDelay : (IF n = 0 THEN 0 ELSE n - 1) \in 0 .. KeepAliveDelay
      BY ClientAssumption
    <3>3. remaining' = [c \in Clients |-> IF remaining[c] = 0 THEN 0 ELSE remaining[c] - 1]
      BY <1>12 DEF Tick
    <3> QED
      BY <3>1, <3>2, <3>3
  <2>3. ClientTypeOK' /\ RepliesProper'
    BY <1>1, <1>4, <1>12, <2>2 DEF Tick, ClientTypeOK, network
  <2>4. ErrorsTyped'
    BY <1>1, <1>12 DEF Tick, ErrorsTyped, counters
  <2> QED
    BY <1>1, <1>12, <2>1, <2>3, <2>4 DEF Parts, CountersTyped, Tick, counters
<1>13. CASE UNCHANGED vars
  BY <1>3, <1>4, <1>13 DEF Parts, CountersTyped, vars
<1> QED
  BY <1>5, <1>6, <1>7, <1>8, <1>9, <1>10, <1>11, <1>12, <1>13 DEF Next, ServerStep

LEMMA TypedInvariant == Spec => []Typed
BY TypedInit, TypedNext, PTL DEF Spec

(***************************************************************************)
(* Type correctness, for every set of processes and range of ports.        *)
(***************************************************************************)
THEOREM SystemTypeCorrect == Spec => []TypeOK
<1>1. Typed => TypeOK
  BY DEF Typed
<1> QED
  BY <1>1, TypedInvariant, PTL

-------------------------------------------------------------------------------
(***************************************************************************)
(* The lock.  A step of one process leaves the others as they are.         *)
(***************************************************************************)
SentBy(c) == {d \in requests : d.from = c}

Unmoved(c) ==
    /\ app'[c] = app[c] /\ port'[c] = port[c] /\ task'[c] = task[c]
    /\ remaining'[c] = remaining[c] /\ cancelled'[c] = cancelled[c]
    /\ socketLock'[c] = socketLock[c] /\ starts'[c] = starts[c]
    /\ replies'[c] = replies[c] /\ SentBy(c)' = SentBy(c)

LEMMA OthersUnmoved ==
    ASSUME TypeOK, NEW c \in Clients, Client(c), NEW x \in Clients, x # c
    PROVE  Unmoved(x)
<1>1. AppStep(c) \/ TaskStep(c) \/ Choice(c)
  BY DEF Client
<1> USE DEF TypeOK, ClientTypeOK, AppGoes, TaskGoes, Acquire, Release, Send, Receive,
            Unmoved, SentBy, network
<1>2. ASSUME NEW name \in Names, LookUpPort(c, name) PROVE Unmoved(x)
  BY <1>2 DEF LookUpPort
<1>3. CASE CallRequestPort(c)
  BY <1>3 DEF CallRequestPort
<1>4. CASE ClosePortSends(c)
  BY <1>4 DEF ClosePortSends
<1>5. CASE KeepAliveSends(c)
  BY <1>5 DEF KeepAliveSends
<1>6. CASE LookUpPortReturns(c)
  BY <1>6 DEF LookUpPortReturns
<1>7. CASE RequestPortReturns(c)
  BY <1>7 DEF RequestPortReturns
<1>8. CASE ClosePortReceives(c)
  BY <1>8 DEF ClosePortReceives
<1>9. CASE KeepAliveReceives(c)
  BY <1>9 DEF KeepAliveReceives
<1>10. CASE CallKeepPortAlive(c) \/ BindFails(c) \/ CallClosePort(c)
  BY <1>10 DEF CallKeepPortAlive, BindFails, CallClosePort
<1>11. CASE StopKeepAliveCancels(c) \/ StopKeepAliveReturns(c) \/ Restart(c)
  BY <1>11 DEF StopKeepAliveCancels, StopKeepAliveReturns, Restart
<1>12. CASE KeepAliveLoops(c) \/ KeepAliveWakes(c) \/ KeepAliveCancelled(c)
  BY <1>12 DEF KeepAliveLoops, KeepAliveWakes, KeepAliveCancelled
<1> QED
  BY <1>1, <1>2, <1>3, <1>4, <1>5, <1>6, <1>7, <1>8, <1>9, <1>10, <1>11, <1>12
     DEF AppStep, TaskStep, Choice

LEMMA ActorLocked ==
    ASSUME TypeOK, NEW c \in Clients, Client(c), Locked(c)
    PROVE  Locked(c)'
<1>1. AppStep(c) \/ TaskStep(c) \/ Choice(c)
  BY DEF Client
<1> USE DEF TypeOK, ClientTypeOK, AppGoes, TaskGoes, Acquire, Release, Locked, Calling,
            Taskless
<1>2. ASSUME NEW name \in Names, LookUpPort(c, name) PROVE Locked(c)'
  BY <1>2 DEF LookUpPort
<1>3. CASE CallRequestPort(c)
  BY <1>3 DEF CallRequestPort
<1>4. CASE ClosePortSends(c)
  BY <1>4 DEF ClosePortSends
<1>5. CASE KeepAliveSends(c)
  BY <1>5 DEF KeepAliveSends
<1>6. CASE LookUpPortReturns(c)
  BY <1>6 DEF LookUpPortReturns
<1>7. CASE RequestPortReturns(c)
  BY <1>7 DEF RequestPortReturns
<1>8. CASE ClosePortReceives(c)
  BY <1>8 DEF ClosePortReceives
<1>9. CASE KeepAliveReceives(c)
  BY <1>9 DEF KeepAliveReceives
<1>10. CASE CallKeepPortAlive(c) \/ BindFails(c) \/ CallClosePort(c)
  BY <1>10 DEF CallKeepPortAlive, BindFails, CallClosePort
<1>11. CASE StopKeepAliveCancels(c) \/ StopKeepAliveReturns(c) \/ Restart(c)
  BY <1>11 DEF StopKeepAliveCancels, StopKeepAliveReturns, Restart
<1>12. CASE KeepAliveLoops(c) \/ KeepAliveWakes(c) \/ KeepAliveCancelled(c)
  BY <1>12 DEF KeepAliveLoops, KeepAliveWakes, KeepAliveCancelled
<1> QED
  BY <1>1, <1>2, <1>3, <1>4, <1>5, <1>6, <1>7, <1>8, <1>9, <1>10, <1>11, <1>12
     DEF AppStep, TaskStep, Choice

\* What the lock says about the requests that are being waited for.
LEMMA LockedPending ==
    ASSUME NEW c \in Clients, Locked(c)
    PROVE  /\ socketLock[c] = "free" => Pending(c) = {}
           /\ app[c] = "lookingUp" => Pending(c) = {"LOOKUP_PORT"}
           /\ app[c] = "requesting" => Pending(c) = {"REQUEST_PORT"}
           /\ app[c] = "closing" => Pending(c) = {"CLOSE_PORT"}
           /\ task[c] = "waiting" => Pending(c) = {"KEEP_ALIVE"}
BY DEF Locked, Calling, Pending, RequestTypes

LEMMA ReceiverMatched ==
    ASSUME TypeOK, NEW c \in Clients, Matched(c), NEW reply, Receive(c, reply),
           UNCHANGED <<starts, requests>>
    PROVE  /\ Matched(c)' /\ replies'[c] = {} /\ Own(c)' = {}
           /\ replies[c] = {reply} /\ reply.answers \in Pending(c)
<1>1. replies[c] = {reply} /\ reply.answers \in Pending(c) /\ Own(c) = {}
  BY DEF Matched, Receive
<1>2. replies'[c] = {} /\ Own(c)' = {}
  BY <1>1 DEF Receive, TypeOK, ClientTypeOK, Own, Sender
<1> QED
  BY <1>1, <1>2 DEF Matched

LEMMA SenderMatched ==
    ASSUME TypeOK, NEW c \in Clients, Matched(c), Pending(c) = {},
           NEW msg, Send(c, msg), msg.type \in Pending(c)', UNCHANGED <<starts, replies>>
    PROVE  Matched(c)' /\ replies[c] = {}
<1> DEFINE d == [from |-> c, start |-> starts[c], msg |-> msg]
<1>1. Own(c) = {} /\ replies[c] = {}
  BY DEF Matched
<1>2. Own(c)' = {d}
  BY <1>1 DEF Send, Own, Sender
<1>3. d.msg = msg
  OBVIOUS
<1> HIDE DEF d
<1> QED
  BY <1>1, <1>2, <1>3 DEF Matched

\* With everything in the network and what is waited for as it was.
LEMMA StillMatched ==
    ASSUME NEW c \in Clients, Matched(c), Pending(c)' = Pending(c),
           Own(c)' \subseteq Own(c), replies'[c] \subseteq replies[c]
    PROVE  Matched(c)'
BY DEF Matched

LEMMA ActorMatched ==
    ASSUME TypeOK, NEW c \in Clients, Client(c), Locked(c), Matched(c), CloseSeen(c),
           \A d \in requests : d.start <= starts[d.from]
    PROVE  Matched(c)' /\ CloseSeen(c)'
<1> DEFINE Goal == Matched(c)' /\ CloseSeen(c)'
<1>1. AppStep(c) \/ TaskStep(c) \/ Choice(c)
  BY DEF Client
<1>2. closedBy' = closedBy
  BY DEF Client, server
<1>3. Locked(c)'
  BY ActorLocked
<1>4. /\ app'[c] = "lookingUp" => "LOOKUP_PORT" \in Pending(c)'
      /\ app'[c] = "requesting" => "REQUEST_PORT" \in Pending(c)'
      /\ app'[c] = "closing" => "CLOSE_PORT" \in Pending(c)'
      /\ task'[c] = "waiting" => "KEEP_ALIVE" \in Pending(c)'
  BY DEF Pending, RequestTypes
<1> USE DEF TypeOK, ClientTypeOK, AppGoes, TaskGoes, Acquire, Release, network
<1>5. ASSUME NEW name \in Names, LookUpPort(c, name) PROVE Goal
  <2>1. Pending(c) = {} /\ app'[c] = "lookingUp"
    BY <1>5, LockedPending DEF LookUpPort
  <2>2. Matched(c)' /\ replies[c] = {}
    BY <1>4, <1>5, <2>1, SenderMatched DEF LookUpPort, Request
  <2> QED
    BY <1>5, <2>1, <2>2 DEF LookUpPort, CloseSeen
<1>6. CASE CallRequestPort(c)
  <2>1. Pending(c) = {} /\ app'[c] = "requesting"
    BY <1>6, LockedPending DEF CallRequestPort
  <2>2. Matched(c)' /\ replies[c] = {}
    BY <1>4, <1>6, <2>1, SenderMatched DEF CallRequestPort, Request
  <2> QED
    BY <1>6, <2>1, <2>2 DEF CallRequestPort, CloseSeen
<1>7. CASE ClosePortSends(c)
  <2>1. Pending(c) = {} /\ app'[c] = "closing"
    BY <1>7, LockedPending DEF ClosePortSends
  <2>2. Matched(c)' /\ replies[c] = {}
    BY <1>4, <1>7, <2>1, SenderMatched DEF ClosePortSends, Request
  <2> QED
    BY <1>7, <2>1, <2>2 DEF ClosePortSends, CloseSeen
<1>8. CASE KeepAliveSends(c)
  <2>1. Pending(c) = {} /\ task'[c] = "waiting"
    BY <1>8, LockedPending DEF KeepAliveSends
  <2>2. Matched(c)' /\ replies[c] = {}
    BY <1>4, <1>8, <2>1, SenderMatched DEF KeepAliveSends, Request
  <2> QED
    BY <1>2, <1>8, <2>1, <2>2 DEF KeepAliveSends, CloseSeen
<1>9. CASE LookUpPortReturns(c)
  <2>1. PICK reply : Receive(c, reply)
    BY <1>9 DEF LookUpPortReturns
  <2>2. Matched(c)' /\ replies'[c] = {}
    BY <1>9, <2>1, ReceiverMatched DEF LookUpPortReturns
  <2> QED
    BY <1>9, <2>2 DEF LookUpPortReturns, CloseSeen
<1>10. CASE RequestPortReturns(c)
  <2>1. PICK reply : Receive(c, reply)
    BY <1>10 DEF RequestPortReturns
  <2>2. Matched(c)' /\ replies'[c] = {}
    BY <1>10, <2>1, ReceiverMatched DEF RequestPortReturns
  <2> QED
    BY <1>10, <2>2 DEF RequestPortReturns, CloseSeen
<1>11. CASE ClosePortReceives(c)
  <2>1. PICK reply \in replies[c] :
            /\ Receive(c, reply)
            /\ AppGoes(c, "closing", IF Succeeds(reply) THEN "released" ELSE "closeFailed")
    BY <1>11 DEF ClosePortReceives
  <2>2. Matched(c)' /\ replies'[c] = {} /\ reply.answers \in Pending(c)
    BY <1>11, <2>1, ReceiverMatched DEF ClosePortReceives
  <2>3. reply.answers = "CLOSE_PORT"
    BY <2>1, <2>2, LockedPending
  <2>4. app'[c] = "released" => <<c, starts[c]>> \in closedBy
    BY <2>1, <2>3 DEF CloseSeen, Closes
  <2>5. app'[c] \in {"released", "closeFailed"} /\ starts' = starts
    BY <1>11, <2>1 DEF ClosePortReceives
  <2> QED
    BY <1>2, <2>2, <2>4, <2>5 DEF CloseSeen
<1>12. CASE KeepAliveReceives(c)
  <2>1. PICK reply : Receive(c, reply)
    BY <1>12 DEF KeepAliveReceives
  <2>2. Matched(c)' /\ replies'[c] = {}
    BY <1>12, <2>1, ReceiverMatched DEF KeepAliveReceives
  <2> QED
    BY <1>2, <1>12, <2>2 DEF KeepAliveReceives, CloseSeen
<1>13. ASSUME Pending(c)' = Pending(c), UNCHANGED <<starts, network>>,
              app'[c] \in {"released", "joining", "closed"}
                  => app[c] \in {"released", "joining", "closed"}
       PROVE  Goal
  BY <1>2, <1>13, StillMatched DEF Own, CloseSeen
<1>14. CASE CallKeepPortAlive(c) \/ BindFails(c) \/ CallClosePort(c)
  BY <1>13, <1>14 DEF CallKeepPortAlive, BindFails, CallClosePort, Pending, Locked, Taskless
<1>15. CASE StopKeepAliveCancels(c)
  BY <1>13, <1>15 DEF StopKeepAliveCancels, Pending
<1>16. CASE KeepAliveLoops(c) \/ KeepAliveWakes(c) \/ KeepAliveCancelled(c)
  BY <1>13, <1>16 DEF KeepAliveLoops, KeepAliveWakes, KeepAliveCancelled, Pending
<1>17. CASE StopKeepAliveReturns(c)
  <2>1. Pending(c)' = Pending(c) /\ Own(c)' = Own(c) /\ replies'[c] = {}
    BY <1>17 DEF StopKeepAliveReturns, Pending, Own
  <2> QED
    BY <1>2, <1>17, <2>1, StillMatched DEF StopKeepAliveReturns, CloseSeen
<1>18. CASE Restart(c)
  <2>1. starts'[c] = starts[c] + 1 /\ starts[c] \in Int
    BY <1>18 DEF Restart, Starts
  <2>2. Own(c)' = {} /\ replies'[c] = {}
    BY <1>18, <2>1, DatagramFields DEF Restart, Own, Sender
  <2> QED
    BY <1>18, <2>2 DEF Restart, Matched, CloseSeen
<1> QED
  BY <1>1, <1>5, <1>6, <1>7, <1>8, <1>9, <1>10, <1>11, <1>12, <1>14, <1>15, <1>16, <1>17,
     <1>18 DEF AppStep, TaskStep, Choice

(***************************************************************************)
(* The server, or the network in its place, answers one datagram.          *)
(***************************************************************************)
LEMMA AnsweredMatched ==
    ASSUME TypeOK, NEW c \in Clients, Matched(c), CloseSeen(c),
           NEW d \in requests, requests' = requests \ {d}, UNCHANGED clientvars,
           NEW reply, reply.answers = d.msg.type,
           Deliver(Sender(d), reply) \/ UNCHANGED replies,
           closedBy \subseteq closedBy', Closes(reply) => Sender(d) \in closedBy'
    PROVE  Matched(c)' /\ CloseSeen(c)'
<1>1. /\ app' = app /\ task' = task /\ starts' = starts
      /\ Pending(c)' = Pending(c) /\ Own(c)' = Own(c) \ {d}
  BY DEF clientvars, Pending, Own
<1>2. d.from \in Clients
  BY DatagramFields DEF TypeOK, ClientTypeOK
<1>3. CASE replies'[c] = replies[c]
  <2>1. Matched(c)'
    BY <1>1, <1>3, StillMatched
  <2> QED
    BY <1>1, <1>3, <2>1 DEF CloseSeen
<1>4. CASE replies'[c] # replies[c]
  <2>1. ~Gone(Sender(d)) /\ c = d.from /\ replies'[c] = replies[c] \cup {reply}
    BY <1>2, <1>4 DEF Deliver, Sender, TypeOK, ClientTypeOK
  <2>2. Sender(d) = <<c, starts[c]>> /\ d \in Own(c)
    BY <2>1 DEF Gone, Sender, Own
  <2>3. d.msg.type \in Pending(c) /\ Own(c) = {d} /\ replies[c] = {}
    BY <2>2 DEF Matched
  <2>4. Own(c)' = {} /\ replies'[c] = {reply}
    BY <1>1, <2>1, <2>3
  <2>5. Matched(c)'
    BY <1>1, <2>3, <2>4 DEF Matched
  <2> QED
    BY <1>1, <2>2, <2>4, <2>5 DEF CloseSeen
<1> QED
  BY <1>3, <1>4

LEMMA ServeParts ==
    ASSUME TypeOK, NEW d \in requests, Serve(d), duplicated' = 0
    PROVE  /\ requests' = requests \ {d} /\ duplicated = 0 /\ resets' = resets
           /\ closedBy \subseteq closedBy'
           /\ UNCHANGED clientvars
           /\ d.msg.type = "CLOSE_PORT" => Sender(d) \in closedBy'
           /\ Deliver(Sender(d), Reply(d.msg.type, HandleMessage(ports, d.msg).response))
<1>1. duplicated \in Nat
  BY DEF TypeOK
<1> QED
  BY <1>1 DEF Serve, Consume

LEMMA DisciplineNext ==
    ASSUME Discipline, [Next]_vars
    PROVE  Discipline'
<1>1. /\ Typed /\ Typed' /\ TypeOK /\ requests \subseteq Datagrams
      /\ \A c \in Clients : Locked(c)
      /\ \A d \in requests : d.start <= starts[d.from]
  BY TypedNext DEF Discipline, Typed, TypeOK, ClientTypeOK
<1>2. UNCHANGED <<app, task, socketLock>> => \A c \in Clients : Locked(c)'
  BY <1>1 DEF Locked
<1>3. requests' \subseteq requests /\ UNCHANGED starts
         => \A d \in requests' : d.start <= starts'[d.from]
  BY <1>1
<1>4. UNCHANGED clientvars => UNCHANGED <<app, task, socketLock, starts>>
  BY DEF clientvars
<1> DEFINE Quietly == \A c \in Clients : Matched(c) /\ CloseSeen(c)
<1>5. /\ duplicated = 0 /\ resets = 0 => Quietly
      /\ duplicated \in Nat /\ resets \in Nat
  BY <1>1 DEF Discipline, TypeOK
<1>6. ASSUME UNCHANGED <<app, task, starts, closedBy>>, requests' \subseteq requests,
             \A c \in Clients : replies'[c] \subseteq replies[c], Quietly
      PROVE  Quietly'
  <2> SUFFICES ASSUME NEW c \in Clients PROVE Matched(c)' /\ CloseSeen(c)'
    OBVIOUS
  <2>1. Pending(c)' = Pending(c) /\ Own(c)' \subseteq Own(c)
    BY <1>6 DEF Pending, Own
  <2>2. Matched(c)'
    BY <1>6, <2>1, StillMatched
  <2> QED
    BY <1>6, <2>2 DEF CloseSeen
<1>7. CASE \E c \in Clients : Client(c)
  <2>1. PICK c \in Clients : Client(c)
    BY <1>7
  <2>2. UNCHANGED <<closedBy, duplicated, resets>>
    BY <2>1 DEF Client, server, counters
  <2>3. \A x \in Clients : Locked(x)'
    <3>1. \A x \in Clients : x # c => Locked(x)'
      BY <1>1, <2>1, OthersUnmoved DEF Unmoved, Locked
    <3> QED
      BY <1>1, <2>1, <3>1, ActorLocked
  <2>4. \A d \in requests' : d.start <= starts'[d.from]
    <3>1. /\ \A d \in requests' : d \in requests \/ (d.from = c /\ d.start = starts[c])
          /\ UNCHANGED starts \/ (Restart(c) /\ UNCHANGED requests)
      BY <2>1 DEF Client, AppStep, TaskStep, Choice, LookUpPort, CallRequestPort,
                  ClosePortSends, KeepAliveSends, LookUpPortReturns, RequestPortReturns,
                  ClosePortReceives, KeepAliveReceives, CallKeepPortAlive, BindFails,
                  CallClosePort, StopKeepAliveCancels, StopKeepAliveReturns,
                  KeepAliveLoops, KeepAliveWakes, KeepAliveCancelled, Restart, Send, network
    <3>2. starts \in [Clients -> Int] /\ \A d \in requests : d.from \in Clients /\ d.start \in Int
      BY <1>1, DatagramFields DEF TypeOK, ClientTypeOK, Starts
    <3>3. CASE UNCHANGED starts
      BY <1>1, <3>1, <3>2, <3>3
    <3>4. CASE Restart(c) /\ UNCHANGED requests
      <4>1. starts' = [starts EXCEPT ![c] = starts[c] + 1]
        BY <3>4 DEF Restart
      <4>2. \A x \in Clients : starts[x] <= starts'[x] /\ starts'[x] \in Int
        BY <3>2, <4>1
      <4> QED
        BY <1>1, <3>2, <3>4, <4>2
    <3> QED
      BY <3>1, <3>3, <3>4
  <2>5. Quietly => Quietly'
    <3> SUFFICES ASSUME Quietly, NEW x \in Clients PROVE Matched(x)' /\ CloseSeen(x)'
      OBVIOUS
    <3>1. CASE x = c
      BY <1>1, <2>1, <3>1, ActorMatched
    <3>2. CASE x # c
      <4>1. Unmoved(x)
        BY <1>1, <2>1, <3>2, OthersUnmoved
      <4>2. Pending(x)' = Pending(x)
        BY <4>1 DEF Unmoved, Pending
      <4>3. Own(x)' = Own(x)
        <5>1. \A R : {d \in R : Sender(d) = <<x, starts[x]>>}
                        = {d \in {e \in R : e.from = x} : Sender(d) = <<x, starts[x]>>}
          BY DEF Sender
        <5>2. /\ Own(x) = {d \in SentBy(x) : Sender(d) = <<x, starts[x]>>}
              /\ Own(x)' = {d \in SentBy(x)' : Sender(d) = <<x, starts'[x]>>}
          BY <5>1 DEF Own, SentBy, Sender
        <5> QED
          BY <4>1, <5>2 DEF Unmoved
      <4> QED
        BY <2>2, <4>1, <4>2, <4>3, StillMatched DEF Unmoved, CloseSeen
    <3> QED
      BY <3>1, <3>2
  <2> QED
    BY <1>1, <1>5, <2>2, <2>3, <2>4, <2>5 DEF Discipline
<1>8. ASSUME NEW d \in requests, Serve(d) PROVE Discipline'
  <2>1. UNCHANGED clientvars /\ requests' \subseteq requests
    BY <1>8 DEF Serve, Consume
  <2>2. duplicated' = 0 /\ resets' = 0 => Quietly'
    <3> SUFFICES ASSUME duplicated' = 0, resets' = 0, NEW c \in Clients
                 PROVE  Matched(c)' /\ CloseSeen(c)'
      OBVIOUS
    <3> DEFINE reply == Reply(d.msg.type, HandleMessage(ports, d.msg).response)
    <3>1. Quietly /\ closedBy \subseteq closedBy' /\ requests' = requests \ {d}
          /\ Deliver(Sender(d), reply)
      BY <1>1, <1>5, <1>8, ServeParts
    <3>2. reply.answers = d.msg.type /\ (Closes(reply) => Sender(d) \in closedBy')
      BY <1>1, <1>8, ServeParts DEF Closes, Reply
    <3> HIDE DEF reply
    <3> QED
      BY <1>1, <2>1, <3>1, <3>2, AnsweredMatched
  <2> QED
    BY <1>1, <1>2, <1>3, <1>4, <2>1, <2>2 DEF Discipline
<1>9. ASSUME NEW d \in requests, Unreachable(d) PROVE Discipline'
  <2>1. /\ UNCHANGED clientvars /\ requests' = requests \ {d}
        /\ UNCHANGED <<closedBy, duplicated, resets>>
        /\ Deliver(Sender(d), Reply(d.msg.type, Reset)) \/ UNCHANGED replies
    BY <1>9 DEF Unreachable, server, counters
  <2>2. Reply(d.msg.type, Reset).answers = d.msg.type /\ ~Closes(Reply(d.msg.type, Reset))
    BY DEF Reply, Closes, Succeeds, Reset
  <2>3. Quietly => Quietly'
    BY <1>1, <2>1, <2>2, AnsweredMatched
  <2> QED
    BY <1>1, <1>2, <1>3, <1>4, <1>5, <2>1, <2>3 DEF Discipline
<1>10. CASE ReceiveThrows
  <2>1. UNCHANGED clientvars /\ requests' = requests /\ resets' # 0
    BY <1>5, <1>10 DEF ReceiveThrows
  <2> QED
    BY <1>1, <1>2, <1>3, <1>4, <2>1 DEF Discipline
<1>11. CASE Lose
  <2>1. /\ UNCHANGED clientvars /\ UNCHANGED <<closedBy, duplicated, resets>>
        /\ requests' \subseteq requests
        /\ \A c \in Clients : replies'[c] \subseteq replies[c]
    BY <1>1, <1>11 DEF Lose, server, TypeOK, ClientTypeOK
  <2> QED
    BY <1>1, <1>2, <1>3, <1>4, <1>5, <1>6, <2>1 DEF Discipline
<1>12. CASE Crash \/ StartServer \/ Tick \/ UNCHANGED vars
  <2>1. UNCHANGED <<app, task, socketLock, starts, requests, replies, closedBy,
                    duplicated, resets>>
    BY <1>12 DEF Crash, StartServer, Tick, vars, clientvars, network, server, counters
  <2> QED
    BY <1>1, <1>2, <1>3, <1>5, <1>6, <2>1 DEF Discipline
<1> QED
  BY <1>7, <1>8, <1>9, <1>10, <1>11, <1>12 DEF Next, ServerStep

LEMMA DisciplineInit == Init => Discipline
<1> SUFFICES ASSUME Init PROVE Discipline
  OBVIOUS
<1>1. \A c \in Clients : Locked(c)
  BY DEF Init, ClientInit, Locked, Calling, Taskless
<1>2. \A c \in Clients : Matched(c) /\ CloseSeen(c)
  BY DEF Init, ClientInit, Matched, CloseSeen, Own
<1>3. requests = {}
  BY DEF Init, ClientInit
<1> QED
  BY <1>1, <1>2, <1>3, TypedInit DEF Discipline

LEMMA DisciplineInvariant == Spec => []Discipline
BY DisciplineInit, DisciplineNext, PTL DEF Spec

(***************************************************************************)
(* Whatever reaches a socket answers the one request its process waits     *)
(* for, through losses, crashes and restarts: what the socket lock is for. *)
(***************************************************************************)
THEOREM RepliesMatchHolds == Spec => []RepliesMatch
<1>1. Discipline => RepliesMatch
  <2> SUFFICES ASSUME Discipline, duplicated = 0, resets = 0,
                      NEW c \in Clients, NEW reply \in replies[c]
               PROVE  Pending(c) = {reply.answers}
    BY DEF RepliesMatch
  <2>1. Locked(c) /\ reply.answers \in Pending(c)
    BY DEF Discipline, Matched
  <2>2. app[c] \in Calling \/ task[c] = "waiting"
    BY <2>1 DEF Pending, Calling
  <2> QED
    BY <2>1, <2>2, LockedPending DEF Calling
<1> QED
  BY <1>1, DisciplineInvariant, PTL

(***************************************************************************)
(* ClosePort reports success only if the server has handled a CLOSE_PORT   *)
(* of this very process, through losses, crashes and restarts, as long as  *)
(* no datagram is delivered twice and no receive of the server throws.     *)
(***************************************************************************)
THEOREM CloseAnsweredHolds ==
    ASSUME MaxDuplicated = 0, MaxResets = 0
    PROVE  Spec => []CloseAnswered
<1>1. Discipline => CloseAnswered
  <2> SUFFICES ASSUME Discipline PROVE CloseAnswered
    OBVIOUS
  <2>1. duplicated = 0 /\ resets = 0
    BY DEF Discipline, Typed, TypeOK
  <2> QED
    BY <2>1 DEF Discipline, CloseSeen, CloseAnswered
<1> QED
  BY <1>1, DisciplineInvariant, PTL

-------------------------------------------------------------------------------
(***************************************************************************)
(* The table and the lock together: what the server has for the service of *)
(* a first process is the port that the process was granted, if anything,  *)
(* and nothing once a CLOSE_PORT of the process has succeeded.             *)
(***************************************************************************)
\* No two processes register the same service.
Distinct == \A c, x \in Clients : ServiceOf[c] = ServiceOf[x] => c = x

\* Grants that are still in its socket.
Granted(c) == {reply \in replies[c] : reply.answers = "REQUEST_PORT" /\ Succeeds(reply)}

\* The ports the server has for the service of a process.
Entered(c) == PortsOf(ports, ServiceOf[c])

\* From the grant on it is the port of the grant; after the close, none.
First(c) ==
    /\ app[c] \in {"granted", "serving", "unbound", "wantsClose", "closing"}
          => Entered(c) \subseteq {port[c]}
    /\ \A reply \in Granted(c) : Entered(c) \subseteq {reply.response.port}
    /\ \A d \in Own(c) : d.msg.type = "CLOSE_PORT" => d.msg.port = port[c]
    /\ \A reply \in replies[c] : Closes(reply) => Entered(c) = {}
    /\ app[c] \in {"released", "joining", "closed"} => Entered(c) = {}

\* A process asks for its own service.
Named ==
    \A d \in requests :
        d.msg.type = "REQUEST_PORT" => d.msg.serviceName = ServiceOf[d.from]

Settling ==
    /\ Discipline
    /\ Named
    /\ duplicated = 0 /\ resets = 0 => \A c \in Clients : starts[c] = 1 => First(c)

LEMMA NamedNext ==
    ASSUME TypeOK, Named, [Next]_vars
    PROVE  Named'
<1>1. CASE requests' \subseteq requests
  BY <1>1 DEF Named
<1>2. ASSUME NEW c \in Clients, NEW msg, Send(c, msg),
             msg.type = "REQUEST_PORT" => msg.serviceName = ServiceOf[c]
      PROVE  Named'
  BY <1>2 DEF Named, Send
<1>3. ASSUME NEW c \in Clients, Client(c) PROVE Named'
  BY <1>1, <1>2, <1>3
     DEF Client, AppStep, TaskStep, Choice, LookUpPort, CallRequestPort, ClosePortSends,
         KeepAliveSends, LookUpPortReturns, RequestPortReturns, ClosePortReceives,
         KeepAliveReceives, CallKeepPortAlive, BindFails, CallClosePort,
         StopKeepAliveCancels, StopKeepAliveReturns, KeepAliveLoops, KeepAliveWakes,
         KeepAliveCancelled, Restart, Request, network
<1>4. CASE \A c \in Clients : ~Client(c)
  BY <1>1, <1>4 DEF Next, ServerStep, Serve, Consume, Unreachable, ReceiveThrows, Lose,
                    Crash, StartServer, Tick, vars, network
<1> QED
  BY <1>3, <1>4

Closing(c) == {d \in SentBy(c) : d.msg.type = "CLOSE_PORT"}

LEMMA UnmovedOwn ==
    ASSUME NEW c \in Clients, Unmoved(c)
    PROVE  Own(c)' = Own(c) /\ Closing(c)' = Closing(c)
<1>1. /\ Own(c) = {d \in SentBy(c) : Sender(d) = <<c, starts[c]>>}
      /\ Own(c)' = {d \in SentBy(c)' : Sender(d) = <<c, starts'[c]>>}
  BY DEF Own, SentBy, Sender
<1>2. Closing(c)' = {d \in SentBy(c)' : d.msg.type = "CLOSE_PORT"}
  BY DEF Closing
<1> QED
  BY <1>1, <1>2 DEF Unmoved, Closing

\* What the handling of one datagram does to a socket that is open.
LEMMA ServeAnswers ==
    ASSUME TypeOK, NEW d \in requests, Serve(d), duplicated' = 0,
           NEW c \in Clients, Matched(c)
    PROVE  LET reply == Reply(d.msg.type, HandleMessage(ports, d.msg).response)
           IN  \/ replies'[c] = replies[c] /\ (d \in Own(c) => app[c] = "closed")
               \/ /\ d \in Own(c) /\ Own(c) = {d} /\ replies[c] = {}
                  /\ replies'[c] = {reply}
<1> DEFINE reply == Reply(d.msg.type, HandleMessage(ports, d.msg).response)
<1>1. Deliver(Sender(d), reply)
  BY ServeParts
<1> HIDE DEF reply
<1>2. replies \in [Clients -> SUBSET Replies] /\ d.from \in Clients
  BY DatagramFields DEF TypeOK, ClientTypeOK
<1>3. CASE d \in Own(c) /\ app[c] # "closed"
  <2>1. Sender(d) = <<c, starts[c]>> /\ d.from = c /\ ~Gone(Sender(d))
    BY <1>3 DEF Own, Sender, Gone
  <2>2. Own(c) = {d} /\ replies[c] = {}
    BY <1>3 DEF Matched
  <2>3. replies'[c] = {reply}
    BY <1>1, <1>2, <2>1, <2>2 DEF Deliver, Sender
  <2> QED
    BY <1>3, <2>2, <2>3 DEF reply
<1>4. CASE ~(d \in Own(c) /\ app[c] # "closed")
  <2>1. CASE d.from = c
    <3>1. Gone(Sender(d))
      BY <1>4, <2>1 DEF Own, Sender, Gone
    <3> QED
      BY <1>1, <1>4, <3>1 DEF Deliver
  <2>2. CASE d.from # c
    BY <1>1, <1>2, <1>4, <2>2 DEF Deliver, Sender
  <2> QED
    BY <2>1, <2>2
<1> QED
  BY <1>3, <1>4

\* Nothing new for the service in the table, on its way, or in the process.
LEMMA StillFirst ==
    ASSUME NEW c \in Clients, First(c), Entered(c)' \subseteq Entered(c),
           Own(c)' \subseteq Own(c), port'[c] = port[c], app'[c] = app[c],
           \A reply \in replies'[c] : reply \in replies[c] \/ ~Succeeds(reply)
    PROVE  First(c)'
BY DEF First, Granted, Closes

LEMMA ActorFirst ==
    ASSUME TypeOK, NEW c \in Clients, Client(c), Locked(c), Matched(c), First(c),
           starts[c] = 1, starts'[c] = 1
    PROVE  First(c)'
<1>1. AppStep(c) \/ TaskStep(c) \/ Choice(c)
  BY DEF Client
<1>2. Entered(c)' = Entered(c)
  BY DEF Client, server, Entered
<1> USE DEF TypeOK, ClientTypeOK, AppGoes, TaskGoes, Acquire, Release, network
<1>3. ASSUME NEW msg, Send(c, msg), UNCHANGED <<starts, port, replies>>,
             msg.type = "CLOSE_PORT" => msg.port = port[c],
             \/ app'[c] \in {app[c], "lookingUp", "requesting"}
             \/ app[c] = "wantsClose" /\ app'[c] = "closing"
      PROVE  First(c)'
  <2>1. \A d \in Own(c)' : d \in Own(c) \/ d.msg = msg
    BY <1>3 DEF Send, Own
  <2> QED
    BY <1>2, <1>3, <2>1 DEF First, Granted
<1>4. ASSUME NEW name \in Names, LookUpPort(c, name) PROVE First(c)'
  BY <1>3, <1>4 DEF LookUpPort, Request
<1>5. CASE CallRequestPort(c)
  BY <1>3, <1>5 DEF CallRequestPort, Request
<1>6. CASE ClosePortSends(c)
  BY <1>3, <1>6 DEF ClosePortSends, Request
<1>7. CASE KeepAliveSends(c)
  BY <1>3, <1>7 DEF KeepAliveSends, Request
<1>8. ASSUME NEW reply, Receive(c, reply), UNCHANGED <<starts, requests, port>>,
             app'[c] \in {app[c], "start", "failed", "closeFailed"}
      PROVE  First(c)'
  BY <1>2, <1>8 DEF Receive, First, Granted, Own
<1>9. CASE LookUpPortReturns(c)
  BY <1>8, <1>9 DEF LookUpPortReturns
<1>10. CASE KeepAliveReceives(c)
  BY <1>8, <1>10 DEF KeepAliveReceives
<1>11. CASE RequestPortReturns(c)
  <2>1. PICK reply \in replies[c] :
            /\ Receive(c, reply)
            /\ AppGoes(c, "requesting", IF Succeeds(reply) THEN "granted" ELSE "failed")
            /\ port' = [port EXCEPT ![c] = IF Succeeds(reply) THEN reply.response.port ELSE @]
    BY <1>11 DEF RequestPortReturns
  <2>2. UNCHANGED <<starts, requests>>
    BY <1>11 DEF RequestPortReturns
  <2>3. replies'[c] = {} /\ Own(c)' = {} /\ reply.answers \in Pending(c)
    BY <2>1, <2>2, ReceiverMatched
  <2>4. Succeeds(reply) => Entered(c) \subseteq {reply.response.port}
    BY <2>1, <2>3, LockedPending DEF First, Granted
  <2>5. /\ app'[c] = (IF Succeeds(reply) THEN "granted" ELSE "failed")
        /\ Succeeds(reply) => port'[c] = reply.response.port
    BY <2>1
  <2> QED
    BY <1>2, <2>3, <2>4, <2>5 DEF First, Granted
<1>12. CASE ClosePortReceives(c)
  <2>1. PICK reply \in replies[c] :
            /\ Receive(c, reply)
            /\ AppGoes(c, "closing", IF Succeeds(reply) THEN "released" ELSE "closeFailed")
    BY <1>12 DEF ClosePortReceives
  <2>2. UNCHANGED <<starts, requests, port>>
    BY <1>12 DEF ClosePortReceives
  <2>3. replies'[c] = {} /\ Own(c)' = {} /\ reply.answers \in Pending(c)
    BY <2>1, <2>2, ReceiverMatched
  <2>4. Succeeds(reply) => Entered(c) = {}
    BY <2>1, <2>3, LockedPending DEF First, Closes
  <2>5. app'[c] = (IF Succeeds(reply) THEN "released" ELSE "closeFailed")
    BY <2>1
  <2> QED
    BY <1>2, <2>3, <2>4, <2>5 DEF First, Granted
<1>13. ASSUME UNCHANGED <<starts, requests, port>>, replies'[c] \subseteq replies[c],
              \/ app'[c] = app[c]
              \/ app[c] \in {"granted", "serving"}
                    /\ app'[c] \in {"serving", "unbound", "wantsClose"}
              \/ app[c] \in {"released", "joining"} /\ app'[c] \in {"joining", "closed"}
       PROVE  First(c)'
  <2>1. Own(c)' = Own(c)
    BY <1>13 DEF Own
  <2> QED
    BY <1>2, <1>13, <2>1 DEF First, Granted
<1>14. CASE CallKeepPortAlive(c) \/ BindFails(c) \/ CallClosePort(c)
  BY <1>13, <1>14 DEF CallKeepPortAlive, BindFails, CallClosePort
<1>15. CASE StopKeepAliveCancels(c) \/ StopKeepAliveReturns(c)
  BY <1>13, <1>15 DEF StopKeepAliveCancels, StopKeepAliveReturns
<1>16. CASE KeepAliveLoops(c) \/ KeepAliveWakes(c) \/ KeepAliveCancelled(c)
  BY <1>13, <1>16 DEF KeepAliveLoops, KeepAliveWakes, KeepAliveCancelled
<1>17. CASE Restart(c)
  BY <1>17 DEF Restart
<1> QED
  BY <1>1, <1>4, <1>5, <1>6, <1>7, <1>9, <1>10, <1>11, <1>12, <1>14, <1>15, <1>16, <1>17
     DEF AppStep, TaskStep, Choice

\* A REQUEST_PORT for a first process's service is its own, and it waits for
\* the answer: what is entered is what the answer says.
LEMMA ServeFirst ==
    ASSUME Distinct, TypeOK, Named, NEW d \in requests, Serve(d), duplicated' = 0,
           NEW c \in Clients, Locked(c), Matched(c), First(c), starts[c] = 1,
           d.start <= starts[d.from]
    PROVE  First(c)'
<1> DEFINE response == HandleMessage(ports, d.msg).response
           reply == Reply(d.msg.type, response)
<1>1. /\ d \in Datagrams /\ d.from \in Clients /\ d.start \in Starts /\ WellFormed(d.msg)
      /\ ports \in Tables /\ ports' = HandleMessage(ports, d.msg).ports
      /\ requests' = requests \ {d} /\ UNCHANGED clientvars
  BY DatagramFields, TableType, ServeParts DEF TypeOK, ClientTypeOK, Serve
<1>2. /\ Own(c)' = Own(c) \ {d} /\ UNCHANGED <<app, port, starts>>
  BY <1>1 DEF Own, clientvars
<1>3. /\ reply.answers = d.msg.type /\ reply.response = response
      /\ Succeeds(reply) <=> response.status = "SUCCESS"
  BY DEF Reply, Succeeds
<1>4. /\ ~(d.msg.type = "REQUEST_PORT" /\ d.msg.serviceName = ServiceOf[c])
            => Entered(c)' \subseteq Entered(c)
      /\ d.msg.type = "REQUEST_PORT" /\ d.msg.serviceName = ServiceOf[c]
            /\ response.status = "SUCCESS" => Entered(c)' \subseteq {response.port}
      /\ d.msg.type = "CLOSE_PORT" /\ response.status = "SUCCESS"
            => d.msg.port \notin Entered(c)'
  BY <1>1, EntersOnlyOnRequest DEF Entered
<1>5. \/ replies'[c] = replies[c] /\ (d \in Own(c) => app[c] = "closed")
      \/ /\ d \in Own(c) /\ Own(c) = {d} /\ replies[c] = {}
         /\ replies'[c] = {reply}
  BY ServeAnswers
<1>6. d \in Own(c) => d.msg.type \in Pending(c) /\ replies[c] = {}
  BY DEF Matched
<1> HIDE DEF reply, response
<1>7. CASE d.msg.type = "REQUEST_PORT" /\ d.msg.serviceName = ServiceOf[c]
  <2>1. d.from = c /\ d.start = 1
    BY <1>1, <1>7 DEF Named, Distinct, Starts
  <2>2. d \in Own(c)
    BY <2>1 DEF Own, Sender
  <2>3. app[c] = "requesting" /\ Own(c) = {d}
    BY <1>6, <1>7, <2>2 DEF Pending, Matched
  <2>4. replies'[c] = {reply} /\ Own(c)' = {}
    BY <1>2, <1>5, <2>2, <2>3
  <2> QED
    BY <1>2, <1>3, <1>4, <1>7, <2>3, <2>4 DEF First, Granted, Closes
<1>8. CASE ~(d.msg.type = "REQUEST_PORT" /\ d.msg.serviceName = ServiceOf[c])
  <2>1. Entered(c)' \subseteq Entered(c)
    BY <1>4, <1>8
  <2>2. CASE replies'[c] = replies[c]
    BY <1>2, <2>1, <2>2, StillFirst
  <2>3. CASE d \in Own(c) /\ replies'[c] = {reply}
    <3>1. d.msg.type # "REQUEST_PORT"
      BY <1>8, <2>3 DEF Own, Sender, Named
    <3>2. Closes(reply) => Entered(c)' = {}
      <4> SUFFICES ASSUME Closes(reply) PROVE Entered(c)' = {}
        OBVIOUS
      <4>1. d.msg.type = "CLOSE_PORT" /\ response.status = "SUCCESS"
        BY <1>3 DEF Closes
      <4>2. app[c] = "closing"
        BY <1>6, <2>3, <4>1 DEF Pending
      <4>3. Entered(c) \subseteq {d.msg.port}
        BY <2>3, <4>1, <4>2 DEF First
      <4> QED
        BY <1>4, <2>1, <4>1, <4>3
    <3> QED
      BY <1>2, <1>3, <2>1, <2>3, <3>1, <3>2 DEF First, Granted
  <2> QED
    BY <1>5, <2>2, <2>3
<1> QED
  BY <1>7, <1>8

LEMMA SettlingNext ==
    ASSUME Distinct, Settling, [Next]_vars
    PROVE  Settling'
<1>1. /\ TypeOK /\ Named /\ Named' /\ Discipline /\ Discipline'
      /\ requests \subseteq Datagrams
      /\ duplicated \in Nat /\ resets \in Nat
      /\ \A c \in Clients : Locked(c) /\ starts[c] \in Nat /\ starts[c] >= 1
      /\ \A d \in requests : d.start <= starts[d.from]
  BY NamedNext, DisciplineNext DEF Settling, Discipline, Typed, TypeOK, ClientTypeOK, Starts
<1>2. SUFFICES ASSUME duplicated' = 0, resets' = 0, NEW c \in Clients, starts'[c] = 1
               PROVE  First(c)'
  BY <1>1 DEF Settling
<1>3. duplicated = 0 /\ resets = 0 => Matched(c) /\ (starts[c] = 1 => First(c))
  BY DEF Settling, Discipline
<1>4. ASSUME UNCHANGED <<clientvars, duplicated, resets>>, requests' \subseteq requests,
             Entered(c)' \subseteq Entered(c),
             \A reply \in replies'[c] : reply \in replies[c] \/ ~Succeeds(reply)
      PROVE  First(c)'
  <2>1. UNCHANGED <<app, port, starts>>
    BY <1>4 DEF clientvars
  <2>2. Own(c)' \subseteq Own(c)
    BY <1>4, <2>1 DEF Own
  <2> QED
    BY <1>2, <1>3, <1>4, <2>1, <2>2, StillFirst
<1>5. ASSUME NEW x \in Clients, Client(x) PROVE First(c)'
  <2>1. UNCHANGED <<ports, duplicated, resets>>
    BY <1>5 DEF Client, server, counters
  <2>2. CASE x # c
    <3>1. Unmoved(c)
      BY <1>1, <1>5, <2>2, OthersUnmoved
    <3>2. Own(c)' = Own(c) /\ Entered(c)' = Entered(c)
      BY <2>1, <3>1, UnmovedOwn DEF Entered
    <3> QED
      BY <1>2, <1>3, <2>1, <3>1, <3>2, StillFirst DEF Unmoved
  <2>3. CASE x = c
    <3>1. starts[c] = 1
      <4>1. starts'[c] = starts[c] \/ starts'[c] = starts[c] + 1
        BY <1>1, <1>5, <2>3
           DEF Client, AppStep, TaskStep, Choice, LookUpPort, CallRequestPort,
               ClosePortSends, KeepAliveSends, LookUpPortReturns, RequestPortReturns,
               ClosePortReceives, KeepAliveReceives, CallKeepPortAlive, BindFails,
               CallClosePort, StopKeepAliveCancels, StopKeepAliveReturns,
               KeepAliveLoops, KeepAliveWakes, KeepAliveCancelled, Restart,
               TypeOK, ClientTypeOK
      <4> QED
        BY <1>1, <1>2, <4>1
    <3> QED
      BY <1>1, <1>2, <1>3, <1>5, <2>1, <2>3, <3>1, ActorFirst
  <2> QED
    BY <2>2, <2>3
<1>6. ASSUME NEW d \in requests, Serve(d) PROVE First(c)'
  <2>1. duplicated = 0 /\ resets = 0 /\ starts' = starts
    BY <1>1, <1>2, <1>6, ServeParts DEF clientvars
  <2> QED
    BY <1>1, <1>2, <1>3, <1>6, <2>1, ServeFirst
<1>7. ASSUME NEW d \in requests, Unreachable(d) PROVE First(c)'
  <2>1. Deliver(Sender(d), Reply(d.msg.type, Reset)) \/ UNCHANGED replies
    BY <1>7 DEF Unreachable
  <2>2. ~Succeeds(Reply(d.msg.type, Reset))
    BY DEF Succeeds, Reply, Reset
  <2>3. \A reply \in replies'[c] : reply \in replies[c] \/ ~Succeeds(reply)
    BY <1>1, <2>1, <2>2 DEF Deliver, TypeOK, ClientTypeOK
  <2> QED
    BY <1>4, <1>7, <2>3 DEF Unreachable, server, counters, Entered
<1>8. CASE ReceiveThrows
  BY <1>1, <1>2, <1>8 DEF ReceiveThrows
<1>9. CASE Lose
  <2>1. replies'[c] \subseteq replies[c] /\ requests' \subseteq requests
    BY <1>1, <1>9 DEF Lose, TypeOK, ClientTypeOK
  <2> QED
    BY <1>4, <1>9, <2>1 DEF Lose, server, Entered
<1>10. CASE Crash
  <2>1. Entered(c)' = {}
    BY <1>10 DEF Crash, EmptyTable, Entered, PortsOf, Fresh
  <2> QED
    BY <1>4, <1>10, <2>1 DEF Crash, network
<1>11. CASE StartServer \/ UNCHANGED vars
  BY <1>4, <1>11 DEF StartServer, vars, network, server, counters, Entered
<1>12. CASE Tick
  <2>1. Entered(c)' = Entered(c)
    <3>1. \A p \in Ports : /\ ports'[p].available = ports[p].available
                           /\ ports'[p].serviceName = ports[p].serviceName
      BY <1>1, <1>12, TableType DEF Tick, Reservation
    <3> QED
      BY <3>1 DEF Entered, PortsOf
  <2>2. Own(c)' = Own(c) /\ UNCHANGED <<app, port, replies, starts, duplicated, resets>>
    BY <1>12 DEF Tick, network, counters, Own
  <2> QED
    BY <1>2, <1>3, <2>1, <2>2, StillFirst
<1> QED
  BY <1>5, <1>6, <1>7, <1>8, <1>9, <1>10, <1>11, <1>12 DEF Next, ServerStep

(***************************************************************************)
(* Once a first process has the answer to its CLOSE_PORT, the server has   *)
(* no port for its service, for any number of processes with services of   *)
(* their own and through losses, delays and crashes.                       *)
(***************************************************************************)
THEOREM ClosedIsFreeHolds ==
    ASSUME Distinct
    PROVE  Spec => []ClosedIsFree
<1>1. Init => Settling
  <2> SUFFICES ASSUME Init PROVE Settling
    OBVIOUS
  <2>1. Named /\ \A c \in Clients : First(c)
    BY DEF Init, ClientInit, Named, First, Granted, Own
  <2> QED
    BY <2>1, DisciplineInit DEF Settling
<1>2. Settling /\ [Next]_vars => Settling'
  BY SettlingNext
<1>3. Settling => ClosedIsFree
  BY DEF Settling, ClosedIsFree, First, Entered
<1> QED
  BY <1>1, <1>2, <1>3, PTL DEF Spec

-------------------------------------------------------------------------------
(***************************************************************************)
(* Time, in a system where nothing goes wrong and everything is fast       *)
(* against a second: the delay of the task is no longer than the timeout   *)
(* of the server, and no two processes run the same service.               *)
(***************************************************************************)
Calm ==
    /\ Prompt
    /\ MaxLost = 0 /\ MaxDuplicated = 0 /\ MaxCrashes = 0 /\ MaxResets = 0
    /\ KeepAliveDelay <= KeepAliveTimeout
    /\ \A c, x \in Clients : ServiceOf[c] = ServiceOf[x] => c = x

\* The entry of port p is the service's, and not older than the task's delay.
Claims(c, p) == p \in PortsOf(ports, ServiceOf[c]) /\ ports[p].idle <= KeepAliveDelay

Left(c) == IF task[c] = "delay" THEN remaining[c] ELSE 0

(***************************************************************************)
(* A process that holds a port has a task that will renew it in time: the  *)
(* age of the entry and what is left of the task's delay make no more than *)
(* the delay.                                                              *)
(***************************************************************************)
Renewing(c) ==
    /\ Holding(c) => Claims(c, port[c]) /\ ports[port[c]].idle + Left(c) <= KeepAliveDelay
    /\ app[c] \in {"serving", "unbound", "wantsClose"} =>
          ~cancelled[c] /\ task[c] \in {"ready", "wantsLock", "waiting", "delay"}
    /\ task[c] = "waiting" => Own(c) # {} \/ replies[c] # {}

(***************************************************************************)
(* An answer on its way speaks of the present: a granted port is the       *)
(* service's, a renewed one is, and both entries are fresh.                *)
(***************************************************************************)
AnswersHold(c) ==
    /\ \A reply \in Granted(c) :
          Claims(c, reply.response.port) /\ ports[reply.response.port].idle = 0
    /\ \A reply \in replies[c] :
          reply.answers = "KEEP_ALIVE" /\ Holding(c) => ports[port[c]].idle = 0

(***************************************************************************)
(* A request on its way speaks of the sender's service, and a CLOSE_PORT   *)
(* of a port that is still the service's, with nobody holding it.          *)
(***************************************************************************)
RequestsHold(c) ==
    /\ \A d \in Own(c) : d.msg.type = "KEEP_ALIVE" => d.msg.port = port[c]
    /\ \A d \in SentBy(c) :
          d.msg.type \in {"REQUEST_PORT", "KEEP_ALIVE", "CLOSE_PORT"}
              => d.msg.serviceName = ServiceOf[c]
    /\ \A d \in Closing(c) :
          /\ Claims(c, d.msg.port)
          /\ ~Holding(c) /\ Granted(c) = {} /\ Closing(c) = {d}

Kept(c) == Renewing(c) /\ AnswersHold(c) /\ RequestsHold(c)

Keeping == Discipline /\ up /\ \A c \in Clients : Kept(c)

LEMMA KeepingParts ==
    ASSUME Calm, Keeping
    PROVE  /\ TypeOK /\ up /\ duplicated = 0 /\ resets = 0 /\ lost = 0 /\ crashes = 0
           /\ bounced = FALSE
           /\ requests \subseteq Datagrams
           /\ ports \in Tables /\ \A p \in Ports : ports[p].idle \in Nat
           /\ \A c \in Clients : /\ Locked(c) /\ Matched(c) /\ CloseSeen(c) /\ Kept(c)
                                 /\ Left(c) \in 0 .. KeepAliveDelay
                                 /\ ServiceOf[c] \in Names
           /\ \A d \in requests : d.start <= starts[d.from]
<1>1. TypeOK /\ up /\ \A c \in Clients : Locked(c) /\ Kept(c)
  BY DEF Keeping, Discipline, Typed
<1>2. duplicated = 0 /\ resets = 0 /\ lost = 0 /\ crashes = 0 /\ requests \subseteq Datagrams
  BY <1>1 DEF Calm, TypeOK, ClientTypeOK
<1>3. bounced \in BOOLEAN /\ ~bounced
  BY <1>2 DEF Calm, Keeping, Discipline, Typed, TypeOK
<1>4. ports \in Tables /\ \A p \in Ports : ports[p].idle \in Nat
  BY <1>1, TableType, TimeoutAssumption DEF IdleTimes, IdleCap
<1>5. \A c \in Clients : Left(c) \in 0 .. KeepAliveDelay /\ ServiceOf[c] \in Names
  BY <1>1, ClientAssumption DEF Left, TypeOK, ClientTypeOK
<1> QED
  BY <1>1, <1>2, <1>3, <1>4, <1>5 DEF Keeping, Discipline

LEMMA OthersKept ==
    ASSUME NEW c \in Clients, Unmoved(c), UNCHANGED ports, Kept(c)
    PROVE  Kept(c)'
<1>1. Own(c)' = Own(c) /\ Closing(c)' = Closing(c)
  BY UnmovedOwn
<1>2. Holding(c)' = Holding(c) /\ Left(c)' = Left(c) /\ Granted(c)' = Granted(c)
  BY DEF Unmoved, Holding, Left, Granted
<1>3. \A p : Claims(c, p)' = Claims(c, p)
  BY DEF Claims, PortsOf
<1> QED
  BY <1>1, <1>2, <1>3 DEF Unmoved, Kept, Renewing, AnswersHold, RequestsHold, Claims

LEMMA ActorKept ==
    ASSUME Calm, Keeping, NEW c \in Clients, Client(c)
    PROVE  Kept(c)'
<1>1. AppStep(c) \/ TaskStep(c) \/ Choice(c)
  BY DEF Client
<1>2. /\ ports' = ports /\ Locked(c) /\ Matched(c) /\ Kept(c) /\ Locked(c)'
      /\ TypeOK /\ \A p \in Ports : ports[p].idle \in Nat
      /\ KeepAliveDelay \in Nat /\ ServiceOf[c] \in Names
  BY KeepingParts, ActorLocked, ClientAssumption DEF Client, server
<1>3. \A p : Claims(c, p)' = Claims(c, p)
  BY <1>2 DEF Claims, PortsOf
<1>4. Closing(c)' = {d \in SentBy(c)' : d.msg.type = "CLOSE_PORT"}
  BY DEF Closing
<1> USE DEF TypeOK, ClientTypeOK, AppGoes, TaskGoes, Acquire, Release, network
\* A step that sends: what was true of the datagrams stays, the new one is checked.
<1>5. ASSUME NEW msg, Send(c, msg), UNCHANGED <<starts, port, replies>>,
             Pending(c) = {},
             msg.type \in {"REQUEST_PORT", "KEEP_ALIVE", "CLOSE_PORT"}
                => msg.serviceName = ServiceOf[c],
             msg.type = "KEEP_ALIVE" => msg.port = port[c],
             msg.type = "CLOSE_PORT" => Holding(c) /\ msg.port = port[c],
             msg.type # "CLOSE_PORT" => (Holding(c)' => Holding(c)),
             msg.type = "CLOSE_PORT" => ~Holding(c)'
      PROVE  RequestsHold(c)' /\ AnswersHold(c)' /\ Own(c)' # {}
  <2> DEFINE d == [from |-> c, start |-> starts[c], msg |-> msg]
  <2>1. replies[c] = {} /\ Own(c) = {}
    BY <1>2, <1>5 DEF Matched
  <2>2. Own(c)' = {d} /\ SentBy(c)' = SentBy(c) \cup {d} /\ d.msg = msg
    BY <1>5, <2>1 DEF Send, Own, SentBy, Sender
  <2> HIDE DEF d
  <2>3. Granted(c)' = {} /\ replies'[c] = {}
    BY <1>5, <2>1 DEF Granted
  <2>4. CASE msg.type = "CLOSE_PORT"
    <3>1. Closing(c) = {} /\ Claims(c, port[c])
      BY <1>2, <1>5, <2>4 DEF Kept, RequestsHold, Renewing
    <3>2. Closing(c)' = {d}
      BY <1>4, <2>2, <2>4, <3>1 DEF Closing
    <3> QED
      BY <1>2, <1>3, <1>5, <2>2, <2>3, <2>4, <3>1, <3>2 DEF Kept, RequestsHold, AnswersHold
  <2>5. CASE msg.type # "CLOSE_PORT"
    <3>1. Closing(c)' = Closing(c)
      BY <1>4, <2>2, <2>5 DEF Closing
    <3> QED
      BY <1>2, <1>3, <1>5, <2>2, <2>3, <2>5, <3>1 DEF Kept, RequestsHold, AnswersHold
  <2> QED
    BY <2>4, <2>5
\* A step that receives, or that empties the socket.
<1>6. ASSUME UNCHANGED requests, replies'[c] = {}, Own(c)' = {},
             Holding(c)' => Holding(c) \/ Granted(c) # {}
      PROVE  RequestsHold(c)' /\ AnswersHold(c)'
  <2>1. SentBy(c)' = SentBy(c) /\ Closing(c)' = Closing(c) /\ Granted(c)' = {}
    BY <1>6 DEF SentBy, Closing, Granted
  <2> QED
    BY <1>2, <1>3, <1>6, <2>1 DEF Kept, RequestsHold, AnswersHold
\* A step that leaves the network alone.
<1>7. ASSUME UNCHANGED <<requests, replies, starts, port>>, Holding(c)' => Holding(c)
      PROVE  RequestsHold(c)' /\ AnswersHold(c)' /\ Own(c)' = Own(c)
  <2>1. /\ SentBy(c)' = SentBy(c) /\ Closing(c)' = Closing(c) /\ Granted(c)' = Granted(c)
        /\ Own(c)' = Own(c)
    BY <1>7 DEF SentBy, Closing, Granted, Own
  <2> QED
    BY <1>2, <1>3, <1>7, <2>1 DEF Kept, RequestsHold, AnswersHold
<1>8. ASSUME NEW name \in Names, LookUpPort(c, name) PROVE Kept(c)'
  <2>1. Pending(c) = {} /\ ~Holding(c)' /\ task'[c] # "waiting"
    BY <1>2, <1>8, LockedPending DEF LookUpPort, Holding, Locked, Taskless
  <2>2. RequestsHold(c)' /\ AnswersHold(c)'
    BY <1>5, <1>8, <2>1 DEF LookUpPort, Request
  <2> QED
    BY <1>8, <2>1, <2>2 DEF LookUpPort, Kept, Renewing
<1>9. CASE CallRequestPort(c)
  <2>1. Pending(c) = {} /\ ~Holding(c)' /\ task'[c] # "waiting"
    BY <1>2, <1>9, LockedPending DEF CallRequestPort, Holding, Locked, Taskless
  <2>2. RequestsHold(c)' /\ AnswersHold(c)'
    BY <1>5, <1>9, <2>1 DEF CallRequestPort, Request
  <2> QED
    BY <1>9, <2>1, <2>2 DEF CallRequestPort, Kept, Renewing
<1>10. CASE ClosePortSends(c)
  <2>1. Pending(c) = {} /\ Holding(c) /\ ~Holding(c)' /\ task'[c] # "waiting"
    BY <1>2, <1>10, LockedPending DEF ClosePortSends, Holding, Locked
  <2>2. RequestsHold(c)' /\ AnswersHold(c)'
    BY <1>5, <1>10, <2>1 DEF ClosePortSends, Request
  <2> QED
    BY <1>2, <1>10, <2>1, <2>2 DEF ClosePortSends, Kept, Renewing, Holding
<1>11. CASE KeepAliveSends(c)
  <2>1. Pending(c) = {} /\ Holding(c)' = Holding(c) /\ Left(c) = 0 /\ Left(c)' = 0
    BY <1>2, <1>11, LockedPending DEF KeepAliveSends, Holding, Left
  <2>2. RequestsHold(c)' /\ AnswersHold(c)' /\ Own(c)' # {}
    BY <1>5, <1>11, <2>1 DEF KeepAliveSends, Request
  <2> QED
    BY <1>2, <1>3, <1>11, <2>1, <2>2 DEF KeepAliveSends, Kept, Renewing
<1>12. CASE LookUpPortReturns(c)
  <2>1. PICK reply : Receive(c, reply)
    BY <1>12 DEF LookUpPortReturns
  <2>2. replies'[c] = {} /\ Own(c)' = {}
    BY <1>2, <1>12, <2>1, ReceiverMatched DEF LookUpPortReturns
  <2>3. ~Holding(c)' /\ task'[c] # "waiting" /\ UNCHANGED requests
    BY <1>2, <1>12 DEF LookUpPortReturns, Holding, Locked, Taskless
  <2>4. app'[c] \notin {"serving", "unbound", "wantsClose"}
    BY <1>12 DEF LookUpPortReturns
  <2> QED
    BY <1>6, <2>2, <2>3, <2>4 DEF Kept, Renewing
<1>13. CASE RequestPortReturns(c)
  <2>1. PICK reply \in replies[c] :
            /\ Receive(c, reply)
            /\ AppGoes(c, "requesting", IF Succeeds(reply) THEN "granted" ELSE "failed")
            /\ port' = [port EXCEPT ![c] = IF Succeeds(reply) THEN reply.response.port ELSE @]
            /\ UNCHANGED <<task, remaining, cancelled, starts, requests>>
    BY <1>13 DEF RequestPortReturns
  <2>2. replies'[c] = {} /\ Own(c)' = {} /\ reply.answers = "REQUEST_PORT"
    BY <1>2, <2>1, ReceiverMatched, LockedPending
  <2>3. task'[c] = "none"
    BY <1>2, <2>1 DEF Locked, Taskless
  <2>4. Holding(c)' => reply \in Granted(c) /\ port'[c] = reply.response.port
    BY <1>2, <2>1, <2>2 DEF Holding, Granted
  <2>5. Left(c)' = 0
    BY <2>3 DEF Left
  <2>6. ASSUME Holding(c)'
        PROVE  Claims(c, port[c])' /\ ports'[port'[c]].idle + Left(c)' <= KeepAliveDelay
    <3>1. Claims(c, port'[c]) /\ ports[port'[c]].idle = 0
      BY <1>2, <2>4, <2>6 DEF Kept, AnswersHold
    <3>2. Claims(c, port[c])'
      BY <1>2, <3>1 DEF Claims, PortsOf
    <3> QED
      BY <1>2, <2>5, <3>1, <3>2
  <2>7. app'[c] \in {"granted", "failed"}
    BY <1>2, <2>1
  <2>8. RequestsHold(c)' /\ AnswersHold(c)'
    BY <1>6, <2>1, <2>2, <2>4
  <2> QED
    BY <2>3, <2>6, <2>7, <2>8 DEF Kept, Renewing
<1>14. CASE ClosePortReceives(c)
  <2>1. PICK reply : Receive(c, reply)
    BY <1>14 DEF ClosePortReceives
  <2>2. replies'[c] = {} /\ Own(c)' = {}
    BY <1>2, <1>14, <2>1, ReceiverMatched DEF ClosePortReceives
  <2>3. ~Holding(c)' /\ task'[c] # "waiting" /\ UNCHANGED requests
    BY <1>2, <1>14 DEF ClosePortReceives, Holding, Locked, Calling
  <2>4. app'[c] \notin {"serving", "unbound", "wantsClose"}
    BY <1>14 DEF ClosePortReceives
  <2> QED
    BY <1>6, <2>2, <2>3, <2>4 DEF Kept, Renewing
<1>15. CASE KeepAliveReceives(c)
  <2>1. PICK reply \in replies[c] :
            /\ Receive(c, reply)
            /\ TaskGoes(c, "waiting", IF Throws(reply) THEN "ready" ELSE "delay")
            /\ remaining' = [remaining EXCEPT ![c] = IF Throws(reply) THEN @ ELSE KeepAliveDelay]
            /\ UNCHANGED <<app, port, cancelled, starts, requests>>
    BY <1>15 DEF KeepAliveReceives
  <2>2. replies'[c] = {} /\ Own(c)' = {} /\ reply.answers = "KEEP_ALIVE"
    BY <1>2, <2>1, ReceiverMatched, LockedPending
  <2>3. Left(c)' \in 0 .. KeepAliveDelay /\ Holding(c)' = Holding(c)
    BY <1>2, <2>1 DEF Left, Holding
  <2>4. ASSUME Holding(c)
        PROVE  Claims(c, port[c])' /\ ports'[port'[c]].idle + Left(c)' <= KeepAliveDelay
    <3>1. ports[port[c]].idle = 0 /\ Claims(c, port[c])
      BY <1>2, <2>2, <2>4 DEF Kept, AnswersHold, Renewing
    <3>2. Claims(c, port[c])'
      BY <1>2, <2>1, <3>1 DEF Claims, PortsOf
    <3> QED
      BY <1>2, <2>1, <2>3, <3>1, <3>2
  <2>5. RequestsHold(c)' /\ AnswersHold(c)'
    BY <1>6, <2>1, <2>2, <2>3
  <2>6. app' = app /\ cancelled' = cancelled /\ task'[c] \in {"ready", "delay"}
    BY <1>2, <2>1
  <2> QED
    BY <1>2, <2>3, <2>4, <2>5, <2>6 DEF Kept, Renewing
<1>16. ASSUME UNCHANGED <<requests, replies, starts, port>>, Holding(c)' => Holding(c),
              Left(c)' <= Left(c), Left(c)' \in Nat, Left(c) \in Nat,
              app'[c] \in {"serving", "unbound", "wantsClose"} =>
                 ~cancelled'[c] /\ task'[c] \in {"ready", "wantsLock", "waiting", "delay"},
              task'[c] = "waiting" => task[c] = "waiting"
       PROVE  Kept(c)'
  <2>1. RequestsHold(c)' /\ AnswersHold(c)' /\ Own(c)' = Own(c)
    BY <1>7, <1>16
  <2>2. ASSUME Holding(c)'
        PROVE  Claims(c, port[c])' /\ ports'[port'[c]].idle + Left(c)' <= KeepAliveDelay
    <3>1. Claims(c, port[c]) /\ ports[port[c]].idle + Left(c) <= KeepAliveDelay
      BY <1>2, <1>16, <2>2 DEF Kept, Renewing
    <3>2. Claims(c, port[c])' /\ ports[port[c]].idle \in Nat
      BY <1>2, <1>16, <3>1 DEF Claims, PortsOf
    <3> QED
      BY <1>2, <1>16, <3>1, <3>2
  <2> QED
    BY <1>2, <1>16, <2>1, <2>2 DEF Kept, Renewing
<1>17. Left(c) \in Nat
  BY <1>2 DEF Left
<1>18. CASE CallKeepPortAlive(c)
  <2>1. Left(c)' = 0 /\ Holding(c) /\ task'[c] = "ready" /\ ~cancelled'[c]
    BY <1>2, <1>18 DEF CallKeepPortAlive, Left, Holding
  <2> QED
    BY <1>16, <1>17, <1>18, <2>1 DEF CallKeepPortAlive
<1>19. CASE BindFails(c) \/ CallClosePort(c)
  <2>1. Left(c)' = Left(c) /\ Holding(c) /\ app[c] = "serving"
    BY <1>2, <1>19 DEF BindFails, CallClosePort, Left, Holding
  <2>2. UNCHANGED <<requests, replies, starts, port, task, cancelled>>
    BY <1>2, <1>19 DEF BindFails, CallClosePort
  <2>3. ~cancelled'[c] /\ task'[c] \in {"ready", "wantsLock", "waiting", "delay"}
    BY <1>2, <2>1, <2>2 DEF Kept, Renewing
  <2> QED
    BY <1>16, <1>17, <2>1, <2>2, <2>3
<1>20. CASE StopKeepAliveCancels(c)
  <2>1. Left(c)' = Left(c) /\ ~Holding(c)' /\ app'[c] = "joining"
    BY <1>2, <1>20 DEF StopKeepAliveCancels, Left, Holding
  <2> QED
    BY <1>16, <1>17, <1>20, <2>1 DEF StopKeepAliveCancels
<1>21. CASE StopKeepAliveReturns(c)
  <2>1. /\ replies'[c] = {} /\ ~Holding(c)' /\ app'[c] = "closed" /\ task'[c] = "none"
        /\ Own(c)' = Own(c) /\ UNCHANGED requests
    BY <1>2, <1>21 DEF StopKeepAliveReturns, Holding, Own
  <2>2. Pending(c) = {}
    BY <1>2, <1>21 DEF StopKeepAliveReturns, Pending
  <2>3. Own(c) = {}
    BY <1>2, <2>2 DEF Matched
  <2> QED
    BY <1>6, <2>1, <2>3 DEF Kept, Renewing
<1>22. CASE KeepAliveLoops(c)
  <2>1. Left(c)' = 0 /\ Left(c) = 0 /\ Holding(c)' = Holding(c)
    BY <1>2, <1>22 DEF KeepAliveLoops, Left, Holding
  <2>2. app[c] \in {"serving", "unbound", "wantsClose"} => ~cancelled[c]
    BY <1>2 DEF Kept, Renewing
  <2> QED
    BY <1>16, <1>22, <2>1, <2>2 DEF KeepAliveLoops
<1>23. CASE KeepAliveWakes(c)
  <2>1. Left(c)' = 0 /\ Left(c) = 0 /\ Holding(c)' = Holding(c)
    BY <1>2, <1>23 DEF KeepAliveWakes, Left, Holding
  <2>2. app[c] \in {"serving", "unbound", "wantsClose"} => ~cancelled[c]
    BY <1>2 DEF Kept, Renewing
  <2> QED
    BY <1>16, <1>23, <2>1, <2>2 DEF KeepAliveWakes
<1>24. CASE KeepAliveCancelled(c)
  <2>1. Left(c)' = 0 /\ Holding(c)' = Holding(c) /\ cancelled[c]
    BY <1>2, <1>24 DEF KeepAliveCancelled, Left, Holding
  <2>2. app[c] \notin {"serving", "unbound", "wantsClose"}
    BY <1>2, <2>1 DEF Kept, Renewing
  <2> QED
    BY <1>2, <1>16, <1>17, <1>24, <2>1, <2>2 DEF KeepAliveCancelled
<1>25. CASE Restart(c)
  <2>1. starts'[c] = starts[c] + 1 /\ starts[c] \in Int
    BY <1>2, <1>25 DEF Restart, Starts
  <2>2. \A d \in requests : d.from \in Clients /\ d.start <= starts[d.from]
    BY KeepingParts, DatagramFields
  <2>3. Own(c)' = {} /\ replies'[c] = {}
    BY <1>2, <1>25, <2>1, <2>2 DEF Restart, Own, Sender
  <2>4. ~Holding(c)' /\ app'[c] = "start" /\ task'[c] = "none" /\ UNCHANGED requests
    BY <1>2, <1>25 DEF Restart, Holding
  <2> QED
    BY <1>6, <2>3, <2>4 DEF Kept, Renewing
<1> QED
  BY <1>1, <1>8, <1>9, <1>10, <1>11, <1>12, <1>13, <1>14, <1>15, <1>18, <1>19, <1>20, <1>21,
     <1>22, <1>23, <1>24, <1>25 DEF AppStep, TaskStep, Choice

\* Nothing but the process's own CLOSE_PORT makes an entry older, or another's.
LEMMA ClaimKept ==
    ASSUME Calm, Keeping, NEW d \in requests, Serve(d), NEW c \in Clients,
           ~(d.msg.type = "CLOSE_PORT" /\ d.from = c), NEW p, Claims(c, p)
    PROVE  Claims(c, p)' /\ ports'[p].idle \in {ports[p].idle, 0}
<1>1. /\ ports \in Tables /\ d \in Datagrams /\ WellFormed(d.msg) /\ d.from \in Clients
      /\ ports' = HandleMessage(ports, d.msg).ports /\ \A q \in Ports : ports[q].idle \in Nat
  BY KeepingParts, DatagramFields DEF Serve
<1>2. /\ p \in PortsOf(ports, ServiceOf[c]) /\ p \in Ports
      /\ ports[p].idle <= KeepAliveDelay /\ KeepAliveDelay \in Nat
  BY ClientAssumption DEF Claims, PortsOf
<1>3. ~Expired(ports[p])
  BY <1>1, <1>2, TimeoutAssumption DEF Calm, Expired
<1>4. ~(d.msg.type = "CLOSE_PORT" /\ d.msg.port = p)
  <2> SUFFICES ASSUME d.msg.type = "CLOSE_PORT", d.msg.port = p PROVE FALSE
    OBVIOUS
  <2>1. Claims(d.from, p)
    BY <1>1, KeepingParts DEF Closing, SentBy, Kept, RequestsHold
  <2>2. ServiceOf[d.from] = ServiceOf[c]
    BY <1>2, <2>1 DEF Claims, PortsOf
  <2> QED
    BY <1>1, <2>2 DEF Calm
<1>5. ports'[p] = ports[p] \/ ports'[p] = Taken(ServiceOf[c])
  BY <1>1, <1>2, <1>3, <1>4, HolderUndisturbed
<1>6. /\ ~ports'[p].available /\ ports'[p].serviceName = ServiceOf[c]
      /\ ports'[p].idle \in {ports[p].idle, 0}
  BY <1>2, <1>5 DEF PortsOf, Taken
<1> QED
  BY <1>2, <1>6 DEF Claims, PortsOf

LEMMA ServeKept ==
    ASSUME Calm, Keeping, NEW d \in requests, Serve(d), duplicated' = 0, NEW c \in Clients
    PROVE  Kept(c)'
<1> DEFINE response == HandleMessage(ports, d.msg).response
           reply == Reply(d.msg.type, response)
<1>1. /\ TypeOK /\ ports \in Tables /\ WellFormed(d.msg)
      /\ Locked(c) /\ Matched(c) /\ Kept(c)
      /\ ports' = HandleMessage(ports, d.msg).ports
      /\ requests' = requests \ {d} /\ UNCHANGED clientvars
      /\ Left(c) \in Nat /\ KeepAliveDelay \in Nat /\ ServiceOf[c] \in Names
      /\ \A p \in Ports : ports[p].idle \in Nat
  <2>1. /\ TypeOK /\ ports \in Tables /\ Locked(c) /\ Matched(c) /\ Kept(c)
        /\ KeepAliveDelay \in Nat /\ ServiceOf[c] \in Names
        /\ Left(c) \in 0 .. KeepAliveDelay /\ requests \subseteq Datagrams
        /\ \A p \in Ports : ports[p].idle \in Nat
    BY KeepingParts, ClientAssumption
  <2>2. WellFormed(d.msg)
    BY <2>1, DatagramFields
  <2>3. ports' = HandleMessage(ports, d.msg).ports
    BY DEF Serve
  <2>4. requests' = requests \ {d} /\ UNCHANGED clientvars
    BY <2>1, ServeParts
  <2> QED
    BY <2>1, <2>2, <2>3, <2>4
<1>2. /\ Own(c)' = Own(c) \ {d} /\ SentBy(c)' = SentBy(c) \ {d}
      /\ Closing(c)' = Closing(c) \ {d}
      /\ Holding(c)' = Holding(c) /\ Left(c)' = Left(c)
      /\ UNCHANGED <<app, port, task, cancelled, starts>>
  BY <1>1 DEF Own, SentBy, Closing, Holding, Left, clientvars
<1>3. \/ replies'[c] = replies[c] /\ (d \in Own(c) => app[c] = "closed")
      \/ /\ d \in Own(c) /\ Own(c) = {d} /\ replies[c] = {} /\ replies'[c] = {reply}
  BY <1>1, ServeAnswers
<1>4. reply.answers = d.msg.type /\ reply.response = response
  BY DEF Reply
<1>5. d \in Own(c) => d \in SentBy(c)
  BY DEF Own, SentBy, Sender
<1>6. task'[c] = "waiting" => Own(c)' # {} \/ replies'[c] # {}
  <2> SUFFICES ASSUME task[c] = "waiting" PROVE Own(c)' # {} \/ replies'[c] # {}
    BY <1>2
  <2>1. app[c] # "closed" /\ (Own(c) # {} \/ replies[c] # {})
    BY <1>1 DEF Locked, Taskless, Kept, Renewing
  <2> QED
    BY <1>2, <1>3, <2>1
<1>7. /\ \A e \in Own(c)' : e.msg.type = "KEEP_ALIVE" => e.msg.port = port'[c]
      /\ \A e \in SentBy(c)' :
            e.msg.type \in {"REQUEST_PORT", "KEEP_ALIVE", "CLOSE_PORT"}
                => e.msg.serviceName = ServiceOf[c]
  BY <1>1, <1>2 DEF Kept, RequestsHold
<1> HIDE DEF reply, response
<1>8. CASE d.msg.type = "CLOSE_PORT" /\ d.from = c
  <2>1. d \in Closing(c)
    BY <1>8 DEF Closing, SentBy
  <2>2. ~Holding(c) /\ Granted(c) = {} /\ Closing(c)' = {}
    BY <1>1, <1>2, <2>1 DEF Kept, RequestsHold
  <2>3. Granted(c)' = {}
    BY <1>3, <1>4, <1>8, <2>2 DEF Granted
  <2> QED
    BY <1>2, <1>6, <1>7, <2>2, <2>3 DEF Kept, Renewing, AnswersHold, RequestsHold, Holding
<1>9. CASE ~(d.msg.type = "CLOSE_PORT" /\ d.from = c)
  <2>1. \A p : Claims(c, p) => Claims(c, p)' /\ ports'[p].idle \in {ports[p].idle, 0}
    BY <1>9, ClaimKept
  <2>2. \A p : Claims(c, p) => p \in Ports /\ ~Expired(ports[p])
    BY <1>1, TimeoutAssumption DEF Claims, PortsOf, Calm, Expired
  \* A grant on its way now, and not before.
  <2>3. ASSUME replies'[c] = {reply}, d \in Own(c), d.msg.type = "REQUEST_PORT",
               response.status = "SUCCESS", NEW q, q = response.port
        PROVE  /\ Claims(c, q)' /\ ports'[q].idle = 0
               /\ \A p : ~Claims(c, p)
    <3>1. d.msg.serviceName = ServiceOf[c]
      BY <1>1, <1>5, <2>3 DEF Kept, RequestsHold
    <3>2. /\ q \in Ports /\ ports'[q] = Taken(ServiceOf[c])
          /\ \A p \in PortsOf(ports, ServiceOf[c]) : Expired(ports[p])
      BY <1>1, <2>3, <3>1, GrantIsFirst DEF response
    <3>3. /\ ~ports'[q].available /\ ports'[q].serviceName = ServiceOf[c]
          /\ ports'[q].idle = 0
      BY <3>2 DEF Taken
    <3>4. \A p : ~Claims(c, p)
      BY <2>2, <3>2 DEF Claims
    <3> QED
      BY <1>1, <3>2, <3>3, <3>4 DEF Claims, PortsOf
  <2>4. Renewing(c)'
    <3>1. Holding(c) => /\ Claims(c, port[c])'
                        /\ ports'[port[c]].idle + Left(c) <= KeepAliveDelay
      <4> SUFFICES ASSUME Holding(c)
                   PROVE  /\ Claims(c, port[c])'
                          /\ ports'[port[c]].idle + Left(c) <= KeepAliveDelay
        OBVIOUS
      <4>1. Claims(c, port[c]) /\ ports[port[c]].idle + Left(c) <= KeepAliveDelay
        BY <1>1 DEF Kept, Renewing
      <4>2. PICK p : p = port[c]
        OBVIOUS
      <4>3. Claims(c, p)' /\ ports'[p].idle \in {ports[p].idle, 0} /\ ports[p].idle \in Nat
        BY <1>1, <2>1, <2>2, <4>1, <4>2
      <4>4. Claims(c, port[c])'
        BY <1>2, <4>2, <4>3 DEF Claims
      <4> QED
        BY <1>1, <4>1, <4>2, <4>3, <4>4
    <3> QED
      BY <1>1, <1>2, <1>6, <3>1 DEF Kept, Renewing
  <2>5. AnswersHold(c)'
    <3>1. ASSUME NEW r \in Granted(c)'
          PROVE  Claims(c, r.response.port)' /\ ports'[r.response.port].idle = 0
      <4>1. r \in replies'[c] /\ r.answers = "REQUEST_PORT" /\ r.response.status = "SUCCESS"
        BY <3>1 DEF Granted, Succeeds
      <4>2. PICK p : p = r.response.port
        OBVIOUS
      <4>3. CASE r \in replies[c]
        <5>1. Claims(c, p) /\ ports[p].idle = 0
          BY <1>1, <4>1, <4>2, <4>3 DEF Kept, AnswersHold, Granted, Succeeds
        <5> QED
          BY <2>1, <4>2, <5>1
      <4>4. CASE r \notin replies[c]
        <5>1. d \in Own(c) /\ replies'[c] = {reply} /\ r = reply
          BY <1>3, <4>1, <4>4
        <5>2. d.msg.type = "REQUEST_PORT" /\ response.status = "SUCCESS" /\ p = response.port
          BY <1>4, <4>1, <4>2, <5>1
        <5>3. Claims(c, p)' /\ ports'[p].idle = 0
          BY <2>3, <5>1, <5>2
        <5> QED
          BY <4>2, <5>3
      <4> QED
        BY <4>3, <4>4
    <3>2. ASSUME NEW r \in replies'[c], r.answers = "KEEP_ALIVE", Holding(c)
          PROVE  ports'[port[c]].idle = 0
      <4>1. Claims(c, port[c])
        BY <1>1, <3>2 DEF Kept, Renewing
      <4>2. PICK p : p = port[c]
        OBVIOUS
      <4>3. CASE r \in replies[c]
        <5>1. ports[p].idle = 0
          BY <1>1, <3>2, <4>2, <4>3 DEF Kept, AnswersHold
        <5> QED
          BY <2>1, <4>1, <4>2, <5>1
      <4>4. CASE r \notin replies[c]
        <5>1. d \in Own(c) /\ d.msg.type = "KEEP_ALIVE"
          BY <1>3, <1>4, <3>2, <4>4
        <5>2. d.msg.port = p /\ d.msg.serviceName = ServiceOf[c]
          BY <1>1, <1>5, <4>2, <5>1 DEF Kept, RequestsHold
        <5>3. ports'[p] = Taken(ServiceOf[c])
          BY <1>1, <2>2, <4>1, <4>2, <5>1, <5>2, RenewalTakes DEF Claims
        <5> QED
          BY <4>2, <5>3 DEF Taken
      <4> QED
        BY <4>3, <4>4
    <3> QED
      BY <1>2, <3>1, <3>2 DEF AnswersHold
  <2>6. RequestsHold(c)'
    <3> SUFFICES ASSUME NEW e \in Closing(c)'
                 PROVE  /\ Claims(c, e.msg.port)'
                        /\ ~Holding(c) /\ Granted(c)' = {} /\ Closing(c)' = {e}
      BY <1>2, <1>7 DEF RequestsHold
    <3>1. Claims(c, e.msg.port) /\ ~Holding(c) /\ Granted(c) = {} /\ Closing(c) = {e}
      BY <1>1, <1>2 DEF Kept, RequestsHold
    <3>2. Granted(c)' = {}
      BY <1>3, <1>4, <2>3, <3>1 DEF Granted, Succeeds
    <3> QED
      BY <1>2, <2>1, <3>1, <3>2
  <2> QED
    BY <2>4, <2>5, <2>6 DEF Kept
<1> QED
  BY <1>8, <1>9

\* A second passes only when every task that has a port to renew sleeps.
LEMMA TickKept ==
    ASSUME Calm, Keeping, Tick, NEW c \in Clients
    PROVE  Kept(c)'
<1>1. /\ TypeOK /\ Locked(c) /\ Kept(c) /\ KeepAliveDelay \in Nat
      /\ \A p \in Ports : ports[p].idle \in Nat /\ ports[p] \in Reservation
  BY KeepingParts, ClientAssumption
<1>2. /\ requests = {} /\ replies[c] = {} /\ app[c] # "granted" /\ task[c] # "ready"
      /\ task[c] = "wantsLock" => socketLock[c] # "free"
      /\ task[c] = "delay" => remaining[c] > 0
  BY DEF Tick, Quiet, Calm
<1>3. UNCHANGED <<app, port, task, cancelled, starts, requests, replies>>
  BY DEF Tick, network
<1>4. /\ Own(c) = {} /\ Own(c)' = {} /\ SentBy(c)' = {} /\ Closing(c)' = {}
      /\ Granted(c)' = {} /\ replies'[c] = {} /\ Holding(c)' = Holding(c)
  BY <1>2, <1>3 DEF Own, SentBy, Closing, Granted, Holding
<1>5. RequestsHold(c)' /\ AnswersHold(c)'
  BY <1>4 DEF RequestsHold, AnswersHold
<1>6. task[c] # "waiting"
  BY <1>1, <1>2, <1>4 DEF Kept, Renewing
<1>7. ASSUME Holding(c)
      PROVE  /\ Claims(c, port[c])' /\ ports'[port[c]].idle + Left(c)' <= KeepAliveDelay
  <2>1. task[c] \in {"wantsLock", "delay"}
    BY <1>1, <1>2, <1>6, <1>7 DEF Holding, Kept, Renewing
  <2>2. socketLock[c] = "free"
    BY <1>1, <1>6, <1>7 DEF TypeOK, ClientTypeOK, Locked, Holding, Calling
  <2>3. task[c] = "delay" /\ remaining[c] > 0 /\ remaining[c] \in Nat
    BY <1>1, <1>2, <2>1, <2>2 DEF TypeOK, ClientTypeOK
  <2>4. Left(c) = remaining[c] /\ Left(c)' = remaining[c] - 1
    BY <1>3, <2>3 DEF Left, Tick
  <2>5. PICK p : p = port[c]
    OBVIOUS
  <2>6. Claims(c, p) /\ ports[p].idle + Left(c) <= KeepAliveDelay
    BY <1>1, <1>7, <2>5 DEF Kept, Renewing
  <2>7. p \in Ports /\ ~ports[p].available /\ ports[p].serviceName = ServiceOf[c]
    BY <2>6 DEF Claims, PortsOf
  <2>8. ports[p].idle # IdleCap
    BY <1>1, <2>6, <2>7, TimeoutAssumption DEF Claims, Calm, IdleCap
  <2>9. ports'[p] = [ports[p] EXCEPT !.idle = @ + 1]
    BY <2>7, <2>8 DEF Tick
  <2>10. /\ ports'[p].idle = ports[p].idle + 1 /\ ~ports'[p].available
         /\ ports'[p].serviceName = ServiceOf[c]
    BY <1>1, <2>7, <2>9 DEF Reservation
  <2>11. ports'[p].idle + Left(c)' <= KeepAliveDelay /\ ports'[p].idle <= KeepAliveDelay
    BY <1>1, <2>3, <2>4, <2>6, <2>7, <2>10
  <2>12. Claims(c, p)'
    BY <2>7, <2>10, <2>11 DEF Claims, PortsOf
  <2> QED
    BY <1>3, <2>5, <2>11, <2>12 DEF Claims
<1> QED
  BY <1>1, <1>3, <1>4, <1>5, <1>6, <1>7 DEF Kept, Renewing

LEMMA KeepingNext ==
    ASSUME Calm, Keeping, [Next]_vars
    PROVE  Keeping'
<1>1. Discipline'
  BY DisciplineNext DEF Keeping
<1>2. /\ up /\ ~bounced /\ lost = 0 /\ crashes = 0 /\ duplicated' = 0
      /\ MaxLost = 0 /\ MaxCrashes = 0
      /\ TypeOK /\ \A c \in Clients : Kept(c)
  <2>1. duplicated' \in 0 .. 0
    BY <1>1 DEF Calm, Discipline, Typed, TypeOK
  <2>2. /\ up /\ bounced = FALSE /\ lost = 0 /\ crashes = 0 /\ TypeOK
        /\ \A c \in Clients : Kept(c)
    BY KeepingParts
  <2> QED
    BY <2>1, <2>2 DEF Calm
<1>3. CASE \E c \in Clients : Client(c)
  <2>1. PICK c \in Clients : Client(c)
    BY <1>3
  <2>2. UNCHANGED <<ports, up>>
    BY <2>1 DEF Client, server
  <2>3. \A x \in Clients : Kept(x)'
    BY <1>2, <2>1, <2>2, ActorKept, OthersUnmoved, OthersKept
  <2> QED
    BY <1>1, <1>2, <2>2, <2>3 DEF Keeping
<1>4. ASSUME NEW d \in requests, Serve(d) PROVE Keeping'
  <2>1. up' = up
    BY <1>4 DEF Serve
  <2> QED
    BY <1>1, <1>2, <1>4, <2>1, ServeKept DEF Keeping
<1>5. CASE Tick
  <2>1. up' = up
    BY <1>5 DEF Tick
  <2> QED
    BY <1>1, <1>2, <1>5, <2>1, TickKept DEF Keeping
<1>6. CASE UNCHANGED vars
  <2>1. UNCHANGED <<ports, up>> /\ \A c \in Clients : Unmoved(c)
    BY <1>6 DEF vars, clientvars, network, server, Unmoved, SentBy
  <2> QED
    BY <1>1, <1>2, <2>1, OthersKept DEF Keeping
<1>7. /\ ~(\E d \in requests : Unreachable(d)) /\ ~ReceiveThrows /\ ~Lose
      /\ ~Crash /\ ~StartServer
  <2>1. ~(\E d \in requests : Unreachable(d)) /\ ~StartServer
    BY <1>2 DEF Unreachable, StartServer
  <2>2. ~ReceiveThrows
    BY <1>2 DEF ReceiveThrows
  <2>3. ~Lose /\ ~Crash
    BY <1>2 DEF Lose, Crash
  <2> QED
    BY <2>1, <2>2, <2>3
<1> QED
  BY <1>3, <1>4, <1>5, <1>6, <1>7 DEF Next, ServerStep

LEMMA KeepingInvariant ==
    ASSUME Calm
    PROVE  Spec => []Keeping
<1>1. Init => Keeping
  <2> SUFFICES ASSUME Init, NEW c \in Clients PROVE Kept(c)
    BY DisciplineInit DEF Keeping, Init
  <2> QED
    BY DEF Init, ClientInit, Kept, Renewing, AnswersHold, RequestsHold, Holding, Granted,
           Closing, SentBy, Own
<1>2. Keeping /\ [Next]_vars => Keeping'
  BY KeepingNext
<1> QED
  BY <1>1, <1>2, PTL DEF Spec

(***************************************************************************)
(* A process that was granted a port and has not asked to close it holds   *)
(* it, for every delay of the task that is no longer than the timeout of   *)
(* the server, with any number of processes and ports: the queue for the   *)
(* lock and the other processes' closes never cost a renewal.              *)
(***************************************************************************)
THEOREM HoldsItsPortHolds ==
    ASSUME Calm
    PROVE  Spec => []HoldsItsPort
<1>1. Keeping => HoldsItsPort
  <2> SUFFICES ASSUME Keeping, NEW c \in Clients, Holding(c)
               PROVE  /\ port[c] \in PortsOf(ports, ServiceOf[c])
                      /\ ~Expired(ports[port[c]])
    BY DEF HoldsItsPort
  <2>1. Claims(c, port[c]) /\ \A p \in Ports : ports[p].idle \in Nat
    BY KeepingParts DEF Kept, Renewing
  <2> QED
    BY <2>1, ClientAssumption, TimeoutAssumption DEF Claims, PortsOf, Calm, Expired
<1> QED
  BY <1>1, KeepingInvariant, PTL

(***************************************************************************)
(* ClosePort compares no names, and yet a CLOSE_PORT frees no port that    *)
(* another service renews in time: the entry it names is still the         *)
(* sender's, for who asks to close held the port and asks only once.       *)
(***************************************************************************)
THEOREM CloseSparesOthersHolds ==
    ASSUME Calm
    PROVE  Spec => CloseSparesOthers
<1>1. Keeping => CloseStep
  <2> SUFFICES ASSUME Keeping, NEW d \in requests, NEW p \in Ports, Serve(d),
                      d.msg.type = "CLOSE_PORT", ~ports[p].available, ~Expired(ports[p]),
                      ports[p].serviceName # d.msg.serviceName
               PROVE  ~ports'[p].available
    BY DEF CloseStep
  <2>1. /\ ports \in Tables /\ WellFormed(d.msg) /\ d.from \in Clients
        /\ ports' = HandleMessage(ports, d.msg).ports
    BY KeepingParts, DatagramFields DEF Serve
  <2>2. Claims(d.from, d.msg.port) /\ d.msg.serviceName = ServiceOf[d.from]
    BY <2>1, KeepingParts DEF Closing, SentBy, Kept, RequestsHold
  <2>3. d.msg.port # p
    BY <2>2 DEF Claims, PortsOf
  <2>4. p \in PortsOf(ports, ports[p].serviceName)
    BY DEF PortsOf
  <2>5. ports'[p] = ports[p] \/ ports'[p] = Taken(ports[p].serviceName)
    BY <2>1, <2>3, <2>4, HolderUndisturbed
  <2> QED
    BY <2>5 DEF Taken
<1>2. Keeping /\ [Next]_vars => [CloseStep]_vars
  BY <1>1
<1> QED
  BY <1>2, KeepingInvariant, PTL DEF Spec, CloseSparesOthers

===============================================================================
