------------------------------ MODULE PRSSystem ------------------------------
(***************************************************************************)
(* Service processes, the network between them and the Port Reservation    *)
(* Server, and time.  The server handles one datagram at a time with       *)
(* PortTable!HandleMessage.  It may crash and be started again, which      *)
(* loses its table; datagrams may be lost or delivered twice; and an       *)
(* answer to a socket that is gone may come back as an error of the        *)
(* server's next receive.  In a Prompt system threads and datagrams are    *)
(* fast against a second: time passes only when nothing is left to do.     *)
(***************************************************************************)
EXTENDS PRSClient

CONSTANTS
    Prompt,         \* BOOLEAN: is everything fast against a second
    MaxLost,        \* bound: datagrams lost
    MaxDuplicated,  \* bound: datagrams delivered twice
    MaxCrashes,     \* bound: crashes of the server
    MaxResets       \* bound: receives of the server that throw

ASSUME SystemAssumption ==
    /\ Prompt \in BOOLEAN
    /\ MaxLost \in Nat /\ MaxDuplicated \in Nat
    /\ MaxCrashes \in Nat /\ MaxResets \in Nat

VARIABLES
    ports,       \* the server's table
    up,          \* is the server running
    lastSender,  \* serverEndPoint: where the last datagram came from
    bounced,     \* has an answer come back that no receive reported yet
    lost,        \* datagrams lost so far
    duplicated,  \* datagrams delivered twice so far
    crashes,     \* crashes of the server so far
    resets,      \* receives of the server that threw so far
    closedBy     \* processes whose CLOSE_PORT the server handled

counters == <<lost, duplicated, crashes, resets>>
server == <<ports, up, lastSender, bounced, closedBy>>
vars == <<clientvars, network, server, counters>>

IdleCap == KeepAliveTimeout + 1

IdleTimes == 0 .. IdleCap

NoSender == <<>>

Sockets == Clients \X Starts

TypeOK ==
    /\ ClientTypeOK
    /\ ports \in [Ports -> [available : BOOLEAN, serviceName : ServiceNames,
                            idle : IdleTimes]]
    /\ up \in BOOLEAN
    /\ lastSender \in Sockets \cup {NoSender}
    /\ bounced \in BOOLEAN
    /\ lost \in 0 .. MaxLost
    /\ duplicated \in 0 .. MaxDuplicated
    /\ crashes \in 0 .. MaxCrashes
    /\ resets \in 0 .. MaxResets
    /\ closedBy \subseteq Sockets

EmptyTable == [p \in Ports |-> Fresh]

Init ==
    /\ ClientInit
    /\ ports = EmptyTable
    /\ up = TRUE
    /\ lastSender = NoSender
    /\ bounced = FALSE
    /\ lost = 0 /\ duplicated = 0 /\ crashes = 0 /\ resets = 0
    /\ closedBy = {}

\* The socket that a datagram came from.
Sender(d) == <<d.from, d.start>>

Gone(socket) ==
    LET c == socket[1] IN starts[c] # socket[2] \/ app[c] = "closed"

\* What arrives at an endpoint whose socket is gone is dropped.
Deliver(socket, reply) ==
    replies' = IF Gone(socket)
               THEN replies
               ELSE [replies EXCEPT ![socket[1]] = @ \cup {reply}]

\* d leaves the network, or stays to be delivered once more.
Consume(d) ==
    \/ requests' = requests \ {d} /\ UNCHANGED duplicated
    \/ /\ duplicated < MaxDuplicated
       /\ duplicated' = duplicated + 1
       /\ UNCHANGED requests

\* The server answers socket.  Nothing of this is kept once the bound on
\* errors is reached.
Remember(socket, soFar) ==
    /\ lastSender' = IF soFar < MaxResets THEN socket ELSE NoSender
    /\ bounced' = (soFar < MaxResets /\ (bounced \/ Gone(socket)))

Serve(d) ==
    LET outcome == HandleMessage(ports, d.msg)
    IN  /\ up
        /\ d \in requests
        /\ Consume(d)
        /\ ports' = outcome.ports
        /\ Deliver(Sender(d), Reply(d.msg.type, outcome.response))
        /\ Remember(Sender(d), resets)
        /\ closedBy' = IF d.msg.type = "CLOSE_PORT"
                       THEN closedBy \cup {Sender(d)}
                       ELSE closedBy
        /\ UNCHANGED <<clientvars, up, lost, crashes, resets>>

\* The catch of the receive loop: the receive threw and the endpoint is still
\* that of the last datagram, whoever the error was about.
ReceiveThrows ==
    /\ up
    /\ bounced
    /\ resets' = resets + 1
    /\ Deliver(lastSender, Reply(Unasked, Response(NoName, 0, "UNDEFINED_ERROR")))
    /\ Remember(lastSender, resets')
    /\ UNCHANGED <<clientvars, requests, ports, up, closedBy, lost, duplicated, crashes>>

\* No server socket: the datagram vanishes, or the sender's socket learns
\* that the port is unreachable and its receive throws.
Unreachable(d) ==
    /\ ~up
    /\ d \in requests
    /\ requests' = requests \ {d}
    /\ Deliver(Sender(d), Reply(d.msg.type, Reset)) \/ UNCHANGED replies
    /\ UNCHANGED <<clientvars, server, counters>>

Lose ==
    /\ lost < MaxLost
    /\ lost' = lost + 1
    /\ \/ \E d \in requests : requests' = requests \ {d} /\ UNCHANGED replies
       \/ \E c \in Clients : \E reply \in replies[c] :
             replies' = [replies EXCEPT ![c] = @ \ {reply}] /\ UNCHANGED requests
    /\ UNCHANGED <<clientvars, server, duplicated, crashes, resets>>

Crash ==
    /\ up
    /\ crashes < MaxCrashes
    /\ crashes' = crashes + 1
    /\ up' = FALSE
    /\ ports' = EmptyTable
    /\ lastSender' = NoSender
    /\ bounced' = FALSE
    /\ UNCHANGED <<clientvars, network, closedBy, lost, duplicated, resets>>

StartServer ==
    /\ ~up
    /\ up' = TRUE
    /\ UNCHANGED <<clientvars, network, ports, lastSender, bounced, closedBy, counters>>

\* A datagram of process c comes up in the queue of the server's socket.
ServerStep(c) == \E d \in requests : d.from = c /\ (Serve(d) \/ Unreachable(d))

Client(c) ==
    /\ AppStep(c) \/ TaskStep(c) \/ Choice(c)
    /\ UNCHANGED <<server, counters>>

\* Nothing is left to do but to wait for time to pass, for a datagram that
\* was lost, or for a thread that waits for one.
Quiet ==
    /\ requests = {}
    /\ \A c \in Clients :
          /\ replies[c] = {}
          /\ app[c] \notin {"granted", "released"}
          /\ app[c] = "wantsClose" => socketLock[c] # "free"
          /\ app[c] = "joining" => task[c] # "done"
          /\ task[c] # "ready"
          /\ task[c] = "wantsLock" => socketLock[c] # "free"
          /\ task[c] = "delay" => remaining[c] > 0 /\ ~cancelled[c]

Tick ==
    /\ Prompt => Quiet
    /\ ports' = [p \in Ports |->
                    IF ports[p].available \/ ports[p].idle = IdleCap
                    THEN ports[p]
                    ELSE [ports[p] EXCEPT !.idle = @ + 1]]
    /\ remaining' = [c \in Clients |->
                        IF remaining[c] = 0 THEN 0 ELSE remaining[c] - 1]
    /\ UNCHANGED <<app, port, task, cancelled, socketLock, starts, network,
                   up, lastSender, bounced, closedBy, counters>>

Next ==
    \/ \E c \in Clients : Client(c) \/ ServerStep(c)
    \/ ReceiveThrows
    \/ Lose
    \/ Crash
    \/ StartServer
    \/ Tick

Spec == Init /\ [][Next]_vars

Fairness ==
    /\ WF_vars(StartServer)
    /\ \A c \in Clients :
          /\ WF_vars(ServerStep(c))
          /\ WF_vars(AppStep(c) /\ UNCHANGED <<server, counters>>)
          /\ WF_vars(TaskStep(c) /\ UNCHANGED <<server, counters>>)

FairSpec == Spec /\ Fairness
-------------------------------------------------------------------------------
Holding(c) == app[c] \in {"granted", "serving", "unbound", "wantsClose"}

(***************************************************************************)
(* A process that was granted a port and has not asked to close it holds   *)
(* it: the server's entry carries its service's name and is not overdue.   *)
(* That takes the delay of the task, the timeout of the server and the     *)
(* queue for the lock together.  One that could not bind keeps its port    *)
(* all the same: its task runs on.                                         *)
(***************************************************************************)
HoldsItsPort ==
    \A c \in Clients :
        Holding(c) => /\ port[c] \in PortsOf(ports, ServiceOf[c])
                      /\ ~Expired(ports[port[c]])

(***************************************************************************)
(* Whatever reaches a socket answers the one request its process waits     *)
(* for: responses carry nothing to tell them apart, so that a thread never *)
(* takes another's answer rests on socketLock being held from the send to  *)
(* the receive, through losses and crashes.  A datagram that is delivered  *)
(* twice, and the error that the server sends to whoever asked last, are   *)
(* out of the lock's reach.                                                *)
(***************************************************************************)
RepliesMatch ==
    duplicated = 0 /\ resets = 0 =>
        \A c \in Clients : \A reply \in replies[c] : Pending(c) = {reply.answers}

(***************************************************************************)
(* ClosePort is past the receive, or has returned, only if the server has  *)
(* handled a CLOSE_PORT of this very process.                              *)
(***************************************************************************)
CloseAnswered ==
    \A c \in Clients :
        app[c] \in {"released", "joining", "closed"} => <<c, starts[c]>> \in closedBy

(***************************************************************************)
(* Once ClosePort has its answer the server has no port for the service    *)
(* any more, and none is entered again: not by the KEEP_ALIVE that the     *)
(* task may send between that answer and its cancellation, nor by anything *)
(* that was late.  A first process, as the REQUEST_PORT of one that died   *)
(* may still be on its way when its successor has closed the port.         *)
(***************************************************************************)
ClosedIsFree ==
    duplicated = 0 /\ resets = 0 =>
        \A c \in Clients :
            app[c] \in {"released", "joining", "closed"} /\ starts[c] = 1
                => PortsOf(ports, ServiceOf[c]) = {}

(***************************************************************************)
(* A CLOSE_PORT frees no port that another service holds and renews in     *)
(* time ("client has requested that we close their port").                 *)
(***************************************************************************)
CloseStep ==
    \A d \in requests : \A p \in Ports :
        Serve(d) /\ d.msg.type = "CLOSE_PORT"
            /\ ~ports[p].available /\ ~Expired(ports[p])
            /\ ports[p].serviceName # d.msg.serviceName
                => ~ports'[p].available

CloseSparesOthers == [][CloseStep]_vars

(***************************************************************************)
(* A call of ClosePort returns: the socket lock, the task that queues for  *)
(* it, the wait for the task and the server's answer never leave it        *)
(* hanging.  (A process may still be killed and started again.)            *)
(***************************************************************************)
CloseCompletes ==
    \A c \in Clients : app[c] = "wantsClose" ~> app[c] \in {"closed", "start"}

===============================================================================
