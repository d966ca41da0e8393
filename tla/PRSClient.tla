------------------------------ MODULE PRSClient ------------------------------
(***************************************************************************)
(* Class PRSClient, one object per service process: the thread that calls  *)
(* its methods, the keep-alive task that KeepPortAlive starts, the lock    *)
(* that both take around a send and the receive of its answer, and the UDP *)
(* socket.  The process makes the calls in the order of the service's      *)
(* Program.cs: RequestPort, KeepPortAlive, ClosePort; LookUpPort is called *)
(* at any time before.  Datagrams in flight are sets: UDP keeps no order.  *)
(* Nothing in this module answers a request; PRSSystem adds the server.    *)
(***************************************************************************)
EXTENDS PortTable

CONSTANTS
    Clients,         \* the service processes
    ServiceOf,       \* the service name of each
    Unbindable,      \* those whose port another program may have
    KeepAliveDelay,  \* seconds the task waits between two keep-alives
    MaxStarts        \* bound: how often each process is started

ASSUME ClientAssumption ==
    /\ ServiceOf \in [Clients -> Names]
    /\ Unbindable \subseteq Clients
    /\ KeepAliveDelay \in Nat \ {0}
    /\ MaxStarts \in Nat \ {0}

VARIABLES
    app,        \* where the calling thread is
    port,       \* the port RequestPort returned, 0 before
    task,       \* where the keep-alive task is
    remaining,  \* seconds left of the task's delay
    cancelled,  \* the task's cancellation token
    socketLock, \* who holds socketLock: "app", "task" or nobody, "free"
    starts,     \* how often the process was started; names its socket
    requests,   \* datagrams on their way to the server
    replies     \* datagrams and errors that reached the process's socket

clientvars == <<app, port, task, remaining, cancelled, socketLock, starts>>
network == <<requests, replies>>

AppStates == {"start", "lookingUp", "requesting", "granted", "serving",
              "unbound", "wantsClose", "closing", "released", "joining",
              "closed", "failed", "closeFailed"}

TaskStates == {"none", "ready", "wantsLock", "waiting", "delay", "done"}

Request(type, name, p) == [type |-> type, serviceName |-> name, port |-> p]

Starts == 1 .. MaxStarts

\* Port numbers a client knows of, 0 when it has none.
PortNumbers == Ports \cup {0}

Datagrams ==
    [from : Clients, start : Starts,
     msg : [type : RequestTypes, serviceName : ServiceNames, port : PortNumbers]]

\* An error of the socket: the receive throws instead of returning.
Reset == [serviceName |-> NoName, port |-> 0, status |-> "reset"]

\* What reaches a socket.  The type of the request it answers is not in the
\* datagram; it is kept for the properties.
Reply(type, response) == [answers |-> type, response |-> response]

\* An answer to no request.
Unasked == "nothing"

Replies == [answers : RequestTypes \cup {Unasked}, response : Responses \cup {Reset}]

ClientTypeOK ==
    /\ app \in [Clients -> AppStates]
    /\ port \in [Clients -> PortNumbers]
    /\ task \in [Clients -> TaskStates]
    /\ remaining \in [Clients -> 0 .. KeepAliveDelay]
    /\ cancelled \in [Clients -> BOOLEAN]
    /\ socketLock \in [Clients -> {"free", "app", "task"}]
    /\ starts \in [Clients -> Starts]
    /\ requests \subseteq Datagrams
    /\ replies \in [Clients -> SUBSET Replies]

ClientInit ==
    /\ app = [c \in Clients |-> "start"]
    /\ port = [c \in Clients |-> 0]
    /\ task = [c \in Clients |-> "none"]
    /\ remaining = [c \in Clients |-> 0]
    /\ cancelled = [c \in Clients |-> FALSE]
    /\ socketLock = [c \in Clients |-> "free"]
    /\ starts = [c \in Clients |-> 1]
    /\ requests = {}
    /\ replies = [c \in Clients |-> {}]

Send(c, msg) ==
    requests' = requests \cup {[from |-> c, start |-> starts[c], msg |-> msg]}

AppGoes(c, from, to) ==
    /\ app[c] = from
    /\ app' = [app EXCEPT ![c] = to]

TaskGoes(c, from, to) ==
    /\ task[c] = from
    /\ task' = [task EXCEPT ![c] = to]

Acquire(c, who) ==
    /\ socketLock[c] = "free"
    /\ socketLock' = [socketLock EXCEPT ![c] = who]

Release(c) == socketLock' = [socketLock EXCEPT ![c] = "free"]

\* A blocking receive takes whatever reached the socket, without comparing
\* it with the request that was sent.
Receive(c, reply) ==
    /\ reply \in replies[c]
    /\ replies' = [replies EXCEPT ![c] = @ \ {reply}]

Succeeds(reply) == reply.response.status = "SUCCESS"

Throws(reply) == reply.response = Reset
-------------------------------------------------------------------------------
(***************************************************************************)
(* The calling thread.  Each method takes the lock and sends in one step,  *)
(* then blocks in the receive with the lock held.                          *)
(***************************************************************************)
LookUpPort(c, name) ==
    /\ AppGoes(c, "start", "lookingUp")
    /\ Acquire(c, "app")
    /\ Send(c, Request("LOOKUP_PORT", name, 0))
    /\ UNCHANGED <<port, task, remaining, cancelled, starts, replies>>

LookUpPortReturns(c) ==
    \E reply \in replies[c] :
        /\ Receive(c, reply)
        /\ AppGoes(c, "lookingUp", IF Succeeds(reply) THEN "start" ELSE "failed")
        /\ Release(c)
        /\ UNCHANGED <<port, task, remaining, cancelled, starts, requests>>

CallRequestPort(c) ==
    /\ AppGoes(c, "start", "requesting")
    /\ Acquire(c, "app")
    /\ Send(c, Request("REQUEST_PORT", ServiceOf[c], 0))
    /\ UNCHANGED <<port, task, remaining, cancelled, starts, replies>>

RequestPortReturns(c) ==
    \E reply \in replies[c] :
        /\ Receive(c, reply)
        /\ AppGoes(c, "requesting", IF Succeeds(reply) THEN "granted" ELSE "failed")
        /\ port' = [port EXCEPT ![c] = IF Succeeds(reply) THEN reply.response.port ELSE @]
        /\ Release(c)
        /\ UNCHANGED <<task, remaining, cancelled, starts, requests>>

CallKeepPortAlive(c) ==
    /\ AppGoes(c, "granted", "serving")
    /\ task' = [task EXCEPT ![c] = "ready"]
    /\ cancelled' = [cancelled EXCEPT ![c] = FALSE]
    /\ UNCHANGED <<port, remaining, socketLock, starts, network>>

\* The listening socket cannot be bound, as when another program has the
\* port: the program waits for a key, and its task renews the port.
BindFails(c) ==
    /\ c \in Unbindable
    /\ AppGoes(c, "serving", "unbound")
    /\ UNCHANGED <<port, task, remaining, cancelled, socketLock, starts, network>>

CallClosePort(c) ==
    /\ AppGoes(c, "serving", "wantsClose")
    /\ UNCHANGED <<port, task, remaining, cancelled, socketLock, starts, network>>

ClosePortSends(c) ==
    /\ AppGoes(c, "wantsClose", "closing")
    /\ Acquire(c, "app")
    /\ Send(c, Request("CLOSE_PORT", ServiceOf[c], port[c]))
    /\ UNCHANGED <<port, task, remaining, cancelled, starts, replies>>

\* A slip for the mutation runs: the lock is kept until the task has ended.
ClosePortKeepsLock(c) ==
    \E reply \in replies[c] :
        /\ Receive(c, reply)
        /\ AppGoes(c, "closing", IF Succeeds(reply) THEN "released" ELSE "closeFailed")
        /\ UNCHANGED <<port, task, remaining, cancelled, socketLock, starts, requests>>

\* On any other status the method throws before it stops the task.
ClosePortReceives(c) ==
    \E reply \in replies[c] :
        /\ Receive(c, reply)
        /\ AppGoes(c, "closing", IF Succeeds(reply) THEN "released" ELSE "closeFailed")
        /\ Release(c)
        /\ UNCHANGED <<port, task, remaining, cancelled, starts, requests>>

StopKeepAliveCancels(c) ==
    /\ AppGoes(c, "released", "joining")
    /\ cancelled' = [cancelled EXCEPT ![c] = TRUE]
    /\ UNCHANGED <<port, task, remaining, socketLock, starts, network>>

\* keepAliveTask.Wait() returns; the socket is closed with what it holds.
StopKeepAliveReturns(c) ==
    /\ task[c] = "done"
    /\ AppGoes(c, "joining", "closed")
    /\ task' = [task EXCEPT ![c] = "none"]
    /\ replies' = [replies EXCEPT ![c] = {}]
    /\ UNCHANGED <<port, remaining, cancelled, socketLock, starts, requests>>
-------------------------------------------------------------------------------
(***************************************************************************)
(* The keep-alive task.  It looks at the token, then queues for the lock.  *)
(***************************************************************************)
KeepAliveLoops(c) ==
    /\ TaskGoes(c, "ready", IF cancelled[c] THEN "done" ELSE "wantsLock")
    /\ UNCHANGED <<app, port, remaining, cancelled, socketLock, starts, network>>

\* A slip for the mutation runs: the lock is not held across the receive.
KeepAliveSendsUnlocked(c) ==
    /\ TaskGoes(c, "wantsLock", "waiting")
    /\ socketLock[c] = "free"
    /\ Send(c, Request("KEEP_ALIVE", ServiceOf[c], port[c]))
    /\ UNCHANGED <<app, port, remaining, cancelled, socketLock, starts, replies>>

KeepAliveSends(c) ==
    /\ TaskGoes(c, "wantsLock", "waiting")
    /\ Acquire(c, "task")
    /\ Send(c, Request("KEEP_ALIVE", ServiceOf[c], port[c]))
    /\ UNCHANGED <<app, port, remaining, cancelled, starts, replies>>

\* A slip for the mutation runs: the delay is longer than the timeout.
KeepAliveSleepsLong(c) ==
    \E reply \in replies[c] :
        /\ Receive(c, reply)
        /\ TaskGoes(c, "waiting", "delay")
        /\ remaining' = [remaining EXCEPT ![c] = KeepAliveTimeout + 1]
        /\ Release(c)
        /\ UNCHANGED <<app, port, cancelled, starts, requests>>

\* The status of the answer is only written to the console.  An error is
\* caught inside the loop, which goes on without the delay.
KeepAliveReceives(c) ==
    \E reply \in replies[c] :
        /\ Receive(c, reply)
        /\ TaskGoes(c, "waiting", IF Throws(reply) THEN "ready" ELSE "delay")
        /\ remaining' = [remaining EXCEPT ![c] = IF Throws(reply) THEN @ ELSE KeepAliveDelay]
        /\ Release(c)
        /\ UNCHANGED <<app, port, cancelled, starts, requests>>

KeepAliveWakes(c) ==
    /\ remaining[c] = 0
    /\ TaskGoes(c, "delay", "ready")
    /\ UNCHANGED <<app, port, remaining, cancelled, socketLock, starts, network>>

KeepAliveCancelled(c) ==
    /\ cancelled[c]
    /\ TaskGoes(c, "delay", "done")
    /\ UNCHANGED <<app, port, remaining, cancelled, socketLock, starts, network>>
-------------------------------------------------------------------------------
(***************************************************************************)
(* The process dies, or has ended and is started again: new object, new    *)
(* socket, nothing kept.                                                   *)
(***************************************************************************)
Restart(c) ==
    /\ starts[c] < MaxStarts
    /\ starts' = [starts EXCEPT ![c] = @ + 1]
    /\ app' = [app EXCEPT ![c] = "start"]
    /\ port' = [port EXCEPT ![c] = 0]
    /\ task' = [task EXCEPT ![c] = "none"]
    /\ remaining' = [remaining EXCEPT ![c] = 0]
    /\ cancelled' = [cancelled EXCEPT ![c] = FALSE]
    /\ socketLock' = [socketLock EXCEPT ![c] = "free"]
    /\ replies' = [replies EXCEPT ![c] = {}]
    /\ UNCHANGED requests

AppStep(c) ==
    \/ LookUpPortReturns(c)
    \/ CallRequestPort(c)
    \/ RequestPortReturns(c)
    \/ CallKeepPortAlive(c)
    \/ ClosePortSends(c)
    \/ ClosePortReceives(c)
    \/ StopKeepAliveCancels(c)
    \/ StopKeepAliveReturns(c)

TaskStep(c) ==
    \/ KeepAliveLoops(c)
    \/ KeepAliveSends(c)
    \/ KeepAliveReceives(c)
    \/ KeepAliveWakes(c)
    \/ KeepAliveCancelled(c)

\* Steps the process takes of its own accord, at a time of its choosing.
Choice(c) ==
    \/ \E name \in Names : LookUpPort(c, name)
    \/ BindFails(c)
    \/ CallClosePort(c)
    \/ Restart(c)
-------------------------------------------------------------------------------
\* The requests whose answer some thread of the process is waiting for.
Pending(c) ==
    {type \in RequestTypes :
        \/ type = "LOOKUP_PORT" /\ app[c] = "lookingUp"
        \/ type = "REQUEST_PORT" /\ app[c] = "requesting"
        \/ type = "CLOSE_PORT" /\ app[c] = "closing"
        \/ type = "KEEP_ALIVE" /\ task[c] = "waiting"}

===============================================================================
