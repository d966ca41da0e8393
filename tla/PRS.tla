--------------------------------- MODULE PRS ---------------------------------
(***************************************************************************)
(* The Port Reservation Server on its own: its table of reservations, the  *)
(* messages it handles one after the other, and the passing of time.  Who  *)
(* sends which message is left open, so every sequence of messages over    *)
(* the given names and ports is a behaviour.  Time passes in steps of a    *)
(* second; the wall clock the server reads may moreover be moved, because  *)
(* the source reads local time (DateTime.Now), which jumps.                *)
(***************************************************************************)
EXTENDS PortTable

CONSTANTS
    MessagePorts,   \* port numbers a message may carry
    ClockSteps,     \* by how many seconds the wall clock may be moved
    MaxClockSteps,  \* bound: how often it is moved in a behaviour
    IdleCap,        \* bound: idle times count up to this one
    Nobody          \* the holder of a free port, for the refinement

ASSUME MessagePortsAssumption == MessagePorts \subseteq Nat

ASSUME ClockAssumption ==
    /\ ClockSteps \subseteq Int
    /\ MaxClockSteps \in Nat
    /\ IdleCap \in Nat
    /\ IdleCap > KeepAliveTimeout

ASSUME NobodyAssumption == Nobody \notin ServiceNames

VARIABLES
    ports,       \* the table, class PRS field ports
    stopped,     \* class PRS field stopped
    exchange,    \* the last step's request and response
    quiet,       \* seconds since a client was last told it holds the port
    clockSteps   \* how often the wall clock was moved

vars == <<ports, stopped, exchange, quiet, clockSteps>>

Requests == [type : RequestTypes, serviceName : ServiceNames, port : MessagePorts \cup {0}]

\* Every message with a type the switch knows is answered.
Exchanges ==
    {xchg \in [request : Requests, response : Responses] :
        xchg.response.status = "null" <=> xchg.request.type = "RESPONSE"}

Request(type, name, port) ==
    [type |-> type, serviceName |-> name, port |-> port]

NoExchange == [request |-> Request("RESPONSE", NoName, 0), response |-> NoResponse]

\* quiet and exchange are history variables: quiet counts the time that has
\* really passed and only up to the first second past the timeout.
QuietCap == KeepAliveTimeout + 1

AtMost(bound, n) == IF n > bound THEN bound ELSE n

TypeOK ==
    /\ ports \in [Ports -> Reservation]
    /\ stopped \in BOOLEAN
    /\ exchange \in Exchanges
    /\ quiet \in [Ports -> 0 .. QuietCap]
    /\ clockSteps \in 0 .. MaxClockSteps

Init ==
    /\ ports = [p \in Ports |-> Fresh]
    /\ stopped = FALSE
    /\ exchange = NoExchange
    /\ quiet = [p \in Ports |-> QuietCap]
    /\ clockSteps = 0

\* The client is told that it holds port p, or still holds it.
Confirms(xchg, p) ==
    /\ xchg.request.type \in {"REQUEST_PORT", "KEEP_ALIVE"}
    /\ xchg.response.status = "SUCCESS"
    /\ xchg.response.port = p

Handle(msg) ==
    LET outcome == HandleMessage(ports, msg)
    IN  /\ ~stopped
        /\ ports' = outcome.ports
        /\ stopped' = (msg.type = "STOP")
        /\ exchange' = [request |-> msg, response |-> outcome.response]
        /\ quiet' = [p \in Ports |->
                        IF Confirms(exchange', p) THEN 0 ELSE quiet[p]]
        /\ UNCHANGED clockSteps

HandleRequestPort == \E name \in ServiceNames :
    Handle(Request("REQUEST_PORT", name, 0))

HandleKeepAlive == \E name \in ServiceNames, port \in MessagePorts :
    Handle(Request("KEEP_ALIVE", name, port))

HandleClosePort == \E name \in ServiceNames, port \in MessagePorts :
    Handle(Request("CLOSE_PORT", name, port))

HandleLookupPort == \E name \in ServiceNames :
    Handle(Request("LOOKUP_PORT", name, 0))

HandleStop == Handle(Request("STOP", NoName, 0))

\* A stray RESPONSE, or a type byte the switch does not know.
HandleOther == Handle(Request("RESPONSE", NoName, 0))

\* idle of the reserved entries moves by the given number of seconds.
ShiftIdle(seconds) ==
    [p \in Ports |->
        IF ports[p].available
        THEN ports[p]
        ELSE [ports[p] EXCEPT !.idle = AtMost(IdleCap, @ + seconds)]]

Tick ==
    /\ ports' = ShiftIdle(1)
    /\ quiet' = [p \in Ports |-> AtMost(QuietCap, quiet[p] + 1)]
    /\ exchange' = NoExchange
    /\ UNCHANGED <<stopped, clockSteps>>

MoveClock ==
    /\ clockSteps < MaxClockSteps
    /\ clockSteps' = clockSteps + 1
    /\ \E seconds \in ClockSteps : ports' = ShiftIdle(seconds)
    /\ exchange' = NoExchange
    /\ UNCHANGED <<stopped, quiet>>

Next ==
    \/ HandleRequestPort
    \/ HandleKeepAlive
    \/ HandleClosePort
    \/ HandleLookupPort
    \/ HandleStop
    \/ HandleOther
    \/ Tick
    \/ MoveClock

Spec == Init /\ [][Next]_vars
-------------------------------------------------------------------------------
Reserved(p) == ~ports[p].available

Live(p) == Reserved(p) /\ quiet[p] <= KeepAliveTimeout

Idle == exchange = NoExchange

(***************************************************************************)
(* No two reservations carry the same service name, whatever was requested,*)
(* closed, renewed or allowed to lapse: PRS.RequestPort scans the table    *)
(* for the name before it hands out the lowest free port.                  *)
(***************************************************************************)
UniqueService ==
    \A p, q \in Ports :
        Reserved(p) /\ Reserved(q) /\ ports[p].serviceName = ports[q].serviceName
            => p = q

(***************************************************************************)
(* A port that is free carries no service name.  LOOKUP_PORT compares      *)
(* names without looking at available, so its answers are only right       *)
(* because every way of freeing an entry also clears the name.             *)
(***************************************************************************)
FreeIsBlank == \A p \in Ports : ~Reserved(p) => ports[p].serviceName = NoName

LeaseStep ==
    \A p \in Ports :
        Live(p) /\ (ports'[p].available \/ ports'[p].serviceName # ports[p].serviceName)
            => exchange'.request.type = "CLOSE_PORT" /\ exchange'.request.port = p

(***************************************************************************)
(* A client that renews in time keeps its port: as long as no more than    *)
(* the timeout has passed since the server last confirmed a reservation,   *)
(* no message takes it away or renames it, except a CLOSE_PORT that names  *)
(* the port (CheckForExpiredPorts, PortReservation.Expired).               *)
(***************************************************************************)
LeaseHonoured == [][LeaseStep]_vars

(***************************************************************************)
(* A reservation nobody renewed is gone before any message is answered:    *)
(* right after a message every reservation left in the table was confirmed *)
(* within the timeout, so a stale holder is never reported by a lookup and *)
(* never blocks a request (the call at the top of HandleMessage).  A wall  *)
(* clock that was moved may give a reservation more time than that.        *)
(***************************************************************************)
NoStaleAnswer == clockSteps = 0 /\ ~Idle => \A p \in Ports : Reserved(p) => Live(p)

(***************************************************************************)
(* The server implements PortDirectory: its answers and its table are what *)
(* a directory without clocks gives, for some choice of the holders that   *)
(* dropped out before each message.                                        *)
(***************************************************************************)
Directory == INSTANCE PortDirectory WITH
    Slots <- Ports, Nameable <- MessagePorts,
    Services <- Names, Nameless <- NoName,
    holder <- [p \in Ports |-> IF ports[p].available THEN Nobody
                                                     ELSE ports[p].serviceName],
    answer <- [asked |-> exchange.request.type,
               service |-> exchange.request.serviceName,
               port |-> exchange.response.port,
               status |-> exchange.response.status],
    shut <- stopped

ImplementsDirectory == Directory!Spec

===============================================================================
