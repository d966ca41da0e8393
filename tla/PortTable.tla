------------------------------ MODULE PortTable ------------------------------
(***************************************************************************)
(* The methods of class PRS as operators on its table of reservations.     *)
(* Every one of them maps the table (and the fields of the message it      *)
(* reads) to the table it leaves behind and the response it returns; the   *)
(* modules with variables drive these operators.  The status field of a    *)
(* request is never read by the server and is left out of a request.       *)
(***************************************************************************)
EXTENDS PortReservation

Statuses == {"SUCCESS", "SERVICE_IN_USE", "SERVICE_NOT_FOUND",
             "ALL_PORTS_BUSY", "UNDEFINED_ERROR"}

RequestTypes == {"REQUEST_PORT", "LOOKUP_PORT", "KEEP_ALIVE",
                 "CLOSE_PORT", "RESPONSE", "STOP"}

\* HandleMessage leaves response null and the host sends nothing.
NoResponse == [serviceName |-> NoName, port |-> 0, status |-> "null"]

Response(name, port, status) ==
    [serviceName |-> name, port |-> port, status |-> status]

Responses == [serviceName : ServiceNames, port : Nat,
              status : Statuses \cup {"null"}]

Lowest(S) == CHOOSE p \in S : \A q \in S : p <= q

FreePorts(table) == {p \in Ports : table[p].available}

\* The entries that a request, keep-alive or close compares names with.
PortsOf(table, name) ==
    {p \in Ports : ~table[p].available /\ table[p].serviceName = name}

\* A slip for the mutation runs: the scan stops one entry short.
CheckAllButLastPort(table) ==
    [p \in Ports |-> IF /\ p # EndingClientPort
                        /\ ~table[p].available
                        /\ Expired(table[p])
                     THEN Close(table[p])
                     ELSE table[p]]

CheckForExpiredPorts(table) ==
    [p \in Ports |-> IF ~table[p].available /\ Expired(table[p])
                     THEN Close(table[p])
                     ELSE table[p]]

Outcome(table, response) == [ports |-> table, response |-> response]

RequestAvailablePort(table, name) ==
    IF FreePorts(table) = {}
    THEN Outcome(table, Response(name, 0, "ALL_PORTS_BUSY"))
    ELSE LET p == Lowest(FreePorts(table))
         IN  Outcome([table EXCEPT ![p] = Reserve(@, name)],
                     Response(name, p, "SUCCESS"))

\* A slip for the mutation runs: the scan for the name is missing.
RequestPortUnchecked(table, name) == RequestAvailablePort(table, name)

RequestPort(table, name) ==
    IF PortsOf(table, name) # {}
    THEN Outcome(table, Response(name, Lowest(PortsOf(table, name)),
                                 "SERVICE_IN_USE"))
    ELSE RequestAvailablePort(table, name)

\* A slip for the mutation runs: a port that was freed is reserved again.
KeepFreePortAlive(table, name, port) ==
    IF port \in PortsOf(table, name) \cup FreePorts(table)
    THEN Outcome([table EXCEPT ![port] = Reserve(@, name)],
                 Response(name, port, "SUCCESS"))
    ELSE Outcome(table, Response(name, port, "SERVICE_NOT_FOUND"))

\* A slip for the mutation runs: the holder's name is not compared.
KeepAnyPortAlive(table, name, port) ==
    IF port \in Ports /\ port \notin FreePorts(table)
    THEN Outcome([table EXCEPT ![port] = KeepAlive(@)],
                 Response(name, port, "SUCCESS"))
    ELSE Outcome(table, Response(name, port, "SERVICE_NOT_FOUND"))

KeepPortAlive(table, name, port) ==
    IF port \in PortsOf(table, name)
    THEN Outcome([table EXCEPT ![port] = KeepAlive(@)],
                 Response(name, port, "SUCCESS"))
    ELSE Outcome(table, Response(name, port, "SERVICE_NOT_FOUND"))

\* Port 0 is refused even when it is reserved; the name of the holder is
\* compared but both branches close the entry.
ClosePort(table, name, port) ==
    IF port \in Ports /\ port # 0 /\ port \notin FreePorts(table)
    THEN Outcome([table EXCEPT ![port] = Close(@)],
                 Response(name, port, "SUCCESS"))
    ELSE Outcome(table, Response(name, port, "SERVICE_NOT_FOUND"))

\* A slip for the mutation runs: no answer when the scan finds nothing.
LookupPortOrNull(table, name) ==
    LET matches == {p \in Ports : table[p].serviceName = name}
    IN  Outcome(table,
                IF matches = {}
                THEN NoResponse
                ELSE Response(name, Lowest(matches), "SUCCESS"))

\* The scan compares names only: for the empty name a free entry matches.
LookupPort(table, name) ==
    LET matches == {p \in Ports : table[p].serviceName = name}
    IN  Outcome(table,
                IF matches = {}
                THEN Response(name, 0, "SERVICE_NOT_FOUND")
                ELSE Response(name, Lowest(matches), "SUCCESS"))

HandleMessage(table, msg) ==
    LET live == CheckForExpiredPorts(table)
    IN  CASE msg.type = "REQUEST_PORT" ->
                 RequestPort(CheckForExpiredPorts(live), msg.serviceName)
          [] msg.type = "KEEP_ALIVE" ->
                 KeepPortAlive(live, msg.serviceName, msg.port)
          [] msg.type = "CLOSE_PORT" ->
                 ClosePort(live, msg.serviceName, msg.port)
          [] msg.type = "LOOKUP_PORT" ->
                 LookupPort(live, msg.serviceName)
          [] msg.type = "STOP" ->
                 Outcome(live, Response(msg.serviceName, 0, "SUCCESS"))
          [] OTHER -> Outcome(live, NoResponse)

===============================================================================
