--------------------------- MODULE PortReservation ---------------------------
(***************************************************************************)
(* One entry of the port table of the Port Reservation Server (class       *)
(* PortReservation).  The entry's port number is the index of the entry in *)
(* the table, so a reservation is the record of the remaining three        *)
(* fields.  The source keeps the wall-clock time lastAlive and only ever   *)
(* reads the difference DateTime.Now - lastAlive; the model keeps that     *)
(* difference, in seconds, as idle.  It is negative when the clock was set *)
(* back since lastAlive.                                                   *)
(***************************************************************************)
EXTENDS Integers

CONSTANTS
    StartingClientPort,  \* -s, the first port handed out
    EndingClientPort,    \* -e, the last port handed out
    KeepAliveTimeout,    \* -t, seconds a reservation survives without news
    Names,               \* service names, the empty one aside
    NoName               \* string.Empty

\* The range test the server makes before it builds the table.
ASSUME PortRangeAssumption ==
    /\ StartingClientPort \in Nat
    /\ EndingClientPort \in Nat
    /\ StartingClientPort <= EndingClientPort

ASSUME TimeoutAssumption == KeepAliveTimeout \in Nat

ASSUME NamesAssumption == NoName \notin Names

Ports == StartingClientPort .. EndingClientPort

ServiceNames == Names \cup {NoName}

\* lastAlive = DateTime.MinValue: longer ago than any timeout.
NeverAlive == KeepAliveTimeout + 1

Reservation == [available : BOOLEAN, serviceName : ServiceNames, idle : Int]

Fresh == [available |-> TRUE, serviceName |-> NoName, idle |-> NeverAlive]

\* A slip for the mutation runs: the name is left behind.
CloseKeepingName(entry) == [Fresh EXCEPT !.serviceName = entry.serviceName]

Close(entry) == Fresh

\* A slip for the mutation runs: >= for >.
ExpiredOneEarly(entry) == entry.idle >= KeepAliveTimeout

Expired(entry) == entry.idle > KeepAliveTimeout

Reserve(entry, name) ==
    IF entry.available
    THEN [available |-> FALSE, serviceName |-> name, idle |-> 0]
    ELSE entry

KeepAlive(entry) ==
    IF entry.available THEN entry ELSE [entry EXCEPT !.idle = 0]

===============================================================================
