---------------------------- MODULE PortTableProofs ----------------------------
(***************************************************************************)
(* What the methods of class PRS do to the table of reservations, whatever *)
(* the table, the range of ports and the timeout are: each lemma says what *)
(* a message does to one entry.  The proofs about the server on its own    *)
(* (PRSProofs) and about the server with its clients (PRSSystemProofs)     *)
(* both rest on these.                                                     *)
(***************************************************************************)
EXTENDS PortTable, TLAPS, WellFoundedInduction

Tables == [Ports -> Reservation]

USE DEF Tables

(***************************************************************************)
(* Lowest picks the least element of a non-empty set of ports, which is    *)
(* what the loops of PRS.RequestAvaliablePort and RequestPort stop at.     *)
(***************************************************************************)
LEMMA LowestIsLeast ==
    ASSUME NEW S \in SUBSET Nat, S # {}
    PROVE  Lowest(S) \in S /\ \A q \in S : Lowest(S) <= q
<1>1. PICK x \in S : \A y \in S : <<y, x>> \notin OpToRel(<, Nat)
  BY WFMin, NatLessThanWellFounded, Zenon
<1>2. \A y \in S : ~(y < x)
  BY <1>1, Zenon DEF OpToRel
<1>3. \A y \in S : x <= y
  BY <1>2
<1> QED
  BY <1>3 DEF Lowest

LEMMA PortsAreNaturals == Ports \subseteq Nat
BY PortRangeAssumption DEF Ports

(***************************************************************************)
(* The entries keep their types through every operation on an entry.       *)
(***************************************************************************)
LEMMA EntryTypes ==
    ASSUME NEW entry \in Reservation, NEW name \in ServiceNames
    PROVE  /\ Fresh \in Reservation
           /\ Close(entry) = Fresh
           /\ Reserve(entry, name) \in Reservation
           /\ KeepAlive(entry) \in Reservation
BY TimeoutAssumption
   DEF Fresh, Close, Reserve, KeepAlive, Reservation, NeverAlive, ServiceNames

(***************************************************************************)
(* CheckForExpiredPorts touches reserved entries only and leaves no        *)
(* reservation past its timeout; a second run changes nothing.             *)
(***************************************************************************)
LEMMA CheckForExpiredPortsEffect ==
    ASSUME NEW table \in Tables
    PROVE  /\ CheckForExpiredPorts(table) \in Tables
           /\ CheckForExpiredPorts(CheckForExpiredPorts(table))
                = CheckForExpiredPorts(table)
           /\ \A p \in Ports :
                CheckForExpiredPorts(table)[p] =
                    IF ~table[p].available /\ Expired(table[p]) THEN Fresh
                                                               ELSE table[p]
<1> DEFINE live == CheckForExpiredPorts(table)
<1>1. \A p \in Ports :
         live[p] = IF ~table[p].available /\ Expired(table[p]) THEN Fresh
                                                               ELSE table[p]
  BY DEF CheckForExpiredPorts, Close
<1>2. live \in Tables
  <2>1. \A p \in Ports : live[p] \in Reservation
    BY <1>1, EntryTypes DEF ServiceNames
  <2> QED
    BY <2>1 DEF CheckForExpiredPorts
<1>3. CheckForExpiredPorts(live) = live
  <2>1. Fresh.available
    BY DEF Fresh
  <2>2. \A p \in Ports : ~(~live[p].available /\ Expired(live[p]))
    BY <1>1, <2>1
  <2>3. CheckForExpiredPorts(live) = [p \in Ports |-> live[p]]
    BY <2>2 DEF CheckForExpiredPorts
  <2> QED
    BY <1>2, <2>3
<1> QED
  BY <1>1, <1>2, <1>3

Taken(name) == [available |-> FALSE, serviceName |-> name, idle |-> 0]

LEMMA TakenIsReservation ==
    ASSUME NEW name \in ServiceNames
    PROVE  Taken(name) \in Reservation
BY DEF Taken, Reservation

(***************************************************************************)
(* The three ways REQUEST_PORT ends: the service has a port already, every *)
(* port is taken, or the lowest free port becomes the service's.           *)
(***************************************************************************)
InUse(table, name, o) ==
    \E p \in PortsOf(table, name) :
        o = Outcome(table, Response(name, p, "SERVICE_IN_USE"))

AllBusy(table, name, o) ==
    /\ PortsOf(table, name) = {}
    /\ FreePorts(table) = {}
    /\ o = Outcome(table, Response(name, 0, "ALL_PORTS_BUSY"))

Grants(table, name, o) ==
    \E p \in FreePorts(table) :
        /\ PortsOf(table, name) = {}
        /\ \A q \in FreePorts(table) : p <= q
        /\ o = Outcome([table EXCEPT ![p] = Taken(name)],
                       Response(name, p, "SUCCESS"))

LEMMA RequestPortEffect ==
    ASSUME NEW table \in Tables, NEW name \in ServiceNames
    PROVE  LET o == RequestPort(table, name)
           IN  InUse(table, name, o) \/ AllBusy(table, name, o) \/ Grants(table, name, o)
<1>1. PortsOf(table, name) \in SUBSET Nat /\ FreePorts(table) \in SUBSET Nat
  BY PortsAreNaturals DEF PortsOf, FreePorts
<1>2. CASE PortsOf(table, name) # {}
  <2>1. Lowest(PortsOf(table, name)) \in PortsOf(table, name)
    BY <1>1, <1>2, LowestIsLeast
  <2> QED
    BY <1>2, <2>1 DEF RequestPort, InUse
<1>3. CASE PortsOf(table, name) = {} /\ FreePorts(table) = {}
  BY <1>3 DEF RequestPort, RequestAvailablePort, AllBusy
<1>4. CASE PortsOf(table, name) = {} /\ FreePorts(table) # {}
  <2> DEFINE p == Lowest(FreePorts(table))
  <2>1. p \in FreePorts(table) /\ \A q \in FreePorts(table) : p <= q
    BY <1>1, <1>4, LowestIsLeast
  <2>2. Reserve(table[p], name) = Taken(name)
    BY <2>1 DEF Reserve, Taken, FreePorts
  <2>3. RequestPort(table, name) =
            Outcome([table EXCEPT ![p] = Taken(name)], Response(name, p, "SUCCESS"))
    BY <1>4, <2>2 DEF RequestPort, RequestAvailablePort
  <2> HIDE DEF p
  <2> QED
    BY <1>4, <2>1, <2>3 DEF Grants
<1> QED
  BY <1>2, <1>3, <1>4

(***************************************************************************)
(* A handler changes at most one entry of the table it works on: the entry *)
(* it confirms to the client, or the entry it closes.                      *)
(***************************************************************************)
Changes(table, msg, o) ==
    \/ o.ports = table
    \/ \E p \in FreePorts(table) :
          /\ msg.type = "REQUEST_PORT"
          /\ PortsOf(table, msg.serviceName) = {}
          /\ o.response = Response(msg.serviceName, p, "SUCCESS")
          /\ o.ports = [table EXCEPT ![p] = Taken(msg.serviceName)]
    \/ \E p \in PortsOf(table, msg.serviceName) :
          /\ msg.type = "KEEP_ALIVE"
          /\ o.response = Response(msg.serviceName, p, "SUCCESS")
          /\ o.ports = [table EXCEPT ![p] = Taken(msg.serviceName)]
    \/ \E p \in Ports :
          /\ msg.type = "CLOSE_PORT"
          /\ msg.port = p
          /\ o.ports = [table EXCEPT ![p] = Fresh]

(***************************************************************************)
(* The fields of a message that reaches HandleMessage.                     *)
(***************************************************************************)
WellFormed(msg) ==
    /\ msg.type \in RequestTypes
    /\ msg.serviceName \in ServiceNames
    /\ msg.port \in Nat

\* Exactly the entry that was taken or kept alive is confirmed.
ConfirmsEntry(table, msg, o) ==
    msg.type \in {"REQUEST_PORT", "KEEP_ALIVE"} /\ o.response.status = "SUCCESS" =>
        \A p \in Ports : o.response.port = p => o.ports[p] = Taken(msg.serviceName)

Answers(msg, o) ==
    /\ o.response \in Responses
    /\ o.response.status = "null" <=> msg.type = "RESPONSE"

LEMMA RequestPortMessage ==
    ASSUME NEW table \in Tables, NEW msg, WellFormed(msg), msg.type = "REQUEST_PORT",
           NEW o, o = RequestPort(table, msg.serviceName)
    PROVE  Changes(table, msg, o) /\ ConfirmsEntry(table, msg, o) /\ Answers(msg, o)
<1> DEFINE name == msg.serviceName
<1>1. name \in ServiceNames
  BY DEF WellFormed
<1>2. CASE InUse(table, name, o)
  <2>1. PICK p \in PortsOf(table, name) :
            o = Outcome(table, Response(name, p, "SERVICE_IN_USE"))
    BY <1>2 DEF InUse
  <2>2. p \in Nat
    BY PortsAreNaturals DEF PortsOf
  <2>3. Changes(table, msg, o)
    BY <2>1 DEF Changes, Outcome
  <2>4. ConfirmsEntry(table, msg, o)
    BY <2>1 DEF ConfirmsEntry, Outcome, Response
  <2>5. Answers(msg, o)
    BY <1>1, <2>1, <2>2 DEF Answers, Outcome, Response, Responses, Statuses
  <2> QED
    BY <2>3, <2>4, <2>5
<1>3. CASE AllBusy(table, name, o)
  <2>1. Changes(table, msg, o)
    BY <1>3 DEF AllBusy, Changes, Outcome
  <2>2. ConfirmsEntry(table, msg, o)
    BY <1>3 DEF AllBusy, ConfirmsEntry, Outcome, Response
  <2>3. Answers(msg, o)
    BY <1>1, <1>3 DEF AllBusy, Answers, Outcome, Response, Responses, Statuses
  <2> QED
    BY <2>1, <2>2, <2>3
<1>4. CASE Grants(table, name, o)
  <2>1. PICK p \in FreePorts(table) :
            /\ PortsOf(table, name) = {}
            /\ o = Outcome([table EXCEPT ![p] = Taken(name)],
                           Response(name, p, "SUCCESS"))
    BY <1>4 DEF Grants
  <2>2. p \in Ports /\ p \in Nat
    BY PortsAreNaturals DEF FreePorts
  <2>3. /\ o.ports = [table EXCEPT ![p] = Taken(name)]
        /\ o.response = Response(name, p, "SUCCESS")
    BY <2>1 DEF Outcome
  <2>4. Changes(table, msg, o)
    BY <2>1, <2>3, Zenon DEF Changes
  <2>5. ConfirmsEntry(table, msg, o)
    <3>1. o.ports[p] = Taken(name)
      BY <2>2, <2>3
    <3> QED
      BY <2>3, <3>1 DEF ConfirmsEntry, Response
  <2>6. Answers(msg, o)
    BY <1>1, <2>1, <2>2 DEF Answers, Outcome, Response, Responses, Statuses
  <2> QED
    BY <2>4, <2>5, <2>6
<1> QED
  BY <1>1, <1>2, <1>3, <1>4, RequestPortEffect

LEMMA KeepAliveMessage ==
    ASSUME NEW table \in Tables, NEW msg, WellFormed(msg), msg.type = "KEEP_ALIVE",
           NEW o, o = KeepPortAlive(table, msg.serviceName, msg.port)
    PROVE  Changes(table, msg, o) /\ ConfirmsEntry(table, msg, o) /\ Answers(msg, o)
<1> DEFINE name == msg.serviceName
           p == msg.port
<1>1. name \in ServiceNames /\ p \in Nat
  BY DEF WellFormed
<1>2. Answers(msg, o)
  BY <1>1 DEF KeepPortAlive, Answers, Outcome, Response, Responses, Statuses
<1>3. CASE p \in PortsOf(table, name)
  <2>1. p \in Ports /\ ~table[p].available /\ table[p].serviceName = name
    BY <1>3 DEF PortsOf
  <2>2. KeepAlive(table[p]) = Taken(name)
    BY <2>1 DEF KeepAlive, Taken, Reservation
  <2>3. /\ o.ports = [table EXCEPT ![p] = Taken(name)]
        /\ o.response = Response(name, p, "SUCCESS")
    BY <1>3, <2>2 DEF KeepPortAlive, Outcome
  <2>4. Changes(table, msg, o)
    BY <1>3, <2>3, Zenon DEF Changes
  <2>5. o.ports[p] = Taken(name)
    BY <2>1, <2>3
  <2>6. ConfirmsEntry(table, msg, o)
    BY <2>3, <2>5 DEF ConfirmsEntry, Response
  <2> QED
    BY <1>2, <2>4, <2>6
<1>4. CASE p \notin PortsOf(table, name)
  <2>1. o = Outcome(table, Response(name, p, "SERVICE_NOT_FOUND"))
    BY <1>4 DEF KeepPortAlive
  <2>2. Changes(table, msg, o)
    BY <2>1 DEF Changes, Outcome
  <2>3. ConfirmsEntry(table, msg, o)
    BY <2>1 DEF ConfirmsEntry, Outcome, Response
  <2> QED
    BY <1>2, <2>2, <2>3
<1> QED
  BY <1>3, <1>4

LEMMA ClosePortMessage ==
    ASSUME NEW table \in Tables, NEW msg, WellFormed(msg), msg.type = "CLOSE_PORT",
           NEW o, o = ClosePort(table, msg.serviceName, msg.port)
    PROVE  Changes(table, msg, o) /\ ConfirmsEntry(table, msg, o) /\ Answers(msg, o)
<1> DEFINE name == msg.serviceName
           p == msg.port
<1>1. name \in ServiceNames /\ p \in Nat
  BY DEF WellFormed
<1>2. Answers(msg, o)
  BY <1>1 DEF ClosePort, Answers, Outcome, Response, Responses, Statuses
<1>3. ConfirmsEntry(table, msg, o)
  BY DEF ConfirmsEntry
<1>4. CASE p \in Ports /\ p # 0 /\ p \notin FreePorts(table)
  <2>1. o.ports = [table EXCEPT ![p] = Fresh]
    BY <1>4 DEF ClosePort, Close, Outcome
  <2>2. Changes(table, msg, o)
    BY <1>4, <2>1, Zenon DEF Changes
  <2> QED
    BY <1>2, <1>3, <2>2
<1>5. CASE ~(p \in Ports /\ p # 0 /\ p \notin FreePorts(table))
  <2>1. o.ports = table
    BY <1>5 DEF ClosePort, Outcome
  <2> QED
    BY <1>2, <1>3, <2>1 DEF Changes
<1> QED
  BY <1>4, <1>5

LEMMA LookupPortMessage ==
    ASSUME NEW table \in Tables, NEW msg, WellFormed(msg), msg.type = "LOOKUP_PORT",
           NEW o, o = LookupPort(table, msg.serviceName)
    PROVE  Changes(table, msg, o) /\ ConfirmsEntry(table, msg, o) /\ Answers(msg, o)
<1> DEFINE name == msg.serviceName
           matches == {p \in Ports : table[p].serviceName = name}
<1>1. name \in ServiceNames
  BY DEF WellFormed
<1>2. ConfirmsEntry(table, msg, o)
  BY DEF ConfirmsEntry
<1>3. Changes(table, msg, o)
  BY DEF LookupPort, Outcome, Changes
<1>4. matches # {} => Lowest(matches) \in Nat
  BY LowestIsLeast, PortsAreNaturals
<1>5. Answers(msg, o)
  BY <1>1, <1>4 DEF LookupPort, Answers, Outcome, Response, Responses, Statuses
<1> QED
  BY <1>2, <1>3, <1>5

LEMMA OtherMessage ==
    ASSUME NEW table \in Tables, NEW msg, WellFormed(msg),
           NEW o,
           \/ /\ msg.type = "STOP"
              /\ o = Outcome(table, Response(msg.serviceName, 0, "SUCCESS"))
           \/ msg.type = "RESPONSE" /\ o = Outcome(table, NoResponse)
    PROVE  Changes(table, msg, o) /\ ConfirmsEntry(table, msg, o) /\ Answers(msg, o)
<1>1. msg.serviceName \in ServiceNames
  BY DEF WellFormed
<1>2. Changes(table, msg, o)
  BY DEF Changes, Outcome
<1>3. ConfirmsEntry(table, msg, o)
  BY DEF ConfirmsEntry
<1>4. Answers(msg, o)
  BY <1>1 DEF Answers, Outcome, Response, NoResponse, Responses, Statuses, ServiceNames
<1> QED
  BY <1>2, <1>3, <1>4

(***************************************************************************)
(* What HandleMessage does: it expires the stale entries and then behaves  *)
(* as one of the handlers on the table that is left.                       *)
(***************************************************************************)
LEMMA HandleMessageEffect ==
    ASSUME NEW table \in Tables, NEW msg, WellFormed(msg)
    PROVE  LET live == CheckForExpiredPorts(table)
               o == HandleMessage(table, msg)
           IN  Changes(live, msg, o) /\ ConfirmsEntry(live, msg, o) /\ Answers(msg, o)
<1> DEFINE live == CheckForExpiredPorts(table)
           o == HandleMessage(table, msg)
<1>1. live \in Tables /\ CheckForExpiredPorts(live) = live
  BY CheckForExpiredPortsEffect
<1>2. msg.type \in RequestTypes
  BY DEF WellFormed
<1>3. CASE msg.type = "REQUEST_PORT"
  <2>1. o = RequestPort(live, msg.serviceName)
    BY <1>1, <1>3 DEF HandleMessage
  <2> QED
    BY <1>1, <1>3, <2>1, RequestPortMessage
<1>4. CASE msg.type = "KEEP_ALIVE"
  <2>1. o = KeepPortAlive(live, msg.serviceName, msg.port)
    BY <1>4 DEF HandleMessage
  <2> QED
    BY <1>1, <1>4, <2>1, KeepAliveMessage
<1>5. CASE msg.type = "CLOSE_PORT"
  <2>1. o = ClosePort(live, msg.serviceName, msg.port)
    BY <1>5 DEF HandleMessage
  <2> QED
    BY <1>1, <1>5, <2>1, ClosePortMessage
<1>6. CASE msg.type = "LOOKUP_PORT"
  <2>1. o = LookupPort(live, msg.serviceName)
    BY <1>6 DEF HandleMessage
  <2> QED
    BY <1>1, <1>6, <2>1, LookupPortMessage
<1>7. CASE msg.type = "STOP"
  <2>1. o = Outcome(live, Response(msg.serviceName, 0, "SUCCESS"))
    BY <1>7 DEF HandleMessage
  <2> QED
    BY <1>1, <1>7, <2>1, OtherMessage
<1>8. CASE msg.type = "RESPONSE"
  <2>1. o = Outcome(live, NoResponse)
    BY <1>8 DEF HandleMessage
  <2> QED
    BY <1>1, <1>8, <2>1, OtherMessage
<1> QED
  BY <1>2, <1>3, <1>4, <1>5, <1>6, <1>7, <1>8 DEF RequestTypes

LEMMA ChangesKeepType ==
    ASSUME NEW table \in Tables, NEW msg, WellFormed(msg), NEW o, Changes(table, msg, o)
    PROVE  o.ports \in Tables
<1>1. Fresh \in Reservation /\ Taken(msg.serviceName) \in Reservation
  BY TakenIsReservation, TimeoutAssumption
     DEF WellFormed, Fresh, Reservation, NeverAlive, ServiceNames
<1> QED
  BY <1>1 DEF Changes

(***************************************************************************)
(* UniqueService and FreeIsBlank as predicates of a table; together they   *)
(* are inductive: REQUEST_PORT keeps names apart because it scans the      *)
(* table, and every way of freeing an entry makes it Fresh.                *)
(***************************************************************************)
Unique(table) ==
    \A p, q \in Ports :
        ~table[p].available /\ ~table[q].available
            /\ table[p].serviceName = table[q].serviceName => p = q

Blank(table) == \A p \in Ports : table[p].available => table[p].serviceName = NoName

LEMMA ExpiryKeepsOrder ==
    ASSUME NEW table \in Tables, Unique(table), Blank(table)
    PROVE  Unique(CheckForExpiredPorts(table)) /\ Blank(CheckForExpiredPorts(table))
<1>1. Fresh.available /\ Fresh.serviceName = NoName
  BY DEF Fresh
<1> QED
  BY <1>1, CheckForExpiredPortsEffect DEF Unique, Blank

LEMMA ChangesKeepOrder ==
    ASSUME NEW table \in Tables, NEW msg, WellFormed(msg), NEW o,
           Changes(table, msg, o), Unique(table), Blank(table)
    PROVE  Unique(o.ports) /\ Blank(o.ports)
<1> DEFINE name == msg.serviceName
<1>1. CASE o.ports = table
  BY <1>1 DEF Unique, Blank
<1>2. ASSUME NEW p \in FreePorts(table), PortsOf(table, name) = {},
             o.ports = [table EXCEPT ![p] = Taken(name)]
      PROVE  Unique(o.ports) /\ Blank(o.ports)
  BY <1>2 DEF Unique, Blank, Taken, FreePorts, PortsOf
<1>3. ASSUME NEW p \in PortsOf(table, name),
             o.ports = [table EXCEPT ![p] = Taken(name)]
      PROVE  Unique(o.ports) /\ Blank(o.ports)
  BY <1>3 DEF Unique, Blank, Taken, PortsOf
<1>4. ASSUME NEW p \in Ports, o.ports = [table EXCEPT ![p] = Fresh]
      PROVE  Unique(o.ports) /\ Blank(o.ports)
  BY <1>4 DEF Unique, Blank, Fresh
<1> QED
  BY <1>1, <1>2, <1>3, <1>4 DEF Changes

(***************************************************************************)
(* What a holder that renews in time can count on: as long as its entry is *)
(* not overdue, only a CLOSE_PORT that names the port takes it away; any   *)
(* other message leaves the entry or renews it.                            *)
(***************************************************************************)
LEMMA HolderUndisturbed ==
    ASSUME NEW table \in Tables, NEW msg, WellFormed(msg),
           NEW name, NEW p \in PortsOf(table, name), ~Expired(table[p]),
           ~(msg.type = "CLOSE_PORT" /\ msg.port = p)
    PROVE  LET o == HandleMessage(table, msg)
           IN  o.ports[p] = table[p] \/ o.ports[p] = Taken(name)
<1> DEFINE live == CheckForExpiredPorts(table)
           o == HandleMessage(table, msg)
<1>1. live \in Tables /\ Changes(live, msg, o)
  BY CheckForExpiredPortsEffect, HandleMessageEffect
<1>2. p \in Ports /\ live[p] = table[p]
  BY CheckForExpiredPortsEffect DEF PortsOf
<1>3. ~live[p].available /\ live[p].serviceName = name
  BY <1>2 DEF PortsOf
<1> HIDE DEF live, o
<1>4. ASSUME NEW q \in FreePorts(live), o.ports = [live EXCEPT ![q] = Taken(msg.serviceName)]
      PROVE  o.ports[p] = table[p]
  BY <1>1, <1>2, <1>3, <1>4 DEF FreePorts
<1>5. ASSUME NEW q \in PortsOf(live, msg.serviceName),
             o.ports = [live EXCEPT ![q] = Taken(msg.serviceName)]
      PROVE  o.ports[p] = table[p] \/ o.ports[p] = Taken(name)
  BY <1>1, <1>2, <1>3, <1>5 DEF PortsOf
<1>6. ASSUME NEW q \in Ports, q # p, o.ports = [live EXCEPT ![q] = Fresh]
      PROVE  o.ports[p] = table[p]
  BY <1>1, <1>2, <1>6
<1>7. o.ports[p] = table[p] \/ o.ports[p] = Taken(name)
  BY <1>1, <1>2, <1>4, <1>5, <1>6 DEF Changes
<1> QED
  BY <1>7 DEF o

LEMMA RenewalTakes ==
    ASSUME NEW table \in Tables, NEW msg, WellFormed(msg), msg.type = "KEEP_ALIVE",
           msg.port \in PortsOf(table, msg.serviceName), ~Expired(table[msg.port])
    PROVE  HandleMessage(table, msg).ports[msg.port] = Taken(msg.serviceName)
<1> DEFINE live == CheckForExpiredPorts(table)
           p == msg.port
<1>1. live \in Tables /\ p \in Ports /\ live[p] = table[p]
  BY CheckForExpiredPortsEffect DEF PortsOf
<1>2. p \in PortsOf(live, msg.serviceName)
  BY <1>1 DEF PortsOf
<1>3. HandleMessage(table, msg).ports = [live EXCEPT ![p] = KeepAlive(live[p])]
  BY <1>2 DEF HandleMessage, KeepPortAlive, Outcome
<1>4. KeepAlive(live[p]) = Taken(msg.serviceName)
  BY <1>1, <1>2 DEF KeepAlive, Taken, PortsOf, Reservation
<1> QED
  BY <1>1, <1>3, <1>4

(***************************************************************************)
(* A port is granted only to a service that has none, or none in time.     *)
(***************************************************************************)
LEMMA GrantIsFirst ==
    ASSUME NEW table \in Tables, NEW msg, WellFormed(msg), msg.type = "REQUEST_PORT",
           HandleMessage(table, msg).response.status = "SUCCESS"
    PROVE  LET o == HandleMessage(table, msg)
           IN  /\ o.response.port \in Ports
               /\ o.ports[o.response.port] = Taken(msg.serviceName)
               /\ \A p \in PortsOf(table, msg.serviceName) : Expired(table[p])
<1> DEFINE live == CheckForExpiredPorts(table)
           name == msg.serviceName
           o == HandleMessage(table, msg)
<1>1. live \in Tables /\ CheckForExpiredPorts(live) = live /\ name \in ServiceNames
  BY CheckForExpiredPortsEffect DEF WellFormed
<1>2. o = RequestPort(live, name)
  BY <1>1 DEF HandleMessage
<1>3. ~InUse(live, name, o) /\ ~AllBusy(live, name, o)
  BY DEF InUse, AllBusy, Outcome, Response
<1>4. Grants(live, name, o)
  BY <1>1, <1>2, <1>3, RequestPortEffect
<1>5. PICK p \in FreePorts(live) :
          /\ PortsOf(live, name) = {}
          /\ o = Outcome([live EXCEPT ![p] = Taken(name)], Response(name, p, "SUCCESS"))
  BY <1>4 DEF Grants
<1>6. p \in Ports /\ o.response.port = p /\ o.ports = [live EXCEPT ![p] = Taken(name)]
  BY <1>5 DEF FreePorts, Outcome, Response
<1>7. \A q \in PortsOf(table, name) : Expired(table[q])
  BY <1>5, CheckForExpiredPortsEffect DEF PortsOf
<1> QED
  BY <1>1, <1>6, <1>7

(***************************************************************************)
(* A service gets an entry by a REQUEST_PORT of its name and by nothing    *)
(* else, and then has no other; the port of a CLOSE_PORT that succeeds is  *)
(* nobody's.                                                               *)
(***************************************************************************)
LEMMA EntersOnlyOnRequest ==
    ASSUME NEW table \in Tables, NEW msg, WellFormed(msg), NEW name
    PROVE  LET o == HandleMessage(table, msg)
           IN  /\ ~(msg.type = "REQUEST_PORT" /\ msg.serviceName = name)
                     => PortsOf(o.ports, name) \subseteq PortsOf(table, name)
               /\ msg.type = "REQUEST_PORT" /\ msg.serviceName = name
                     /\ o.response.status = "SUCCESS"
                     => PortsOf(o.ports, name) \subseteq {o.response.port}
               /\ msg.type = "CLOSE_PORT" /\ o.response.status = "SUCCESS"
                     => msg.port \notin PortsOf(o.ports, name)
<1> DEFINE live == CheckForExpiredPorts(table)
           o == HandleMessage(table, msg)
<1>1. live \in Tables /\ Changes(live, msg, o)
  BY CheckForExpiredPortsEffect, HandleMessageEffect
<1>2. PortsOf(live, name) \subseteq PortsOf(table, name)
  BY CheckForExpiredPortsEffect DEF PortsOf, Fresh
<1>3. ASSUME ~(msg.type = "REQUEST_PORT" /\ msg.serviceName = name)
      PROVE  PortsOf(o.ports, name) \subseteq PortsOf(live, name)
  <2> HIDE DEF live, o
  <2>1. ASSUME NEW p \in Ports, o.ports = [live EXCEPT ![p] = Fresh]
        PROVE  PortsOf(o.ports, name) \subseteq PortsOf(live, name)
    BY <1>1, <2>1 DEF PortsOf, Fresh
  <2>2. ASSUME NEW p \in PortsOf(live, msg.serviceName),
               o.ports = [live EXCEPT ![p] = Taken(msg.serviceName)]
        PROVE  PortsOf(o.ports, name) \subseteq PortsOf(live, name)
    BY <1>1, <2>2 DEF PortsOf, Taken
  <2>3. ASSUME NEW p \in FreePorts(live), msg.serviceName # name,
               o.ports = [live EXCEPT ![p] = Taken(msg.serviceName)]
        PROVE  PortsOf(o.ports, name) \subseteq PortsOf(live, name)
    BY <1>1, <2>3 DEF PortsOf, Taken
  <2> QED
    BY <1>1, <1>3, <2>1, <2>2, <2>3 DEF Changes
<1>4. ASSUME msg.type = "REQUEST_PORT", msg.serviceName = name, o.response.status = "SUCCESS"
      PROVE  PortsOf(o.ports, name) \subseteq {o.response.port}
  <2>1. o = RequestPort(live, name) /\ name \in ServiceNames
    BY <1>4, CheckForExpiredPortsEffect DEF HandleMessage, WellFormed
  <2>2. ~InUse(live, name, o) /\ ~AllBusy(live, name, o)
    BY <1>4 DEF InUse, AllBusy, Outcome, Response
  <2>3. Grants(live, name, o)
    BY <1>1, <2>1, <2>2, RequestPortEffect
  <2>4. PICK p \in FreePorts(live) :
            /\ PortsOf(live, name) = {}
            /\ o = Outcome([live EXCEPT ![p] = Taken(name)], Response(name, p, "SUCCESS"))
    BY <2>3 DEF Grants
  <2>5. o.response.port = p /\ o.ports = [live EXCEPT ![p] = Taken(name)]
    BY <2>4 DEF Outcome, Response
  <2> HIDE DEF live, o
  <2> QED
    BY <1>1, <2>4, <2>5 DEF PortsOf
<1>5. ASSUME msg.type = "CLOSE_PORT", o.response.status = "SUCCESS"
      PROVE  msg.port \notin PortsOf(o.ports, name)
  <2>1. o = ClosePort(live, msg.serviceName, msg.port)
    BY <1>5 DEF HandleMessage
  <2>2. msg.port \in Ports /\ o.ports = [live EXCEPT ![msg.port] = Fresh]
    BY <1>5, <2>1 DEF ClosePort, Close, Outcome, Response
  <2> HIDE DEF live, o
  <2> QED
    BY <1>1, <2>2 DEF PortsOf, Fresh
<1> QED
  BY <1>2, <1>3, <1>4, <1>5

(***************************************************************************)
(* No answer carries a port that is neither of the table nor the one the   *)
(* message named, 0 aside; idle times stay within what an operation sets.  *)
(***************************************************************************)
LEMMA AnswerPort ==
    ASSUME NEW table \in Tables, NEW msg, WellFormed(msg)
    PROVE  HandleMessage(table, msg).response.port \in Ports \cup {0, msg.port}
<1> DEFINE live == CheckForExpiredPorts(table)
           name == msg.serviceName
           o == HandleMessage(table, msg)
           matches == {p \in Ports : live[p].serviceName = name}
<1>1. live \in Tables /\ CheckForExpiredPorts(live) = live /\ name \in ServiceNames
  BY CheckForExpiredPortsEffect DEF WellFormed
<1>2. CASE msg.type = "REQUEST_PORT"
  <2>1. o = RequestPort(live, name)
    BY <1>1, <1>2 DEF HandleMessage
  <2>2. InUse(live, name, o) \/ AllBusy(live, name, o) \/ Grants(live, name, o)
    BY <1>1, <2>1, RequestPortEffect
  <2> HIDE DEF o
  <2>3. o.response.port \in Ports \cup {0}
    BY <2>2 DEF InUse, AllBusy, Grants, PortsOf, FreePorts, Outcome, Response
  <2> QED
    BY <2>3 DEF o
<1>3. CASE msg.type = "KEEP_ALIVE"
  BY <1>3 DEF HandleMessage, KeepPortAlive, Outcome, Response
<1>4. CASE msg.type = "CLOSE_PORT"
  BY <1>4 DEF HandleMessage, ClosePort, Outcome, Response
<1>5. CASE msg.type = "LOOKUP_PORT"
  <2>1. matches # {} => Lowest(matches) \in Ports
    BY LowestIsLeast, PortsAreNaturals
  <2>2. o = LookupPort(live, name)
    BY <1>5 DEF HandleMessage
  <2> QED
    BY <2>1, <2>2 DEF LookupPort, Outcome, Response
<1>6. CASE msg.type = "STOP" \/ msg.type = "RESPONSE"
  BY <1>6 DEF HandleMessage, Outcome, Response, NoResponse
<1> QED
  BY <1>2, <1>3, <1>4, <1>5, <1>6 DEF WellFormed, RequestTypes

LEMMA IdleStaysBounded ==
    ASSUME NEW table \in Tables, NEW msg, WellFormed(msg), NEW bound \in Nat,
           NeverAlive <= bound, \A p \in Ports : table[p].idle \in 0 .. bound
    PROVE  \A p \in Ports : HandleMessage(table, msg).ports[p].idle \in 0 .. bound
<1> DEFINE live == CheckForExpiredPorts(table)
           o == HandleMessage(table, msg)
<1>1. live \in Tables /\ Changes(live, msg, o)
  BY CheckForExpiredPortsEffect, HandleMessageEffect
<1>2. Fresh.idle \in 0 .. bound /\ Taken(msg.serviceName).idle \in 0 .. bound
  BY TimeoutAssumption DEF Fresh, Taken, NeverAlive
<1>3. \A p \in Ports : live[p].idle \in 0 .. bound
  BY <1>2, CheckForExpiredPortsEffect
<1> HIDE DEF live, o
<1>4. \A p \in Ports : o.ports[p].idle \in 0 .. bound
  BY <1>1, <1>2, <1>3 DEF Changes, FreePorts, PortsOf
<1> QED
  BY <1>4 DEF o

===============================================================================
