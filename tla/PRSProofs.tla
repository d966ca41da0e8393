------------------------------ MODULE PRSProofs ------------------------------
(***************************************************************************)
(* Proofs about the Port Reservation Server, for every range of ports,     *)
(* timeout and set of service names.  They rest on the lemmas of           *)
(* PortTableProofs, which say what a message does to one entry.            *)
(***************************************************************************)
EXTENDS PRS, PortTableProofs

USE DEF Tables

LEMMA RequestsTyped ==
    ASSUME NEW msg \in Requests
    PROVE  WellFormed(msg)
<1>1. MessagePorts \cup {0} \subseteq Nat
  BY MessagePortsAssumption
<1>2. msg \in [type : RequestTypes, serviceName : ServiceNames, port : MessagePorts \cup {0}]
  BY DEF Requests
<1> QED
  BY <1>1, <1>2 DEF WellFormed

(***************************************************************************)
(* The requests the actions really handle.                                 *)
(***************************************************************************)
Sent(msg) ==
    /\ msg.type \in {"KEEP_ALIVE", "CLOSE_PORT"} => msg.port \in MessagePorts
    /\ msg.type = "STOP" => msg.serviceName = NoName
    /\ msg.type = "RESPONSE" => msg = NoExchange.request

LEMMA StepCases ==
    ASSUME Next
    PROVE  (\E msg \in Requests : Sent(msg) /\ Handle(msg)) \/ Tick \/ MoveClock
<1>1. \A type \in RequestTypes, name \in ServiceNames, port \in MessagePorts \cup {0} :
          Request(type, name, port) \in Requests
  BY DEF Request, Requests
<1>2. \A name \in ServiceNames, port \in MessagePorts :
          /\ Sent(Request("KEEP_ALIVE", name, port))
          /\ Sent(Request("CLOSE_PORT", name, port))
  BY DEF Sent, Request
<1>3. /\ \A name \in ServiceNames : /\ Sent(Request("REQUEST_PORT", name, 0))
                                    /\ Sent(Request("LOOKUP_PORT", name, 0))
      /\ Sent(Request("STOP", NoName, 0))
      /\ Sent(Request("RESPONSE", NoName, 0))
  BY DEF Sent, Request, NoExchange
<1>4. NoName \in ServiceNames
  BY DEF ServiceNames
<1>5. CASE HandleRequestPort
  <2>1. PICK name \in ServiceNames : Handle(Request("REQUEST_PORT", name, 0))
    BY <1>5 DEF HandleRequestPort
  <2> QED
    BY <1>1, <1>3, <2>1 DEF RequestTypes
<1>6. CASE HandleKeepAlive
  BY <1>1, <1>2, <1>6 DEF HandleKeepAlive, RequestTypes
<1>7. CASE HandleClosePort
  BY <1>1, <1>2, <1>7 DEF HandleClosePort, RequestTypes
<1>8. CASE HandleLookupPort
  <2>1. PICK name \in ServiceNames : Handle(Request("LOOKUP_PORT", name, 0))
    BY <1>8 DEF HandleLookupPort
  <2> QED
    BY <1>1, <1>3, <2>1 DEF RequestTypes
<1>9. CASE HandleStop \/ HandleOther
  BY <1>1, <1>3, <1>4, <1>9 DEF HandleStop, HandleOther, RequestTypes
<1> QED
  BY <1>5, <1>6, <1>7, <1>8, <1>9 DEF Next

LEMMA ShiftIdleType ==
    ASSUME ports \in Tables, NEW seconds \in Int
    PROVE  ShiftIdle(seconds) \in Tables
<1>1. \A p \in Ports : ~ports[p].available =>
         [ports[p] EXCEPT !.idle = AtMost(IdleCap, @ + seconds)] \in Reservation
  BY ClockAssumption DEF AtMost, Reservation
<1> QED
  BY <1>1 DEF ShiftIdle

LEMMA NoExchangeType == NoExchange \in Exchanges
BY DEF NoExchange, NoResponse, Exchanges, Request, Requests, RequestTypes, Responses,
       ServiceNames

(***************************************************************************)
(* Type correctness, for every range of ports, timeout and set of names.   *)
(***************************************************************************)
LEMMA TypeInit == Init => TypeOK
<1> SUFFICES ASSUME Init PROVE TypeOK
  OBVIOUS
<1>1. Fresh \in Reservation
  BY TimeoutAssumption DEF Fresh, Reservation, NeverAlive, ServiceNames
<1>2. ports \in Tables
  BY <1>1 DEF Init
<1>3. quiet \in [Ports -> 0 .. QuietCap]
  BY TimeoutAssumption DEF Init, QuietCap
<1>4. stopped \in BOOLEAN /\ exchange \in Exchanges
  BY NoExchangeType DEF Init
<1>5. clockSteps \in 0 .. MaxClockSteps
  BY ClockAssumption DEF Init
<1> QED
  BY <1>2, <1>3, <1>4, <1>5 DEF TypeOK

LEMMA TypeNext == TypeOK /\ [Next]_vars => TypeOK'
<1> SUFFICES ASSUME TypeOK, [Next]_vars PROVE TypeOK'
  OBVIOUS
<1>1. ports \in Tables
  BY DEF TypeOK
<1>2. ASSUME NEW msg \in Requests, Handle(msg) PROVE TypeOK'
  <2> DEFINE o == HandleMessage(ports, msg)
  <2>1. /\ Changes(CheckForExpiredPorts(ports), msg, o)
        /\ Answers(msg, o)
    BY <1>1, HandleMessageEffect, RequestsTyped
  <2>2. ports' \in Tables
    BY <1>1, <1>2, <2>1, CheckForExpiredPortsEffect, ChangesKeepType, RequestsTyped DEF Handle
  <2>3. exchange' \in Exchanges
    BY <1>2, <2>1 DEF Handle, Answers, Exchanges
  <2>4. quiet' \in [Ports -> 0 .. QuietCap]
    BY <1>2, TimeoutAssumption DEF Handle, TypeOK, QuietCap
  <2> QED
    BY <1>2, <2>2, <2>3, <2>4 DEF Handle, TypeOK
<1>3. CASE Tick
  BY <1>1, <1>3, ShiftIdleType, NoExchangeType, TimeoutAssumption
     DEF Tick, TypeOK, AtMost, QuietCap
<1>4. CASE MoveClock
  BY <1>1, <1>4, ShiftIdleType, NoExchangeType, ClockAssumption DEF MoveClock, TypeOK
<1>5. CASE UNCHANGED vars
  BY <1>5 DEF vars, TypeOK
<1> QED
  BY <1>2, <1>3, <1>4, <1>5, StepCases

THEOREM TypeCorrect == Spec => []TypeOK
BY TypeInit, TypeNext, PTL DEF Spec

LEMMA ShiftIdleKeepsOrder ==
    ASSUME ports \in Tables, NEW seconds \in Int, Unique(ports), Blank(ports)
    PROVE  Unique(ShiftIdle(seconds)) /\ Blank(ShiftIdle(seconds))
<1>1. \A p \in Ports :
         /\ ShiftIdle(seconds)[p].available = ports[p].available
         /\ ShiftIdle(seconds)[p].serviceName = ports[p].serviceName
  BY DEF ShiftIdle, Reservation
<1> QED
  BY <1>1 DEF Unique, Blank

Order == TypeOK /\ Unique(ports) /\ Blank(ports)

LEMMA OrderInvariant == Spec => []Order
<1>1. Init => Order
  <2>1. Init => Unique(ports) /\ Blank(ports)
    BY DEF Init, Unique, Blank, Fresh
  <2> QED
    BY <2>1, TypeInit DEF Order
<1>2. Order /\ [Next]_vars => Order'
  <2> SUFFICES ASSUME Order, [Next]_vars PROVE Unique(ports)' /\ Blank(ports)'
    BY TypeNext DEF Order
  <2>1. ports \in Tables /\ Unique(ports) /\ Blank(ports)
    BY DEF Order, TypeOK
  <2>2. ASSUME NEW msg \in Requests, Handle(msg)
        PROVE  Unique(ports)' /\ Blank(ports)'
    <3> DEFINE live == CheckForExpiredPorts(ports)
               o == HandleMessage(ports, msg)
    <3>1. live \in Tables /\ Changes(live, msg, o)
      BY <2>1, CheckForExpiredPortsEffect, HandleMessageEffect, RequestsTyped
    <3>2. Unique(live) /\ Blank(live)
      BY <2>1, ExpiryKeepsOrder
    <3>3. Unique(o.ports) /\ Blank(o.ports)
      BY <3>1, <3>2, ChangesKeepOrder, RequestsTyped
    <3>4. ports' = o.ports
      BY <2>2 DEF Handle
    <3> QED
      BY <3>3, <3>4 DEF Unique, Blank
  <2>3. ASSUME NEW seconds \in Int, ports' = ShiftIdle(seconds)
        PROVE  Unique(ports)' /\ Blank(ports)'
    BY <2>1, <2>3, ShiftIdleKeepsOrder DEF Unique, Blank
  <2>4. CASE Tick
    BY <2>3, <2>4 DEF Tick
  <2>5. CASE MoveClock
    BY <2>3, <2>5, ClockAssumption DEF MoveClock
  <2>6. CASE UNCHANGED vars
    BY <2>1, <2>6 DEF vars, Unique, Blank
  <2> QED
    BY <2>2, <2>4, <2>5, <2>6, StepCases
<1> QED
  BY <1>1, <1>2, PTL DEF Spec

(***************************************************************************)
(* No service ever holds two ports.                                        *)
(***************************************************************************)
THEOREM UniqueServiceHolds == Spec => []UniqueService
<1>1. Order => UniqueService
  BY DEF Order, Unique, UniqueService, Reserved
<1> QED
  BY <1>1, OrderInvariant, PTL

(***************************************************************************)
(* A free port never carries a name, so LOOKUP_PORT finds reservations.    *)
(***************************************************************************)
THEOREM FreeIsBlankHolds == Spec => []FreeIsBlank
<1>1. Order => FreeIsBlank
  BY DEF Order, Blank, FreeIsBlank, Reserved
<1> QED
  BY <1>1, OrderInvariant, PTL

(***************************************************************************)
(* Time.  idle is the server's view of how long a reservation has been     *)
(* quiet, by its own clock; quiet is the truth.  A message sets both to    *)
(* zero where it confirms a port; elsewhere it keeps them or frees the     *)
(* entry, and an entry it keeps was not expired.                           *)
(***************************************************************************)
LEMMA HandleEntries ==
    ASSUME TypeOK, NEW msg \in Requests, Handle(msg),
           NEW p \in Ports, ~ports'[p].available
    PROVE  \/ ports'[p] = ports[p] /\ ~Expired(ports[p]) /\ quiet'[p] = quiet[p]
           \/ ports'[p].idle = 0 /\ quiet'[p] = 0
<1> DEFINE live == CheckForExpiredPorts(ports)
           o == HandleMessage(ports, msg)
           xchg == [request |-> msg, response |-> o.response]
<1>1. /\ live \in Tables
      /\ live[p] = IF ~ports[p].available /\ Expired(ports[p]) THEN Fresh ELSE ports[p]
  BY CheckForExpiredPortsEffect DEF TypeOK
<1>2. Changes(live, msg, o) /\ ConfirmsEntry(live, msg, o)
  BY HandleMessageEffect, RequestsTyped DEF TypeOK
<1>3. /\ ports' = o.ports
      /\ quiet'[p] = IF Confirms(xchg, p) THEN 0 ELSE quiet[p]
  BY DEF Handle
<1>4. CASE Confirms(xchg, p)
  <2>1. ports'[p] = Taken(msg.serviceName)
    BY <1>2, <1>3, <1>4 DEF ConfirmsEntry, Confirms
  <2> QED
    BY <1>3, <1>4, <2>1 DEF Taken
<1>5. CASE ~Confirms(xchg, p)
  <2>1. ports'[p] = live[p] \/ ports'[p] = Fresh
    <3>1. ASSUME NEW q \in Ports, NEW e, o.ports = [live EXCEPT ![q] = e],
                 msg.type \in {"REQUEST_PORT", "KEEP_ALIVE"},
                 o.response = Response(msg.serviceName, q, "SUCCESS")
          PROVE  ports'[p] = live[p]
      <4>1. q # p
        BY <1>5, <3>1 DEF Confirms, Response
      <4> QED
        BY <1>1, <1>3, <3>1, <4>1
    <3>2. ASSUME NEW q \in Ports, o.ports = [live EXCEPT ![q] = Fresh]
          PROVE  ports'[p] = live[p] \/ ports'[p] = Fresh
      BY <1>1, <1>3, <3>2
    <3> QED
      BY <1>2, <1>3, <3>1, <3>2 DEF Changes, FreePorts, PortsOf
  <2>2. Fresh.available
    BY DEF Fresh
  <2> QED
    BY <1>1, <1>3, <1>5, <2>1, <2>2
<1> QED
  BY <1>4, <1>5

IdleAfterShift(p, seconds) == AtMost(IdleCap, ports[p].idle + seconds)

LEMMA ShiftIdleEntries ==
    ASSUME TypeOK, NEW seconds \in Int, NEW p \in Ports
    PROVE  /\ ShiftIdle(seconds)[p].available = ports[p].available
           /\ ShiftIdle(seconds)[p].serviceName = ports[p].serviceName
           /\ ~ports[p].available =>
                 ShiftIdle(seconds)[p].idle = IdleAfterShift(p, seconds)
BY DEF TypeOK, ShiftIdle, Reservation, IdleAfterShift

(***************************************************************************)
(* A clock that is never set forward makes no reservation older than it    *)
(* is, as long as it matters.                                              *)
(***************************************************************************)
NotOlder ==
    /\ TypeOK
    /\ \A p \in Ports : Live(p) => ports[p].idle <= quiet[p]

LEMMA NotOlderInvariant ==
    ASSUME \A seconds \in ClockSteps : seconds <= 0
    PROVE  Spec => []NotOlder
<1>1. Init => NotOlder
  BY TypeInit DEF Init, Fresh, NotOlder, Live, Reserved
<1>2. NotOlder /\ [Next]_vars => NotOlder'
  <2> SUFFICES ASSUME NotOlder, [Next]_vars, NEW p \in Ports, Live(p)'
               PROVE  ports'[p].idle <= quiet'[p]
    BY TypeNext DEF NotOlder
  <2>1. TypeOK /\ TypeOK' /\ ~ports'[p].available /\ quiet'[p] <= KeepAliveTimeout
    BY TypeNext DEF NotOlder, Live, Reserved
  <2>2. ASSUME NEW msg \in Requests, Handle(msg) PROVE ports'[p].idle <= quiet'[p]
    <3>1. CASE ports'[p] = ports[p] /\ quiet'[p] = quiet[p]
      BY <2>1, <3>1 DEF NotOlder, Live, Reserved
    <3> QED
      BY <2>1, <2>2, <3>1, HandleEntries
  <2>3. CASE Tick
    <3>1. /\ ~ports[p].available
          /\ ports'[p].idle = AtMost(IdleCap, ports[p].idle + 1)
      BY <2>1, <2>3, ShiftIdleEntries DEF Tick, IdleAfterShift
    <3>2. quiet'[p] = AtMost(QuietCap, quiet[p] + 1) /\ quiet[p] \in 0 .. QuietCap
      BY <2>1, <2>3 DEF Tick, TypeOK
    <3>3. quiet[p] <= KeepAliveTimeout /\ quiet'[p] = quiet[p] + 1
      BY <2>1, <3>2, TimeoutAssumption DEF AtMost, QuietCap
    <3>4. ports[p].idle \in Int /\ ports[p].idle <= quiet[p]
      BY <2>1, <3>1, <3>3 DEF NotOlder, Live, Reserved, TypeOK, Reservation
    <3> QED
      BY <3>1, <3>2, <3>3, <3>4, ClockAssumption DEF AtMost
  <2>4. CASE MoveClock
    <3>1. PICK seconds \in ClockSteps : ports' = ShiftIdle(seconds)
      BY <2>4 DEF MoveClock
    <3>2. seconds \in Int /\ seconds <= 0
      BY ClockAssumption
    <3>3. /\ ~ports[p].available
          /\ ports'[p].idle = AtMost(IdleCap, ports[p].idle + seconds)
      BY <2>1, <3>1, <3>2, ShiftIdleEntries DEF IdleAfterShift
    <3>4. quiet'[p] = quiet[p] /\ quiet[p] \in Int
      BY <2>1, <2>4, TimeoutAssumption DEF MoveClock, TypeOK, QuietCap
    <3>5. ports[p].idle \in Int /\ ports[p].idle <= quiet[p]
      BY <2>1, <3>3, <3>4 DEF NotOlder, Live, Reserved, TypeOK, Reservation
    <3> QED
      BY <3>2, <3>3, <3>4, <3>5, ClockAssumption DEF AtMost
  <2>5. CASE UNCHANGED vars
    BY <2>1, <2>5 DEF vars, NotOlder, Live, Reserved
  <2> QED
    BY <2>2, <2>3, <2>4, <2>5, StepCases
<1> QED
  BY <1>1, <1>2, PTL DEF Spec

(***************************************************************************)
(* Unless the clock is set forward, a client that renews within the        *)
(* timeout keeps its port until somebody closes it.                        *)
(***************************************************************************)
THEOREM LeaseHonouredHolds ==
    ASSUME \A seconds \in ClockSteps : seconds <= 0
    PROVE  Spec => LeaseHonoured
<1>1. NotOlder /\ [Next]_vars => [LeaseStep]_vars
  <2> SUFFICES ASSUME NotOlder, Next, NEW p \in Ports, Live(p),
                      \/ ports'[p].available
                      \/ ports'[p].serviceName # ports[p].serviceName
               PROVE  exchange'.request.type = "CLOSE_PORT" /\ exchange'.request.port = p
    BY DEF LeaseStep
  <2>1. /\ TypeOK /\ ports \in Tables
        /\ ~ports[p].available /\ ports[p].idle \in Int
        /\ quiet[p] \in Int /\ ports[p].idle <= quiet[p]
        /\ quiet[p] <= KeepAliveTimeout
    BY TimeoutAssumption DEF NotOlder, TypeOK, Live, Reserved, Reservation, QuietCap
  <2>2. ~Expired(ports[p])
    BY <2>1, TimeoutAssumption DEF Expired
  <2>3. ASSUME NEW msg \in Requests, Handle(msg)
        PROVE  msg.type = "CLOSE_PORT" /\ msg.port = p
    <3> DEFINE live == CheckForExpiredPorts(ports)
               o == HandleMessage(ports, msg)
    <3>1. live \in Tables /\ live[p] = ports[p]
      BY <2>1, <2>2, CheckForExpiredPortsEffect
    <3>2. Changes(live, msg, o) /\ ports' = o.ports
      BY <2>1, <2>3, HandleMessageEffect, RequestsTyped DEF Handle
    <3>3. ~live[p].available
      BY <2>1, <3>1
    <3>4. ASSUME NEW q \in Ports, q # p, NEW e, ports' = [live EXCEPT ![q] = e]
          PROVE  FALSE
      BY <2>1, <3>1, <3>4
    <3>5. ASSUME NEW q \in PortsOf(live, msg.serviceName),
                 ports' = [live EXCEPT ![q] = Taken(msg.serviceName)]
          PROVE  FALSE
      BY <2>1, <3>1, <3>4, <3>5 DEF PortsOf, Taken
    <3> QED
      BY <2>1, <3>1, <3>2, <3>3, <3>4, <3>5 DEF Changes, FreePorts
  <2>4. CASE Tick
    BY <2>1, <2>4, ShiftIdleEntries DEF Tick
  <2>5. CASE MoveClock
    BY <2>1, <2>5, ShiftIdleEntries, ClockAssumption DEF MoveClock
  <2> QED
    BY <2>3, <2>4, <2>5, StepCases DEF Handle
<1> QED
  BY <1>1, NotOlderInvariant, PTL DEF Spec, LeaseHonoured

(***************************************************************************)
(* A clock that was never moved makes no reservation younger than it is.   *)
(***************************************************************************)
NotYounger ==
    /\ TypeOK
    /\ clockSteps = 0 => \A p \in Ports : Reserved(p) => ports[p].idle >= quiet[p]
    /\ NoStaleAnswer

(***************************************************************************)
(* Until the clock is moved, every message is answered from a table        *)
(* without reservations past the timeout (CheckForExpiredPorts first).     *)
(***************************************************************************)
THEOREM NoStaleAnswerHolds == Spec => []NoStaleAnswer
<1>1. Init => NotYounger
  BY TypeInit DEF Init, Fresh, NotYounger, NoStaleAnswer, Idle, Reserved
<1>2. NotYounger /\ [Next]_vars => NotYounger'
  <2> SUFFICES ASSUME NotYounger, [Next]_vars, NEW p \in Ports,
                      ~ports'[p].available, clockSteps' = 0
               PROVE  /\ ports'[p].idle >= quiet'[p]
                      /\ ~Idle' => quiet'[p] <= KeepAliveTimeout
    BY TypeNext DEF NotYounger, NoStaleAnswer, Live, Reserved
  <2>1. TypeOK /\ TypeOK'
    BY TypeNext DEF NotYounger
  <2>2. /\ ports[p].idle \in Int
        /\ quiet[p] \in 0 .. QuietCap
        /\ QuietCap = KeepAliveTimeout + 1
        /\ clockSteps \in Nat
        /\ clockSteps = 0 /\ ~ports[p].available => ports[p].idle >= quiet[p]
    BY <2>1, ClockAssumption DEF NotYounger, TypeOK, Reservation, Reserved, QuietCap
  <2>3. ASSUME NEW msg \in Requests, Handle(msg)
        PROVE  ports'[p].idle >= quiet'[p] /\ quiet'[p] <= KeepAliveTimeout
    <3>1. clockSteps = 0
      BY <2>3 DEF Handle
    <3>2. CASE ports'[p] = ports[p] /\ ~Expired(ports[p]) /\ quiet'[p] = quiet[p]
      BY <2>2, <3>1, <3>2, TimeoutAssumption DEF Expired
    <3>3. CASE ports'[p].idle = 0 /\ quiet'[p] = 0
      BY <3>3, TimeoutAssumption
    <3> QED
      BY <2>1, <2>3, <3>2, <3>3, HandleEntries
  <2>4. CASE Tick
    <3>1. /\ ~ports[p].available
          /\ ports'[p].idle = AtMost(IdleCap, ports[p].idle + 1)
      BY <2>1, <2>4, ShiftIdleEntries DEF Tick, IdleAfterShift
    <3>2. quiet'[p] = AtMost(QuietCap, quiet[p] + 1) /\ Idle' /\ clockSteps = 0
      BY <2>4 DEF Tick, Idle
    <3> QED
      BY <2>2, <3>1, <3>2, ClockAssumption, TimeoutAssumption DEF AtMost
  <2>5. CASE MoveClock
    BY <2>2, <2>5 DEF MoveClock
  <2>6. CASE UNCHANGED vars
    BY <2>2, <2>6 DEF vars, NotYounger, NoStaleAnswer, Idle, Live, Reserved
  <2> QED
    BY <2>3, <2>4, <2>5, <2>6, StepCases
<1>3. NotYounger => NoStaleAnswer
  BY DEF NotYounger
<1> QED
  BY <1>1, <1>2, <1>3, PTL DEF Spec

(***************************************************************************)
(* Refinement.  The holders of a table, and what the operations on entries *)
(* do to them.                                                             *)
(***************************************************************************)
Holders(table) ==
    [p \in Ports |-> IF table[p].available THEN Nobody ELSE table[p].serviceName]

LEMMA HoldersEffect ==
    ASSUME NEW table \in Tables, NEW name \in ServiceNames, NEW p \in Ports
    PROVE  /\ Holders([table EXCEPT ![p] = Taken(name)]) = [Holders(table) EXCEPT ![p] = name]
           /\ Holders([table EXCEPT ![p] = Fresh]) = [Holders(table) EXCEPT ![p] = Nobody]
           /\ Directory!HeldBy(Holders(table), name) = PortsOf(table, name)
           /\ Directory!HeldBy(Holders(table), Nobody) = FreePorts(table)
<1>1. Holders([table EXCEPT ![p] = Taken(name)]) = [Holders(table) EXCEPT ![p] = name]
  BY DEF Holders, Taken
<1>2. Holders([table EXCEPT ![p] = Fresh]) = [Holders(table) EXCEPT ![p] = Nobody]
  BY DEF Holders, Fresh
<1>3. Directory!HeldBy(Holders(table), name) = PortsOf(table, name)
  BY NobodyAssumption DEF Holders, Directory!HeldBy, PortsOf
<1>4. Directory!HeldBy(Holders(table), Nobody) = FreePorts(table)
  <2>1. \A q \in Ports : table[q].serviceName # Nobody
    BY NobodyAssumption DEF Reservation
  <2> QED
    BY <2>1 DEF Holders, Directory!HeldBy, FreePorts
<1> QED
  BY <1>1, <1>2, <1>3, <1>4

LEMMA ExpiryDropsHolders ==
    ASSUME ports \in Tables
    PROVE  \E D \in SUBSET Ports :
               Holders(CheckForExpiredPorts(ports)) = Directory!Without(D)
<1> DEFINE D == {p \in Ports : ~ports[p].available /\ Expired(ports[p])}
<1>1. Fresh.available
  BY DEF Fresh
<1>2. \A p \in Ports : Holders(CheckForExpiredPorts(ports))[p] = Directory!Without(D)[p]
  BY <1>1, CheckForExpiredPortsEffect DEF Holders, Directory!Without
<1>3. Holders(CheckForExpiredPorts(ports)) = Directory!Without(D)
  BY <1>2 DEF Holders, Directory!Without
<1> QED
  BY <1>3

LEMMA GrantImplemented ==
    ASSUME NEW live \in Tables, NEW msg \in Requests,
           msg.type = "REQUEST_PORT", Unique(live),
           NEW o, o = RequestPort(live, msg.serviceName),
           ports' = o.ports, stopped' = FALSE,
           exchange' = [request |-> msg, response |-> o.response]
    PROVE  Directory!Reply(Holders(live))
<1> DEFINE name == msg.serviceName
           held == Holders(live)
<1>1. name \in ServiceNames /\ name \in Directory!Callers
  BY RequestsTyped DEF WellFormed, ServiceNames, Directory!Callers
<1>2. \A p \in Ports :
         /\ Directory!HeldBy(held, name) = PortsOf(live, name)
         /\ Directory!HeldBy(held, Nobody) = FreePorts(live)
  BY <1>1, HoldersEffect
<1>3. PortsOf(live, name) \subseteq Ports /\ FreePorts(live) \subseteq Ports
  BY DEF PortsOf, FreePorts
<1>4. \E p \in Ports : TRUE
  BY PortRangeAssumption DEF Ports
<1>5. CASE InUse(live, name, o)
  <2>1. PICK p \in PortsOf(live, name) :
            o = Outcome(live, Response(name, p, "SERVICE_IN_USE"))
    BY <1>5 DEF InUse
  <2>2. PortsOf(live, name) = {p}
    BY <2>1 DEF PortsOf, Unique
  <2>3. Directory!RefuseHolder(held, name)
    BY <1>2, <1>3, <2>1, <2>2
       DEF Directory!RefuseHolder, Directory!Answer, Holders, Outcome, Response
  <2> QED
    BY <1>1, <2>3 DEF Directory!Reply
<1>6. CASE AllBusy(live, name, o)
  <2>1. Directory!RefuseFull(held, name)
    BY <1>2, <1>4, <1>6
       DEF AllBusy, Directory!RefuseFull, Directory!Answer, Holders, Outcome, Response
  <2> QED
    BY <1>1, <2>1 DEF Directory!Reply
<1>7. CASE Grants(live, name, o)
  <2>1. PICK p \in FreePorts(live) :
            /\ PortsOf(live, name) = {}
            /\ \A q \in FreePorts(live) : p <= q
            /\ o = Outcome([live EXCEPT ![p] = Taken(name)],
                           Response(name, p, "SUCCESS"))
    BY <1>7 DEF Grants
  <2>2. p \in Ports /\ ports' = [live EXCEPT ![p] = Taken(name)]
    BY <1>3, <2>1 DEF Outcome
  <2>3. Holders(ports') = [held EXCEPT ![p] = name]
    <3>1. Holders([live EXCEPT ![p] = Taken(name)]) = [held EXCEPT ![p] = name]
      BY <2>2 DEF Holders, Taken
    <3> QED
      BY <2>2, <3>1, Zenon
  <2>4. exchange' = [request |-> msg, response |-> Response(name, p, "SUCCESS")]
    BY <2>1 DEF Outcome
  <2>5. Directory!HeldBy(held, name) = {}
        /\ Directory!Least(p, Directory!HeldBy(held, Nobody))
    BY <1>2, <2>1, <2>2 DEF Directory!Least
  <2>6. Directory!Grant(held, name)
    <3>1. [q \in Ports |-> IF ports'[q].available THEN Nobody ELSE ports'[q].serviceName]
            = [held EXCEPT ![p] = name]
      BY <2>3 DEF Holders
    <3>2. [asked |-> exchange'.request.type, service |-> exchange'.request.serviceName,
           port |-> exchange'.response.port, status |-> exchange'.response.status]
            = Directory!Answer("REQUEST_PORT", name, p, "SUCCESS")
      BY <2>4 DEF Response, Directory!Answer
    <3> HIDE DEF held, name
    <3> QED
      BY <2>2, <2>5, <3>1, <3>2, Zenon DEF Directory!Grant
  <2> QED
    BY <1>1, <2>6 DEF Directory!Reply
<1> QED
  BY <1>1, <1>5, <1>6, <1>7, RequestPortEffect

LEMMA RenewImplemented ==
    ASSUME NEW live \in Tables, NEW msg \in Requests,
           msg.type = "KEEP_ALIVE", msg.port \in MessagePorts,
           NEW o, o = KeepPortAlive(live, msg.serviceName, msg.port),
           ports' = o.ports, stopped' = FALSE,
           exchange' = [request |-> msg, response |-> o.response]
    PROVE  Directory!Reply(Holders(live))
<1> DEFINE name == msg.serviceName
           port == msg.port
           held == Holders(live)
<1>1. name \in ServiceNames /\ name \in Directory!Callers
  BY RequestsTyped DEF WellFormed, ServiceNames, Directory!Callers
<1>2. Directory!HeldBy(held, name) = PortsOf(live, name)
  BY <1>1, PortRangeAssumption, NobodyAssumption DEF Holders, Directory!HeldBy, PortsOf
<1>3. Holders(ports') = held
  <2>1. CASE port \in PortsOf(live, name)
    <3>1. /\ ports' = [live EXCEPT ![port] = KeepAlive(@)]
          /\ port \in Ports /\ ~live[port].available
      BY <2>1 DEF KeepPortAlive, Outcome, PortsOf
    <3>2. /\ ~KeepAlive(live[port]).available
          /\ KeepAlive(live[port]).serviceName = live[port].serviceName
      BY <3>1 DEF KeepAlive, Reservation
    <3> QED
      BY <3>1, <3>2 DEF Holders
  <2>2. CASE port \notin PortsOf(live, name)
    BY <2>2 DEF KeepPortAlive, Outcome
  <2> QED
    BY <2>1, <2>2
<1>4. exchange'.response =
          Response(name, port, Directory!Verdict(port \in PortsOf(live, name)))
  BY DEF KeepPortAlive, Outcome, Directory!Verdict
<1>5. Directory!Renew(held, name, port)
  <2>1. [q \in Ports |-> IF ports'[q].available THEN Nobody ELSE ports'[q].serviceName] = held
    BY <1>3 DEF Holders
  <2> HIDE DEF held
  <2> QED
    BY <1>2, <1>4, <2>1 DEF Directory!Renew, Directory!Answer, Response
<1> QED
  BY <1>1, <1>5 DEF Directory!Reply

LEMMA ReleaseImplemented ==
    ASSUME NEW live \in Tables, NEW msg \in Requests,
           msg.type = "CLOSE_PORT", msg.port \in MessagePorts,
           NEW o, o = ClosePort(live, msg.serviceName, msg.port),
           ports' = o.ports, stopped' = FALSE,
           exchange' = [request |-> msg, response |-> o.response]
    PROVE  Directory!Reply(Holders(live))
<1> DEFINE name == msg.serviceName
           port == msg.port
           held == Holders(live)
           names == port \in Ports \ (Directory!HeldBy(held, Nobody) \cup {0})
<1>1. name \in Directory!Callers
  BY RequestsTyped DEF WellFormed, ServiceNames, Directory!Callers
<1>2. \A q \in Ports : q \in Directory!HeldBy(held, Nobody) <=> q \in FreePorts(live)
  <2>1. \A q \in Ports : live[q].serviceName # Nobody
    BY NobodyAssumption DEF Reservation
  <2> QED
    BY <2>1 DEF Holders, Directory!HeldBy, FreePorts
<1>3. CASE names
  <2>1. port \in Ports /\ port # 0 /\ port \notin FreePorts(live)
    BY <1>2, <1>3
  <2>2. /\ ports' = [live EXCEPT ![port] = Fresh]
        /\ exchange'.response = Response(name, port, "SUCCESS")
    BY <2>1 DEF ClosePort, Close, Outcome
  <2>3. Holders(ports') = [held EXCEPT ![port] = Nobody]
    <3>1. Holders([live EXCEPT ![port] = Fresh]) = [held EXCEPT ![port] = Nobody]
      BY <2>1 DEF Holders, Fresh
    <3> QED
      BY <2>2, <3>1, Zenon
  <2>4. [q \in Ports |-> IF ports'[q].available THEN Nobody ELSE ports'[q].serviceName]
          = [held EXCEPT ![port] = Nobody]
    BY <2>3 DEF Holders
  <2>5. Directory!Release(held, name, port)
    <3> HIDE DEF held
    <3> QED
      BY <1>3, <2>2, <2>4
         DEF Directory!Release, Directory!Answer, Directory!Verdict, Response
  <2> QED
    BY <1>1, <2>5 DEF Directory!Reply
<1>4. CASE ~names
  <2>1. ~(port \in Ports /\ port # 0 /\ port \notin FreePorts(live))
    BY <1>2, <1>4
  <2>2. /\ ports' = live
        /\ exchange'.response = Response(name, port, "SERVICE_NOT_FOUND")
    BY <2>1 DEF ClosePort, Outcome
  <2>3. [q \in Ports |-> IF ports'[q].available THEN Nobody ELSE ports'[q].serviceName] = held
    BY <2>2 DEF Holders
  <2>4. Directory!Release(held, name, port)
    <3> HIDE DEF held
    <3> QED
      BY <1>4, <2>2, <2>3
         DEF Directory!Release, Directory!Answer, Directory!Verdict, Response
  <2> QED
    BY <1>1, <2>4 DEF Directory!Reply
<1> QED
  BY <1>3, <1>4

LEMMA FindImplemented ==
    ASSUME NEW live \in Tables, NEW msg \in Requests,
           msg.type = "LOOKUP_PORT", Unique(live), Blank(live),
           NEW o, o = LookupPort(live, msg.serviceName),
           ports' = o.ports, stopped' = FALSE,
           exchange' = [request |-> msg, response |-> o.response]
    PROVE  Directory!Reply(Holders(live))
<1> DEFINE name == msg.serviceName
           held == Holders(live)
           matches == {p \in Ports : live[p].serviceName = name}
<1>1. name \in ServiceNames /\ name \in Directory!Callers
  BY RequestsTyped DEF WellFormed, ServiceNames, Directory!Callers
<1>2. /\ ports' = live
      /\ exchange'.response = IF matches = {}
                              THEN Response(name, 0, "SERVICE_NOT_FOUND")
                              ELSE Response(name, Lowest(matches), "SUCCESS")
  BY DEF LookupPort, Outcome
<1>3. [q \in Ports |-> IF ports'[q].available THEN Nobody ELSE ports'[q].serviceName] = held
  BY <1>2 DEF Holders
<1>4. matches # {} => Lowest(matches) \in matches
  BY LowestIsLeast, PortsAreNaturals
<1>5. CASE name = NoName
  <2>1. exchange'.response.port \in Ports \cup {0}
        /\ exchange'.response.status \in {"SUCCESS", "SERVICE_NOT_FOUND"}
    BY <1>2, <1>4 DEF Response
  <2>2. Directory!FindNameless(held)
    <3> HIDE DEF held
    <3> QED
      BY <1>3, <1>5, <2>1 DEF Directory!FindNameless, Directory!Answer
  <2> QED
    BY <2>2 DEF Directory!Reply
<1>6. CASE name # NoName
  <2>1. Directory!HeldBy(held, name) = matches
    BY <1>1, <1>6, NobodyAssumption DEF Holders, Directory!HeldBy, Blank
  <2>2. \A p, q \in matches : p = q
    BY <1>6 DEF Unique, Blank
  <2>3. Directory!Find(held, name)
    <3>1. CASE matches = {}
      <4> HIDE DEF held, matches
      <4> QED
        BY <1>2, <1>3, <1>6, <2>1, <3>1 DEF Directory!Find, Directory!Answer, Response
    <3>2. CASE matches # {}
      <4>1. PICK p \in Ports : matches = {p} /\ p = Lowest(matches)
        BY <1>4, <2>2, <3>2
      <4>2. [asked |-> exchange'.request.type, service |-> exchange'.request.serviceName,
             port |-> exchange'.response.port, status |-> exchange'.response.status]
              = Directory!Answer("LOOKUP_PORT", name, p, "SUCCESS")
        BY <1>2, <3>2, <4>1 DEF Directory!Answer, Response
      <4>3. Directory!HeldBy(held, name) = {p} /\ Directory!HeldBy(held, name) # {}
        BY <2>1, <4>1
      <4> HIDE DEF held, matches, name
      <4> QED
        BY <1>3, <1>6, <4>1, <4>2, <4>3, Zenon DEF Directory!Find
    <3> QED
      BY <3>1, <3>2
  <2> QED
    BY <1>1, <2>3 DEF Directory!Reply
<1> QED
  BY <1>5, <1>6

LEMMA HandleImplemented ==
    ASSUME Order, NEW msg \in Requests, Sent(msg), Handle(msg)
    PROVE  Directory!Address
<1> PICK live : live = CheckForExpiredPorts(ports)
  OBVIOUS
<1> PICK o : o = HandleMessage(ports, msg)
  OBVIOUS
<1>1. /\ ports \in Tables /\ live \in Tables
      /\ CheckForExpiredPorts(live) = live
      /\ Unique(live) /\ Blank(live)
  BY CheckForExpiredPortsEffect, ExpiryKeepsOrder DEF Order, TypeOK
<1>2. /\ ~stopped
      /\ ports' = o.ports
      /\ stopped' = (msg.type = "STOP")
      /\ exchange' = [request |-> msg, response |-> o.response]
  BY DEF Handle
<1>3. PICK D \in SUBSET Ports : Holders(live) = Directory!Without(D)
  BY <1>1, ExpiryDropsHolders
<1>4. SUFFICES \/ Directory!Reply(Holders(live))
               \/ Directory!Shut(Holders(live))
               \/ Directory!Ignore(Holders(live))
  BY <1>2, <1>3 DEF Directory!Address
<1>5. CASE msg.type = "REQUEST_PORT"
  <2>1. o = RequestPort(live, msg.serviceName) /\ stopped' = FALSE
    BY <1>1, <1>2, <1>5 DEF HandleMessage
  <2> QED
    BY <1>1, <1>2, <1>5, <2>1, GrantImplemented
<1>6. CASE msg.type = "KEEP_ALIVE"
  <2>1. o = KeepPortAlive(live, msg.serviceName, msg.port) /\ stopped' = FALSE
    BY <1>2, <1>6 DEF HandleMessage
  <2> QED
    BY <1>1, <1>2, <1>6, <2>1, RenewImplemented DEF Sent
<1>7. CASE msg.type = "CLOSE_PORT"
  <2>1. o = ClosePort(live, msg.serviceName, msg.port) /\ stopped' = FALSE
    BY <1>2, <1>7 DEF HandleMessage
  <2> QED
    BY <1>1, <1>2, <1>7, <2>1, ReleaseImplemented DEF Sent
<1>8. CASE msg.type = "LOOKUP_PORT"
  <2>1. o = LookupPort(live, msg.serviceName) /\ stopped' = FALSE
    BY <1>2, <1>8 DEF HandleMessage
  <2> QED
    BY <1>1, <1>2, <1>8, <2>1, FindImplemented
<1>9. CASE msg.type = "STOP"
  <2>1. o = Outcome(live, Response(NoName, 0, "SUCCESS")) /\ msg.serviceName = NoName
    BY <1>9 DEF HandleMessage, Sent
  <2>2. ports' = live /\ exchange'.response = Response(NoName, 0, "SUCCESS")
    BY <1>2, <2>1 DEF Outcome
  <2>3. Directory!Shut(Holders(live))
    <3>1. stopped' = TRUE
      BY <1>2, <1>9, Zenon
    <3> QED
      BY <1>2, <1>9, <2>1, <2>2, <3>1
         DEF Directory!Shut, Directory!Answer, Holders, Response
  <2> QED
    BY <2>3
<1>10. CASE msg.type = "RESPONSE"
  <2>1. o = Outcome(live, NoResponse) /\ msg = Request("RESPONSE", NoName, 0)
    BY <1>10 DEF HandleMessage, Sent, NoExchange
  <2>2. ports' = live /\ exchange' = [request |-> msg, response |-> NoResponse]
    BY <1>2, <2>1 DEF Outcome
  <2>3. Directory!Ignore(Holders(live))
    <3>1. stopped' = FALSE
      BY <1>2, <1>10
    <3> QED
      BY <2>1, <2>2, <3>1
         DEF Directory!Ignore, Directory!Silence, Directory!Answer, Holders, NoResponse,
             Request
  <2> QED
    BY <2>3
<1> QED
  BY <1>5, <1>6, <1>7, <1>8, <1>9, <1>10, RequestsTyped DEF WellFormed, RequestTypes

LEMMA ShiftIdleKeepsHolders ==
    ASSUME TypeOK, NEW seconds \in Int, ports' = ShiftIdle(seconds),
           exchange' = NoExchange, UNCHANGED stopped
    PROVE  Directory!Rest
<1>1. \A p \in Ports : /\ ports'[p].available = ports[p].available
                       /\ ports'[p].serviceName = ports[p].serviceName
  BY ShiftIdleEntries
<1>2. Holders(ports') = Holders(ports)
  BY <1>1 DEF Holders
<1> QED
  BY <1>2 DEF Directory!Rest, Directory!Silence, Directory!Answer, Holders,
              NoExchange, NoResponse, Request

(***************************************************************************)
(* The server implements the directory, for every range of ports, timeout, *)
(* set of names and behaviour of the clock.                                *)
(***************************************************************************)
THEOREM DirectoryImplemented == Spec => ImplementsDirectory
<1>1. Init => Directory!Init
  BY DEF Init, Fresh, NoExchange, NoResponse, Request,
         Directory!Init, Directory!Silence, Directory!Answer
<1>2. Order /\ [Next]_vars => [Directory!Next]_(Directory!dirvars)
  <2> SUFFICES ASSUME Order, [Next]_vars
               PROVE  Directory!Next \/ UNCHANGED Directory!dirvars
    BY Zenon
  <2>1. ASSUME NEW msg \in Requests, Sent(msg), Handle(msg) PROVE Directory!Next
    BY <2>1, HandleImplemented DEF Directory!Next
  <2>2. CASE Tick
    BY <2>2, ShiftIdleKeepsHolders DEF Tick, Directory!Next, Order
  <2>3. CASE MoveClock
    <3>1. PICK seconds \in ClockSteps : ports' = ShiftIdle(seconds)
      BY <2>3 DEF MoveClock
    <3>2. seconds \in Int
      BY ClockAssumption
    <3> QED
      BY <2>3, <3>1, <3>2, ShiftIdleKeepsHolders DEF MoveClock, Directory!Next, Order
  <2>4. CASE UNCHANGED vars
    BY <2>4 DEF vars, Directory!dirvars
  <2> QED
    BY <2>1, <2>2, <2>3, <2>4, StepCases
<1> QED
  BY <1>1, <1>2, OrderInvariant, PTL DEF Spec, ImplementsDirectory, Directory!Spec
===============================================================================
