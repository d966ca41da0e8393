----------------------------- MODULE PRSConstruct -----------------------------
(***************************************************************************)
(* The loop of the constructor of class PRS that fills the table.  Its     *)
(* index and the port numbers are ushort: here they count modulo Modulus,  *)
(* so that whole ranges can be explored.  The number of ports is an int.   *)
(***************************************************************************)
EXTENDS Integers

CONSTANTS
    Modulus,   \* ushort.MaxValue + 1
    MaxPorts   \* the largest range the server is started with

ASSUME ConstructAssumption ==
    /\ Modulus \in Nat \ {0}
    /\ MaxPorts \in 1 .. Modulus

UShort == 0 .. Modulus - 1

\* A slot of the array the loop has not reached.
Null == -1

VARIABLES
    startingClientPort,  \* the arguments that passed the check of Program.cs
    endingClientPort,
    i,                   \* the loop's index
    table,               \* port number of each slot of the array
    constructed          \* has the constructor returned

vars == <<startingClientPort, endingClientPort, i, table, constructed>>

numPorts == endingClientPort - startingClientPort + 1

TypeOK ==
    /\ startingClientPort \in UShort /\ endingClientPort \in UShort
    /\ i \in UShort
    /\ table \in [0 .. numPorts - 1 -> UShort \cup {Null}]
    /\ constructed \in BOOLEAN

Init ==
    /\ startingClientPort \in UShort /\ endingClientPort \in UShort
    /\ startingClientPort <= endingClientPort
    /\ numPorts <= MaxPorts
    /\ i = 0
    /\ table = [k \in 0 .. numPorts - 1 |-> Null]
    /\ constructed = FALSE

\* A slip for the mutation runs: the index is a byte.
NarrowIncrement(n) == (n + 1) % (Modulus \div 2)

Increment(n) == (n + 1) % Modulus

\* A slip for the mutation runs: the ports after the first.
ShiftedPort(k) == startingClientPort + k + 1

PortOfSlot(k) == (startingClientPort + k) % Modulus

Fill ==
    /\ ~constructed
    /\ i < numPorts
    /\ table' = [table EXCEPT ![i] = PortOfSlot(i)]
    /\ i' = Increment(i)
    /\ UNCHANGED <<startingClientPort, endingClientPort, constructed>>

Return ==
    /\ ~constructed
    /\ i >= numPorts
    /\ constructed' = TRUE
    /\ UNCHANGED <<startingClientPort, endingClientPort, i, table>>

Next == Fill \/ Return

Spec == Init /\ [][Next]_vars /\ WF_vars(Next)
-------------------------------------------------------------------------------
(***************************************************************************)
(* When the constructor returns, the table holds every port of the range   *)
(* once, in ascending order and none of them wrapped: the handlers take    *)
(* the first available slot for the lowest available port.                 *)
(***************************************************************************)
EveryPortOnce ==
    constructed => \A k \in 0 .. numPorts - 1 : table[k] = startingClientPort + k

(***************************************************************************)
(* The constructor returns for every range the server accepts              *)
(* ("initialize port reservations").                                       *)
(***************************************************************************)
Terminates == <>constructed

===============================================================================
