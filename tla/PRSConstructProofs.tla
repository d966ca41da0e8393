-------------------------- MODULE PRSConstructProofs --------------------------
(***************************************************************************)
(* Proofs about the constructor's loop, for every width of its integers.   *)
(***************************************************************************)
EXTENDS PRSConstruct, TLAPS

(***************************************************************************)
(* The slots below the index are filled.  Over a full range the index      *)
(* wraps instead of reaching the end, so that the loop never returns; what *)
(* it fills is right all the same.                                         *)
(***************************************************************************)
Filled ==
    /\ TypeOK
    /\ startingClientPort <= endingClientPort
    /\ i <= numPorts
    /\ \A k \in 0 .. i - 1 : table[k] = startingClientPort + k
    /\ constructed => i = numPorts

LEMMA PortOfSlotInRange ==
    ASSUME TypeOK, NEW k \in 0 .. numPorts - 1
    PROVE  PortOfSlot(k) = startingClientPort + k /\ PortOfSlot(k) \in UShort
<1>1. startingClientPort + k \in 0 .. Modulus - 1
  BY ConstructAssumption DEF TypeOK, UShort, numPorts
<1>2. Modulus \in Nat \ {0}
  BY ConstructAssumption
<1> QED
  BY <1>1, <1>2 DEF PortOfSlot, UShort

LEMMA FilledInvariant == Spec => []Filled
<1>1. Init => Filled
  <2> SUFFICES ASSUME Init PROVE Filled
    OBVIOUS
  <2>1. /\ Modulus \in Nat \ {0}
        /\ startingClientPort \in UShort /\ endingClientPort \in UShort
        /\ startingClientPort <= endingClientPort
        /\ i = 0
    BY ConstructAssumption DEF Init
  <2>2. i \in UShort /\ i <= numPorts
    BY <2>1 DEF UShort, numPorts
  <2>3. table \in [0 .. numPorts - 1 -> UShort \cup {Null}]
    BY DEF Init
  <2>4. constructed = FALSE
    BY Zenon DEF Init
  <2>5. \A k \in 0 .. i - 1 : table[k] = startingClientPort + k
    BY <2>1
  <2>6. TypeOK
    BY <2>1, <2>2, <2>3, <2>4 DEF TypeOK
  <2> QED
    BY <2>1, <2>2, <2>4, <2>5, <2>6 DEF Filled
<1>2. Filled /\ [Next]_vars => Filled'
  <2> SUFFICES ASSUME Filled, [Next]_vars PROVE Filled'
    OBVIOUS
  <2>1. /\ Modulus \in Nat \ {0}
        /\ startingClientPort \in 0 .. Modulus - 1 /\ endingClientPort \in 0 .. Modulus - 1
        /\ i \in 0 .. Modulus - 1
        /\ numPorts \in 1 .. Modulus
    BY ConstructAssumption DEF Filled, TypeOK, UShort, numPorts
  <2>2. CASE Fill
    <3>1. i \in 0 .. numPorts - 1 /\ numPorts' = numPorts
      BY <2>1, <2>2 DEF Fill, numPorts
    <3>2. PortOfSlot(i) = startingClientPort + i /\ PortOfSlot(i) \in UShort
      BY <3>1, PortOfSlotInRange DEF Filled
    <3>3. \/ i + 1 < Modulus /\ i' = i + 1
          \/ i + 1 = Modulus /\ i' = 0
      BY <2>1, <2>2 DEF Fill, Increment
    <3>4. TypeOK'
      BY <2>1, <2>2, <3>1, <3>2, <3>3 DEF Fill, Filled, TypeOK, UShort
    <3>5. table' = [table EXCEPT ![i] = startingClientPort + i]
      BY <2>2, <3>2 DEF Fill
    <3>6. \A k \in 0 .. i' - 1 : table'[k] = startingClientPort + k
      BY <2>1, <3>1, <3>3, <3>5 DEF Filled, TypeOK
    <3> QED
      BY <2>1, <2>2, <3>1, <3>3, <3>4, <3>6 DEF Fill, Filled
  <2>3. CASE Return
    BY <2>1, <2>3 DEF Return, Filled, TypeOK, numPorts
  <2>4. CASE UNCHANGED vars
    BY <2>4 DEF vars, Filled, TypeOK, numPorts
  <2> QED
    BY <2>2, <2>3, <2>4 DEF Next
<1> QED
  BY <1>1, <1>2, PTL DEF Spec

(***************************************************************************)
(* The loop's index and the numbers it writes stay within a ushort and the *)
(* slots within the array, over every range and for every width.           *)
(***************************************************************************)
THEOREM TypeCorrect == Spec => []TypeOK
<1>1. Filled => TypeOK
  BY DEF Filled
<1> QED
  BY <1>1, FilledInvariant, PTL

(***************************************************************************)
(* Whatever range the server is started with: when the constructor has     *)
(* returned, the table holds every port once and in ascending order.       *)
(***************************************************************************)
THEOREM EveryPortOnceHolds == Spec => []EveryPortOnce
<1>1. Filled => EveryPortOnce
  BY DEF Filled, EveryPortOnce
<1> QED
  BY <1>1, FilledInvariant, PTL

===============================================================================
