--------------------------- MODULE PRSMessageProofs ---------------------------
(***************************************************************************)
(* What the layout of a message preserves, for every size of the field for *)
(* the name.                                                               *)
(***************************************************************************)
EXTENDS PRSMessage, TLAPS

\* A name that ends in no zero byte is what is left of its field when the
\* zeros behind it are trimmed.
LEMMA TrimmedField ==
    ASSUME NEW name \in Seq(Bytes), Fits(name),
           NEW field \in Seq(Bytes), Len(field) = NameSize,
           \A k \in 1 .. NameSize :
               field[k] = IF k <= Len(name) THEN name[k] ELSE 0
    PROVE  TrimEnd(field) = name
<1>1. Len(name) \in 0 .. Len(field) /\ ZeroAfter(field, Len(name))
  BY NameSizeAssumption DEF Fits, ZeroAfter
<1>2. ASSUME NEW n \in 0 .. Len(field), ZeroAfter(field, n)
      PROVE  Len(name) <= n
  <2>1. SUFFICES ASSUME n < Len(name) PROVE FALSE
    BY <1>2
  <2>2. name # <<>> /\ Len(name) \in n + 1 .. Len(field)
    BY <2>1, <1>1
  <2>3. field[Len(name)] = name[Len(name)] /\ name[Len(name)] # 0
    BY <2>2, NameSizeAssumption DEF Fits
  <2> QED BY <1>2, <2>2, <2>3 DEF ZeroAfter
<1>3. TrimmedLength(field) = Len(name)
  <2>1. TrimmedLength(field) \in 0 .. Len(field)
        /\ ZeroAfter(field, TrimmedLength(field))
        /\ \A l \in 0 .. Len(field) : ZeroAfter(field, l) => TrimmedLength(field) <= l
    BY <1>1, <1>2, Zenon DEF TrimmedLength
  <2>2. TrimmedLength(field) <= Len(name) /\ Len(name) <= TrimmedLength(field)
    BY <1>1, <1>2, <2>1
  <2> QED BY <1>1, <2>1, <2>2
<1>4. SubSeq(field, 1, Len(name)) = name
  BY <1>1, NameSizeAssumption DEF Fits
<1> QED BY <1>3, <1>4 DEF TrimEnd

\* A message is a record of its fields.
LEMMA MessageFields ==
    ASSUME NEW msg \in Messages
    PROVE  /\ msg.name \in Seq(Bytes) /\ Len(msg.name) \in Nat
           /\ msg.type \in Bytes /\ msg.port \in Words /\ msg.status \in Bytes
           /\ msg = [type |-> msg.type, name |-> msg.name,
                     port |-> msg.port, status |-> msg.status]
<1>1. /\ msg.name \in Seq(Bytes)
      /\ msg.type \in Bytes /\ msg.port \in Words /\ msg.status \in Bytes
  BY DEF Messages
<1>2. msg = [type |-> msg.type, name |-> msg.name,
             port |-> msg.port, status |-> msg.status]
  BY DEF Messages
<1> QED BY <1>1, <1>2

\* The two bytes of a port are the port.
LEMMA WordOfBytes ==
    ASSUME NEW w \in Words
    PROVE  ((w \div 256) * 256) + (w % 256) = w
BY DEF Words

\* The bytes of the field for the name, and those behind it.
LEMMA BufferBytes ==
    ASSUME NEW msg \in Messages
    PROVE  /\ \A k \in 1 .. NameSize :
                  GetBytes(msg)[k] = IF k <= Len(msg.name) THEN msg.name[k] ELSE 0
           /\ GetBytes(msg)[0] = msg.type
           /\ GetBytes(msg)[NameSize + 1] = msg.port \div 256
           /\ GetBytes(msg)[NameSize + 2] = msg.port % 256
           /\ GetBytes(msg)[NameSize + 3] = msg.status
<1>1. msg.name \in Seq(Bytes) /\ Len(msg.name) \in Nat
  BY MessageFields
<1>2. DOMAIN NameCopied(msg.name) = 0 .. NameSize + 3
  BY NameSizeAssumption DEF NameCopied, MSG_SIZE
<1>3. \A k \in 1 .. NameSize :
          NameCopied(msg.name)[k] = IF k <= Len(msg.name) THEN msg.name[k] ELSE 0
  BY <1>1, NameSizeAssumption DEF NameCopied, MSG_SIZE
<1> HIDE DEF NameCopied
<1> QED BY <1>2, <1>3, NameSizeAssumption DEF GetBytes

(***************************************************************************)
(* A message whose name has room in its field arrives as it was sent: no   *)
(* field runs into another and the byte order is undone (GetBytes and the  *)
(* constructor from bytes of class PRSMessage).                            *)
(***************************************************************************)
THEOREM RoundTrip ==
    ASSUME NEW msg \in Messages, Fits(msg.name)
    PROVE  FromBytes(GetBytes(msg)) = msg
<1> DEFINE field == [k \in 1 .. NameSize |-> GetBytes(msg)[k]]
<1>1. msg.name \in Seq(Bytes) /\ Len(msg.name) \in Nat
  BY MessageFields
<1>2. \A k \in 1 .. NameSize : field[k] = IF k <= Len(msg.name) THEN msg.name[k] ELSE 0
  BY BufferBytes
<1>3. \A k \in 1 .. NameSize : field[k] \in Bytes
  <2>1. SUFFICES ASSUME NEW k \in 1 .. NameSize PROVE field[k] \in Bytes
    OBVIOUS
  <2>2. field[k] = IF k <= Len(msg.name) THEN msg.name[k] ELSE 0
    BY <1>2
  <2> HIDE DEF field
  <2>3. k <= Len(msg.name) => msg.name[k] \in Bytes
    BY <1>1, NameSizeAssumption
  <2>4. 0 \in Bytes
    BY DEF Bytes
  <2> QED BY <2>2, <2>3, <2>4
<1>4. field \in Seq(Bytes) /\ Len(field) = NameSize
  BY <1>3, NameSizeAssumption
<1> HIDE DEF field
<1>5. TrimEnd(field) = msg.name
  BY <1>1, <1>2, <1>4, TrimmedField
<1>6. ((msg.port \div 256) * 256) + (msg.port % 256) = msg.port
  BY MessageFields, WordOfBytes
<1>7. FromBytes(GetBytes(msg)) =
          [type |-> msg.type, name |-> msg.name, port |-> msg.port, status |-> msg.status]
  <2> USE DEF field
  <2>1. FromBytes(GetBytes(msg)) =
            [type |-> GetBytes(msg)[0],
             name |-> TrimEnd(field),
             port |-> (GetBytes(msg)[NameSize + 1] * 256) + GetBytes(msg)[NameSize + 2],
             status |-> GetBytes(msg)[NameSize + 3]]
    BY DEF FromBytes
  <2> HIDE DEF field
  <2> QED BY <1>5, <1>6, <2>1, BufferBytes
<1> QED BY <1>7, MessageFields

(***************************************************************************)
(* A name one to three bytes too long is no error: the message arrives     *)
(* with the first bytes of the name, so that two services whose names      *)
(* differ behind them are one service to the server.                       *)
(***************************************************************************)
THEOREM LongNameIsCut ==
    ASSUME NEW msg \in Messages, NEW other \in Messages,
           Copied(msg.name), Len(msg.name) > NameSize,
           Copied(other.name), Len(other.name) > NameSize,
           \A k \in 1 .. NameSize : msg.name[k] = other.name[k],
           msg.type = other.type, msg.port = other.port, msg.status = other.status
    PROVE  FromBytes(GetBytes(msg)) = FromBytes(GetBytes(other))
<1>1. Len(msg.name) \in Nat /\ Len(other.name) \in Nat
  BY MessageFields
<1>2. \A k \in 1 .. NameSize : GetBytes(msg)[k] = GetBytes(other)[k]
  <2>1. \A k \in 1 .. NameSize :
            GetBytes(msg)[k] = msg.name[k] /\ GetBytes(other)[k] = other.name[k]
    BY <1>1, BufferBytes, NameSizeAssumption
  <2> QED BY <2>1
<1>3. [k \in 1 .. NameSize |-> GetBytes(msg)[k]] = [k \in 1 .. NameSize |-> GetBytes(other)[k]]
  BY <1>2
<1>4. /\ GetBytes(msg)[0] = GetBytes(other)[0]
      /\ GetBytes(msg)[NameSize + 1] = GetBytes(other)[NameSize + 1]
      /\ GetBytes(msg)[NameSize + 2] = GetBytes(other)[NameSize + 2]
      /\ GetBytes(msg)[NameSize + 3] = GetBytes(other)[NameSize + 3]
  BY BufferBytes
<1> QED BY <1>3, <1>4 DEF FromBytes

===============================================================================
