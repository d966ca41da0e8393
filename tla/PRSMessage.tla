------------------------------ MODULE PRSMessage ------------------------------
(***************************************************************************)
(* Class PRSMessage: the fixed layout of a message in a datagram.  A name  *)
(* is the sequence of its UTF-8 bytes; the modules of the server and of    *)
(* the clients have messages arrive as they were sent, and this module     *)
(* says for which messages that is so.                                     *)
(***************************************************************************)
EXTENDS Integers, Sequences

CONSTANT
    NameSize  \* bytes of the field service_name, 50

ASSUME NameSizeAssumption == NameSize \in Nat

Bytes == 0 .. 255

Words == 0 .. 65535

MSG_SIZE == NameSize + 4

Buffers == [0 .. MSG_SIZE - 1 -> Bytes]

Messages == [type : Bytes, name : Seq(Bytes), port : Words, status : Bytes]

\* The copy into the buffer throws on a name that runs out of it.
Copied(name) == Len(name) <= MSG_SIZE - 1

\* The zeroed buffer with the name copied in, whatever the size of its field.
NameCopied(name) ==
    [k \in 0 .. MSG_SIZE - 1 |-> IF k \in 1 .. Len(name) THEN name[k] ELSE 0]

\* Port, in network order, and status go over what they find.
GetBytes(msg) ==
    [NameCopied(msg.name) EXCEPT
        ![0] = msg.type,
        ![NameSize + 1] = msg.port \div 256,
        ![NameSize + 2] = msg.port % 256,
        ![NameSize + 3] = msg.status]

\* No byte but zeros after the first n.
ZeroAfter(bytes, n) == \A k \in n + 1 .. Len(bytes) : bytes[k] = 0

TrimmedLength(bytes) ==
    CHOOSE n \in 0 .. Len(bytes) :
        /\ ZeroAfter(bytes, n)
        /\ \A l \in 0 .. Len(bytes) : ZeroAfter(bytes, l) => n <= l

TrimEnd(bytes) == SubSeq(bytes, 1, TrimmedLength(bytes))

FromBytes(buffer) ==
    [type |-> buffer[0],
     name |-> TrimEnd([k \in 1 .. NameSize |-> buffer[k]]),
     port |-> (buffer[NameSize + 1] * 256) + buffer[NameSize + 2],
     status |-> buffer[NameSize + 3]]

\* Names that have room in their field and do not end in a zero byte.
Fits(name) == Len(name) <= NameSize /\ (name = <<>> \/ name[Len(name)] # 0)

===============================================================================
