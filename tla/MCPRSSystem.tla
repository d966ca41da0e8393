----------------------------- MODULE MCPRSSystem -----------------------------
(* Values for the model checker: one or two processes, each with a service *)
(* of its own, and a task that sleeps half the timeout as 5 s to 10 s.     *)
(* Their messages are also put through the layout of PRSMessage, with a    *)
(* field for the name of two bytes.                                        *)
EXTENDS PRSSystem, PRSMessage

CONSTANTS c1, c2, s1, s2

OneClient == {c1}
TwoClients == {c1, c2}
SecondClient == {c2}
NoClient == {}

OneName == {s1}
TwoNames == {s1, s2}

OwnService == [c \in Clients |-> IF c = c1 THEN s1 ELSE s2]

\* Every name of two letters and the zero byte that the buffer has room for,
\* and the ports at the boundaries of the two bytes.
SampleMessages ==
    [type : {0, 5}, name : UNION {[1 .. n -> {0, 97, 255}] : n \in 0 .. NameSize + 3},
     port : {0, 255, 256, 65535}, status : {0, 255}]

ASSUME SampleRoundTrip ==
    \A msg \in SampleMessages :
        /\ Copied(msg.name)
        /\ GetBytes(msg) \in Buffers
        /\ FromBytes(GetBytes(msg)) \in Messages
        /\ Fits(msg.name) <=> FromBytes(GetBytes(msg)) = msg

===============================================================================
