----------------------------- MODULE SessionCalls -----------------------------
(***************************************************************************)
(* The calls of class SessionTable and what they give back: shared by the  *)
(* promise (SessionStore) and the class (SessionTable).                    *)
(***************************************************************************)
EXTENDS Naturals

CONSTANTS
    Threads,      \* threads of the connected clients
    MaxSessions,  \* bound: sessions opened in a behaviour
    Keys,         \* document names
    Values,       \* document contents
    Nothing       \* null

ASSUME SessionAssumption ==
    /\ MaxSessions \in Nat
    /\ Nothing \notin Keys \cup Values

Ids == 1 .. MaxSessions

\* 0 is the session of a connection that never opened one.
AnyId == Ids \cup {0}

Call(op, id, key, value) == [op |-> op, id |-> id, key |-> key, value |-> value]

Requests ==
    {Call("open", 0, Nothing, Nothing)}
        \cup {Call(op, id, Nothing, Nothing) : op \in {"resume", "close"}, id \in AnyId}
        \cup {Call("get", id, key, Nothing) : id \in AnyId, key \in Keys}
        \cup {Call("put", id, key, value) : id \in AnyId, key \in Keys, value \in Values}

\* The call of a thread that is outside the table.
NoCall == Call("none", 0, Nothing, Nothing)

Results ==
    [outcome : {"pending", "id", "true", "false", "value", "done", "thrown"},
     id : AnyId, value : Values \cup {Nothing}]

Result(outcome, id, value) == [outcome |-> outcome, id |-> id, value |-> value]

Pending == Result("pending", 0, Nothing)
NewId(id) == Result("id", id, Nothing)
YesOrNo(b) == Result(IF b THEN "true" ELSE "false", 0, Nothing)
Retrieved(value) == Result("value", 0, value)
Done == Result("done", 0, Nothing)
Thrown == Result("thrown", 0, Nothing)

\* The values of a session that is not open, or was just opened.
Blank == [key \in Keys |-> Nothing]

===============================================================================
