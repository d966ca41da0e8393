------------------------------- MODULE SDClient -------------------------------
(***************************************************************************)
(* Class SimpleDocumentClient: the object a client program talks to the SD *)
(* server with.  A call sends its command and then reads a reply, and how  *)
(* many lines it reads depends on the first; a call that does not find     *)
(* what it expects throws.  The programs make one call at a time.          *)
(***************************************************************************)
EXTENDS SDConnection

CONSTANTS
    Operations,  \* the calls the programs make
    GiveUp       \* BOOLEAN: does a program end at the first exception

VARIABLES
    sessionID,  \* field sessionID of each client
    calling,    \* the call it is in
    failed,     \* did the last call throw
    got,        \* what the last GetDocument that succeeded returned
    posted      \* every document a client sent for a session, whole or broken off

NoCall == [op |-> "none", id |-> 0, name |-> Empty, text |-> Empty]

Calls ==
    [op : Operations \cup {"none"}, id : AnyId,
     name : Names \cup {Empty}, text : Texts \cup {Empty}]

Documents == [session : AnyId, name : Names, text : Texts \cup {Cut}]

Document(session, name, text) == [session |-> session, name |-> name, text |-> text]

\* Without a session, or to a file, a document is not for a session.
Posts(session, name, text) ==
    posted' = posted \cup (IF session # 0 /\ name \notin FileNames \cup {Empty}
                           THEN {Document(session, name, text)} ELSE {})

ClientTypeOK ==
    /\ sessionID \in [Connections -> AnyId]
    /\ calling \in [Connections -> Calls]
    /\ failed \in [Connections -> BOOLEAN]
    /\ \A c \in Connections : got[c] \subseteq Documents /\ \A d, e \in got[c] : d = e
    /\ posted \subseteq Documents

ClientInit ==
    /\ connected = [c \in Connections |-> FALSE]
    /\ thread = [c \in Connections |-> "none"]
    /\ toServer = [c \in Connections |-> <<>>]
    /\ toClient = [c \in Connections |-> <<>>]
    /\ sessionID = [c \in Connections |-> 0]
    /\ calling = [c \in Connections |-> NoCall]
    /\ failed = [c \in Connections |-> FALSE]
    /\ got = [c \in Connections |-> {}]
    /\ posted = {}

\* A program that is between two calls.
Ready(c) ==
    /\ connected[c]
    /\ calling[c] = NoCall
    /\ GiveUp => ~failed[c]

Calling(c, op, id, name, text, lines) ==
    /\ Ready(c)
    /\ op \in Operations
    /\ calling' = [calling EXCEPT ![c] = [op |-> op, id |-> id, name |-> name, text |-> text]]
    /\ toServer' = IF Alive(c)
                   THEN [toServer EXCEPT ![c] = @ \o <<Word(op)>> \o lines]
                   ELSE toServer
    /\ got' = [got EXCEPT ![c] = {}]
    /\ UNCHANGED <<connected, thread, toClient, sessionID, failed>>

OpenSession(c) == Calling(c, "open", 0, Empty, Empty, <<>>) /\ UNCHANGED posted

\* The id comes from another program, or was this one's before it
\* disconnected; 0 throws at once.
ResumeSession(c, id) ==
    Calling(c, "resume", id, Empty, Empty, <<IdLine(id)>>) /\ UNCHANGED posted

CloseSession(c) ==
    Calling(c, "close", sessionID[c], Empty, Empty, <<IdLine(sessionID[c])>>) /\ UNCHANGED posted

GetDocument(c, name) == Calling(c, "get", 0, name, Empty, <<Word(name)>>) /\ UNCHANGED posted

PostDocument(c, name, text) ==
    /\ Calling(c, "post", 0, name, text, <<Word(name), LengthLine(text)>> \o Content(text))
    /\ Posts(sessionID[c], name, text)
-------------------------------------------------------------------------------
\* The status a call hopes for.
Hoped(op) ==
    CASE op \in {"open", "resume"} -> "accepted"
      [] op = "close" -> "closed"
      [] OTHER -> "success"

\* A slip for the mutation runs: the content of a document is not read.
ReadsWithoutContent(op, reply) ==
    CASE reply[1] = Word(Hoped(op)) /\ op \in {"open", "resume", "close"} -> 2
      [] reply[1] = Word(Hoped(op)) /\ op = "get" -> 3
      [] reply[1] = Word("error") /\ op # "post" -> 2
      [] OTHER -> 1

\* The lines a call takes from a reply, by its first line.  The reason of a
\* refused post, and of a rejected session, stays unread.
Reads(op, reply) ==
    CASE reply[1] = Word(Hoped(op)) /\ op \in {"open", "resume", "close"} -> 2
      [] reply[1] = Word(Hoped(op)) /\ op = "get" ->
            IF Len(reply) >= 3 /\ IsLength(reply[3]) THEN 3 + Len(Content(reply[3][2])) ELSE 3
      [] reply[1] = Word("error") /\ op # "post" -> 2
      [] OTHER -> 1

\* The lines are what the call asked for; it throws on everything else.
Understood(c, reply) ==
    LET op == calling[c].op
    IN  /\ reply[1] = Word(Hoped(op))
        /\ op = "open" => IsId(reply[2])
        /\ op = "resume" => reply[2] = IdLine(calling[c].id)
        /\ op = "close" => reply[2] = IdLine(sessionID[c])
        /\ op = "get" => IsLength(reply[3])

\* A slip for the mutation runs: a resumed session is not taken over.
SessionAfterOpen(c, reply) ==
    CASE calling[c].op = "open" -> reply[2][2]
      [] calling[c].op = "close" -> 0
      [] OTHER -> sessionID[c]

\* What is left of the session after a call that succeeded.
SessionAfter(c, reply) ==
    CASE calling[c].op \in {"open", "resume"} -> reply[2][2]
      [] calling[c].op = "close" -> 0
      [] OTHER -> sessionID[c]

Succeeds(c, reply) ==
    /\ Understood(c, reply)
    /\ failed' = [failed EXCEPT ![c] = FALSE]
    /\ sessionID' = [sessionID EXCEPT ![c] = SessionAfter(c, reply)]
    /\ got' = [got EXCEPT ![c] =
                  IF calling[c].op = "get"
                  THEN {Document(sessionID[c], calling[c].name, reply[3][2])} ELSE {}]

Throws(c) ==
    /\ failed' = [failed EXCEPT ![c] = TRUE]
    /\ UNCHANGED <<sessionID, got>>

ReceiveResponse(c) ==
    LET reply == toClient[c]
    IN  /\ connected[c]
        /\ calling[c] # NoCall
        /\ reply # <<>>
        /\ LET n == Reads(calling[c].op, reply)
           IN  /\ Len(reply) >= n
               /\ toClient' = [toClient EXCEPT ![c] = Drop(reply, n)]
        /\ \/ Succeeds(c, reply)
           \/ ~Understood(c, reply) /\ Throws(c)
        /\ calling' = [calling EXCEPT ![c] = NoCall]
        /\ UNCHANGED <<connected, thread, toServer, posted>>

Incomplete(c) ==
    toClient[c] # <<>> => Len(toClient[c]) < Reads(calling[c].op, toClient[c])

\* The server closed the connection, or it broke: ReadLine returns null, or
\* ReadLine or the write of the command throws.
ReceiveNothing(c) ==
    /\ connected[c]
    /\ calling[c] # NoCall
    /\ ~Alive(c)
    /\ Incomplete(c)
    /\ Throws(c)
    /\ toClient' = [toClient EXCEPT ![c] = <<>>]
    /\ calling' = [calling EXCEPT ![c] = NoCall]
    /\ UNCHANGED <<connected, thread, toServer, posted>>

Receive(c) == ReceiveResponse(c) \/ ReceiveNothing(c)
-------------------------------------------------------------------------------
Leaves(c) ==
    /\ connected[c]
    /\ connected' = [connected EXCEPT ![c] = FALSE]
    /\ toClient' = [toClient EXCEPT ![c] = <<>>]
    /\ calling' = [calling EXCEPT ![c] = NoCall]
    /\ failed' = [failed EXCEPT ![c] = FALSE]
    /\ got' = [got EXCEPT ![c] = {}]
    /\ UNCHANGED thread

\* The object keeps its sessionID.
Disconnect(c) ==
    /\ calling[c] = NoCall
    /\ Leaves(c)
    /\ UNCHANGED <<toServer, sessionID, posted>>

\* The process dies, at any time; a new one takes its place.
Die(c) ==
    /\ Leaves(c)
    /\ sessionID' = [sessionID EXCEPT ![c] = 0]
    /\ UNCHANGED <<toServer, posted>>

\* The connection breaks while both ends live.  What was sent reaches the
\* thread, which may fail at any line of it, or a document breaks off; a
\* reply reaches the client, or makes its call throw.  A client that dies while
\* it sends breaks the connection first.
Break(c) ==
    /\ Alive(c)
    /\ c \in Fragile
    /\ thread' = [thread EXCEPT ![c] = "broken"]
    /\ \E n \in {3, Len(toServer[c])} :
          /\ n <= Len(toServer[c])
          /\ toServer' = [toServer EXCEPT ![c] = SubSeq(@, 1, n)]
    /\ \E reply \in {<<>>, toClient[c]} : toClient' = [toClient EXCEPT ![c] = reply]
    /\ \/ calling[c].op = "post" /\ Posts(sessionID[c], calling[c].name, Cut)
       \/ calling[c].op # "post" /\ UNCHANGED posted
    /\ UNCHANGED <<connected, sessionID, calling, failed, got>>

===============================================================================
