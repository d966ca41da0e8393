--------------------------- MODULE SDConnectedClient ---------------------------
(***************************************************************************)
(* Class SDConnectedClient: the thread that serves one connection of the   *)
(* SD server.  A step takes one command with the lines its handler reads,  *)
(* makes the handler's one call of the session table and writes the reply. *)
(* The table's calls are atomic (SessionTable implements SessionStore), so *)
(* the table is kept here as the store that it implements.                 *)
(***************************************************************************)
EXTENDS SDConnection

VARIABLES
    sessionId,      \* field sessionId of each thread, 0 for none
    open,           \* the session table: open sessions,
    nextSessionId,  \* the next id,
    values          \* and the documents of each session

store == <<open, nextSessionId, values>>

\* No document under that name.
Missing == "missing"

NoDocuments == [name \in Names |-> Missing]

ServerTypeOK ==
    /\ sessionId \in [Connections -> AnyId]
    /\ nextSessionId \in 1 .. MaxSessions + 1
    /\ open \subseteq 1 .. nextSessionId - 1
    /\ values \in [Ids -> [Names -> Texts \cup {Cut, Empty, Missing}]]

ServerInit ==
    /\ sessionId = [c \in Connections |-> 0]
    /\ open = {}
    /\ nextSessionId = 1
    /\ values = [s \in Ids |-> NoDocuments]

\* The handler read n lines and wrote the reply; nobody reads it if the
\* client is gone or the connection broken.
Exchange(c, n, reply) ==
    /\ toServer' = [toServer EXCEPT ![c] = Drop(@, n)]
    /\ toClient' = IF Alive(c)
                   THEN [toClient EXCEPT ![c] = @ \o reply]
                   ELSE toClient

Accepted(id) == <<Word("accepted"), IdLine(id)>>
Rejected == <<Word("rejected"), Reason>>
Closed(id) == <<Word("closed"), IdLine(id)>>
Success == <<Word("success")>>
SuccessWith(name, text) ==
    <<Word("success"), Word(name), LengthLine(text)>> \o Content(text)
Error == <<Word("error"), Reason>>

\* The command is next and the lines that follow it have arrived.
Command(c, w, n) ==
    /\ thread[c] # "none"
    /\ Len(toServer[c]) >= n
    /\ toServer[c][1] = Word(w)

Refuse(c, n) ==
    /\ Exchange(c, n, Error)
    /\ UNCHANGED <<sessionId, store>>
-------------------------------------------------------------------------------
\* A slip for the mutation runs: the counter is not advanced.
OpenSessionAgain(c) ==
    /\ sessionId[c] = 0
    /\ nextSessionId <= MaxSessions
    /\ sessionId' = [sessionId EXCEPT ![c] = nextSessionId]
    /\ open' = open \cup {nextSessionId}
    /\ Exchange(c, 1, Accepted(nextSessionId))
    /\ UNCHANGED <<nextSessionId, values>>

OpenSession(c) ==
    /\ sessionId[c] = 0
    /\ nextSessionId <= MaxSessions
    /\ sessionId' = [sessionId EXCEPT ![c] = nextSessionId]
    /\ open' = open \cup {nextSessionId}
    /\ nextSessionId' = nextSessionId + 1
    /\ Exchange(c, 1, Accepted(nextSessionId))
    /\ UNCHANGED values

HandleOpen(c) ==
    /\ Command(c, "open", 1)
    /\ \/ OpenSession(c)
       \/ sessionId[c] # 0 /\ Refuse(c, 1)

ResumeSession(c, id) ==
    /\ sessionId[c] = 0
    /\ id \in open
    /\ sessionId' = [sessionId EXCEPT ![c] = id]
    /\ Exchange(c, 2, Accepted(id))
    /\ UNCHANGED store

RejectSession(c, id) ==
    /\ sessionId[c] = 0
    /\ id \notin open
    /\ Exchange(c, 2, Rejected)
    /\ UNCHANGED <<sessionId, store>>

HandleResume(c) ==
    /\ Command(c, "resume", 2)
    /\ LET line == toServer[c][2]
       IN  \/ IsId(line) /\ (ResumeSession(c, line[2]) \/ RejectSession(c, line[2]))
           \/ ~IsId(line) /\ Refuse(c, 2)
           \/ sessionId[c] # 0 /\ Refuse(c, 2)

\* The id that was asked for is read and not used.
CloseSession(c) ==
    /\ sessionId[c] \in open
    /\ open' = open \ {sessionId[c]}
    /\ values' = [values EXCEPT ![sessionId[c]] = NoDocuments]
    /\ Exchange(c, 2, Closed(sessionId[c]))
    /\ UNCHANGED <<sessionId, nextSessionId>>

HandleClose(c) ==
    /\ Command(c, "close", 2)
    /\ \/ IsId(toServer[c][2]) /\ CloseSession(c)
       \/ ~IsId(toServer[c][2]) /\ Refuse(c, 2)
       \/ sessionId[c] \notin open /\ Refuse(c, 2)

\* A session value that is missing or empty is refused alike.
Readable(c, name) ==
    /\ sessionId[c] \in open
    /\ name \in Names \ {Empty}
    /\ values[sessionId[c]][name] \notin {Missing, Empty}

\* A slip for the mutation runs: no reply when the document does not exist.
HandleGetSilent(c) ==
    \/ /\ sessionId[c] = 0
       /\ Command(c, "get", 1)
       /\ Refuse(c, 1)
    \/ /\ sessionId[c] # 0
       /\ Command(c, "get", 2)
       /\ LET name == toServer[c][2][1]
          IN  \/ /\ Readable(c, name)
                 /\ Exchange(c, 2, SuccessWith(name, values[sessionId[c]][name]))
              \/ ~Readable(c, name) /\ Exchange(c, 2, <<>>)
       /\ UNCHANGED <<sessionId, store>>

\* Without a session the name that follows stays unread.
HandleGet(c) ==
    \/ /\ sessionId[c] = 0
       /\ Command(c, "get", 1)
       /\ Refuse(c, 1)
    \/ /\ sessionId[c] # 0
       /\ Command(c, "get", 2)
       /\ LET name == toServer[c][2][1]
          IN  \/ /\ Readable(c, name)
                 /\ Exchange(c, 2, SuccessWith(name, values[sessionId[c]][name]))
              \/ ~Readable(c, name) /\ Exchange(c, 2, Error)
       /\ UNCHANGED <<sessionId, store>>

\* WriteAllText succeeds or fails.  The disk is no part of the state: no
\* handler ever reads a file.
SaveFile(c, n, name) ==
    /\ name \in FileNames
    /\ Exchange(c, n, Success) \/ Exchange(c, n, Error)
    /\ UNCHANGED <<sessionId, store>>

\* A slip for the mutation runs: the content is read one character short.
PutSessionValueShort(c, n, name, text) ==
    /\ name \notin FileNames
    /\ \/ /\ sessionId[c] \in open
          /\ values' = [values EXCEPT ![sessionId[c]][name] = Cut]
          /\ Exchange(c, n, Success)
          /\ UNCHANGED <<sessionId, open, nextSessionId>>
       \/ sessionId[c] \notin open /\ Refuse(c, n)

PutSessionValue(c, n, name, text) ==
    /\ name \notin FileNames
    /\ \/ /\ sessionId[c] \in open
          /\ values' = [values EXCEPT ![sessionId[c]][name] = text]
          /\ Exchange(c, n, Success)
          /\ UNCHANGED <<sessionId, open, nextSessionId>>
       \/ sessionId[c] \notin open /\ Refuse(c, n)

Post(c, n, name, text) == SaveFile(c, n, name) \/ PutSessionValue(c, n, name, text)

\* ReceiveDocument returns what it has when the stream ends, which may be
\* nothing.
HandlePost(c) ==
    \/ Command(c, "post", 2) /\ toServer[c][2] = Word(Empty) /\ Refuse(c, 2)
    \/ /\ Command(c, "post", 3)
       /\ toServer[c][2] # Word(Empty)
       /\ LET name == toServer[c][2][1]
              line == toServer[c][3]
          IN  \/ ~IsLength(line) /\ Refuse(c, 3)
              \/ /\ IsLength(line)
                 /\ LET text == line[2]
                        n == 3 + Len(Content(text))
                    IN  \/ Len(toServer[c]) >= n /\ Post(c, n, name, text)
                        \/ /\ Len(toServer[c]) < n
                           /\ ~Alive(c)
                           /\ \E part \in {Cut, Empty} : Post(c, 3, name, part)

\* An empty line, or anything that is not a command, ends the connection.
\* Lines that were never read make the close a reset, which may overtake
\* what was written before.
HandleOther(c) ==
    /\ thread[c] # "none"
    /\ toServer[c] # <<>>
    /\ Head(toServer[c]) \notin {Word(w) : w \in Commands}
    /\ thread' = [thread EXCEPT ![c] = "none"]
    /\ LET reply == IF Head(toServer[c]) = Word(Empty) THEN <<>> ELSE Error
       IN  \/ Exchange(c, Len(toServer[c]), reply)
           \/ /\ Len(toServer[c]) > 1
              /\ toServer' = [toServer EXCEPT ![c] = <<>>]
              /\ toClient' = [toClient EXCEPT ![c] = <<>>]
    /\ UNCHANGED <<connected, sessionId, store>>

\* The client is gone or the connection broken: the thread sees the end of
\* the stream, or fails to read from it or to write to it.
EndOfStream(c) ==
    /\ ~Alive(c)
    /\ thread[c] # "none"
    /\ thread' = [thread EXCEPT ![c] = "none"]
    /\ toServer' = [toServer EXCEPT ![c] = <<>>]
    /\ UNCHANGED <<connected, toClient, sessionId, store>>

\* The session table's cleanup loop, at any moment.
Expire ==
    \E s \in open :
        /\ open' = open \ {s}
        /\ values' = [values EXCEPT ![s] = NoDocuments]
        /\ UNCHANGED <<streams, sessionId, nextSessionId>>

Handle(c) ==
    /\ \/ HandleOpen(c)
       \/ HandleResume(c)
       \/ HandleClose(c)
       \/ HandleGet(c)
       \/ HandlePost(c)
    /\ UNCHANGED <<connected, thread>>

Serve(c) == Handle(c) \/ HandleOther(c) \/ EndOfStream(c)

===============================================================================
