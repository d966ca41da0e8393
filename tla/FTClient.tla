------------------------------- MODULE FTClient -------------------------------
(***************************************************************************)
(* Class FTClient and the programs around it.  A program connects, gets    *)
(* one directory and disconnects; the Razor page keeps its object and      *)
(* never disconnects.                                                      *)
(***************************************************************************)
EXTENDS FTConnection, FiniteSets

CONSTANT
    Pages  \* the clients that are a Razor page

VARIABLES
    connected,  \* field connected of each client
    step,       \* the call its program makes next, or is in
    wanted,     \* the directory of its last GetDirectory
    outcome,    \* what became of that call
    received,   \* the files it wrote to disk, with their blocks
    leftover    \* is the rest of an answer it gave up left in its stream

NoDirectory == "none"

ClientTypeOK ==
    /\ connected \in [Clients -> BOOLEAN]
    /\ step \in [Clients -> {"connect", "get", "receive", "disconnect"}]
    /\ wanted \in [Clients -> Directories \cup Absent \cup {NoDirectory}]
    /\ outcome \in [Clients -> {"none", "returned", "threw"}]
    /\ received \in [Clients -> SUBSET (Files \X Nat)]
    /\ leftover \in [Clients -> BOOLEAN]

ClientInit ==
    /\ connected = [c \in Clients |-> FALSE]
    /\ step = [c \in Clients |-> "connect"]
    /\ wanted = [c \in Clients |-> NoDirectory]
    /\ outcome = [c \in Clients |-> "none"]
    /\ received = [c \in Clients |-> {}]
    /\ leftover = [c \in Clients |-> FALSE]

Begins(c, next) ==
    /\ step' = [step EXCEPT ![c] = next]
    /\ wanted' = [wanted EXCEPT ![c] = NoDirectory]
    /\ outcome' = [outcome EXCEPT ![c] = "none"]
    /\ received' = [received EXCEPT ![c] = {}]

\* GetDirectory came back.  A page is done with its request; a program goes
\* on to Disconnect, or is ended by the exception and its socket with it.
Returns(c) ==
    /\ outcome' = [outcome EXCEPT ![c] = "returned"]
    /\ step' = [step EXCEPT ![c] = IF c \in Pages THEN "connect" ELSE "disconnect"]
    /\ UNCHANGED <<connected, link>>

Throws(c) ==
    /\ outcome' = [outcome EXCEPT ![c] = "threw"]
    /\ step' = [step EXCEPT ![c] = "connect"]
    /\ connected' = [connected EXCEPT ![c] = @ /\ c \in Pages]
    /\ link' = [link EXCEPT ![c] = IF c \in Pages THEN @ ELSE "none"]

\* Already connected, or every exception on the way swallowed.
ConnectDoesNothing(c) ==
    /\ step[c] = "connect"
    /\ connected[c] \/ "refused" \in Faults
    /\ Begins(c, "get")
    /\ UNCHANGED <<streams, connected, leftover>>

\* With a new thread of the server at the other end.
ConnectSucceeds(c) ==
    /\ step[c] = "connect"
    /\ ~connected[c]
    /\ thread[c] = "none"
    /\ connected' = [connected EXCEPT ![c] = TRUE]
    /\ link' = [link EXCEPT ![c] = "open"]
    /\ thread' = [thread EXCEPT ![c] = "reading"]
    /\ toServer' = [toServer EXCEPT ![c] = <<>>]
    /\ toClient' = [toClient EXCEPT ![c] = <<>>]
    /\ leftover' = [leftover EXCEPT ![c] = FALSE]
    /\ Begins(c, "get")

Send(c, line) ==
    toServer' = [toServer EXCEPT ![c] = IF link[c] = "open" THEN Append(@, line) ELSE @]

\* Nothing happens without a connection.  A socket that was reset throws; one
\* that the server closed takes the command, and may be reset in answer: what
\* was not read yet is lost.
GetDirectory(c, d) ==
    /\ step[c] = "get"
    /\ wanted' = [wanted EXCEPT ![c] = d]
    /\ \/ ~connected[c] /\ Returns(c) /\ UNCHANGED <<toServer, toClient>>
       \/ connected[c] /\ link[c] = "reset" /\ Throws(c) /\ UNCHANGED <<toServer, toClient>>
       \/ /\ connected[c]
          /\ link[c] # "reset"
          /\ Send(c, Get(d))
          /\ \/ UNCHANGED <<link, toClient>>
             \/ /\ link[c] = "ended"
                /\ link' = [link EXCEPT ![c] = "reset"]
                /\ toClient' = [toClient EXCEPT ![c] = <<>>]
          /\ step' = [step EXCEPT ![c] = "receive"]
          /\ UNCHANGED <<connected, outcome>>
    /\ UNCHANGED <<thread, received, leftover>>

\* What the tests send by reflection, in place of a get.
SendInvalidMessage(c) ==
    /\ step[c] = "get"
    /\ c \notin Pages
    /\ connected[c]
    /\ Send(c, BadCommand)
    /\ step' = [step EXCEPT ![c] = "disconnect"]
    /\ UNCHANGED <<link, thread, toClient, connected, wanted, outcome, received, leftover>>
-------------------------------------------------------------------------------
\* The length of the longest prefix of a stream that is content of f.
Blocks(stream, f) ==
    Max({n \in 0 .. Len(stream) : \A k \in 1 .. n : stream[k] = Block(f)})

\* A slip for the mutation runs: what has arrived is taken for the content,
\* as one Read of the stream would.
ReceiveFileInOneRead(c) ==
    /\ step[c] = "receive"
    /\ toClient[c] # <<>>
    /\ IsHeader(Head(toClient[c]))
    /\ LET f == Head(toClient[c])[2]
           n == Min({Blocks(Tail(toClient[c]), f), Size[f]})
       IN  /\ received' = [received EXCEPT ![c] = @ \cup {<<f, n>>}]
           /\ toClient' = [toClient EXCEPT ![c] = SubSeq(@, n + 2, Len(@))]
    /\ UNCHANGED <<link, thread, toServer, connected, step, wanted, outcome, leftover>>

\* A slip for the mutation runs: the length of the content is read as that
\* of the last index.
ReceiveFileToLastIndex(c) ==
    /\ step[c] = "receive"
    /\ toClient[c] # <<>>
    /\ IsHeader(Head(toClient[c]))
    /\ LET f == Head(toClient[c])[2]
           n == Size[f] - 1
       IN  /\ Blocks(Tail(toClient[c]), f) >= n
           /\ received' = [received EXCEPT ![c] = @ \cup {<<f, n>>}]
           /\ toClient' = [toClient EXCEPT ![c] = SubSeq(@, n + 2, Len(@))]
    /\ UNCHANGED <<link, thread, toServer, connected, step, wanted, outcome, leftover>>

\* ReadBytes waits for the length it was given and, when the stream ends
\* first, returns what there is; the file is written all the same.
ReceiveFile(c) ==
    /\ step[c] = "receive"
    /\ toClient[c] # <<>>
    /\ IsHeader(Head(toClient[c]))
    /\ LET f == Head(toClient[c])[2]
           n == Min({Blocks(Tail(toClient[c]), f), Size[f]})
       IN  /\ n = Size[f] \/ link[c] = "ended"
           /\ received' = [received EXCEPT ![c] = @ \cup {<<f, n>>}]
           /\ toClient' = [toClient EXCEPT ![c] = SubSeq(@, n + 2, Len(@))]
    /\ UNCHANGED <<link, thread, toServer, connected, step, wanted, outcome, leftover>>

\* CreateDirectory or WriteAllBytes throws when the file was read off the
\* stream, and nothing on the way catches it.  A page keeps its connection,
\* with the rest of the answer in it.
ReceiveFileFails(c) ==
    /\ "unwritable" \in Faults
    /\ step[c] = "receive"
    /\ toClient[c] # <<>>
    /\ IsHeader(Head(toClient[c]))
    /\ LET f == Head(toClient[c])[2]
           n == Min({Blocks(Tail(toClient[c]), f), Size[f]})
       IN  /\ n = Size[f] \/ link[c] = "ended"
           /\ toClient' = [toClient EXCEPT ![c] =
                              IF c \in Pages THEN SubSeq(@, n + 2, Len(@)) ELSE <<>>]
    /\ Throws(c)
    /\ leftover' = [leftover EXCEPT ![c] = c \in Pages]
    /\ UNCHANGED <<thread, toServer, wanted, received>>

\* The end of the stream, where a name should begin or inside of one: the
\* first letter of a text is taken for the length of a name, which is more
\* than all the text the server ever sends.
ReceiveEnd(c) ==
    /\ step[c] = "receive"
    /\ link[c] = "ended"
    /\ toClient[c] # <<>> => IsText(Head(toClient[c]))
    /\ toClient' = [toClient EXCEPT ![c] = <<>>]
    /\ Returns(c)
    /\ UNCHANGED <<thread, toServer, wanted, received, leftover>>

\* Only the end of the stream is caught.
ReceiveReset(c) ==
    /\ step[c] = "receive"
    /\ link[c] = "reset"
    /\ toClient[c] = <<>>
    /\ Throws(c)
    /\ UNCHANGED <<thread, toServer, toClient, wanted, received, leftover>>

Receive(c) == ReceiveFile(c) \/ ReceiveEnd(c) \/ ReceiveReset(c)
-------------------------------------------------------------------------------
\* Exceptions are swallowed; one of SendExit leaves the socket to the
\* finalizer.
Disconnect(c) ==
    /\ step[c] = "disconnect"
    /\ Send(c, Exit)
    /\ link' = [link EXCEPT ![c] = "none"]
    /\ toClient' = [toClient EXCEPT ![c] = <<>>]
    /\ connected' = [connected EXCEPT ![c] = FALSE]
    /\ Begins(c, "connect")
    /\ UNCHANGED <<thread, leftover>>

\* The program is killed, and started anew.
Kill(c) ==
    /\ "kill" \in Faults
    /\ step[c] # "connect"
    /\ connected' = [connected EXCEPT ![c] = FALSE]
    /\ link' = [link EXCEPT ![c] = "none"]
    /\ toClient' = [toClient EXCEPT ![c] = <<>>]
    /\ Begins(c, "connect")
    /\ UNCHANGED <<thread, toServer, leftover>>

===============================================================================
