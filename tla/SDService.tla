------------------------------ MODULE SDService ------------------------------
(***************************************************************************)
(* The Simple Document service: client programs, the connections they      *)
(* open, the thread the server starts for each, and the session table the  *)
(* threads share.                                                          *)
(***************************************************************************)
EXTENDS SDConnectedClient, FiniteSets

VARIABLES sessionID, calling, failed, got, posted

CONSTANTS
    Operations,  \* the calls the programs make
    GiveUp       \* BOOLEAN: does a program end at the first exception

ASSUME ProgramAssumption == Operations \subseteq Commands /\ GiveUp \in BOOLEAN

Client == INSTANCE SDClient

serverVars == <<sessionId, store>>
clientVars == <<sessionID, calling, failed, got, posted>>
vars == <<streams, serverVars, clientVars>>

TypeOK == StreamsTyped /\ ServerTypeOK /\ Client!ClientTypeOK

Init == ServerInit /\ Client!ClientInit

\* Connect of the client, Accept of the server and the start of the thread.
\* A client connects anew when the thread of its last connection has ended.
Connect(c) ==
    /\ ~connected[c]
    /\ thread[c] = "none"
    /\ connected' = [connected EXCEPT ![c] = TRUE]
    /\ thread' = [thread EXCEPT ![c] = "running"]
    /\ sessionId' = [sessionId EXCEPT ![c] = 0]
    /\ toServer' = [toServer EXCEPT ![c] = <<>>]
    /\ toClient' = [toClient EXCEPT ![c] = <<>>]
    /\ UNCHANGED <<store, clientVars>>

\* Bound: a session is only asked for while the table has ids left.
OpensUnread == {c \in Connections : \E k \in 1 .. Len(toServer[c]) : toServer[c][k] = Word("open")}

IdsLeft == nextSessionId + Cardinality(OpensUnread) <= MaxSessions

Call(c) ==
    \/ IdsLeft /\ Client!OpenSession(c)
    \/ \E id \in Ids : Client!ResumeSession(c, id)
    \/ Client!CloseSession(c)
    \/ \E name \in Names : Client!GetDocument(c, name)
    \/ \E name \in Names, text \in Texts : Client!PostDocument(c, name, text)

ClientStep(c) ==
    /\ \/ Call(c)
       \/ Client!Receive(c)
       \/ Client!Disconnect(c)
       \/ Client!Die(c)
       \/ Client!Break(c)
    /\ UNCHANGED serverVars

Next ==
    \/ \E c \in Connections :
          \/ Connect(c)
          \/ ClientStep(c)
          \/ Serve(c) /\ UNCHANGED clientVars
    \/ Expire /\ UNCHANGED clientVars

Spec == Init /\ [][Next]_vars

\* The threads of the server and the programs that wait for a reply go on.
Fairness ==
    \A c \in Connections :
        /\ WF_vars(Serve(c) /\ UNCHANGED clientVars)
        /\ WF_vars(Client!Receive(c) /\ UNCHANGED serverVars)

FairSpec == Spec /\ Fairness
-------------------------------------------------------------------------------
(***************************************************************************)
(* Client and thread agree where a message begins: whenever a program      *)
(* whose last call succeeded is between two calls, nothing is left unread  *)
(* in either direction.  Every handler must read exactly the lines the     *)
(* call sent, and every call exactly the lines the handler wrote.          *)
(***************************************************************************)
InStep ==
    \A c \in Connections :
        connected[c] /\ calling[c] = Client!NoCall /\ ~failed[c]
            => toServer[c] = <<>> /\ toClient[c] = <<>>

(***************************************************************************)
(* A document GetDocument returns was posted under that name in the        *)
(* session of the client that asks ("get server's response to our last get *)
(* request and return the content received"): whole, unless a connection   *)
(* broke inside that post.                                                 *)
(***************************************************************************)
GetReturnsPosted == \A c \in Connections : got[c] \subseteq posted

(***************************************************************************)
(* A close ends the session that the client named ("get the sessionId that *)
(* the client just asked us to close"), although the handler ends the one  *)
(* of its connection without a look at that id.  So the two ends must      *)
(* never be in different sessions when a close is sent, whatever was       *)
(* opened, resumed, closed or left before, on this connection or the last. *)
(***************************************************************************)
CloseStep ==
    \A c \in Connections :
        HandleClose(c) /\ open' # open => open' = open \ {toServer[c][2][2]}

ClosesWhatWasNamed == [][CloseStep]_vars

(***************************************************************************)
(* Every call of a client comes back, with a result or an exception: no    *)
(* handler waits for a line that never comes, and no call for a reply.  A  *)
(* connection that breaks is noticed by both ends.                         *)
(***************************************************************************)
CallReturns ==
    \A c \in Connections : calling[c] # Client!NoCall ~> calling[c] = Client!NoCall

===============================================================================
