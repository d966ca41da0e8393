------------------------------ MODULE FTService ------------------------------
(***************************************************************************)
(* The File Transfer service: client programs and pages, their connections *)
(* and the threads of the server, which may die and be started again.      *)
(***************************************************************************)
EXTENDS FTConnectedClient, FiniteSets

CONSTANT
    Pages  \* the clients that are a Razor page

ASSUME PagesAssumption == Pages \subseteq Clients

VARIABLES connected, step, wanted, outcome, received, leftover

Client == INSTANCE FTClient

serverVars == <<pending, cut>>
clientVars == <<connected, step, wanted, outcome, received, leftover>>
vars == <<streams, serverVars, clientVars>>

TypeOK == StreamsTyped /\ ServerTypeOK /\ Client!ClientTypeOK

Init == StreamsInit /\ ServerInit /\ Client!ClientInit

Connect(c) ==
    \/ /\ Client!ConnectSucceeds(c)
       /\ cut' = [cut EXCEPT ![c] = "no"]
       /\ UNCHANGED pending
    \/ Client!ConnectDoesNothing(c) /\ UNCHANGED serverVars

ClientStep(c) ==
    /\ \/ \E d \in Directories \cup Absent : Client!GetDirectory(c, d)
       \/ Client!SendInvalidMessage(c)
       \/ Client!Receive(c)
       \/ Client!ReceiveFileFails(c)
       \/ Client!Disconnect(c)
       \/ Client!Kill(c)
    /\ UNCHANGED serverVars

ServerStep(c) == (Serve(c) \/ Unreadable(c)) /\ UNCHANGED clientVars

\* The server dies and is started again.  Its connections end or are reset;
\* a reset loses what was not yet read.
Crash ==
    /\ "crash" \in Faults
    /\ \E c \in Clients : thread[c] # "none"
    /\ \E resets \in SUBSET {c \in Clients : thread[c] # "none" /\ link[c] = "open"} :
          /\ \A c \in Clients : link[c] = "open" /\ toServer[c] # <<>> => c \in resets
          /\ link' = [c \in Clients |->
                IF c \in resets THEN "reset" ELSE IF link[c] = "open" THEN "ended" ELSE link[c]]
          /\ toClient' = [c \in Clients |-> IF c \in resets THEN <<>> ELSE toClient[c]]
    /\ cut' = [c \in Clients |-> IF thread[c] # "none" THEN "crash" ELSE cut[c]]
    /\ thread' = [c \in Clients |-> "none"]
    /\ toServer' = [c \in Clients |-> <<>>]
    /\ pending' = [c \in Clients |-> <<>>]
    /\ UNCHANGED clientVars

Next ==
    \/ \E c \in Clients : Connect(c) \/ ClientStep(c) \/ ServerStep(c)
    \/ Crash

Spec == Init /\ [][Next]_vars

\* The threads of the server and the clients that wait for bytes go on.
Fairness ==
    \A c \in Clients :
        /\ WF_vars(Serve(c) /\ UNCHANGED clientVars)
        /\ WF_vars(Client!Receive(c) /\ UNCHANGED serverVars)

FairSpec == Spec /\ Fairness
-------------------------------------------------------------------------------
Whole(d) == {<<Listing[d][k], Size[Listing[d][k]]>> : k \in DOMAIN Listing[d]}

(***************************************************************************)
(* Every file a client writes is whole unless the server died while it     *)
(* sent it, and it is one of the directory the client asked for, unless    *)
(* the client is a page that could not write a file before: the rest of    *)
(* that answer is then written under the name of the next directory.       *)
(***************************************************************************)
FilesAreWhole ==
    \A c \in Clients : \A file \in received[c] :
        /\ file[2] = Size[file[1]] \/ cut[c] = "crash"
        /\ ~leftover[c] =>
              /\ wanted[c] \in Directories
              /\ \E k \in DOMAIN Listing[wanted[c]] : Listing[wanted[c]][k] = file[1]

(***************************************************************************)
(* GetDirectory returns to a connected program only with the whole         *)
(* directory, unless the server died or could not read a file.  Nothing in *)
(* the stream marks the end of a directory: the client takes the end of    *)
(* the stream for it.                                                      *)
(***************************************************************************)
ReturnsWhole ==
    \A c \in Clients \ Pages :
        connected[c] /\ outcome[c] = "returned" /\ cut[c] = "no"
            => wanted[c] \in Directories /\ received[c] = Whole(wanted[c])

(***************************************************************************)
(* A get of a directory that exists comes back.  The client waits for the  *)
(* end of the stream, so the server must close the connection after it.    *)
(***************************************************************************)
GetReturns ==
    \A c \in Clients :
        step[c] = "receive" /\ wanted[c] \in Directories ~> step[c] # "receive"

(***************************************************************************)
(* A page that says "Downloaded directory" has its files ("Downloaded      *)
(* directory '{searchName}' from FT server.").                             *)
(***************************************************************************)
PageTellsTheTruth ==
    \A c \in Pages :
        outcome[c] = "returned" /\ cut[c] = "no"
            => wanted[c] \in Directories /\ received[c] = Whole(wanted[c])

===============================================================================
