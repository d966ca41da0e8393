--------------------------- MODULE FTConnectedClient ---------------------------
(***************************************************************************)
(* Class FTConnectedClient: the thread that serves one connection of the   *)
(* FT server.  A file is read from the disk as a whole and written to the  *)
(* stream piece by piece.                                                  *)
(***************************************************************************)
EXTENDS FTConnection

VARIABLES
    pending,  \* what the thread has still to write
    cut       \* what ended the connection early, for the properties

ServerTypeOK ==
    /\ pending \in [Clients -> Seq(Items)]
    /\ cut \in [Clients -> {"no", "crash", "unreadable"}]

ServerInit ==
    /\ pending = [c \in Clients |-> <<>>]
    /\ cut = [c \in Clients |-> "no"]

\* A slip for the mutation runs: the first file of a directory is skipped.
FilesExceptFirst(d) ==
    IF Listing[d] = <<>> THEN <<>>
    ELSE FlattenSeq([k \in DOMAIN Tail(Listing[d]) |->
             <<Header(Tail(Listing[d])[k])>> \o Content(Tail(Listing[d])[k])])

\* Every file of the directory, in the order GetFiles returned them.
FilesOf(d) ==
    FlattenSeq([k \in DOMAIN Listing[d] |->
        <<Header(Listing[d][k])>> \o Content(Listing[d][k])])

\* What the thread did not read: all but the line it is at.
Unread(c) == IF thread[c] = "reading" /\ toServer[c] # <<>> THEN Tail(toServer[c]) ELSE toServer[c]

\* What the thread still says before the finally block closes the socket;
\* nobody hears it if the client is gone.  Lines that were never read may
\* make the close a reset, and what the client did not read yet is lost.
Finish(c, words) ==
    /\ thread' = [thread EXCEPT ![c] = "none"]
    /\ pending' = [pending EXCEPT ![c] = <<>>]
    /\ toServer' = [toServer EXCEPT ![c] = <<>>]
    /\ \/ link[c] = "none" /\ UNCHANGED <<link, toClient>>
       \/ /\ link[c] # "none"
          /\ link' = [link EXCEPT ![c] = "ended"]
          /\ toClient' = [toClient EXCEPT ![c] = @ \o words]
       \/ /\ link[c] # "none"
          /\ Unread(c) # <<>>
          /\ link' = [link EXCEPT ![c] = "reset"]
          /\ toClient' = [toClient EXCEPT ![c] = <<>>]

\* The line is next.
Reads(c, line) ==
    /\ thread[c] = "reading"
    /\ toServer[c] # <<>>
    /\ Head(toServer[c]) = line
-------------------------------------------------------------------------------
\* A slip for the mutation runs: the loop goes on to the next command, as if
\* "get" were tested in the chain of else.
HandleGetAndContinue(c) ==
    \E d \in Directories :
        /\ Reads(c, Get(d))
        /\ toServer' = [toServer EXCEPT ![c] = Tail(@)]
        /\ toClient' = [toClient EXCEPT ![c] = @ \o FilesOf(d) \o <<Done>>]
        /\ UNCHANGED <<link, thread, pending, cut>>

\* The handler does not leave the loop after "done": the line is no "exit",
\* so what follows is the answer to an invalid command, and the end.
HandleGet(c) ==
    \E d \in Directories :
        /\ Reads(c, Get(d))
        /\ thread' = [thread EXCEPT ![c] = "sending"]
        /\ pending' = [pending EXCEPT ![c] = FilesOf(d) \o <<Done, Error>>]
        /\ toServer' = [toServer EXCEPT ![c] = Tail(@)]
        /\ UNCHANGED <<link, toClient, cut>>

\* SendError and on to the next command.
HandleGetAbsent(c) ==
    \E d \in Absent :
        /\ Reads(c, Get(d))
        /\ toServer' = [toServer EXCEPT ![c] = Tail(@)]
        /\ toClient' = [toClient EXCEPT ![c] = IF link[c] = "none" THEN @ ELSE Append(@, Error)]
        /\ UNCHANGED <<link, thread, pending, cut>>

HandleExit(c) == Reads(c, Exit) /\ Finish(c, <<>>) /\ UNCHANGED cut

HandleInvalid(c) == Reads(c, BadCommand) /\ Finish(c, <<Error>>) /\ UNCHANGED cut

Write(c) ==
    /\ thread[c] = "sending"
    /\ pending[c] # <<>>
    /\ link[c] = "open"
    /\ toClient' = [toClient EXCEPT ![c] = Append(@, Head(pending[c]))]
    /\ pending' = [pending EXCEPT ![c] = Tail(@)]
    /\ UNCHANGED <<link, thread, toServer, cut>>

\* ReadAllBytes throws before anything of the file is written; Run catches
\* it and closes the connection.
Unreadable(c) ==
    /\ "unreadable" \in Faults
    /\ thread[c] = "sending"
    /\ pending[c] # <<>>
    /\ IsHeader(Head(pending[c]))
    /\ Finish(c, <<>>)
    /\ cut' = [cut EXCEPT ![c] = "unreadable"]

Sent(c) ==
    /\ thread[c] = "sending"
    /\ pending[c] = <<>>
    /\ Finish(c, <<>>)
    /\ UNCHANGED cut

\* The client is gone: ReadLine returns null, or a write fails.
EndOfStream(c) ==
    /\ link[c] = "none"
    /\ thread[c] # "none"
    /\ thread[c] = "reading" => toServer[c] = <<>>
    /\ Finish(c, <<>>)
    /\ UNCHANGED cut

Serve(c) ==
    \/ HandleGet(c) \/ HandleGetAbsent(c) \/ HandleExit(c) \/ HandleInvalid(c)
    \/ Write(c) \/ Sent(c) \/ EndOfStream(c)

===============================================================================
