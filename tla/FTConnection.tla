----------------------------- MODULE FTConnection -----------------------------
(***************************************************************************)
(* A TCP connection between an FT client and the thread that serves it.    *)
(* Commands are lines.  What the server answers is binary for a file (its  *)
(* name and length, then its content) and text for everything else, and    *)
(* nothing in the stream says which of the two comes next.                 *)
(***************************************************************************)
EXTENDS Naturals, Sequences, SequencesExt

CONSTANTS
    Clients,   \* the client programs, each with its connection and thread
    Listing,   \* the directories of the server, each as GetFiles lists it
    Absent,    \* names under which the server has no directory
    Size,      \* the length of every file, in blocks
    Faults     \* what may go wrong: see AnyFault

Directories == DOMAIN Listing
Files == DOMAIN Size

\* The server dies, cannot read a file or is not found; a client cannot write
\* a file or is killed.
AnyFault == {"crash", "unreadable", "refused", "unwritable", "kill"}

ASSUME ListingAssumption ==
    /\ \A d \in Directories : Listing[d] \in Seq(Files) /\ IsInjective(Listing[d])
    /\ \A f \in Files : Size[f] \in Nat
    /\ Absent \cap Directories = {}
    /\ Faults \subseteq AnyFault

VARIABLES
    link,      \* the connection as the client's socket sees it
    thread,    \* the thread of the server: "none", "reading" or "sending"
    toServer,  \* commands sent and not yet read
    toClient   \* what was written and not yet read

streams == <<link, thread, toServer, toClient>>

Get(d) == <<"get", d>>
Exit == <<"exit">>
BadCommand == <<"badcommand">>
Lines == {Get(d) : d \in Directories \cup Absent} \cup {Exit, BadCommand}

\* The name and the length of a file, one block of its content, a text line.
Header(f) == <<"file", f>>
Block(f) == <<"block", f>>
Done == <<"text", "done">>
Error == <<"text", "error">>
Items == {Header(f) : f \in Files} \cup {Block(f) : f \in Files} \cup {Done, Error}

IsHeader(item) == item[1] = "file"
IsText(item) == item[1] = "text"

Content(f) == [k \in 1 .. Size[f] |-> Block(f)]

StreamsTyped ==
    /\ link \in [Clients -> {"none", "open", "ended", "reset"}]
    /\ thread \in [Clients -> {"none", "reading", "sending"}]
    /\ toServer \in [Clients -> Seq(Lines)]
    /\ toClient \in [Clients -> Seq(Items)]

StreamsInit ==
    /\ link = [c \in Clients |-> "none"]
    /\ thread = [c \in Clients |-> "none"]
    /\ toServer = [c \in Clients |-> <<>>]
    /\ toClient = [c \in Clients |-> <<>>]

===============================================================================
