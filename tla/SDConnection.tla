----------------------------- MODULE SDConnection -----------------------------
(***************************************************************************)
(* A TCP connection between an SD client and the thread that serves it,    *)
(* and the lines of the SD protocol that travel on it.  Both sides read    *)
(* with ReadLine; what a line is depends only on where the reader thinks   *)
(* it is, so a line is kept as a word (a command, a status or a document   *)
(* name, all of them strings) or as a tagged value.                        *)
(***************************************************************************)
EXTENDS Naturals, Sequences

CONSTANTS
    Connections,  \* the clients, each with its connection and its thread
    Names,        \* document names
    FileNames,    \* those that begin with "/"
    Texts,        \* document contents, "" for the empty one
    Fragile,      \* bound: the clients whose connection may break
    MaxSessions   \* bound: sessions opened in a behaviour

ASSUME ConnectionAssumption ==
    /\ FileNames \subseteq Names
    /\ MaxSessions \in Nat

VARIABLES
    connected,  \* the client's end is open
    thread,     \* the thread of the server: "none", "running", or "broken"
                \* once the connection broke under both ends
    toServer,   \* lines sent and not yet read
    toClient

streams == <<connected, thread, toServer, toClient>>

Ids == 1 .. MaxSessions
AnyId == Ids \cup {0}

Word(w) == <<w>>
IdLine(id) == <<"id", id>>
LengthLine(text) == <<"length", text>>
Reason == Word("the reason")

\* What one end sends reaches the other.
Alive(c) == connected[c] /\ thread[c] = "running"

\* The empty string, as a line, a name or a document.
Empty == ""

\* A document ends where its length says; an empty one takes no reading.
Content(text) == IF text = Empty THEN <<>> ELSE << <<"text", text>> >>

\* What the reader gets when the stream ends inside a document.
Cut == "cut"

Commands == {"open", "resume", "close", "get", "post"}
Statuses == {"accepted", "rejected", "closed", "success", "error"}

Lines ==
    {Word(w) : w \in Commands \cup Statuses \cup Names} \cup {Reason}
        \cup {IdLine(id) : id \in AnyId}
        \cup {<<tag, text>> : tag \in {"length", "text"}, text \in Texts \cup {Cut}}

\* ulong.TryParse and int.TryParse succeed.
IsId(line) == Len(line) = 2 /\ line[1] = "id"
IsLength(line) == Len(line) = 2 /\ line[1] = "length"

StreamsTyped ==
    /\ connected \in [Connections -> BOOLEAN]
    /\ thread \in [Connections -> {"none", "running", "broken"}]
    /\ \A c \in Connections :
          /\ \A k \in 1 .. Len(toServer[c]) : toServer[c][k] \in Lines
          /\ \A k \in 1 .. Len(toClient[c]) : toClient[c][k] \in Lines

Drop(stream, n) == SubSeq(stream, n + 1, Len(stream))

===============================================================================
