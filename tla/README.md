# Formal model of the CST 415 network programs

The repository holds four small distributed programs in C#: a Port Reservation Server (PRS), a Simple
Document (SD) service, a File Transfer (FT) service, and browsers for the last two. This directory
holds TLA+ modules of them, the TLC configurations that check them on small instances, and proofs,
checked by TLAPS, of theorems that hold for every value of the constants. `PROJECT.json` maps every
definition to the lines it stands for and lists the runs, mutations, findings, hazards and theorems; this
file explains them.

## 1. The system

| Component | State it keeps | Operations | Modules |
|---|---|---|---|
| Port table: `PRS`, `PortReservation` | one entry per port: available, service name, time of the last sign of life; `stopped` | expiry before every message, REQUEST_PORT, KEEP_ALIVE, CLOSE_PORT, LOOKUP_PORT, STOP | `PortReservation`, `PortTable`, `PRS`; abstract `PortDirectory`; `PortTableProofs`, `PRSProofs` |
| Construction of the table: constructor of `PRS` | the array, a `ushort` index | fill, return | `PRSConstruct`, `PRSConstructProofs` |
| PRS host: `PRSServer-net9/Program.cs` | the UDP socket, the endpoint of the last datagram | receive, handle, answer; answer an error | receive loop in `PRS` and `PRSSystem`, range check in `PRSConstruct` |
| PRS client: `PRSLib/PRSClient.cs` | socket, `socketLock`, keep-alive task and its token | RequestPort, KeepPortAlive, StopKeepAlive, ClosePort, LookUpPort | `PRSClient`, composed in `PRSSystem`; `PRSSystemProofs` |
| PRS messages: `PRSLib/PRSMessage.cs` | - | encode, decode, send, receive | fields in `PortTable`, layout in `PRSMessage`, `PRSMessageProofs` |
| Session table: `SessionTable` | sessions with values and time of last access, next id, lock, cleanup task | Open, Resume, Close, Get, Put, Dispose, cleanup loop | `SessionCalls`, `SessionTable`; abstract `SessionStore`; `SessionTableProofs` |
| SD connection handler: `SDConnectedClient` | the socket's streams, `sessionId` | open, resume, close, get, post, end of connection | `SDConnection`, `SDConnectedClient` |
| SD client library: `SDLib/SDClient.cs` | connection, `sessionID` | the same calls from the other side | `SDClient` |
| SD service: `SDService.cs`, `Program.cs` | listening socket | reserve a port, renew it, bind, accept, start a thread | `SDService` (composition), `SDServiceProofs`; `PRSSystem` (its PRS calls and a failing bind) |
| FT connection handler: `FTConnectedClient` | the socket's streams | get, exit, invalid command, end of connection | `FTConnection`, `FTConnectedClient`; `FTServiceProofs` |
| FT client library and programs: `FTLib/FTClient.cs`, `FTClientProgram.cs` | connection, `connected` | Connect, GetDirectory, Disconnect | `FTClient`, composed in `FTService`; `FTServiceProofs` |
| MVC browser: `SDProtocolClient`, `FTProtocolClient`, `ContentFetcher`, `HomeController` | a session per SD server | fetch a document | `SDBrowser` over `SDService`, `SDServiceProofs`; its FT branch is a program of `FTService` |
| Razor browser: `Index.cshtml.cs` | one static client per protocol | fetch a document or a directory | a page of `SDBrowser` and of `FTService` |

Interaction. A service process asks the PRS for a port over UDP, starts a task that renews it, listens
on it, and gives it back. A client looks the port up, connects over TCP and exchanges lines with the
thread the service starts for it. All SD threads and a cleanup task share the session table under one
lock. The method calls of `PRSClient` share one UDP socket with its keep-alive task under another.

What is hard:

- *Concurrency*: two threads on one UDP socket whose answers carry no request number; any number of
  threads and a sweeper on one dictionary; a session resumed by one connection and closed by another.
- *Failure*: datagrams lost, delivered twice or late; a server that forgets its table; a service that
  dies with a port or cannot bind it; a TCP connection that ends inside a document or a file; exceptions
  that skip a disconnect.
- *Time*: leases measured with local wall-clock time; keep-alives that have to arrive in time; sessions
  that expire between two calls.
- *Order*: the SD protocol has no framing, so both sides must read exactly the lines the other wrote, on
  every error branch; the FT protocol marks neither the end of a directory nor a text.
- *Numbers*: an index of type `ushort` over a count of up to 65536; leases that end at a boundary.

What makes each part correct: a port has one holder and a service one port; a holder that renews keeps
its port and one that does not loses it; answers come from the current table; an answer reaches the
thread that asked; `ClosePort` gives back what it holds, nothing else, and returns; session ids are
unique for ever; a session is removed when it was idle too long and not before; session calls are
atomic; both ends of an SD connection agree where a message begins; a document comes back as posted;
a directory arrives whole; a browser shows what was posted in its own session and opens no more than one; every
call returns.

## 2. Plan

Order, most important first. All items are done.

1. The port table on its own with time, its abstract directory, and its proofs.
2. The table's constructor over machine integers, and its proof.
3. `PRSClient` (threads and lock) composed with server, network, crashes and time.
4. The session table at the level of its lock, its abstract store and its proofs; the SD protocol
   between clients and handler threads over that store.
5. The FT transfer: server thread and client on one stream, with a server that dies or cannot read a file.
6. The life of a service host: a bind that fails under a running keep-alive (in `PRSSystem`).
7. The browsers' sessions over `SDService`.
8. The 54-byte message format with its overlapping fields, and its proofs.
9. The system's theorems for any number of processes and connections: the lock discipline and the leases of
   `PRSSystem`, the phases of a call of `SDService`, the sessions of `SDBrowser`.
10. The theorems of the FT transfer: `FilesAreWhole` and `ReturnsWhole` (what was received, what is in the stream
   and what is still to be written make up the directory).

## 3. Modules

### Port table: `PortReservation`, `PortTable`, `PRS`, `PortDirectory`

An entry is a record `[available, serviceName, idle]`. The code stores `lastAlive` and subtracts it from
`DateTime.Now`; the model stores the difference, `idle`, which counts up to `IdleCap`. `PortTable` has
one operator per method of class `PRS`, from a table and a message to a table and an answer, so that `PRS`
and `PRSSystem` use the same definitions. The expiry that precedes every message is part of
`HandleMessage`, and runs twice for REQUEST_PORT, as in the code. In `PRS` any message over small sets of
names and ports may come at any time; `Tick` is the passing of a second, `MoveClock` a jump of the wall
clock. `quiet` is a history variable: the true time since the server last told somebody that it holds the
port. `exchange` is the last request with its answer.

`PortDirectory` has no clock, entries or expiry: holders may drop out whenever a message comes, and what
remains determines the answer. `PRS` implements it with `holder` taken from the entries.

A lookup of the empty name finds a free entry in the code, because names are compared without looking at
`available`; the directory promises nothing for it (`FindNameless`).

### Construction: `PRSConstruct`

The loop with its index modulo `Modulus` (65536 in the code) over every range the command line accepts up
to `MaxPorts` ports.

### Message format: `PRSMessage`

The buffer of a message as a function from its positions to bytes, filled in the order of `GetBytes`: type,
name without regard to the size of its field, port in network order, status. `FromBytes` takes the field of
the name and trims its zeros. The size of the field is a constant. The other modules have messages arrive as
they were sent, which `RoundTrip` shows to be so for names that fit; a name is its UTF-8 bytes.

### Client and system: `PRSClient`, `PRSSystem`

Per process: the calling thread `app`, the keep-alive task `task`, the lock, the token. A method is two
steps, "take the lock and send" and "receive, act and release", since the receive blocks with the lock
held. The order of the calls is that of `SDServer/Program.cs`, with a `ClosePort` that the process may
call at any time. Datagrams in flight and in a socket are sets, so that they are reordered freely. The
server takes one datagram per step. `Crash` loses the table; `Restart` kills a process and starts it anew
with a new socket. `BindFails` is a listener that cannot be bound: the program waits for a key while its
task renews the port. `ReceiveThrows` is the catch of the server's loop: an answer to a socket that is gone
may come back as an exception of the next receive, and the catch answers the endpoint of the last datagram,
whoever that is by then. The FT server's program makes the same calls, from two sockets, without ClosePort. With `Prompt` time only passes when neither a thread nor a datagram has anything to
do; without it every delay is possible.

### Session table: `SessionCalls`, `SessionTable`, `SessionStore`

`SessionTable` splits every method where another thread could be if the lock did not keep it out: enter,
take the id, insert; find the session, use it; scan, remove one by one, leave. `idle` is the time since
`LastAccessed`, touched where the code touches it (not by `ResumeSession`). `SessionStore` says what the
class comment promises, "thread safe collection": each call takes effect at once, ids are never given out
twice, a session may drop out at any time.

### SD protocol: `SDConnection`, `SDClient`, `SDConnectedClient`, `SDService`

A connection is two sequences of lines. A line is a word (a command, a status, a name), an id, a length or
the text of a document; a reader can tell them apart just as far as `TryParse` and string comparison can.
`SDClient` has a step per call for what it sends and one for what it reads: `Reads` is the number of lines
it takes from a reply on each branch. `SDConnectedClient` has one step per command for what the handler
reads, does to the session table and writes. The table in it is the atomic store, which `SessionTable` is
proved to implement; `Expire` is its sweep. `Cut` stands for a document that broke off. The disk is no
part of the state, because no handler reads a file: a post to a name with "/" succeeds or fails. When a
thread closes a connection with lines unread, TCP sends a reset, and the reset may overtake what was
written before (`HandleOther`). `Break` is a connection that breaks under both ends at any moment: `thread`
becomes "broken", the thread still handles what reached it, a document may be cut off, and a reply that was
written may or may not reach the client, so that an open can throw after the server opened the session.
`Fragile` is the set of clients it happens to. `GiveUp` says whether a program ends at its first exception, as
`SDClient/Program.cs` does.

### FT transfer: `FTConnection`, `FTConnectedClient`, `FTClient`, `FTService`

A connection is a sequence of commands and a sequence of items: the name and length of a file, one block of
its content, a text. A get makes the thread write the directory, `done` and, because the handler falls into
the `else` of its exit test, an error, and then close the connection. A client reads items until the stream
ends: `ReceiveFile` waits for the length it was told and takes less when the stream ends first; a text is
read as the length of a name ('d' and 'e' are 100 and 101, more than all the text the server ever sends), so
it ends at the end of the stream (`ReceiveEnd`). `Connect` swallows every exception, so `GetDirectory` may
run without a connection and returns at once. A program connects, gets and disconnects; a *page* keeps its
object and never disconnects. Faults: the server dies (its connections end, or are reset and lose what was
not read), a file cannot be read, a client cannot write a file (`ReceiveFileFails`: only the end of the stream
is caught, so a program ends, while a page stays connected with the rest of the answer in its stream), the
server is not found, a program is killed. `leftover` marks a page that gave up an answer that way. The page asks the PRS for
"FTClient" while the server registers "FT Server": its lookup fails unless a service of that name exists,
which is the fault "refused".

### Browsers: `SDBrowser`

`SDBrowser` extends `SDService` with requests of browsers; the connections that are not browsers are command
line programs. A request of `SDProtocolClient` is: look up, connect, open or resume, get, disconnect; every
step may throw, and an exception skips the disconnect. `entry` is the session in the dictionary, 0 from its
creation until the id arrives. `kind` says which program a browser is: one protocol client for all requests,
which is what the class is written for; a new one per request, which is what the controller makes because
the fetcher is transient; or a Razor page, whose one `SDClient` knows no session. The lookup succeeds, fails,
or is lost (`LookupLost`): `LookUpPort` receives without a timeout, so that request stays in phase "lost" for
ever. `opener` is a history variable: for whom the thread opened a session.

## 4. Runs

| Run | Instance | What it shows |
|---|---|---|
| `prs_table` | 2 ports, 2 services and the empty name, a port out of range, timeout 2 s, clock set back by 3 s at most once | `UniqueService`, `FreeIsBlank`, `NoStaleAnswer`, `LeaseHonoured`, and `ImplementsDirectory` (refinement) |
| `prs_system` | 2 processes, each started twice, one of which may fail to bind, prompt network, fairness | `HoldsItsPort`, `CloseAnswered`, `CloseSparesOthers`, `CloseCompletes` |
| `prs_unreliable` | 1 process started twice, one loss, one duplicate, one crash of the server, one receive that throws, arbitrary delays | `RepliesMatch`, `ClosedIsFree` |
| `prs_construct` | every range of a 16-value port type except the full one | `EveryPortOnce`, `Terminates` |
| `session_table` | 2 threads, 2 sessions, timeout and interval 1, fairness | `IdsNeverReused`, `SweepSparesUsed`, `AbandonedGoes`, `ImplementsStore` (refinement) |
| `sd_service` | 2 clients that give up on an exception, one of which may lose its connection, 1 session, a session name and a file name, fairness | `InStep`, `GetReturnsPosted`, `CallReturns` |
| `ft_service` | 1 program, 1 page, a directory of files of 0 and 2 blocks, an empty one and an absent one, all faults, fairness | `FilesAreWhole`, `ReturnsWhole`, `GetReturns` |
| `sd_browser` | 1 browser of any kind, whose connection may break, 1 program, a session name and a file name, 2 sessions, fairness | `AnswersFromItsSession`, `SessionTracked`, `ClosesWhatWasNamed`, `RequestReturns` |
| `prs_late_close` | 2 processes, 1 port, slow network without faults | **violated** `CloseSparesOthers` |
| `prs_construct_full` | the full range too | **violated** `Terminates` |
| `sd_misread` | 1 client that goes on after an exception | **violated** `GetReturnsPosted` |
| `ft_page` | 1 page, no faults | **violated** `PageTellsTheTruth` |

Each passing run also checks the type invariant of its module.

What the violations show:

- `prs_late_close`: CLOSE_PORT frees the port it names whoever holds it, so one that arrives after its
  sender's lease has lapsed takes the port from its next holder.
- `prs_construct_full`: for the range 0 to 65535 the index wraps and the constructor never returns.
- `sd_misread`: `ReceivePostResponse` leaves the reason of a refused post in the stream. The next get reads
  it and throws; the get after that returns the previous one's document.

- `ft_page`: the server closes the connection after a get and the page never notices; its second get
  receives nothing and is reported as a download.

More that the models show without a run of their own:

- A request delivered twice leaves a second answer in the socket, which the next receive takes for its own;
  so does the error that `ReceiveThrows` sends to whoever asked last. `RepliesMatch` therefore speaks of
  behaviours without either.
- A lost datagram leaves a thread in a receive without a timeout, with the lock held: with `MaxLost` = 1 in
  `prs_system`, `CloseCompletes` fails.
- `Expired` compares two readings of `DateTime.Now`: with a clock that jumps forward by more than the
  timeout (a positive number in `ClockSteps`) `LeaseHonoured` fails. The theorem assumes that it does not.
- Once a connection's session is closed, the handler refuses to open or resume another, because it never
  resets its `sessionId`.
- A get of a directory that does not exist hangs client and thread for ever, each waiting for the other;
  `GetReturns` speaks of directories that exist, and without faults TLC reports the deadlock.
- A page that could not write a file of one directory writes the rest of that answer under the name of the
  next directory it asks for: `FilesAreWhole` says which directory only for clients without a `leftover`.
- A kept `SDProtocolClient` that saw an exception of a get stays connected, and every later request throws;
  one whose first open failed resumes session 0 for ever, and if the open threw after the server had opened,
  that session is left to the cleanup loop. `RequestReturns` allows all of these (an exception is an answer),
  and `SessionTracked` names the last. The controller makes a client per request today, which meets none of
  them and leaves every session to the cleanup loop.
- `SDClient/Program.cs -c id` never hands the id to its client, which sends its own session, 0; the server has no
  session for that connection either and answers with an error, so nothing is closed. In the model it is a CloseSession on a new connection.
- A lookup of a browser that loses a datagram never comes back; `RequestReturns` excepts exactly that.

### Bounds

- *Two ports, three names* fill the table and leave one service without a port, and allow the lowest free
  port to be either. The proofs cover any number.
- *Timeout 2, caps*: `idle` counts up to `IdleCap` = 6, the timeout plus one plus the size of the jump, so a
  saturated age is past the timeout before and after it. `quiet` needs only the timeout plus one.
- *Delay 1 of timeout 2* keeps the proportion of the code's 5 s in the server's 10 s. `MaxStarts` = 2: one death at any point.
- *One loss, duplicate, crash and error of a receive*: each is enough for every effect in the code that one
  alone can have; with one process and its successor, since answers to different processes go to different
  sockets. What the server remembers of the last sender is dropped once the bound on errors is reached.
- *16 port numbers*: the wrap happens at the width, whatever it is; the theorem is for every width.
- *Two threads and the sweeper* are all the pairs that compete for the lock; two sessions let an id be
  reused if it could be. Values are one, since a second adds no order of steps; proved for any.
- *Two connections, of which one is `Fragile`, one session*: shared, closed or expired under the other; ids are separate in the store,
  which is checked with more in `session_table`. One content beside the truncated one, because nothing in
  the handlers compares contents but for emptiness.
- *Files of 0 and 2 blocks* in an order that puts the empty one first: a file can break off before, inside
  and at the end, and be the first or the last whose writing fails. One program and one page share nothing but the server's death.
- *One browser* of any kind, beside one program that resumes its sessions, posts to them and closes them: two
  sessions let a browser open a second, and client and thread be in different ones.
- *A name field of two bytes* in the sample of `MCPRSSystem`, which puts every name of up to five bytes over
  three values through the layout; the proofs are for every size.
- `IdsLeft`, `IdsLeftFor` and the guard of `Enter` keep calls of OpenSession within `MaxSessions`: a call that would
  exceed it is not made.

### Fairness

- `PRSSystem`: threads and the task go on when they can, a server that is down is started again, and the
  datagrams of each process are served: the server's socket is a queue, so nobody's datagram is passed for
  ever. Callers' choices (to close, to look up, to die) are not fair, and neither is time.
- `SessionTable`: a thread inside the lock goes on and time passes. The sweeper gets a lock that is
  released again and again (strong fairness): the .NET monitor stops letting others overtake a waiter that
  starves. That a thread ever calls again is not assumed.
- `SDService`: threads of the server and programs that wait for an answer go on. Expiry, calls and
  deaths are not fair.
- `FTService`: threads of the server and clients that wait for bytes go on; calls and faults are not fair.
- `SDBrowser`: as `SDService`, and a request that was accepted goes on, except in a lookup that was lost.
  Neither a break of a connection nor the loss of a lookup is fair; that both ends notice a break is.
- `PRSConstruct`: the loop goes on.

Deadlock is checked in all runs but those of `PRSConstruct`, which ends.

## 5. Proofs

Theorems are for all values of the constants under the ASSUMEs of the modules (sets of names, a timeout in
`Nat`, and special values distinct from the rest); TLC evaluates those assumptions in the runs.

| Module | Theorem | Argument |
|---|---|---|
| `PRSProofs` | `TypeCorrect` | each method keeps the table's type |
| | `UniqueServiceHolds`, `FreeIsBlankHolds` | the invariant `Order`: types, unique names, blank free entries. Both are needed together: REQUEST_PORT scans names, and only blank free entries make the scan mean "holders" |
| | `LeaseHonouredHolds` | assumes the clock is never set forward. `NotOlder`: the server never believes a live reservation to be older than it is |
| | `NoStaleAnswerHolds` | `NotYounger`: until the clock is moved, the server never believes a reservation younger than it is; with the expiry first in every message nothing overdue remains |
| | `DirectoryImplemented` | step by step under `Order`: expiry maps to dropping out, each handler to one action of the directory |
| `PRSConstructProofs` | `TypeCorrect`, `EveryPortOnceHolds` | `Filled`: the slots below the index hold their ports, and the index stays below the width |
| `PRSSystemProofs` | `SystemTypeCorrect` | `Typed`: an answer on its way carries a port of the table or none |
| | `ClosedIsFreeHolds` | `Settling`: see below; services have distinct names |
| | `RepliesMatchHolds`, `CloseAnsweredHolds` | `Discipline`: see below |
| | `HoldsItsPortHolds`, `CloseSparesOthersHolds` | `Keeping`: see below; under `Calm` |
| `SDServiceProofs` | `ServiceTypeCorrect` | `Typed`: besides types, no handler is in a session that was not given out yet |
| | `InStepHolds`, `GetReturnsPostedHolds`, `ClosesWhatWasNamedHolds` | `Phases`: see below; under `GiveUp` |
| | `BrowserTypeCorrect`, `AnswersFromItsSessionHolds`, `SessionTrackedHolds`, `BrowserClosesWhatWasNamed` | `Browsing` and `Openers`: see below; under `GiveUp` |
| `FTServiceProofs` | `TypeCorrect` | each action keeps the types; what `ReceiveFile` takes never exceeds the stream (`FileNext`) |
| | `FilesAreWholeHolds`, `ReturnsWholeHolds` | `IInv`: see below |
| `PRSMessageProofs` | `RoundTrip` | the bytes of each field (`BufferBytes`); the zeros behind a name that ends in none are trimmed and nothing else (`TrimmedField`); the two bytes of a port are the port |
| | `LongNameIsCut` | the field of a name that is too long holds its first bytes, and port and status lie over the rest |
| `SessionTableProofs` | `TypeCorrect`, `IdsNeverReusedHolds`, `SweepSparesUsedHolds` | `IInv`: whoever is inside has the lock (`Exclusive`), the id taken is the next (`Numbered`), the session found is still open (`Found`), what the sweep will remove is still overdue (`Overdue`), results belong to finished calls (`Answered`) |
| | `StoreImplemented` | the effect of a call is its one step that sets the result; all others stutter |

The lemmas on the methods of the table are in `PortTableProofs`, which `PRSProofs` and `PRSSystemProofs` share.

### The system of processes (`PRSSystemProofs`)

Two invariants on top of a first one.

`Discipline` is what the socket lock achieves. `Locked`: the lock is held by exactly the thread that is blocked
in a receive, and a process without a task has none. `Matched`: as long as nothing was delivered twice and no
receive of the server threw, the requests of the socket that is open now and the answers in it are together at
most one, and that one is of the kind the holder waits for. `CloseSeen`: a ClosePort that is past its receive, or has its
answer in the socket, was handled. `RepliesMatch` is not inductive without it: that the answer in the socket
is the right one follows from there having been one request and nothing else.

`Settling` follows a process from its grant to its end (`First`). From the grant on the table has at most the port
it was granted under its name (`Entered`), a grant that is still in the socket names that port, and its
CLOSE_PORT does too; once the answer to that is in the socket, or was received, the table has none. Nothing enters
the name again, because only a REQUEST_PORT enters one (`EntersOnlyOnRequest`), every REQUEST_PORT carries its
sender's name (`Named`), and by `Discipline` the one of this process was consumed. That a KEEP_ALIVE may be
handled after the close, since the task is cancelled only then, is therefore harmless. It is stated for a process that
was not started again, for a successor's request under the same name may be on its way; it needs neither time nor a reliable network, only that
nothing was delivered twice and no receive threw.

`Keeping` adds time. `Renewing`: the age of a holder's entry and what is left of its task's delay make
at most the delay, so that the entry is renewed before it can expire. `AnswersHold`: a grant or a renewal that is still in the
socket speaks of an entry that is fresh. `RequestsHold`: a CLOSE_PORT on its way names a port that is still its sender's.
The assumption `Calm` says what this depends on: time passes only when nobody has anything to do
(`Prompt`), nothing is lost, doubled or crashes, the delay is at most the timeout (5 s of 10 s in the code) and
no two processes register the same service. Each is needed: the run `prs_late_close` shows what a slow
network does, and a lost datagram leaves a thread in its receive. `MCPRSSystem.cfg` is an instance of `Calm`.

### The SD protocol (`SDServiceProofs`)

The streams have no framing, so an invariant has to say what is in them. `Phases` says it by the phase of the
call: the client is *gone*; *idle*, with both streams empty; *asking*, with exactly the lines of its call in one stream
and none in the other (`Carries`); *answered*, with exactly one reply to the call (`Granted` or `Refusal`) and nothing
left to read for the thread; *doomed*, when the reply is a refusal or the connection was closed, so that the
call ends or has ended in an exception, with what the thread left unread (`Rest`) behind it; or *severed*, when
the connection broke in a call, and the thread may still read all of the call, a post that was cut off, or what a
refusal left (`Left`), while nothing reaches the client any more. `Agreed` ties the session of the handler to that of
the client while it is open, and `ValuesPosted` the store to what was posted. The six phases are
needed together: each handler takes asking to answered or doomed, each receive takes those to idle or to an
exception, and a break leaves a call answered, doomed or severed.

`GiveUp` is an assumption of these theorems: a program makes no call on a connection after an exception.
`SDClient/Program.cs` ends at its first one; a request of a browser ends there too, and the next one finds its client
still connected, throws in `Connect` and calls nothing. Without it they are false, which the run
`sd_misread` shows. `ClosesWhatWasNamed` is needed because the handler ends the session of its connection without
comparing it with the id it was sent.

For the browsers the actions of `SDBrowser` are shown to make steps of `SDService` (`Step`), so that `Phases` carries
over. `Browsing` ties the step of a request to its entry and to the call its client is in: what a browser shows
is what its client got, in the session of its entry. `Openers` is about whom sessions were opened for. For a browser
that is kept, `Held` says that at most one was, and where its id is: not given out yet (`Opening`), in the reply on its way or
lost with it (`Opened`), in the entry, or nowhere any more because the open threw (`Lost`); for this what its thread
has still to read must be nothing or one call whole (`Waits`), and an open in it has not opened anything. Command line programs are
tracked too (`Console`), since they resume sessions they did not open. `BrowserAssumption` says that
`Nobody` is no browser and that there is a name to ask for.

### The FT transfer (`FTServiceProofs`)

Both properties speak of what the client has when a call ends; the invariant has to say what it has before
that. While a get is answered, there are numbers r and m (`Reached`) such that the client wrote the first r
files of the directory, the stream holds the items of the reply after these files up to item m, and the thread
has still to write the items after m (`Serving`). When the connection has ended (`Over`, `Complete`), m is the
end of the reply; or the end of a file, if the next one could not be read; or anything, if the server died.
`Waits` and `Refused` are the get before the server read it and after it found no such directory. `Linked`
ties the client's view of the connection to the thread, and `Phase` all of this to the call the client is in:
a program begins each get with empty streams, which is why nothing of an older answer can be in them. These phases
hold for a client without a `leftover`. A page that gave up an answer reads on in the middle of it; for it `Base` keeps
what does not depend on the directory: every file that begins in the stream, or in what the thread has still to write,
is there as a whole (`Framed`), unless the server died, so what the page writes is whole (`WholeSoFar`).

The steps of the client need to know where the files lie in the reply. Its items are a concatenation over all
files of the directory (`FlattenSeq`, a recursive function), so this is an induction over their number
(`AllLaidOut`): every file is at its `Offset`, its header first and then as many blocks as its size (`Lies`),
and no header is anywhere else (`Begun`). The library's induction theorems take an operator and cannot be
used; `SetInduction` states induction for a set of naturals and follows from `WFMin`. With it `TakeFile` says
that a client that reads a header gets that very file, and all of it unless the stream ends inside.
`HeaderAtOffset` says that a thread that fails to read a file has written whole files up to there, and
`TextLeft` that a client that meets the end, or the text, where a name should be, has all of them, if the
reply was complete.

`ReturnsWhole` leaves the pages out: their second get goes over the connection that the server closed after
the first (run `ft_page`).

### Only model-checked

Liveness (`CloseCompletes`, `AbandonedGoes`, `Terminates`, `CallReturns`, `GetReturns`, `RequestReturns`) is
out of the prover's reach. Every other property of the passing runs is a theorem.

## 6. Not modelled

- A cleanup interval or timeout that is negative; jumps of `DateTime.UtcNow` in the session table.
- A post with a negative length, on which the handler's thread throws an exception nobody catches: the client
  library never sends one.
- Stopping the SD service: `Stop` is never called.
- Argument parsing, console output, file contents, test projects, web assets.
- The accept loop of the FT server, whose class is not in the repository; the idle second connection of
  `FTClientProgram`; `FileTransferClient.cs`, an older copy of `FTClient`.
- Requests that overlap on a static client of the Razor page: their lines and bytes mix on one stream.
- That `SimpleDocumentService.Start` never returns: `PRSSystem` lets `ClosePort` be called at any time, as the
  program text has it, though it is not reached. The pause after a failed accept.
- Anything of a message that is not 54 bytes long, and the decoding of a name cut inside a letter.
- A crash of the SD server. Its table is in memory and its ids begin at 1 again, so that a browser that resumes
  an id from before may find itself in the session of another client. No doc or comment promises anything across it.
- A connection that goes dead silently, without the other end being told: the reads of `SDClient` and of the
  handlers have no timeout and wait for ever. `Break` is always noticed.
- A call on a connection that broke whose lines are cut in the middle: a command that lacks a letter has no more
  effect than one that was lost, and the model loses it or has it arrive, as it does ids and names.
- A `Disconnect` that throws because the connection broke before it; in the model it succeeds. A kept browser client would
  stay connected and throw in every later `Connect`, as it does after an exception of a get.
