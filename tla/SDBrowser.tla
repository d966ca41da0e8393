------------------------------ MODULE SDBrowser ------------------------------
(***************************************************************************)
(* The web browsers as clients of the Simple Document service.  Class      *)
(* SDProtocolClient keeps the session it has with a server, and opens or   *)
(* resumes it for every document; the MVC controller makes a new one for   *)
(* every request.  The Razor page has one SDClient for all its requests    *)
(* and knows no session.  The other clients are SD command line programs.  *)
(***************************************************************************)
EXTENDS SDService

CONSTANT
    Browsers  \* the clients that are browsers

\* For a session that was opened for nobody.
Nobody == "nobody"

ASSUME BrowserAssumption ==
    /\ Browsers \subseteq Connections
    /\ Nobody \notin Browsers
    /\ Names # {}

VARIABLES
    kind,    \* which program a browser is; it never changes
    phase,   \* where GetDocument of a browser is
    asked,   \* the document it was asked for
    entry,   \* its entry in the dictionary of sessions
    answer,  \* the document it returned, none for an exception
    opener   \* who a session was opened for, for the properties

requestVars == <<kind, phase, asked, entry, answer, opener>>
allVars == <<vars, requestVars>>

\* Browsers whose SDProtocolClient serves every request, those with a new
\* one for every request, and Razor pages.
Kept == {b \in Browsers : kind[b] = "kept"}
PerRequest == {b \in Browsers : kind[b] = "per request"}
Pages == {b \in Browsers : kind[b] = "page"}

NoEntry == MaxSessions + 1

BrowserTypeOK ==
    /\ TypeOK
    /\ kind \in [Browsers -> {"kept", "per request", "page"}]
    /\ phase \in [Browsers -> {"none", "lookup", "lost", "connect", "open", "resume",
                               "accept", "get", "content"}]
    /\ asked \in [Browsers -> Names]
    /\ entry \in [Browsers -> AnyId \cup {NoEntry}]
    /\ \A b \in Browsers : answer[b] \subseteq Client!Documents
    /\ opener \in [Ids -> Browsers \cup {Nobody}]

BrowserInit ==
    /\ Init
    /\ kind \in [Browsers -> {"kept", "per request", "page"}]
    /\ phase = [b \in Browsers |-> "none"]
    /\ asked = [b \in Browsers |-> CHOOSE name \in Names : TRUE]
    /\ entry = [b \in Browsers |-> NoEntry]
    /\ answer = [b \in Browsers |-> {}]
    /\ opener = [s \in Ids |-> Nobody]

Goes(b, next) == phase' = [phase EXCEPT ![b] = next]

\* The exception goes up to the controller, past the call of Disconnect.
Fails(b) ==
    /\ Goes(b, "none")
    /\ UNCHANGED <<asked, answer, opener>>

\* Bound: ids are left for the requests under way and for this one.
IdsLeftFor(b) ==
    nextSessionId + Cardinality({o \in Browsers \ {b} : phase[o] # "none"})
        + Cardinality(OpensUnread) <= MaxSessions

\* A request for a document, whose name is not empty; a page sends it to a
\* port it knows.  A new SDProtocolClient knows no session; the one of the
\* last request was collected, and its connection closed.
Request(b, name) ==
    /\ phase[b] = "none"
    /\ name # Empty
    /\ b \in PerRequest => ~connected[b]
    /\ b \in PerRequest \/ entry[b] = NoEntry => IdsLeftFor(b)
    /\ asked' = [asked EXCEPT ![b] = name]
    /\ answer' = [answer EXCEPT ![b] = {}]
    /\ entry' = [entry EXCEPT ![b] = IF b \in PerRequest THEN NoEntry ELSE @]
    /\ sessionID' = [sessionID EXCEPT ![b] = IF b \in PerRequest THEN 0 ELSE @]
    /\ Goes(b, IF b \in Pages THEN "connect" ELSE "lookup")
    /\ UNCHANGED <<streams, serverVars, calling, failed, got, posted, opener>>

LookupSucceeds(b) ==
    /\ phase[b] = "lookup"
    /\ Goes(b, "connect")
    /\ UNCHANGED <<vars, asked, entry, answer, opener>>

\* The PRS has no port for the server.
LookupFails(b) ==
    /\ phase[b] = "lookup"
    /\ Fails(b)
    /\ UNCHANGED <<vars, entry>>

\* The datagram to the PRS is lost, or its answer: LookUpPort receives
\* without a timeout.
LookupLost(b) ==
    /\ phase[b] = "lookup"
    /\ Goes(b, "lost")
    /\ UNCHANGED <<vars, asked, entry, answer, opener>>

\* The entry is made before the connection, with session 0.
WithEntry(b) == IF b \notin Pages /\ entry[b] = NoEntry THEN 0 ELSE entry[b]

\* The client is connected already, or nobody listens.
ConnectFails(b) ==
    /\ phase[b] = "connect"
    /\ entry' = [entry EXCEPT ![b] = WithEntry(b)]
    /\ Fails(b)
    /\ UNCHANGED vars

ConnectSucceeds(b) ==
    /\ phase[b] = "connect"
    /\ Connect(b)
    /\ entry' = [entry EXCEPT ![b] = WithEntry(b)]
    /\ Goes(b, IF b \in Pages THEN "get" ELSE IF entry[b] = NoEntry THEN "open" ELSE "resume")
    /\ UNCHANGED <<asked, answer, opener>>

Opens(b) ==
    /\ phase[b] = "open"
    /\ Client!OpenSession(b)
    /\ Goes(b, "accept")
    /\ UNCHANGED <<serverVars, asked, entry, answer, opener>>

\* An entry whose first open failed still says 0.
Resumes(b) ==
    /\ phase[b] = "resume"
    /\ \/ entry[b] = 0 /\ Fails(b) /\ UNCHANGED clientVars /\ UNCHANGED streams
       \/ /\ entry[b] # 0
          /\ Client!ResumeSession(b, entry[b])
          /\ Goes(b, "accept")
          /\ UNCHANGED <<asked, answer, opener>>
    /\ UNCHANGED <<serverVars, entry>>

\* A slip for the mutation runs: the entry keeps session 0.
NoIdOf(b) == entry[b]

\* The id goes from the client to the entry.
IdOf(b) == sessionID[b]

Accept(b) ==
    /\ phase[b] = "accept"
    /\ calling[b] = Client!NoCall
    /\ \/ failed[b] /\ Fails(b) /\ UNCHANGED entry
       \/ /\ ~failed[b]
          /\ entry' = [entry EXCEPT ![b] = IdOf(b)]
          /\ Goes(b, "get")
          /\ UNCHANGED <<asked, answer, opener>>
    /\ UNCHANGED vars

GetDocument(b) ==
    /\ phase[b] = "get"
    /\ Client!GetDocument(b, asked[b])
    /\ Goes(b, "content")
    /\ UNCHANGED <<serverVars, asked, entry, answer, opener>>

\* The document is returned and the connection closed, which a page never
\* does, or neither.
Return(b) ==
    /\ phase[b] = "content"
    /\ calling[b] = Client!NoCall
    /\ \/ failed[b] /\ Fails(b) /\ UNCHANGED vars
       \/ /\ ~failed[b]
          /\ answer' = [answer EXCEPT ![b] = got[b]]
          /\ Goes(b, "none")
          /\ \/ b \in Pages /\ UNCHANGED vars
             \/ b \notin Pages /\ Client!Disconnect(b) /\ UNCHANGED serverVars
          /\ UNCHANGED <<asked, opener>>
    /\ UNCHANGED entry

\* The client of a request that is over; its socket is closed when it is
\* collected.
Collect(b) ==
    /\ b \in PerRequest
    /\ phase[b] = "none"
    /\ Client!Die(b)
    /\ UNCHANGED <<serverVars, requestVars>>

Advance(b) ==
    \/ LookupSucceeds(b) \/ LookupFails(b) \/ ConnectFails(b) \/ ConnectSucceeds(b)
    \/ Opens(b) \/ Resumes(b) \/ Accept(b)
    \/ GetDocument(b) \/ Return(b)
-------------------------------------------------------------------------------
\* A command line program that posts to a session another client opened, and
\* may close it.
ConsoleStep(c) ==
    /\ \/ Connect(c)
       \/ /\ \/ \E id \in Ids : Client!ResumeSession(c, id)
             \/ \E name \in Names, text \in Texts : Client!PostDocument(c, name, text)
             \/ Client!CloseSession(c)
             \/ Client!Disconnect(c)
             \/ Client!Die(c)
          /\ UNCHANGED serverVars
    /\ UNCHANGED requestVars

Receives(c) == Client!Receive(c) /\ UNCHANGED <<serverVars, requestVars>>

Breaks(c) == Client!Break(c) /\ UNCHANGED <<serverVars, requestVars>>

\* A step of the thread, which may open a session.
Serves(c) ==
    /\ Serve(c)
    /\ opener' = [s \in Ids |->
          IF s = nextSessionId /\ nextSessionId' # nextSessionId THEN c ELSE opener[s]]
    /\ UNCHANGED <<clientVars, kind, phase, asked, entry, answer>>

BrowserNext ==
    \/ \E b \in Browsers :
          \/ \E name \in Names : Request(b, name) /\ UNCHANGED kind
          \/ (Advance(b) \/ LookupLost(b)) /\ UNCHANGED kind
          \/ Collect(b)
    \/ \E c \in Connections \ Browsers : ConsoleStep(c)
    \/ \E c \in Connections : Receives(c) \/ Serves(c) \/ Breaks(c)
    \/ Expire /\ UNCHANGED <<clientVars, requestVars>>

\* Requests, threads and clients that wait for a reply go on; one that waits
\* for the PRS may not.
BrowserFairness ==
    /\ \A b \in Browsers : WF_allVars(Advance(b) /\ UNCHANGED kind)
    /\ \A c \in Connections : WF_allVars(Serves(c)) /\ WF_allVars(Receives(c))

BrowserSpec == BrowserInit /\ [][BrowserNext]_allVars /\ BrowserFairness
-------------------------------------------------------------------------------
(***************************************************************************)
(* A document a browser shows was posted under the name it was asked for,  *)
(* in the session the browser has with the server: whole, unless a         *)
(* connection broke inside that post.                                      *)
(***************************************************************************)
AnswersFromItsSession ==
    \A b \in Browsers : \A d \in answer[b] :
        d \in posted /\ d.name = asked[b] /\ d.session = entry[b]

(***************************************************************************)
(* A browser that is kept "keeps track of sessions for each SD Server,     *)
(* appropriately opens or resumes a session": it never opens a second one, *)
(* and loses track of the one it has only by an open that threw.  The      *)
(* session is its entry for the server, or the entry says 0 and the answer *)
(* is on its way or was lost with the connection.                          *)
(***************************************************************************)
SessionTracked ==
    \A b \in Kept, s \in Ids :
        opener[s] = b =>
            /\ \A t \in Ids : opener[t] = b => t = s
            /\ \/ entry[b] = s
               \/ entry[b] = 0 /\ (phase[b] = "accept" \/ failed[b])

(***************************************************************************)
(* Every request for a document comes back, with the document or an        *)
(* exception, whatever became of the session and of the connection in      *)
(* between, unless its lookup was lost.                                    *)
(***************************************************************************)
RequestReturns ==
    \A b \in Browsers : phase[b] # "none" ~> phase[b] \in {"none", "lost"}

===============================================================================
