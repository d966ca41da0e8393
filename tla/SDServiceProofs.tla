--------------------------- MODULE SDServiceProofs ---------------------------
(***************************************************************************)
(* Proofs about the Simple Document service, for every set of clients,     *)
(* documents and sessions, and about the browsers on top of it.  First     *)
(* types; then the phases a connection goes through, which keep the two    *)
(* ends in step and in the same session; then the browsers' own state.     *)
(***************************************************************************)
EXTENDS SDBrowser, TLAPS

-------------------------------------------------------------------------------
(***************************************************************************)
(* Lines.                                                                  *)
(***************************************************************************)
LEMMA LineTypes ==
    /\ \A w \in Commands \cup Statuses \cup Names : Word(w) \in Lines
    /\ \A id \in AnyId : IdLine(id) \in Lines
    /\ \A text \in Texts \cup {Cut} : LengthLine(text) \in Lines
    /\ Reason \in Lines
BY DEF Lines, LengthLine

LEMMA ContentType ==
    ASSUME NEW text \in Texts \cup {Cut}
    PROVE  /\ Content(text) \in Seq(Lines)
           /\ Len(Content(text)) \in {0, 1}
           /\ text # Empty => Len(Content(text)) = 1
<1>1. CASE text = Empty
  <2>1. Content(text) = <<>>
    BY <1>1 DEF Content
  <2> QED
    BY <1>1, <2>1
<1>2. CASE text # Empty
  <2>1. <<"text", text>> \in Lines
    BY DEF Lines
  <2>2. Content(text) = << <<"text", text>> >>
    BY <1>2 DEF Content
  <2> HIDE DEF Content
  <2>3. PICK line \in Lines : Content(text) = <<line>>
    BY <2>1, <2>2
  <2> QED
    BY <2>3
<1> QED
  BY <1>1, <1>2

LEMMA LineMeans ==
    ASSUME NEW line \in Lines
    PROVE  /\ IsId(line) => line[2] \in AnyId
           /\ IsLength(line) => line[2] \in Texts \cup {Cut}
<1>1. CASE \E w : line = Word(w)
  <2>1. Len(line) = 1
    BY <1>1 DEF Word
  <2> QED
    BY <2>1 DEF IsId, IsLength
<1>2. CASE \E id \in AnyId : line = IdLine(id)
  <2>1. line[1] = "id" /\ line[2] \in AnyId
    BY <1>2 DEF IdLine
  <2> QED
    BY <2>1 DEF IsId, IsLength
<1>3. CASE \E tag \in {"length", "text"}, text \in Texts \cup {Cut} : line = <<tag, text>>
  <2>1. line[1] # "id" /\ line[2] \in Texts \cup {Cut}
    BY <1>3
  <2> QED
    BY <2>1 DEF IsId, IsLength
<1>4. \/ \E w : line = Word(w)
      \/ \E id \in AnyId : line = IdLine(id)
      \/ \E tag \in {"length", "text"}, text \in Texts \cup {Cut} : line = <<tag, text>>
  <2>1. \/ line \in {Word(w) : w \in Commands \cup Statuses \cup Names}
        \/ line = Reason
        \/ line \in {IdLine(id) : id \in AnyId}
        \/ line \in {<<tag, text>> : tag \in {"length", "text"}, text \in Texts \cup {Cut}}
    BY DEF Lines
  <2>2. line \in {Word(w) : w \in Commands \cup Statuses \cup Names} => \E w : line = Word(w)
    BY Zenon
  <2>3. line = Reason => \E w : line = Word(w)
    BY Zenon DEF Reason
  <2> QED
    BY <2>1, <2>2, <2>3
<1> QED
  BY <1>1, <1>2, <1>3, <1>4

\* What is read where is told from the first lines.
LEMMA LinesDiffer ==
    /\ \A w, v : Word(w) = Word(v) => w = v
    /\ \A id \in AnyId : IsId(IdLine(id)) /\ IdLine(id)[2] = id
    /\ \A id, jd : IdLine(id) = IdLine(jd) => id = jd
    /\ \A text : IsLength(LengthLine(text)) /\ LengthLine(text)[2] = text
    /\ \A text, other : LengthLine(text) = LengthLine(other) => text = other
    /\ \A w : Word(w)[1] = w /\ ~IsId(Word(w)) /\ ~IsLength(Word(w))
BY DEF Word, IdLine, LengthLine, IsId, IsLength

LEMMA DropType ==
    ASSUME NEW stream \in Seq(Lines), NEW n \in Nat, n <= Len(stream)
    PROVE  /\ Drop(stream, n) \in Seq(Lines)
           /\ Len(Drop(stream, n)) = Len(stream) - n
           /\ n < Len(stream) => Drop(stream, n)[1] = stream[n + 1]
           /\ n = Len(stream) => Drop(stream, n) = <<>>
BY DEF Drop

\* The client's module has these operators under names of its own.
LEMMA ClientLines ==
    /\ Client!Empty = Empty /\ Client!Cut = Cut
    /\ \A w : Client!Word(w) = Word(w)
    /\ \A id : Client!IdLine(id) = IdLine(id)
    /\ \A text : Client!LengthLine(text) = LengthLine(text)
    /\ \A text : Client!Content(text) = Content(text)
    /\ \A line : Client!IsId(line) = IsId(line) /\ Client!IsLength(line) = IsLength(line)
    /\ \A stream, n : Client!Drop(stream, n) = Drop(stream, n)
    /\ Client!AnyId = AnyId
    /\ \A c : Client!Alive(c) <=> Alive(c)
<1>1. Client!Empty = Empty /\ Client!Cut = Cut
  BY Zenon DEF Client!Empty, Empty, Client!Cut, Cut
<1>2. \A text : Client!Content(text) = Content(text)
  BY <1>1, Zenon DEF Client!Content, Content
<1>3. \A line : Client!IsId(line) = IsId(line) /\ Client!IsLength(line) = IsLength(line)
  BY Zenon DEF Client!IsId, IsId, Client!IsLength, IsLength
<1>4. Client!AnyId = AnyId
  BY Zenon DEF Client!AnyId, Client!Ids, AnyId, Ids
<1> QED
  BY <1>1, <1>2, <1>3, <1>4, Zenon
     DEF Client!Word, Word, Client!IdLine, IdLine, Client!LengthLine, LengthLine,
         Client!Drop, Drop, Client!Alive, Alive

-------------------------------------------------------------------------------
(***************************************************************************)
(* The steps of the service, whoever the clients are.                      *)
(***************************************************************************)
Asks(c) ==
    \/ Client!OpenSession(c)
    \/ \E id \in AnyId : Client!ResumeSession(c, id)
    \/ Client!CloseSession(c)
    \/ \E name \in Names : Client!GetDocument(c, name)
    \/ \E name \in Names, text \in Texts : Client!PostDocument(c, name, text)

Quits(c) ==
    \/ Client!Disconnect(c)
    \/ Client!Die(c)

\* A new SDProtocolClient takes the place of one that is not connected.
Forgets(c) ==
    /\ ~connected[c]
    /\ sessionID' = [sessionID EXCEPT ![c] = 0]
    /\ UNCHANGED <<streams, serverVars, calling, failed, got, posted>>

Moves(c) ==
    \/ Connect(c)
    \/ (Asks(c) \/ Client!Receive(c) \/ Quits(c) \/ Client!Break(c)) /\ UNCHANGED serverVars
    \/ Serve(c) /\ UNCHANGED clientVars
    \/ Forgets(c)

Step == (\E c \in Connections : Moves(c)) \/ (Expire /\ UNCHANGED clientVars) \/ UNCHANGED vars

(***************************************************************************)
(* Types.  The streams are sequences of lines, and a thread is in a        *)
(* session that was given out.                                             *)
(***************************************************************************)
Contents == Texts \cup {Cut}
Found == {{}} \cup {{document} : document \in Client!Documents}

\* A call for a document names one.
Asked ==
    {call \in Client!Calls :
        /\ call.op \in {"get", "post"} => call.name \in Names
        /\ call.op = "post" => call.text \in Texts}

Wires ==
    /\ connected \in [Connections -> BOOLEAN]
    /\ thread \in [Connections -> {"none", "running", "broken"}]
    /\ toServer \in [Connections -> Seq(Lines)]
    /\ toClient \in [Connections -> Seq(Lines)]

Programs ==
    /\ sessionID \in [Connections -> AnyId]
    /\ calling \in [Connections -> Asked]
    /\ failed \in [Connections -> BOOLEAN]
    /\ got \in [Connections -> Found]
    /\ posted \subseteq Client!Documents

Typed ==
    /\ Wires
    /\ Programs
    /\ ServerTypeOK
    /\ \A c \in Connections : sessionId[c] < nextSessionId

LEMMA RecordTypes ==
    /\ Client!NoCall \in Asked
    /\ \A op \in Operations, id \in AnyId,
          name \in Names \cup {Empty}, text \in Texts \cup {Empty} :
          (op \in {"get", "post"} => name \in Names) /\ (op = "post" => text \in Texts)
              => [op |-> op, id |-> id, name |-> name, text |-> text] \in Asked
    /\ \A session \in AnyId, name \in Names, text \in Contents :
          Client!Document(session, name, text) \in Client!Documents
    /\ \A call \in Asked :
          /\ call.op \in Operations \cup {"none"}
          /\ call.id \in AnyId
          /\ call.name \in Names \cup {Empty}
          /\ call.text \in Texts \cup {Empty}
          /\ call.op \in {"get", "post"} => call.name \in Names
          /\ call.op = "post" => call.text \in Texts
<1> USE ClientLines
<1>1. 0 \in AnyId
  BY DEF AnyId
<1>2. Client!NoCall \in Asked
  <2>1. Client!NoCall \in Client!Calls
    BY <1>1, Zenon DEF Client!NoCall, Client!Calls
  <2>2. Client!NoCall.op = "none"
    BY Zenon DEF Client!NoCall
  <2> QED
    BY <2>1, <2>2 DEF Asked
<1>3. \A session \in AnyId, name \in Names, text \in Contents :
          Client!Document(session, name, text) \in Client!Documents
  BY Zenon DEF Client!Document, Client!Documents, Contents
<1>4. \A op \in Operations, id \in AnyId,
          name \in Names \cup {Empty}, text \in Texts \cup {Empty} :
          [op |-> op, id |-> id, name |-> name, text |-> text] \in Client!Calls
  BY Zenon DEF Client!Calls
<1>5. ASSUME NEW op \in Operations, NEW id \in AnyId,
             NEW name \in Names \cup {Empty}, NEW text \in Texts \cup {Empty},
             op \in {"get", "post"} => name \in Names, op = "post" => text \in Texts
      PROVE  [op |-> op, id |-> id, name |-> name, text |-> text] \in Asked
  <2>1. PICK call \in Client!Calls :
            call = [op |-> op, id |-> id, name |-> name, text |-> text]
    BY <1>4
  <2>2. call.op = op /\ call.name = name /\ call.text = text
    BY <2>1
  <2>3. call \in Asked
    BY <1>5, <2>2 DEF Asked
  <2> QED
    BY <2>1, <2>3
<1>6. ASSUME NEW call \in Client!Calls
      PROVE  /\ call.op \in Operations \cup {"none"}
             /\ call.id \in AnyId
             /\ call.name \in Names \cup {Empty}
             /\ call.text \in Texts \cup {Empty}
  BY Zenon DEF Client!Calls
<1> QED
  BY <1>2, <1>3, <1>5, <1>6 DEF Asked

LEMMA CallingTyped ==
    ASSUME Wires, Programs, NEW c \in Connections, NEW op \in Operations, NEW id \in AnyId,
           NEW name \in Names \cup {Empty}, NEW text \in Texts \cup {Empty},
           op \in {"get", "post"} => name \in Names, op = "post" => text \in Texts,
           NEW lines \in Seq(Lines),
           Client!Calling(c, op, id, name, text, lines)
    PROVE  /\ Wires'
           /\ sessionID' = sessionID /\ failed' = failed
           /\ calling' \in [Connections -> Asked]
           /\ got' \in [Connections -> Found]
<1>1. PICK call \in Asked : call = [op |-> op, id |-> id, name |-> name, text |-> text]
  BY RecordTypes
<1>2. calling' = [calling EXCEPT ![c] = call]
  BY <1>1, Zenon DEF Client!Calling
<1>3. op \in Commands
  BY ProgramAssumption
<1>4. PICK word \in Lines : word = Client!Word(op)
  BY <1>3, LineTypes, ClientLines
<1>5. \/ toServer' = [toServer EXCEPT ![c] = toServer[c] \o <<word>> \o lines]
      \/ toServer' = toServer
  BY <1>4, Zenon DEF Client!Calling
<1>6. toServer' \in [Connections -> Seq(Lines)]
  <2>1. toServer[c] \o <<word>> \o lines \in Seq(Lines)
    BY DEF Wires
  <2> QED
    BY <1>5, <2>1 DEF Wires
<1>7. got' \in [Connections -> Found]
  BY DEF Client!Calling, Programs, Found
<1>8. UNCHANGED <<connected, thread, toClient, sessionID, failed>>
  BY DEF Client!Calling
<1> QED
  BY <1>2, <1>6, <1>7, <1>8 DEF Wires, Programs

LEMMA PostsTyped ==
    ASSUME Programs, NEW session \in AnyId, NEW name \in Names, NEW text \in Contents,
           Client!Posts(session, name, text)
    PROVE  posted' \subseteq Client!Documents /\ posted \subseteq posted'
BY RecordTypes, Zenon DEF Programs, Client!Posts

LEMMA LinesTyped ==
    /\ <<>> \in Seq(Lines)
    /\ \A id \in AnyId : <<Client!IdLine(id)>> \in Seq(Lines)
    /\ \A name \in Names : <<Client!Word(name)>> \in Seq(Lines)
    /\ \A name \in Names, text \in Texts :
          <<Client!Word(name), Client!LengthLine(text)>> \o Client!Content(text) \in Seq(Lines)
<1>1. \A w \in Commands \cup Statuses \cup Names : Client!Word(w) \in Lines
  BY LineTypes, ClientLines
<1>2. \A id \in AnyId : Client!IdLine(id) \in Lines
  BY LineTypes, ClientLines
<1>3. \A text \in Texts : Client!LengthLine(text) \in Lines
  BY LineTypes, ClientLines
<1>4. \A text \in Texts : Client!Content(text) \in Seq(Lines)
  BY ContentType, ClientLines
<1> QED
  BY <1>1, <1>2, <1>3, <1>4

LEMMA AsksTyped ==
    ASSUME Wires, Programs, NEW c \in Connections, Asks(c)
    PROVE  Wires' /\ Programs'
<1>1. sessionID[c] \in AnyId /\ 0 \in AnyId
  BY DEF Programs, AnyId
<1>2. Empty \in Names \cup {Empty} /\ Empty \in Texts \cup {Empty} /\ Client!Empty = Empty
  BY ClientLines
<1>3. ASSUME NEW op, NEW id \in AnyId,
             NEW name \in Names \cup {Empty}, NEW text \in Texts \cup {Empty},
             op \in {"get", "post"} => name \in Names, op = "post" => text \in Texts,
             NEW lines \in Seq(Lines), Client!Calling(c, op, id, name, text, lines),
             posted' \subseteq Client!Documents
      PROVE  Wires' /\ Programs'
  <2>1. op \in Operations
    BY <1>3, Zenon DEF Client!Calling
  <2>2. /\ Wires'
        /\ sessionID' = sessionID /\ failed' = failed
        /\ calling' \in [Connections -> Asked]
        /\ got' \in [Connections -> Found]
    BY <1>3, <2>1, CallingTyped
  <2> QED
    BY <1>3, <2>2 DEF Programs
<1>4. posted \subseteq Client!Documents
  BY DEF Programs
<1>5. CASE Client!OpenSession(c)
  <2>1. Client!Calling(c, "open", 0, Empty, Empty, <<>>) /\ posted' = posted
    BY <1>5, <1>2, Zenon DEF Client!OpenSession
  <2> QED
    BY <1>1, <1>2, <1>3, <1>4, <2>1, LinesTyped, Zenon
<1>6. CASE \E id \in AnyId : Client!ResumeSession(c, id)
  <2>1. PICK id \in AnyId : Client!ResumeSession(c, id)
    BY <1>6
  <2>2. Client!Calling(c, "resume", id, Empty, Empty, <<Client!IdLine(id)>>) /\ posted' = posted
    BY <2>1, <1>2, Zenon DEF Client!ResumeSession
  <2> QED
    BY <1>1, <1>2, <1>3, <1>4, <2>2, LinesTyped, Zenon
<1>7. CASE Client!CloseSession(c)
  <2>1. /\ Client!Calling(c, "close", sessionID[c], Empty, Empty, <<Client!IdLine(sessionID[c])>>)
        /\ posted' = posted
    BY <1>7, <1>2, Zenon DEF Client!CloseSession
  <2> QED
    BY <1>1, <1>2, <1>3, <1>4, <2>1, LinesTyped, Zenon
<1>8. CASE \E name \in Names : Client!GetDocument(c, name)
  <2>1. PICK name \in Names : Client!GetDocument(c, name)
    BY <1>8
  <2>2. Client!Calling(c, "get", 0, name, Empty, <<Client!Word(name)>>) /\ posted' = posted
    BY <2>1, <1>2, Zenon DEF Client!GetDocument
  <2> QED
    BY <1>1, <1>2, <1>3, <1>4, <2>2, LinesTyped, Zenon
<1>9. CASE \E name \in Names, text \in Texts : Client!PostDocument(c, name, text)
  <2>1. PICK name \in Names, text \in Texts : Client!PostDocument(c, name, text)
    BY <1>9
  <2>2. /\ Client!Calling(c, "post", 0, name, text,
              <<Client!Word(name), Client!LengthLine(text)>> \o Client!Content(text))
        /\ Client!Posts(sessionID[c], name, text)
    BY <2>1, Zenon DEF Client!PostDocument
  <2>3. text \in Contents
    BY DEF Contents
  <2>4. posted' \subseteq Client!Documents
    BY <1>1, <2>2, <2>3, PostsTyped
  <2> QED
    BY <1>1, <1>3, <2>2, <2>4, LinesTyped, Zenon
<1> QED
  BY <1>5, <1>6, <1>7, <1>8, <1>9 DEF Asks

LEMMA QuitsTyped ==
    ASSUME Wires, Programs, NEW c \in Connections, Quits(c)
    PROVE  Wires' /\ Programs'
<1>1. ASSUME Client!Leaves(c)
      PROVE  /\ connected' \in [Connections -> BOOLEAN]
             /\ thread' \in [Connections -> {"none", "running", "broken"}]
             /\ toClient' \in [Connections -> Seq(Lines)]
             /\ calling' \in [Connections -> Asked]
             /\ failed' \in [Connections -> BOOLEAN]
             /\ got' \in [Connections -> Found]
  <2>1. Client!NoCall \in Asked /\ {} \in Found
    BY RecordTypes, Zenon DEF Found
  <2> QED
    BY <1>1, <2>1 DEF Client!Leaves, Wires, Programs
<1>2. [sessionID EXCEPT ![c] = 0] \in [Connections -> AnyId]
  BY DEF Programs, AnyId
<1>3. CASE Client!Disconnect(c)
  BY <1>1, <1>3 DEF Client!Disconnect, Wires, Programs
<1>4. CASE Client!Die(c)
  BY <1>1, <1>2, <1>4 DEF Client!Die, Wires, Programs
<1> QED
  BY <1>3, <1>4 DEF Quits

LEMMA BreakTyped ==
    ASSUME Wires, Programs, NEW c \in Connections, Client!Break(c)
    PROVE  Wires' /\ Programs'
<1>1. PICK n \in {3, Len(toServer[c])} : /\ n <= Len(toServer[c])
                                      /\ toServer' = [toServer EXCEPT ![c] = SubSeq(toServer[c], 1, n)]
  BY Zenon DEF Client!Break
<1>2. SubSeq(toServer[c], 1, n) \in Seq(Lines)
  BY <1>1 DEF Wires
<1>3. PICK reply \in {<<>>, toClient[c]} : toClient' = [toClient EXCEPT ![c] = reply]
  BY Zenon DEF Client!Break
<1>4. /\ thread' = [thread EXCEPT ![c] = "broken"]
      /\ UNCHANGED <<connected, sessionID, calling, failed, got>>
  BY DEF Client!Break
<1>5. Wires'
  BY <1>1, <1>2, <1>3, <1>4, LinesTyped DEF Wires
<1>6. posted' \subseteq Client!Documents
  <2>1. CASE calling[c].op = "post"
    <3>1. Client!Posts(sessionID[c], calling[c].name, Cut)
      BY <2>1, ClientLines, Zenon DEF Client!Break
    <3>2. sessionID[c] \in AnyId /\ Cut \in Contents /\ calling[c].name \in Names
      BY <2>1, RecordTypes DEF Programs, Contents
    <3> QED
      BY <3>1, <3>2, PostsTyped
  <2>2. CASE calling[c].op # "post"
    BY <2>2 DEF Client!Break, Programs
  <2> QED
    BY <2>1, <2>2
<1> QED
  BY <1>4, <1>5, <1>6 DEF Programs

\* What a call takes from a reply it understands.
LEMMA UnderstoodReads ==
    ASSUME Wires, Programs, NEW c \in Connections, NEW reply \in Seq(Lines), reply # <<>>,
           Client!Understood(c, reply), Client!Reads(calling[c].op, reply) <= Len(reply)
    PROVE  /\ calling[c].op \in {"open", "resume", "close"} => Len(reply) >= 2
           /\ calling[c].op = "get" => Len(reply) >= 3
           /\ calling[c].op = "open" => IsId(reply[2])
           /\ calling[c].op = "resume" => reply[2] = IdLine(calling[c].id)
           /\ calling[c].op = "close" => reply[2] = IdLine(sessionID[c])
           /\ calling[c].op = "get" => IsLength(reply[3])
<1>1. reply[1] = Client!Word(Client!Hoped(calling[c].op))
  BY Zenon DEF Client!Understood
<1>2. CASE calling[c].op \in {"open", "resume", "close"}
  <2>1. Client!Reads(calling[c].op, reply) = 2
    BY <1>1, <1>2, Z3 DEF Client!Reads
  <2> QED
    BY <1>2, <2>1, ClientLines DEF Client!Understood
<1>3. CASE calling[c].op = "get"
  <2>1. Client!Reads("get", reply) \in Nat /\ Client!Reads("get", reply) >= 3
    <3>1. Len(Client!Content(reply[3][2])) \in Nat
      BY DEF Client!Content
    <3>2. reply[1] = Client!Word(Client!Hoped("get"))
      BY <1>1, <1>3
    <3>3. reply[1] # Client!Word("error")
      BY <3>2 DEF Client!Hoped, Client!Word
    <3>4. PICK n \in Nat : n = Len(Client!Content(reply[3][2]))
      BY <3>1
    <3>5. Client!Reads("get", reply) =
            IF Len(reply) >= 3 /\ Client!IsLength(reply[3])
            THEN 3 + Len(Client!Content(reply[3][2])) ELSE 3
      BY <3>2, <3>3 DEF Client!Reads
    <3>6. Client!Reads("get", reply) = 3 + n \/ Client!Reads("get", reply) = 3
      BY <3>4, <3>5, Zenon
    <3> QED
      BY <3>6
  <2>2. Client!IsLength(reply[3])
    BY <1>3, Zenon DEF Client!Understood
  <2>3. Client!Reads("get", reply) <= Len(reply)
    BY <1>3
  <2>4. Len(reply) >= 3
    BY <2>1, <2>3
  <2> QED
    BY <1>3, <2>2, <2>4, ClientLines
<1> QED
  BY <1>2, <1>3

LEMMA ReadsType ==
    ASSUME NEW reply \in Seq(Lines), NEW op
    PROVE  Client!Reads(op, reply) \in Nat \ {0}
<1>1. PICK n \in Nat : n = Len(Client!Content(reply[3][2]))
  BY DEF Client!Content
<1>2. 3 + n \in Nat \ {0} /\ {1, 2, 3} \subseteq Nat \ {0}
  OBVIOUS
<1> QED
  BY <1>1, <1>2, Z3 DEF Client!Reads

LEMMA ReceiveTyped ==
    ASSUME Wires, Programs, NEW c \in Connections, Client!Receive(c)
    PROVE  Wires' /\ Programs'
<1>1. Client!NoCall \in Asked /\ {} \in Found /\ <<>> \in Seq(Lines)
  BY RecordTypes, LinesTyped, Zenon DEF Found
<1>2. sessionID \in [Connections -> AnyId] /\ got \in [Connections -> Found]
  BY DEF Programs
<1>3. CASE Client!ReceiveResponse(c)
  <2>1. PICK reply \in Seq(Lines) : reply = toClient[c]
    BY DEF Wires
  <2>2. PICK n \in Nat : n = Client!Reads(calling[c].op, reply)
    BY ReadsType
  <2>3. /\ calling[c] # Client!NoCall
        /\ reply # <<>> /\ n <= Len(reply)
        /\ toClient' = [toClient EXCEPT ![c] = Client!Drop(reply, n)]
        /\ Client!Succeeds(c, reply) \/ Client!Throws(c)
        /\ calling' = [calling EXCEPT ![c] = Client!NoCall]
        /\ UNCHANGED <<connected, thread, toServer, posted>>
    BY <1>3, <2>1, <2>2, Zenon DEF Client!ReceiveResponse
  <2>4. Client!Drop(reply, n) \in Seq(Lines)
    BY <2>3, DropType, ClientLines
  <2>5. Wires' /\ calling' \in [Connections -> Asked] /\ posted' = posted
    BY <1>1, <2>3, <2>4 DEF Wires, Programs
  <2>6. CASE Client!Throws(c)
    BY <2>5, <2>6 DEF Client!Throws, Programs
  <2>7. CASE Client!Succeeds(c, reply)
    <3>1. Client!Understood(c, reply)
      BY <2>7, Zenon DEF Client!Succeeds
    <3>2. /\ calling[c].op \in {"open", "resume", "close"} => Len(reply) >= 2
          /\ calling[c].op = "get" => Len(reply) >= 3
          /\ calling[c].op = "open" => IsId(reply[2])
          /\ calling[c].op = "resume" => reply[2] = IdLine(calling[c].id)
          /\ calling[c].op = "get" => IsLength(reply[3])
      <4>1. Client!Reads(calling[c].op, reply) <= Len(reply)
        BY <2>2, <2>3
      <4> QED
        BY <2>3, <3>1, <4>1, UnderstoodReads
    <3>3. calling[c].op \in Operations \cup {"none"} /\ calling[c].id \in AnyId
      BY RecordTypes DEF Programs
    <3>4. Client!SessionAfter(c, reply) \in AnyId
      <4>1. sessionID[c] \in AnyId /\ 0 \in AnyId
        BY DEF Programs, AnyId
      <4>2. calling[c].op = "open" => reply[2][2] \in AnyId
        BY <3>2, LineMeans
      <4>3. calling[c].op = "resume" => reply[2][2] \in AnyId
        BY <3>2, <3>3, LinesDiffer
      <4> QED
        BY <4>1, <4>2, <4>3, Z3 DEF Client!SessionAfter
    <3>5. PICK found \in Found : got' = [got EXCEPT ![c] = found]
      <4>1. CASE calling[c].op = "get"
        <5>1. reply[3][2] \in Contents
          BY <3>2, <4>1, LineMeans DEF Contents
        <5>2. calling[c].name \in Names
          BY <4>1, RecordTypes DEF Programs
        <5>3. Client!Document(sessionID[c], calling[c].name, reply[3][2]) \in Client!Documents
          BY <1>2, <5>1, <5>2, RecordTypes
        <5> QED
          BY <2>7, <4>1, <5>3, Zenon DEF Client!Succeeds, Found
      <4>2. CASE calling[c].op # "get"
        BY <1>1, <2>7, <4>2, Zenon DEF Client!Succeeds
      <4> QED
        BY <4>1, <4>2
    <3>6. /\ sessionID' = [sessionID EXCEPT ![c] = Client!SessionAfter(c, reply)]
          /\ failed' = [failed EXCEPT ![c] = FALSE]
      BY <2>7, Zenon DEF Client!Succeeds
    <3> QED
      BY <2>5, <3>4, <3>5, <3>6 DEF Programs
  <2> QED
    BY <2>3, <2>6, <2>7
<1>4. CASE Client!ReceiveNothing(c)
  BY <1>1, <1>4 DEF Client!ReceiveNothing, Client!Throws, Wires, Programs
<1> QED
  BY <1>3, <1>4 DEF Client!Receive

LEMMA RepliesTyped ==
    /\ \A id \in AnyId : Accepted(id) \in Seq(Lines) /\ Closed(id) \in Seq(Lines)
    /\ Rejected \in Seq(Lines) /\ Success \in Seq(Lines) /\ Error \in Seq(Lines)
    /\ \A name \in Names, text \in Contents : SuccessWith(name, text) \in Seq(Lines)
<1>1. \A w \in {"accepted", "closed", "rejected", "success", "error"} : Word(w) \in Lines
  BY LineTypes DEF Statuses
<1>2. \A name \in Names : Word(name) \in Lines
  BY LineTypes
<1>3. \A text \in Contents : LengthLine(text) \in Lines /\ Content(text) \in Seq(Lines)
  BY LineTypes, ContentType DEF Contents
<1>4. \A id \in AnyId : IdLine(id) \in Lines
  BY LineTypes
<1>5. Reason \in Lines
  BY LineTypes
<1> QED
  BY <1>1, <1>2, <1>3, <1>4, <1>5
     DEF Accepted, Closed, Rejected, Success, Error, SuccessWith

LEMMA ExchangeTyped ==
    ASSUME Wires, NEW c \in Connections, NEW n \in Nat, n <= Len(toServer[c]),
           NEW reply \in Seq(Lines), Exchange(c, n, reply)
    PROVE  /\ toServer' \in [Connections -> Seq(Lines)]
           /\ toClient' \in [Connections -> Seq(Lines)]
<1>1. PICK left \in Seq(Lines) : left = Drop(toServer[c], n)
  BY DropType DEF Wires
<1>2. toServer' = [toServer EXCEPT ![c] = left]
  BY <1>1, Zenon DEF Exchange
<1> QED
  BY <1>2 DEF Exchange, Wires

LEMMA RefuseTyped ==
    ASSUME Wires, NEW c \in Connections, NEW n \in Nat, n <= Len(toServer[c]), Refuse(c, n)
    PROVE  /\ toServer' \in [Connections -> Seq(Lines)]
           /\ toClient' \in [Connections -> Seq(Lines)]
           /\ UNCHANGED <<sessionId, store>>
<1>1. Exchange(c, n, Error) /\ UNCHANGED <<sessionId, store>>
  BY Zenon DEF Refuse
<1> QED
  BY <1>1, RepliesTyped, ExchangeTyped

ServerTyped == ServerTypeOK /\ \A c \in Connections : sessionId[c] < nextSessionId

LEMMA HandleTyped ==
    ASSUME Wires, ServerTyped, NEW c \in Connections, Handle(c)
    PROVE  Wires' /\ ServerTyped'
<1>1. UNCHANGED <<connected, thread>>
  BY DEF Handle
<1> DEFINE Carried == /\ toServer' \in [Connections -> Seq(Lines)]
                      /\ toClient' \in [Connections -> Seq(Lines)]
<1>2. ASSUME Carried, UNCHANGED <<sessionId, store>>
      PROVE  Wires' /\ ServerTyped'
  BY <1>1, <1>2 DEF Wires, ServerTyped, ServerTypeOK, store
<1>3. ASSUME Carried, ServerTyped'
      PROVE  Wires' /\ ServerTyped'
  BY <1>1, <1>3 DEF Wires
<1>4. ASSUME NEW n \in Nat, n <= Len(toServer[c]), Refuse(c, n)
      PROVE  Carried /\ UNCHANGED <<sessionId, store>>
  BY <1>4, RefuseTyped
<1>5. ASSUME NEW n \in Nat, n <= Len(toServer[c]), NEW reply \in Seq(Lines),
             Exchange(c, n, reply)
      PROVE  Carried
  BY <1>5, ExchangeTyped
<1> HIDE DEF Carried
<1>6. /\ sessionId \in [Connections -> AnyId]
      /\ nextSessionId \in 1 .. MaxSessions + 1
      /\ open \subseteq 1 .. nextSessionId - 1
      /\ values \in [Ids -> [Names -> Contents \cup {Empty, Missing}]]
      /\ \A o \in Connections : sessionId[o] < nextSessionId
  BY DEF ServerTyped, ServerTypeOK, Contents
<1>7. ASSUME sessionId' \in [Connections -> AnyId],
              nextSessionId' \in 1 .. MaxSessions + 1,
              open' \subseteq 1 .. nextSessionId' - 1,
              values' \in [Ids -> [Names -> Contents \cup {Empty, Missing}]],
              \A o \in Connections : sessionId'[o] < nextSessionId'
       PROVE  ServerTyped'
  BY <1>7 DEF ServerTyped, ServerTypeOK, Contents
<1>8. open \subseteq Ids
  BY <1>6, ConnectionAssumption DEF Ids
<1>9. \A k \in 1 .. Len(toServer[c]) : toServer[c][k] \in Lines
  BY DEF Wires
<1>10. Len(toServer[c]) \in Nat
  BY DEF Wires
<1>11. NoDocuments \in [Names -> Contents \cup {Empty, Missing}]
  BY DEF NoDocuments
<1>12. CASE HandleOpen(c)
  <2>1. 1 <= Len(toServer[c])
    BY <1>12 DEF HandleOpen, Command
  <2>2. CASE Refuse(c, 1)
    BY <1>2, <1>4, <2>1, <2>2
  <2>3. CASE OpenSession(c)
    <3>1. nextSessionId \in AnyId /\ nextSessionId <= MaxSessions
      BY <1>6, <2>3, ConnectionAssumption DEF OpenSession, AnyId, Ids
    <3>2. Carried
      <4>1. Exchange(c, 1, Accepted(nextSessionId))
        BY <2>3, Zenon DEF OpenSession
      <4> QED
        BY <1>5, <2>1, <3>1, <4>1, RepliesTyped
    <3>3. ServerTyped'
      <4>1. /\ sessionId' = [sessionId EXCEPT ![c] = nextSessionId]
            /\ open' = open \cup {nextSessionId}
            /\ nextSessionId' = nextSessionId + 1
            /\ UNCHANGED values
        BY <2>3 DEF OpenSession
      <4>2. nextSessionId' \in 1 .. MaxSessions + 1
        BY <1>6, <3>1, <4>1, ConnectionAssumption
      <4>3. open' \subseteq 1 .. nextSessionId' - 1
        BY <1>6, <4>1
      <4>4. \A o \in Connections : sessionId'[o] < nextSessionId'
        BY <1>6, <4>1 DEF AnyId, Ids
      <4> QED
        BY <1>6, <1>7, <3>1, <4>1, <4>2, <4>3, <4>4
    <3> QED
      BY <1>3, <3>2, <3>3
  <2> QED
    BY <1>12, <2>2, <2>3 DEF HandleOpen
<1>13. CASE HandleResume(c)
  <2>1. 2 <= Len(toServer[c])
    BY <1>13 DEF HandleResume, Command
  <2>2. CASE Refuse(c, 2)
    BY <1>2, <1>4, <2>1, <2>2
  <2>3. CASE IsId(toServer[c][2]) /\ ResumeSession(c, toServer[c][2][2])
    <3>1. PICK id \in AnyId : id = toServer[c][2][2]
      BY <1>9, <1>10, <2>1, <2>3, LineMeans
    <3>2. Exchange(c, 2, Accepted(id))
      BY <2>3, <3>1, Zenon DEF ResumeSession
    <3>3. Carried
      BY <1>5, <2>1, <3>2, RepliesTyped
    <3>4. id \in open /\ sessionId' = [sessionId EXCEPT ![c] = id] /\ UNCHANGED store
      BY <2>3, <3>1 DEF ResumeSession
    <3>5. \A o \in Connections : sessionId'[o] < nextSessionId'
      BY <1>6, <3>4 DEF store
    <3>6. ServerTyped'
      BY <1>6, <1>7, <3>4, <3>5 DEF store
    <3> QED
      BY <1>3, <3>3, <3>6
  <2>4. CASE RejectSession(c, toServer[c][2][2])
    <3>1. Exchange(c, 2, Rejected) /\ UNCHANGED <<sessionId, store>>
      BY <2>4, Zenon DEF RejectSession
    <3> QED
      BY <1>2, <1>5, <2>1, <3>1, RepliesTyped
  <2> QED
    BY <1>13, <2>2, <2>3, <2>4, Zenon DEF HandleResume
<1>14. CASE HandleClose(c)
  <2>1. 2 <= Len(toServer[c])
    BY <1>14 DEF HandleClose, Command
  <2>2. CASE Refuse(c, 2)
    BY <1>2, <1>4, <2>1, <2>2
  <2>3. CASE CloseSession(c)
    <3>1. Exchange(c, 2, Closed(sessionId[c]))
      BY <2>3, Zenon DEF CloseSession
    <3>2. Carried
      BY <1>5, <1>6, <2>1, <3>1, RepliesTyped
    <3>3. ServerTyped'
      BY <1>6, <1>11, <2>3 DEF CloseSession, ServerTyped, ServerTypeOK, Contents
    <3> QED
      BY <1>3, <3>2, <3>3
  <2> QED
    BY <1>14, <2>2, <2>3, Zenon DEF HandleClose
<1>15. CASE HandleGet(c)
  <2>1. CASE Command(c, "get", 1) /\ Refuse(c, 1)
    <3>1. 1 <= Len(toServer[c])
      BY <2>1 DEF Command
    <3> QED
      BY <1>2, <1>4, <2>1, <3>1
  <2>2. ASSUME Command(c, "get", 2), NEW name, Readable(c, name),
               Exchange(c, 2, SuccessWith(name, values[sessionId[c]][name])),
               UNCHANGED <<sessionId, store>>
        PROVE  Wires' /\ ServerTyped'
    <3>1. 2 <= Len(toServer[c])
      BY <2>2 DEF Command
    <3>2. name \in Names /\ values[sessionId[c]][name] \in Contents
      BY <1>6, <1>8, <2>2 DEF Readable
    <3>3. SuccessWith(name, values[sessionId[c]][name]) \in Seq(Lines)
      BY <3>2, RepliesTyped
    <3> QED
      BY <1>2, <1>5, <2>2, <3>1, <3>3
  <2>3. ASSUME Command(c, "get", 2), Exchange(c, 2, Error), UNCHANGED <<sessionId, store>>
        PROVE  Wires' /\ ServerTyped'
    <3>1. 2 <= Len(toServer[c])
      BY <2>3 DEF Command
    <3> QED
      BY <1>2, <1>5, <2>3, <3>1, RepliesTyped
  <2> QED
    BY <1>15, <2>1, <2>2, <2>3, Zenon DEF HandleGet
<1>16. CASE HandlePost(c)
  <2>1. ASSUME NEW n \in Nat, n <= Len(toServer[c]), NEW name,
               NEW text \in Contents \cup {Empty},
               Post(c, n, name, text)
        PROVE  Wires' /\ ServerTyped'
    <3>1. CASE SaveFile(c, n, name)
      BY <1>2, <1>5, <2>1, <3>1, RepliesTyped DEF SaveFile
    <3>2. CASE Refuse(c, n)
      BY <1>2, <1>4, <2>1, <3>2
    <3>3. CASE /\ sessionId[c] \in open
               /\ values' = [values EXCEPT ![sessionId[c]][name] = text]
               /\ Exchange(c, n, Success)
               /\ UNCHANGED <<sessionId, open, nextSessionId>>
      <4>1. Carried
        BY <1>5, <2>1, <3>3, RepliesTyped
      <4>2. ServerTyped'
        BY <1>6, <2>1, <3>3 DEF ServerTyped, ServerTypeOK, Contents
      <4> QED
        BY <1>3, <4>1, <4>2
    <3> QED
      BY <2>1, <3>1, <3>2, <3>3, Zenon DEF Post, PutSessionValue
  <2>2. CASE Command(c, "post", 2) /\ Refuse(c, 2)
    <3>1. 2 <= Len(toServer[c])
      BY <2>2 DEF Command
    <3> QED
      BY <1>2, <1>4, <2>2, <3>1
  <2>3. ASSUME Command(c, "post", 3), Refuse(c, 3)
        PROVE  Wires' /\ ServerTyped'
    <3>1. 3 <= Len(toServer[c])
      BY <2>3 DEF Command
    <3> QED
      BY <1>2, <1>4, <2>3, <3>1
  <2>4. ASSUME Command(c, "post", 3), IsLength(toServer[c][3]), NEW name,
               \/ /\ Len(toServer[c]) >= 3 + Len(Content(toServer[c][3][2]))
                  /\ Post(c, 3 + Len(Content(toServer[c][3][2])), name, toServer[c][3][2])
               \/ \E part \in {Cut, Empty} : Post(c, 3, name, part)
        PROVE  Wires' /\ ServerTyped'
    <3>1. 3 <= Len(toServer[c])
      BY <2>4 DEF Command
    <3>2. PICK text \in Contents : text = toServer[c][3][2]
      BY <1>9, <1>10, <2>4, <3>1, LineMeans DEF Contents
    <3>3. PICK n \in Nat : n = 3 + Len(Content(text))
      BY <3>2, ContentType DEF Contents
    <3>4. Cut \in Contents
      BY DEF Contents
    <3>5. \/ n <= Len(toServer[c]) /\ Post(c, n, name, text)
          \/ \E part \in {Cut, Empty} : Post(c, 3, name, part)
      BY <1>10, <2>4, <3>2, <3>3
    <3> QED
      BY <2>1, <3>1, <3>2, <3>3, <3>4, <3>5
  <2> QED
    BY <1>16, <2>2, <2>3, <2>4, Zenon DEF HandlePost
<1> QED
  BY <1>12, <1>13, <1>14, <1>15, <1>16 DEF Handle

LEMMA HandleOtherTyped ==
    ASSUME Wires, ServerTyped, NEW c \in Connections, HandleOther(c)
    PROVE  Wires' /\ ServerTyped'
<1>1. /\ thread' = [thread EXCEPT ![c] = "none"]
      /\ UNCHANGED <<connected, sessionId, store>>
  BY DEF HandleOther
<1>2. \/ \E reply \in {<<>>, Error} : Exchange(c, Len(toServer[c]), reply)
      \/ /\ toServer' = [toServer EXCEPT ![c] = <<>>]
         /\ toClient' = [toClient EXCEPT ![c] = <<>>]
  BY Zenon DEF HandleOther
<1>3. toServer' \in [Connections -> Seq(Lines)] /\ toClient' \in [Connections -> Seq(Lines)]
  <2>1. Len(toServer[c]) \in Nat
    BY DEF Wires
  <2>2. CASE \E reply \in {<<>>, Error} : Exchange(c, Len(toServer[c]), reply)
    <3>1. PICK reply \in Seq(Lines) : Exchange(c, Len(toServer[c]), reply)
      BY <2>2, RepliesTyped, LinesTyped
    <3> QED
      BY <2>1, <3>1, ExchangeTyped
  <2>3. CASE /\ toServer' = [toServer EXCEPT ![c] = <<>>]
             /\ toClient' = [toClient EXCEPT ![c] = <<>>]
    BY <2>3, LinesTyped DEF Wires
  <2> QED
    BY <1>2, <2>2, <2>3
<1> QED
  BY <1>1, <1>3 DEF Wires, ServerTyped, ServerTypeOK, store

LEMMA ExpireTyped ==
    ASSUME Wires, ServerTyped, Expire
    PROVE  Wires' /\ ServerTyped'
<1>1. PICK s \in open : /\ open' = open \ {s}
                        /\ values' = [values EXCEPT ![s] = NoDocuments]
                        /\ UNCHANGED <<streams, sessionId, nextSessionId>>
  BY DEF Expire
<1>2. NoDocuments \in [Names -> Texts \cup {Cut, Empty, Missing}]
  BY DEF NoDocuments
<1> QED
  BY <1>1, <1>2 DEF Wires, ServerTyped, ServerTypeOK, streams

LEMMA TypedInit == Init => Typed
<1> SUFFICES ASSUME Init
             PROVE  Typed
  OBVIOUS
<1>1. Client!NoCall \in Asked /\ {} \in Found /\ <<>> \in Seq(Lines) /\ 0 \in AnyId
  BY RecordTypes, LinesTyped, Zenon DEF Found, AnyId
<1>2. Wires /\ Programs
  BY <1>1 DEF Init, Client!ClientInit, Wires, Programs
<1>3. NoDocuments \in [Names -> Texts \cup {Cut, Empty, Missing}]
  BY DEF NoDocuments
<1>4. ServerTypeOK /\ \A c \in Connections : sessionId[c] < nextSessionId
  BY <1>1, <1>3, ConnectionAssumption DEF Init, ServerInit, ServerTypeOK
<1> QED
  BY <1>2, <1>4 DEF Typed

LEMMA TypedStep ==
    ASSUME Typed, Step
    PROVE  Typed'
<1> USE DEF Typed
<1>1. Wires /\ Programs /\ ServerTyped
  BY DEF ServerTyped
<1>2. ASSUME Wires', Programs', UNCHANGED serverVars
      PROVE  Typed'
  BY <1>1, <1>2 DEF serverVars, store, ServerTyped, ServerTypeOK
<1>3. ASSUME Wires', ServerTyped', UNCHANGED clientVars
      PROVE  Typed'
  BY <1>1, <1>3 DEF clientVars, Programs, ServerTyped
<1>4. ASSUME NEW c \in Connections, Moves(c)
      PROVE  Typed'
  <2>1. CASE Connect(c)
    <3>1. Wires'
      BY <1>1, <2>1, LinesTyped DEF Connect, Wires
    <3>2. ServerTyped'
      BY <1>1, <2>1 DEF Connect, store, ServerTyped, ServerTypeOK, AnyId
    <3> QED
      BY <1>3, <2>1, <3>1, <3>2 DEF Connect
  <2>2. CASE Asks(c) /\ UNCHANGED serverVars
    BY <1>1, <1>2, <2>2, AsksTyped
  <2>3. CASE Client!Receive(c) /\ UNCHANGED serverVars
    BY <1>1, <1>2, <2>3, ReceiveTyped
  <2>4. CASE Quits(c) /\ UNCHANGED serverVars
    BY <1>1, <1>2, <2>4, QuitsTyped
  <2>5. CASE Handle(c) /\ UNCHANGED clientVars
    BY <1>1, <1>3, <2>5, HandleTyped
  <2>6. CASE HandleOther(c) /\ UNCHANGED clientVars
    BY <1>1, <1>3, <2>6, HandleOtherTyped
  <2>7. CASE EndOfStream(c) /\ UNCHANGED clientVars
    <3>1. Wires' /\ ServerTyped'
      BY <1>1, <2>7, LinesTyped DEF EndOfStream, store, Wires, ServerTyped, ServerTypeOK
    <3> QED
      BY <1>3, <2>7, <3>1
  <2>9. CASE Client!Break(c) /\ UNCHANGED serverVars
    BY <1>1, <1>2, <2>9, BreakTyped
  <2>8. CASE Forgets(c)
    <3>1. Wires' /\ Programs' /\ UNCHANGED serverVars
      BY <1>1, <2>8 DEF Forgets, streams, Wires, Programs, AnyId
    <3> QED
      BY <1>2, <3>1
  <2> QED
    BY <1>4, <2>1, <2>2, <2>3, <2>4, <2>5, <2>6, <2>7, <2>8, <2>9 DEF Moves, Serve
<1>5. CASE Expire /\ UNCHANGED clientVars
  BY <1>1, <1>3, <1>5, ExpireTyped
<1>6. CASE UNCHANGED vars
  BY <1>1, <1>6
     DEF vars, streams, serverVars, store, clientVars, Wires, Programs, ServerTyped, ServerTypeOK
<1> QED
  BY <1>4, <1>5, <1>6 DEF Step

LEMMA TypedIsTyped == Typed => TypeOK
<1> SUFFICES ASSUME Typed
             PROVE  TypeOK
  OBVIOUS
<1>1. StreamsTyped
  BY DEF Typed, Wires, StreamsTyped
<1>2. ServerTypeOK
  BY DEF Typed
<1>3. /\ sessionID \in [Connections -> Client!AnyId]
      /\ calling \in [Connections -> Client!Calls]
      /\ failed \in [Connections -> BOOLEAN]
      /\ posted \subseteq Client!Documents
  BY ClientLines DEF Typed, Programs, Asked
<1>4. ASSUME NEW c \in Connections
      PROVE  got[c] \subseteq Client!Documents /\ \A d, e \in got[c] : d = e
  <2>1. got[c] \in Found
    BY DEF Typed, Programs
  <2> QED
    BY <2>1 DEF Found
<1>5. Client!ClientTypeOK
  BY <1>3, <1>4 DEF Client!ClientTypeOK
<1> QED
  BY <1>1, <1>2, <1>5 DEF TypeOK

\* The steps of a client of the service are among those above.
LEMMA NextIsStep == [Next]_vars => Step
<1> SUFFICES ASSUME [Next]_vars
             PROVE  Step
  OBVIOUS
<1>1. CASE UNCHANGED vars
  BY <1>1 DEF Step
<1>2. CASE Expire /\ UNCHANGED clientVars
  BY <1>2 DEF Step
<1>3. ASSUME NEW c \in Connections, Connect(c) \/ ClientStep(c) \/ (Serve(c) /\ UNCHANGED clientVars)
      PROVE  Moves(c)
  <2>1. Ids \subseteq AnyId
    BY DEF AnyId
  <2>2. ASSUME Call(c)
        PROVE  Asks(c)
    BY <2>1, <2>2, Zenon DEF Call, Asks
  <2> QED
    BY <1>3, <2>2, Zenon DEF ClientStep, Moves, Quits
<1> QED
  BY <1>1, <1>2, <1>3 DEF Next, Step

(***************************************************************************)
(* Every field, stream and document of the service has its type, and what  *)
(* GetDocument returns is at most one document.                            *)
(***************************************************************************)
THEOREM ServiceTypeCorrect == Spec => []TypeOK
<1>1. Init => Typed
  BY TypedInit
<1>2. Typed /\ [Next]_vars => Typed'
  BY NextIsStep, TypedStep
<1>3. Typed => TypeOK
  BY TypedIsTyped
<1> QED
  BY <1>1, <1>2, <1>3, PTL DEF Spec

-------------------------------------------------------------------------------
(***************************************************************************)
(* The phases of a connection, for programs that end at their first        *)
(* exception.  Either the client is gone, or it is between two calls and   *)
(* nothing is on its way, or it is in a call of which all lines are on     *)
(* their way to the thread, or all lines of the reply on their way back,   *)
(* or the call was refused and the connection is of no more use, or the    *)
(* connection broke in a call, whose lines the thread may still read.      *)
(***************************************************************************)
Pair(stream, first, second) == Len(stream) = 2 /\ stream[1] = first /\ stream[2] = second

WithDocument(stream, first, name, text) ==
    /\ Len(stream) = 3 + Len(Content(text))
    /\ stream[1] = first
    /\ stream[2] = Word(name)
    /\ stream[3] = LengthLine(text)

\* A document of that content may be put into the session of the thread.
Stored(c, name, text) ==
    sessionId[c] \in open /\ name \notin FileNames \cup {Empty}
        => Client!Document(sessionId[c], name, text) \in posted

\* All the lines of a call are on their way, and the session it is about is
\* the one of the thread.
Carries(c, call) ==
    \/ call.op = "open" /\ Len(toServer[c]) = 1 /\ toServer[c][1] = Word("open")
    \/ call.op = "resume" /\ Pair(toServer[c], Word("resume"), IdLine(call.id))
    \/ /\ call.op = "close" /\ Pair(toServer[c], Word("close"), IdLine(call.id))
       /\ sessionId[c] \in open => call.id = sessionId[c]
    \/ call.op = "get" /\ Pair(toServer[c], Word("get"), Word(call.name))
    \/ /\ call.op = "post" /\ WithDocument(toServer[c], Word("post"), call.name, call.text)
       /\ Stored(c, call.name, call.text)

\* A post whose content was cut off.
CutOff(c) ==
    \E name \in Names, text \in Texts \ {Empty} :
        /\ Len(toServer[c]) = 3
        /\ toServer[c][1] = Word("post")
        /\ toServer[c][2] = Word(name)
        /\ toServer[c][3] = LengthLine(text)
        /\ Stored(c, name, Cut)

\* What is unread of a call that was refused: nothing, the name of a
\* document, or its length with what follows.
Rest(c) ==
    \/ Len(toServer[c]) = 0
    \/ Len(toServer[c]) = 1 /\ \E name \in Names : toServer[c][1] = Word(name)
    \/ Len(toServer[c]) > 0 /\ IsLength(toServer[c][1])

\* The two ends are in the same session, unless that of the thread is over.
Agreed(c) == sessionId[c] \in open => sessionID[c] = sessionId[c]

\* The reply is whole and says what the call hopes for.
Granted(c, call, reply) ==
    \/ call.op = "open" /\ Pair(reply, Word("accepted"), IdLine(sessionId[c]))
    \/ /\ call.op = "resume" /\ Pair(reply, Word("accepted"), IdLine(call.id))
       /\ sessionId[c] = call.id
    \/ /\ call.op = "close" /\ Pair(reply, Word("closed"), IdLine(sessionID[c]))
       /\ sessionId[c] \notin open
    \/ /\ call.op = "get" /\ Agreed(c)
       /\ \E text \in Contents :
             /\ WithDocument(reply, Word("success"), call.name, text)
             /\ Client!Document(sessionID[c], call.name, text) \in posted
    \/ call.op = "post" /\ Len(reply) = 1 /\ reply[1] = Word("success") /\ Agreed(c)

Refusal(reply) == Len(reply) > 0 /\ reply[1] \in {Word("error"), Word("rejected")}

\* What a thread that is cut off from its client may find.
Left(c) == (\E call \in Asked : Carries(c, call)) \/ CutOff(c) \/ Rest(c)

Gone(c) ==
    /\ ~connected[c] /\ calling[c] = Client!NoCall /\ ~failed[c]
    /\ toClient[c] = <<>> /\ got[c] = {}
    /\ Left(c)

Idle(c) ==
    /\ connected[c] /\ calling[c] = Client!NoCall /\ ~failed[c]
    /\ toServer[c] = <<>> /\ toClient[c] = <<>>
    /\ Agreed(c) /\ got[c] \subseteq posted

Asking(c) ==
    /\ connected[c] /\ calling[c] # Client!NoCall /\ thread[c] = "running"
    /\ Carries(c, calling[c]) /\ toClient[c] = <<>>
    /\ Agreed(c) /\ got[c] = {}

Answered(c) ==
    /\ connected[c] /\ calling[c] # Client!NoCall
    /\ toServer[c] = <<>> /\ Granted(c, calling[c], toClient[c]) /\ got[c] = {}

Doomed(c) ==
    /\ connected[c] /\ Rest(c) /\ got[c] = {}
    /\ \/ calling[c] = Client!NoCall /\ failed[c]
       \/ calling[c] # Client!NoCall /\ Refusal(toClient[c])

Severed(c) ==
    /\ connected[c] /\ thread[c] # "running" /\ Left(c)
    /\ toClient[c] = <<>> /\ got[c] = {}
    /\ calling[c] # Client!NoCall \/ failed[c]

InPhase(c) ==
    Gone(c) \/ Idle(c) \/ Asking(c) \/ Answered(c) \/ Doomed(c) \/ Severed(c)

\* What a session holds was posted for it.
ValuesPosted ==
    \A s \in Ids : \A name \in Names :
        values[s][name] \notin {Missing, Empty} =>
            /\ name \notin FileNames \cup {Empty}
            /\ Client!Document(s, name, values[s][name]) \in posted

Phases == ValuesPosted /\ \A c \in Connections : InPhase(c)

-------------------------------------------------------------------------------
(***************************************************************************)
(* What the lines of a reply and of a call tell.                           *)
(***************************************************************************)
LEMMA StreamFacts ==
    /\ \A stream \in Seq(Lines) : <<>> \o stream = stream
    /\ \A stream \in Seq(Lines) : Len(stream) = 0 <=> stream = <<>>
    /\ Len(<<>>) = 0
OBVIOUS

LEMMA ReplyShapes ==
    /\ \A id : Pair(Accepted(id), Word("accepted"), IdLine(id))
    /\ \A id : Pair(Closed(id), Word("closed"), IdLine(id))
    /\ Refusal(Error) /\ Refusal(Rejected)
    /\ Len(Success) = 1 /\ Success[1] = Word("success")
    /\ \A name \in Names, text \in Contents :
          WithDocument(SuccessWith(name, text), Word("success"), name, text)
<1>1. ASSUME NEW name \in Names, NEW text \in Contents
      PROVE  WithDocument(SuccessWith(name, text), Word("success"), name, text)
  <2>1. Content(text) \in Seq(Lines)
    BY ContentType DEF Contents
  <2>2. /\ Word("success") \in Lines /\ Word(name) \in Lines /\ LengthLine(text) \in Lines
    BY LineTypes DEF Statuses, Contents
  <2>3. PICK a \in Lines, b \in Lines, d \in Lines, rest \in Seq(Lines) :
            a = Word("success") /\ b = Word(name) /\ d = LengthLine(text) /\ rest = Content(text)
    BY <2>1, <2>2
  <2>4. SuccessWith(name, text) = <<a, b, d>> \o rest
    BY <2>3, Zenon DEF SuccessWith
  <2>5. LET reply == <<a, b, d>> \o rest
        IN  Len(reply) = 3 + Len(rest) /\ reply[1] = a /\ reply[2] = b /\ reply[3] = d
    OBVIOUS
  <2> QED
    BY <2>3, <2>4, <2>5, Zenon DEF WithDocument
<1> QED
  BY <1>1 DEF Accepted, Closed, Error, Rejected, Success, Pair, Refusal

\* A command is met by its own handler only.
LEMMA Commanded ==
    ASSUME NEW c \in Connections, NEW call, Carries(c, call), NEW w, NEW n, Command(c, w, n)
    PROVE  call.op = w
BY LinesDiffer DEF Carries, Command, Pair, WithDocument

LEMMA RefuseLeaves ==
    ASSUME Wires, NEW c \in Connections, NEW n \in Nat, n <= Len(toServer[c]), Refuse(c, n),
           \/ n = Len(toServer[c])
           \/ n < Len(toServer[c]) /\ IsLength(toServer[c][n + 1])
           \/ n + 1 = Len(toServer[c]) /\ \E name \in Names : toServer[c][n + 1] = Word(name)
    PROVE  /\ Exchange(c, n, Error) /\ UNCHANGED <<sessionId, store>>
           /\ Rest(c)'
<1>1. Exchange(c, n, Error) /\ UNCHANGED <<sessionId, store>>
  BY Zenon DEF Refuse
<1>2. toServer[c] \in Seq(Lines)
  BY DEF Wires
<1>3. PICK left \in Seq(Lines) : left = Drop(toServer[c], n)
  BY <1>2, DropType
<1>4. toServer' = [toServer EXCEPT ![c] = left]
  BY <1>1, <1>3, Zenon DEF Exchange
<1>5. toServer'[c] = left
  BY <1>4 DEF Wires
<1>6. /\ Len(left) = Len(toServer[c]) - n
      /\ n < Len(toServer[c]) => left[1] = toServer[c][n + 1]
  BY <1>2, <1>3, DropType
<1>7. Rest(c)'
  BY <1>5, <1>6 DEF Rest
<1> QED
  BY <1>1, <1>7

LEMMA WholeLeavesNothing ==
    ASSUME Wires, NEW c \in Connections, NEW reply, Exchange(c, Len(toServer[c]), reply)
    PROVE  toServer'[c] = <<>> /\ Rest(c)'
<1>1. toServer[c] \in Seq(Lines)
  BY DEF Wires
<1>2. Drop(toServer[c], Len(toServer[c])) = <<>>
  BY <1>1, DropType
<1>3. toServer' = [toServer EXCEPT ![c] = <<>>]
  BY <1>2, Zenon DEF Exchange
<1>4. toServer'[c] = <<>>
  BY <1>3 DEF Wires
<1> QED
  BY <1>4 DEF Rest

\* The thread reads the whole call and grants it, or it refuses the call.
Outcome(c, call) ==
    \/ \E reply \in Seq(Lines) :
          /\ Exchange(c, Len(toServer[c]), reply)
          /\ Agreed(c) => Granted(c, call, reply)'
    \/ \E n \in Nat, reply \in Seq(Lines) :
          /\ n <= Len(toServer[c])
          /\ Exchange(c, n, reply)
          /\ Refusal(reply)
          /\ Rest(c)'

LEMMA RefusedOutcome ==
    ASSUME Wires, NEW c \in Connections, NEW call, NEW n \in Nat, n <= Len(toServer[c]),
           Refuse(c, n),
           \/ n = Len(toServer[c])
           \/ n < Len(toServer[c]) /\ IsLength(toServer[c][n + 1])
           \/ n + 1 = Len(toServer[c]) /\ \E name \in Names : toServer[c][n + 1] = Word(name)
    PROVE  Outcome(c, call) /\ UNCHANGED <<sessionId, store>>
<1>1. /\ Exchange(c, n, Error) /\ UNCHANGED <<sessionId, store>>
      /\ Rest(c)'
  BY RefuseLeaves
<1>2. Error \in Seq(Lines) /\ Refusal(Error)
  BY RepliesTyped, ReplyShapes
<1> QED
  BY <1>1, <1>2, Zenon DEF Outcome

LEMMA RefusedWhole ==
    ASSUME Wires, NEW c \in Connections, NEW call, NEW n \in Nat, Len(toServer[c]) = n,
           Refuse(c, n)
    PROVE  Outcome(c, call) /\ UNCHANGED <<sessionId, store>>
BY RefusedOutcome

LEMMA OpenOutcome ==
    ASSUME Typed, ValuesPosted, NEW c \in Connections, NEW call \in Asked,
           Carries(c, call), HandleOpen(c), UNCHANGED clientVars
    PROVE  Outcome(c, call) /\ ValuesPosted'
<1>1. Wires /\ sessionId \in [Connections -> AnyId]
  BY DEF Typed, ServerTypeOK
<1>2. call.op = "open"
  BY Commanded, Zenon DEF HandleOpen
<1>3. Len(toServer[c]) = 1
  BY <1>2 DEF Carries
<1>4. CASE Refuse(c, 1)
  <2>1. Outcome(c, call) /\ UNCHANGED <<sessionId, store>>
    BY <1>1, <1>3, <1>4, RefusedWhole
  <2> QED
    BY <2>1, Zenon DEF ValuesPosted, store, clientVars
<1>5. CASE OpenSession(c)
  <2>1. /\ sessionId' = [sessionId EXCEPT ![c] = nextSessionId]
        /\ nextSessionId <= MaxSessions
        /\ Exchange(c, 1, Accepted(nextSessionId))
        /\ UNCHANGED values
    BY <1>5, Zenon DEF OpenSession
  <2>2. nextSessionId \in AnyId
    BY <2>1, ConnectionAssumption DEF Typed, ServerTypeOK, AnyId, Ids
  <2>3. PICK reply \in Seq(Lines) : reply = Accepted(nextSessionId)
    BY <2>2, RepliesTyped
  <2>4. sessionId'[c] = nextSessionId
    BY <1>1, <2>1
  <2>5. Granted(c, call, reply)'
    BY <1>2, <2>3, <2>4, ReplyShapes, Zenon DEF Granted
  <2>6. Outcome(c, call)
    BY <1>3, <2>1, <2>3, <2>5, Zenon DEF Outcome
  <2> QED
    BY <2>1, <2>6, Zenon DEF ValuesPosted, clientVars
<1> QED
  BY <1>4, <1>5 DEF HandleOpen

LEMMA ResumeOutcome ==
    ASSUME Typed, ValuesPosted, NEW c \in Connections, NEW call \in Asked,
           Carries(c, call), HandleResume(c), UNCHANGED clientVars
    PROVE  Outcome(c, call) /\ ValuesPosted'
<1>1. Wires /\ sessionId \in [Connections -> AnyId] /\ call.id \in AnyId
  BY RecordTypes DEF Typed, ServerTypeOK
<1>2. call.op = "resume"
  BY Commanded, Zenon DEF HandleResume
<1>3. Len(toServer[c]) = 2 /\ toServer[c][2] = IdLine(call.id)
  BY <1>2 DEF Carries, Pair
<1>4. toServer[c][2][2] = call.id
  BY <1>1, <1>3, LinesDiffer
<1>5. CASE Refuse(c, 2)
  <2>1. Outcome(c, call) /\ UNCHANGED <<sessionId, store>>
    BY <1>1, <1>3, <1>5, RefusedWhole
  <2> QED
    BY <2>1, Zenon DEF ValuesPosted, store, clientVars
<1>6. CASE ResumeSession(c, call.id)
  <2>1. /\ sessionId' = [sessionId EXCEPT ![c] = call.id]
        /\ Exchange(c, 2, Accepted(call.id))
        /\ UNCHANGED store
    BY <1>6, Zenon DEF ResumeSession
  <2>2. PICK reply \in Seq(Lines) : reply = Accepted(call.id)
    BY <1>1, RepliesTyped
  <2>3. sessionId'[c] = call.id
    BY <1>1, <2>1
  <2>4. Granted(c, call, reply)'
    BY <1>2, <2>2, <2>3, ReplyShapes, Zenon DEF Granted
  <2>5. Outcome(c, call)
    BY <1>3, <2>1, <2>2, <2>4, Zenon DEF Outcome
  <2> QED
    BY <2>1, <2>5, Zenon DEF ValuesPosted, store, clientVars
<1>7. CASE RejectSession(c, call.id)
  <2>1. Exchange(c, 2, Rejected) /\ UNCHANGED <<sessionId, store>>
    BY <1>7, Zenon DEF RejectSession
  <2>2. Rest(c)'
    BY <1>1, <1>3, <2>1, WholeLeavesNothing
  <2>3. Rejected \in Seq(Lines) /\ Refusal(Rejected) /\ 2 \in Nat /\ 2 <= Len(toServer[c])
    BY <1>3, RepliesTyped, ReplyShapes
  <2>4. Outcome(c, call)
    BY <2>1, <2>2, <2>3, Zenon DEF Outcome
  <2> QED
    BY <2>1, <2>4, Zenon DEF ValuesPosted, store, clientVars
<1> QED
  BY <1>4, <1>5, <1>6, <1>7, Zenon DEF HandleResume

LEMMA OpenAreIds ==
    ASSUME Typed
    PROVE  /\ open \subseteq Ids
           /\ nextSessionId \notin open /\ 0 \notin open
           /\ \A c \in Connections : sessionId[c] # nextSessionId
<1>1. /\ nextSessionId \in 1 .. MaxSessions + 1
      /\ open \subseteq 1 .. nextSessionId - 1
      /\ sessionId \in [Connections -> AnyId]
      /\ \A c \in Connections : sessionId[c] < nextSessionId
  BY DEF Typed, ServerTypeOK
<1> QED
  BY <1>1, ConnectionAssumption DEF Ids, AnyId

\* A session that is over holds nothing.
LEMMA EndedHoldsNothing ==
    ASSUME Typed, ValuesPosted, NEW s \in Ids, posted' = posted,
           values' = [values EXCEPT ![s] = NoDocuments]
    PROVE  ValuesPosted'
<1>1. ASSUME NEW r \in Ids, NEW name \in Names, values'[r][name] \notin {Missing, Empty}
      PROVE  values'[r][name] = values[r][name]
  BY <1>1 DEF Typed, ServerTypeOK, NoDocuments
<1>2. ASSUME NEW r \in Ids, NEW name \in Names, values'[r][name] \notin {Missing, Empty}
      PROVE  /\ name \notin FileNames \cup {Empty}
             /\ Client!Document(r, name, values'[r][name]) \in posted'
  <2>1. values'[r][name] = values[r][name] /\ values[r][name] \notin {Missing, Empty}
    BY <1>1, <1>2
  <2>2. name \notin FileNames \cup {Empty} /\ Client!Document(r, name, values[r][name]) \in posted
    BY <2>1, Zenon DEF ValuesPosted
  <2> QED
    BY <2>1, <2>2
<1> QED
  BY <1>2, Zenon DEF ValuesPosted

LEMMA CloseOutcome ==
    ASSUME Typed, ValuesPosted, NEW c \in Connections, NEW call \in Asked,
           Carries(c, call), HandleClose(c), UNCHANGED clientVars
    PROVE  Outcome(c, call) /\ ValuesPosted'
<1>1. Wires /\ sessionId \in [Connections -> AnyId]
  BY DEF Typed, ServerTypeOK
<1>2. call.op = "close"
  BY Commanded, Zenon DEF HandleClose
<1>3. Len(toServer[c]) = 2
  BY <1>2 DEF Carries, Pair
<1>4. CASE Refuse(c, 2)
  <2>1. Outcome(c, call) /\ UNCHANGED <<sessionId, store>>
    BY <1>1, <1>3, <1>4, RefusedWhole
  <2> QED
    BY <2>1, Zenon DEF ValuesPosted, store, clientVars
<1>5. CASE CloseSession(c)
  <2>1. /\ sessionId[c] \in open
        /\ open' = open \ {sessionId[c]}
        /\ values' = [values EXCEPT ![sessionId[c]] = NoDocuments]
        /\ Exchange(c, 2, Closed(sessionId[c]))
        /\ UNCHANGED <<sessionId, nextSessionId>>
    BY <1>5, Zenon DEF CloseSession
  <2>2. PICK reply \in Seq(Lines) : reply = Closed(sessionId[c])
    BY <1>1, RepliesTyped
  <2>3. ASSUME Agreed(c)
        PROVE  Granted(c, call, reply)'
    <3>1. sessionID'[c] = sessionId[c] /\ sessionId'[c] \notin open'
      BY <2>1, <2>3 DEF Agreed, clientVars
    <3> QED
      BY <1>2, <2>2, <3>1, ReplyShapes, Zenon DEF Granted
  <2>4. Outcome(c, call)
    BY <1>3, <2>1, <2>2, <2>3, Zenon DEF Outcome
  <2>5. sessionId[c] \in Ids
    BY <2>1, OpenAreIds
  <2> QED
    BY <2>1, <2>4, <2>5, EndedHoldsNothing DEF clientVars
<1> QED
  BY <1>4, <1>5, Zenon DEF HandleClose

LEMMA GetOutcome ==
    ASSUME Typed, ValuesPosted, NEW c \in Connections, NEW call \in Asked,
           Carries(c, call), HandleGet(c), UNCHANGED clientVars
    PROVE  Outcome(c, call) /\ ValuesPosted'
<1>1. Wires
  BY DEF Typed
<1>2. call.op = "get"
  BY Commanded, Zenon DEF HandleGet
<1>3. /\ Len(toServer[c]) = 2 /\ toServer[c][2] = Word(call.name)
      /\ call.name \in Names
  BY <1>2, RecordTypes DEF Carries, Pair
<1>4. toServer[c][2][1] = call.name
  BY <1>3, LinesDiffer
<1>5. ASSUME UNCHANGED <<sessionId, store>>
      PROVE  ValuesPosted'
  BY <1>5, Zenon DEF ValuesPosted, store, clientVars
<1>6. CASE Refuse(c, 1)
  <2>1. 1 \in Nat /\ 1 <= Len(toServer[c]) /\ 1 + 1 = Len(toServer[c])
    BY <1>3
  <2>2. \E name \in Names : toServer[c][1 + 1] = Word(name)
    BY <1>3
  <2>3. Outcome(c, call) /\ UNCHANGED <<sessionId, store>>
    BY <1>1, <1>6, <2>1, <2>2, RefusedOutcome
  <2> QED
    BY <1>5, <2>3
<1>7. CASE /\ Readable(c, call.name)
           /\ Exchange(c, 2, SuccessWith(call.name, values[sessionId[c]][call.name]))
           /\ UNCHANGED <<sessionId, store>>
  <2>1. /\ sessionId[c] \in open
        /\ values[sessionId[c]][call.name] \notin {Missing, Empty}
    BY <1>7 DEF Readable
  <2>2. sessionId[c] \in Ids
    BY <2>1, OpenAreIds
  <2>3. PICK text \in Contents : text = values[sessionId[c]][call.name]
    BY <1>3, <2>1, <2>2 DEF Typed, ServerTypeOK, Contents
  <2>4. Client!Document(sessionId[c], call.name, text) \in posted
    BY <1>3, <2>1, <2>2, <2>3, Zenon DEF ValuesPosted
  <2>5. PICK reply \in Seq(Lines) : reply = SuccessWith(call.name, text)
    BY <1>3, RepliesTyped
  <2>6. WithDocument(reply, Word("success"), call.name, text)
    BY <1>3, <2>5, ReplyShapes
  <2>7. ASSUME Agreed(c)
        PROVE  Granted(c, call, reply)'
    <3>1. sessionID[c] = sessionId[c]
      BY <2>1, <2>7 DEF Agreed
    <3>2. Agreed(c)'
      BY <1>7, <3>1 DEF Agreed, clientVars
    <3>3. sessionID' = sessionID /\ posted' = posted
      BY DEF clientVars
    <3>4. Client!Document(sessionID[c], call.name, text) \in posted
      BY <2>4, <3>1, Zenon
    <3>5. \E t \in Contents :
             /\ WithDocument(reply, Word("success"), call.name, t)
             /\ Client!Document(sessionID'[c], call.name, t) \in posted'
      BY <2>6, <3>3, <3>4, Zenon
    <3> QED
      BY <1>2, <3>2, <3>5, Zenon DEF Granted
  <2>8. Exchange(c, Len(toServer[c]), reply)
    BY <1>3, <1>7, <2>3, <2>5, Zenon
  <2>9. Outcome(c, call)
    BY <2>7, <2>8, Zenon DEF Outcome
  <2> QED
    BY <1>5, <1>7, <2>9
<1>8. CASE Exchange(c, 2, Error) /\ UNCHANGED <<sessionId, store>>
  <2>1. Rest(c)'
    BY <1>1, <1>3, <1>8, WholeLeavesNothing
  <2>2. Error \in Seq(Lines) /\ Refusal(Error) /\ 2 \in Nat /\ 2 <= Len(toServer[c])
    BY <1>3, RepliesTyped, ReplyShapes
  <2>3. Outcome(c, call)
    BY <1>8, <2>1, <2>2, Zenon DEF Outcome
  <2> QED
    BY <1>5, <1>8, <2>3
<1> QED
  BY <1>4, <1>6, <1>7, <1>8, Zenon DEF HandleGet

\* What a post puts into a session was posted for it.
LEMMA PutPosted ==
    ASSUME Typed, ValuesPosted, NEW c \in Connections, NEW name \in Names,
           NEW text \in Contents \cup {Empty}, text = Empty \/ Stored(c, name, text),
           sessionId[c] \in open, name \notin FileNames, name # Empty,
           values' = [values EXCEPT ![sessionId[c]][name] = text], posted' = posted
    PROVE  ValuesPosted'
<1>1. sessionId[c] \in Ids
  BY OpenAreIds
<1>2. values \in [Ids -> [Names -> Contents \cup {Empty, Missing}]]
  BY DEF Typed, ServerTypeOK, Contents
<1>3. name \notin FileNames \cup {Empty}
  OBVIOUS
<1>4. text # Empty => Client!Document(sessionId[c], name, text) \in posted
  BY <1>3, Zenon DEF Stored
<1>5. ASSUME NEW r \in Ids, NEW other \in Names, values'[r][other] \notin {Missing, Empty}
      PROVE  /\ other \notin FileNames \cup {Empty}
             /\ Client!Document(r, other, values'[r][other]) \in posted'
  <2>1. CASE r = sessionId[c] /\ other = name
    <3>1. values'[r][other] = text
      BY <1>1, <1>2, <2>1
    <3> QED
      BY <1>3, <1>4, <1>5, <2>1, <3>1
  <2>2. CASE ~(r = sessionId[c] /\ other = name)
    <3>1. values'[r][other] = values[r][other]
      BY <1>1, <1>2, <2>2
    <3>2. values[r][other] \notin {Missing, Empty}
      BY <1>5, <3>1
    <3>3. other \notin FileNames \cup {Empty} /\ Client!Document(r, other, values[r][other]) \in posted
      BY <3>2, Zenon DEF ValuesPosted
    <3> QED
      BY <3>1, <3>3
  <2> QED
    BY <2>1, <2>2
<1> QED
  BY <1>5, Zenon DEF ValuesPosted

LEMMA PostEffect ==
    ASSUME Typed, ValuesPosted, NEW c \in Connections, NEW name \in Names, name # Empty,
           NEW text \in Contents \cup {Empty}, text = Empty \/ Stored(c, name, text),
           NEW n \in Nat, Post(c, n, name, text),
           UNCHANGED clientVars
    PROVE  /\ ValuesPosted'
           /\ UNCHANGED <<sessionId, open>>
           /\ Exchange(c, n, Success) \/ Exchange(c, n, Error)
<1>1. posted' = posted
  BY DEF clientVars
<1>2. ASSUME UNCHANGED <<sessionId, store>>
      PROVE  ValuesPosted' /\ UNCHANGED <<sessionId, open>>
  BY <1>1, <1>2, Zenon DEF ValuesPosted, store
<1>3. CASE SaveFile(c, n, name)
  BY <1>2, <1>3, Zenon DEF SaveFile
<1>4. CASE Refuse(c, n)
  BY <1>2, <1>4, Zenon DEF Refuse
<1>5. CASE /\ name \notin FileNames /\ sessionId[c] \in open
           /\ values' = [values EXCEPT ![sessionId[c]][name] = text]
           /\ Exchange(c, n, Success)
           /\ UNCHANGED <<sessionId, open, nextSessionId>>
  <2>1. ValuesPosted'
    BY <1>1, <1>5, PutPosted
  <2> QED
    BY <1>5, <2>1
<1> QED
  BY <1>3, <1>4, <1>5, Zenon DEF Post, PutSessionValue

LEMMA PostOutcome ==
    ASSUME Typed, ValuesPosted, NEW c \in Connections, NEW call \in Asked,
           Carries(c, call), HandlePost(c), UNCHANGED clientVars
    PROVE  Outcome(c, call) /\ ValuesPosted'
<1>1. Wires
  BY DEF Typed
<1>2. call.op = "post"
  BY Commanded, Zenon DEF HandlePost
<1>3. call.name \in Names /\ call.text \in Texts
  BY <1>2, RecordTypes
<1>4. PICK n \in Nat : n = 3 + Len(Content(call.text))
  BY <1>3, ContentType
<1>5. /\ Len(toServer[c]) = n
      /\ toServer[c][2] = Word(call.name)
      /\ toServer[c][3] = LengthLine(call.text)
      /\ Stored(c, call.name, call.text)
  BY <1>2, <1>4 DEF Carries, WithDocument
<1>6. /\ toServer[c][2][1] = call.name
      /\ IsLength(toServer[c][3])
      /\ toServer[c][3][2] = call.text
  BY <1>5, LinesDiffer
<1>7. CASE Refuse(c, 2)
  <2>1. Len(Content(call.text)) \in Nat
    BY <1>3, ContentType
  <2>2. 2 \in Nat /\ 2 < Len(toServer[c]) /\ 2 <= Len(toServer[c]) /\ 2 + 1 = 3
    BY <1>4, <1>5, <2>1
  <2>3. IsLength(toServer[c][2 + 1])
    BY <1>6, <2>2
  <2>4. Outcome(c, call) /\ UNCHANGED <<sessionId, store>>
    BY <1>1, <1>7, <2>2, <2>3, RefusedOutcome
  <2> QED
    BY <2>4, Zenon DEF ValuesPosted, store, clientVars
<1>8. CASE toServer[c][2] # Word(Empty) /\ Post(c, n, call.name, call.text)
  <2>1. call.name # Empty /\ call.text \in Contents
    BY <1>3, <1>5, <1>8 DEF Contents
  <2>2. /\ ValuesPosted'
        /\ UNCHANGED <<sessionId, open>>
        /\ Exchange(c, n, Success) \/ Exchange(c, n, Error)
    BY <1>3, <1>5, <1>8, <2>1, PostEffect
  <2>3. CASE Exchange(c, n, Success)
    <3>1. Agreed(c) => Agreed(c)'
      BY <2>2 DEF Agreed, clientVars
    <3>2. Success \in Seq(Lines) /\ Len(Success) = 1 /\ Success[1] = Word("success")
      BY RepliesTyped, ReplyShapes
    <3>3. PICK reply \in Seq(Lines) : reply = Success
      BY <3>2
    <3>4. Agreed(c) => Granted(c, call, reply)'
      BY <1>2, <3>1, <3>2, <3>3, Zenon DEF Granted
    <3>5. Exchange(c, Len(toServer[c]), reply)
      BY <1>5, <2>3, <3>3, Zenon
    <3> QED
      BY <2>2, <3>4, <3>5, Zenon DEF Outcome
  <2>4. CASE Exchange(c, n, Error)
    <3>1. Exchange(c, Len(toServer[c]), Error) /\ n <= Len(toServer[c])
      BY <1>5, <2>4
    <3>2. Rest(c)'
      BY <1>1, <3>1, WholeLeavesNothing
    <3>3. Error \in Seq(Lines) /\ Refusal(Error)
      BY RepliesTyped, ReplyShapes
    <3> QED
      BY <2>2, <2>4, <3>1, <3>2, <3>3, Zenon DEF Outcome
  <2> QED
    BY <2>2, <2>3, <2>4
<1>9. ~(Len(toServer[c]) < n)
  BY <1>5
<1> QED
  BY <1>4, <1>6, <1>7, <1>8, <1>9, Zenon DEF HandlePost

LEMMA CarriedOutcome ==
    ASSUME Typed, ValuesPosted, NEW c \in Connections, NEW call \in Asked,
           Carries(c, call), Handle(c), UNCHANGED clientVars
    PROVE  Outcome(c, call) /\ ValuesPosted'
BY OpenOutcome, ResumeOutcome, CloseOutcome, GetOutcome, PostOutcome, Zenon DEF Handle

LEMMA CutOffHandled ==
    ASSUME Typed, ValuesPosted, NEW c \in Connections, ~Alive(c),
           CutOff(c), Handle(c), UNCHANGED clientVars
    PROVE  Rest(c)' /\ toClient' = toClient /\ ValuesPosted'
<1>1. Wires
  BY DEF Typed
<1>2. PICK name \in Names, text \in Texts \ {Empty} :
        /\ Len(toServer[c]) = 3
        /\ toServer[c][1] = Word("post")
        /\ toServer[c][2] = Word(name)
        /\ toServer[c][3] = LengthLine(text)
        /\ Stored(c, name, Cut)
  BY Zenon DEF CutOff
<1>3. ASSUME NEW w, NEW n, Command(c, w, n)
      PROVE  w = "post"
  BY <1>2, <1>3, LinesDiffer DEF Command
<1>4. HandlePost(c)
  BY <1>3, Zenon DEF Handle, HandleOpen, HandleResume, HandleClose, HandleGet
<1>5. /\ toServer[c][2][1] = name
      /\ IsLength(toServer[c][3])
      /\ toServer[c][3][2] = text
      /\ Len(Content(text)) = 1
  BY <1>2, LinesDiffer, ContentType
<1>6. ~(Len(toServer[c]) >= 3 + Len(Content(text)))
  BY <1>2, <1>5
<1>7. ASSUME NEW n, NEW reply, Exchange(c, n, reply)
      PROVE  toClient' = toClient
  BY <1>7, Zenon DEF Exchange
<1>8. CASE Refuse(c, 2)
  <2>1. 2 \in Nat /\ 2 <= Len(toServer[c]) /\ 2 < Len(toServer[c]) /\ 2 + 1 = 3
    BY <1>2
  <2>2. IsLength(toServer[c][2 + 1])
    BY <1>5, <2>1
  <2>3. Exchange(c, 2, Error) /\ UNCHANGED <<sessionId, store>> /\ Rest(c)'
    BY <1>1, <1>8, <2>1, <2>2, RefuseLeaves
  <2> QED
    BY <1>7, <2>3, Zenon DEF ValuesPosted, store, clientVars
<1>9. CASE toServer[c][2] # Word(Empty) /\ \E part \in {Cut, Empty} : Post(c, 3, name, part)
  <2>1. name # Empty /\ Cut \in Contents
    BY <1>2, <1>9 DEF Contents
  <2>2. ValuesPosted' /\ (Exchange(c, 3, Success) \/ Exchange(c, 3, Error))
    BY <1>2, <1>9, <2>1, PostEffect
  <2>3. PICK reply : Exchange(c, 3, reply)
    BY <2>2
  <2>4. Rest(c)'
    BY <1>1, <1>2, <2>3, WholeLeavesNothing
  <2> QED
    BY <1>7, <2>2, <2>3, <2>4
<1> QED
  BY <1>4, <1>5, <1>6, <1>8, <1>9, Zenon DEF HandlePost

LEMMA RestHandled ==
    ASSUME Typed, ValuesPosted, NEW c \in Connections, Rest(c), Handle(c), UNCHANGED clientVars
    PROVE  /\ ValuesPosted'
           /\ \E reply \in Seq(Lines) : Exchange(c, Len(toServer[c]), reply)
<1>1. \/ Len(toServer[c]) \in {0, 1}
      \/ IsLength(toServer[c][1])
  BY DEF Rest
<1>2. ASSUME NEW w, NEW n \in {1, 2, 3}, Command(c, w, n)
      PROVE  n = 1 /\ Len(toServer[c]) = 1
  <2>1. Len(toServer[c]) >= n /\ toServer[c][1] = Word(w)
    BY <1>2 DEF Command
  <2>2. ~IsLength(toServer[c][1])
    BY <2>1, LinesDiffer
  <2>3. PICK length \in {0, 1} : length = Len(toServer[c])
    BY <1>1, <2>2
  <2> QED
    BY <1>2, <2>1, <2>3
<1>3. Error \in Seq(Lines)
  BY RepliesTyped
<1>4. ASSUME Refuse(c, 1), Len(toServer[c]) = 1
      PROVE  /\ ValuesPosted'
             /\ \E reply \in Seq(Lines) : Exchange(c, Len(toServer[c]), reply)
  <2>1. Exchange(c, 1, Error) /\ UNCHANGED <<sessionId, store>>
    BY <1>4, Zenon DEF Refuse
  <2>2. ValuesPosted'
    BY <2>1, Zenon DEF ValuesPosted, store, clientVars
  <2> QED
    BY <1>3, <1>4, <2>1, <2>2, Zenon
<1>5. CASE HandleOpen(c)
  <2>1. Len(toServer[c]) = 1
    BY <1>2, <1>5 DEF HandleOpen
  <2>2. CASE OpenSession(c)
    <3>1. nextSessionId <= MaxSessions /\ Exchange(c, 1, Accepted(nextSessionId)) /\ UNCHANGED values
      BY <2>2, Zenon DEF OpenSession
    <3>2. nextSessionId \in AnyId
      BY <3>1, ConnectionAssumption DEF Typed, ServerTypeOK, AnyId, Ids
    <3>3. Accepted(nextSessionId) \in Seq(Lines)
      BY <3>2, RepliesTyped
    <3>4. ValuesPosted'
      BY <3>1, Zenon DEF ValuesPosted, clientVars
    <3> QED
      BY <2>1, <3>1, <3>3, <3>4, Zenon
  <2> QED
    BY <1>4, <1>5, <2>1, <2>2 DEF HandleOpen
<1>6. CASE HandleGet(c)
  <2>1. ~Command(c, "get", 2)
    BY <1>2
  <2>2. Command(c, "get", 1) /\ Refuse(c, 1)
    BY <1>6, <2>1, Zenon DEF HandleGet
  <2>3. Len(toServer[c]) = 1
    BY <1>2, <2>2
  <2> QED
    BY <1>4, <2>2, <2>3
<1>7. ~Command(c, "resume", 2) /\ ~Command(c, "close", 2)
  BY <1>2
<1>8. ~Command(c, "post", 2) /\ ~Command(c, "post", 3)
  BY <1>2
<1> QED
  BY <1>5, <1>6, <1>7, <1>8, Zenon DEF Handle, HandleResume, HandleClose, HandlePost

\* Nothing but a rest that is no command ends a thread whose client is there.
LEMMA OtherIsRest ==
    ASSUME Wires, NEW c \in Connections, HandleOther(c)
    PROVE  ~CutOff(c) /\ \A call \in Asked : ~Carries(c, call)
<1>1. toServer[c] # <<>> /\ Head(toServer[c]) \notin {Word(w) : w \in Commands}
  BY DEF HandleOther
<1>2. toServer[c][1] \notin {Word(w) : w \in Commands}
  <2>1. Head(toServer[c]) = toServer[c][1]
    BY <1>1 DEF Wires
  <2> QED
    BY <1>1, <2>1, Zenon
<1>3. ASSUME NEW w \in {"open", "resume", "close", "get", "post"}
      PROVE  toServer[c][1] # Word(w)
  BY <1>2, Zenon DEF Commands
<1> QED
  BY <1>3 DEF CutOff, Carries, Pair, WithDocument

(***************************************************************************)
(* A step of one client or of its thread leaves the others where they are. *)
(***************************************************************************)
Stays(o) ==
    /\ connected'[o] = connected[o] /\ thread'[o] = thread[o]
    /\ toServer'[o] = toServer[o] /\ toClient'[o] = toClient[o]
    /\ sessionId'[o] = sessionId[o]
    /\ sessionID'[o] = sessionID[o] /\ calling'[o] = calling[o]
    /\ failed'[o] = failed[o] /\ got'[o] = got[o]

\* What others do to the sessions and to what was posted.
Grows ==
    /\ open' \subseteq open \cup {nextSessionId}
    /\ posted \subseteq posted'

LEMMA StaysParts ==
    ASSUME Typed, NEW o \in Connections, Stays(o), Grows
    PROVE  /\ Gone(o) => Gone(o)'
           /\ Idle(o) => Idle(o)'
           /\ Asking(o) => Asking(o)'
           /\ Answered(o) => Answered(o)'
           /\ Doomed(o) => Doomed(o)'
           /\ Severed(o) => Severed(o)'
<1>1. sessionId'[o] \in open' => sessionId[o] \in open
  BY OpenAreIds DEF Stays, Grows
<1>2. Agreed(o) => Agreed(o)'
  BY <1>1 DEF Stays, Agreed
<1>3. ASSUME NEW name, NEW text, Stored(o, name, text)
      PROVE  Stored(o, name, text)'
  BY <1>1, <1>3, Zenon DEF Stored, Stays, Grows
<1>4. ASSUME NEW call, Carries(o, call)
      PROVE  Carries(o, call)'
  <2>1. Stored(o, call.name, call.text) => Stored(o, call.name, call.text)'
    BY <1>3
  <2>2. toServer'[o] = toServer[o] /\ sessionId'[o] = sessionId[o]
    BY DEF Stays
  <2> QED
    BY <1>1, <1>4, <2>1, <2>2, Zenon DEF Carries
<1>5. CutOff(o) => CutOff(o)'
  BY <1>3, Zenon DEF CutOff, Stays
<1>6. Rest(o) => Rest(o)'
  BY DEF Rest, Stays
<1>7. ASSUME NEW call, NEW reply, Granted(o, call, reply)
      PROVE  Granted(o, call, reply)'
  BY <1>1, <1>2, <1>7, Zenon DEF Granted, Stays, Grows
<1>13. Left(o) => Left(o)'
  BY <1>4, <1>5, <1>6, Zenon DEF Left
<1>8. Gone(o) => Gone(o)'
  BY <1>13, Zenon DEF Gone, Stays
<1>9. Idle(o) => Idle(o)'
  BY <1>2, Zenon DEF Idle, Stays, Grows
<1>10. Asking(o) => Asking(o)'
  BY <1>2, <1>4, Zenon DEF Asking, Stays
<1>11. Answered(o) => Answered(o)'
  BY <1>7, Zenon DEF Answered, Stays
<1>12. Doomed(o) => Doomed(o)'
  BY <1>6, Zenon DEF Doomed, Stays
<1>14. Severed(o) => Severed(o)'
  BY <1>13, Zenon DEF Severed, Stays
<1> QED
  BY <1>8, <1>9, <1>10, <1>11, <1>12, <1>14

LEMMA StaysInPhase ==
    ASSUME Typed, NEW o \in Connections, Stays(o), Grows, InPhase(o)
    PROVE  InPhase(o)'
BY StaysParts, Zenon DEF InPhase

LEMMA ServeSpares ==
    ASSUME Typed, NEW c \in Connections, NEW o \in Connections \ {c},
           Serve(c), UNCHANGED clientVars
    PROVE  Stays(o) /\ Grows
<1>1. /\ sessionID'[o] = sessionID[o] /\ calling'[o] = calling[o]
      /\ failed'[o] = failed[o] /\ got'[o] = got[o]
      /\ posted \subseteq posted'
  BY DEF clientVars
<1>2. /\ connected \in [Connections -> BOOLEAN]
      /\ thread \in [Connections -> {"none", "running", "broken"}]
      /\ toServer \in [Connections -> Seq(Lines)]
      /\ toClient \in [Connections -> Seq(Lines)]
      /\ sessionId \in [Connections -> AnyId]
  BY DEF Typed, Wires, ServerTypeOK
<1> DEFINE Lets == toServer'[o] = toServer[o] /\ toClient'[o] = toClient[o]
<1>3. ASSUME NEW n, NEW reply, Exchange(c, n, reply)
      PROVE  Lets
  BY <1>2, <1>3 DEF Exchange
<1> HIDE DEF Lets
<1> DEFINE Spared == /\ Lets /\ sessionId'[o] = sessionId[o]
                     /\ open' \subseteq open \cup {nextSessionId}
<1>4. ASSUME Handle(c)
      PROVE  Spared
  <2>1. ASSUME NEW n, NEW reply, Exchange(c, n, reply), UNCHANGED <<sessionId, store>>
        PROVE  Spared
    BY <1>3, <2>1 DEF store
  <2>2. ASSUME NEW n, Refuse(c, n)
        PROVE  Spared
    BY <2>1, <2>2, Zenon DEF Refuse
  <2>3. CASE OpenSession(c)
    BY <1>2, <1>3, <2>3 DEF OpenSession
  <2>4. ASSUME NEW id, ResumeSession(c, id)
        PROVE  Spared
    BY <1>2, <1>3, <2>4 DEF ResumeSession, store
  <2>5. ASSUME NEW id, RejectSession(c, id)
        PROVE  Spared
    BY <2>1, <2>5, Zenon DEF RejectSession
  <2>6. CASE CloseSession(c)
    BY <1>3, <2>6 DEF CloseSession
  <2>7. ASSUME NEW n, NEW name, NEW text, Post(c, n, name, text)
        PROVE  Spared
    <3>1. CASE SaveFile(c, n, name)
      BY <2>1, <3>1, Zenon DEF SaveFile
    <3>2. CASE PutSessionValue(c, n, name, text)
      <4>1. CASE Exchange(c, n, Success) /\ UNCHANGED <<sessionId, open, nextSessionId>>
        BY <1>3, <4>1
      <4> QED
        BY <2>2, <3>2, <4>1, Zenon DEF PutSessionValue
    <3> QED
      BY <2>7, <3>1, <3>2, Zenon DEF Post
  <2> HIDE DEF Spared
  <2>8. CASE HandleOpen(c)
    BY <2>2, <2>3, <2>8, Zenon DEF HandleOpen
  <2>9. CASE HandleResume(c)
    BY <2>2, <2>4, <2>5, <2>9, Zenon DEF HandleResume
  <2>10. CASE HandleClose(c)
    BY <2>2, <2>6, <2>10, Zenon DEF HandleClose
  <2>11. CASE HandleGet(c)
    BY <2>1, <2>2, <2>11, Zenon DEF HandleGet
  <2>12. CASE HandlePost(c)
    BY <2>2, <2>7, <2>12, Zenon DEF HandlePost
  <2> QED
    BY <1>4, <2>8, <2>9, <2>10, <2>11, <2>12, Zenon DEF Handle
<1>5. CASE Handle(c)
  <2>1. UNCHANGED <<connected, thread>>
    BY <1>5, Zenon DEF Handle
  <2> QED
    BY <1>1, <1>4, <1>5, <2>1 DEF Stays, Grows, Lets
<1>6. CASE HandleOther(c)
  <2>1. /\ thread' = [thread EXCEPT ![c] = "none"]
        /\ UNCHANGED <<connected, sessionId, store>>
    BY <1>6, Zenon DEF HandleOther
  <2>2. \/ \E n, reply : Exchange(c, n, reply)
        \/ /\ toServer' = [toServer EXCEPT ![c] = <<>>]
           /\ toClient' = [toClient EXCEPT ![c] = <<>>]
    BY <1>6, Zenon DEF HandleOther
  <2>3. Lets
    BY <1>2, <1>3, <2>2 DEF Lets
  <2> QED
    BY <1>1, <1>2, <2>1, <2>3 DEF Stays, Grows, store, Lets
<1>7. CASE EndOfStream(c)
  BY <1>1, <1>2, <1>7 DEF EndOfStream, Stays, Grows, store
<1> QED
  BY <1>5, <1>6, <1>7 DEF Serve

LEMMA PostsGrows ==
    ASSUME NEW session, NEW name, NEW text, Client!Posts(session, name, text)
    PROVE  posted \subseteq posted'
BY Zenon DEF Client!Posts

LEMMA ClientSpares ==
    ASSUME Typed, NEW c \in Connections, NEW o \in Connections \ {c},
           Asks(c) \/ Client!Receive(c) \/ Quits(c) \/ Client!Break(c), UNCHANGED serverVars
    PROVE  Stays(o) /\ Grows
<1>1. /\ connected \in [Connections -> BOOLEAN]
      /\ toServer \in [Connections -> Seq(Lines)]
      /\ toClient \in [Connections -> Seq(Lines)]
      /\ sessionID \in [Connections -> AnyId]
      /\ calling \in [Connections -> Asked]
      /\ failed \in [Connections -> BOOLEAN]
      /\ got \in [Connections -> Found]
  BY DEF Typed, Wires, Programs
<1>2. sessionId'[o] = sessionId[o] /\ open' = open
  BY DEF serverVars, store
<1>3. ASSUME posted \subseteq posted',
             connected'[o] = connected[o] /\ thread'[o] = thread[o],
             toServer'[o] = toServer[o] /\ toClient'[o] = toClient[o],
             sessionID'[o] = sessionID[o] /\ calling'[o] = calling[o],
             failed'[o] = failed[o] /\ got'[o] = got[o]
      PROVE  Stays(o) /\ Grows
  BY <1>2, <1>3 DEF Stays, Grows
<1>4. ASSUME NEW op, NEW id, NEW name, NEW text, NEW lines,
             Client!Calling(c, op, id, name, text, lines), posted \subseteq posted'
      PROVE  Stays(o) /\ Grows
  BY <1>1, <1>3, <1>4 DEF Client!Calling
<1>5. CASE Asks(c)
  <2>1. ASSUME posted' = posted
        PROVE  posted \subseteq posted'
    BY <2>1
  <2>2. CASE Client!OpenSession(c)
    BY <1>4, <2>1, <2>2, Zenon DEF Client!OpenSession
  <2>3. CASE \E id \in AnyId : Client!ResumeSession(c, id)
    BY <1>4, <2>1, <2>3, Zenon DEF Client!ResumeSession
  <2>4. CASE Client!CloseSession(c)
    BY <1>4, <2>1, <2>4, Zenon DEF Client!CloseSession
  <2>5. CASE \E name \in Names : Client!GetDocument(c, name)
    BY <1>4, <2>1, <2>5, Zenon DEF Client!GetDocument
  <2>6. CASE \E name \in Names, text \in Texts : Client!PostDocument(c, name, text)
    BY <1>4, <2>6, PostsGrows, Zenon DEF Client!PostDocument
  <2> QED
    BY <1>5, <2>2, <2>3, <2>4, <2>5, <2>6, Zenon DEF Asks
<1>6. CASE Client!Receive(c)
  <2>1. ASSUME NEW reply, Client!Succeeds(c, reply)
        PROVE  sessionID'[o] = sessionID[o] /\ failed'[o] = failed[o] /\ got'[o] = got[o]
    <3>1. PICK session, found : /\ failed' = [failed EXCEPT ![c] = FALSE]
                                /\ sessionID' = [sessionID EXCEPT ![c] = session]
                                /\ got' = [got EXCEPT ![c] = found]
      BY <2>1, Zenon DEF Client!Succeeds
    <3> QED
      BY <1>1, <3>1
  <2>2. ASSUME Client!Throws(c)
        PROVE  sessionID'[o] = sessionID[o] /\ failed'[o] = failed[o] /\ got'[o] = got[o]
    BY <1>1, <2>2 DEF Client!Throws
  <2>3. PICK left : /\ toClient' = [toClient EXCEPT ![c] = left]
                    /\ calling' = [calling EXCEPT ![c] = Client!NoCall]
                    /\ UNCHANGED <<connected, thread, toServer, posted>>
    BY <1>6, Zenon DEF Client!Receive, Client!ReceiveResponse, Client!ReceiveNothing
  <2>4. sessionID'[o] = sessionID[o] /\ failed'[o] = failed[o] /\ got'[o] = got[o]
    BY <1>6, <2>1, <2>2, Zenon
       DEF Client!Receive, Client!ReceiveResponse, Client!ReceiveNothing
  <2> QED
    BY <1>1, <1>3, <2>3, <2>4
<1>7. CASE Quits(c)
  <2>1. Client!Leaves(c)
    BY <1>7, Zenon DEF Quits, Client!Disconnect, Client!Die
  <2>2. posted \subseteq posted'
    BY <1>7, PostsGrows, Zenon DEF Quits, Client!Disconnect, Client!Die
  <2>3. toServer'[o] = toServer[o]
    <3>1. \/ toServer' = toServer
          \/ \E lines : toServer' = [toServer EXCEPT ![c] = lines]
      BY <1>7, Zenon DEF Quits, Client!Disconnect, Client!Die
    <3> QED
      BY <1>1, <3>1
  <2>4. sessionID'[o] = sessionID[o]
    <3>1. sessionID' = sessionID \/ sessionID' = [sessionID EXCEPT ![c] = 0]
      BY <1>7, Zenon DEF Quits, Client!Disconnect, Client!Die
    <3> QED
      BY <1>1, <3>1
  <2> QED
    BY <1>1, <1>3, <2>1, <2>2, <2>3, <2>4 DEF Client!Leaves
<1>8. CASE Client!Break(c)
  <2>1. PICK read, reply : /\ toServer' = [toServer EXCEPT ![c] = read]
                           /\ toClient' = [toClient EXCEPT ![c] = reply]
                           /\ thread' = [thread EXCEPT ![c] = "broken"]
                           /\ UNCHANGED <<connected, sessionID, calling, failed, got>>
    BY <1>8, Zenon DEF Client!Break
  <2>2. posted \subseteq posted'
    <3>1. posted' = posted \/ \E session, name, text : Client!Posts(session, name, text)
      BY <1>8, Zenon DEF Client!Break
    <3> QED
      BY <3>1, PostsGrows
  <2>3. thread'[o] = thread[o]
    BY <2>1 DEF Typed, Wires
  <2> QED
    BY <1>1, <1>3, <2>1, <2>2, <2>3
<1> QED
  BY <1>5, <1>6, <1>7, <1>8

(***************************************************************************)
(* What a step of a client or of its thread makes of its own phase.        *)
(***************************************************************************)
LEMMA ConnectPhase ==
    ASSUME Typed, NEW c \in Connections, InPhase(c), Connect(c)
    PROVE  InPhase(c)'
<1>1. ~connected[c]
  BY DEF Connect
<1>2. Gone(c)
  BY <1>1 DEF InPhase, Idle, Asking, Answered, Doomed, Severed
<1>3. /\ connected'[c]
      /\ sessionId'[c] = 0 /\ open' = open
      /\ toServer'[c] = <<>> /\ toClient'[c] = <<>>
      /\ calling'[c] = calling[c] /\ failed'[c] = failed[c] /\ got'[c] = got[c]
  BY DEF Connect, Typed, Wires, ServerTypeOK, store, clientVars
<1>4. Agreed(c)'
  BY <1>3, OpenAreIds DEF Agreed
<1>5. Idle(c)'
  <2>1. calling[c] = Client!NoCall /\ ~failed[c] /\ got[c] = {}
    BY <1>2 DEF Gone
  <2> QED
    BY <1>3, <1>4, <2>1, Zenon DEF Idle
<1> QED
  BY <1>5 DEF InPhase

\* Between two calls of which the last one did not throw, nothing is on its way.
LEMMA ReadyIsIdle ==
    ASSUME NEW c \in Connections, InPhase(c), connected[c],
           calling[c] = Client!NoCall, ~failed[c]
    PROVE  Idle(c)
BY Zenon DEF InPhase, Gone, Asking, Answered, Doomed, Severed

LEMMA CallingPhase ==
    ASSUME GiveUp, Typed, NEW c \in Connections, InPhase(c), thread[c] = "running",
           NEW op, NEW id, NEW name, NEW text, NEW lines \in Seq(Lines),
           Client!Calling(c, op, id, name, text, lines), UNCHANGED serverVars
    PROVE  /\ Agreed(c)
           /\ op \in Operations
           /\ toServer'[c] = <<Word(op)>> \o lines
           /\ calling'[c].op = op /\ calling'[c].id = id
           /\ calling'[c].name = name /\ calling'[c].text = text
           /\ Carries(c, calling[c])' => InPhase(c)'
<1>1. Client!Ready(c) /\ op \in Operations
  BY Zenon DEF Client!Calling
<1>2. Idle(c)
  BY <1>1, ReadyIsIdle, Zenon DEF Client!Ready
<1>3. op \in Commands
  BY <1>1, ProgramAssumption
<1>4. PICK word \in Lines : word = Word(op)
  BY <1>3, LineTypes
<1>5. /\ toServer \in [Connections -> Seq(Lines)]
      /\ toClient \in [Connections -> Seq(Lines)]
      /\ calling \in [Connections -> Asked]
      /\ got \in [Connections -> Found]
  BY DEF Typed, Wires, Programs
<1>6. PICK call : call = [op |-> op, id |-> id, name |-> name, text |-> text]
  OBVIOUS
<1>7. /\ calling' = [calling EXCEPT ![c] = call]
      /\ toServer' = [toServer EXCEPT ![c] = toServer[c] \o <<word>> \o lines]
      /\ got' = [got EXCEPT ![c] = {}]
      /\ UNCHANGED <<connected, thread, toClient, sessionID, failed>>
  <2>1. Client!Alive(c)
    BY <1>2, ClientLines, Zenon DEF Alive, Idle
  <2> QED
    BY <1>4, <1>6, <2>1, ClientLines, Zenon DEF Client!Calling
<1>8. toServer[c] \o <<word>> \o lines = <<word>> \o lines
  <2>1. toServer[c] = <<>>
    BY <1>2 DEF Idle
  <2>2. <<word>> \in Seq(Lines)
    OBVIOUS
  <2>3. toServer[c] \o <<word>> = <<word>>
    BY <2>1, <2>2, StreamFacts, Zenon
  <2> QED
    BY <2>3
<1>9. toServer'[c] = <<word>> \o lines /\ calling'[c] = call /\ got'[c] = {}
  BY <1>5, <1>7, <1>8
<1>10. ASSUME Carries(c, calling[c])'
       PROVE  InPhase(c)'
  <2>1. calling'[c] # Client!NoCall
    <3>1. call.op = op /\ Client!NoCall.op = "none"
      BY <1>6, Zenon DEF Client!NoCall
    <3> QED
      BY <1>3, <1>9, <3>1 DEF Commands
  <2>2. /\ connected'[c] /\ thread'[c] = "running" /\ toClient'[c] = <<>>
    BY <1>2, <1>7 DEF Idle
  <2>3. Agreed(c)'
    BY <1>2, <1>7 DEF Idle, Agreed, serverVars, store
  <2> QED
    BY <1>9, <1>10, <2>1, <2>2, <2>3, Zenon DEF Asking, InPhase
<1>11. Agreed(c)
  BY <1>2 DEF Idle
<1>12. call.op = op /\ call.id = id /\ call.name = name /\ call.text = text
  BY <1>6
<1> QED
  BY <1>1, <1>4, <1>9, <1>10, <1>11, <1>12

\* A call on a connection that is broken sends nothing.
LEMMA CallingBroken ==
    ASSUME GiveUp, Typed, NEW c \in Connections, InPhase(c), thread[c] # "running",
           NEW op, NEW id, NEW name, NEW text, NEW lines,
           Client!Calling(c, op, id, name, text, lines)
    PROVE  InPhase(c)'
<1>1. Client!Ready(c) /\ op \in Operations
  BY Zenon DEF Client!Calling
<1>2. Idle(c)
  BY <1>1, ReadyIsIdle, Zenon DEF Client!Ready
<1>3. ~Client!Alive(c)
  BY ClientLines, Zenon DEF Alive
<1>4. PICK call : call = [op |-> op, id |-> id, name |-> name, text |-> text]
  OBVIOUS
<1>5. /\ calling' = [calling EXCEPT ![c] = call]
      /\ toServer' = toServer
      /\ got' = [got EXCEPT ![c] = {}]
      /\ UNCHANGED <<connected, thread, toClient, sessionID, failed>>
  BY <1>3, <1>4, Zenon DEF Client!Calling
<1>6. calling'[c] # Client!NoCall
  <2>1. call.op = op /\ Client!NoCall.op = "none" /\ op \in Commands
    BY <1>1, <1>4, ProgramAssumption, Zenon DEF Client!NoCall
  <2>2. calling'[c] = call
    BY <1>5 DEF Typed, Programs
  <2> QED
    BY <2>1, <2>2 DEF Commands
<1>7. got'[c] = {}
  BY <1>5 DEF Typed, Programs
<1>8. Left(c)'
  <2>1. toServer'[c] = <<>>
    BY <1>2, <1>5 DEF Idle
  <2> QED
    BY <2>1, StreamFacts DEF Left, Rest
<1> QED
  BY <1>2, <1>5, <1>6, <1>7, <1>8, Zenon DEF Idle, Severed, InPhase

LEMMA CarriedPost ==
    ASSUME NEW w \in Commands, NEW name \in Names, NEW text \in Texts
    PROVE  WithDocument(<<Word(w)>> \o (<<Client!Word(name), Client!LengthLine(text)>>
                                            \o Client!Content(text)),
                        Word(w), name, text)
<1>1. Content(text) \in Seq(Lines)
  BY ContentType
<1>2. Word(w) \in Lines /\ Word(name) \in Lines /\ LengthLine(text) \in Lines
  BY LineTypes
<1>3. PICK a \in Lines, b \in Lines, d \in Lines, rest \in Seq(Lines) :
          a = Word(w) /\ b = Word(name) /\ d = LengthLine(text) /\ rest = Content(text)
  BY <1>1, <1>2
<1>4. LET sent == <<a>> \o (<<b, d>> \o rest)
      IN  Len(sent) = 3 + Len(rest) /\ sent[1] = a /\ sent[2] = b /\ sent[3] = d
  <2> <<b, d>> \o rest \in Seq(Lines)
    OBVIOUS
  <2>1. PICK tail \in Seq(Lines) : tail = <<b, d>> \o rest
    BY Zenon
  <2>2. Len(tail) = 2 + Len(rest) /\ tail[1] = b /\ tail[2] = d
    BY <2>1
  <2>3. /\ Len(<<a>> \o tail) = 1 + Len(tail)
        /\ (<<a>> \o tail)[1] = a /\ (<<a>> \o tail)[2] = tail[1] /\ (<<a>> \o tail)[3] = tail[2]
    BY <2>2
  <2> QED
    BY <2>1, <2>2, <2>3
<1>5. Client!Word(name) = b /\ Client!LengthLine(text) = d /\ Client!Content(text) = rest
  BY <1>3, ClientLines
<1> QED
  BY <1>3, <1>4, <1>5, Zenon DEF WithDocument

LEMMA PostsStored ==
    ASSUME Typed, NEW c \in Connections, Agreed(c), UNCHANGED serverVars,
           NEW name, NEW text, Client!Posts(sessionID[c], name, text)
    PROVE  Stored(c, name, text)'
<1>1. ASSUME sessionId[c] \in open, name \notin FileNames \cup {Empty}
      PROVE  Client!Document(sessionId[c], name, text) \in posted'
  <2>1. sessionID[c] = sessionId[c] /\ sessionID[c] # 0
    BY <1>1, OpenAreIds DEF Agreed
  <2>2. name \notin FileNames \cup {Client!Empty}
    BY <1>1, ClientLines, Zenon
  <2>3. Client!Document(sessionID[c], name, text) \in posted'
    BY <2>1, <2>2, Zenon DEF Client!Posts
  <2> QED
    BY <2>1, <2>3, Zenon
<1>2. sessionId' = sessionId /\ open' = open
  BY DEF serverVars, store
<1> QED
  BY <1>1, <1>2, Zenon DEF Stored

LEMMA AsksBroken ==
    ASSUME GiveUp, Typed, NEW c \in Connections, InPhase(c), Asks(c), thread[c] # "running"
    PROVE  InPhase(c)'
<1>1. \E op, id, name, text, lines : Client!Calling(c, op, id, name, text, lines)
  BY Zenon
     DEF Asks, Client!OpenSession, Client!ResumeSession, Client!CloseSession,
         Client!GetDocument, Client!PostDocument
<1> QED
  BY <1>1, CallingBroken

LEMMA AsksPhase ==
    ASSUME GiveUp, Typed, NEW c \in Connections, InPhase(c), Asks(c), thread[c] = "running",
           UNCHANGED serverVars
    PROVE  InPhase(c)'
<1>1. sessionID[c] \in AnyId
  BY DEF Typed, Programs
<1>2. CASE Client!OpenSession(c)
  <2>1. Client!Calling(c, "open", 0, Client!Empty, Client!Empty, <<>>)
    BY <1>2, Zenon DEF Client!OpenSession
  <2>2. /\ toServer'[c] = <<Word("open")>> \o <<>>
        /\ calling'[c].op = "open" /\ calling'[c].id = 0
        /\ calling'[c].name = Client!Empty /\ calling'[c].text = Client!Empty
        /\ Carries(c, calling[c])' => InPhase(c)'
    BY <2>1, LinesTyped, CallingPhase, Zenon
  <2>3. Len(toServer'[c]) = 1 /\ toServer'[c][1] = Word("open")
    BY <2>2
  <2>4. Carries(c, calling[c])'
    BY <2>2, <2>3, Zenon DEF Carries
  <2> QED
    BY <2>2, <2>4
<1>3. CASE \E id \in AnyId : Client!ResumeSession(c, id)
  <2>1. PICK id \in AnyId : Client!ResumeSession(c, id)
    BY <1>3
  <2>2. Client!Calling(c, "resume", id, Client!Empty, Client!Empty, <<Client!IdLine(id)>>)
    BY <2>1, Zenon DEF Client!ResumeSession
  <2>3. /\ toServer'[c] = <<Word("resume")>> \o <<Client!IdLine(id)>>
        /\ calling'[c].op = "resume" /\ calling'[c].id = id
        /\ calling'[c].name = Client!Empty /\ calling'[c].text = Client!Empty
        /\ Carries(c, calling[c])' => InPhase(c)'
    BY <2>2, LinesTyped, CallingPhase, Zenon
  <2>4. Pair(toServer'[c], Word("resume"), IdLine(id))
    BY <2>3, ClientLines DEF Pair
  <2>5. Carries(c, calling[c])'
    BY <2>3, <2>4, Zenon DEF Carries
  <2> QED
    BY <2>3, <2>5
<1>4. CASE Client!CloseSession(c)
  <2>1. Client!Calling(c, "close", sessionID[c], Client!Empty, Client!Empty,
                       <<Client!IdLine(sessionID[c])>>)
    BY <1>4, Zenon DEF Client!CloseSession
  <2>2. PICK id \in AnyId : id = sessionID[c]
    BY <1>1
  <2>3. Client!Calling(c, "close", id, Client!Empty, Client!Empty, <<Client!IdLine(id)>>)
    BY <2>1, <2>2, Zenon
  <2>4. /\ toServer'[c] = <<Word("close")>> \o <<Client!IdLine(id)>>
        /\ calling'[c].op = "close" /\ calling'[c].id = id
        /\ calling'[c].name = Client!Empty /\ calling'[c].text = Client!Empty
        /\ Carries(c, calling[c])' => InPhase(c)'
        /\ Agreed(c)
    BY <2>3, LinesTyped, CallingPhase, Zenon
  <2>5. Pair(toServer'[c], Word("close"), IdLine(id))
    BY <2>4, ClientLines DEF Pair
  <2>6. sessionId'[c] \in open' => id = sessionId'[c]
    BY <2>2, <2>4 DEF Agreed, serverVars, store
  <2>7. Carries(c, calling[c])'
    BY <2>4, <2>5, <2>6, Zenon DEF Carries
  <2> QED
    BY <2>4, <2>7
<1>5. CASE \E name \in Names : Client!GetDocument(c, name)
  <2>1. PICK name \in Names : Client!GetDocument(c, name)
    BY <1>5
  <2>2. Client!Calling(c, "get", 0, name, Client!Empty, <<Client!Word(name)>>)
    BY <2>1, Zenon DEF Client!GetDocument
  <2>3. /\ toServer'[c] = <<Word("get")>> \o <<Client!Word(name)>>
        /\ calling'[c].op = "get" /\ calling'[c].id = 0
        /\ calling'[c].name = name /\ calling'[c].text = Client!Empty
        /\ Carries(c, calling[c])' => InPhase(c)'
    BY <2>2, LinesTyped, CallingPhase, Zenon
  <2>4. Pair(toServer'[c], Word("get"), Word(name))
    BY <2>3, ClientLines DEF Pair
  <2>5. Carries(c, calling[c])'
    BY <2>3, <2>4, Zenon DEF Carries
  <2> QED
    BY <2>3, <2>5
<1>6. CASE \E name \in Names, text \in Texts : Client!PostDocument(c, name, text)
  <2>1. PICK name \in Names, text \in Texts : Client!PostDocument(c, name, text)
    BY <1>6
  <2>2. /\ Client!Calling(c, "post", 0, name, text,
              <<Client!Word(name), Client!LengthLine(text)>> \o Client!Content(text))
        /\ Client!Posts(sessionID[c], name, text)
    BY <2>1, Zenon DEF Client!PostDocument
  <2>7. PICK lines \in Seq(Lines) :
            lines = <<Client!Word(name), Client!LengthLine(text)>> \o Client!Content(text)
    BY LinesTyped
  <2>8. Client!Calling(c, "post", 0, name, text, lines)
    BY <2>2, <2>7
  <2>3. /\ toServer'[c] = <<Word("post")>> \o lines
        /\ calling'[c].op = "post" /\ calling'[c].id = 0
        /\ calling'[c].name = name /\ calling'[c].text = text
        /\ Carries(c, calling[c])' => InPhase(c)'
        /\ Agreed(c)
    BY <2>8, CallingPhase, Zenon
  <2>4. WithDocument(toServer'[c], Word("post"), name, text)
    BY <2>3, <2>7, CarriedPost, Zenon DEF Commands
  <2>5. Stored(c, name, text)'
    BY <2>2, <2>3, PostsStored
  <2>6. Carries(c, calling[c])'
    BY <2>3, <2>4, <2>5, Zenon DEF Carries
  <2> QED
    BY <2>3, <2>6
<1> QED
  BY <1>2, <1>3, <1>4, <1>5, <1>6 DEF Asks

\* A call takes the whole of the reply it hoped for, and finds what it wants.
LEMMA GrantedIsRead ==
    ASSUME Typed, NEW c \in Connections, NEW reply \in Seq(Lines), Granted(c, calling[c], reply)
    PROVE  /\ Client!Reads(calling[c].op, reply) = Len(reply)
           /\ Client!Understood(c, reply)
           /\ reply # <<>>
<1>1. calling[c].id \in AnyId /\ sessionID[c] \in AnyId /\ sessionId[c] \in AnyId
  BY RecordTypes DEF Typed, Programs, ServerTypeOK
<1>2. CASE /\ calling[c].op = "open"
           /\ Pair(reply, Word("accepted"), IdLine(sessionId[c]))
  <2>1. Len(reply) = 2 /\ reply[1] = Client!Word("accepted") /\ Client!IsId(reply[2])
    BY <1>1, <1>2, LinesDiffer, ClientLines DEF Pair
  <2>2. Client!Reads("open", reply) = 2
    BY <2>1 DEF Client!Reads, Client!Hoped, Client!Word
  <2>3. Client!Understood(c, reply)
    BY <1>2, <2>1 DEF Client!Understood, Client!Hoped
  <2> QED
    BY <1>2, <2>1, <2>2, <2>3
<1>3. CASE /\ calling[c].op = "resume"
           /\ Pair(reply, Word("accepted"), IdLine(calling[c].id))
  <2>1. Len(reply) = 2 /\ reply[1] = Client!Word("accepted")
        /\ reply[2] = Client!IdLine(calling[c].id)
    BY <1>3, ClientLines DEF Pair
  <2>2. Client!Reads("resume", reply) = 2
    BY <2>1 DEF Client!Reads, Client!Hoped, Client!Word
  <2>3. Client!Understood(c, reply)
    BY <1>3, <2>1 DEF Client!Understood, Client!Hoped
  <2> QED
    BY <1>3, <2>1, <2>2, <2>3
<1>4. CASE /\ calling[c].op = "close"
           /\ Pair(reply, Word("closed"), IdLine(sessionID[c]))
  <2>1. Len(reply) = 2 /\ reply[1] = Client!Word("closed")
        /\ reply[2] = Client!IdLine(sessionID[c])
    BY <1>4, ClientLines DEF Pair
  <2>2. Client!Reads("close", reply) = 2
    BY <2>1 DEF Client!Reads, Client!Hoped, Client!Word
  <2>3. Client!Understood(c, reply)
    BY <1>4, <2>1 DEF Client!Understood, Client!Hoped
  <2> QED
    BY <1>4, <2>1, <2>2, <2>3
<1>5. ASSUME calling[c].op = "get", NEW text \in Contents,
             WithDocument(reply, Word("success"), calling[c].name, text)
      PROVE  /\ Client!Reads(calling[c].op, reply) = Len(reply)
             /\ Client!Understood(c, reply)
             /\ reply # <<>>
  <2>1. PICK n \in Nat : n = Len(Content(text))
    BY ContentType DEF Contents
  <2>2. /\ Len(reply) = 3 + n /\ reply[1] = Client!Word("success")
        /\ Client!IsLength(reply[3]) /\ reply[3][2] = text
        /\ Client!Content(reply[3][2]) = Content(text)
    <3>1. Len(reply) = 3 + n /\ reply[1] = Word("success") /\ reply[3] = LengthLine(text)
      BY <1>5, <2>1 DEF WithDocument
    <3>2. IsLength(reply[3]) /\ reply[3][2] = text
      BY <3>1, LinesDiffer
    <3> QED
      BY <3>1, <3>2, ClientLines, Zenon
  <2>3. Len(reply) >= 3
    BY <2>1, <2>2
  <2>4. Client!Hoped("get") = "success" /\ reply[1] # Client!Word("error")
    BY <2>2 DEF Client!Hoped, Client!Word
  <2>5. Client!Reads("get", reply) = IF Len(reply) >= 3 /\ Client!IsLength(reply[3])
                                     THEN 3 + Len(Client!Content(reply[3][2])) ELSE 3
    BY <2>2, <2>4 DEF Client!Reads
  <2>6. Client!Reads("get", reply) = 3 + n
    BY <2>1, <2>2, <2>3, <2>5, Zenon
  <2>7. Client!Understood(c, reply)
    BY <1>5, <2>2, <2>4, Z3 DEF Client!Understood
  <2> QED
    BY <1>5, <2>2, <2>3, <2>6, <2>7
<1>6. CASE calling[c].op = "post" /\ Len(reply) = 1 /\ reply[1] = Word("success")
  <2>1. reply[1] = Client!Word("success")
    BY <1>6, ClientLines
  <2>2. Client!Reads("post", reply) = 1
    BY <2>1 DEF Client!Reads, Client!Hoped, Client!Word
  <2>3. Client!Understood(c, reply)
    BY <1>6, <2>1 DEF Client!Understood, Client!Hoped
  <2> QED
    BY <1>6, <2>2, <2>3
<1> QED
  BY <1>2, <1>3, <1>4, <1>5, <1>6, Zenon DEF Granted

LEMMA RefusalNotUnderstood ==
    ASSUME NEW c \in Connections, NEW reply, Refusal(reply)
    PROVE  ~Client!Understood(c, reply)
<1>1. Client!Hoped(calling[c].op) \in {"accepted", "closed", "success"}
  BY DEF Client!Hoped
<1>2. reply[1] # Client!Word(Client!Hoped(calling[c].op))
  BY <1>1, ClientLines, LinesDiffer DEF Refusal
<1> QED
  BY <1>2, Zenon DEF Client!Understood

LEMMA ReceivePhase ==
    ASSUME Typed, NEW c \in Connections, InPhase(c), Client!Receive(c), UNCHANGED serverVars
    PROVE  InPhase(c)' /\ posted' = posted
<1>1. connected[c] /\ calling[c] # Client!NoCall
  BY Zenon DEF Client!Receive, Client!ReceiveResponse, Client!ReceiveNothing
<1>2. UNCHANGED <<connected, thread, toServer, posted>>
  BY Zenon DEF Client!Receive, Client!ReceiveResponse, Client!ReceiveNothing
<1>3. sessionId' = sessionId /\ open' = open
  BY DEF serverVars, store
<1>4. /\ toClient \in [Connections -> Seq(Lines)]
      /\ sessionID \in [Connections -> AnyId]
      /\ calling \in [Connections -> Asked]
      /\ failed \in [Connections -> BOOLEAN]
      /\ got \in [Connections -> Found]
      /\ calling[c].id \in AnyId /\ sessionID[c] \in AnyId /\ sessionId[c] \in AnyId
  BY RecordTypes DEF Typed, Wires, Programs, ServerTypeOK
<1>5. calling'[c] = Client!NoCall
  BY <1>4 DEF Client!Receive, Client!ReceiveResponse, Client!ReceiveNothing
<1>6. ~Asking(c)
  <2>1. toClient[c] # <<>> \/ ~Client!Alive(c)
    BY Zenon DEF Client!Receive, Client!ReceiveResponse, Client!ReceiveNothing
  <2> QED
    BY <2>1, ClientLines, Zenon DEF Asking, Alive
<1>7. CASE Answered(c)
  <2>1. toServer[c] = <<>> /\ Granted(c, calling[c], toClient[c])
    BY <1>7 DEF Answered
  <2>2. PICK reply \in Seq(Lines) : reply = toClient[c]
    BY <1>4
  <2>3. Granted(c, calling[c], reply)
    BY <2>1, <2>2
  <2>4. /\ Client!Reads(calling[c].op, reply) = Len(reply)
        /\ Client!Understood(c, reply)
        /\ reply # <<>>
    BY <2>3, GrantedIsRead
  <2>5. Client!ReceiveResponse(c)
    <3>1. ~(Len(reply) < Len(reply))
      BY <2>2
    <3>2. ~Client!Incomplete(c)
      BY <2>2, <2>4, <3>1, Zenon DEF Client!Incomplete
    <3> QED
      BY <3>2, Zenon DEF Client!Receive, Client!ReceiveNothing
  <2>6. /\ Client!Succeeds(c, reply)
        /\ toClient' = [toClient EXCEPT ![c] = Client!Drop(reply, Len(reply))]
    BY <2>2, <2>4, <2>5, Zenon DEF Client!ReceiveResponse
  <2>7. toClient'[c] = <<>>
    <3>1. Client!Drop(reply, Len(reply)) = <<>>
      BY DropType, ClientLines
    <3> QED
      BY <1>4, <2>6, <3>1
  <2>8. /\ sessionID'[c] = Client!SessionAfter(c, reply)
        /\ failed'[c] = FALSE
    <3>1. /\ sessionID' = [sessionID EXCEPT ![c] = Client!SessionAfter(c, reply)]
          /\ failed' = [failed EXCEPT ![c] = FALSE]
      BY <2>6, Zenon DEF Client!Succeeds
    <3> QED
      BY <1>4, <3>1
  <2>9. Agreed(c)' /\ got'[c] \subseteq posted'
    <3>1. CASE calling[c].op # "get"
      <4>1. got' = [got EXCEPT ![c] = {}]
        BY <2>6, <3>1, Zenon DEF Client!Succeeds
      <4>2. got'[c] = {}
        BY <1>4, <4>1
      <4>3. CASE calling[c].op = "open"
        <5>1. reply[2][2] = sessionId[c]
          BY <1>4, <2>3, <4>3, LinesDiffer DEF Granted, Pair
        <5> QED
          BY <1>3, <2>8, <4>2, <4>3, <5>1, Z3 DEF Client!SessionAfter, Agreed
      <4>4. CASE calling[c].op = "resume"
        <5>1. reply[2][2] = sessionId[c]
          BY <1>4, <2>3, <4>4, LinesDiffer DEF Granted, Pair
        <5> QED
          BY <1>3, <2>8, <4>2, <4>4, <5>1, Z3 DEF Client!SessionAfter, Agreed
      <4>5. CASE calling[c].op = "close"
        <5>1. sessionId[c] \notin open
          BY <2>3, <4>5 DEF Granted
        <5> QED
          BY <1>3, <4>2, <5>1 DEF Agreed
      <4>6. CASE calling[c].op = "post"
        <5>1. Agreed(c)
          BY <2>3, <4>6 DEF Granted
        <5>2. sessionID'[c] = sessionID[c]
          BY <2>8, <4>6, Z3 DEF Client!SessionAfter
        <5> QED
          BY <1>3, <4>2, <5>1, <5>2 DEF Agreed
      <4> QED
        BY <2>3, <3>1, <4>3, <4>4, <4>5, <4>6, Zenon DEF Granted
    <3>2. CASE calling[c].op = "get"
      <4>1. /\ Agreed(c)
            /\ \E text \in Contents :
                  /\ WithDocument(reply, Word("success"), calling[c].name, text)
                  /\ Client!Document(sessionID[c], calling[c].name, text) \in posted
        BY <2>3, <3>2 DEF Granted
      <4>2. PICK text \in Contents :
                  /\ WithDocument(reply, Word("success"), calling[c].name, text)
                  /\ Client!Document(sessionID[c], calling[c].name, text) \in posted
        BY <4>1
      <4>3. reply[3][2] = text
        BY <4>2, LinesDiffer DEF WithDocument
      <4>4. sessionID'[c] = sessionID[c]
        BY <2>8, <3>2, Z3 DEF Client!SessionAfter
      <4>5. PICK document : document = Client!Document(sessionID[c], calling[c].name, reply[3][2])
        OBVIOUS
      <4>6. got' = [got EXCEPT ![c] = {document}]
        BY <2>6, <3>2, <4>5, Zenon DEF Client!Succeeds
      <4>7. document \in posted
        BY <4>2, <4>3, <4>5, Zenon
      <4> QED
        BY <1>2, <1>3, <1>4, <4>1, <4>4, <4>6, <4>7 DEF Agreed
    <3> QED
      BY <3>1, <3>2
  <2>10. connected'[c] /\ toServer'[c] = <<>>
    BY <1>1, <1>2, <2>1
  <2> QED
    BY <1>2, <1>5, <2>7, <2>8, <2>9, <2>10, Zenon DEF Idle, InPhase
<1>8. CASE Doomed(c)
  <2>1. Client!Throws(c)
    <3>1. CASE Client!ReceiveNothing(c)
      BY <3>1, Zenon DEF Client!ReceiveNothing
    <3>2. CASE Client!ReceiveResponse(c)
      <4>1. toClient[c] # <<>>
        BY <3>2, Zenon DEF Client!ReceiveResponse
      <4>2. Refusal(toClient[c])
        BY <1>1, <1>8, <4>1, Zenon DEF Doomed
      <4>3. ~Client!Understood(c, toClient[c])
        BY <4>2, RefusalNotUnderstood
      <4> QED
        BY <3>2, <4>3, Zenon DEF Client!ReceiveResponse, Client!Succeeds
    <3> QED
      BY <3>1, <3>2 DEF Client!Receive
  <2>2. failed'[c] /\ got'[c] = got[c]
    BY <1>4, <2>1 DEF Client!Throws
  <2>3. Rest(c)' /\ connected'[c] /\ got[c] = {}
    BY <1>1, <1>2, <1>8 DEF Doomed, Rest
  <2> QED
    BY <1>2, <1>5, <2>2, <2>3, Zenon DEF Doomed, InPhase
<1>9. CASE Severed(c)
  <2>1. Client!ReceiveNothing(c)
    BY <1>9, Zenon DEF Severed, Client!Receive, Client!ReceiveResponse
  <2>2. Client!Throws(c) /\ toClient' = [toClient EXCEPT ![c] = <<>>]
    BY <2>1, Zenon DEF Client!ReceiveNothing
  <2>3. failed'[c] /\ got'[c] = got[c] /\ toClient'[c] = <<>>
    BY <1>4, <2>2 DEF Client!Throws
  <2>4. Left(c)'
    <3>1. Left(c)
      BY <1>9 DEF Severed
    <3> QED
      BY <1>2, <1>3, <3>1, Zenon DEF Left, Carries, CutOff, Rest, Stored
  <2> QED
    BY <1>1, <1>2, <1>9, <2>3, <2>4, Zenon DEF Severed, InPhase
<1> QED
  BY <1>1, <1>6, <1>7, <1>8, <1>9, Zenon DEF InPhase, Gone, Idle

LEMMA QuitsPhase ==
    ASSUME GiveUp, Typed, NEW c \in Connections, InPhase(c), Quits(c), UNCHANGED serverVars
    PROVE  InPhase(c)'
<1>1. Client!Leaves(c)
  BY Zenon DEF Quits, Client!Disconnect, Client!Die
<1>2. /\ toServer \in [Connections -> Seq(Lines)]
      /\ calling \in [Connections -> Asked]
  BY DEF Typed, Wires, Programs
<1>3. sessionId' = sessionId /\ open' = open
  BY DEF serverVars, store
<1>4. /\ ~connected'[c] /\ calling'[c] = Client!NoCall /\ ~failed'[c]
      /\ toClient'[c] = <<>> /\ got'[c] = {}
  BY <1>1 DEF Client!Leaves, Typed, Wires, Programs
<1>5. connected[c]
  BY <1>1 DEF Client!Leaves
<1>6. ASSUME Left(c)'
      PROVE  InPhase(c)'
  BY <1>4, <1>6, Zenon DEF Gone, InPhase
<1>7. toServer' = toServer /\ posted' = posted
  BY Zenon DEF Quits, Client!Disconnect, Client!Die
<1>8. Left(c)
  <2>1. CASE Asking(c)
    BY <1>2, <2>1 DEF Asking, Left
  <2>2. CASE toServer[c] = <<>>
    BY <2>2, StreamFacts DEF Left, Rest
  <2> QED
    BY <1>5, <2>1, <2>2, Zenon DEF InPhase, Gone, Idle, Answered, Doomed, Severed, Left
<1>9. Left(c)'
  BY <1>3, <1>7, <1>8, Zenon DEF Left, Carries, CutOff, Rest, Stored
<1> QED
  BY <1>6, <1>9

\* The handler of a command has at least its first line.
LEMMA CommandArrived ==
    ASSUME Wires, NEW c \in Connections, Handle(c)
    PROVE  toServer[c] # <<>>
<1>1. \E w : Command(c, w, 1) \/ Command(c, w, 2) \/ Command(c, w, 3)
  BY Zenon DEF Handle, HandleOpen, HandleResume, HandleClose, HandleGet, HandlePost
<1>2. Len(toServer[c]) \in Nat
  BY DEF Wires
<1>3. Len(toServer[c]) > 0
  BY <1>1, <1>2 DEF Command
<1> QED
  BY <1>3, StreamFacts

\* Of a client that the thread still reaches.
LEMMA HandlePhase ==
    ASSUME Typed, ValuesPosted, NEW c \in Connections, InPhase(c), Alive(c),
           Handle(c), UNCHANGED clientVars
    PROVE  InPhase(c)' /\ ValuesPosted'
<1>1. /\ UNCHANGED <<connected, thread>>
      /\ calling' = calling /\ failed' = failed /\ got' = got /\ posted' = posted
      /\ sessionID' = sessionID
  BY Zenon DEF Handle, clientVars
<1>2. /\ Wires /\ calling \in [Connections -> Asked]
      /\ toServer \in [Connections -> Seq(Lines)]
      /\ toClient \in [Connections -> Seq(Lines)]
  BY DEF Typed, Wires, Programs
<1>3. connected[c] /\ thread[c] = "running"
  BY DEF Alive
<1>4. toServer[c] # <<>>
  BY <1>2, CommandArrived
<1>5. ASSUME NEW n, NEW reply, Exchange(c, n, reply)
      PROVE  toClient'[c] = toClient[c] \o reply
  BY <1>2, <1>5 DEF Exchange
<1>6. CASE Asking(c)
  <2>1. calling[c] \in Asked /\ Carries(c, calling[c]) /\ Agreed(c)
        /\ toClient[c] = <<>> /\ got[c] = {} /\ calling[c] # Client!NoCall
    BY <1>2, <1>6 DEF Asking
  <2>2. PICK call \in Asked : call = calling[c]
    BY <2>1
  <2>3. Outcome(c, call) /\ ValuesPosted'
    BY <2>1, <2>2, CarriedOutcome
  <2>4. ASSUME NEW reply \in Seq(Lines), Exchange(c, Len(toServer[c]), reply),
               Granted(c, call, reply)'
        PROVE  Answered(c)'
    <3>1. toServer'[c] = <<>>
      BY <1>2, <2>4, WholeLeavesNothing
    <3>2. toClient'[c] = reply
      BY <1>5, <2>1, <2>4, StreamFacts
    <3>3. Granted(c, calling[c], toClient[c])'
      BY <1>1, <2>2, <2>4, <3>2, Zenon
    <3> QED
      BY <1>1, <1>3, <2>1, <3>1, <3>3, Zenon DEF Answered
  <2>5. ASSUME NEW n \in Nat, NEW reply \in Seq(Lines), Exchange(c, n, reply), Refusal(reply),
               Rest(c)'
        PROVE  Doomed(c)'
    <3>1. toClient'[c] = reply
      BY <1>5, <2>1, <2>5, StreamFacts
    <3>2. Refusal(toClient'[c])
      BY <2>5, <3>1, Zenon
    <3> QED
      BY <1>1, <1>3, <2>1, <2>5, <3>2, Zenon DEF Doomed
  <2>6. Answered(c)' \/ Doomed(c)'
    BY <2>1, <2>3, <2>4, <2>5, Zenon DEF Outcome
  <2> QED
    BY <2>3, <2>6 DEF InPhase
<1>7. CASE Doomed(c)
  <2>1. Rest(c) /\ got[c] = {}
    BY <1>7 DEF Doomed
  <2>2. ValuesPosted' /\ \E reply \in Seq(Lines) : Exchange(c, Len(toServer[c]), reply)
    BY <2>1, RestHandled
  <2>3. PICK reply \in Seq(Lines) : Exchange(c, Len(toServer[c]), reply)
    BY <2>2
  <2>4. Rest(c)'
    BY <1>2, <2>3, WholeLeavesNothing
  <2>5. Refusal(toClient[c]) => Refusal(toClient'[c])
    <3>1. toClient'[c] = toClient[c] \o reply
      BY <1>5, <2>3
    <3> QED
      BY <1>2, <3>1 DEF Refusal
  <2>6. Doomed(c)'
    BY <1>1, <1>3, <1>7, <2>1, <2>4, <2>5, Zenon DEF Doomed
  <2> QED
    BY <2>2, <2>6 DEF InPhase
<1> QED
  BY <1>3, <1>4, <1>6, <1>7, Zenon DEF InPhase, Gone, Idle, Answered, Severed

\* Of a client that is gone, or whose connection broke.
LEMMA HandleGone ==
    ASSUME Typed, ValuesPosted, NEW c \in Connections, InPhase(c), ~Alive(c),
           Handle(c), UNCHANGED clientVars
    PROVE  InPhase(c)' /\ ValuesPosted'
<1>1. /\ UNCHANGED <<connected, thread>>
      /\ calling' = calling /\ failed' = failed /\ got' = got
  BY Zenon DEF Handle, clientVars
<1>2. Wires
  BY DEF Typed
<1>3. Gone(c) \/ Doomed(c) \/ Severed(c)
  <2>1. toServer[c] # <<>>
    BY <1>2, CommandArrived
  <2> QED
    BY <2>1, Zenon DEF InPhase, Idle, Asking, Answered, Alive
<1>4. ASSUME NEW n, NEW reply, Exchange(c, n, reply)
      PROVE  toClient' = toClient
  BY <1>4, Zenon DEF Exchange
<1>5. ASSUME Rest(c)', toClient' = toClient
      PROVE  InPhase(c)'
  BY <1>1, <1>3, <1>5, Zenon DEF Gone, Doomed, Severed, Left, InPhase
<1>6. CASE \E call \in Asked : Carries(c, call)
  <2>1. PICK call \in Asked : Carries(c, call)
    BY <1>6
  <2>2. Outcome(c, call) /\ ValuesPosted'
    BY <2>1, CarriedOutcome
  <2>3. Rest(c)' /\ toClient' = toClient
    BY <1>2, <1>4, <2>2, WholeLeavesNothing, Zenon DEF Outcome
  <2> QED
    BY <1>5, <2>2, <2>3
<1>7. CASE CutOff(c)
  BY <1>5, <1>7, CutOffHandled
<1>8. CASE Rest(c)
  <2>1. ValuesPosted' /\ \E reply \in Seq(Lines) : Exchange(c, Len(toServer[c]), reply)
    BY <1>8, RestHandled
  <2>2. Rest(c)' /\ toClient' = toClient
    BY <1>2, <1>4, <2>1, WholeLeavesNothing, Zenon
  <2> QED
    BY <1>5, <2>1, <2>2
<1> QED
  BY <1>3, <1>6, <1>7, <1>8, Zenon DEF Gone, Doomed, Severed, Left

LEMMA OtherPhase ==
    ASSUME Typed, NEW c \in Connections, InPhase(c), HandleOther(c), UNCHANGED clientVars
    PROVE  InPhase(c)'
<1>1. /\ toServer[c] # <<>>
      /\ thread' = [thread EXCEPT ![c] = "none"]
      /\ connected' = connected
      /\ calling' = calling /\ failed' = failed /\ got' = got
  BY Zenon DEF HandleOther, clientVars
<1>2. /\ Wires
      /\ thread \in [Connections -> {"none", "running", "broken"}]
      /\ toServer \in [Connections -> Seq(Lines)]
      /\ toClient \in [Connections -> Seq(Lines)]
  BY DEF Typed, Wires
<1>3. \/ \E reply \in {<<>>, Error} : Exchange(c, Len(toServer[c]), reply)
      \/ /\ toServer' = [toServer EXCEPT ![c] = <<>>]
         /\ toClient' = [toClient EXCEPT ![c] = <<>>]
  BY Zenon DEF HandleOther
<1>4. /\ Rest(c)'
      /\ \/ toClient'[c] = <<>>
         \/ toClient'[c] = toClient[c]
         \/ \E reply \in Seq(Lines) : Alive(c) /\ toClient'[c] = toClient[c] \o reply
  <2>1. CASE \E reply \in {<<>>, Error} : Exchange(c, Len(toServer[c]), reply)
    <3>1. PICK reply \in Seq(Lines) : Exchange(c, Len(toServer[c]), reply)
      BY <2>1, RepliesTyped, LinesTyped
    <3>2. Rest(c)'
      BY <1>2, <3>1, WholeLeavesNothing
    <3> QED
      BY <1>2, <3>1, <3>2 DEF Exchange
  <2>2. CASE /\ toServer' = [toServer EXCEPT ![c] = <<>>]
             /\ toClient' = [toClient EXCEPT ![c] = <<>>]
    BY <1>2, <2>2 DEF Rest
  <2> QED
    BY <1>3, <2>1, <2>2
<1>5. thread'[c] = "none"
  BY <1>1, <1>2
<1>6. Gone(c) \/ Doomed(c) \/ Severed(c)
  <2>1. ~Asking(c)
    <3>1. calling[c] \in Asked
      BY DEF Typed, Programs
    <3> QED
      BY <1>2, <3>1, OtherIsRest, Zenon DEF Asking
  <2> QED
    BY <1>1, <2>1, Zenon DEF InPhase, Idle, Answered
<1>7. CASE Gone(c)
  <2>1. toClient'[c] = <<>>
    BY <1>4, <1>7, Zenon DEF Gone, Alive
  <2> QED
    BY <1>1, <1>4, <1>7, <2>1, Zenon DEF Gone, Left, InPhase
<1>8. CASE Severed(c)
  <2>1. toClient'[c] = <<>>
    BY <1>4, <1>8, Zenon DEF Severed, Alive
  <2>2. thread'[c] # "running"
    BY <1>5
  <2> QED
    BY <1>1, <1>4, <1>8, <2>1, <2>2, Zenon DEF Severed, Left, InPhase
<1>9. CASE Doomed(c)
  <2>1. Refusal(toClient[c]) => toClient'[c] = <<>> \/ Refusal(toClient'[c])
    <3>1. ASSUME NEW reply \in Seq(Lines), toClient'[c] = toClient[c] \o reply,
                 Refusal(toClient[c])
          PROVE  Refusal(toClient'[c])
      <4>1. toClient[c] \in Seq(Lines)
        BY <1>2
      <4> QED
        BY <3>1, <4>1 DEF Refusal
    <3> QED
      BY <1>4, <3>1, Zenon
  <2>2. thread'[c] # "running"
    BY <1>5
  <2>3. CASE toClient'[c] = <<>> /\ calling[c] # Client!NoCall
    BY <1>1, <1>4, <1>9, <2>2, <2>3, Zenon DEF Doomed, Severed, Left, InPhase
  <2> QED
    BY <1>1, <1>4, <1>9, <2>1, <2>3, Zenon DEF Doomed, InPhase
<1> QED
  BY <1>6, <1>7, <1>8, <1>9

LEMMA EndOfStreamPhase ==
    ASSUME Typed, NEW c \in Connections, InPhase(c), EndOfStream(c), UNCHANGED clientVars
    PROVE  InPhase(c)'
<1>1. /\ ~Alive(c) /\ connected' = connected /\ toClient' = toClient
      /\ toServer' = [toServer EXCEPT ![c] = <<>>]
      /\ thread' = [thread EXCEPT ![c] = "none"]
      /\ sessionId' = sessionId /\ open' = open
      /\ calling' = calling /\ failed' = failed /\ got' = got /\ posted' = posted
      /\ sessionID' = sessionID
  BY Zenon DEF EndOfStream, clientVars, store
<1>2. Rest(c)' /\ toServer'[c] = <<>> /\ thread'[c] # "running"
  BY <1>1 DEF Rest, Typed, Wires
<1>3. ~Asking(c)
  BY <1>1, Zenon DEF Asking, Alive
<1>4. CASE Gone(c)
  BY <1>1, <1>2, <1>4, Zenon DEF Gone, Left, InPhase
<1>5. CASE Idle(c)
  BY <1>1, <1>2, <1>5, Zenon DEF Idle, Agreed, InPhase
<1>6. CASE Answered(c)
  BY <1>1, <1>2, <1>6, Zenon DEF Answered, Granted, Agreed, InPhase
<1>7. CASE Doomed(c)
  BY <1>1, <1>2, <1>7, Zenon DEF Doomed, InPhase
<1>8. CASE Severed(c)
  BY <1>1, <1>2, <1>8, Zenon DEF Severed, Left, InPhase
<1> QED
  BY <1>3, <1>4, <1>5, <1>6, <1>7, <1>8 DEF InPhase

\* What is left of the lines of a call when the connection breaks.
LEMMA BrokenLines ==
    ASSUME Typed, NEW c \in Connections, NEW n \in {3, Len(toServer[c])}, n <= Len(toServer[c]),
           toServer' = [toServer EXCEPT ![c] = SubSeq(@, 1, n)],
           UNCHANGED <<sessionId, open>>, posted \subseteq posted'
    PROVE  /\ Rest(c) => Rest(c)'
           /\ \A call \in Asked :
                 Carries(c, call) /\ (call.op = "post" => Stored(c, call.name, Cut)')
                     => Left(c)'
<1>1. PICK lines \in Seq(Lines) : lines = toServer[c]
  BY DEF Typed, Wires
<1>2. Len(lines) \in Nat /\ n \in Nat
  BY <1>1
<1>3. /\ toServer'[c] = SubSeq(lines, 1, n)
  BY <1>1 DEF Typed, Wires
<1>4. /\ SubSeq(lines, 1, n) \in Seq(Lines)
      /\ Len(SubSeq(lines, 1, n)) = n
      /\ \A k \in 1 .. n : SubSeq(lines, 1, n)[k] = lines[k]
  BY <1>1, <1>2
<1>5. PICK read \in Seq(Lines) : read = SubSeq(lines, 1, n)
  BY <1>4
<1>6. toServer'[c] = read /\ Len(read) = n /\ \A k \in 1 .. n : read[k] = lines[k]
  BY <1>3, <1>4, <1>5
<1>7. ASSUME n = Len(lines)
      PROVE  toServer'[c] = toServer[c]
  <2>1. read = lines
    BY <1>4, <1>5, <1>7
  <2> QED
    BY <1>1, <1>3, <1>5, <2>1, Zenon
<1>8. ASSUME n # Len(lines)
      PROVE  n = 3 /\ Len(lines) > 3 /\ Len(read) = 3
             /\ read[1] = lines[1] /\ read[2] = lines[2] /\ read[3] = lines[3]
  BY <1>1, <1>2, <1>6, <1>8
<1>9. Rest(c) => Rest(c)'
  <2>1. CASE n = Len(lines)
    BY <1>7, <2>1 DEF Rest
  <2>2. CASE n # Len(lines)
    <3>1. Rest(c) => IsLength(read[1])
      BY <1>1, <1>2, <1>8, <2>2 DEF Rest
    <3> QED
      BY <1>6, <1>8, <2>2, <3>1 DEF Rest
  <2> QED
    BY <2>1, <2>2
<1>10. ASSUME NEW name, NEW text, Stored(c, name, text)
       PROVE  Stored(c, name, text)'
  BY <1>10, Zenon DEF Stored
<1>11. ASSUME NEW call \in Asked, Carries(c, call),
              call.op = "post" => Stored(c, call.name, Cut)'
       PROVE  Left(c)'
  <2>1. CASE n = Len(lines)
    <3>1. toServer'[c] = toServer[c]
      BY <1>7, <2>1
    <3>2. Carries(c, call)'
      BY <1>10, <1>11, <3>1, Zenon DEF Carries
    <3> QED
      BY <3>2, Zenon DEF Left
  <2>2. CASE n # Len(lines)
    <3>1. call.op = "post" /\ WithDocument(lines, Word("post"), call.name, call.text)
      BY <1>1, <1>8, <1>11, <2>2 DEF Carries, Pair
    <3>2. call.name \in Names /\ call.text \in Texts
      BY <3>1, RecordTypes
    <3>3. call.text # Empty
      <4>1. Len(Content(call.text)) # 0
        BY <1>8, <2>2, <3>1 DEF WithDocument
      <4> QED
        BY <4>1, StreamFacts DEF Content
    <3>4. /\ Len(toServer'[c]) = 3
          /\ toServer'[c][1] = Word("post")
          /\ toServer'[c][2] = Word(call.name)
          /\ toServer'[c][3] = LengthLine(call.text)
      BY <1>6, <1>8, <2>2, <3>1, Zenon DEF WithDocument
    <3>5. CutOff(c)'
      BY <1>11, <3>1, <3>2, <3>3, <3>4, Zenon DEF CutOff
    <3> QED
      BY <3>5 DEF Left
  <2> QED
    BY <2>1, <2>2
<1> QED
  BY <1>9, <1>11

LEMMA BreakPhase ==
    ASSUME Typed, NEW c \in Connections, InPhase(c), Client!Break(c), UNCHANGED serverVars
    PROVE  InPhase(c)' /\ posted \subseteq posted'
<1>1. /\ connected[c] /\ thread[c] = "running"
      /\ thread' = [thread EXCEPT ![c] = "broken"]
      /\ UNCHANGED <<connected, sessionID, calling, failed, got>>
      /\ \/ calling[c].op = "post" /\ Client!Posts(sessionID[c], calling[c].name, Cut)
         \/ calling[c].op # "post" /\ posted' = posted
  BY ClientLines, Zenon DEF Client!Break, Alive
<1>2. thread'[c] # "running"
  BY <1>1 DEF Typed, Wires
<1>3. sessionId' = sessionId /\ open' = open
  BY DEF serverVars, store
<1>4. posted \subseteq posted'
  BY <1>1, PostsGrows, Zenon
<1>5. PICK n \in {3, Len(toServer[c])} :
          /\ n <= Len(toServer[c])
          /\ toServer' = [toServer EXCEPT ![c] = SubSeq(@, 1, n)]
  BY Zenon DEF Client!Break
<1>6. toClient'[c] = <<>> \/ toClient'[c] = toClient[c]
  <2>1. PICK reply \in {<<>>, toClient[c]} : toClient' = [toClient EXCEPT ![c] = reply]
    BY Zenon DEF Client!Break
  <2> QED
    BY <2>1 DEF Typed, Wires
<1>7. Rest(c) => Rest(c)'
  BY <1>3, <1>4, <1>5, BrokenLines
<1>8. ASSUME toServer[c] = <<>>
      PROVE  toServer'[c] = <<>> /\ Rest(c)'
  <2>1. n = 0
    <3>1. Len(toServer[c]) = 0
      BY <1>8
    <3> QED
      BY <1>5, <3>1
  <2>2. SubSeq(toServer[c], 1, 0) = <<>>
    BY <1>8
  <2>3. toServer'[c] = <<>>
    BY <1>5, <2>1, <2>2 DEF Typed, Wires
  <2> QED
    BY <2>3 DEF Rest
<1>9. CASE Idle(c)
  <2>1. toServer[c] = <<>> /\ toClient[c] = <<>> /\ got[c] \subseteq posted
    BY <1>9 DEF Idle
  <2>2. got'[c] \subseteq posted' /\ Agreed(c)'
    BY <1>1, <1>3, <1>4, <1>9, <2>1 DEF Idle, Agreed
  <2> QED
    BY <1>1, <1>4, <1>6, <1>8, <1>9, <2>1, <2>2, Zenon DEF Idle, InPhase
<1>10. CASE Asking(c)
  <2>1. calling[c] \in Asked /\ Carries(c, calling[c]) /\ Agreed(c)
    BY <1>10 DEF Asking, Typed, Programs
  <2>2. PICK pending \in Asked : pending = calling[c]
    BY <2>1
  <2>3. Left(c)'
    <3>1. UNCHANGED <<sessionId, open>>
      BY <1>3
    <3>2. \A call \in Asked :
              Carries(c, call) /\ (call.op = "post" => Stored(c, call.name, Cut)') => Left(c)'
      BY <1>4, <1>5, <3>1, BrokenLines
    <3>3. pending.op = "post" => Stored(c, pending.name, Cut)'
      BY <1>1, <2>1, <2>2, PostsStored
    <3> QED
      BY <2>1, <2>2, <3>2, <3>3, Zenon
  <2> QED
    BY <1>1, <1>2, <1>4, <1>6, <1>10, <2>3, Zenon DEF Asking, Severed, InPhase
<1>11. CASE Answered(c)
  <2>1. toServer'[c] = <<>> /\ Rest(c)'
    BY <1>8, <1>11 DEF Answered
  <2>2. CASE toClient'[c] = <<>>
    BY <1>1, <1>2, <1>4, <1>11, <2>1, <2>2, Zenon DEF Answered, Severed, Left, InPhase
  <2>3. CASE toClient'[c] = toClient[c]
    <3>1. Granted(c, calling[c], toClient[c])'
      <4>1. PICK call, reply : call = calling[c] /\ reply = toClient[c]
        BY Zenon
      <4>2. Granted(c, call, reply)
        BY <1>11, <4>1, Zenon DEF Answered
      <4>3. Granted(c, call, reply)'
        BY <1>1, <1>3, <1>4, <4>2, Zenon DEF Granted, Agreed
      <4>4. calling'[c] = call /\ toClient'[c] = reply
        BY <1>1, <2>3, <4>1, Zenon
      <4> QED
        BY <4>3, <4>4, Zenon
    <3> QED
      BY <1>1, <1>4, <1>11, <2>1, <3>1, Zenon DEF Answered, InPhase
  <2> QED
    BY <1>6, <2>2, <2>3
<1>12. CASE Doomed(c)
  <2>1. Rest(c)'
    BY <1>7, <1>12 DEF Doomed
  <2>2. CASE toClient'[c] = <<>>
    <3>1. calling[c] # Client!NoCall \/ failed[c]
      BY <1>12 DEF Doomed
    <3> QED
      BY <1>1, <1>2, <1>4, <1>12, <2>1, <2>2, <3>1, Zenon DEF Doomed, Severed, Left, InPhase
  <2>3. CASE toClient'[c] = toClient[c]
    BY <1>1, <1>4, <1>12, <2>1, <2>3, Zenon DEF Doomed, InPhase
  <2> QED
    BY <1>6, <2>2, <2>3
<1> QED
  BY <1>1, <1>9, <1>10, <1>11, <1>12, Zenon DEF InPhase, Gone, Severed

LEMMA ForgetsPhase ==
    ASSUME NEW c \in Connections, InPhase(c), Forgets(c)
    PROVE  InPhase(c)'
<1>1. /\ ~connected[c]
      /\ connected' = connected /\ toServer' = toServer /\ toClient' = toClient
      /\ sessionId' = sessionId /\ open' = open
      /\ calling' = calling /\ failed' = failed /\ got' = got /\ posted' = posted
  BY DEF Forgets, streams, serverVars, store
<1>2. Gone(c)
  BY <1>1, Zenon DEF InPhase, Idle, Asking, Answered, Doomed, Severed
<1>3. Gone(c)'
  BY <1>1, <1>2, Zenon DEF Gone, Left, Carries, CutOff, Rest, Stored
<1> QED
  BY <1>3 DEF InPhase

LEMMA MoveSpares ==
    ASSUME Typed, NEW c \in Connections, NEW o \in Connections \ {c}, Moves(c)
    PROVE  Stays(o) /\ Grows
<1>1. CASE Connect(c)
  BY <1>1 DEF Connect, Typed, Wires, ServerTypeOK, store, clientVars, Stays, Grows
<1>2. CASE Forgets(c)
  BY <1>2 DEF Forgets, Typed, Programs, streams, serverVars, store, Stays, Grows
<1> QED
  BY <1>1, <1>2, ServeSpares, ClientSpares, Zenon DEF Moves

LEMMA MovePhase ==
    ASSUME GiveUp, Typed, ValuesPosted, NEW c \in Connections, InPhase(c), Moves(c)
    PROVE  InPhase(c)' /\ ValuesPosted'
<1>1. ASSUME values' = values, posted \subseteq posted'
      PROVE  ValuesPosted'
  BY <1>1, Zenon DEF ValuesPosted
<1>2. CASE Connect(c)
  <2>1. values' = values /\ posted' = posted
    BY <1>2 DEF Connect, store, clientVars
  <2> QED
    BY <1>1, <1>2, <2>1, ConnectPhase
<1>3. CASE Asks(c) /\ UNCHANGED serverVars
  <2>1. posted \subseteq posted'
    BY <1>3, PostsGrows, Zenon
       DEF Asks, Client!OpenSession, Client!ResumeSession, Client!CloseSession,
           Client!GetDocument, Client!PostDocument
  <2> QED
    BY <1>1, <1>3, <2>1, AsksPhase, AsksBroken DEF serverVars, store
<1>4. CASE Client!Receive(c) /\ UNCHANGED serverVars
  <2>1. InPhase(c)' /\ posted' = posted
    BY <1>4, ReceivePhase
  <2> QED
    BY <1>1, <1>4, <2>1 DEF serverVars, store
<1>5. CASE Quits(c) /\ UNCHANGED serverVars
  <2>1. posted' = posted
    BY <1>5, Zenon DEF Quits, Client!Disconnect, Client!Die
  <2> QED
    BY <1>1, <1>5, <2>1, QuitsPhase DEF serverVars, store
<1>6. CASE Handle(c) /\ UNCHANGED clientVars
  BY <1>6, HandlePhase, HandleGone
<1>7. CASE HandleOther(c) /\ UNCHANGED clientVars
  <2>1. values' = values /\ posted' = posted
    BY <1>7 DEF HandleOther, store, clientVars
  <2> QED
    BY <1>1, <1>7, <2>1, OtherPhase
<1>8. CASE EndOfStream(c) /\ UNCHANGED clientVars
  <2>1. values' = values /\ posted' = posted
    BY <1>8 DEF EndOfStream, store, clientVars
  <2> QED
    BY <1>1, <1>8, <2>1, EndOfStreamPhase
<1>9. CASE Forgets(c)
  <2>1. values' = values /\ posted' = posted
    BY <1>9 DEF Forgets, serverVars, store
  <2> QED
    BY <1>1, <1>9, <2>1, ForgetsPhase
<1>10. CASE Client!Break(c) /\ UNCHANGED serverVars
  BY <1>1, <1>10, BreakPhase DEF serverVars, store
<1> QED
  BY <1>2, <1>3, <1>4, <1>5, <1>6, <1>7, <1>8, <1>9, <1>10 DEF Moves, Serve

LEMMA PhasesStep ==
    ASSUME GiveUp, Typed, Phases, Step
    PROVE  Phases'
<1>1. ValuesPosted /\ \A c \in Connections : InPhase(c)
  BY DEF Phases
<1>2. ASSUME NEW c \in Connections, Moves(c)
      PROVE  Phases'
  <2>1. InPhase(c)' /\ ValuesPosted'
    BY <1>1, <1>2, MovePhase
  <2>2. ASSUME NEW o \in Connections \ {c}
        PROVE  InPhase(o)'
    <3>1. Stays(o) /\ Grows
      BY <1>2, MoveSpares
    <3> QED
      BY <1>1, <3>1, StaysInPhase
  <2> QED
    BY <2>1, <2>2 DEF Phases
<1>3. CASE Expire /\ UNCHANGED clientVars
  <2>1. PICK s \in open : /\ open' = open \ {s}
                          /\ values' = [values EXCEPT ![s] = NoDocuments]
                          /\ UNCHANGED <<streams, sessionId, nextSessionId>>
    BY <1>3 DEF Expire
  <2>2. ValuesPosted'
    BY <1>1, <1>3, <2>1, OpenAreIds, EndedHoldsNothing DEF clientVars
  <2>3. ASSUME NEW o \in Connections
        PROVE  InPhase(o)'
    <3>1. Stays(o) /\ Grows
      BY <1>3, <2>1 DEF streams, clientVars, Stays, Grows
    <3> QED
      BY <1>1, <3>1, StaysInPhase
  <2> QED
    BY <2>2, <2>3 DEF Phases
<1>4. CASE UNCHANGED vars
  <2>1. ValuesPosted'
    BY <1>1, <1>4, Zenon DEF vars, serverVars, store, clientVars, ValuesPosted
  <2>2. ASSUME NEW o \in Connections
        PROVE  InPhase(o)'
    <3>1. Stays(o) /\ Grows
      BY <1>4 DEF vars, streams, serverVars, store, clientVars, Stays, Grows
    <3> QED
      BY <1>1, <3>1, StaysInPhase
  <2> QED
    BY <2>1, <2>2 DEF Phases
<1> QED
  BY <1>2, <1>3, <1>4 DEF Step

LEMMA PhasesInit == Init => Phases
<1> SUFFICES ASSUME Init
             PROVE  Phases
  OBVIOUS
<1>1. ASSUME NEW c \in Connections
      PROVE  InPhase(c)
  <2>1. /\ ~connected[c] /\ calling[c] = Client!NoCall /\ ~failed[c]
        /\ toClient[c] = <<>> /\ got[c] = {} /\ toServer[c] = <<>>
    BY DEF Init, Client!ClientInit
  <2>2. Rest(c)
    BY <2>1, StreamFacts DEF Rest
  <2> QED
    BY <2>1, <2>2, Zenon DEF Gone, Left, InPhase
<1>2. ValuesPosted
  BY DEF Init, ServerInit, NoDocuments, ValuesPosted
<1> QED
  BY <1>1, <1>2 DEF Phases

(***************************************************************************)
(* Client and thread agree where a message begins, whenever a program that *)
(* ends at its first exception is between two calls.                       *)
(***************************************************************************)
LEMMA PhasesInStep == Phases => InStep
<1> SUFFICES ASSUME Phases, NEW c \in Connections,
                    connected[c], calling[c] = Client!NoCall, ~failed[c]
             PROVE  toServer[c] = <<>> /\ toClient[c] = <<>>
  BY DEF InStep
<1>1. Idle(c)
  BY ReadyIsIdle DEF Phases
<1> QED
  BY <1>1 DEF Idle

LEMMA PhasesGets == Phases => GetReturnsPosted
<1> SUFFICES ASSUME Phases, NEW c \in Connections
             PROVE  got[c] \subseteq posted
  BY DEF GetReturnsPosted
<1>1. got[c] = {} \/ got[c] \subseteq posted
  BY Zenon DEF Phases, InPhase, Gone, Idle, Asking, Answered, Doomed, Severed
<1> QED
  BY <1>1

\* The thread is told to close the session it is in.
LEMMA ClosesNamed ==
    ASSUME Typed, Phases
    PROVE  CloseStep
<1> SUFFICES ASSUME NEW c \in Connections, HandleClose(c), open' # open
             PROVE  open' = open \ {toServer[c][2][2]}
  BY DEF CloseStep
<1>1. Command(c, "close", 2)
  BY DEF HandleClose
<1>2. CloseSession(c)
  BY Zenon DEF HandleClose, Refuse, store
<1>3. sessionId[c] \in open /\ open' = open \ {sessionId[c]}
  BY <1>2, Zenon DEF CloseSession
<1>4. toServer[c][1] = Word("close") /\ Len(toServer[c]) >= 2
  BY <1>1 DEF Command
<1>5. Len(toServer[c]) \in Nat /\ calling[c] \in Asked
  BY DEF Typed, Wires, Programs
<1>6. ~Rest(c)
  <2>1. ~IsLength(toServer[c][1])
    BY <1>4, LinesDiffer
  <2>2. Len(toServer[c]) >= 2
    BY <1>4, Zenon
  <2>3. ASSUME NEW n \in Nat, n >= 2
        PROVE  n # 0 /\ n # 1
    BY <2>3
  <2>4. Len(toServer[c]) # 0 /\ Len(toServer[c]) # 1
    BY <1>5, <2>2, <2>3, Zenon
  <2> QED
    BY <2>1, <2>4, Zenon DEF Rest
<1>7. ~CutOff(c)
  BY <1>4, LinesDiffer DEF CutOff
<1>8. toServer[c] # <<>>
  BY <1>4, StreamFacts
<1>9. PICK call \in Asked : Carries(c, call)
  BY <1>5, <1>6, <1>7, <1>8, Zenon DEF Phases, InPhase, Gone, Idle, Asking, Answered,
                                     Doomed, Severed, Left
<1>10. call.op = "close"
  BY <1>1, <1>9, Commanded
<1>11. toServer[c][2] = IdLine(call.id) /\ call.id = sessionId[c] /\ call.id \in AnyId
  BY <1>3, <1>9, <1>10, RecordTypes DEF Carries, Pair
<1> QED
  BY <1>3, <1>11, LinesDiffer

LEMMA ServiceInvariant ==
    ASSUME GiveUp
    PROVE  Spec => [](Typed /\ Phases)
<1>1. Init => Typed /\ Phases
  BY TypedInit, PhasesInit
<1>2. Typed /\ Phases /\ [Next]_vars => (Typed /\ Phases)'
  BY NextIsStep, TypedStep, PhasesStep
<1> QED
  BY <1>1, <1>2, PTL DEF Spec

(***************************************************************************)
(* No handler leaves a line of its call unread, and no call a line of its  *)
(* reply: between two calls of a program, none of which threw, both        *)
(* streams are empty.                                                      *)
(***************************************************************************)
THEOREM InStepHolds ==
    ASSUME GiveUp
    PROVE  Spec => []InStep
BY ServiceInvariant, PhasesInStep, PTL

(***************************************************************************)
(* What GetDocument returns was posted under that name in the session of   *)
(* the client that asks.                                                   *)
(***************************************************************************)
THEOREM GetReturnsPostedHolds ==
    ASSUME GiveUp
    PROVE  Spec => []GetReturnsPosted
BY ServiceInvariant, PhasesGets, PTL

(***************************************************************************)
(* A close ends the session the client named, though the handler ends the  *)
(* one of its connection.                                                  *)
(***************************************************************************)
THEOREM ClosesWhatWasNamedHolds ==
    ASSUME GiveUp
    PROVE  Spec => ClosesWhatWasNamed
<1>1. Typed /\ Phases => CloseStep
  BY ClosesNamed
<1> QED
  BY <1>1, ServiceInvariant, PTL DEF ClosesWhatWasNamed

-------------------------------------------------------------------------------
(***************************************************************************)
(* The browsers.  Their actions are steps of the service.                  *)
(***************************************************************************)
Requests ==
    /\ kind \in [Browsers -> {"kept", "per request", "page"}]
    /\ phase \in [Browsers -> {"none", "lookup", "lost", "connect", "open", "resume",
                               "accept", "get", "content"}]
    /\ asked \in [Browsers -> Names]
    /\ entry \in [Browsers -> AnyId \cup {NoEntry}]
    /\ answer \in [Browsers -> SUBSET Client!Documents]

\* Where a request is, what the entry says and what the client is doing go
\* together.
Told(b) ==
    /\ b \in Pages => /\ entry[b] = NoEntry /\ sessionID[b] = 0
                      /\ phase[b] \notin {"open", "resume", "accept"}
    /\ phase[b] \in {"open", "resume", "accept"} => entry[b] \in AnyId
    /\ phase[b] \notin {"accept", "content"} => calling[b] = Client!NoCall
    /\ phase[b] # "none" => answer[b] = {}
    /\ phase[b] \in {"get", "content"} => b \in Pages \/ entry[b] = sessionID[b]
    /\ phase[b] = "content" /\ calling[b] # Client!NoCall
          => calling[b].op = "get" /\ calling[b].name = asked[b]
    /\ phase[b] = "content" /\ calling[b] = Client!NoCall /\ ~failed[b]
          => \A d \in got[b] : d.name = asked[b] /\ d.session = sessionID[b]
    /\ \A d \in answer[b] : d \in posted /\ d.name = asked[b] /\ d.session = entry[b]

Browsing ==
    /\ Requests
    /\ \A b \in Browsers : Told(b)
    /\ \A d \in posted : d.session # 0

\* The fields of a request that another browser leaves alone.
SameRequest(b) ==
    /\ phase'[b] = phase[b] /\ asked'[b] = asked[b]
    /\ entry'[b] = entry[b] /\ answer'[b] = answer[b]

Drives(b) ==
    \/ \E name \in Names : Request(b, name)
    \/ Advance(b)
    \/ LookupLost(b)
    \/ Collect(b)

LEMMA BrowserMoves ==
    ASSUME Typed, Browsing, NEW b \in Browsers, Drives(b)
    PROVE  Moves(b) \/ UNCHANGED vars
<1> USE BrowserAssumption
<1>1. b \in Connections
  OBVIOUS
<1>2. CASE \E name \in Names : Request(b, name)
  <2>1. PICK name \in Names : Request(b, name)
    BY <1>2
  <2>2. CASE b \in PerRequest
    BY <2>1, <2>2 DEF Request, Moves, Forgets
  <2>3. CASE b \notin PerRequest
    <3>1. sessionID' = sessionID
      BY <1>1, <2>1, <2>3 DEF Request, Typed, Programs
    <3> QED
      BY <2>1, <3>1 DEF Request, vars, clientVars
  <2> QED
    BY <2>2, <2>3
<1>3. CASE \/ LookupSucceeds(b) \/ LookupFails(b) \/ LookupLost(b)
           \/ ConnectFails(b) \/ Accept(b)
  BY <1>3 DEF LookupSucceeds, LookupFails, LookupLost, ConnectFails, Accept, vars
<1>4. CASE ConnectSucceeds(b)
  BY <1>4 DEF ConnectSucceeds, Moves
<1>5. CASE Opens(b)
  BY <1>5, Zenon DEF Opens, Moves, Asks
<1>6. CASE Resumes(b)
  <2>1. CASE Fails(b) /\ UNCHANGED clientVars /\ UNCHANGED streams /\ UNCHANGED serverVars
    BY <2>1 DEF vars
  <2>2. CASE phase[b] = "resume" /\ Client!ResumeSession(b, entry[b]) /\ UNCHANGED serverVars
    <3>1. entry[b] \in AnyId
      BY <2>2 DEF Browsing, Told
    <3> QED
      BY <2>2, <3>1, Zenon DEF Moves, Asks
  <2> QED
    BY <1>6, <2>1, <2>2, Zenon DEF Resumes
<1>7. CASE GetDocument(b)
  <2>1. asked[b] \in Names
    BY DEF Browsing, Requests
  <2> QED
    BY <1>7, <2>1, Zenon DEF GetDocument, Moves, Asks
<1>8. CASE Return(b)
  BY <1>8, Zenon DEF Return, Moves, Quits
<1>9. CASE Collect(b)
  BY <1>9, Zenon DEF Collect, Moves, Quits
<1> QED
  BY <1>2, <1>3, <1>4, <1>5, <1>6, <1>7, <1>8, <1>9, Zenon DEF Drives, Advance

LEMMA ConsoleMoves ==
    ASSUME NEW c \in Connections, ConsoleStep(c)
    PROVE  Moves(c) /\ UNCHANGED requestVars
<1>1. Ids \subseteq AnyId
  BY DEF AnyId
<1> QED
  BY <1>1, Zenon DEF ConsoleStep, Moves, Asks, Quits

LEMMA BrowserNextIsStep ==
    ASSUME Typed, Browsing, [BrowserNext]_allVars
    PROVE  Step
<1>1. CASE UNCHANGED allVars
  BY <1>1 DEF allVars, Step
<1>2. ASSUME NEW b \in Browsers, Drives(b)
      PROVE  Step
  BY <1>2, BrowserMoves, BrowserAssumption DEF Step
<1>3. ASSUME NEW c \in Connections \ Browsers, ConsoleStep(c)
      PROVE  Step
  BY <1>3, ConsoleMoves DEF Step
<1>4. ASSUME NEW c \in Connections, Receives(c) \/ Serves(c) \/ Breaks(c)
      PROVE  Step
  BY <1>4, Zenon DEF Receives, Serves, Breaks, Moves, Step
<1>5. CASE Expire /\ UNCHANGED <<clientVars, requestVars>>
  BY <1>5 DEF Step
<1> QED
  BY <1>1, <1>2, <1>3, <1>4, <1>5, Zenon DEF BrowserNext, Drives

\* What a step does not touch of a browser and of its client.
SameClient(b) ==
    /\ sessionID'[b] = sessionID[b] /\ calling'[b] = calling[b]
    /\ failed'[b] = failed[b] /\ got'[b] = got[b]

LEMMA ToldStays ==
    ASSUME NEW b \in Browsers, Told(b), SameRequest(b), SameClient(b), kind' = kind,
           posted \subseteq posted'
    PROVE  Told(b)'
BY Zenon DEF Told, Pages, SameRequest, SameClient, NoEntry

LEMMA RequestsStays ==
    ASSUME Requests, UNCHANGED <<kind, phase, asked, entry, answer>>
    PROVE  Requests' /\ \A b \in Browsers : SameRequest(b)
BY DEF Requests, SameRequest

\* A post is for a session.
LEMMA PostsSession ==
    ASSUME \A d \in posted : d.session # 0,
           NEW session, NEW name, NEW text, Client!Posts(session, name, text)
    PROVE  \A d \in posted' : d.session # 0
<1>1. ASSUME session # 0
      PROVE  Client!Document(session, name, text).session # 0
  BY <1>1 DEF Client!Document
<1> QED
  BY <1>1, Zenon DEF Client!Posts

LEMMA PostedSession ==
    ASSUME Typed, \A d \in posted : d.session # 0, Step
    PROVE  posted \subseteq posted' /\ \A d \in posted' : d.session # 0
<1>1. ASSUME NEW c \in Connections, Asks(c)
      PROVE  posted \subseteq posted' /\ \A d \in posted' : d.session # 0
  <2>1. \/ posted' = posted
        \/ \E session, name, text : Client!Posts(session, name, text)
    BY <1>1, Zenon
       DEF Asks, Client!OpenSession, Client!ResumeSession, Client!CloseSession,
           Client!GetDocument, Client!PostDocument
  <2> QED
    BY <2>1, PostsGrows, PostsSession
<1>2. ASSUME NEW c \in Connections, Quits(c) \/ Client!Break(c)
      PROVE  posted \subseteq posted' /\ \A d \in posted' : d.session # 0
  <2>1. \/ posted' = posted
        \/ \E session, name, text : Client!Posts(session, name, text)
    BY <1>2, Zenon DEF Quits, Client!Disconnect, Client!Die, Client!Break
  <2> QED
    BY <2>1, PostsGrows, PostsSession
<1>3. ASSUME NEW c \in Connections, Client!Receive(c)
      PROVE  posted' = posted
  BY <1>3, Zenon DEF Client!Receive, Client!ReceiveResponse, Client!ReceiveNothing
<1>4. ASSUME NEW c \in Connections, Connect(c) \/ Forgets(c)
      PROVE  posted' = posted
  BY <1>4 DEF Connect, Forgets, clientVars
<1>5. UNCHANGED vars \/ UNCHANGED clientVars => posted' = posted
  BY DEF vars, clientVars
<1> QED
  BY <1>1, <1>2, <1>3, <1>4, <1>5, Zenon DEF Step, Moves

LEMMA RequestTold ==
    ASSUME Typed, Phases, Browsing, NEW b \in Browsers, kind' = kind,
           NEW name \in Names, Request(b, name)
    PROVE  /\ Requests' /\ Told(b)' /\ opener' = opener
           /\ \A o \in Browsers \ {b} : SameRequest(o)
<1> USE BrowserAssumption
<1>1. Requests /\ Told(b)
  BY DEF Browsing
<1>2. PICK next \in {"connect", "lookup"} : phase' = [phase EXCEPT ![b] = next]
  BY DEF Request, Goes
<1>3. /\ asked' = [asked EXCEPT ![b] = name]
      /\ answer' = [answer EXCEPT ![b] = {}]
      /\ entry' = [entry EXCEPT ![b] = IF b \in PerRequest THEN NoEntry ELSE entry[b]]
      /\ sessionID' = [sessionID EXCEPT ![b] = IF b \in PerRequest THEN 0 ELSE sessionID[b]]
      /\ UNCHANGED <<calling, failed, got, posted, opener>>
      /\ phase[b] = "none"
  BY DEF Request
<1>4. Requests' /\ \A o \in Browsers \ {b} : SameRequest(o)
  BY <1>1, <1>2, <1>3 DEF Requests, SameRequest
<1>5. /\ phase'[b] = next /\ answer'[b] = {} /\ calling'[b] = Client!NoCall
      /\ b \in Pages => entry'[b] = NoEntry /\ sessionID'[b] = 0
  BY <1>1, <1>2, <1>3 DEF Requests, Told, Pages, PerRequest, Typed, Programs
<1>6. Pages' = Pages
  BY DEF Pages
<1>7. NoEntry' = NoEntry
  BY DEF NoEntry
<1>8. Told(b)'
  BY <1>2, <1>5, <1>6, <1>7 DEF Told
<1> QED
  BY <1>3, <1>4, <1>8

LEMMA LookupTold ==
    ASSUME Typed, Browsing, NEW b \in Browsers, kind' = kind,
           LookupSucceeds(b) \/ LookupLost(b)
    PROVE  /\ Requests' /\ Told(b)' /\ opener' = opener
           /\ \A o \in Browsers \ {b} : SameRequest(o)
<1>1. Requests /\ Told(b)
  BY DEF Browsing
<1>2. PICK next \in {"connect", "lost"} : phase' = [phase EXCEPT ![b] = next]
  BY DEF LookupSucceeds, LookupLost, Goes
<1>3. /\ phase[b] = "lookup" /\ UNCHANGED <<asked, entry, answer, opener>>
      /\ UNCHANGED <<sessionID, calling, failed, got, posted>>
  BY DEF LookupSucceeds, LookupLost, vars, clientVars
<1>4. Requests' /\ \A o \in Browsers \ {b} : SameRequest(o)
  BY <1>1, <1>2, <1>3 DEF Requests, SameRequest
<1>5. /\ phase'[b] = next /\ answer'[b] = {} /\ calling'[b] = Client!NoCall
      /\ b \in Pages => entry'[b] = NoEntry /\ sessionID'[b] = 0
  BY <1>1, <1>2, <1>3 DEF Requests, Told
<1>6. Pages' = Pages
  BY DEF Pages
<1>7. NoEntry' = NoEntry
  BY DEF NoEntry
<1>8. Told(b)'
  BY <1>2, <1>5, <1>6, <1>7 DEF Told
<1> QED
  BY <1>3, <1>4, <1>8

LEMMA FailsTold ==
    ASSUME Typed, Browsing, NEW b \in Browsers, kind' = kind, Fails(b),
           phase[b] \in {"lookup", "connect", "resume", "accept", "content"},
           calling[b] = Client!NoCall,
           UNCHANGED clientVars,
           NEW e \in AnyId \cup {NoEntry}, entry' = [entry EXCEPT ![b] = e],
           b \in Pages => e = entry[b]
    PROVE  /\ Requests' /\ Told(b)' /\ opener' = opener
           /\ \A o \in Browsers \ {b} : SameRequest(o)
<1>1. Requests /\ Told(b)
  BY DEF Browsing
<1>2. /\ phase' = [phase EXCEPT ![b] = "none"] /\ UNCHANGED <<asked, answer, opener>>
      /\ UNCHANGED <<sessionID, calling, failed, got, posted>>
  BY DEF Fails, Goes, clientVars
<1>3. Requests' /\ \A o \in Browsers \ {b} : SameRequest(o)
  BY <1>1, <1>2 DEF Requests, SameRequest
<1>4. /\ phase'[b] = "none" /\ answer'[b] = {} /\ calling'[b] = Client!NoCall
      /\ b \in Pages => entry'[b] = NoEntry /\ sessionID'[b] = 0
  BY <1>1, <1>2 DEF Requests, Told
<1>5. Pages' = Pages
  BY DEF Pages
<1>6. NoEntry' = NoEntry
  BY DEF NoEntry
<1>7. Told(b)'
  BY <1>4, <1>5, <1>6 DEF Told
<1> QED
  BY <1>2, <1>3, <1>7

LEMMA WithEntryType ==
    ASSUME Browsing, NEW b \in Browsers
    PROVE  /\ WithEntry(b) \in AnyId \cup {NoEntry}
           /\ b \in Pages => WithEntry(b) = entry[b]
           /\ b \notin Pages => WithEntry(b) \in AnyId
BY DEF WithEntry, Browsing, Requests, AnyId

LEMMA ConnectSucceedsTold ==
    ASSUME Typed, Browsing, NEW b \in Browsers, kind' = kind, ConnectSucceeds(b)
    PROVE  /\ Requests' /\ Told(b)' /\ opener' = opener
           /\ \A o \in Browsers \ {b} : SameRequest(o)
<1> USE BrowserAssumption
<1>1. Requests /\ Told(b)
  BY DEF Browsing
<1>2. PICK next \in {"get", "open", "resume"} :
          /\ phase' = [phase EXCEPT ![b] = next]
          /\ b \in Pages <=> next = "get"
  <2>1. phase' = [phase EXCEPT ![b] =
            IF b \in Pages THEN "get" ELSE IF entry[b] = NoEntry THEN "open" ELSE "resume"]
    BY DEF ConnectSucceeds, Goes
  <2> QED
    BY <2>1
<1>3. /\ entry' = [entry EXCEPT ![b] = WithEntry(b)]
      /\ UNCHANGED <<asked, answer, opener>>
      /\ UNCHANGED <<sessionID, calling, failed, got, posted>>
      /\ phase[b] = "connect"
  BY DEF ConnectSucceeds, Connect, clientVars
<1>4. Requests' /\ \A o \in Browsers \ {b} : SameRequest(o)
  BY <1>1, <1>2, <1>3, WithEntryType DEF Requests, SameRequest
<1>5. /\ phase'[b] = next /\ answer'[b] = {} /\ calling'[b] = Client!NoCall
      /\ b \in Pages => entry'[b] = NoEntry /\ sessionID'[b] = 0
      /\ b \notin Pages => entry'[b] \in AnyId
  BY <1>1, <1>2, <1>3, WithEntryType DEF Requests, Told
<1>6. Pages' = Pages
  BY DEF Pages
<1>7. NoEntry' = NoEntry /\ AnyId' = AnyId
  BY DEF NoEntry
<1>8. Told(b)'
  BY <1>2, <1>5, <1>6, <1>7 DEF Told
<1> QED
  BY <1>3, <1>4, <1>8

LEMMA CallsTold ==
    ASSUME Typed, Browsing, NEW b \in Browsers, kind' = kind,
           NEW op \in {"open", "resume", "get"}, NEW id, NEW name, NEW text, NEW lines,
           Client!Calling(b, op, id, name, text, lines), posted' = posted,
           NEW next \in {"accept", "content"}, phase' = [phase EXCEPT ![b] = next],
           UNCHANGED <<asked, entry, answer, opener>>,
           \/ next = "accept" /\ phase[b] \in {"open", "resume"}
           \/ next = "content" /\ phase[b] = "get" /\ op = "get" /\ name = asked[b]
    PROVE  /\ Requests' /\ Told(b)' /\ opener' = opener
           /\ \A o \in Browsers \ {b} : SameRequest(o)
<1> USE BrowserAssumption
<1>1. Requests /\ Told(b)
  BY DEF Browsing
<1>2. PICK call : call = [op |-> op, id |-> id, name |-> name, text |-> text]
  BY Zenon
<1>3. call.op = op /\ call.name = name
  BY <1>2
<1>4. /\ calling' = [calling EXCEPT ![b] = call]
      /\ sessionID' = sessionID /\ failed' = failed
  BY <1>2, Zenon DEF Client!Calling
<1>5. call # Client!NoCall
  BY <1>3 DEF Client!NoCall
<1>6. calling'[b] = call
  BY <1>4 DEF Typed, Programs
<1>7. phase'[b] = next
  BY <1>1 DEF Requests
<1>8. Requests' /\ \A o \in Browsers \ {b} : SameRequest(o)
  BY <1>1 DEF Requests, SameRequest
<1>9. Pages' = Pages
  BY DEF Pages
<1>10. NoEntry' = NoEntry /\ AnyId' = AnyId
  BY DEF NoEntry
<1>11. Told(b)'
  BY <1>1, <1>3, <1>4, <1>5, <1>6, <1>7, <1>9, <1>10 DEF Told
<1> QED
  BY <1>8, <1>11

LEMMA ReturnTold ==
    ASSUME Typed, Phases, Browsing, NEW b \in Browsers, kind' = kind, Return(b), ~failed[b]
    PROVE  /\ Requests' /\ Told(b)' /\ opener' = opener
           /\ \A o \in Browsers \ {b} : SameRequest(o)
<1> USE BrowserAssumption
<1>1. Requests /\ Told(b)
  BY DEF Browsing
<1>2. /\ phase[b] = "content" /\ calling[b] = Client!NoCall
      /\ phase' = [phase EXCEPT ![b] = "none"]
      /\ answer' = [answer EXCEPT ![b] = got[b]]
      /\ UNCHANGED <<asked, entry, opener, sessionID, posted>>
      /\ calling'[b] = Client!NoCall
  BY DEF Return, Goes, Client!Disconnect, Client!Leaves, vars, clientVars, Typed, Programs
<1>3. got[b] \subseteq Client!Documents
  BY DEF Typed, Programs, Found
<1>4. got[b] \subseteq posted
  BY PhasesGets DEF GetReturnsPosted
<1>5. Requests' /\ \A o \in Browsers \ {b} : SameRequest(o)
  BY <1>1, <1>2, <1>3 DEF Requests, SameRequest
<1>6. ASSUME NEW d \in got[b]
      PROVE  d \in posted /\ d.name = asked[b] /\ d.session = entry[b]
  <2>1. d.name = asked[b] /\ d.session = sessionID[b]
    BY <1>1, <1>2 DEF Told
  <2>2. d.session # 0
    BY <1>4 DEF Browsing
  <2>3. b \notin Pages
    BY <1>1, <2>1, <2>2 DEF Told
  <2>4. entry[b] = sessionID[b]
    BY <1>1, <1>2, <2>3 DEF Told
  <2> QED
    BY <1>4, <2>1, <2>4
<1>7. /\ phase'[b] = "none" /\ answer'[b] = got[b] /\ calling'[b] = Client!NoCall
      /\ b \in Pages => entry'[b] = NoEntry /\ sessionID'[b] = 0
  BY <1>1, <1>2 DEF Requests, Told, Typed, Programs
<1>8. Pages' = Pages /\ NoEntry' = NoEntry
  BY DEF Pages, NoEntry
<1>9. \A d \in answer'[b] : d \in posted' /\ d.name = asked'[b] /\ d.session = entry'[b]
  BY <1>2, <1>6, <1>7, Zenon
<1>10. Told(b)'
  BY <1>7, <1>8, <1>9, Zenon DEF Told
<1> QED
  BY <1>2, <1>5, <1>10

LEMMA DrivesTold ==
    ASSUME Typed, Phases, Browsing, NEW b \in Browsers, kind' = kind, Drives(b)
    PROVE  /\ Requests' /\ Told(b)' /\ opener' = opener
           /\ \A o \in Browsers \ {b} : SameRequest(o)
<1> DEFINE Goal == /\ Requests' /\ Told(b)' /\ opener' = opener
                   /\ \A o \in Browsers \ {b} : SameRequest(o)
<1>1. Requests /\ Told(b)
  BY DEF Browsing
<1>2. entry[b] \in AnyId \cup {NoEntry} /\ entry = [entry EXCEPT ![b] = entry[b]]
  BY <1>1 DEF Requests
<1>3. ASSUME Fails(b), phase[b] \in {"lookup", "connect", "resume", "accept", "content"},
             calling[b] = Client!NoCall, UNCHANGED clientVars, entry' = entry
      PROVE  Goal
  <2>1. entry' = [entry EXCEPT ![b] = entry[b]]
    BY <1>2, <1>3
  <2> QED
    BY <1>2, <1>3, <2>1, FailsTold
<1>4. CASE \E name \in Names : Request(b, name)
  BY <1>4, RequestTold
<1>5. CASE LookupFails(b)
  <2>1. /\ phase[b] = "lookup" /\ Fails(b) /\ UNCHANGED clientVars /\ entry' = entry
        /\ calling[b] = Client!NoCall
    BY <1>1, <1>5 DEF LookupFails, vars, Told
  <2> QED
    BY <1>3, <2>1
<1>6. CASE ConnectFails(b)
  <2>1. /\ phase[b] = "connect" /\ Fails(b) /\ UNCHANGED clientVars
        /\ entry' = [entry EXCEPT ![b] = WithEntry(b)]
        /\ calling[b] = Client!NoCall
    BY <1>1, <1>6 DEF ConnectFails, vars, Told
  <2> QED
    BY <2>1, WithEntryType, FailsTold
<1>7. CASE ConnectSucceeds(b)
  BY <1>7, ConnectSucceedsTold
<1>8. CASE Opens(b)
  <2>1. /\ phase[b] = "open" /\ UNCHANGED <<asked, entry, answer, opener>>
        /\ phase' = [phase EXCEPT ![b] = "accept"]
        /\ Client!OpenSession(b)
    BY <1>8 DEF Opens, Goes
  <2>2. Client!Calling(b, "open", 0, Client!Empty, Client!Empty, <<>>) /\ posted' = posted
    BY <2>1, Zenon DEF Client!OpenSession
  <2> QED
    BY <2>1, <2>2, CallsTold
<1>9. CASE Resumes(b)
  <2>1. CASE /\ phase[b] = "resume" /\ Fails(b) /\ UNCHANGED clientVars /\ entry' = entry
    <3>1. calling[b] = Client!NoCall
      BY <1>1, <2>1 DEF Told
    <3> QED
      BY <1>3, <2>1, <3>1
  <2>2. CASE /\ phase[b] = "resume" /\ Client!ResumeSession(b, entry[b]) /\ Goes(b, "accept")
             /\ UNCHANGED <<asked, entry, answer, opener>>
    <3>1. PICK lines : Client!Calling(b, "resume", entry[b], Client!Empty, Client!Empty, lines)
      BY <2>2, Zenon DEF Client!ResumeSession
    <3>2. posted' = posted
      BY <2>2 DEF Client!ResumeSession
    <3>3. phase' = [phase EXCEPT ![b] = "accept"]
      BY <2>2 DEF Goes
    <3> QED
      BY <2>2, <3>1, <3>2, <3>3, CallsTold
  <2> QED
    BY <1>9, <2>1, <2>2, Zenon DEF Resumes
<1>10. CASE Accept(b)
  <2>1. CASE failed[b] /\ Fails(b) /\ UNCHANGED entry
    <3>1. phase[b] = "accept" /\ calling[b] = Client!NoCall /\ UNCHANGED clientVars
      BY <1>10 DEF Accept, vars
    <3> QED
      BY <1>3, <2>1, <3>1
  <2>2. CASE ~failed[b]
    <3>1. /\ phase[b] = "accept" /\ calling[b] = Client!NoCall
          /\ UNCHANGED <<sessionID, calling, failed, got, posted>>
          /\ entry' = [entry EXCEPT ![b] = sessionID[b]]
          /\ phase' = [phase EXCEPT ![b] = "get"]
          /\ UNCHANGED <<asked, answer, opener>>
      BY <1>10, <2>2 DEF Accept, IdOf, Goes, vars, clientVars
    <3>2. sessionID[b] \in AnyId
      BY BrowserAssumption DEF Typed, Programs
    <3>3. Requests' /\ \A o \in Browsers \ {b} : SameRequest(o)
      BY <1>1, <3>1, <3>2 DEF Requests, SameRequest
    <3>4. /\ phase'[b] = "get" /\ answer'[b] = {} /\ calling'[b] = Client!NoCall
          /\ entry'[b] = sessionID'[b] /\ b \notin Pages
      BY <1>1, <3>1 DEF Requests, Told
    <3>5. Pages' = Pages
      BY DEF Pages
    <3>6. Told(b)'
      BY <3>4, <3>5 DEF Told
    <3> QED
      BY <3>1, <3>3, <3>6
  <2> QED
    BY <1>10, <2>1, <2>2 DEF Accept
<1>11. CASE GetDocument(b)
  <2>1. /\ phase[b] = "get" /\ UNCHANGED <<asked, entry, answer, opener>>
        /\ phase' = [phase EXCEPT ![b] = "content"]
        /\ Client!GetDocument(b, asked[b])
    BY <1>11 DEF GetDocument, Goes
  <2>2. PICK lines : Client!Calling(b, "get", 0, asked[b], Client!Empty, lines)
    BY <2>1, Zenon DEF Client!GetDocument
  <2>3. posted' = posted
    BY <2>1 DEF Client!GetDocument
  <2> QED
    BY <2>1, <2>2, <2>3, CallsTold
<1>12. CASE Return(b)
  <2>1. CASE failed[b]
    <3>1. /\ phase[b] = "content" /\ calling[b] = Client!NoCall
          /\ Fails(b) /\ UNCHANGED clientVars /\ entry' = entry
      BY <1>12, <2>1 DEF Return, vars
    <3> QED
      BY <1>3, <3>1
  <2>2. CASE ~failed[b]
    BY <1>12, <2>2, ReturnTold
  <2> QED
    BY <2>1, <2>2
<1>13. CASE Collect(b)
  <2>1. /\ phase[b] = "none" /\ b \in PerRequest /\ UNCHANGED <<phase, asked, entry, answer, opener>>
        /\ sessionID' = [sessionID EXCEPT ![b] = 0] /\ posted' = posted
        /\ calling' = [calling EXCEPT ![b] = Client!NoCall]
    BY <1>13 DEF Collect, requestVars, Client!Die, Client!Leaves
  <2>2. Requests' /\ \A o \in Browsers : SameRequest(o)
    BY <1>1, <2>1, RequestsStays
  <2>3. b \notin Pages /\ Pages' = Pages
    BY <2>1 DEF Pages, PerRequest
  <2>4. calling'[b] = Client!NoCall
    BY <2>1, BrowserAssumption DEF Typed, Programs
  <2>5. Told(b)'
    BY <1>1, <2>1, <2>2, <2>3, <2>4, Zenon DEF Told, SameRequest
  <2> QED
    BY <2>1, <2>2, <2>5
<1>14. CASE LookupSucceeds(b) \/ LookupLost(b)
  BY <1>14, LookupTold
<1> QED
  BY <1>4, <1>5, <1>6, <1>7, <1>8, <1>9, <1>10, <1>11, <1>12, <1>13, <1>14, Zenon
     DEF Drives, Advance

LEMMA ReceivesTold ==
    ASSUME Typed, Browsing, NEW b \in Browsers, Receives(b)
    PROVE  Told(b)'
<1> USE BrowserAssumption
<1>1. Requests /\ Told(b) /\ b \in Connections
  BY DEF Browsing
<1>2. /\ calling[b] # Client!NoCall
      /\ calling' = [calling EXCEPT ![b] = Client!NoCall]
      /\ posted' = posted
      /\ \/ \E reply : Client!Succeeds(b, reply)
         \/ Client!Throws(b)
  BY Zenon DEF Receives, Client!Receive, Client!ReceiveResponse, Client!ReceiveNothing
<1>3. UNCHANGED <<kind, phase, asked, entry, answer>>
  BY DEF Receives, requestVars
<1>4. phase[b] \in {"accept", "content"} /\ answer[b] = {}
  BY <1>1, <1>2 DEF Told
<1>5. calling'[b] = Client!NoCall
  BY <1>1, <1>2 DEF Typed, Programs
<1>6. Pages' = Pages /\ NoEntry' = NoEntry /\ AnyId' = AnyId
  BY <1>3 DEF Pages, NoEntry
<1>7. CASE phase[b] = "accept"
  BY <1>1, <1>3, <1>4, <1>5, <1>6, <1>7 DEF Told
<1>8. CASE phase[b] = "content"
  <2>1. /\ calling[b].op = "get" /\ calling[b].name = asked[b]
        /\ b \in Pages => entry[b] = NoEntry /\ sessionID[b] = 0
        /\ b \in Pages \/ entry[b] = sessionID[b]
    BY <1>1, <1>2, <1>8, Zenon DEF Told
  <2>2. /\ sessionID'[b] = sessionID[b]
        /\ ~failed'[b] => \A d \in got'[b] : d.name = asked[b] /\ d.session = sessionID[b]
    <3>1. CASE Client!Throws(b)
      BY <1>1, <3>1 DEF Client!Throws, Typed, Programs
    <3>2. ASSUME NEW reply, Client!Succeeds(b, reply)
          PROVE  /\ sessionID'[b] = sessionID[b]
                 /\ \A d \in got'[b] : d.name = asked[b] /\ d.session = sessionID[b]
      <4>1. Client!SessionAfter(b, reply) = sessionID[b]
        BY <2>1 DEF Client!SessionAfter
      <4>2. sessionID'[b] = sessionID[b]
        BY <1>1, <3>2, <4>1 DEF Client!Succeeds, Typed, Programs
      <4>3. PICK text : text = reply[3][2]
        OBVIOUS
      <4>4. got' = [got EXCEPT ![b] = {Client!Document(sessionID[b], asked[b], text)}]
        BY <2>1, <3>2, <4>3, Zenon DEF Client!Succeeds
      <4>5. got'[b] = {Client!Document(sessionID[b], asked[b], text)}
        BY <1>1, <4>4 DEF Typed, Programs
      <4> QED
        BY <4>2, <4>5 DEF Client!Document
    <3> QED
      BY <1>2, <3>1, <3>2
  <2> QED
    BY <1>3, <1>4, <1>5, <1>6, <1>8, <2>1, <2>2, Zenon DEF Told
<1> QED
  BY <1>4, <1>7, <1>8

LEMMA BrowsingStep ==
    ASSUME Typed, Phases, Browsing, [BrowserNext]_allVars
    PROVE  Browsing'
<1>1. Requests /\ \A b \in Browsers : Told(b)
  BY DEF Browsing
<1>2. posted \subseteq posted' /\ \A d \in posted' : d.session # 0
  BY BrowserNextIsStep, PostedSession DEF Browsing
<1>3. ASSUME UNCHANGED requestVars, \A b \in Browsers : SameClient(b)
      PROVE  Browsing'
  <2>1. UNCHANGED <<kind, phase, asked, entry, answer>>
    BY <1>3 DEF requestVars
  <2>2. Requests' /\ \A b \in Browsers : SameRequest(b)
    BY <1>1, <2>1, RequestsStays
  <2>3. ASSUME NEW b \in Browsers
        PROVE  Told(b)'
    BY <1>1, <1>2, <1>3, <2>1, <2>2, ToldStays
  <2> QED
    BY <1>2, <2>2, <2>3 DEF Browsing
<1>4. CASE UNCHANGED allVars
  BY <1>3, <1>4 DEF allVars, vars, clientVars, SameClient
<1>5. CASE Expire /\ UNCHANGED <<clientVars, requestVars>>
  BY <1>3, <1>5 DEF clientVars, SameClient
<1>6. ASSUME NEW b \in Browsers, Drives(b), kind' = kind
      PROVE  Browsing'
  <2>1. /\ Requests' /\ Told(b)'
        /\ \A o \in Browsers \ {b} : SameRequest(o)
    BY <1>6, DrivesTold
  <2>2. ASSUME NEW o \in Browsers \ {b}
        PROVE  Told(o)'
    <3>1. SameClient(o)
      <4>1. CASE UNCHANGED vars
        BY <4>1 DEF vars, clientVars, SameClient
      <4>2. CASE Moves(b)
        <5>1. Stays(o)
          BY <4>2, MoveSpares, BrowserAssumption
        <5> QED
          BY <5>1 DEF Stays, SameClient
      <4> QED
        BY <1>6, <4>1, <4>2, BrowserMoves
    <3> QED
      BY <1>1, <1>2, <1>6, <2>1, <3>1, ToldStays
  <2> QED
    BY <1>2, <2>1, <2>2 DEF Browsing
<1>7. ASSUME NEW c \in Connections \ Browsers, ConsoleStep(c)
      PROVE  Browsing'
  <2>1. Moves(c) /\ UNCHANGED requestVars
    BY <1>7, ConsoleMoves
  <2>2. ASSUME NEW b \in Browsers
        PROVE  SameClient(b)
    <3>1. Stays(b)
      BY <2>1, MoveSpares, BrowserAssumption
    <3> QED
      BY <3>1 DEF Stays, SameClient
  <2> QED
    BY <1>3, <2>1, <2>2
<1>8. ASSUME NEW c \in Connections, Receives(c)
      PROVE  Browsing'
  <2>1. Moves(c) /\ UNCHANGED <<kind, phase, asked, entry, answer>>
    BY <1>8, Zenon DEF Receives, Moves, requestVars
  <2>2. Requests' /\ \A b \in Browsers : SameRequest(b)
    BY <1>1, <2>1, RequestsStays
  <2>3. ASSUME NEW b \in Browsers
        PROVE  Told(b)'
    <3>1. CASE b = c
      BY <1>8, <3>1, ReceivesTold
    <3>2. CASE b # c
      <4>1. Stays(b)
        BY <2>1, <3>2, MoveSpares, BrowserAssumption
      <4>2. SameClient(b)
        BY <4>1 DEF Stays, SameClient
      <4> QED
        BY <1>1, <1>2, <2>1, <2>2, <4>2, ToldStays
    <3> QED
      BY <3>1, <3>2
  <2> QED
    BY <1>2, <2>2, <2>3 DEF Browsing
<1>9. ASSUME NEW c \in Connections, Serves(c)
      PROVE  Browsing'
  <2>1. UNCHANGED <<kind, phase, asked, entry, answer>> /\ UNCHANGED clientVars
    BY <1>9 DEF Serves
  <2>2. Requests' /\ \A b \in Browsers : SameRequest(b)
    BY <1>1, <2>1, RequestsStays
  <2>3. ASSUME NEW b \in Browsers
        PROVE  Told(b)'
    <3>1. SameClient(b)
      BY <2>1 DEF clientVars, SameClient
    <3> QED
      BY <1>1, <1>2, <2>1, <2>2, <3>1, ToldStays
  <2> QED
    BY <1>2, <2>2, <2>3 DEF Browsing
<1>10. ASSUME NEW c \in Connections, Breaks(c)
       PROVE  Browsing'
  <2>1. UNCHANGED <<sessionID, calling, failed, got>> /\ UNCHANGED requestVars
    BY <1>10 DEF Breaks, Client!Break
  <2> QED
    BY <1>3, <2>1 DEF SameClient
<1>11. ASSUME NEW b \in Browsers,
              \/ \E name \in Names : Request(b, name) /\ UNCHANGED kind
              \/ (Advance(b) \/ LookupLost(b)) /\ UNCHANGED kind
              \/ Collect(b)
       PROVE  Drives(b) /\ kind' = kind
  BY <1>11 DEF Drives, Collect, requestVars
<1> QED
  BY <1>4, <1>5, <1>6, <1>7, <1>8, <1>9, <1>10, <1>11, Zenon DEF BrowserNext

LEMMA BrowsingInit == BrowserInit => Browsing
<1> SUFFICES ASSUME BrowserInit
             PROVE  Browsing
  OBVIOUS
<1>1. (CHOOSE name \in Names : TRUE) \in Names
  BY BrowserAssumption
<1>2. Requests
  BY <1>1 DEF BrowserInit, Requests
<1>3. ASSUME NEW b \in Browsers
      PROVE  Told(b)
  <2>1. /\ phase[b] = "none" /\ entry[b] = NoEntry /\ answer[b] = {}
        /\ sessionID[b] = 0 /\ calling[b] = Client!NoCall
    BY BrowserAssumption DEF BrowserInit, Init, Client!ClientInit
  <2> QED
    BY <2>1 DEF Told
<1>4. posted = {}
  BY DEF BrowserInit, Init, Client!ClientInit
<1> QED
  BY <1>2, <1>3, <1>4 DEF Browsing

(***************************************************************************)
(* The sessions that were opened for a browser.                            *)
(***************************************************************************)
OnlyFor(b, s) == \A t \in Ids : opener[t] = b => t = s

NoneFor(b) == \A t \in Ids : opener[t] # b

OneFor(b) == \E s : OnlyFor(b, s)

\* An open threw: the entry says 0 and the client is connected, for ever.
Lost(b) ==
    /\ entry[b] = 0 /\ connected[b] /\ failed[b] /\ calling[b] = Client!NoCall
    /\ phase[b] \in {"none", "lookup", "lost", "connect", "accept"}
    /\ OneFor(b)

\* A call that waits for its session: it was opened already, or not, and the
\* connection may have broken.
Opening(b) ==
    /\ calling[b].op = "open" /\ entry[b] = 0
    /\ toServer[b] # <<>> => toServer[b][1] = Word("open")
    /\ toClient[b] = <<>>
    /\ sessionId[b] = 0 /\ NoneFor(b)

Opened(b) ==
    /\ calling[b].op = "open" /\ entry[b] = 0
    /\ toServer[b] = <<>>
    /\ toClient[b] # <<>> => Pair(toClient[b], Word("accepted"), IdLine(sessionId[b]))
    /\ sessionId[b] # 0 /\ OnlyFor(b, sessionId[b])

Resuming(b) ==
    /\ calling[b].op = "resume" /\ calling[b].id = entry[b]
    /\ entry[b] # 0 /\ OnlyFor(b, entry[b])

\* What the thread of a browser has to read: nothing, or one call whole.  An
\* open that it has not read opened nothing.
Waits(b) ==
    \/ toServer[b] = <<>>
    \/ /\ Len(toServer[b]) = 1 /\ toServer[b][1] = Word("open")
       /\ sessionId[b] = 0 /\ NoneFor(b)
       /\ \/ phase[b] = "accept" /\ calling[b] # Client!NoCall /\ Opening(b)
          \/ Lost(b)
    \/ Len(toServer[b]) = 2 /\ toServer[b][1] = Word("resume")
    \/ Len(toServer[b]) = 2 /\ toServer[b][1] = Word("get") /\ sessionId[b] # 0

\* At most one session is opened for a browser that is kept.
Held(b) ==
    /\ entry[b] = NoEntry => phase[b] \in {"none", "lookup", "lost", "connect"} /\ NoneFor(b)
    /\ phase[b] = "open" => sessionId[b] = 0 /\ NoneFor(b) /\ entry[b] = 0
    /\ phase[b] \in {"open", "resume"} => toServer[b] = <<>>
    /\ phase[b] \in {"open", "resume", "get", "content"} => OnlyFor(b, entry[b])
    /\ phase[b] \in {"none", "lookup", "lost", "connect"} => OnlyFor(b, entry[b]) \/ Lost(b)
    /\ phase[b] = "accept" /\ calling[b] # Client!NoCall
          => Opening(b) \/ Opened(b) \/ Resuming(b)
    /\ phase[b] = "accept" /\ calling[b] = Client!NoCall /\ failed[b]
          => OnlyFor(b, entry[b]) \/ Lost(b)
    /\ phase[b] = "accept" /\ calling[b] = Client!NoCall /\ ~failed[b]
          => /\ sessionId[b] # 0 /\ OnlyFor(b, sessionID[b])
             /\ entry[b] \in {0, sessionID[b]}
    /\ phase[b] \in {"get", "content"} => sessionId[b] # 0
    /\ phase[b] \in {"open", "resume", "accept", "get", "content"} => connected[b]
    /\ Waits(b)

SparesSessions(b) == \A t \in Ids : opener'[t] = b => opener[t] = b

LEMMA HeldStays ==
    ASSUME NEW b \in Connections, Held(b), Stays(b), SameRequest(b), SparesSessions(b)
    PROVE  Held(b)'
<1>1. NoneFor(b) => NoneFor(b)'
  BY Zenon DEF NoneFor, SparesSessions
<1>2. \A s : OnlyFor(b, s) => OnlyFor(b, s)'
  BY Zenon DEF OnlyFor, SparesSessions
<1>3. OneFor(b) => OneFor(b)'
  BY <1>2, Zenon DEF OneFor
<1>4. /\ Lost(b) => Lost(b)'
      /\ Opening(b) => Opening(b)'
      /\ Opened(b) => Opened(b)'
      /\ Resuming(b) => Resuming(b)'
  BY <1>1, <1>2, <1>3, Zenon DEF Lost, Opening, Opened, Resuming, Stays, SameRequest
<1>5. Waits(b) => Waits(b)'
  BY <1>1, <1>4, Zenon DEF Waits, Stays, SameRequest
<1> QED
  BY <1>1, <1>2, <1>4, <1>5, Zenon DEF Held, Stays, SameRequest, NoEntry

\* Between two requests, and when one fails.
LEMMA HeldPauses ==
    ASSUME NEW b, Held(b), NEW p \in {"none", "lookup", "lost", "connect"}, NEW e,
           phase'[b] = p, entry'[b] = e, opener' = opener,
           calling[b] = Client!NoCall, calling'[b] = Client!NoCall,
           toServer'[b] = toServer[b], sessionId'[b] = sessionId[b],
           connected'[b] = connected[b], failed'[b] = failed[b],
           e = NoEntry => NoneFor(b),
           OnlyFor(b, e) \/ Lost(b),
           Lost(b) => e = 0
    PROVE  Held(b)'
<1>1. /\ OnlyFor(b, e) => OnlyFor(b, e)'
      /\ NoneFor(b) => NoneFor(b)'
      /\ OneFor(b) => OneFor(b)'
  BY Zenon DEF OnlyFor, NoneFor, OneFor
<1>2. NoEntry' = NoEntry
  BY DEF NoEntry
<1>3. Lost(b) => Lost(b)'
  BY <1>1, Zenon DEF Lost
<1>4. Waits(b)'
  BY <1>1, <1>3, Zenon DEF Held, Waits
<1> QED
  BY <1>1, <1>2, <1>3, <1>4 DEF Held

\* Between two calls of a request, and when one is done.
LEMMA HeldQuiet ==
    ASSUME NEW b, NEW p, NEW e, NEW s,
           phase'[b] = p, entry'[b] = e, sessionId'[b] = s, opener' = opener,
           calling'[b] = Client!NoCall, toServer'[b] = <<>>,
           p \notin {"accept", "content"},
           e = NoEntry => p \in {"none", "lookup", "lost", "connect"} /\ NoneFor(b),
           p = "open" => s = 0 /\ NoneFor(b) /\ e = 0,
           p = "get" => s # 0,
           p \in {"open", "resume", "get"} => connected'[b],
           OnlyFor(b, e)
    PROVE  Held(b)'
<1>1. OnlyFor(b, e)' /\ (NoneFor(b) => NoneFor(b)')
  BY Zenon DEF OnlyFor, NoneFor
<1>2. NoEntry' = NoEntry
  BY DEF NoEntry
<1> QED
  BY <1>1, <1>2 DEF Held, Waits

\* A call that begins, on a connection that may be broken.
LEMMA CallBegins ==
    ASSUME GiveUp, Typed, NEW b \in Connections, InPhase(b),
           NEW op, NEW id, NEW name, NEW text, NEW lines \in Seq(Lines),
           Client!Calling(b, op, id, name, text, lines), UNCHANGED serverVars
    PROVE  /\ toServer'[b] \in {<<>>, <<Word(op)>> \o lines} /\ toClient'[b] = <<>>
           /\ sessionId'[b] = sessionId[b] /\ connected'[b]
           /\ calling'[b] # Client!NoCall
           /\ calling'[b].op = op /\ calling'[b].id = id
<1>1. Idle(b) /\ op \in Operations
  BY ReadyIsIdle DEF Client!Calling, Client!Ready
<1>2. PICK call : call = [op |-> op, id |-> id, name |-> name, text |-> text]
  BY Zenon
<1>3. calling' = [calling EXCEPT ![b] = call]
  BY <1>2, Zenon DEF Client!Calling
<1>4. calling'[b] = call
  BY <1>3 DEF Typed, Programs
<1>5. call.op = op /\ call.id = id
  BY <1>2
<1>6. op # "none" /\ Client!NoCall.op = "none"
  BY <1>1, ProgramAssumption DEF Commands, Client!NoCall
<1>7. connected'[b] /\ toClient'[b] = <<>>
  BY <1>1, Zenon DEF Client!Calling, Idle
<1>8. toServer'[b] \in {<<>>, <<Word(op)>> \o lines}
  <2>1. CASE thread[b] = "running"
    BY <2>1, CallingPhase
  <2>2. CASE thread[b] # "running"
    <3>1. toServer' = toServer
      BY <2>2, Zenon DEF Client!Calling, Client!Alive
    <3> QED
      BY <1>1, <3>1 DEF Idle
  <2> QED
    BY <2>1, <2>2
<1> QED
  BY <1>4, <1>5, <1>6, <1>7, <1>8 DEF serverVars

LEMMA CalledLines ==
    ASSUME NEW w \in Commands, NEW lines \in Seq(Lines)
    PROVE  /\ Len(<<Word(w)>> \o lines) = 1 + Len(lines)
           /\ (<<Word(w)>> \o lines)[1] = Word(w)
<1>1. PICK word \in Lines : word = Word(w)
  BY LineTypes
<1>2. Len(<<word>> \o lines) = 1 + Len(lines) /\ (<<word>> \o lines)[1] = word
  OBVIOUS
<1> QED
  BY <1>1, <1>2, Zenon

LEMMA HeldDrives ==
    ASSUME GiveUp, Typed, Phases, Browsing, NEW b \in Kept, Held(b), kind' = kind, Drives(b)
    PROVE  Held(b)'
<1> USE BrowserAssumption
<1>1. /\ b \in Browsers /\ b \in Connections /\ b \notin Pages /\ b \notin PerRequest
      /\ Requests /\ Told(b) /\ InPhase(b)
  BY DEF Kept, Pages, PerRequest, Browsing, Phases
<1>2. opener' = opener
  BY <1>1, DrivesTold
<1>3. ASSUME connected[b], calling[b] = Client!NoCall, ~failed[b]
      PROVE  toServer[b] = <<>>
  BY <1>1, <1>3, ReadyIsIdle DEF Idle
<1>4. /\ NoneFor(b) => \A s : OnlyFor(b, s)
      /\ NoEntry # 0 /\ NoEntry' = NoEntry
  <2>1. NoneFor(b) => \A s : OnlyFor(b, s)
    BY Zenon DEF NoneFor, OnlyFor
  <2> QED
    BY <2>1, ConnectionAssumption DEF NoEntry
<1>5. ASSUME NEW p \in {"none", "lookup", "lost", "connect"}, NEW e,
             phase'[b] = p, entry'[b] = e, UNCHANGED vars, calling[b] = Client!NoCall,
             e = NoEntry => NoneFor(b), OnlyFor(b, e) \/ Lost(b), Lost(b) => e = 0
      PROVE  Held(b)'
  BY <1>2, <1>5, HeldPauses DEF vars, streams, serverVars, clientVars
<1>6. ASSUME NEW p \in {"none", "lookup", "lost", "connect"}, phase'[b] = p, entry'[b] = entry[b],
             phase[b] \in {"none", "lookup", "lost", "connect"},
             UNCHANGED <<calling, toServer, sessionId, connected, failed>>
      PROVE  Held(b)'
  <2>1. /\ calling[b] = Client!NoCall /\ (entry[b] = NoEntry => NoneFor(b))
        /\ OnlyFor(b, entry[b]) \/ Lost(b)
        /\ Lost(b) => entry[b] = 0
    BY <1>1, <1>6 DEF Told, Held, Lost
  <2>2. PICK e : e = entry[b]
    OBVIOUS
  <2> QED
    BY <1>2, <1>6, <2>1, <2>2, HeldPauses
<1>7. CASE \E name \in Names : Request(b, name)
  <2>1. /\ phase[b] = "none" /\ phase'[b] = "lookup" /\ entry'[b] = entry[b]
        /\ UNCHANGED <<calling, toServer, sessionId, connected, failed>>
    BY <1>1, <1>7 DEF Request, Goes, Requests, streams, serverVars
  <2> QED
    BY <1>6, <2>1
<1>8. CASE LookupSucceeds(b) \/ LookupFails(b) \/ LookupLost(b)
  <2>1. /\ phase[b] = "lookup" /\ phase'[b] \in {"connect", "none", "lost"}
        /\ entry'[b] = entry[b]
        /\ UNCHANGED <<calling, toServer, sessionId, connected, failed>>
    BY <1>1, <1>8 DEF LookupSucceeds, LookupFails, LookupLost, Fails, Goes, Requests, vars,
                      streams, serverVars, clientVars
  <2> QED
    BY <1>6, <2>1
<1>9. phase[b] = "connect" =>
        /\ WithEntry(b) # NoEntry
        /\ OnlyFor(b, WithEntry(b)) \/ Lost(b)
        /\ Lost(b) => WithEntry(b) = 0
        /\ calling[b] = Client!NoCall
        /\ entry[b] = NoEntry => NoneFor(b) /\ WithEntry(b) = 0
  BY <1>1, <1>4 DEF WithEntry, Held, Lost, Told
<1>10. CASE ConnectFails(b)
  <2>1. /\ phase[b] = "connect" /\ phase'[b] = "none" /\ entry'[b] = WithEntry(b) /\ UNCHANGED vars
    BY <1>1, <1>10 DEF ConnectFails, Fails, Goes, Requests
  <2>2. PICK e : e = WithEntry(b)
    OBVIOUS
  <2> QED
    BY <1>5, <1>9, <2>1, <2>2
<1>11. CASE ConnectSucceeds(b)
  <2>1. /\ phase[b] = "connect" /\ entry'[b] = WithEntry(b) /\ ~connected[b] /\ connected'[b]
        /\ toServer'[b] = <<>> /\ sessionId'[b] = 0 /\ calling' = calling
    BY <1>1, <1>11 DEF ConnectSucceeds, Connect, Requests, Typed, Wires, ServerTypeOK, clientVars
  <2>2. PICK p \in {"open", "resume"} : phase'[b] = p /\ (p = "open" <=> entry[b] = NoEntry)
    <3>1. phase'[b] = IF entry[b] = NoEntry THEN "open" ELSE "resume"
      BY <1>1, <1>11 DEF ConnectSucceeds, Goes, Requests
    <3> QED
      BY <3>1
  <2>3. calling'[b] = Client!NoCall /\ (p = "open" => NoneFor(b) /\ WithEntry(b) = 0)
    BY <1>9, <2>1, <2>2
  <2>4. OnlyFor(b, WithEntry(b))
    BY <1>9, <2>1 DEF Lost
  <2>5. PICK e : e = WithEntry(b)
    OBVIOUS
  <2> QED
    BY <1>2, <1>9, <2>1, <2>2, <2>3, <2>4, <2>5, HeldQuiet
<1>12. CASE Opens(b)
  <2>1. /\ phase[b] = "open" /\ phase'[b] = "accept" /\ entry' = entry
        /\ Client!OpenSession(b) /\ UNCHANGED serverVars
    BY <1>1, <1>12 DEF Opens, Goes, Requests
  <2>2. PICK lines : lines = <<>>
    OBVIOUS
  <2>3. PICK id, name, text : Client!Calling(b, "open", id, name, text, lines)
    BY <2>1, <2>2, Zenon DEF Client!OpenSession
  <2>4. lines \in Seq(Lines) /\ Len(lines) = 0
    BY <2>2
  <2>5. /\ toServer'[b] \in {<<>>, <<Word("open")>> \o lines} /\ toClient'[b] = <<>>
        /\ sessionId'[b] = sessionId[b] /\ connected'[b]
        /\ calling'[b] # Client!NoCall /\ calling'[b].op = "open"
    BY <1>1, <2>1, <2>3, <2>4, CallBegins
  <2>6. toServer'[b] = <<>> \/ (Len(toServer'[b]) = 1 /\ toServer'[b][1] = Word("open"))
    <3>1. /\ Len(<<Word("open")>> \o lines) = 1 + Len(lines)
          /\ (<<Word("open")>> \o lines)[1] = Word("open")
      BY <2>4, CalledLines DEF Commands
    <3> QED
      BY <2>4, <2>5, <3>1
  <2>7. sessionId[b] = 0 /\ NoneFor(b) /\ entry[b] = 0
    BY <2>1 DEF Held
  <2>8. NoneFor(b)'
    BY <1>2, <2>7, Zenon DEF NoneFor
  <2>9. Opening(b)'
    BY <2>1, <2>5, <2>6, <2>7, <2>8, Zenon DEF Opening
  <2>10. Waits(b)'
    BY <2>1, <2>5, <2>6, <2>7, <2>8, <2>9, Zenon DEF Waits
  <2> QED
    BY <1>4, <2>1, <2>5, <2>7, <2>9, <2>10, Zenon DEF Held
<1>13. CASE Resumes(b)
  <2>1. CASE /\ phase[b] = "resume" /\ phase'[b] = "none" /\ UNCHANGED vars /\ entry' = entry
    <3>1. /\ calling[b] = Client!NoCall /\ OnlyFor(b, entry[b]) /\ entry[b] # NoEntry
          /\ ~Lost(b)
      BY <1>1, <2>1 DEF Told, Held, Lost
    <3>2. PICK e : e = entry[b]
      OBVIOUS
    <3> QED
      BY <1>5, <2>1, <3>1, <3>2
  <2>2. CASE /\ phase[b] = "resume" /\ phase'[b] = "accept" /\ entry' = entry /\ entry[b] # 0
             /\ Client!ResumeSession(b, entry[b]) /\ UNCHANGED serverVars
    <3>1. entry[b] \in AnyId
      BY <1>1, <2>2 DEF Told
    <3>2. PICK line : line = Client!IdLine(entry[b])
      OBVIOUS
    <3>3. PICK lines : lines = <<line>>
      OBVIOUS
    <3>4. PICK name, text : Client!Calling(b, "resume", entry[b], name, text, lines)
      BY <2>2, <3>2, <3>3, Zenon DEF Client!ResumeSession
    <3>5. lines \in Seq(Lines) /\ Len(lines) = 1
      <4>1. lines = <<Client!IdLine(entry[b])>>
        BY <3>2, <3>3, Zenon
      <4>2. lines \in Seq(Lines)
        BY <3>1, <4>1, LinesTyped, Zenon
      <4> QED
        BY <3>3, <4>2
    <3>6. /\ toServer'[b] \in {<<>>, <<Word("resume")>> \o lines} /\ connected'[b]
          /\ calling'[b] # Client!NoCall /\ calling'[b].op = "resume" /\ calling'[b].id = entry[b]
      BY <1>1, <2>2, <3>4, <3>5, CallBegins
    <3>7. toServer'[b] = <<>> \/ (Len(toServer'[b]) = 2 /\ toServer'[b][1] = Word("resume"))
      <4>1. /\ Len(<<Word("resume")>> \o lines) = 1 + Len(lines)
            /\ (<<Word("resume")>> \o lines)[1] = Word("resume")
        BY <3>5, CalledLines DEF Commands
      <4>2. Len(<<Word("resume")>> \o lines) = 2
        BY <3>5, <4>1
      <4> QED
        BY <3>6, <4>1, <4>2, Zenon
    <3>8. OnlyFor(b, entry[b]) /\ entry[b] # NoEntry
      BY <2>2 DEF Held
    <3>9. Resuming(b)'
      BY <1>2, <2>2, <3>6, <3>8, Zenon DEF Resuming, OnlyFor
    <3>10. Waits(b)'
      BY <3>7, Zenon DEF Waits
    <3> QED
      BY <1>4, <2>2, <3>6, <3>8, <3>9, <3>10, Zenon DEF Held
  <2>3. /\ phase[b] = "resume" /\ entry' = entry
        /\ \/ phase'[b] = "none" /\ UNCHANGED vars
           \/ /\ phase'[b] = "accept" /\ entry[b] # 0
              /\ Client!ResumeSession(b, entry[b]) /\ UNCHANGED serverVars
    BY <1>1, <1>13 DEF Resumes, Fails, Goes, Requests, vars
  <2> QED
    BY <2>1, <2>2, <2>3
<1>14. CASE Accept(b)
  <2>1. phase[b] = "accept" /\ calling[b] = Client!NoCall /\ UNCHANGED vars
    BY <1>14 DEF Accept
  <2>2. CASE failed[b] /\ phase'[b] = "none" /\ entry' = entry
    <3>1. /\ OnlyFor(b, entry[b]) \/ Lost(b)
          /\ entry[b] # NoEntry /\ (Lost(b) => entry[b] = 0)
      BY <2>1, <2>2 DEF Held, Lost
    <3>2. PICK e : e = entry[b]
      OBVIOUS
    <3> QED
      BY <1>5, <2>1, <2>2, <3>1, <3>2
  <2>3. CASE ~failed[b] /\ phase'[b] = "get" /\ entry'[b] = sessionID[b]
    <3>1. OnlyFor(b, sessionID[b]) /\ sessionId[b] # 0 /\ connected[b]
      BY <2>1, <2>3 DEF Held
    <3>2. sessionID[b] # NoEntry
      BY <1>1, ConnectionAssumption DEF Typed, Programs, AnyId, Ids, NoEntry
    <3>3. PICK s, e : s = sessionId[b] /\ e = sessionID[b]
      OBVIOUS
    <3>4. /\ toServer'[b] = <<>> /\ calling'[b] = Client!NoCall
          /\ sessionId'[b] = sessionId[b] /\ connected'[b]
      BY <1>3, <2>1, <2>3, <3>1 DEF vars, streams, serverVars, clientVars
    <3> QED
      BY <1>2, <2>3, <3>1, <3>2, <3>3, <3>4, HeldQuiet
  <2>4. \/ failed[b] /\ phase'[b] = "none" /\ entry' = entry
        \/ ~failed[b] /\ phase'[b] = "get" /\ entry'[b] = sessionID[b]
    BY <1>1, <1>14 DEF Accept, Fails, Goes, IdOf, Requests
  <2> QED
    BY <2>2, <2>3, <2>4
<1>15. CASE GetDocument(b)
  <2>1. /\ phase[b] = "get" /\ phase'[b] = "content" /\ entry' = entry
        /\ Client!GetDocument(b, asked[b]) /\ UNCHANGED serverVars
    BY <1>1, <1>15 DEF GetDocument, Goes, Requests
  <2>2. PICK line : line = Client!Word(asked[b])
    OBVIOUS
  <2>3. PICK lines : lines = <<line>>
    OBVIOUS
  <2>4. PICK id, name, text : Client!Calling(b, "get", id, name, text, lines)
    BY <2>1, <2>2, <2>3, Zenon DEF Client!GetDocument
  <2>5. lines \in Seq(Lines) /\ Len(lines) = 1
    <3>1. lines = <<Client!Word(asked[b])>> /\ asked[b] \in Names
      BY <1>1, <2>2, <2>3 DEF Requests
    <3>2. lines \in Seq(Lines)
      BY <3>1, LinesTyped, Zenon
    <3> QED
      BY <2>3, <3>2
  <2>6. /\ toServer'[b] \in {<<>>, <<Word("get")>> \o lines}
        /\ sessionId'[b] = sessionId[b] /\ connected'[b] /\ calling'[b] # Client!NoCall
    BY <1>1, <2>1, <2>4, <2>5, CallBegins
  <2>7. toServer'[b] = <<>> \/ (Len(toServer'[b]) = 2 /\ toServer'[b][1] = Word("get"))
    <3>1. /\ Len(<<Word("get")>> \o lines) = 1 + Len(lines)
          /\ (<<Word("get")>> \o lines)[1] = Word("get")
      BY <2>5, CalledLines DEF Commands
    <3>2. Len(<<Word("get")>> \o lines) = 2
      BY <2>5, <3>1
    <3> QED
      BY <2>6, <3>1, <3>2, Zenon
  <2>8. OnlyFor(b, entry[b]) /\ entry[b] # NoEntry /\ sessionId[b] # 0
    BY <2>1 DEF Held
  <2>9. OnlyFor(b, entry[b])'
    BY <1>2, <2>1, <2>8, Zenon DEF OnlyFor
  <2>10. Waits(b)'
    BY <2>6, <2>7, <2>8, Zenon DEF Waits
  <2> QED
    BY <1>4, <2>1, <2>6, <2>8, <2>9, <2>10, Zenon DEF Held
<1>16. CASE Return(b)
  <2>1. /\ phase[b] = "content" /\ phase'[b] = "none" /\ entry' = entry
        /\ calling[b] = Client!NoCall
    BY <1>1, <1>16 DEF Return, Fails, Goes, Requests
  <2>2. OnlyFor(b, entry[b]) /\ entry[b] # NoEntry /\ connected[b] /\ ~Lost(b)
    BY <2>1 DEF Held, Lost
  <2>3. PICK e : e = entry[b]
    OBVIOUS
  <2>4. CASE UNCHANGED vars
    BY <1>5, <2>1, <2>2, <2>3, <2>4
  <2>5. CASE ~failed[b] /\ Client!Disconnect(b)
    <3>1. toServer'[b] = <<>> /\ calling'[b] = Client!NoCall
      BY <1>1, <1>3, <2>1, <2>2, <2>5 DEF Client!Disconnect, Client!Leaves, Typed, Programs
    <3>2. PICK s : s = sessionId'[b]
      OBVIOUS
    <3> QED
      BY <1>2, <2>1, <2>2, <2>3, <3>1, <3>2, HeldQuiet
  <2> QED
    BY <1>1, <1>16, <2>4, <2>5 DEF Return
<1>17. ~Collect(b)
  BY <1>1 DEF Collect
<1> QED
  BY <1>7, <1>8, <1>10, <1>11, <1>12, <1>13, <1>14, <1>15, <1>16, <1>17, Zenon
     DEF Drives, Advance

LEMMA HeldReceives ==
    ASSUME GiveUp, Typed, Phases, Browsing, NEW b \in Kept, Held(b), Receives(b)
    PROVE  Held(b)'
<1> USE BrowserAssumption
<1>1. /\ b \in Browsers /\ b \in Connections /\ b \notin Pages
      /\ Requests /\ Told(b) /\ InPhase(b)
  BY DEF Kept, Pages, Browsing, Phases
<1>2. /\ UNCHANGED <<connected, thread, toServer, sessionId>>
      /\ UNCHANGED <<phase, asked, entry, answer, opener>>
  BY DEF Receives, requestVars, serverVars, Client!Receive, Client!ReceiveResponse,
         Client!ReceiveNothing
<1>3. calling[b] # Client!NoCall /\ calling' = [calling EXCEPT ![b] = Client!NoCall]
  BY Zenon DEF Receives, Client!Receive, Client!ReceiveResponse, Client!ReceiveNothing
<1>4. calling'[b] = Client!NoCall
  BY <1>1, <1>3 DEF Typed, Programs
<1>5. \/ /\ toClient[b] # <<>>
         /\ \/ Client!Succeeds(b, toClient[b])
            \/ ~Client!Understood(b, toClient[b]) /\ Client!Throws(b)
      \/ /\ toClient[b] # <<>> => Len(toClient[b]) < Client!Reads(calling[b].op, toClient[b])
         /\ Client!Throws(b)
  BY Zenon DEF Receives, Client!Receive, Client!ReceiveResponse, Client!ReceiveNothing,
               Client!Incomplete
<1>6. /\ \A s : OnlyFor(b, s) => OnlyFor(b, s)'
      /\ NoneFor(b) => NoneFor(b)'
      /\ NoEntry' = NoEntry
  BY <1>2, Zenon DEF OnlyFor, NoneFor, NoEntry
<1>7. phase[b] \in {"accept", "content"} /\ ~Lost(b)
  BY <1>1, <1>3 DEF Told, Lost
<1>8. entry[b] # NoEntry /\ connected[b] /\ Waits(b)
  BY <1>7 DEF Held
<1>9. ~Opening(b) \/ phase[b] # "accept" => Waits(b)'
  BY <1>2, <1>7, <1>8, Zenon DEF Waits
<1>10. CASE phase[b] = "content"
  <2>1. OnlyFor(b, entry[b]) /\ sessionId[b] # 0
    BY <1>10 DEF Held
  <2> QED
    BY <1>2, <1>6, <1>8, <1>9, <1>10, <2>1, Zenon DEF Held
<1>11. ASSUME phase[b] = "accept", Waits(b)',
              failed'[b] => OnlyFor(b, entry[b]) \/ Lost(b)',
              ~failed'[b] => /\ sessionId[b] # 0 /\ OnlyFor(b, sessionID'[b])
                             /\ entry[b] \in {0, sessionID'[b]}
       PROVE  Held(b)'
  <2>1. OnlyFor(b, sessionID'[b]) => OnlyFor(b, sessionID[b])'
    BY <1>2, Zenon DEF OnlyFor
  <2> QED
    BY <1>2, <1>4, <1>6, <1>8, <1>11, <2>1, Zenon DEF Held
<1>12. Client!Throws(b) => failed'[b]
  BY <1>1 DEF Client!Throws, Typed, Programs
<1>13. ASSUME entry[b] = 0, OneFor(b), Client!Throws(b), phase[b] = "accept"
       PROVE  Lost(b)'
  <2>1. OneFor(b)'
    BY <1>6, <1>13, Zenon DEF OneFor
  <2> QED
    BY <1>2, <1>4, <1>8, <1>12, <1>13, <2>1, Zenon DEF Lost
<1>14. CASE phase[b] = "accept" /\ Opening(b)
  <2>1. Client!Throws(b) /\ entry[b] = 0 /\ sessionId[b] = 0 /\ NoneFor(b)
    BY <1>5, <1>14, Zenon DEF Opening
  <2>2. OneFor(b)
    BY <2>1, Zenon DEF OneFor, OnlyFor, NoneFor
  <2>3. Lost(b)'
    BY <1>13, <1>14, <2>1, <2>2
  <2>4. Waits(b)'
    BY <1>2, <1>6, <1>8, <2>1, <2>3, Zenon DEF Waits
  <2> QED
    BY <1>11, <1>12, <1>14, <2>1, <2>3, <2>4
<1>15. CASE phase[b] = "accept" /\ Opened(b)
  <2>1. /\ entry[b] = 0 /\ sessionId[b] # 0 /\ OnlyFor(b, sessionId[b])
        /\ toServer[b] = <<>> /\ toServer'[b] = <<>>
    BY <1>2, <1>15 DEF Opened
  <2>2. Waits(b)'
    BY <2>1, Zenon DEF Waits
  <2>3. CASE Client!Throws(b)
    <3>1. OneFor(b)
      BY <2>1, Zenon DEF OneFor
    <3> QED
      BY <1>11, <1>12, <1>13, <1>15, <2>1, <2>2, <2>3, <3>1
  <2>4. CASE Client!Succeeds(b, toClient[b]) /\ toClient[b] # <<>>
    <3>1. toClient[b] \in Seq(Lines) /\ sessionId[b] \in AnyId
      BY <1>1 DEF Typed, Wires, ServerTypeOK
    <3>2. toClient[b][2][2] = sessionId[b] /\ calling[b].op = "open"
      BY <1>15, <2>4, <3>1, LinesDiffer DEF Opened, Pair
    <3>3. Client!SessionAfter(b, toClient[b]) = sessionId[b]
      BY <3>2 DEF Client!SessionAfter
    <3>4. sessionID'[b] = sessionId[b] /\ ~failed'[b]
      BY <1>1, <2>4, <3>3 DEF Client!Succeeds, Typed, Programs
    <3> QED
      BY <1>11, <1>15, <2>1, <2>2, <3>4
  <2> QED
    BY <1>5, <2>3, <2>4
<1>16. CASE phase[b] = "accept" /\ Resuming(b)
  <2>1. calling[b].op = "resume" /\ calling[b].id = entry[b] /\ entry[b] # 0
        /\ OnlyFor(b, entry[b])
    BY <1>16 DEF Resuming
  <2>2. Waits(b)'
    BY <1>9, <2>1 DEF Opening
  <2>3. CASE Client!Throws(b)
    BY <1>11, <1>12, <1>16, <2>1, <2>2, <2>3
  <2>4. CASE Client!Succeeds(b, toClient[b]) /\ toClient[b] # <<>>
    <3>1. Client!Understood(b, toClient[b])
      BY <2>4 DEF Client!Succeeds
    <3>2. ~Doomed(b)
      BY <1>3, <2>4, <3>1, RefusalNotUnderstood, <1>1, Zenon DEF Doomed
    <3>3. Answered(b)
      BY <1>1, <1>3, <2>4, <3>2, Zenon DEF InPhase, Gone, Idle, Asking, Severed
    <3>4. /\ Pair(toClient[b], Word("accepted"), IdLine(entry[b]))
          /\ sessionId[b] = entry[b]
      BY <2>1, <3>3 DEF Answered, Granted
    <3>5. entry[b] \in AnyId
      BY <1>1, <1>16 DEF Told
    <3>6. Client!SessionAfter(b, toClient[b]) = entry[b]
      <4>1. toClient[b][2][2] = entry[b]
        BY <3>4, <3>5, LinesDiffer DEF Pair
      <4> QED
        BY <2>1, <4>1 DEF Client!SessionAfter
    <3>7. sessionID'[b] = entry[b] /\ ~failed'[b]
      BY <1>1, <2>4, <3>6 DEF Client!Succeeds, Typed, Programs
    <3> QED
      BY <1>11, <1>16, <2>1, <2>2, <3>4, <3>7
  <2> QED
    BY <1>5, <2>3, <2>4
<1>17. phase[b] = "accept" => Opening(b) \/ Opened(b) \/ Resuming(b)
  BY <1>3, Zenon DEF Held
<1> QED
  BY <1>7, <1>10, <1>14, <1>15, <1>16, <1>17

\* A connection that breaks under at most two lines loses none of them, and
\* at most the reply.
LEMMA HeldBreaks ==
    ASSUME Typed, NEW b \in Kept, Held(b), Breaks(b)
    PROVE  Held(b)'
<1> USE BrowserAssumption
<1>1. b \in Connections /\ toServer[b] \in Seq(Lines)
  BY DEF Kept, Typed, Wires
<1>2. /\ UNCHANGED <<connected, sessionID, calling, failed>>
      /\ UNCHANGED <<phase, entry, opener, sessionId>>
  BY DEF Breaks, requestVars, serverVars, Client!Break
<1>3. ~(3 <= Len(toServer[b]))
  <2>1. Len(toServer[b]) \in {0, 1, 2}
    BY <1>1 DEF Held, Waits
  <2>2. ~(3 <= 0) /\ ~(3 <= 1) /\ ~(3 <= 2)
    OBVIOUS
  <2> QED
    BY <2>1, <2>2, Zenon
<1>4. toServer'[b] = toServer[b]
  <2>1. PICK n \in {3, Len(toServer[b])} :
            /\ n <= Len(toServer[b])
            /\ toServer' = [toServer EXCEPT ![b] = SubSeq(@, 1, n)]
    BY DEF Breaks, Client!Break
  <2>2. n = Len(toServer[b])
    <3>1. n # 3
      BY <1>3, <2>1, Zenon
    <3> QED
      BY <3>1, Zenon
  <2>3. SubSeq(toServer[b], 1, Len(toServer[b])) = toServer[b]
    BY <1>1
  <2>4. toServer'[b] = SubSeq(toServer[b], 1, n)
    BY <1>1, <2>1 DEF Typed, Wires
  <2> QED
    BY <2>2, <2>3, <2>4, Zenon
<1>5. toClient'[b] = <<>> \/ toClient'[b] = toClient[b]
  <2>1. \E reply \in {<<>>, toClient[b]} : toClient' = [toClient EXCEPT ![b] = reply]
    BY Zenon DEF Breaks, Client!Break
  <2> QED
    BY <1>1, <2>1 DEF Typed, Wires
<1>6. /\ NoneFor(b) => NoneFor(b)'
      /\ \A s : OnlyFor(b, s) => OnlyFor(b, s)'
  BY <1>2, Zenon DEF NoneFor, OnlyFor
<1>7. OneFor(b) => OneFor(b)'
  BY <1>6, Zenon DEF OneFor
<1>8. /\ Lost(b) => Lost(b)'
      /\ Opening(b) => Opening(b)'
      /\ Opened(b) => Opened(b)'
      /\ Resuming(b) => Resuming(b)'
  BY <1>2, <1>4, <1>5, <1>6, <1>7, Zenon DEF Lost, Opening, Opened, Resuming
<1>9. Waits(b) => Waits(b)'
  BY <1>2, <1>4, <1>6, <1>8, Zenon DEF Waits
<1> QED
  BY <1>2, <1>4, <1>6, <1>8, <1>9, Zenon DEF Held, NoEntry

\* The thread of a connection whose lines are all read has nothing to do.
LEMMA NothingToServe ==
    ASSUME NEW b \in Connections, toServer[b] = <<>>, Serve(b)
    PROVE  EndOfStream(b)
<1>1. ASSUME NEW w, NEW n \in Nat, n >= 1
      PROVE  ~Command(b, w, n)
  <2>1. Len(toServer[b]) = 0
    OBVIOUS
  <2>2. ~(0 >= n)
    BY <1>1
  <2> QED
    BY <2>1, <2>2, Zenon DEF Command
<1>2. /\ ~Command(b, "open", 1) /\ ~Command(b, "resume", 2) /\ ~Command(b, "close", 2)
      /\ ~Command(b, "get", 1) /\ ~Command(b, "get", 2)
      /\ ~Command(b, "post", 2) /\ ~Command(b, "post", 3)
  BY <1>1
<1>3. ~Handle(b)
  BY <1>2, Zenon DEF Handle, HandleOpen, HandleResume, HandleClose, HandleGet, HandlePost
<1>4. ~HandleOther(b)
  BY Zenon DEF HandleOther
<1> QED
  BY <1>3, <1>4 DEF Serve

\* A command is read by the handler for it.
LEMMA OneHandler ==
    ASSUME NEW b \in Connections, NEW w \in Commands, toServer[b] # <<>>,
           toServer[b][1] = Word(w), Handle(b) \/ HandleOther(b)
    PROVE  /\ w = "open" => HandleOpen(b)
           /\ w = "resume" => HandleResume(b)
           /\ w = "get" => HandleGet(b)
<1>1. ASSUME NEW v, NEW n, Command(b, v, n)
      PROVE  v = w
  BY <1>1, LinesDiffer DEF Command
<1>2. /\ HandleOpen(b) => w = "open"
      /\ HandleResume(b) => w = "resume"
      /\ HandleClose(b) => w = "close"
      /\ HandleGet(b) => w = "get"
      /\ HandlePost(b) => w = "post"
  BY <1>1, Zenon DEF HandleOpen, HandleResume, HandleClose, HandleGet, HandlePost
<1>3. ~HandleOther(b)
  BY DEF HandleOther
<1> QED
  BY <1>2, <1>3 DEF Handle

LEMMA OpenIsRead ==
    ASSUME Typed, NEW b \in Connections, Len(toServer[b]) = 1, HandleOpen(b), sessionId[b] = 0
    PROVE  /\ toServer'[b] = <<>> /\ sessionId'[b] = nextSessionId
           /\ \/ toClient'[b] = toClient[b]
              \/ /\ toClient[b] = <<>>
                    => Pair(toClient'[b], Word("accepted"), IdLine(nextSessionId))
<1>1. Wires /\ sessionId \in [Connections -> AnyId]
  BY DEF Typed, ServerTypeOK
<1>2. /\ sessionId' = [sessionId EXCEPT ![b] = nextSessionId]
      /\ nextSessionId <= MaxSessions
      /\ Exchange(b, 1, Accepted(nextSessionId))
  BY Zenon DEF HandleOpen, OpenSession
<1>3. toServer'[b] = <<>>
  BY <1>1, <1>2, WholeLeavesNothing
<1>4. nextSessionId \in AnyId
  BY <1>2, ConnectionAssumption DEF Typed, ServerTypeOK, AnyId, Ids
<1>5. PICK reply \in Seq(Lines) : reply = Accepted(nextSessionId)
  BY <1>4, RepliesTyped
<1>6. \/ toClient' = toClient
      \/ toClient' = [toClient EXCEPT ![b] = toClient[b] \o reply]
  BY <1>2, <1>5, Zenon DEF Exchange
<1>7. toClient[b] = <<>> => toClient[b] \o reply = reply
  OBVIOUS
<1>8. \/ toClient'[b] = toClient[b]
      \/ toClient[b] = <<>> => toClient'[b] = reply
  BY <1>1, <1>6, <1>7, Zenon DEF Wires
<1>9. Pair(reply, Word("accepted"), IdLine(nextSessionId))
  BY <1>5, ReplyShapes
<1> QED
  BY <1>1, <1>2, <1>3, <1>8, <1>9

LEMMA ResumeIsRead ==
    ASSUME Typed, NEW b \in Connections, Len(toServer[b]) = 2, HandleResume(b)
    PROVE  /\ toServer'[b] = <<>> /\ nextSessionId' = nextSessionId
           /\ sessionId[b] # 0 => sessionId'[b] = sessionId[b]
<1>1. Wires
  BY DEF Typed
<1>2. /\ \E reply : Exchange(b, 2, reply)
      /\ nextSessionId' = nextSessionId
      /\ sessionId[b] # 0 => sessionId' = sessionId
  BY Zenon DEF HandleResume, ResumeSession, RejectSession, Refuse, store
<1> QED
  BY <1>1, <1>2, WholeLeavesNothing

LEMMA GetIsRead ==
    ASSUME Typed, NEW b \in Connections, Len(toServer[b]) = 2, HandleGet(b), sessionId[b] # 0
    PROVE  toServer'[b] = <<>> /\ sessionId' = sessionId /\ nextSessionId' = nextSessionId
<1>1. Wires
  BY DEF Typed
<1>2. /\ \E reply : Exchange(b, 2, reply)
      /\ sessionId' = sessionId /\ nextSessionId' = nextSessionId
  BY Zenon DEF HandleGet, Refuse, store
<1> QED
  BY <1>1, <1>2, WholeLeavesNothing

LEMMA HeldServes ==
    ASSUME Typed, Phases, Browsing, NEW b \in Kept, Held(b), Serves(b)
    PROVE  Held(b)'
<1> USE BrowserAssumption
<1>1. b \in Browsers /\ b \in Connections /\ Waits(b)
  BY DEF Kept, Held
<1>2. /\ UNCHANGED <<calling, failed, sessionID, phase, entry, connected>>
      /\ opener' = [s \in Ids |->
            IF s = nextSessionId /\ nextSessionId' # nextSessionId THEN b ELSE opener[s]]
      /\ Serve(b)
  BY DEF Serves, Serve, Handle, HandleOther, EndOfStream, clientVars
<1>3. NoEntry' = NoEntry
  BY DEF NoEntry
<1>4. ASSUME nextSessionId' = nextSessionId
      PROVE  /\ NoneFor(b) => NoneFor(b)'
             /\ \A s : OnlyFor(b, s) => OnlyFor(b, s)'
             /\ Lost(b) => Lost(b)'
             /\ Resuming(b) => Resuming(b)'
  <2>1. \A t \in Ids : opener'[t] = opener[t]
    BY <1>2, <1>4
  <2>2. /\ NoneFor(b) => NoneFor(b)'
        /\ \A s : OnlyFor(b, s) => OnlyFor(b, s)'
    BY <2>1, Zenon DEF NoneFor, OnlyFor
  <2>3. OneFor(b) => OneFor(b)'
    BY <2>2, Zenon DEF OneFor
  <2> QED
    BY <1>2, <2>2, <2>3, Zenon DEF Lost, Resuming
<1>5. CASE EndOfStream(b)
  <2>1. /\ toServer' = [toServer EXCEPT ![b] = <<>>]
        /\ UNCHANGED <<sessionId, toClient, nextSessionId>>
    BY <1>5 DEF EndOfStream, store
  <2>2. toServer'[b] = <<>>
    BY <1>1, <2>1 DEF Typed, Wires
  <2>3. /\ Opening(b) => Opening(b)'
        /\ Opened(b) => Opened(b)'
    BY <1>2, <1>4, <2>1, <2>2, Zenon DEF Opening, Opened
  <2>4. Waits(b)'
    BY <2>2, Zenon DEF Waits
  <2> QED
    BY <1>2, <1>3, <1>4, <2>1, <2>2, <2>3, <2>4, Zenon DEF Held
<1>6. ASSUME toServer[b] # <<>>, toServer[b][1] # Word("open"),
             toServer'[b] = <<>>, nextSessionId' = nextSessionId,
             sessionId[b] # 0 => sessionId'[b] = sessionId[b]
      PROVE  Held(b)'
  <2>1. ~Opening(b) /\ ~Opened(b)
    BY <1>6 DEF Opening, Opened
  <2>2. Waits(b)'
    BY <1>6, Zenon DEF Waits
  <2> QED
    BY <1>2, <1>3, <1>4, <1>6, <2>1, <2>2, Zenon DEF Held
<1>7. CASE Handle(b) \/ HandleOther(b)
  <2>1. toServer[b] # <<>>
    <3>1. Wires
      BY DEF Typed
    <3> QED
      BY <1>1, <1>7, <3>1, CommandArrived, Zenon DEF HandleOther
  <2>2. Word("open") # Word("resume") /\ Word("open") # Word("get")
    <3>1. "open" # "resume" /\ "open" # "get"
      OBVIOUS
    <3> QED
      BY <3>1, LinesDiffer, Zenon
  <2>3. CASE Len(toServer[b]) = 2 /\ toServer[b][1] = Word("resume")
    <3>1. HandleResume(b)
      BY <1>1, <1>7, <2>1, <2>3, OneHandler DEF Commands
    <3>2. /\ toServer'[b] = <<>> /\ nextSessionId' = nextSessionId
          /\ sessionId[b] # 0 => sessionId'[b] = sessionId[b]
      BY <1>1, <2>3, <3>1, ResumeIsRead
    <3> QED
      BY <1>6, <2>1, <2>2, <2>3, <3>2
  <2>4. CASE Len(toServer[b]) = 2 /\ toServer[b][1] = Word("get") /\ sessionId[b] # 0
    <3>1. HandleGet(b)
      BY <1>1, <1>7, <2>1, <2>4, OneHandler DEF Commands
    <3>2. toServer'[b] = <<>> /\ sessionId' = sessionId /\ nextSessionId' = nextSessionId
      BY <1>1, <2>4, <3>1, GetIsRead
    <3> QED
      BY <1>6, <2>1, <2>2, <2>4, <3>2
  <2>5. CASE /\ Len(toServer[b]) = 1 /\ toServer[b][1] = Word("open")
             /\ sessionId[b] = 0 /\ NoneFor(b)
             /\ \/ phase[b] = "accept" /\ calling[b] # Client!NoCall /\ Opening(b)
                \/ Lost(b)
    <3>1. HandleOpen(b)
      BY <1>1, <1>7, <2>1, <2>5, OneHandler DEF Commands
    <3>2. /\ toServer'[b] = <<>> /\ sessionId'[b] = nextSessionId
          /\ \/ toClient'[b] = toClient[b]
             \/ /\ toClient[b] = <<>>
                   => Pair(toClient'[b], Word("accepted"), IdLine(nextSessionId))
      BY <1>1, <2>5, <3>1, OpenIsRead
    <3>3. nextSessionId # 0
      BY DEF Typed, ServerTypeOK
    <3>4. \A t \in Ids : opener'[t] = b => t = nextSessionId
      BY <1>2, <2>5 DEF NoneFor
    <3>5. OnlyFor(b, sessionId[b])'
      BY <3>2, <3>4, Zenon DEF OnlyFor
    <3>6. OneFor(b)'
      BY <3>5, Zenon DEF OneFor
    <3>7. Waits(b)'
      BY <3>2, Zenon DEF Waits
    <3>8. NoEntry # 0
      BY ConnectionAssumption DEF NoEntry
    <3>9. CASE phase[b] = "accept" /\ calling[b] # Client!NoCall /\ Opening(b)
      <4>1. Opened(b)' /\ entry[b] = 0 /\ connected[b]
        BY <1>2, <3>2, <3>3, <3>5, <3>9, Zenon DEF Opening, Opened, Held
      <4> QED
        BY <1>2, <1>3, <3>7, <3>8, <3>9, <4>1, Zenon DEF Held
    <3>10. CASE Lost(b)
      <4>1. Lost(b)'
        BY <1>2, <3>6, <3>10, Zenon DEF Lost
      <4> QED
        BY <1>2, <1>3, <3>7, <3>8, <3>10, <4>1 DEF Held, Lost
    <3> QED
      BY <2>5, <3>9, <3>10
  <2> QED
    BY <1>1, <2>1, <2>3, <2>4, <2>5, Zenon DEF Waits
<1> QED
  BY <1>2, <1>5, <1>7 DEF Serve

(***************************************************************************)
(* The thread of a command line program opens no session: the program does *)
(* not ask for one, and no document name is left for a command either.     *)
(***************************************************************************)
Console(c) ==
    /\ calling[c].op \notin {"open", "get"}
    /\ toServer[c] # <<>> => toServer[c][1] # Word("open") /\ toServer[c][1] # Word("get")

LEMMA PostIsRead ==
    ASSUME NEW c \in Connections, NEW name \in Names, NEW text \in Texts,
           Len(toServer[c]) = 3 + Len(Content(text)) \/ Len(toServer[c]) = 3,
           toServer[c][2] = Word(name), toServer[c][3] = LengthLine(text), HandlePost(c)
    PROVE  Refuse(c, 2) \/ \E reply : Exchange(c, Len(toServer[c]), reply)
<1>1. /\ IsLength(toServer[c][3]) /\ toServer[c][3][2] = text
      /\ Len(Content(text)) \in {0, 1}
  BY LinesDiffer, ContentType
<1>2. PICK n \in {3, 4} : n = 3 + Len(Content(text))
  <2>1. PICK m \in {0, 1} : m = Len(Content(text))
    BY <1>1
  <2>2. 3 + m \in {3, 4}
    OBVIOUS
  <2> QED
    BY <2>1, <2>2, Zenon
<1>3. PICK length \in {3, 4} : length = Len(toServer[c])
  BY <1>2
<1>4. length = n \/ length = 3
  BY <1>2, <1>3
<1>5. \/ Refuse(c, 2)
      \/ length >= n /\ \E v : Post(c, n, v, text)
      \/ length < n /\ \E v, part : Post(c, 3, v, part)
  BY <1>1, <1>2, <1>3, Zenon DEF HandlePost
<1>6. \/ Refuse(c, 2)
      \/ \E v, data : Post(c, length, v, data)
  <2>1. length >= n => length = n
    BY <1>4
  <2>2. length < n => length = 3
    BY <1>4
  <2> QED
    BY <1>5, <2>1, <2>2, Zenon
<1>7. ASSUME NEW v, NEW data, Post(c, length, v, data)
      PROVE  \E reply : Exchange(c, length, reply)
  BY <1>7, Zenon DEF Post, SaveFile, PutSessionValue, Refuse
<1> QED
  BY <1>3, <1>6, <1>7, Zenon

LEMMA PostRefused ==
    ASSUME Wires, NEW c \in Connections, NEW text \in Texts,
           Len(toServer[c]) = 3 + Len(Content(text)) \/ Len(toServer[c]) = 3,
           toServer[c][3] = LengthLine(text), Refuse(c, 2)
    PROVE  IsLength(toServer'[c][1])
<1>1. toServer[c] \in Seq(Lines) /\ Len(Content(text)) \in {0, 1}
  BY ContentType DEF Wires
<1>2. 2 < Len(toServer[c]) /\ 2 <= Len(toServer[c])
  BY <1>1
<1>3. PICK left \in Seq(Lines) : left = Drop(toServer[c], 2) /\ left[1] = toServer[c][3]
  BY <1>1, <1>2, DropType
<1>4. toServer' = [toServer EXCEPT ![c] = left]
  BY <1>3, Zenon DEF Refuse, Exchange
<1>5. toServer'[c] = left
  BY <1>4 DEF Wires
<1> QED
  BY <1>3, <1>5, LinesDiffer

LEMMA CloseIsRead ==
    ASSUME NEW c \in Connections, HandleClose(c)
    PROVE  \E reply : Exchange(c, 2, reply)
BY Zenon DEF HandleClose, CloseSession, Refuse

LEMMA ConsoleServed ==
    ASSUME Typed, Phases, NEW c \in Connections, Console(c), Serve(c), UNCHANGED clientVars
    PROVE  /\ nextSessionId' = nextSessionId
           /\ toServer'[c] = <<>> \/ IsLength(toServer'[c][1])
<1>1. /\ Wires /\ InPhase(c) /\ ValuesPosted
      /\ toServer[c] \in Seq(Lines)
  BY DEF Typed, Wires, Phases
<1>2. ASSUME NEW reply, Exchange(c, Len(toServer[c]), reply)
      PROVE  toServer'[c] = <<>>
  BY <1>1, <1>2, WholeLeavesNothing
<1>3. CASE EndOfStream(c)
  BY <1>1, <1>3 DEF EndOfStream, store, Wires
<1>4. CASE HandleOther(c)
  <2>1. UNCHANGED store /\ (toServer'[c] = <<>> \/ \E reply : Exchange(c, Len(toServer[c]), reply))
    <3>1. \/ \E reply : Exchange(c, Len(toServer[c]), reply)
          \/ toServer' = [toServer EXCEPT ![c] = <<>>]
      BY <1>4, Zenon DEF HandleOther
    <3>2. UNCHANGED store
      BY <1>4 DEF HandleOther
    <3> QED
      BY <1>1, <3>1, <3>2 DEF Wires
  <2> QED
    BY <1>2, <2>1 DEF store
<1>5. CASE Handle(c)
  <2>1. toServer[c] # <<>>
    <3>1. ASSUME toServer[c] = <<>>
          PROVE  FALSE
      <4>1. EndOfStream(c)
        BY <3>1, NothingToServe
      <4> QED
        BY <1>5, <4>1 DEF Handle, EndOfStream, Typed, Wires
    <3> QED
      BY <3>1
  <2>2. ~HandleOpen(c) /\ ~HandleGet(c)
    BY <2>1, Zenon DEF Console, HandleOpen, HandleGet, Command
  <2>3. HandleResume(c) \/ HandleClose(c) \/ HandlePost(c)
    BY <1>5, <2>2 DEF Handle
  <2>4. nextSessionId' = nextSessionId
    BY <2>3, Zenon DEF HandleResume, HandleClose, HandlePost, ResumeSession, RejectSession,
                       CloseSession, Post, SaveFile, PutSessionValue, Refuse, store
  <2>5. ASSUME NEW call \in Asked, Carries(c, call)
        PROVE  toServer'[c] = <<>> \/ IsLength(toServer'[c][1])
    <3>1. CASE HandleResume(c)
      <4>1. call.op = "resume"
        BY <2>5, <3>1, Commanded, Zenon DEF HandleResume
      <4>2. Len(toServer[c]) = 2
        BY <2>5, <4>1 DEF Carries, Pair
      <4> QED
        BY <3>1, <4>2, ResumeIsRead
    <3>2. CASE HandleClose(c)
      <4>1. call.op = "close"
        BY <2>5, <3>2, Commanded, Zenon DEF HandleClose
      <4>2. Len(toServer[c]) = 2
        BY <2>5, <4>1 DEF Carries, Pair
      <4> QED
        BY <1>2, <3>2, <4>2, CloseIsRead
    <3>3. CASE HandlePost(c)
      <4>1. call.op = "post"
        BY <2>5, <3>3, Commanded, Zenon DEF HandlePost
      <4>2. call.name \in Names /\ call.text \in Texts
        BY <4>1, RecordTypes
      <4>3. WithDocument(toServer[c], Word("post"), call.name, call.text)
        BY <2>5, <4>1 DEF Carries
      <4>4. Refuse(c, 2) \/ \E reply : Exchange(c, Len(toServer[c]), reply)
        BY <3>3, <4>2, <4>3, PostIsRead DEF WithDocument
      <4>5. CASE Refuse(c, 2)
        BY <1>1, <4>2, <4>3, <4>5, PostRefused DEF WithDocument
      <4> QED
        BY <1>2, <4>4, <4>5
    <3> QED
      BY <2>3, <3>1, <3>2, <3>3
  <2>6. ASSUME CutOff(c)
        PROVE  toServer'[c] = <<>> \/ IsLength(toServer'[c][1])
    <3>1. PICK name \in Names, text \in Texts :
            /\ Len(toServer[c]) = 3
            /\ toServer[c][1] = Word("post")
            /\ toServer[c][2] = Word(name)
            /\ toServer[c][3] = LengthLine(text)
      BY <2>6, Zenon DEF CutOff
    <3>2. ~Command(c, "resume", 2) /\ ~Command(c, "close", 2)
      BY <3>1, LinesDiffer DEF Command
    <3>3. HandlePost(c)
      BY <2>3, <3>2, Zenon DEF HandleResume, HandleClose
    <3>4. Refuse(c, 2) \/ \E reply : Exchange(c, Len(toServer[c]), reply)
      BY <3>1, <3>3, PostIsRead
    <3>5. Refuse(c, 2) => IsLength(toServer'[c][1])
      BY <1>1, <3>1, PostRefused
    <3> QED
      BY <1>2, <3>4, <3>5
  <2>7. ASSUME Rest(c)
        PROVE  toServer'[c] = <<>> \/ IsLength(toServer'[c][1])
    <3>1. \E reply \in Seq(Lines) : Exchange(c, Len(toServer[c]), reply)
      BY <1>1, <1>5, <2>7, RestHandled
    <3> QED
      BY <1>2, <3>1
  <2>8. \/ \E call \in Asked : Carries(c, call)
        \/ CutOff(c) \/ Rest(c)
    <3>1. calling[c] \in Asked
      BY DEF Typed, Programs
    <3> QED
      BY <1>1, <2>1, <3>1, Zenon DEF InPhase, Gone, Idle, Asking, Answered, Doomed, Severed, Left
  <2> QED
    BY <2>4, <2>5, <2>6, <2>7, <2>8
<1> QED
  BY <1>3, <1>4, <1>5 DEF Serve

LEMMA ConsoleStays ==
    ASSUME NEW c \in Connections, Console(c), Stays(c)
    PROVE  Console(c)'
BY Zenon DEF Console, Stays

LEMMA ConsoleAsks ==
    ASSUME GiveUp, Typed, NEW c \in Connections, InPhase(c),
           NEW op \in {"resume", "close", "post"}, NEW id, NEW name, NEW text,
           NEW lines \in Seq(Lines),
           Client!Calling(c, op, id, name, text, lines), UNCHANGED serverVars
    PROVE  Console(c)'
<1>1. /\ toServer'[c] \in {<<>>, <<Word(op)>> \o lines}
      /\ calling'[c].op = op
  BY CallBegins
<1>2. (<<Word(op)>> \o lines)[1] = Word(op)
  BY CalledLines DEF Commands
<1>3. Word(op) # Word("open") /\ Word(op) # Word("get")
  BY LinesDiffer
<1>4. op \notin {"open", "get"}
  OBVIOUS
<1> QED
  BY <1>1, <1>2, <1>3, <1>4, Zenon DEF Console

\* A connection that breaks keeps the first line.
LEMMA ConsoleBreaks ==
    ASSUME Typed, NEW c \in Connections, Console(c), Breaks(c)
    PROVE  Console(c)'
<1>1. toServer[c] \in Seq(Lines) /\ calling' = calling
  BY DEF Typed, Wires, Breaks, Client!Break
<1>2. PICK n \in {3, Len(toServer[c])} :
          /\ n <= Len(toServer[c])
          /\ toServer' = [toServer EXCEPT ![c] = SubSeq(@, 1, n)]
  BY DEF Breaks, Client!Break
<1>3. toServer'[c] = SubSeq(toServer[c], 1, n)
  BY <1>2 DEF Typed, Wires
<1>4. ASSUME NEW stream \in Seq(Lines), NEW k \in {3, Len(stream)}, k <= Len(stream)
      PROVE  /\ stream = <<>> => SubSeq(stream, 1, k) = <<>>
             /\ stream # <<>> => SubSeq(stream, 1, k)[1] = stream[1]
  BY <1>4
<1>5. PICK stream \in Seq(Lines) : stream = toServer[c]
  BY <1>1
<1>6. /\ toServer[c] = <<>> => toServer'[c] = <<>>
      /\ toServer[c] # <<>> => toServer'[c][1] = toServer[c][1]
  BY <1>2, <1>3, <1>4, <1>5, Zenon
<1> QED
  BY <1>1, <1>6, Zenon DEF Console

LEMMA ConsoleStepped ==
    ASSUME GiveUp, Typed, NEW c \in Connections, InPhase(c), Console(c), ConsoleStep(c)
    PROVE  Console(c)'
<1>1. Client!NoCall.op = "none"
  BY DEF Client!NoCall
<1>2. CASE Connect(c)
  BY <1>2 DEF Connect, clientVars, Console, Typed, Wires
<1>3. CASE UNCHANGED serverVars /\ \E id \in Ids : Client!ResumeSession(c, id)
  <2>1. PICK id \in Ids : Client!ResumeSession(c, id)
    BY <1>3
  <2>2. <<Client!IdLine(id)>> \in Seq(Lines)
    BY LinesTyped DEF AnyId
  <2>3. PICK name, text, lines :
           /\ lines \in Seq(Lines)
           /\ Client!Calling(c, "resume", id, name, text, lines)
    BY <2>1, <2>2, Zenon DEF Client!ResumeSession
  <2> QED
    BY <1>3, <2>3, ConsoleAsks
<1>4. CASE UNCHANGED serverVars
             /\ \E name \in Names, text \in Texts : Client!PostDocument(c, name, text)
  <2>1. PICK name \in Names, text \in Texts : Client!PostDocument(c, name, text)
    BY <1>4
  <2>2. PICK lines \in Seq(Lines) : Client!Calling(c, "post", 0, name, text, lines)
    BY <2>1, LinesTyped, Zenon DEF Client!PostDocument
  <2> QED
    BY <1>4, <2>2, ConsoleAsks
<1>5. CASE UNCHANGED serverVars /\ Client!CloseSession(c)
  <2>1. <<Client!IdLine(sessionID[c])>> \in Seq(Lines)
    BY LinesTyped DEF Typed, Programs
  <2>2. PICK id, name, text, lines :
           /\ lines \in Seq(Lines)
           /\ Client!Calling(c, "close", id, name, text, lines)
    BY <1>5, <2>1, Zenon DEF Client!CloseSession
  <2> QED
    BY <1>5, <2>2, ConsoleAsks
<1>6. CASE Client!Disconnect(c) \/ Client!Die(c)
  <2>1. toServer' = toServer /\ calling'[c] = Client!NoCall
    BY <1>6 DEF Client!Disconnect, Client!Die, Client!Leaves, Typed, Programs
  <2> QED
    BY <1>1, <2>1 DEF Console
<1> QED
  BY <1>2, <1>3, <1>4, <1>5, <1>6, Zenon DEF ConsoleStep

LEMMA ConsoleReceives ==
    ASSUME Typed, NEW c \in Connections, Console(c), Receives(c)
    PROVE  Console(c)'
<1>1. Client!NoCall.op = "none"
  BY DEF Client!NoCall
<1>2. toServer' = toServer /\ calling' = [calling EXCEPT ![c] = Client!NoCall]
  BY Zenon DEF Receives, Client!Receive, Client!ReceiveResponse, Client!ReceiveNothing
<1>3. calling'[c] = Client!NoCall
  BY <1>2 DEF Typed, Programs
<1> QED
  BY <1>1, <1>2, <1>3 DEF Console

(***************************************************************************)
(* Whom the sessions were opened for.                                      *)
(***************************************************************************)
Openers ==
    /\ opener \in [Ids -> Browsers \cup {Nobody}]
    /\ \A b \in Kept : Held(b)
    /\ \A c \in Connections \ Browsers : Console(c)

\* What one client does to the session of another.
LEMMA OthersStay ==
    ASSUME Typed, NEW c \in Connections, Moves(c) \/ UNCHANGED vars
    PROVE  \A o \in Connections \ {c} : Stays(o) /\ Grows
BY MoveSpares DEF vars, streams, serverVars, store, clientVars, Stays, Grows

LEMMA NothingMoves ==
    ASSUME (Expire /\ UNCHANGED clientVars) \/ UNCHANGED vars
    PROVE  \A o \in Connections : Stays(o) /\ Grows
<1>1. CASE Expire /\ UNCHANGED clientVars
  <2>1. PICK s \in open : open' = open \ {s} /\ UNCHANGED <<streams, sessionId>>
    BY <1>1 DEF Expire
  <2> QED
    BY <1>1, <2>1 DEF streams, clientVars, Stays, Grows
<1>2. CASE UNCHANGED vars
  BY <1>2 DEF vars, streams, serverVars, store, clientVars, Stays, Grows
<1> QED
  BY <1>1, <1>2

LEMMA OpenersStep ==
    ASSUME GiveUp, Typed, Phases, Browsing, Openers, [BrowserNext]_allVars
    PROVE  Openers'
<1> USE BrowserAssumption
<1>1. /\ opener \in [Ids -> Browsers \cup {Nobody}]
      /\ \A b \in Kept : b \in Browsers /\ b \in Connections /\ Held(b)
      /\ \A c \in Connections \ Browsers : Console(c)
  BY DEF Openers, Kept
<1>2. kind' = kind => Kept' = Kept
  BY DEF Kept
<1>3. ASSUME UNCHANGED requestVars, \A o \in Connections : Stays(o) /\ Grows
      PROVE  Openers'
  <2>1. ASSUME NEW b \in Kept
        PROVE  Held(b)'
    <3>1. SameRequest(b) /\ SparesSessions(b)
      BY <1>3 DEF requestVars, SameRequest, SparesSessions
    <3> QED
      BY <1>1, <1>3, <3>1, HeldStays
  <2>2. kind' = kind /\ opener' = opener
    BY <1>3 DEF requestVars
  <2> QED
    BY <1>1, <1>2, <1>3, <2>1, <2>2, ConsoleStays DEF Openers
<1>4. CASE UNCHANGED allVars
  BY <1>3, <1>4, NothingMoves DEF allVars
<1>5. CASE Expire /\ UNCHANGED <<clientVars, requestVars>>
  BY <1>3, <1>5, NothingMoves
<1>6. ASSUME NEW b \in Browsers, Drives(b), kind' = kind
      PROVE  Openers'
  <2>1. /\ \A o \in Browsers \ {b} : SameRequest(o)
        /\ opener' = opener
    BY <1>6, DrivesTold
  <2>2. \A o \in Connections \ {b} : Stays(o) /\ Grows
    BY <1>6, BrowserMoves, OthersStay
  <2>3. ASSUME NEW o \in Kept \ {b}
        PROVE  Held(o)'
    <3>1. SparesSessions(o)
      BY <2>1 DEF SparesSessions
    <3> QED
      BY <1>1, <2>1, <2>2, <3>1, HeldStays
  <2>4. b \in Kept => Held(b)'
    BY <1>1, <1>6, HeldDrives
  <2> QED
    BY <1>1, <1>2, <1>6, <2>1, <2>2, <2>3, <2>4, ConsoleStays DEF Openers
<1>7. ASSUME NEW c \in Connections, UNCHANGED requestVars, Moves(c),
             c \in Kept => Held(c)', c \notin Browsers => Console(c)'
      PROVE  Openers'
  <2>1. \A o \in Connections \ {c} : Stays(o) /\ Grows
    BY <1>7, OthersStay
  <2>2. kind' = kind /\ opener' = opener
    BY <1>7 DEF requestVars
  <2>3. ASSUME NEW b \in Kept \ {c}
        PROVE  Held(b)'
    <3>1. SameRequest(b) /\ SparesSessions(b)
      BY <1>7 DEF requestVars, SameRequest, SparesSessions
    <3> QED
      BY <1>1, <2>1, <3>1, HeldStays
  <2> QED
    BY <1>1, <1>2, <1>7, <2>1, <2>2, <2>3, ConsoleStays DEF Openers
<1>8. ASSUME NEW c \in Connections \ Browsers, ConsoleStep(c)
      PROVE  Openers'
  <2>1. Moves(c) /\ UNCHANGED requestVars
    BY <1>8, ConsoleMoves
  <2>2. Console(c)'
    BY <1>1, <1>8, ConsoleStepped DEF Phases
  <2> QED
    BY <1>1, <1>7, <2>1, <2>2
<1>9. ASSUME NEW c \in Connections, Receives(c)
      PROVE  Openers'
  <2>1. Moves(c) /\ UNCHANGED requestVars
    BY <1>9, Zenon DEF Receives, Moves
  <2>2. c \in Kept => Held(c)'
    BY <1>1, <1>9, HeldReceives
  <2>3. c \notin Browsers => Console(c)'
    BY <1>1, <1>9, ConsoleReceives
  <2> QED
    BY <1>7, <2>1, <2>2, <2>3
<1>10. ASSUME NEW c \in Connections, Serves(c)
       PROVE  Openers'
  <2>1. /\ opener' = [s \in Ids |->
              IF s = nextSessionId /\ nextSessionId' # nextSessionId THEN c ELSE opener[s]]
        /\ UNCHANGED <<kind, phase, asked, entry, answer>>
        /\ Serve(c) /\ UNCHANGED clientVars
    BY <1>10 DEF Serves
  <2>2. \A o \in Connections \ {c} : Stays(o) /\ Grows
    BY <2>1, OthersStay, Zenon DEF Moves
  <2>3. c \notin Browsers => nextSessionId' = nextSessionId /\ Console(c)'
    <3>1. ASSUME c \notin Browsers
          PROVE  /\ nextSessionId' = nextSessionId
                 /\ toServer'[c] = <<>> \/ IsLength(toServer'[c][1])
      BY <1>1, <2>1, <3>1, ConsoleServed
    <3>2. ASSUME c \notin Browsers
          PROVE  Console(c)'
      <4>1. Console(c) /\ calling' = calling
        BY <1>1, <2>1, <3>2 DEF clientVars
      <4>2. ASSUME NEW w, toServer'[c] # <<>>
            PROVE  toServer'[c][1] # Word(w)
        BY <3>1, <3>2, <4>2, LinesDiffer
      <4> QED
        BY <4>1, <4>2, Zenon DEF Console
    <3> QED
      BY <3>1, <3>2
  <2>4. opener' \in [Ids -> Browsers \cup {Nobody}]
    BY <1>1, <2>1, <2>3
  <2>5. ASSUME NEW b \in Kept
        PROVE  Held(b)'
    <3>1. CASE b = c
      BY <1>1, <1>10, <3>1, HeldServes
    <3>2. CASE b # c
      <4>1. SameRequest(b) /\ SparesSessions(b)
        BY <2>1, <3>2 DEF SameRequest, SparesSessions
      <4> QED
        BY <1>1, <2>2, <3>2, <4>1, HeldStays
    <3> QED
      BY <3>1, <3>2
  <2>6. \A o \in Connections \ Browsers : Console(o)'
    BY <1>1, <2>2, <2>3, ConsoleStays
  <2> QED
    BY <1>2, <2>1, <2>4, <2>5, <2>6 DEF Openers
<1>11. ASSUME NEW c \in Connections, Breaks(c)
       PROVE  Openers'
  <2>1. Moves(c) /\ UNCHANGED requestVars
    BY <1>11, Zenon DEF Breaks, Moves
  <2>2. c \in Kept => Held(c)'
    BY <1>1, <1>11, HeldBreaks
  <2>3. c \notin Browsers => Console(c)'
    BY <1>1, <1>11, ConsoleBreaks
  <2> QED
    BY <1>7, <2>1, <2>2, <2>3
<1>12. ASSUME NEW b \in Browsers,
              \/ \E name \in Names : Request(b, name) /\ UNCHANGED kind
              \/ (Advance(b) \/ LookupLost(b)) /\ UNCHANGED kind
              \/ Collect(b)
       PROVE  Drives(b) /\ kind' = kind
  BY <1>12 DEF Drives, Collect, requestVars
<1> QED
  BY <1>4, <1>5, <1>6, <1>8, <1>9, <1>10, <1>11, <1>12, Zenon DEF BrowserNext

LEMMA OpenersInit == BrowserInit => Openers
<1> SUFFICES ASSUME BrowserInit
             PROVE  Openers
  OBVIOUS
<1>1. opener = [s \in Ids |-> Nobody]
  BY DEF BrowserInit
<1>2. ASSUME NEW c \in Connections
      PROVE  toServer[c] = <<>> /\ calling[c] = Client!NoCall
  BY DEF BrowserInit, Init, Client!ClientInit
<1>3. ASSUME NEW b \in Kept
      PROVE  Held(b)
  <2>1. phase[b] = "none" /\ b \in Browsers /\ b \in Connections
    BY BrowserAssumption DEF BrowserInit, Kept
  <2>2. \A t \in Ids : opener[t] # b
    BY <1>1, <2>1, BrowserAssumption
  <2> QED
    BY <1>2, <2>1, <2>2, Zenon DEF Held, Waits, NoneFor, OnlyFor
<1>4. ASSUME NEW c \in Connections \ Browsers
      PROVE  Console(c)
  BY <1>2 DEF Console, Client!NoCall
<1> QED
  BY <1>1, <1>3, <1>4 DEF Openers

LEMMA BrowserInvariant ==
    ASSUME GiveUp
    PROVE  BrowserSpec => [](Typed /\ Phases /\ Browsing /\ Openers)
<1>1. BrowserInit => Typed /\ Phases /\ Browsing /\ Openers
  <2>1. BrowserInit => Init
    BY DEF BrowserInit
  <2> QED
    BY <2>1, TypedInit, PhasesInit, BrowsingInit, OpenersInit
<1>2. Typed /\ Phases /\ Browsing /\ Openers /\ [BrowserNext]_allVars
          => (Typed /\ Phases /\ Browsing /\ Openers)'
  <2> SUFFICES ASSUME Typed, Phases, Browsing, Openers, [BrowserNext]_allVars
               PROVE  (Typed /\ Phases /\ Browsing /\ Openers)'
    OBVIOUS
  <2>1. Step
    BY BrowserNextIsStep
  <2>2. Typed' /\ Phases'
    BY <2>1, TypedStep, PhasesStep
  <2> QED
    BY <2>2, BrowsingStep, OpenersStep
<1> QED
  BY <1>1, <1>2, PTL DEF BrowserSpec

LEMMA BrowserIsTyped == Typed /\ Browsing /\ Openers => BrowserTypeOK
<1> SUFFICES ASSUME Typed, Browsing, Openers
             PROVE  BrowserTypeOK
  OBVIOUS
<1>1. TypeOK
  BY TypedIsTyped
<1>2. \A b \in Browsers : answer[b] \subseteq Client!Documents
  BY DEF Browsing, Requests
<1> QED
  BY <1>1, <1>2 DEF Browsing, Requests, Openers, BrowserTypeOK

LEMMA OpenersTracked == Browsing /\ Openers => SessionTracked
<1> SUFFICES ASSUME Browsing, Openers, NEW b \in Kept, NEW s \in Ids, opener[s] = b
             PROVE  /\ \A t \in Ids : opener[t] = b => t = s
                    /\ \/ entry[b] = s
                       \/ entry[b] = 0 /\ (phase[b] = "accept" \/ failed[b])
  BY DEF SessionTracked
<1>1. Held(b) /\ ~NoneFor(b)
  BY DEF Openers, NoneFor
<1>2. phase[b] \in {"none", "lookup", "lost", "connect", "open", "resume",
                   "accept", "get", "content"}
  BY DEF Browsing, Requests, Kept
<1>3. CASE OnlyFor(b, entry[b])
  BY <1>3 DEF OnlyFor
<1>4. CASE Lost(b)
  BY <1>4 DEF Lost, OneFor, OnlyFor
<1>5. CASE phase[b] = "accept" /\ calling[b] # Client!NoCall
  <2>1. Opened(b) \/ Resuming(b)
    BY <1>1, <1>5 DEF Held, Opening
  <2> QED
    BY <1>5, <2>1 DEF Opened, Resuming, OnlyFor
<1>6. CASE phase[b] = "accept" /\ calling[b] = Client!NoCall /\ ~failed[b]
  BY <1>1, <1>6 DEF Held, OnlyFor
<1> QED
  BY <1>1, <1>2, <1>3, <1>4, <1>5, <1>6 DEF Held

(***************************************************************************)
(* Every field of the browsers and of the service under them has its type, *)
(* and a session is only ever opened for a browser.                        *)
(***************************************************************************)
THEOREM BrowserTypeCorrect ==
    ASSUME GiveUp
    PROVE  BrowserSpec => []BrowserTypeOK
BY BrowserInvariant, BrowserIsTyped, PTL

(***************************************************************************)
(* A document a browser shows was posted under the name it was asked for,  *)
(* in the session the browser has with the server: whole, unless a         *)
(* connection broke inside that post.                                      *)
(***************************************************************************)
THEOREM AnswersFromItsSessionHolds ==
    ASSUME GiveUp
    PROVE  BrowserSpec => []AnswersFromItsSession
<1>1. Browsing => AnswersFromItsSession
  BY DEF Browsing, Told, AnswersFromItsSession
<1> QED
  BY <1>1, BrowserInvariant, PTL

(***************************************************************************)
(* A browser that is kept opens at most one session, although connections  *)
(* break at any moment of the open.  The session is its entry for the      *)
(* server, or the entry says 0 and the browser still waits for it to be    *)
(* accepted, or the open threw.                                            *)
(***************************************************************************)
THEOREM SessionTrackedHolds ==
    ASSUME GiveUp
    PROVE  BrowserSpec => []SessionTracked
BY BrowserInvariant, OpenersTracked, PTL

(***************************************************************************)
(* With browsers as clients too, a close ends the session that was named.  *)
(***************************************************************************)
THEOREM BrowserClosesWhatWasNamed ==
    ASSUME GiveUp
    PROVE  BrowserSpec => ClosesWhatWasNamed
<1>1. Typed /\ Phases => CloseStep
  BY ClosesNamed
<1> QED
  BY <1>1, BrowserInvariant, PTL DEF ClosesWhatWasNamed
=============================================================================
