-------------------------- MODULE SessionTableProofs --------------------------
(***************************************************************************)
(* Proofs about class SessionTable, for any number of threads, sessions,   *)
(* keys and values and any timeout.  The invariant says who is inside the  *)
(* lock, what a thread inside it may rely on, and that the cleanup loop's  *)
(* list only names sessions that are open and overdue.                     *)
(***************************************************************************)
EXTENDS SessionTable, TLAPS

Within == {"entered", "inserting", "using", "leaving"}

(***************************************************************************)
(* The lock has the one holder the threads' locations say.                 *)
(***************************************************************************)
Exclusive ==
    /\ \A t \in Threads : pc[t] \in Within <=> lock = t
    /\ task = "removing" <=> lock = Cleaner

(***************************************************************************)
(* Ids are given out in order; OpenSession's local copy is not outrun.     *)
(***************************************************************************)
Numbered ==
    /\ open \subseteq 1 .. nextSessionId - 1
    /\ \A t \in Threads :
          /\ pc[t] \in {"entered", "inserting"} /\ call[t].op = "open"
                => nextSessionId <= MaxSessions
          /\ pc[t] = "inserting" => call[t].op = "open" /\ taken[t] = nextSessionId

(***************************************************************************)
(* The session a thread found is still there when the thread uses it.      *)
(***************************************************************************)
Found ==
    \A t \in Threads :
        pc[t] = "using" => call[t].op \in {"get", "put"} /\ call[t].id \in open

(***************************************************************************)
(* What the cleanup loop is about to remove is open and overdue.           *)
(***************************************************************************)
Overdue ==
    /\ task # "removing" => expired = {}
    /\ \A s \in expired : s \in open /\ idle[s] > SessionTimeout

(***************************************************************************)
(* A call has a result exactly when it is about to return.                 *)
(***************************************************************************)
Answered ==
    \A t \in Threads :
        /\ pc[t] = "outside" <=> call[t] = NoCall
        /\ pc[t] = "leaving" <=> result[t] # Pending

IInv == TypeOK /\ Exclusive /\ Numbered /\ Found /\ Overdue /\ Answered

LEMMA RequestShape ==
    /\ \A r \in Requests :
          /\ r.op \in {"open", "resume", "close", "get", "put"}
          /\ r.id \in AnyId
          /\ r.op = "get" => r.key \in Keys
          /\ r.op = "put" => r.key \in Keys /\ r.value \in Values
          /\ r # NoCall
    /\ NoCall.op = "none"
BY DEF Requests, NoCall, Call, AnyId

LEMMA ResultShape ==
    /\ Pending \in Results
    /\ Done \in Results /\ Done # Pending
    /\ Thrown \in Results /\ Thrown # Pending
    /\ YesOrNo(TRUE) \in Results /\ YesOrNo(TRUE) # Pending
    /\ YesOrNo(FALSE) \in Results /\ YesOrNo(FALSE) # Pending
    /\ \A s \in AnyId : NewId(s) \in Results /\ NewId(s) # Pending
    /\ \A v \in Values \cup {Nothing} : Retrieved(v) \in Results /\ Retrieved(v) # Pending
<1>1. 0 \in AnyId
  BY DEF AnyId
<1> QED
  BY <1>1 DEF Results, Result, Pending, Done, Thrown, YesOrNo, NewId, Retrieved

LEMMA Initially == Init => IInv
<1> SUFFICES ASSUME Init PROVE IInv
  OBVIOUS
<1>1. TypeOK
  <2>1. /\ nextSessionId \in 1 .. MaxSessions + 1
        /\ remaining \in 0 .. CleanupInterval
        /\ 0 \in 0 .. SessionTimeout + 1
    BY SessionAssumption, TimeAssumption DEF Init
  <2>2. values \in [Ids -> [Keys -> Values \cup {Nothing}]]
    BY DEF Init, Blank
  <2>3. result \in [Threads -> Results]
    BY ResultShape DEF Init
  <2>4. disposed \in BOOLEAN
    BY Zenon DEF Init
  <2> QED
    BY <2>1, <2>2, <2>3, <2>4 DEF Init, TypeOK, Locations, AnyId
<1>2. Exclusive
  BY LockAssumption DEF Init, Exclusive, Within
<1>3. Numbered /\ Found /\ Overdue
  BY DEF Init, Numbered, Found, Overdue
<1>4. Answered
  BY DEF Init, Answered
<1> QED
  BY <1>1, <1>2, <1>3, <1>4 DEF IInv

(***************************************************************************)
(* Steps of a thread outside the lock, and the two that take and release   *)
(* it.                                                                     *)
(***************************************************************************)
LEMMA InvokeKeeps ==
    ASSUME IInv, NEW t \in Threads, Invoke(t)
    PROVE  IInv'
<1>1. PICK request \in Requests : call' = [call EXCEPT ![t] = request]
  BY DEF Invoke
<1>2. pc[t] = "outside" /\ pc' = [pc EXCEPT ![t] = "calling"]
  BY DEF Invoke, Goes
<1>3. UNCHANGED <<lock, table, taken, result, cleanup, disposed>>
  BY DEF Invoke
<1>4. TypeOK'
  BY <1>1, <1>2, <1>3 DEF IInv, TypeOK, Locations, table, cleanup
<1>5. Exclusive'
  BY <1>2, <1>3 DEF IInv, TypeOK, Exclusive, Within, cleanup
<1>6. Numbered' /\ Found' /\ Overdue'
  BY <1>1, <1>2, <1>3 DEF IInv, TypeOK, Numbered, Found, Overdue, table, cleanup
<1>7. Answered'
  BY <1>1, <1>2, <1>3, RequestShape DEF IInv, TypeOK, Answered
<1> QED
  BY <1>4, <1>5, <1>6, <1>7 DEF IInv

LEMMA EnterKeeps ==
    ASSUME IInv, NEW t \in Threads, Enter(t)
    PROVE  IInv'
<1>1. /\ pc[t] = "calling" /\ pc' = [pc EXCEPT ![t] = "entered"]
      /\ call[t].op = "open" => nextSessionId <= MaxSessions
      /\ lock = Unlocked /\ lock' = t
      /\ UNCHANGED <<table, taken, call, result, cleanup, disposed>>
  BY DEF Enter, Goes
<1>2. TypeOK'
  BY <1>1 DEF IInv, TypeOK, Locations, table, cleanup
<1>3. Exclusive'
  BY <1>1, LockAssumption DEF IInv, TypeOK, Exclusive, Within, cleanup
<1>4. Numbered' /\ Found' /\ Overdue'
  BY <1>1 DEF IInv, TypeOK, Numbered, Found, Overdue, table, cleanup
<1>5. Answered'
  BY <1>1 DEF IInv, TypeOK, Answered
<1> QED
  BY <1>2, <1>3, <1>4, <1>5 DEF IInv

LEMMA LeaveKeeps ==
    ASSUME IInv, NEW t \in Threads, Leave(t)
    PROVE  IInv'
<1>1. /\ pc[t] = "leaving" /\ pc' = [pc EXCEPT ![t] = "outside"]
      /\ lock' = Unlocked
      /\ result' = [result EXCEPT ![t] = Pending]
      /\ call' = [call EXCEPT ![t] = NoCall]
      /\ UNCHANGED <<table, taken, cleanup, disposed>>
  BY DEF Leave, Goes, Gives
<1>2. TypeOK'
  BY <1>1, ResultShape DEF IInv, TypeOK, Locations, table, cleanup
<1>3. Exclusive'
  BY <1>1, LockAssumption DEF IInv, TypeOK, Exclusive, Within, cleanup
<1>4. Numbered' /\ Found' /\ Overdue'
  BY <1>1 DEF IInv, TypeOK, Numbered, Found, Overdue, table, cleanup
<1>5. Answered'
  BY <1>1 DEF IInv, TypeOK, Answered
<1> QED
  BY <1>2, <1>3, <1>4, <1>5 DEF IInv

(***************************************************************************)
(* A thread inside the lock is alone there.                                *)
(***************************************************************************)
LEMMA Alone ==
    ASSUME Exclusive, Overdue, NEW t \in Threads, pc[t] \in Within
    PROVE  /\ lock = t
           /\ \A u \in Threads : u # t => pc[u] \notin Within
           /\ task # "removing" /\ expired = {}
BY LockAssumption DEF Exclusive, Overdue

(***************************************************************************)
(* Moving on inside the lock keeps Exclusive, whatever else the step does. *)
(***************************************************************************)
LEMMA MovesInside ==
    ASSUME IInv, NEW t \in Threads, pc[t] \in Within,
           NEW to \in Within, pc' = [pc EXCEPT ![t] = to],
           UNCHANGED <<lock, task>>
    PROVE  /\ pc' \in [Threads -> Locations]
           /\ Exclusive'
<1>1. pc \in [Threads -> Locations] /\ Within \subseteq Locations
  BY DEF IInv, TypeOK, Locations, Within
<1> QED
  BY <1>1 DEF IInv, Exclusive

LEMMA TakeIdKeeps ==
    ASSUME IInv, NEW t \in Threads, TakeId(t)
    PROVE  IInv'
<1>1. /\ pc[t] = "entered" /\ pc' = [pc EXCEPT ![t] = "inserting"]
      /\ call[t].op = "open"
      /\ taken' = [taken EXCEPT ![t] = nextSessionId]
      /\ UNCHANGED <<lock, table, call, result, cleanup, disposed>>
  BY DEF TakeId, Goes
<1>2. pc' \in [Threads -> Locations] /\ Exclusive'
  BY <1>1, MovesInside DEF Within, cleanup
<1>3. nextSessionId \in Ids /\ nextSessionId <= MaxSessions
  BY <1>1, SessionAssumption DEF IInv, TypeOK, Numbered, Ids
<1>4. TypeOK'
  BY <1>1, <1>2, <1>3 DEF IInv, TypeOK, AnyId, table, cleanup
<1>5. Numbered' /\ Found' /\ Overdue'
  BY <1>1, <1>3 DEF IInv, TypeOK, Numbered, Found, Overdue, table, cleanup
<1>6. Answered'
  BY <1>1 DEF IInv, TypeOK, Answered
<1> QED
  BY <1>2, <1>4, <1>5, <1>6 DEF IInv

LEMMA InsertSessionKeeps ==
    ASSUME IInv, NEW t \in Threads, InsertSession(t)
    PROVE  IInv'
<1>1. /\ pc[t] = "inserting" /\ pc' = [pc EXCEPT ![t] = "leaving"]
      /\ nextSessionId' = taken[t] + 1
      /\ open' = open \cup {taken[t]}
      /\ values' = [values EXCEPT ![taken[t]] = Blank]
      /\ idle' = [idle EXCEPT ![taken[t]] = 0]
      /\ result' = [result EXCEPT ![t] = NewId(taken[t])]
      /\ taken' = [taken EXCEPT ![t] = 0]
      /\ UNCHANGED <<lock, call, cleanup, disposed>>
  BY DEF InsertSession, Goes, Gives, Touch
<1>2. /\ taken[t] = nextSessionId /\ call[t].op = "open"
      /\ nextSessionId \in 1 .. MaxSessions
      /\ MaxSessions \in Nat /\ SessionTimeout \in Nat
  BY <1>1, SessionAssumption, TimeAssumption DEF IInv, TypeOK, Numbered
<1>3. pc' \in [Threads -> Locations] /\ Exclusive'
  BY <1>1, MovesInside DEF Within, cleanup
<1>4. /\ \A u \in Threads : u # t => pc[u] \notin Within
      /\ expired = {} /\ task # "removing"
  BY <1>1, Alone DEF IInv, Within
<1>5. TypeOK'
  <2>1. values' \in [Ids -> [Keys -> Values \cup {Nothing}]]
    BY <1>1, <1>2 DEF IInv, TypeOK, Blank
  <2>2. result' \in [Threads -> Results]
    BY <1>1, <1>2, ResultShape DEF IInv, TypeOK, AnyId, Ids
  <2> QED
    BY <1>1, <1>2, <1>3, <2>1, <2>2 DEF IInv, TypeOK, AnyId, Ids, cleanup
<1>6. Numbered'
  <2>1. open' \subseteq 1 .. nextSessionId' - 1
    BY <1>1, <1>2 DEF IInv, Numbered
  <2> QED
    BY <1>1, <1>4, <2>1 DEF IInv, TypeOK, Numbered, Within
<1>7. Found' /\ Overdue'
  BY <1>1, <1>4 DEF IInv, TypeOK, Found, Overdue, Within, cleanup
<1>8. Answered'
  BY <1>1, <1>2, ResultShape DEF IInv, TypeOK, Answered, AnyId, Ids
<1> QED
  BY <1>3, <1>5, <1>6, <1>7, <1>8 DEF IInv

(***************************************************************************)
(* The steps that leave the table as it is.                                *)
(***************************************************************************)
LEMMA LookingKeeps ==
    ASSUME IInv, NEW t \in Threads,
           ResumeSession(t) \/ SessionNotFound(t) \/ SessionFound(t)
    PROVE  IInv'
<1>1. /\ pc[t] = "entered"
      /\ UNCHANGED <<lock, table, taken, call, cleanup, disposed>>
  BY DEF ResumeSession, SessionNotFound, SessionFound, Goes
<1>2. \/ /\ pc' = [pc EXCEPT ![t] = "leaving"]
         /\ \E r \in Results : r # Pending /\ result' = [result EXCEPT ![t] = r]
      \/ /\ pc' = [pc EXCEPT ![t] = "using"]
         /\ result' = result
         /\ call[t].op \in {"get", "put"} /\ call[t].id \in open
  <2>1. CASE ResumeSession(t)
    <3>1. /\ pc' = [pc EXCEPT ![t] = "leaving"]
          /\ result' = [result EXCEPT ![t] = YesOrNo(call[t].id \in open)]
      BY <2>1 DEF ResumeSession, Goes, Gives
    <3>2. YesOrNo(call[t].id \in open) \in {YesOrNo(TRUE), YesOrNo(FALSE)}
      BY DEF YesOrNo
    <3> QED
      BY <3>1, <3>2, ResultShape
  <2>2. CASE SessionNotFound(t)
    BY <2>2, ResultShape DEF SessionNotFound, Goes, Gives
  <2>3. CASE SessionFound(t)
    BY <2>3 DEF SessionFound, Goes
  <2> QED
    BY <2>1, <2>2, <2>3
<1>3. pc' \in [Threads -> Locations] /\ Exclusive'
  BY <1>1, <1>2, MovesInside DEF Within, cleanup
<1>4. TypeOK'
  BY <1>1, <1>2, <1>3 DEF IInv, TypeOK, table, cleanup
<1>5. Numbered' /\ Found' /\ Overdue'
  BY <1>1, <1>2 DEF IInv, TypeOK, Numbered, Found, Overdue, table, cleanup
<1>6. Answered'
  BY <1>1, <1>2 DEF IInv, TypeOK, Answered
<1> QED
  BY <1>3, <1>4, <1>5, <1>6 DEF IInv

LEMMA CloseSessionKeeps ==
    ASSUME IInv, NEW t \in Threads, CloseSession(t)
    PROVE  IInv'
<1>1. /\ pc[t] = "entered" /\ pc' = [pc EXCEPT ![t] = "leaving"]
      /\ result' = [result EXCEPT ![t] = Done]
      /\ call[t].id \in open
      /\ open' = open \ {call[t].id}
      /\ values' = [values EXCEPT ![call[t].id] = Blank]
      /\ idle' = [idle EXCEPT ![call[t].id] = 0]
      /\ UNCHANGED <<lock, nextSessionId, taken, call, cleanup, disposed>>
  BY DEF CloseSession, Goes, Gives, Drop
<1>2. pc' \in [Threads -> Locations] /\ Exclusive'
  BY <1>1, MovesInside DEF Within, cleanup
<1>3. /\ \A u \in Threads : u # t => pc[u] \notin Within
      /\ expired = {} /\ task # "removing"
  BY <1>1, Alone DEF IInv, Within
<1>4. TypeOK'
  <2>1. values' \in [Ids -> [Keys -> Values \cup {Nothing}]]
    BY <1>1 DEF IInv, TypeOK, Blank
  <2>2. idle' \in [Ids -> 0 .. SessionTimeout + 1]
    BY <1>1, TimeAssumption DEF IInv, TypeOK
  <2> QED
    BY <1>1, <1>2, <2>1, <2>2, ResultShape DEF IInv, TypeOK, cleanup
<1>5. Numbered' /\ Found' /\ Overdue'
  BY <1>1, <1>3 DEF IInv, TypeOK, Numbered, Found, Overdue, Within, cleanup
<1>6. Answered'
  BY <1>1, ResultShape DEF IInv, TypeOK, Answered
<1> QED
  BY <1>2, <1>4, <1>5, <1>6 DEF IInv

LEMMA GetSessionValueKeeps ==
    ASSUME IInv, NEW t \in Threads, GetSessionValue(t)
    PROVE  IInv'
<1>1. /\ pc[t] = "using" /\ pc' = [pc EXCEPT ![t] = "leaving"]
      /\ call[t].op = "get"
      /\ idle' = [idle EXCEPT ![call[t].id] = 0]
      /\ result' = [result EXCEPT ![t] = Retrieved(values[call[t].id][call[t].key])]
      /\ UNCHANGED <<lock, open, values, nextSessionId, taken, call, cleanup, disposed>>
  BY DEF GetSessionValue, Goes, Gives, Touch
<1>2. pc' \in [Threads -> Locations] /\ Exclusive'
  BY <1>1, MovesInside DEF Within, cleanup
<1>3. /\ expired = {} /\ task # "removing"
      /\ call[t].id \in Ids /\ call[t].key \in Keys
  <2>1. call[t] \in Requests
    BY <1>1 DEF IInv, TypeOK, Answered
  <2> QED
    BY <1>1, <2>1, Alone, RequestShape DEF IInv, TypeOK, Found, Within
<1>4. values[call[t].id][call[t].key] \in Values \cup {Nothing}
  BY <1>3 DEF IInv, TypeOK
<1>5. TypeOK'
  <2>1. result' \in [Threads -> Results]
    BY <1>1, <1>4, ResultShape DEF IInv, TypeOK
  <2>2. idle' \in [Ids -> 0 .. SessionTimeout + 1]
    <3>1. 0 \in 0 .. SessionTimeout + 1
      BY TimeAssumption
    <3>2. idle' = [idle EXCEPT ![call[t].id] = 0] /\ call[t].id \in Ids
      BY <1>1, <1>3
    <3> QED
      BY <3>1, <3>2 DEF IInv, TypeOK
  <2>3. UNCHANGED <<lock, open, values, nextSessionId, taken, call, cleanup, disposed>>
    BY <1>1
  <2> QED
    BY <1>2, <2>1, <2>2, <2>3 DEF IInv, TypeOK, cleanup
<1>6. Numbered' /\ Found' /\ Overdue'
  BY <1>1, <1>3 DEF IInv, TypeOK, Numbered, Found, Overdue, cleanup
<1>7. Answered'
  BY <1>1, <1>4, ResultShape DEF IInv, TypeOK, Answered
<1> QED
  BY <1>2, <1>5, <1>6, <1>7 DEF IInv

LEMMA PutSessionValueKeeps ==
    ASSUME IInv, NEW t \in Threads, PutSessionValue(t)
    PROVE  IInv'
<1>1. /\ pc[t] = "using" /\ pc' = [pc EXCEPT ![t] = "leaving"]
      /\ call[t].op = "put"
      /\ values' = [values EXCEPT ![call[t].id][call[t].key] = call[t].value]
      /\ idle' = [idle EXCEPT ![call[t].id] = 0]
      /\ result' = [result EXCEPT ![t] = Done]
      /\ UNCHANGED <<lock, open, nextSessionId, taken, call, cleanup, disposed>>
  BY DEF PutSessionValue, Goes, Gives, Touch
<1>2. pc' \in [Threads -> Locations] /\ Exclusive'
  BY <1>1, MovesInside DEF Within, cleanup
<1>3. /\ expired = {} /\ task # "removing"
      /\ call[t].id \in Ids /\ call[t].key \in Keys /\ call[t].value \in Values
  <2>1. call[t] \in Requests
    BY <1>1 DEF IInv, TypeOK, Answered
  <2> QED
    BY <1>1, <2>1, Alone, RequestShape DEF IInv, TypeOK, Found, Within
<1>4. TypeOK'
  <2>1. values' \in [Ids -> [Keys -> Values \cup {Nothing}]]
    BY <1>1, <1>3 DEF IInv, TypeOK
  <2> QED
    BY <1>1, <1>2, <2>1, ResultShape, TimeAssumption DEF IInv, TypeOK, cleanup
<1>5. Numbered' /\ Found' /\ Overdue'
  BY <1>1, <1>3 DEF IInv, TypeOK, Numbered, Found, Overdue, cleanup
<1>6. Answered'
  BY <1>1, ResultShape DEF IInv, TypeOK, Answered
<1> QED
  BY <1>2, <1>4, <1>5, <1>6 DEF IInv

(***************************************************************************)
(* The cleanup loop, disposal and time.                                    *)
(***************************************************************************)
LEMMA CleanupWaitsKeeps ==
    ASSUME IInv, CleanupLoops \/ CleanupWakes \/ CleanupCancelled
    PROVE  IInv'
<1>1. /\ task \in {"loop", "delay"} /\ task' \in {"ended", "delay", "calling"}
      /\ remaining' \in {remaining, CleanupInterval}
      /\ UNCHANGED <<lock, table, callers, expired, disposed>>
  BY DEF CleanupLoops, CleanupWakes, CleanupCancelled, CleanupGoes
<1>2. TypeOK'
  BY <1>1, TimeAssumption DEF IInv, TypeOK, table, callers
<1>3. Exclusive' /\ Overdue'
  BY <1>1 DEF IInv, Exclusive, Overdue, table, callers
<1>4. Numbered' /\ Found' /\ Answered'
  BY <1>1 DEF IInv, Numbered, Found, Answered, table, callers
<1> QED
  BY <1>2, <1>3, <1>4 DEF IInv

LEMMA CleanupEntersKeeps ==
    ASSUME IInv, CleanupEnters
    PROVE  IInv'
<1>1. /\ task = "calling" /\ task' = "removing"
      /\ lock = Unlocked /\ lock' = Cleaner
      /\ expired' = {s \in open : idle[s] > SessionTimeout}
      /\ UNCHANGED <<table, callers, remaining, disposed>>
  BY DEF CleanupEnters, CleanupGoes
<1>2. TypeOK'
  BY <1>1 DEF IInv, TypeOK, table, callers
<1>3. Exclusive' /\ Overdue'
  BY <1>1, LockAssumption DEF IInv, Exclusive, Overdue, table, callers
<1>4. Numbered' /\ Found' /\ Answered'
  BY <1>1 DEF IInv, Numbered, Found, Answered, table, callers
<1> QED
  BY <1>2, <1>3, <1>4 DEF IInv

LEMMA CleanupRemovesKeeps ==
    ASSUME IInv, CleanupRemoves
    PROVE  IInv'
<1>1. PICK s \in expired : Drop(s) /\ expired' = expired \ {s}
  BY DEF CleanupRemoves
<1>2. /\ task = "removing"
      /\ UNCHANGED <<lock, callers, task, remaining, disposed>>
  BY DEF CleanupRemoves
<1>3. /\ open' = open \ {s}
      /\ values' = [values EXCEPT ![s] = Blank]
      /\ idle' = [idle EXCEPT ![s] = 0]
      /\ nextSessionId' = nextSessionId
  BY <1>1 DEF Drop
<1>4. TypeOK'
  <2>1. values' \in [Ids -> [Keys -> Values \cup {Nothing}]]
    BY <1>3 DEF IInv, TypeOK, Blank
  <2>2. idle' \in [Ids -> 0 .. SessionTimeout + 1]
    BY <1>3, TimeAssumption DEF IInv, TypeOK
  <2> QED
    BY <1>1, <1>2, <1>3, <2>1, <2>2 DEF IInv, TypeOK, callers
<1>5. Exclusive' /\ Answered'
  BY <1>2 DEF IInv, Exclusive, Answered, callers
<1>6. Overdue'
  BY <1>1, <1>2, <1>3 DEF IInv, TypeOK, Overdue
<1>7. \A t \in Threads : pc[t] \notin Within
  BY <1>2, LockAssumption DEF IInv, Exclusive
<1>8. Numbered' /\ Found'
  BY <1>2, <1>3, <1>7 DEF IInv, Numbered, Found, Within, callers
<1> QED
  BY <1>4, <1>5, <1>6, <1>8 DEF IInv

LEMMA CleanupLeavesKeeps ==
    ASSUME IInv, CleanupLeaves
    PROVE  IInv'
<1>1. /\ task = "removing" /\ task' = "loop" /\ expired = {}
      /\ lock' = Unlocked
      /\ UNCHANGED <<table, callers, remaining, expired, disposed>>
  BY DEF CleanupLeaves, CleanupGoes
<1>2. TypeOK'
  BY <1>1 DEF IInv, TypeOK, table, callers
<1>3. Exclusive' /\ Overdue'
  BY <1>1, LockAssumption DEF IInv, Exclusive, Overdue, table, callers
<1>4. Numbered' /\ Found' /\ Answered'
  BY <1>1 DEF IInv, Numbered, Found, Answered, table, callers
<1> QED
  BY <1>2, <1>3, <1>4 DEF IInv

LEMMA DisposeKeeps ==
    ASSUME IInv, Dispose
    PROVE  IInv'
<1>1. UNCHANGED <<lock, table, callers, cleanup>>
  BY DEF Dispose
<1>2. disposed' \in BOOLEAN
  BY Zenon DEF Dispose
<1>3. TypeOK'
  BY <1>1, <1>2 DEF IInv, TypeOK, table, callers, cleanup
<1>4. Exclusive' /\ Numbered' /\ Found' /\ Overdue' /\ Answered'
  BY <1>1 DEF IInv, Exclusive, Numbered, Found, Overdue, Answered, table, callers, cleanup
<1> QED
  BY <1>3, <1>4 DEF IInv

LEMMA TickKeeps ==
    ASSUME IInv, Tick
    PROVE  IInv'
<1>1. UNCHANGED <<lock, open, values, nextSessionId, callers, task, expired, disposed>>
  BY DEF Tick
<1>2. /\ idle' \in [Ids -> 0 .. SessionTimeout + 1]
      /\ \A s \in Ids : idle[s] > SessionTimeout => idle'[s] > SessionTimeout
  BY TimeAssumption DEF Tick, IInv, TypeOK
<1>3. remaining' \in 0 .. CleanupInterval
  BY TimeAssumption DEF Tick, IInv, TypeOK
<1>4. TypeOK'
  BY <1>1, <1>2, <1>3 DEF IInv, TypeOK, callers
<1>5. Overdue'
  BY <1>1, <1>2 DEF IInv, TypeOK, Overdue
<1>6. Exclusive' /\ Numbered' /\ Found' /\ Answered'
  BY <1>1 DEF IInv, Exclusive, Numbered, Found, Answered, callers
<1> QED
  BY <1>4, <1>5, <1>6 DEF IInv

LEMMA StutterKeeps ==
    ASSUME IInv, UNCHANGED vars
    PROVE  IInv'
BY DEF IInv, vars, table, callers, cleanup, TypeOK, Exclusive, Numbered, Found, Overdue, Answered

LEMMA Inductive == IInv /\ [Next]_vars => IInv'
<1> SUFFICES ASSUME IInv, [Next]_vars PROVE IInv'
  OBVIOUS
<1>1. ASSUME NEW t \in Threads, Invoke(t) \/ Enter(t) \/ Inside(t)
      PROVE  IInv'
  BY <1>1, InvokeKeeps, EnterKeeps, TakeIdKeeps, InsertSessionKeeps, LookingKeeps,
     CloseSessionKeeps, GetSessionValueKeeps, PutSessionValueKeeps, LeaveKeeps DEF Inside
<1>2. CASE Cleanup
  BY <1>2, CleanupWaitsKeeps, CleanupEntersKeeps, CleanupRemovesKeeps, CleanupLeavesKeeps
     DEF Cleanup
<1> QED
  BY <1>1, <1>2, DisposeKeeps, TickKeeps, StutterKeeps DEF Next

LEMMA Invariant == Spec => []IInv
BY Initially, Inductive, PTL DEF Spec

(***************************************************************************)
(* The dictionary, the lock, the threads and the cleanup loop keep their   *)
(* types.                                                                  *)
(***************************************************************************)
THEOREM TypeCorrect == Spec => []TypeOK
<1>1. IInv => TypeOK
  BY DEF IInv
<1> QED
  BY <1>1, Invariant, PTL

(***************************************************************************)
(* Only OpenSession opens a session, and always the next one.              *)
(***************************************************************************)
LEMMA OpensTheNext ==
    ASSUME IInv, [Next]_vars
    PROVE  open' \subseteq open \cup {nextSessionId}
<1>1. ASSUME NEW t \in Threads, InsertSession(t)
      PROVE  open' = open \cup {nextSessionId}
  BY <1>1 DEF IInv, Numbered, InsertSession, Goes
<1>2. ASSUME NEW t \in Threads, CloseSession(t)
      PROVE  open' \subseteq open
  BY <1>2 DEF CloseSession, Drop
<1>3. CASE CleanupRemoves
  BY <1>3 DEF CleanupRemoves, Drop
<1>4. ASSUME NEW t \in Threads,
             \/ Invoke(t) \/ Enter(t) \/ TakeId(t) \/ ResumeSession(t) \/ SessionNotFound(t)
             \/ SessionFound(t) \/ GetSessionValue(t) \/ PutSessionValue(t) \/ Leave(t)
      PROVE  open' = open
  BY <1>4 DEF Invoke, Enter, TakeId, ResumeSession, SessionNotFound, SessionFound,
              GetSessionValue, PutSessionValue, Leave, table
<1>5. CASE CleanupLoops \/ CleanupWakes \/ CleanupCancelled \/ CleanupEnters \/ CleanupLeaves
           \/ Dispose \/ Tick \/ UNCHANGED vars
  BY <1>5 DEF CleanupLoops, CleanupWakes, CleanupCancelled, CleanupEnters, CleanupLeaves,
              Dispose, Tick, vars, table
<1> QED
  BY <1>1, <1>2, <1>3, <1>4, <1>5 DEF Next, Inside, Cleanup

(***************************************************************************)
(* Whatever the threads and the cleanup loop interleave, an id that was    *)
(* given out and is not open any more is never open again.                 *)
(***************************************************************************)
THEOREM IdsNeverReusedHolds == Spec => IdsNeverReused
<1>1. IInv /\ [Next]_vars => [ReuseStep]_vars
  <2> SUFFICES ASSUME IInv, [Next]_vars PROVE ReuseStep
    OBVIOUS
  <2>1. nextSessionId \in Nat
    BY SessionAssumption DEF IInv, TypeOK
  <2> QED
    BY <2>1, OpensTheNext DEF ReuseStep
<1> QED
  BY <1>1, Invariant, PTL DEF Spec, IdsNeverReused

(***************************************************************************)
(* The cleanup loop removes only sessions that were not used within the    *)
(* timeout.                                                                *)
(***************************************************************************)
THEOREM SweepSparesUsedHolds == Spec => SweepSparesUsed
<1>1. IInv => SweepStep
  BY DEF IInv, Overdue, SweepStep, CleanupRemoves, Drop
<1> QED
  BY <1>1, Invariant, PTL DEF SweepSparesUsed

(***************************************************************************)
(* The store and the class speak of the same calls and results.            *)
(***************************************************************************)
LEMMA SameCalls ==
    /\ Store!Ids = Ids /\ Store!Blank = Blank
    /\ Store!NoCall = NoCall /\ Store!Requests = Requests
    /\ Store!Pending = Pending /\ Store!Done = Done /\ Store!Thrown = Thrown
    /\ \A s : Store!NewId(s) = NewId(s)
    /\ \A v : Store!Retrieved(v) = Retrieved(v)
BY DEF Ids, Store!Ids, Blank, Store!Blank, NoCall, Store!NoCall, Requests, Store!Requests,
       Call, Store!Call, AnyId, Store!AnyId, Pending, Store!Pending, Done, Store!Done,
       Thrown, Store!Thrown, NewId, Store!NewId, Retrieved, Store!Retrieved,
       Result, Store!Result

(***************************************************************************)
(* The steps that work on the table, seen from outside.                    *)
(***************************************************************************)
LEMMA InsertIsOpen ==
    ASSUME IInv, NEW t \in Threads, InsertSession(t)
    PROVE  Store!Open(t)
<1>1. /\ taken[t] = nextSessionId /\ call[t].op = "open" /\ result[t] = Pending
      /\ nextSessionId \in Nat \ {0} /\ nextSessionId <= MaxSessions
  BY SessionAssumption DEF IInv, TypeOK, Numbered, Answered, InsertSession, Goes
<1>2. nextSessionId \in Ids \ (1 .. nextSessionId - 1)
  BY <1>1, SessionAssumption DEF Ids
<1>3. (1 .. nextSessionId' - 1) = (1 .. nextSessionId - 1) \cup {nextSessionId}
  BY <1>1 DEF InsertSession
<1>4. Store!Answer(t, "open", NewId(nextSessionId))
  BY <1>1, SameCalls DEF InsertSession, Gives, Store!Answer
<1>5. open' = open \cup {nextSessionId} /\ values' = [values EXCEPT ![nextSessionId] = Blank]
  BY <1>1 DEF InsertSession
<1> QED
  BY <1>2, <1>3, <1>4, <1>5, SameCalls DEF Store!Open

LEMMA InsideIsStoreStep ==
    ASSUME IInv, NEW t \in Threads
    PROVE  /\ Invoke(t) => Store!Invoke(t)
           /\ ResumeSession(t) => Store!Resume(t)
           /\ CloseSession(t) => Store!Close(t)
           /\ SessionNotFound(t) => Store!Refuse(t)
           /\ GetSessionValue(t) => Store!Get(t)
           /\ PutSessionValue(t) => Store!Put(t)
           /\ Leave(t) => Store!Return(t)
<1>1. Invoke(t) => Store!Invoke(t)
  BY SameCalls DEF IInv, Answered, Invoke, Goes, table, Store!Invoke
<1>2. ResumeSession(t) => Store!Resume(t)
  BY SameCalls DEF IInv, Answered, ResumeSession, Goes, Gives, table, YesOrNo, Store!YesOrNo,
                 Result, Store!Result, Store!Resume, Store!Answer
<1>3. CloseSession(t) => Store!Close(t)
  BY SameCalls DEF IInv, Answered, CloseSession, Goes, Gives, Drop, Store!Close, Store!Answer, Store!Drop
<1>4. SessionNotFound(t) => Store!Refuse(t)
  BY SameCalls DEF IInv, Answered, SessionNotFound, Goes, Gives, table, Store!Refuse, Store!Answer
<1>5. GetSessionValue(t) => Store!Get(t)
  BY SameCalls DEF IInv, Answered, Found, GetSessionValue, Goes, Gives, Store!Get, Store!Answer
<1>6. PutSessionValue(t) => Store!Put(t)
  BY SameCalls DEF IInv, Answered, Found, PutSessionValue, Goes, Gives, Store!Put, Store!Answer
<1>7. Leave(t) => Store!Return(t)
  BY SameCalls DEF IInv, Answered, Leave, Goes, Gives, table, Store!Return
<1> QED
  BY <1>1, <1>2, <1>3, <1>4, <1>5, <1>6, <1>7

LEMMA RemoveIsExpire ==
    ASSUME IInv, CleanupRemoves
    PROVE  Store!Expire
<1>1. PICK s \in expired : Drop(s)
  BY DEF CleanupRemoves
<1>2. s \in open /\ UNCHANGED <<call, result>>
  BY <1>1 DEF IInv, Overdue, CleanupRemoves, callers
<1> QED
  BY <1>1, <1>2, SameCalls DEF Drop, Store!Expire, Store!Drop

LEMMA OtherStepsStutter ==
    ASSUME \/ \E t \in Threads : Enter(t) \/ TakeId(t) \/ SessionFound(t)
           \/ CleanupLoops \/ CleanupWakes \/ CleanupCancelled
           \/ CleanupEnters \/ CleanupLeaves
           \/ Dispose \/ Tick
           \/ UNCHANGED vars
    PROVE  UNCHANGED Store!vars
BY DEF Enter, TakeId, SessionFound, CleanupLoops, CleanupWakes, CleanupCancelled,
       CleanupEnters, CleanupLeaves, Dispose, Tick, vars, table, callers, Store!vars

(***************************************************************************)
(* Class SessionTable is the thread-safe collection it promises to be: for *)
(* any number of threads it does nothing SessionStore does not.            *)
(***************************************************************************)
THEOREM StoreImplemented == Spec => ImplementsStore
<1>1. Init => Store!Init
  BY SameCalls DEF Init, Store!Init
<1>2. IInv /\ [Next]_vars => [Store!Next]_Store!vars
  <2> SUFFICES ASSUME IInv, [Next]_vars PROVE [Store!Next]_Store!vars
    OBVIOUS
  <2>1. ASSUME NEW t \in Threads,
               \/ Invoke(t) \/ InsertSession(t) \/ ResumeSession(t) \/ CloseSession(t)
               \/ SessionNotFound(t) \/ GetSessionValue(t) \/ PutSessionValue(t) \/ Leave(t)
        PROVE  Store!Next
    BY <2>1, InsertIsOpen, InsideIsStoreStep DEF Store!Next
  <2>2. CASE CleanupRemoves
    BY <2>2, RemoveIsExpire DEF Store!Next
  <2> QED
    BY <2>1, <2>2, OtherStepsStutter DEF Next, Inside, Cleanup
<1> QED
  BY <1>1, <1>2, Invariant, PTL DEF Spec, ImplementsStore, Store!Spec

===============================================================================
