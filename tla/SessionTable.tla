----------------------------- MODULE SessionTable -----------------------------
(***************************************************************************)
(* Class SessionTable: the dictionary of sessions, the lock that guards    *)
(* it, the threads that call it and the cleanup loop that runs beside      *)
(* them.  A call enters the lock, works on the table in steps and leaves;  *)
(* nothing but the lock keeps other threads out in between.                *)
(***************************************************************************)
EXTENDS SessionCalls

CONSTANTS
    SessionTimeout,   \* ticks a session survives without being used
    CleanupInterval,  \* ticks between two sweeps of the cleanup loop
    Cleaner,          \* the cleanup loop, as a holder of the lock
    Unlocked

ASSUME TimeAssumption ==
    /\ SessionTimeout \in Nat
    /\ CleanupInterval \in Nat

ASSUME LockAssumption == Cleaner \notin Threads /\ Unlocked \notin Threads \cup {Cleaner}

VARIABLES
    lock,           \* who is inside lock (_lock)
    open,           \* the keys of sessions
    values,         \* Session.Values, by session id
    idle,           \* ticks since Session.LastAccessed
    nextSessionId,
    pc,             \* where each thread is
    taken,          \* the local variable sessionId of OpenSession
    call, result,   \* what each thread asked for and what it gets
    task,           \* where the cleanup loop is
    remaining,      \* ticks left of its delay
    expired,        \* its local list
    disposed        \* was cleanupTokenSource cancelled

table == <<open, values, idle, nextSessionId>>
callers == <<pc, taken, call, result>>
cleanup == <<task, remaining, expired>>
vars == <<lock, table, callers, cleanup, disposed>>

Locations == {"outside", "calling", "entered", "inserting", "using", "leaving"}

TypeOK ==
    /\ lock \in Threads \cup {Cleaner, Unlocked}
    /\ open \subseteq Ids
    /\ values \in [Ids -> [Keys -> Values \cup {Nothing}]]
    /\ idle \in [Ids -> 0 .. SessionTimeout + 1]
    /\ nextSessionId \in 1 .. MaxSessions + 1
    /\ pc \in [Threads -> Locations]
    /\ taken \in [Threads -> AnyId]
    /\ call \in [Threads -> Requests \cup {NoCall}]
    /\ result \in [Threads -> Results]
    /\ task \in {"loop", "delay", "calling", "removing", "ended"}
    /\ remaining \in 0 .. CleanupInterval
    /\ expired \subseteq Ids
    /\ disposed \in BOOLEAN

Init ==
    /\ lock = Unlocked
    /\ open = {}
    /\ values = [s \in Ids |-> Blank]
    /\ idle = [s \in Ids |-> 0]
    /\ nextSessionId = 1
    /\ pc = [t \in Threads |-> "outside"]
    /\ taken = [t \in Threads |-> 0]
    /\ call = [t \in Threads |-> NoCall]
    /\ result = [t \in Threads |-> Pending]
    /\ task = "loop"
    /\ remaining = 0
    /\ expired = {}
    /\ disposed = FALSE

Goes(t, from, to) ==
    /\ pc[t] = from
    /\ pc' = [pc EXCEPT ![t] = to]

Gives(t, outcome) == result' = [result EXCEPT ![t] = outcome]

\* The Session object is gone, with its values and its time of last access.
Drop(s) ==
    /\ open' = open \ {s}
    /\ values' = [values EXCEPT ![s] = Blank]
    /\ idle' = [idle EXCEPT ![s] = 0]
    /\ UNCHANGED nextSessionId

Touch(s) == idle' = [idle EXCEPT ![s] = 0]
-------------------------------------------------------------------------------
Invoke(t) ==
    /\ Goes(t, "outside", "calling")
    /\ \E request \in Requests : call' = [call EXCEPT ![t] = request]
    /\ UNCHANGED <<lock, table, taken, result, cleanup, disposed>>

\* A slip for the mutation runs: the body runs outside the lock.
EnterUnlocked(t) ==
    /\ Goes(t, "calling", "entered")
    /\ call[t].op = "open" => nextSessionId <= MaxSessions
    /\ UNCHANGED <<lock, table, taken, call, result, cleanup, disposed>>

\* The bound on the number of sessions keeps a thread out of the lock.
Enter(t) ==
    /\ Goes(t, "calling", "entered")
    /\ call[t].op = "open" => nextSessionId <= MaxSessions
    /\ lock = Unlocked
    /\ lock' = t
    /\ UNCHANGED <<table, taken, call, result, cleanup, disposed>>

\* A slip for the mutation runs: the ids of closed sessions are given out again.
TakeFreeId(t) ==
    /\ call[t].op = "open"
    /\ Goes(t, "entered", "inserting")
    /\ taken' = [taken EXCEPT ![t] = IF Ids \subseteq open THEN nextSessionId
                                     ELSE CHOOSE s \in Ids \ open : TRUE]
    /\ UNCHANGED <<lock, table, call, result, cleanup, disposed>>

TakeId(t) ==
    /\ call[t].op = "open"
    /\ Goes(t, "entered", "inserting")
    /\ taken' = [taken EXCEPT ![t] = nextSessionId]
    /\ UNCHANGED <<lock, table, call, result, cleanup, disposed>>

InsertSession(t) ==
    /\ Goes(t, "inserting", "leaving")
    /\ nextSessionId' = taken[t] + 1
    /\ open' = open \cup {taken[t]}
    /\ values' = [values EXCEPT ![taken[t]] = Blank]
    /\ Touch(taken[t])
    /\ Gives(t, NewId(taken[t]))
    /\ taken' = [taken EXCEPT ![t] = 0]
    /\ UNCHANGED <<lock, call, cleanup, disposed>>

ResumeSession(t) ==
    /\ call[t].op = "resume"
    /\ Goes(t, "entered", "leaving")
    /\ Gives(t, YesOrNo(call[t].id \in open))
    /\ UNCHANGED <<lock, table, taken, call, cleanup, disposed>>

CloseSession(t) ==
    /\ call[t].op = "close"
    /\ call[t].id \in open
    /\ Goes(t, "entered", "leaving")
    /\ Gives(t, Done)
    /\ Drop(call[t].id)
    /\ UNCHANGED <<lock, taken, call, cleanup, disposed>>

SessionNotFound(t) ==
    /\ call[t].op \in {"close", "get", "put"}
    /\ call[t].id \notin open
    /\ Goes(t, "entered", "leaving")
    /\ Gives(t, Thrown)
    /\ UNCHANGED <<lock, table, taken, call, cleanup, disposed>>

\* TryGetValue found the session; the method goes on with the object.
SessionFound(t) ==
    /\ call[t].op \in {"get", "put"}
    /\ call[t].id \in open
    /\ Goes(t, "entered", "using")
    /\ UNCHANGED <<lock, table, taken, call, result, cleanup, disposed>>

GetSessionValue(t) ==
    /\ call[t].op = "get"
    /\ Goes(t, "using", "leaving")
    /\ Touch(call[t].id)
    /\ Gives(t, Retrieved(values[call[t].id][call[t].key]))
    /\ UNCHANGED <<lock, open, values, nextSessionId, taken, call, cleanup, disposed>>

PutSessionValue(t) ==
    /\ call[t].op = "put"
    /\ Goes(t, "using", "leaving")
    /\ values' = [values EXCEPT ![call[t].id][call[t].key] = call[t].value]
    /\ Touch(call[t].id)
    /\ Gives(t, Done)
    /\ UNCHANGED <<lock, open, nextSessionId, taken, call, cleanup, disposed>>

Leave(t) ==
    /\ Goes(t, "leaving", "outside")
    /\ lock' = Unlocked
    /\ Gives(t, Pending)
    /\ call' = [call EXCEPT ![t] = NoCall]
    /\ UNCHANGED <<table, taken, cleanup, disposed>>
-------------------------------------------------------------------------------
CleanupGoes(from, to) == task = from /\ task' = to

\* A slip for the mutation runs: one sweep, no loop.
CleanupOnce ==
    /\ CleanupGoes("loop", IF disposed \/ nextSessionId > 1 THEN "ended" ELSE "delay")
    /\ remaining' = CleanupInterval
    /\ UNCHANGED <<lock, table, callers, expired, disposed>>

\* The loop's condition, then the delay begins.
CleanupLoops ==
    /\ CleanupGoes("loop", IF disposed THEN "ended" ELSE "delay")
    /\ remaining' = CleanupInterval
    /\ UNCHANGED <<lock, table, callers, expired, disposed>>

CleanupWakes ==
    /\ remaining = 0
    /\ CleanupGoes("delay", "calling")
    /\ UNCHANGED <<lock, table, callers, remaining, expired, disposed>>

\* The delay throws TaskCanceledException.
CleanupCancelled ==
    /\ disposed
    /\ CleanupGoes("delay", "ended")
    /\ UNCHANGED <<lock, table, callers, remaining, expired, disposed>>

\* A slip for the mutation runs: the scan does not wait for the lock.
ScanUnlocked ==
    /\ CleanupGoes("calling", "removing")
    /\ expired' = {s \in open : idle[s] > SessionTimeout}
    /\ UNCHANGED <<lock, table, callers, remaining, disposed>>

CleanupEnters ==
    /\ CleanupGoes("calling", "removing")
    /\ lock = Unlocked
    /\ lock' = Cleaner
    /\ expired' = {s \in open : idle[s] > SessionTimeout}
    /\ UNCHANGED <<table, callers, remaining, disposed>>

CleanupRemoves ==
    /\ task = "removing"
    /\ \E s \in expired :
          /\ Drop(s)
          /\ expired' = expired \ {s}
    /\ UNCHANGED <<lock, callers, task, remaining, disposed>>

CleanupLeaves ==
    /\ expired = {}
    /\ CleanupGoes("removing", "loop")
    /\ lock' = Unlocked
    /\ UNCHANGED <<table, callers, remaining, expired, disposed>>

Dispose ==
    /\ ~disposed
    /\ disposed' = TRUE
    /\ UNCHANGED <<lock, table, callers, cleanup>>

Tick ==
    /\ idle' = [s \in Ids |->
                   IF s \in open /\ idle[s] <= SessionTimeout THEN idle[s] + 1 ELSE idle[s]]
    /\ remaining' = IF remaining = 0 THEN 0 ELSE remaining - 1
    /\ UNCHANGED <<lock, open, values, nextSessionId, callers, task, expired, disposed>>

Inside(t) ==
    \/ TakeId(t) \/ InsertSession(t)
    \/ ResumeSession(t)
    \/ CloseSession(t)
    \/ SessionNotFound(t)
    \/ SessionFound(t) \/ GetSessionValue(t) \/ PutSessionValue(t)
    \/ Leave(t)

Cleanup ==
    \/ CleanupLoops \/ CleanupWakes \/ CleanupCancelled
    \/ CleanupEnters \/ CleanupRemoves \/ CleanupLeaves

Next ==
    \/ \E t \in Threads : Invoke(t) \/ Enter(t) \/ Inside(t)
    \/ Cleanup
    \/ Dispose
    \/ Tick

Spec == Init /\ [][Next]_vars

\* Threads inside the lock go on, time passes, and a loop that queues for a
\* lock that is released again and again gets it: the runtime's monitor
\* stops overtaking once a waiter has waited too long.
Fairness ==
    /\ \A t \in Threads : WF_vars(Inside(t))
    /\ SF_vars(CleanupEnters)
    /\ WF_vars(Cleanup)
    /\ WF_vars(Tick)

FairSpec == Spec /\ Fairness
-------------------------------------------------------------------------------
(***************************************************************************)
(* Session ids are never reused: no step of any thread opens a session     *)
(* under an id that was given out before and is not open any more.         *)
(***************************************************************************)
ReuseStep == \A s \in 1 .. nextSessionId - 1 : s \notin open => s \notin open'

IdsNeverReused == [][ReuseStep]_vars

(***************************************************************************)
(* The cleanup loop takes no session that was used within the timeout,     *)
(* even when a thread uses it between the loop's scan and its removal.     *)
(***************************************************************************)
SweepStep ==
    CleanupRemoves => \A s \in open \ open' : idle[s] > SessionTimeout

SweepSparesUsed == [][SweepStep]_vars

(***************************************************************************)
(* A session nobody uses does not stay for ever: the loop removes it, for  *)
(* as long as the table is not disposed of.                                *)
(***************************************************************************)
AbandonedGoes ==
    \A s \in Ids : []<>(s \notin open \/ idle[s] <= SessionTimeout \/ disposed)

(***************************************************************************)
(* The table is the "thread safe collection" its comment promises: its     *)
(* calls take effect one at a time, as SessionStore says, whatever the     *)
(* threads and the cleanup loop interleave.                                *)
(***************************************************************************)
Store == INSTANCE SessionStore WITH issued <- 1 .. nextSessionId - 1

ImplementsStore == Store!Spec

===============================================================================
