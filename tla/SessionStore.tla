----------------------------- MODULE SessionStore -----------------------------
(***************************************************************************)
(* What class SessionTable promises: every call takes effect at once, at   *)
(* some moment between its invocation and its return.  An id is given out  *)
(* once and never again; a session that was closed, or that expired, stays *)
(* closed; a session's values are its own.  No locks, no time: a session   *)
(* nobody closed may drop out at any moment.                               *)
(***************************************************************************)
EXTENDS SessionCalls

VARIABLES
    open,     \* ids of the sessions that are open
    issued,   \* ids ever given out
    values,   \* per id, the value stored under each key
    call,     \* per thread, the call it is in
    result    \* per thread, what the call gives back

vars == <<open, issued, values, call, result>>

Init ==
    /\ open = {}
    /\ issued = {}
    /\ values = [s \in Ids |-> Blank]
    /\ call = [t \in Threads |-> NoCall]
    /\ result = [t \in Threads |-> Pending]

Invoke(t) ==
    /\ call[t] = NoCall
    /\ \E request \in Requests : call' = [call EXCEPT ![t] = request]
    /\ UNCHANGED <<open, issued, values, result>>

Answer(t, op, outcome) ==
    /\ result[t] = Pending
    /\ call[t].op = op
    /\ result' = [result EXCEPT ![t] = outcome]
    /\ UNCHANGED call

Open(t) ==
    \E s \in Ids \ issued :
        /\ Answer(t, "open", NewId(s))
        /\ open' = open \cup {s}
        /\ issued' = issued \cup {s}
        /\ values' = [values EXCEPT ![s] = Blank]

Resume(t) ==
    /\ Answer(t, "resume", YesOrNo(call[t].id \in open))
    /\ UNCHANGED <<open, issued, values>>

Drop(s) ==
    /\ open' = open \ {s}
    /\ values' = [values EXCEPT ![s] = Blank]
    /\ UNCHANGED issued

Close(t) ==
    /\ call[t].id \in open
    /\ Answer(t, "close", Done)
    /\ Drop(call[t].id)

Get(t) ==
    /\ call[t].id \in open
    /\ Answer(t, "get", Retrieved(values[call[t].id][call[t].key]))
    /\ UNCHANGED <<open, issued, values>>

Put(t) ==
    /\ call[t].id \in open
    /\ Answer(t, "put", Done)
    /\ values' = [values EXCEPT ![call[t].id][call[t].key] = call[t].value]
    /\ UNCHANGED <<open, issued>>

\* The session is not open: SessionException.
Refuse(t) ==
    /\ call[t].id \notin open
    /\ \E op \in {"close", "get", "put"} : Answer(t, op, Thrown)
    /\ UNCHANGED <<open, issued, values>>

Return(t) ==
    /\ result[t] # Pending
    /\ call' = [call EXCEPT ![t] = NoCall]
    /\ result' = [result EXCEPT ![t] = Pending]
    /\ UNCHANGED <<open, issued, values>>

Expire ==
    /\ \E s \in open : Drop(s)
    /\ UNCHANGED <<call, result>>

Next ==
    \/ \E t \in Threads :
          Invoke(t) \/ Open(t) \/ Resume(t) \/ Close(t) \/ Get(t) \/ Put(t)
                    \/ Refuse(t) \/ Return(t)
    \/ Expire

Spec == Init /\ [][Next]_vars

===============================================================================
