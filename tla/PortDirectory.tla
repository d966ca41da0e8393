---------------------------- MODULE PortDirectory ----------------------------
(***************************************************************************)
(* What the Port Reservation Server promises, without clocks, timestamps   *)
(* or entries: a directory of who holds which port.  Holders may drop out  *)
(* whenever the directory is addressed; what is left determines the answer.*)
(***************************************************************************)
EXTENDS Integers

CONSTANTS
    Slots,      \* the ports handed out
    Nameable,   \* the ports a caller may name
    Services,   \* the service names
    Nameless,   \* the empty service name, not in Services
    Nobody      \* the holder of a free port

VARIABLES
    holder,     \* who holds each port
    answer,     \* the answer given by the last step
    shut        \* no more answers are given

dirvars == <<holder, answer, shut>>

Callers == Services \cup {Nameless}

Answer(asked, service, port, status) ==
    [asked |-> asked, service |-> service, port |-> port, status |-> status]

Silence == Answer("RESPONSE", Nameless, 0, "null")

Init ==
    /\ holder = [p \in Slots |-> Nobody]
    /\ answer = Silence
    /\ shut = FALSE

\* The holders of the ports in D drop out.
Without(D) == [p \in Slots |-> IF p \in D THEN Nobody ELSE holder[p]]

HeldBy(held, service) == {p \in Slots : held[p] = service}

Least(p, S) == p \in S /\ \A q \in S : p <= q

(***************************************************************************)
(* A service is granted the least free port unless it holds one already.   *)
(***************************************************************************)
Grant(held, service) ==
    \E p \in Slots :
        /\ HeldBy(held, service) = {}
        /\ Least(p, HeldBy(held, Nobody))
        /\ holder' = [held EXCEPT ![p] = service]
        /\ answer' = Answer("REQUEST_PORT", service, p, "SUCCESS")

RefuseHolder(held, service) ==
    \E p \in Slots :
        /\ HeldBy(held, service) = {p}
        /\ holder' = held
        /\ answer' = Answer("REQUEST_PORT", service, p, "SERVICE_IN_USE")

RefuseFull(held, service) ==
    /\ HeldBy(held, service) = {}
    /\ HeldBy(held, Nobody) = {}
    /\ holder' = held
    /\ answer' = Answer("REQUEST_PORT", service, 0, "ALL_PORTS_BUSY")

Verdict(holds) == IF holds THEN "SUCCESS" ELSE "SERVICE_NOT_FOUND"

Renew(held, service, port) ==
    /\ holder' = held
    /\ answer' = Answer("KEEP_ALIVE", service, port,
                        Verdict(port \in HeldBy(held, service)))

\* Whoever names a held port frees it; port 0 cannot be named.
Release(held, service, port) ==
    LET names == port \in Slots \ (HeldBy(held, Nobody) \cup {0})
    IN  /\ holder' = IF names THEN [held EXCEPT ![port] = Nobody] ELSE held
        /\ answer' = Answer("CLOSE_PORT", service, port, Verdict(names))

Find(held, service) ==
    /\ service # Nameless
    /\ holder' = held
    /\ IF HeldBy(held, service) = {}
       THEN answer' = Answer("LOOKUP_PORT", service, 0, "SERVICE_NOT_FOUND")
       ELSE \E p \in Slots :
              /\ HeldBy(held, service) = {p}
              /\ answer' = Answer("LOOKUP_PORT", service, p, "SUCCESS")

\* Nothing is promised to a caller that looks for the empty name.
FindNameless(held) ==
    /\ holder' = held
    /\ \E p \in Slots \cup {0}, status \in {"SUCCESS", "SERVICE_NOT_FOUND"} :
          answer' = Answer("LOOKUP_PORT", Nameless, p, status)

Reply(held) ==
    /\ shut' = FALSE
    /\ \/ \E service \in Callers :
             \/ Grant(held, service)
             \/ RefuseHolder(held, service)
             \/ RefuseFull(held, service)
             \/ \E port \in Nameable : Renew(held, service, port)
             \/ \E port \in Nameable : Release(held, service, port)
             \/ Find(held, service)
       \/ FindNameless(held)

Shut(held) ==
    /\ shut' = TRUE
    /\ holder' = held
    /\ answer' = Answer("STOP", Nameless, 0, "SUCCESS")

Ignore(held) ==
    /\ shut' = FALSE
    /\ holder' = held
    /\ answer' = Silence

Address ==
    /\ ~shut
    /\ \E held \in {Without(D) : D \in SUBSET Slots} :
          Reply(held) \/ Shut(held) \/ Ignore(held)

\* Between two messages nothing happens to the holders.
Rest ==
    /\ answer' = Silence
    /\ UNCHANGED <<holder, shut>>

Next == Address \/ Rest

Spec == Init /\ [][Next]_dirvars

===============================================================================
